-------------------------- MODULE SwarmEngineProofs --------------------------
(***************************************************************************)
(* Machine-checked proofs about SwarmEngine, for any plan, any options of  *)
(* its runs, any failures and any number of runs.                          *)
(*                                                                         *)
(* Among and Batches are recursive functions; that they are what their     *)
(* recursion says, and what they compute for every sequence, is proved by  *)
(* an induction over sets of numbers that the library's well-founded       *)
(* minimum gives.                                                          *)
(***************************************************************************)
EXTENDS SwarmEngine, FiniteSetTheorems, SequenceTheorems, WellFoundedInduction, TLAPS

-----------------------------------------------------------------------------
(* Induction and recursion.                                                *)

\* A set of natural numbers has a least element.
LEMMA LeastElement ==
  ASSUME NEW T, T \subseteq Nat, T # {}
  PROVE  \E n \in T : \A k \in T : ~(k < n)
<1> DEFINE R == {ss \in Nat \X Nat : ss[1] < ss[2]}
<1>1. IsWellFoundedOn(R, Nat)
  BY NatLessThanWellFounded DEF OpToRel
<1>2. \A x, y \in Nat : <<y, x>> \in R <=> y < x
  OBVIOUS
<1> HIDE DEF R
<1>3. \E x \in T : \A y \in T : ~(<<y, x>> \in R)
  BY <1>1, WFMin
<1>4. QED
  BY <1>2, <1>3

\* Induction over the natural numbers, for a set.
LEMMA Induction ==
  ASSUME NEW S, 0 \in S, \A n \in Nat : n \in S => n + 1 \in S
  PROVE  Nat \subseteq S
<1> SUFFICES ASSUME NEW m \in Nat, m \notin S PROVE FALSE
  OBVIOUS
<1>1. PICK n \in Nat \ S : \A k \in Nat \ S : ~(k < n)
  BY LeastElement
<1>2. n # 0 /\ n - 1 \in Nat /\ n - 1 < n
  BY <1>1
<1>3. n - 1 \in S
  BY <1>1, <1>2
<1>4. (n - 1) + 1 \in S
  BY <1>2, <1>3
<1>5. QED
  BY <1>1, <1>4

\* f starts with x and goes on by steps, up to n.
Iterates(f, n, X, x, step) ==
  f \in [0..n -> X] /\ f[0] = x /\ \A i \in 1..n : f[i] = step[i][f[i - 1]]

\* Such a function exists.
LEMMA Recursion ==
  ASSUME NEW n \in Nat, NEW X, NEW x \in X, NEW step \in [1..n -> [X -> X]]
  PROVE  \E f : Iterates(f, n, X, x, step)
<1> DEFINE S == {k \in Nat : k <= n => \E f : Iterates(f, k, X, x, step)}
<1>1. 0 \in S
  <2> DEFINE f == [i \in 0..0 |-> x]
  <2>1. Iterates(f, 0, X, x, step)
    BY DEF Iterates
  <2>2. QED
    BY <2>1
<1>2. ASSUME NEW k \in Nat, k \in S
      PROVE  k + 1 \in S
  <2> SUFFICES ASSUME k + 1 <= n
               PROVE  \E f : Iterates(f, k + 1, X, x, step)
    OBVIOUS
  <2>1. PICK f : Iterates(f, k, X, x, step)
    BY <1>2
  <2> DEFINE g == [i \in 0..(k + 1) |-> IF i = k + 1 THEN step[i][f[k]] ELSE f[i]]
  <2>2. g \in [0..(k + 1) -> X] /\ g[0] = x
    BY <2>1 DEF Iterates
  <2>3. ASSUME NEW i \in 1..(k + 1)
        PROVE  g[i] = step[i][g[i - 1]]
    <3>1. CASE i = k + 1
      <4>1. g[i] = step[i][f[k]] /\ g[i - 1] = f[k]
        BY <3>1
      <4>2. QED
        BY <4>1
    <3>2. CASE i \in 1..k
      <4>1. g[i] = f[i] /\ g[i - 1] = f[i - 1]
        BY <3>2
      <4>2. f[i] = step[i][f[i - 1]]
        BY <2>1, <3>2 DEF Iterates
      <4>3. QED
        BY <4>1, <4>2
    <3>3. QED
      BY <3>1, <3>2
  <2> HIDE DEF g
  <2>4. Iterates(g, k + 1, X, x, step)
    BY <2>2, <2>3 DEF Iterates
  <2>5. QED
    BY <2>4
<1>3. n \in S
  <2> HIDE DEF S
  <2>1. QED
    BY <1>1, <1>2, Induction
<1>4. QED
  BY <1>3

\* f filters the first elements of s.
Filters(f, s, S) ==
  /\ f[0] = <<>>
  /\ \A i \in 1..Len(s) : f[i] = IF s[i] \in S THEN Append(f[i - 1], s[i]) ELSE f[i - 1]

\* Among is what its recursion says.
LEMMA AmongUnfolds ==
  ASSUME NEW X, NEW s \in Seq(X), NEW S
  PROVE  \E f \in [0..Len(s) -> Seq(X)] : Filters(f, s, S) /\ Among(s, S) = f[Len(s)]
<1> DEFINE n == Len(s)
           Is(f) == f = [i \in 0..n |->
                           IF i = 0 THEN <<>>
                           ELSE IF s[i] \in S THEN Append(f[i - 1], s[i]) ELSE f[i - 1]]
           F == CHOOSE f : Is(f)
           Y == Seq(X)
           y == <<>>
           step == [i \in 1..n |-> [t \in Y |-> IF s[i] \in S THEN Append(t, s[i]) ELSE t]]
<1>1. Among(s, S) = F[n]
  BY DEF Among
<1>2. n \in Nat /\ \A i \in 1..n : s[i] \in X
  OBVIOUS
<1>3. step \in [1..n -> [Y -> Y]]
  BY <1>2, AppendProperties
<1>4. y \in Y
  OBVIOUS
<1>5. \A i \in 1..n, t \in Y : step[i][t] = IF s[i] \in S THEN Append(t, s[i]) ELSE t
  OBVIOUS
<1> HIDE DEF step, n, y, Y
<1>6. PICK f : Iterates(f, n, Y, y, step)
  BY <1>2, <1>3, <1>4, Recursion
<1>7. f \in [0..n -> Y] /\ f[0] = y
  BY <1>6 DEF Iterates
<1>8. \A i \in 1..n : f[i] = IF s[i] \in S THEN Append(f[i - 1], s[i]) ELSE f[i - 1]
  <2>1. ASSUME NEW i \in 1..n
        PROVE  f[i] = IF s[i] \in S THEN Append(f[i - 1], s[i]) ELSE f[i - 1]
    <3>1. f[i - 1] \in Y /\ f[i] = step[i][f[i - 1]]
      BY <1>2, <1>6, <1>7 DEF Iterates
    <3>2. QED
      BY <1>5, <3>1
  <2>2. QED
    BY <2>1
<1>9. Is(f)
  <2>1. ASSUME NEW i \in 0..n
        PROVE  f[i] = IF i = 0 THEN <<>>
                      ELSE IF s[i] \in S THEN Append(f[i - 1], s[i]) ELSE f[i - 1]
    <3>1. CASE i = 0
      BY <1>7, <3>1 DEF y
    <3>2. CASE i # 0
      <4>1. i \in 1..n
        BY <1>2, <3>2
      <4>2. QED
        BY <1>8, <3>2, <4>1
    <3>3. QED
      BY <3>1, <3>2
  <2>2. QED
    BY <1>7, <2>1
<1>10. Is(F)
  <2> HIDE DEF Is
  <2>1. QED
    BY <1>9
<1> HIDE DEF F
<1>11. f = F
  <2>1. F = [i \in 0..n |-> F[i]] /\ 0 \in 0..n
    BY <1>2, <1>10
  <2>2. ASSUME NEW k \in 0..n
        PROVE  F[k] = IF k = 0 THEN <<>>
                      ELSE IF s[k] \in S THEN Append(F[k - 1], s[k]) ELSE F[k - 1]
    BY <1>10, Zenon
  <2> DEFINE D == {k \in Nat : k <= n => F[k] = f[k]}
  <2>3. 0 \in D
    BY <1>7, <2>1, <2>2 DEF y
  <2>4. ASSUME NEW k \in Nat, k \in D
        PROVE  k + 1 \in D
    <3>1. CASE k + 1 <= n
      <4>1. k + 1 \in 1..n /\ k + 1 \in 0..n /\ k + 1 # 0 /\ (k + 1) - 1 = k /\ F[k] = f[k]
        BY <1>2, <2>4, <3>1
      <4>2. F[k + 1] = f[k + 1]
        BY <1>8, <2>2, <4>1
      <4>3. QED
        BY <4>2
    <3>2. QED
      BY <3>1
  <2> HIDE DEF D
  <2>5. Nat \subseteq D
    BY <2>3, <2>4, Induction
  <2>6. \A k \in 0..n : F[k] = f[k]
    BY <1>2, <2>5 DEF D
  <2>7. QED
    BY <1>7, <2>1, <2>6
<1>12. QED
  BY <1>1, <1>7, <1>8, <1>11 DEF n, y, Y, Filters

-----------------------------------------------------------------------------
(* Sequences.                                                              *)

\* Nothing occurs twice in s.
Distinct(s) == \A i, j \in DOMAIN s : s[i] = s[j] => i = j

\* The elements of a sequence over X are in X.
LEMMA MembersOfSeq ==
  ASSUME NEW X, NEW s \in Seq(X)
  PROVE  Members(s) \subseteq X /\ DOMAIN s = 1..Len(s) /\ Len(s) \in Nat
BY DEF Members

\* The empty sequence.
LEMMA NothingIn ==
  ASSUME NEW X
  PROVE  <<>> \in Seq(X) /\ Members(<<>>) = {} /\ Distinct(<<>>) /\ Len(<<>>) = 0
BY DEF Members, Distinct

\* A sequence of one element.
LEMMA OneIn ==
  ASSUME NEW X, NEW x \in X
  PROVE  /\ <<x>> \in Seq(X) /\ Members(<<x>>) = {x} /\ Distinct(<<x>>)
         /\ Len(<<x>>) = 1
<1>1. <<x>> \in Seq(X) /\ DOMAIN <<x>> = 1..1 /\ <<x>>[1] = x /\ Len(<<x>>) = 1
  OBVIOUS
<1>2. QED
  BY <1>1 DEF Members, Distinct

\* What follows the first element.
LEMMA TailFacts ==
  ASSUME NEW X, NEW s \in Seq(X), s # <<>>
  PROVE  /\ Head(s) \in X /\ Tail(s) \in Seq(X)
         /\ Members(s) = {Head(s)} \cup Members(Tail(s))
         /\ Len(Tail(s)) = Len(s) - 1 /\ Len(s) \in Nat \ {0}
         /\ Distinct(s) => Distinct(Tail(s)) /\ Head(s) \notin Members(Tail(s))
<1> DEFINE n == Len(s)
           t == Tail(s)
<1>1. /\ n \in Nat \ {0} /\ DOMAIN s = 1..n /\ Head(s) = s[1] /\ Head(s) \in X
      /\ t \in Seq(X) /\ Len(t) = n - 1 /\ DOMAIN t = 1..(n - 1)
      /\ \A i \in 1..(n - 1) : t[i] = s[i + 1]
  BY HeadTailProperties
<1> HIDE DEF n, t
<1>2. Members(s) \subseteq {Head(s)} \cup Members(t)
  <2>1. ASSUME NEW i \in 1..n
        PROVE  s[i] \in {Head(s)} \cup Members(t)
    <3>1. CASE i = 1
      BY <1>1, <3>1
    <3>2. CASE i # 1
      <4>1. i - 1 \in 1..(n - 1) /\ (i - 1) + 1 = i
        BY <1>1, <3>2
      <4>2. s[i] = t[i - 1]
        BY <1>1, <4>1
      <4>3. QED
        BY <1>1, <4>1, <4>2 DEF Members
    <3>3. QED
      BY <3>1, <3>2
  <2>2. QED
    BY <1>1, <2>1 DEF Members
<1>3. {Head(s)} \cup Members(t) \subseteq Members(s)
  <2>1. \A i \in 1..(n - 1) : i + 1 \in 1..n
    BY <1>1
  <2>2. 1 \in 1..n
    BY <1>1
  <2>3. QED
    BY <1>1, <2>1, <2>2 DEF Members
<1>4. ASSUME Distinct(s)
      PROVE  Distinct(t) /\ Head(s) \notin Members(t)
  <2>1. \A i \in 1..(n - 1) : i + 1 \in 1..n /\ i + 1 # 1
    BY <1>1
  <2>2. Distinct(t)
    <3>1. ASSUME NEW i \in 1..(n - 1), NEW j \in 1..(n - 1), t[i] = t[j]
          PROVE  i = j
      <4>1. s[i + 1] = s[j + 1]
        BY <1>1, <3>1
      <4>2. i + 1 = j + 1
        BY <1>1, <1>4, <2>1, <4>1 DEF Distinct
      <4>3. QED
        BY <4>2
    <3>2. QED
      BY <1>1, <3>1 DEF Distinct
  <2>3. ASSUME NEW i \in 1..(n - 1), t[i] = Head(s)
        PROVE  FALSE
    BY <1>1, <1>4, <2>1, <2>3 DEF Distinct
  <2>4. QED
    BY <1>1, <2>2, <2>3 DEF Members
<1>5. QED
  BY <1>1, <1>2, <1>3, <1>4 DEF n, t

\* Adding an element at the end.
LEMMA AppendFacts ==
  ASSUME NEW X, NEW s \in Seq(X), NEW x \in X
  PROVE  /\ Append(s, x) \in Seq(X) /\ Append(s, x) # <<>>
         /\ Members(Append(s, x)) = Members(s) \cup {x}
         /\ Len(Append(s, x)) = Len(s) + 1
         /\ Distinct(s) /\ x \notin Members(s) => Distinct(Append(s, x))
<1> DEFINE n == Len(s)
           t == Append(s, x)
<1>1. /\ n \in Nat /\ DOMAIN s = 1..n
      /\ t \in Seq(X) /\ t # <<>> /\ Len(t) = n + 1 /\ DOMAIN t = 1..(n + 1)
      /\ t[n + 1] = x /\ \A i \in 1..n : t[i] = s[i]
  BY AppendProperties
<1> HIDE DEF n, t
<1>2. \A i \in 1..(n + 1) : i = n + 1 \/ i \in 1..n
  BY <1>1
<1>3. n + 1 \in 1..(n + 1) /\ \A i \in 1..n : i \in 1..(n + 1)
  BY <1>1
<1>4. Members(t) = Members(s) \cup {x}
  BY <1>1, <1>2, <1>3 DEF Members
<1>5. ASSUME Distinct(s), x \notin Members(s)
      PROVE  Distinct(t)
  <2>1. ASSUME NEW i \in 1..(n + 1), NEW j \in 1..(n + 1), t[i] = t[j]
        PROVE  i = j
    <3>1. CASE i \in 1..n /\ j \in 1..n
      BY <1>1, <1>5, <2>1, <3>1 DEF Distinct
    <3>2. CASE i = n + 1 /\ j \in 1..n
      BY <1>1, <1>5, <2>1, <3>2 DEF Members
    <3>3. CASE i \in 1..n /\ j = n + 1
      BY <1>1, <1>5, <2>1, <3>3 DEF Members
    <3>4. QED
      BY <1>2, <3>1, <3>2, <3>3
  <2>2. QED
    BY <1>1, <2>1 DEF Distinct
<1>6. QED
  BY <1>1, <1>4, <1>5 DEF n, t

\* One sequence after another.
LEMMA ConcatFacts ==
  ASSUME NEW X, NEW s \in Seq(X), NEW t \in Seq(X)
  PROVE  /\ s \o t \in Seq(X)
         /\ Members(s \o t) = Members(s) \cup Members(t)
         /\ Len(s \o t) = Len(s) + Len(t)
         /\ Distinct(s) /\ Distinct(t) /\ Members(s) \cap Members(t) = {}
              => Distinct(s \o t)
<1> DEFINE n == Len(s)
           m == Len(t)
           u == s \o t
<1>1. /\ n \in Nat /\ DOMAIN s = 1..n /\ m \in Nat /\ DOMAIN t = 1..m
      /\ u \in Seq(X) /\ Len(u) = n + m /\ DOMAIN u = 1..(n + m)
      /\ \A i \in 1..(n + m) : u[i] = IF i <= n THEN s[i] ELSE t[i - n]
  BY ConcatProperties
<1> HIDE DEF n, m, u
<1>2. \A i \in 1..(n + m) :
        \/ i \in 1..n /\ u[i] = s[i]
        \/ i - n \in 1..m /\ u[i] = t[i - n]
  BY <1>1
<1>3. Members(u) \subseteq Members(s) \cup Members(t)
  BY <1>1, <1>2 DEF Members
<1>4. Members(s) \subseteq Members(u)
  <2>1. \A i \in 1..n : i \in 1..(n + m) /\ u[i] = s[i]
    BY <1>1
  <2>2. QED
    BY <1>1, <2>1 DEF Members
<1>5. Members(t) \subseteq Members(u)
  <2>1. ASSUME NEW i \in 1..m
        PROVE  i + n \in 1..(n + m) /\ u[i + n] = t[i]
    <3>1. i + n \in 1..(n + m) /\ ~(i + n <= n) /\ (i + n) - n = i
      BY <1>1
    <3>2. QED
      BY <1>1, <3>1
  <2>2. QED
    BY <1>1, <2>1, ZenonT(40) DEF Members
<1>6. ASSUME Distinct(s), Distinct(t), Members(s) \cap Members(t) = {}
      PROVE  Distinct(u)
  <2>1. ASSUME NEW i \in 1..(n + m), NEW j \in 1..(n + m), u[i] = u[j]
        PROVE  i = j
    <3>1. CASE i \in 1..n /\ u[i] = s[i] /\ j \in 1..n /\ u[j] = s[j]
      BY <1>1, <1>6, <2>1, <3>1 DEF Distinct
    <3>2. CASE i - n \in 1..m /\ u[i] = t[i - n] /\ j - n \in 1..m /\ u[j] = t[j - n]
      <4>1. i - n = j - n
        BY <1>1, <1>6, <2>1, <3>2 DEF Distinct
      <4>2. QED
        BY <1>1, <4>1
    <3>3. CASE i \in 1..n /\ u[i] = s[i] /\ j - n \in 1..m /\ u[j] = t[j - n]
      BY <1>1, <1>6, <2>1, <3>3 DEF Members
    <3>4. CASE i - n \in 1..m /\ u[i] = t[i - n] /\ j \in 1..n /\ u[j] = s[j]
      BY <1>1, <1>6, <2>1, <3>4 DEF Members
    <3>5. QED
      BY <1>2, <3>1, <3>2, <3>3, <3>4
  <2>2. QED
    BY <1>1, <2>1 DEF Distinct
<1>7. QED
  BY <1>1, <1>3, <1>4, <1>5, <1>6 DEF n, m, u

\* Among keeps the elements of s that are in S, each as often as it was there.
LEMMA AmongFacts ==
  ASSUME NEW X, NEW s \in Seq(X), NEW S
  PROVE  /\ Among(s, S) \in Seq(X)
         /\ Members(Among(s, S)) = Members(s) \cap S
         /\ Len(Among(s, S)) <= Len(s)
         /\ Distinct(s) => Distinct(Among(s, S))
<1>1. PICK f \in [0..Len(s) -> Seq(X)] : Filters(f, s, S) /\ Among(s, S) = f[Len(s)]
  BY AmongUnfolds
<1> DEFINE n == Len(s)
           Seen(k) == {s[i] : i \in 1..k}
           Fine(k) == /\ Members(f[k]) = Seen(k) \cap S
                      /\ Len(f[k]) <= k
                      /\ Distinct(s) => Distinct(f[k])
           K == {k \in Nat : k <= n => Fine(k)}
<1>2. n \in Nat /\ DOMAIN s = 1..n /\ \A i \in 1..n : s[i] \in X
  OBVIOUS
<1>3. f \in [0..n -> Seq(X)]
  OBVIOUS
<1>4. 0 \in K
  <2>1. f[0] = <<>> /\ Seen(0) = {}
    BY <1>1 DEF Filters
  <2>2. Fine(0)
    BY <2>1, NothingIn
  <2>3. QED
    BY <2>2
<1>5. ASSUME NEW k \in Nat, k \in K, k + 1 <= n
      PROVE  Fine(k + 1)
  <2>1. /\ k \in 0..n /\ k + 1 \in 1..n /\ (k + 1) - 1 = k
        /\ f[k] \in Seq(X) /\ s[k + 1] \in X /\ Len(f[k]) \in Nat
    BY <1>2, <1>3, <1>5
  <2>2. f[k + 1] = IF s[k + 1] \in S THEN Append(f[k], s[k + 1]) ELSE f[k]
    BY <1>1, <2>1 DEF Filters
  <2>3. Members(f[k]) = Seen(k) \cap S /\ Len(f[k]) <= k /\ (Distinct(s) => Distinct(f[k]))
    BY <1>5, <2>1
  <2>4. Seen(k + 1) = Seen(k) \cup {s[k + 1]}
    <3>1. \A i : i \in 1..(k + 1) <=> i \in 1..k \/ i = k + 1
      BY <1>5
    <3>2. QED
      BY <3>1
  <2>5. Distinct(s) => s[k + 1] \notin Seen(k)
    <3>1. \A i \in 1..k : i \in 1..n /\ i # k + 1
      BY <1>2, <1>5
    <3>2. QED
      BY <1>2, <2>1, <3>1 DEF Distinct
  <2> HIDE DEF Seen
  <2>6. CASE s[k + 1] \in S
    <3>1. f[k + 1] = Append(f[k], s[k + 1])
      BY <2>2, <2>6
    <3>2. /\ Members(f[k + 1]) = Members(f[k]) \cup {s[k + 1]}
          /\ Len(f[k + 1]) = Len(f[k]) + 1
          /\ Distinct(f[k]) /\ s[k + 1] \notin Members(f[k]) => Distinct(f[k + 1])
      BY <2>1, <3>1, AppendFacts
    <3>3. Len(f[k + 1]) <= k + 1
      BY <2>1, <2>3, <3>2
    <3>4. Members(f[k + 1]) = Seen(k + 1) \cap S
      BY <2>3, <2>4, <2>6, <3>2
    <3>5. Distinct(s) => Distinct(f[k + 1])
      BY <2>3, <2>5, <3>2
    <3>6. QED
      BY <3>3, <3>4, <3>5
  <2>7. CASE s[k + 1] \notin S
    <3>1. f[k + 1] = f[k]
      BY <2>2, <2>7
    <3>2. Len(f[k + 1]) <= k + 1
      BY <2>1, <2>3, <3>1
    <3>3. QED
      BY <2>3, <2>4, <2>7, <3>1, <3>2
  <2>8. QED
    BY <2>6, <2>7
<1>6. \A k \in Nat : k \in K => k + 1 \in K
  <2> HIDE DEF Fine
  <2>1. QED
    BY <1>5, <1>2
<1>7. Fine(n)
  <2> HIDE DEF Fine
  <2>1. Nat \subseteq K
    <3> HIDE DEF K
    <3>1. QED
      BY <1>4, <1>6, Induction
  <2>2. QED
    BY <1>2, <2>1
<1>8. f[n] \in Seq(X) /\ Seen(n) = Members(s)
  BY <1>2, <1>3 DEF Members
<1>9. QED
  BY <1>1, <1>7, <1>8

\* Each element of Among(s, S) comes from a position of its own in s.
LEMMA AmongPositions ==
  ASSUME NEW X, NEW s \in Seq(X), NEW S
  PROVE  \E g \in [DOMAIN Among(s, S) -> DOMAIN s] :
           \A i, j \in DOMAIN Among(s, S) :
             /\ Among(s, S)[i] = s[g[i]]
             /\ g[i] = g[j] => i = j
<1>1. PICK f \in [0..Len(s) -> Seq(X)] : Filters(f, s, S) /\ Among(s, S) = f[Len(s)]
  BY AmongUnfolds
<1> DEFINE n == Len(s)
           Maps(g, k) == /\ g \in [DOMAIN f[k] -> 1..k]
                         /\ \A i \in DOMAIN f[k] : f[k][i] = s[g[i]]
                         /\ \A i, j \in DOMAIN f[k] : g[i] = g[j] => i = j
           K == {k \in Nat : k <= n => \E g : Maps(g, k)}
<1>2. n \in Nat /\ DOMAIN s = 1..n /\ \A i \in 1..n : s[i] \in X
  OBVIOUS
<1>3. f \in [0..n -> Seq(X)]
  OBVIOUS
<1>4. 0 \in K
  <2> DEFINE g == [i \in {} |-> 0]
  <2>1. f[0] = <<>> /\ DOMAIN f[0] = {}
    BY <1>1 DEF Filters
  <2>2. Maps(g, 0)
    BY <2>1
  <2> HIDE DEF Maps
  <2>3. QED
    BY <2>2
<1>5. ASSUME NEW k \in Nat, k \in K, k + 1 <= n
      PROVE  \E g : Maps(g, k + 1)
  <2>1. /\ k \in 0..n /\ k + 1 \in 1..n /\ (k + 1) - 1 = k
        /\ f[k] \in Seq(X) /\ s[k + 1] \in X /\ Len(f[k]) \in Nat
    BY <1>2, <1>3, <1>5
  <2>2. f[k + 1] = IF s[k + 1] \in S THEN Append(f[k], s[k + 1]) ELSE f[k]
    BY <1>1, <2>1 DEF Filters
  <2>3. PICK g : Maps(g, k)
    BY <1>5, <2>1
  <2>4. CASE s[k + 1] \in S
    <3> DEFINE m == Len(f[k])
               h == [i \in 1..(m + 1) |-> IF i = m + 1 THEN k + 1 ELSE g[i]]
    <3>1. /\ m \in Nat /\ DOMAIN f[k] = 1..m /\ DOMAIN f[k + 1] = 1..(m + 1)
          /\ f[k + 1][m + 1] = s[k + 1]
          /\ \A i \in 1..m : f[k + 1][i] = f[k][i]
      BY <2>1, <2>2, <2>4, AppendProperties
    <3> HIDE DEF m
    <3>2. \A i \in 1..(m + 1) : i = m + 1 \/ i \in 1..m
      BY <3>1
    <3>3. \A i \in 1..m : i # m + 1 /\ i \in 1..(m + 1)
      BY <3>1
    <3>4. /\ h[m + 1] = k + 1
          /\ \A i \in 1..m : h[i] = g[i] /\ g[i] \in 1..k /\ f[k][i] = s[g[i]]
      <4>1. m + 1 \in 1..(m + 1)
        BY <3>1
      <4>2. h[m + 1] = k + 1 /\ \A i \in 1..m : h[i] = g[i]
        BY <3>3, <4>1
      <4>3. \A i \in 1..m : g[i] \in 1..k /\ f[k][i] = s[g[i]]
        BY <2>3, <3>1
      <4>4. QED
        BY <4>2, <4>3
    <3>5. \A e \in 1..k : e \in 1..(k + 1) /\ e # k + 1
      BY <2>1
    <3>6. DOMAIN h = 1..(m + 1) /\ h = [i \in 1..(m + 1) |-> h[i]]
      OBVIOUS
    <3> HIDE DEF h
    <3>7. h \in [1..(m + 1) -> 1..(k + 1)]
      <4>1. \A i \in 1..(m + 1) : h[i] \in 1..(k + 1)
        BY <2>1, <3>2, <3>4, <3>5
      <4>2. QED
        BY <3>6, <4>1
    <3>8. \A i \in 1..(m + 1) : f[k + 1][i] = s[h[i]]
      BY <3>1, <3>2, <3>4
    <3>9. \A i, j \in 1..(m + 1) : h[i] = h[j] => i = j
      BY <2>3, <3>1, <3>2, <3>4, <3>5, ZenonT(40)
    <3>10. Maps(h, k + 1)
      BY <3>1, <3>7, <3>8, <3>9
    <3> HIDE DEF Maps
    <3>11. QED
      BY <3>10
  <2>5. CASE s[k + 1] \notin S
    <3>1. f[k + 1] = f[k]
      BY <2>2, <2>5
    <3>2. \A e \in 1..k : e \in 1..(k + 1)
      BY <2>1
    <3>3. Maps(g, k + 1)
      BY <2>3, <3>1, <3>2
    <3> HIDE DEF Maps
    <3>4. QED
      BY <3>3
  <2>6. QED
    BY <2>4, <2>5
<1>6. \A k \in Nat : k \in K => k + 1 \in K
  <2> HIDE DEF Maps
  <2>1. QED
    BY <1>2, <1>5
<1>7. \E g : Maps(g, n)
  <2> HIDE DEF Maps
  <2>1. Nat \subseteq K
    <3> HIDE DEF K
    <3>1. QED
      BY <1>4, <1>6, Induction
  <2>2. QED
    BY <1>2, <2>1
<1>8. QED
  BY <1>1, <1>2, <1>7

-----------------------------------------------------------------------------
(* Batches.                                                                *)

\* The tasks of S may run side by side.
Compatible(S) ==
  \A t, u \in S : t # u => Claims[t] # {} /\ Claims[t] \cap Claims[u] = {}

\* A batch of at most p tasks that may run side by side.
Fits(s, p) == Distinct(s) /\ Len(s) <= p /\ Compatible(Members(s))

\* Batches with tasks of S, none of them in two.
Schedule(q, p, S) ==
  /\ q \in Seq(Seq(Tasks))
  /\ \A i \in DOMAIN q : Fits(q[i], p) /\ Members(q[i]) \subseteq S
  /\ \A i, j \in DOMAIN q : i # j => Members(q[i]) \cap Members(q[j]) = {}

\* No batch at all.
LEMMA NoSchedule ==
  ASSUME NEW p, NEW S
  PROVE  Schedule(<<>>, p, S)
BY DEF Schedule

\* The first batch, and those that come after it.
LEMMA FirstBatch ==
  ASSUME NEW p, NEW S, NEW q, Schedule(q, p, S), q # <<>>
  PROVE  /\ Head(q) \in Seq(Tasks) /\ Fits(Head(q), p) /\ Members(Head(q)) \subseteq S
         /\ Schedule(Tail(q), p, S \ Members(Head(q)))
<1> DEFINE n == Len(q)
           r == Tail(q)
<1>1. q \in Seq(Seq(Tasks))
  BY DEF Schedule
<1>2. /\ n \in Nat \ {0} /\ DOMAIN q = 1..n /\ Head(q) = q[1] /\ q[1] \in Seq(Tasks)
      /\ r \in Seq(Seq(Tasks)) /\ DOMAIN r = 1..(n - 1)
      /\ \A i \in 1..(n - 1) : r[i] = q[i + 1]
  BY <1>1, HeadTailProperties
<1> HIDE DEF n, r
<1>3. 1 \in 1..n /\ \A i \in 1..(n - 1) : i + 1 \in 1..n /\ i + 1 # 1
  BY <1>2
<1>4. ASSUME NEW i \in 1..(n - 1)
      PROVE  Fits(r[i], p) /\ Members(r[i]) \subseteq S \ Members(Head(q))
  <2>1. r[i] = q[i + 1] /\ i + 1 \in 1..n /\ i + 1 # 1
    BY <1>2, <1>3
  <2>2. Members(q[i + 1]) \cap Members(q[1]) = {}
    BY <1>2, <1>3, <2>1 DEF Schedule
  <2>3. QED
    BY <1>2, <2>1, <2>2 DEF Schedule
<1>5. ASSUME NEW i \in 1..(n - 1), NEW j \in 1..(n - 1), i # j
      PROVE  Members(r[i]) \cap Members(r[j]) = {}
  <2>1. i + 1 # j + 1
    BY <1>2, <1>5
  <2>2. QED
    BY <1>2, <1>3, <2>1 DEF Schedule
<1>6. Fits(Head(q), p) /\ Members(Head(q)) \subseteq S
  BY <1>2, <1>3 DEF Schedule
<1>7. QED
  BY <1>2, <1>4, <1>5, <1>6 DEF Schedule, r

\* A schedule with a batch replaced, or added, by one with a task of its own.
LEMMA Extended ==
  ASSUME NEW p, NEW S, NEW q, Schedule(q, p, S), NEW t \in Tasks, t \notin S,
         NEW r \in Seq(Seq(Tasks)), NEW k \in DOMAIN r,
         \A i \in DOMAIN r \ {k} : i \in DOMAIN q /\ r[i] = q[i],
         Fits(r[k], p),
         \/ k \in DOMAIN q /\ Members(r[k]) = Members(q[k]) \cup {t}
         \/ k \notin DOMAIN q /\ Members(r[k]) = {t}
  PROVE  Schedule(r, p, S \cup {t})
<1>1. ASSUME NEW i \in DOMAIN r
      PROVE  Fits(r[i], p) /\ Members(r[i]) \subseteq S \cup {t}
  BY DEF Schedule
<1>2. ASSUME NEW i \in DOMAIN r \ {k}
      PROVE  Members(r[i]) \cap Members(r[k]) = {} /\ t \notin Members(r[i])
  BY DEF Schedule
<1>3. ASSUME NEW i \in DOMAIN r, NEW j \in DOMAIN r, i # j
      PROVE  Members(r[i]) \cap Members(r[j]) = {}
  <2>1. CASE i = k \/ j = k
    BY <1>2, <1>3, <2>1
  <2>2. CASE i # k /\ j # k
    <3>1. i \in DOMAIN q /\ j \in DOMAIN q /\ r[i] = q[i] /\ r[j] = q[j]
      BY <2>2
    <3>2. QED
      BY <1>3, <3>1 DEF Schedule
  <2>3. QED
    BY <2>1, <2>2
<1>4. QED
  BY <1>1, <1>3 DEF Schedule

\* A task is placed in a batch that may run beside it, or in one of its own.
LEMMA PlaceKeeps ==
  ASSUME NEW p \in Nat \ {0}, opt.parallel = p, NEW S, NEW q, Schedule(q, p, S),
         NEW t \in Tasks, t \notin S
  PROVE  Schedule(Place(q, t), p, S \cup {t})
<1> DEFINE fits == {i \in DOMAIN q :
                      /\ Precise(t)
                      /\ Len(q[i]) < opt.parallel
                      /\ \A k \in DOMAIN q[i] : PairSafe(t, q[i][k])}
           first == CHOOSE i \in fits : \A j \in fits : i <= j
<1>1. q \in Seq(Seq(Tasks))
  BY DEF Schedule
<1>2. CASE fits = {}
  <2> DEFINE r == Append(q, <<t>>)
             n == Len(q)
  <2>1. Place(q, t) = r
    BY <1>2 DEF Place
  <2>2. <<t>> \in Seq(Tasks) /\ Members(<<t>>) = {t} /\ Distinct(<<t>>) /\ Len(<<t>>) = 1
    BY OneIn
  <2>3. /\ n \in Nat /\ DOMAIN q = 1..n
        /\ r \in Seq(Seq(Tasks)) /\ DOMAIN r = 1..(n + 1) /\ r[n + 1] = <<t>>
        /\ \A i \in 1..n : r[i] = q[i]
    BY <1>1, <2>2, AppendProperties
  <2> HIDE DEF r, n
  <2>4. Fits(r[n + 1], p)
    BY <2>2, <2>3 DEF Fits, Compatible
  <2>5. n + 1 \in DOMAIN r /\ n + 1 \notin DOMAIN q
    BY <2>3
  <2>6. \A i \in DOMAIN r \ {n + 1} : i \in DOMAIN q /\ r[i] = q[i]
    BY <2>3
  <2>7. Schedule(r, p, S \cup {t})
    BY <2>2, <2>3, <2>4, <2>5, <2>6, Extended
  <2>8. QED
    BY <2>1, <2>7
<1>3. CASE fits # {}
  <2>1. first \in fits
    <3>1. fits \subseteq Nat
      BY <1>1
    <3> HIDE DEF fits
    <3>2. \E i \in fits : \A j \in fits : ~(j < i)
      BY <1>3, <3>1, LeastElement
    <3>3. \E i \in fits : \A j \in fits : i <= j
      BY <3>1, <3>2
    <3>4. QED
      BY <3>3
  <2> DEFINE c == first
             s == q[c]
             r == [q EXCEPT ![c] = Append(@, t)]
  <2>2. Place(q, t) = r
    BY <1>3 DEF Place
  <2>3. /\ c \in DOMAIN q /\ Precise(t) /\ Len(s) < p
        /\ \A k \in DOMAIN s : PairSafe(t, s[k])
    BY <2>1
  <2> HIDE DEF first, c, fits
  <2>4. s \in Seq(Tasks) /\ Fits(s, p) /\ Members(s) \subseteq S
    BY <1>1, <2>3 DEF Schedule
  <2>5. /\ Append(s, t) \in Seq(Tasks) /\ Members(Append(s, t)) = Members(s) \cup {t}
        /\ Len(Append(s, t)) = Len(s) + 1 /\ Distinct(Append(s, t)) /\ Len(s) \in Nat
    BY <2>4, AppendFacts DEF Fits
  <2>6. /\ r \in Seq(Seq(Tasks)) /\ DOMAIN r = DOMAIN q /\ r[c] = Append(s, t)
        /\ \A i \in DOMAIN q \ {c} : r[i] = q[i]
    BY <1>1, <2>3, <2>5, ExceptSeq
  <2>7. Compatible(Members(s) \cup {t})
    <3>1. \A u \in Members(s) : Precise(t) /\ Precise(u) /\ Claims[t] \cap Claims[u] = {}
      BY <2>3 DEF Members, PairSafe
    <3>2. Compatible(Members(s))
      BY <2>4 DEF Fits
    <3>3. QED
      BY <3>1, <3>2 DEF Compatible, Precise
  <2> HIDE DEF r, s
  <2>8. Fits(r[c], p)
    <3>1. Len(Append(s, t)) <= p
      BY <2>3, <2>5
    <3>2. QED
      BY <2>5, <2>6, <2>7, <3>1 DEF Fits
  <2>9. Members(r[c]) = Members(q[c]) \cup {t}
    BY <2>5, <2>6 DEF s
  <2>10. Schedule(r, p, S \cup {t})
    BY <2>3, <2>6, <2>8, <2>9, Extended
  <2>11. QED
    BY <2>2, <2>10
<1>4. QED
  BY <1>2, <1>3

\* The plan order has each task once, and so has the order of the batches.
LEMMA OrderFacts ==
  ASSUME NEW tasks \in SUBSET Tasks
  PROVE  /\ InOrder(tasks) \in Seq(Tasks) /\ Distinct(InOrder(tasks))
         /\ Members(InOrder(tasks)) \subseteq tasks
<1> DEFINE precise == {t \in tasks : Precise(t)}
           rest == {t \in tasks : ~Precise(t)}
<1>1. NumTasks \in Nat
  BY EngineAssumption
<1>2. PlanOrder \in Seq(Tasks) /\ Distinct(PlanOrder)
  <2>1. PlanOrder = [i \in 1..NumTasks |-> i]
    BY DEF PlanOrder, Tasks
  <2>2. QED
    BY <1>1, <2>1 DEF Tasks, Distinct
<1> DEFINE a == Among(PlanOrder, precise)
           b == Among(PlanOrder, rest)
<1>3. /\ a \in Seq(Tasks) /\ Distinct(a) /\ Members(a) \subseteq precise
      /\ b \in Seq(Tasks) /\ Distinct(b) /\ Members(b) \subseteq rest
  <2> HIDE DEF precise, rest
  <2>1. QED
    BY <1>2, AmongFacts
<1>4. InOrder(tasks) = a \o b
  BY DEF InOrder
<1>5. precise \cap rest = {} /\ precise \cup rest \subseteq tasks
  OBVIOUS
<1> HIDE DEF a, b, precise, rest
<1>6. Members(a) \cap Members(b) = {}
  BY <1>3, <1>5
<1>7. QED
  BY <1>3, <1>4, <1>5, <1>6, ConcatFacts

\* Placing a task in batches yields batches.
LEMMA PlaceType ==
  ASSUME NEW q \in Seq(Seq(Tasks)), NEW t \in Tasks
  PROVE  Place(q, t) \in Seq(Seq(Tasks))
<1>1. <<t>> \in Seq(Tasks)
  OBVIOUS
<1>2. Append(q, <<t>>) \in Seq(Seq(Tasks))
  BY <1>1, AppendProperties
<1>3. ASSUME NEW c
      PROVE  [q EXCEPT ![c] = Append(@, t)] \in Seq(Seq(Tasks))
  <2>1. CASE c \in DOMAIN q
    <3>1. q[c] \in Seq(Tasks) /\ c \in 1..Len(q)
      BY <2>1
    <3>2. Append(q[c], t) \in Seq(Tasks)
      BY <3>1, AppendProperties
    <3>3. QED
      BY <3>1, <3>2, ExceptSeq
  <2>2. CASE c \notin DOMAIN q
    <3>1. [q EXCEPT ![c] = Append(@, t)] = q
      BY <2>2
    <3>2. QED
      BY <3>1
  <2>3. QED
    BY <2>1, <2>2
<1>4. QED
  BY <1>2, <1>3 DEF Place

\* What Placed does is what its recursion says.
LEMMA PlacedUnfolds ==
  ASSUME NEW order \in Seq(Tasks)
  PROVE  /\ Placed(order)[0] = <<>>
         /\ \A i \in 1..Len(order) :
              Placed(order)[i] = Place(Placed(order)[i - 1], order[i])
<1> DEFINE n == Len(order)
           Is(f) == f = [i \in 0..n |-> IF i = 0 THEN <<>> ELSE Place(f[i - 1], order[i])]
           F == CHOOSE f : Is(f)
           Y == Seq(Seq(Tasks))
           y == <<>>
           step == [i \in 1..n |-> [q \in Y |-> Place(q, order[i])]]
<1>1. Placed(order) = F
  BY DEF Placed
<1>2. n \in Nat /\ \A i \in 1..n : order[i] \in Tasks
  OBVIOUS
<1>3. step \in [1..n -> [Y -> Y]]
  BY <1>2, PlaceType
<1>4. y \in Y
  OBVIOUS
<1>5. \A i \in 1..n, q \in Y : step[i][q] = Place(q, order[i])
  OBVIOUS
<1> HIDE DEF step, n, y, Y
<1>6. PICK f : Iterates(f, n, Y, y, step)
  BY <1>2, <1>3, <1>4, Recursion
<1>7. f \in [0..n -> Y] /\ f[0] = y
  BY <1>6 DEF Iterates
<1>8. Is(f)
  <2>1. ASSUME NEW i \in 0..n
        PROVE  f[i] = IF i = 0 THEN <<>> ELSE Place(f[i - 1], order[i])
    <3>1. CASE i = 0
      BY <1>7, <3>1 DEF y
    <3>2. CASE i # 0
      <4>1. i \in 1..n /\ i - 1 \in 0..n
        BY <1>2, <3>2
      <4>2. f[i] = step[i][f[i - 1]] /\ f[i - 1] \in Y
        BY <1>6, <1>7, <4>1 DEF Iterates
      <4>3. QED
        BY <1>5, <3>2, <4>1, <4>2
    <3>3. QED
      BY <3>1, <3>2
  <2>2. QED
    BY <1>7, <2>1
<1>9. Is(F)
  <2> HIDE DEF Is
  <2>1. QED
    BY <1>8
<1> HIDE DEF F
<1>10. ASSUME NEW k \in 0..n
       PROVE  F[k] = IF k = 0 THEN <<>> ELSE Place(F[k - 1], order[k])
  BY <1>9, Zenon
<1>11. 0 \in 0..n /\ \A k \in 1..n : k \in 0..n /\ k # 0
  BY <1>2
<1>12. QED
  BY <1>1, <1>10, <1>11 DEF n

\* build_batches puts each task in at most one batch, with tasks that may run
\* beside it.
LEMMA BatchesFacts ==
  ASSUME NEW tasks \in SUBSET Tasks, NEW p \in Nat \ {0}, opt.parallel = p
  PROVE  Schedule(Batches(tasks), p, tasks)
<1> DEFINE order == InOrder(tasks)
           n == Len(order)
           q == Placed(order)
           Seen(k) == {order[i] : i \in 1..k}
           K == {k \in Nat : k <= n => Schedule(q[k], p, Seen(k))}
<1>1. order \in Seq(Tasks) /\ Distinct(order) /\ Members(order) \subseteq tasks
  BY OrderFacts
<1>2. Batches(tasks) = q[n]
  BY DEF Batches
<1> HIDE DEF order
<1>3. n \in Nat /\ DOMAIN order = 1..n /\ \A i \in 1..n : order[i] \in Tasks
  BY <1>1
<1>4. q[0] = <<>> /\ \A i \in 1..n : q[i] = Place(q[i - 1], order[i])
  BY <1>1, PlacedUnfolds
<1> HIDE DEF q, n
<1>5. 0 \in K
  <2>1. Schedule(q[0], p, Seen(0))
    BY <1>4, NoSchedule
  <2> HIDE DEF Seen
  <2>2. QED
    BY <2>1
<1>6. ASSUME NEW k \in Nat, Schedule(q[k], p, Seen(k)), k + 1 <= n
      PROVE  Schedule(q[k + 1], p, Seen(k + 1))
  <2>1. k + 1 \in 1..n /\ (k + 1) - 1 = k
    BY <1>3, <1>6
  <2>2. order[k + 1] \in Tasks /\ q[k + 1] = Place(q[k], order[k + 1])
    BY <1>3, <1>4, <2>1
  <2>3. Seen(k + 1) = Seen(k) \cup {order[k + 1]}
    <3>1. \A i : i \in 1..(k + 1) <=> i \in 1..k \/ i = k + 1
      BY <1>6
    <3>2. QED
      BY <3>1
  <2>4. order[k + 1] \notin Seen(k)
    <3>1. \A i \in 1..k : i \in 1..n /\ i # k + 1
      BY <1>3, <1>6
    <3>2. QED
      BY <1>1, <1>3, <2>1, <3>1 DEF Distinct
  <2> HIDE DEF Seen
  <2>5. QED
    BY <1>6, <2>2, <2>3, <2>4, PlaceKeeps
<1>7. \A k \in Nat : k \in K => k + 1 \in K
  <2> HIDE DEF Seen
  <2>1. \A k \in Nat : k + 1 <= n => k <= n
    BY <1>3
  <2>2. QED
    BY <1>6, <2>1
<1>8. Schedule(q[n], p, Seen(n))
  <2> HIDE DEF Seen
  <2>1. Nat \subseteq K
    <3> HIDE DEF K
    <3>1. QED
      BY <1>5, <1>7, Induction
  <2>2. QED
    BY <1>3, <2>1
<1>9. Seen(n) \subseteq tasks
  BY <1>1, <1>3 DEF Members
<1> HIDE DEF Seen
<1>10. QED
  BY <1>2, <1>8, <1>9 DEF Schedule

\* Leaving the refused tasks out, and the batches that are empty then, keeps a
\* schedule.
LEMMA KeptFacts ==
  ASSUME NEW p \in Nat, NEW S, NEW all, Schedule(all, p, S), NEW R,
         NEW kept, kept = [i \in DOMAIN all |-> Among(all[i], R)], NEW Q
  PROVE  Schedule(Among(kept, Q), p, S)
<1>1. all \in Seq(Seq(Tasks)) /\ DOMAIN all = 1..Len(all) /\ Len(all) \in Nat
  BY DEF Schedule
<1>2. ASSUME NEW i \in DOMAIN all
      PROVE  /\ kept[i] \in Seq(Tasks) /\ Fits(kept[i], p)
             /\ Members(kept[i]) \subseteq Members(all[i]) /\ Members(all[i]) \subseteq S
  <2>1. all[i] \in Seq(Tasks) /\ Fits(all[i], p) /\ Members(all[i]) \subseteq S
    BY <1>1 DEF Schedule
  <2>2. kept[i] = Among(all[i], R)
    OBVIOUS
  <2>3. /\ kept[i] \in Seq(Tasks) /\ Members(kept[i]) \subseteq Members(all[i])
        /\ Len(kept[i]) <= Len(all[i]) /\ Distinct(kept[i])
    BY <2>1, <2>2, AmongFacts DEF Fits
  <2>4. Len(kept[i]) <= p
    BY <2>1, <2>3 DEF Fits
  <2>5. Compatible(Members(kept[i]))
    BY <2>1, <2>3 DEF Fits, Compatible
  <2>6. QED
    BY <2>1, <2>3, <2>4, <2>5 DEF Fits
<1>3. DOMAIN kept = DOMAIN all /\ kept = [i \in DOMAIN all |-> kept[i]]
  OBVIOUS
<1> DEFINE r == Among(kept, Q)
<1>4. kept \in Seq(Seq(Tasks))
  BY <1>1, <1>2, <1>3
<1>5. r \in Seq(Seq(Tasks))
  BY <1>4, AmongFacts
<1>6. PICK g \in [DOMAIN r -> DOMAIN kept] :
        \A i, j \in DOMAIN r : r[i] = kept[g[i]] /\ (g[i] = g[j] => i = j)
  <2> DEFINE X == Seq(Tasks)
  <2>1. kept \in Seq(X)
    BY <1>4
  <2> HIDE DEF X
  <2>2. \E g \in [DOMAIN Among(kept, Q) -> DOMAIN kept] :
          \A i, j \in DOMAIN Among(kept, Q) :
            /\ Among(kept, Q)[i] = kept[g[i]]
            /\ g[i] = g[j] => i = j
    BY <2>1, AmongPositions, SMTT(30)
  <2>3. QED
    BY <2>2
<1> HIDE DEF r
<1>7. ASSUME NEW i \in DOMAIN r
      PROVE  /\ g[i] \in DOMAIN all /\ Fits(r[i], p)
             /\ Members(r[i]) \subseteq Members(all[g[i]]) /\ Members(r[i]) \subseteq S
  <2>1. g[i] \in DOMAIN all /\ r[i] = kept[g[i]]
    BY <1>3, <1>6
  <2>2. QED
    BY <1>2, <2>1
<1>8. ASSUME NEW i \in DOMAIN r, NEW j \in DOMAIN r, i # j
      PROVE  Members(r[i]) \cap Members(r[j]) = {}
  <2>1. g[i] # g[j]
    BY <1>6, <1>8
  <2>2. Members(all[g[i]]) \cap Members(all[g[j]]) = {}
    BY <1>7, <2>1 DEF Schedule
  <2>3. QED
    BY <1>7, <2>2
<1>9. QED
  BY <1>5, <1>7, <1>8 DEF Schedule, r

-----------------------------------------------------------------------------
(* The inductive invariant.                                                *)

\* The statuses a task can be started in, and those it can be merged in.
Startable == {"planned", "interrupted", "failed", "verify_failed", "candidate_rejected",
              "changes_requested"}
Mergeable == {"ready_for_merge", "merge_conflict"}
Idle == {t \in Tasks : status[t] \in Startable}

Looping == {"prepare", "work", "settle", "collect", "gate", "reject", "merge", "mark"}

\* A worker belongs to a task of the batch that is in progress; in a run that
\* goes on, each task in progress has one.
WorkersInv ==
  \A t \in Tasks :
    /\ worker[t] # "none" => /\ phase \in {"work", "settle"}
                             /\ t \in Members(batch) /\ status[t] = "in_progress"
    /\ phase = "settle" => worker[t] \in Results \cup {"none"}
    /\ status[t] = "in_progress" => worker[t] # "none" \/ (phase = "idle" /\ crashes # 0)

\* The tasks of the batch may run side by side, and so may those of the batches
\* that are still to start: disjoint ones, with tasks nobody works on.
QueueInv ==
  /\ phase \in {"idle", "pending", "schedule"} => queue = <<>> /\ batch = <<>>
  /\ phase \in Looping =>
       Fits(batch, opt.parallel) /\ Schedule(queue, opt.parallel, Idle)

\* So are the tasks that are being prepared.
PrepareInv ==
  phase = "prepare" =>
    /\ Distinct(todo) /\ Members(batch) \cap Members(todo) = {}
    /\ Len(batch) + Len(todo) <= opt.parallel
    /\ Compatible(Members(batch) \cup Members(todo))
    /\ Members(batch) \cup Members(todo) \subseteq Idle
    /\ \A i \in DOMAIN queue :
         (Members(batch) \cup Members(todo)) \cap Members(queue[i]) = {}

\* What is collected for the merge, and visited there, is not merged yet and
\* is visited once.
ItemsInv ==
  /\ phase \in {"idle", "schedule", "prepare", "work", "settle"} => items = <<>>
  /\ phase \in {"idle", "schedule"} => todo = <<>>
  /\ phase \in {"pending", "collect"} =>
       /\ Distinct(items) /\ Distinct(todo) /\ Members(items) \cap Members(todo) = {}
       /\ \A t \in Members(items) \cup Members(todo) : status[t] \in Mergeable
  /\ phase \in {"gate", "reject"} =>
       Distinct(items) /\ \A t \in Members(items) : status[t] \in Mergeable
  /\ phase = "reject" => Members(todo) \subseteq Members(items)
  /\ phase \in {"merge", "mark"} =>
       Distinct(todo) /\ \A t \in Members(todo) : status[t] \in Mergeable
  /\ phase = "mark" => todo # <<>> /\ Head(todo) \in base

\* Only the automatic strategy comes to a merge.
StrategyInv ==
  /\ phase \in {"gate", "reject", "merge", "mark"} => opt.strategy = "auto"
  /\ phase = "pending" /\ (todo # <<>> \/ items # <<>>) => opt.strategy = "auto"

\* Accepted work is on the branch of its task, unless a crash comes between the
\* clean-up of a rejected batch and the save of its statuses.
WorkInv ==
  \A t \in Tasks :
    /\ worker[t] \in {"committed", "success", "unverified"} => ws[t].branch = "work"
    /\ status[t] = "ready_for_merge" =>
         \/ ws[t].branch = "work"
         \/ phase = "reject" /\ t \in Members(items)
         \/ crashes # 0

RunInv ==
  /\ WorkersInv /\ QueueInv /\ PrepareInv /\ ItemsInv /\ StrategyInv
  /\ DoneIsMerged /\ WorkInv

EngineInv == TypeOK /\ RunInv

-----------------------------------------------------------------------------
(* What the operations of a step do to the plan and the workspaces.        *)

\* A run is started in one of the ways it can be.
LEMMA OptionsFacts ==
  ASSUME TypeOK
  PROVE  /\ opt.parallel \in Nat \ {0} /\ opt.keep \in BOOLEAN
         /\ opt.strategy \in {"auto", "review"}
BY EngineAssumption DEF TypeOK, RunOptions

\* The plan order.
LEMMA PlanFacts ==
  /\ PlanOrder \in Seq(Tasks) /\ Distinct(PlanOrder) /\ Members(PlanOrder) = Tasks
<1>1. NumTasks \in Nat
  BY EngineAssumption
<1>2. PlanOrder = [i \in 1..NumTasks |-> i]
  BY DEF PlanOrder, Tasks
<1>3. QED
  BY <1>1, <1>2 DEF Tasks, Distinct, Members

\* Marking a task changes its status only.
LEMMA MarkFacts ==
  ASSUME TypeOK, NEW t \in Tasks, NEW s \in Statuses, Mark(t, s)
  PROVE  /\ status' \in [Tasks -> Statuses] /\ status'[t] = s
         /\ \A u \in Tasks \ {t} : status'[u] = status[u]
BY DEF TypeOK, Mark

\* Cleaning up a failed attempt removes its commits, or leaves a marker.
LEMMA CleanupFacts ==
  ASSUME TypeOK, NEW t \in Tasks
  PROVE  /\ ws[t] \in Workspace
         /\ FailedCleanup(t) \subseteq Workspace
         /\ \A w \in FailedCleanup(t) : ~opt.keep /\ w.branch = "work" => w.marker
         /\ DoneCleanup(t) \subseteq Workspace
         /\ \A w \in DoneCleanup(t) : w.branch # "none" => w.branch = ws[t].branch
<1>1. ws[t] \in Workspace
  BY DEF TypeOK
<1>2. NoWorkspace \in Workspace /\ NoWorkspace.branch = "none"
  BY DEF NoWorkspace, Workspace
<1>3. ASSUME NEW w \in Leftovers(ws[t])
      PROVE  w \in Workspace /\ w.marker
  BY <1>1, <1>3 DEF Leftovers, Workspace
<1>4. ASSUME NEW w \in FailedCleanup(t)
      PROVE  w \in Workspace /\ (~opt.keep /\ w.branch = "work" => w.marker)
  BY <1>1, <1>2, <1>3, <1>4 DEF FailedCleanup
<1>5. ASSUME NEW w \in DoneCleanup(t)
      PROVE  w \in Workspace /\ (w.branch # "none" => w.branch = ws[t].branch)
  BY <1>1, <1>5 DEF DoneCleanup, Workspace
<1>6. QED
  BY <1>1, <1>4, <1>5

\* A task that is not merged gets its status, and its workspace is cleaned up.
LEMMA NotMergedFacts ==
  ASSUME TypeOK, NEW t \in Tasks, NEW s \in Statuses, NotMerged(t, s)
  PROVE  /\ status' \in [Tasks -> Statuses] /\ status'[t] = s
         /\ \A u \in Tasks \ {t} : status'[u] = status[u]
         /\ ws' \in [Tasks -> Workspace] /\ ws'[t] \in FailedCleanup(t)
         /\ \A u \in Tasks \ {t} : ws'[u] = ws[u]
<1>1. Mark(t, s)
  BY DEF NotMerged
<1>2. PICK w \in FailedCleanup(t) : ws' = [ws EXCEPT ![t] = w]
  BY DEF NotMerged
<1>3. w \in Workspace /\ ws \in [Tasks -> Workspace]
  BY CleanupFacts DEF TypeOK
<1>4. QED
  BY <1>1, <1>2, <1>3, MarkFacts

-----------------------------------------------------------------------------
(* Types.                                                                  *)

\* The next batch.
LEMMA NextBatchTypes ==
  ASSUME TypeOK, NextBatch
  PROVE  /\ batch' = <<>> /\ items' = <<>> /\ phase' \in {"schedule", "prepare"}
         /\ queue' \in Seq(Seq(Tasks)) /\ todo' \in Seq(Tasks)
         /\ batch' \in Seq(Tasks) /\ items' \in Seq(Tasks)
<1>1. queue \in Seq(Seq(Tasks))
  BY DEF TypeOK
<1>2. CASE queue = <<>>
  BY <1>2, NothingIn DEF NextBatch
<1>3. CASE queue # <<>>
  <2>1. Head(queue) \in Seq(Tasks) /\ Tail(queue) \in Seq(Seq(Tasks))
    BY <1>1, <1>3, HeadTailProperties
  <2>2. QED
    BY <1>3, <2>1, NothingIn DEF NextBatch
<1>4. QED
  BY <1>2, <1>3

\* The merges left over keep their types.
LEMMA PendingTypes ==
  ASSUME TypeOK, PendingTask \/ PendingDone
  PROVE  TypeOK'
<1>1. CASE PendingTask
  <2> DEFINE t == Head(todo)
  <2>1. t \in Tasks /\ Tail(todo) \in Seq(Tasks) /\ Append(items, t) \in Seq(Tasks)
    BY <1>1, TailFacts, AppendFacts DEF TypeOK, PendingTask
  <2> HIDE DEF t
  <2>2. items' \in Seq(Tasks) /\ todo' \in Seq(Tasks)
    BY <1>1, <2>1 DEF TypeOK, PendingTask, t
  <2>3. \/ \E s \in Statuses : NotMerged(t, s)
        \/ UNCHANGED <<status, ws>>
    BY <1>1 DEF PendingTask, RemoteBlocked, ReviewVerdicts, Statuses, t
  <2>4. status' \in [Tasks -> Statuses] /\ ws' \in [Tasks -> Workspace]
    BY <2>1, <2>3, NotMergedFacts DEF TypeOK
  <2>5. UNCHANGED <<attempts, base, phase, opt, cancel, queue, batch, worker, refused,
                    bounds>>
    BY <1>1 DEF PendingTask
  <2>6. QED
    BY <2>2, <2>4, <2>5 DEF TypeOK, bounds
<1>2. CASE PendingDone
  BY <1>2 DEF PendingDone, TypeOK, Phases, durable, bounds
<1>3. QED
  BY <1>1, <1>2

\* A schedule has the types of a queue.
LEMMA ScheduleTypes ==
  ASSUME TypeOK, ComputeSchedule
  PROVE  TypeOK'
<1>1. queue' \in Seq(Seq(Tasks)) /\ todo' \in Seq(Tasks) /\ phase' \in Phases
  <2> DEFINE all == Batches({t \in Tasks : Runnable(t)})
             kept == [i \in DOMAIN all |-> Among(all[i], Tasks \ refused)]
             schedule == Among(kept, Members(kept) \ {<<>>})
             p == opt.parallel
             runnable == {t \in Tasks : Runnable(t)}
  <2>1. Schedule(all, p, runnable)
    BY OptionsFacts, BatchesFacts
  <2> HIDE DEF all, runnable
  <2>2. Schedule(schedule, p, runnable)
    <3> HIDE DEF p
    <3>1. p \in Nat
      BY OptionsFacts DEF p
    <3>2. QED
      BY <2>1, <3>1, KeptFacts
  <2>3. \/ phase' = "final" /\ UNCHANGED <<queue, todo>>
        \/ /\ schedule # <<>> /\ phase' = "prepare"
           /\ queue' = Tail(schedule) /\ todo' = Head(schedule)
    BY DEF ComputeSchedule, all
  <2> HIDE DEF schedule, p
  <2>4. CASE phase' = "final" /\ UNCHANGED <<queue, todo>>
    BY <2>4 DEF TypeOK, Phases
  <2>5. CASE /\ schedule # <<>> /\ phase' = "prepare"
             /\ queue' = Tail(schedule) /\ todo' = Head(schedule)
    BY <2>2, <2>5, FirstBatch DEF Schedule, Phases
  <2>6. QED
    BY <2>3, <2>4, <2>5
<1>2. QED
  BY <1>1 DEF ComputeSchedule, TypeOK, durable, bounds

\* Preparing and starting a batch keep the types.
LEMMA PrepareTypes ==
  ASSUME TypeOK, PrepareTask \/ Dispatch \/ SkipBatch
  PROVE  TypeOK'
<1>1. CASE PrepareTask
  <2> DEFINE t == Head(todo)
  <2>1. t \in Tasks /\ Tail(todo) \in Seq(Tasks) /\ Append(batch, t) \in Seq(Tasks)
    BY <1>1, TailFacts, AppendFacts DEF TypeOK, PrepareTask
  <2>2. Prepared(Retried(ws[t])) \in Workspace
    <3>1. ws[t] \in Workspace
      BY <2>1 DEF TypeOK
    <3>2. QED
      BY <3>1 DEF Prepared, Retried, NoWorkspace, Workspace
  <2> HIDE DEF t
  <2>3. UNCHANGED <<attempts, base, phase, opt, cancel, queue, items, worker, bounds>>
    BY <1>1 DEF PrepareTask
  <2>4. \/ /\ ws' = [ws EXCEPT ![t] = Prepared(Retried(ws[t]))]
           /\ batch' = Append(batch, t) /\ UNCHANGED <<status, refused>>
        \/ /\ Mark(t, "failed") /\ refused' = refused \cup {t}
           /\ UNCHANGED <<ws, batch>>
    BY <1>1 DEF PrepareTask, t
  <2>5. todo' \in Seq(Tasks)
    BY <1>1, <2>1 DEF PrepareTask
  <2>6. ws' \in [Tasks -> Workspace] /\ batch' \in Seq(Tasks)
    BY <2>1, <2>2, <2>4 DEF TypeOK
  <2>7. status' \in [Tasks -> Statuses] /\ refused' \subseteq Tasks
    BY <2>1, <2>4, MarkFacts DEF TypeOK, Statuses
  <2>8. QED
    BY <2>3, <2>5, <2>6, <2>7 DEF TypeOK, bounds
<1>2. CASE Dispatch
  <2>1. \A n \in 0..AttemptCap : Bumped(n) \in 0..AttemptCap
    BY EngineAssumption DEF Bumped
  <2>2. attempts' \in [Tasks -> 0..AttemptCap]
    BY <1>2, <2>1 DEF Dispatch, TypeOK
  <2>3. status' \in [Tasks -> Statuses]
    BY <1>2 DEF Dispatch, TypeOK, Statuses
  <2>4. worker' \in [Tasks -> Results \cup {"none", "queued", "agent", "moved", "committed"}]
    BY <1>2 DEF Dispatch
  <2>5. /\ phase' \in Phases
        /\ UNCHANGED <<ws, base, opt, cancel, queue, batch, todo, items, refused, bounds>>
    BY <1>2 DEF Dispatch, Phases
  <2>6. QED
    BY <2>2, <2>3, <2>4, <2>5 DEF TypeOK, bounds
<1>3. CASE SkipBatch
  <2>1. NextBatch /\ UNCHANGED <<durable, opt, cancel, worker, refused, bounds>>
    BY <1>3 DEF SkipBatch
  <2>2. QED
    BY <2>1, NextBatchTypes DEF TypeOK, Phases, durable, bounds
<1>4. QED
  BY <1>1, <1>2, <1>3

\* What a step of the worker of t does.
LEMMA WorkerFacts ==
  ASSUME TypeOK, NEW t \in Tasks, Advances(t) \/ Edit(t) \/ AgentCommit(t)
  PROVE  /\ UNCHANGED <<status, attempts, base, phase, opt, cancel, queue, batch, todo,
                        items, refused, bounds>>
         /\ worker[t] \in {"queued", "agent", "moved", "committed"}
         /\ worker' \in [Tasks -> Results \cup {"none", "queued", "agent", "moved", "committed"}]
         /\ worker'[t] # "none" /\ \A u \in Tasks \ {t} : worker'[u] = worker[u]
         /\ ws' \in [Tasks -> Workspace] /\ ws'[t].marker = ws[t].marker
         /\ \A u \in Tasks \ {t} : ws'[u] = ws[u]
         /\ worker'[t] \in {"committed", "success", "unverified"} =>
              \/ ws'[t].branch = "work"
              \/ worker[t] = "committed" /\ ws' = ws
         /\ worker'[t] \in {"queued", "agent", "noop"} =>
              worker[t] \in {"queued", "agent"} /\ ws'[t].branch = ws[t].branch
         /\ worker'[t] = "interrupted" => cancel
<1>1. worker \in [Tasks -> Results \cup {"none", "queued", "agent", "moved", "committed"}]
      /\ ws \in [Tasks -> Workspace] /\ ws[t] \in Workspace
  BY DEF TypeOK
<1>2. ASSUME NEW now, NEW next \in Results \cup {"agent", "moved", "committed"},
             Works(t, now, next)
      PROVE  /\ UNCHANGED <<status, attempts, base, phase, opt, cancel, queue, batch, todo,
                            items, refused, bounds>>
             /\ worker[t] \in now
             /\ worker' \in [Tasks -> Results \cup {"none", "queued", "agent", "moved", "committed"}]
             /\ worker'[t] = next /\ next # "none"
             /\ \A u \in Tasks \ {t} : worker'[u] = worker[u]
  BY <1>1, <1>2 DEF Works, Results
<1>3. CASE Begin(t)
  BY <1>1, <1>2, <1>3 DEF Begin, Results
<1>4. CASE Interrupted(t)
  <2>1. cancel /\ Works(t, {"queued", "agent", "moved"}, "interrupted") /\ ws' = ws
    BY <1>4 DEF Interrupted
  <2>2. /\ UNCHANGED <<status, attempts, base, phase, opt, cancel, queue, batch, todo,
                        items, refused, bounds>>
        /\ worker[t] \in {"queued", "agent", "moved"}
        /\ worker' \in [Tasks -> Results \cup {"none", "queued", "agent", "moved", "committed"}]
        /\ worker'[t] = "interrupted" /\ \A u \in Tasks \ {t} : worker'[u] = worker[u]
    <3>1. "interrupted" \in Results
      BY DEF Results
    <3>2. QED
      BY <1>1, <1>2, <2>1, <3>1
  <2>3. QED
    BY <1>1, <2>1, <2>2
<1>5. CASE Commit(t)
  <2>1. ws' = [ws EXCEPT ![t] = [ws[t] EXCEPT !.tree = "clean", !.branch = "work"]]
    BY <1>5 DEF Commit
  <2>2. [ws[t] EXCEPT !.tree = "clean", !.branch = "work"] \in Workspace
    BY <1>1 DEF Workspace
  <2>3. /\ ws' \in [Tasks -> Workspace] /\ ws'[t].marker = ws[t].marker
        /\ ws'[t].branch = "work" /\ \A u \in Tasks \ {t} : ws'[u] = ws[u]
    BY <1>1, <2>1, <2>2 DEF Workspace
  <2>4. Works(t, {"agent", "moved"}, "committed")
    BY <1>5 DEF Commit
  <2>5. QED
    BY <1>2, <2>3, <2>4
<1>6. CASE Edit(t)
  <2>1. ws' = [ws EXCEPT ![t] = [ws[t] EXCEPT !.tree = "dirty"]]
    BY <1>6 DEF Edit
  <2>2. [ws[t] EXCEPT !.tree = "dirty"] \in Workspace
    BY <1>1 DEF Workspace
  <2>3. /\ ws' \in [Tasks -> Workspace] /\ ws'[t].marker = ws[t].marker
        /\ ws'[t].branch = ws[t].branch /\ \A u \in Tasks \ {t} : ws'[u] = ws[u]
    BY <1>1, <2>1, <2>2 DEF Workspace
  <2>4. Works(t, {"agent"}, "agent") \/ Works(t, {"moved"}, "moved")
    BY <1>6 DEF Edit
  <2>5. QED
    BY <1>2, <2>3, <2>4
<1>7. CASE AgentCommit(t)
  <2>1. ws' = [ws EXCEPT ![t] = [ws[t] EXCEPT !.tree = "clean", !.branch = "work"]]
    BY <1>7 DEF AgentCommit
  <2>2. [ws[t] EXCEPT !.tree = "clean", !.branch = "work"] \in Workspace
    BY <1>1 DEF Workspace
  <2>3. /\ ws' \in [Tasks -> Workspace] /\ ws'[t].marker = ws[t].marker
        /\ \A u \in Tasks \ {t} : ws'[u] = ws[u]
    BY <1>1, <2>1, <2>2 DEF Workspace
  <2>4. Works(t, {"agent", "moved"}, "moved")
    BY <1>7 DEF AgentCommit
  <2>5. QED
    BY <1>2, <2>3, <2>4
<1>8. ASSUME NEW r \in Results, Return(t, r)
      PROVE  /\ UNCHANGED ws
             /\ \/ Works(t, {"committed"}, r) /\ r # "noop"
                \/ Works(t, {"agent"}, "noop")
                \/ Works(t, {"queued", "agent", "moved", "committed"}, "failed")
             /\ r # "interrupted"
  BY <1>8 DEF Return, Verified, NoChanges, Fails
<1>9. CASE \E r \in Results : Return(t, r)
  <2>1. PICK r \in Results : Return(t, r)
    BY <1>9
  <2>2. CASE Works(t, {"committed"}, r) /\ r # "noop" /\ r # "interrupted"
    BY <1>1, <1>2, <1>8, <2>1, <2>2 DEF Results
  <2>3. CASE Works(t, {"agent"}, "noop")
    BY <1>1, <1>2, <1>8, <2>1, <2>3 DEF Results
  <2>4. CASE Works(t, {"queued", "agent", "moved", "committed"}, "failed")
    BY <1>1, <1>2, <1>8, <2>1, <2>4 DEF Results
  <2>5. QED
    BY <1>8, <2>1, <2>2, <2>3, <2>4
<1>10. QED
  BY <1>3, <1>4, <1>5, <1>6, <1>7, <1>9 DEF Advances

\* The statuses a result can be given.
LEMMA VerdictFacts ==
  ASSUME NEW r
  PROVE  /\ Rejects(r) \subseteq {"failed", "verify_failed", "changes_requested"}
         /\ Accepts(r) \subseteq {"ready_for_merge", "completed_unverified",
                                  "already_satisfied", "interrupted"}
         /\ "ready_for_merge" \in Accepts(r) => r = "success"
         /\ "already_satisfied" \in Accepts(r) => r = "noop"
         /\ "interrupted" \in Accepts(r) => r = "interrupted"
BY DEF Rejects, Accepts, ReviewVerdicts

\* What settling the result of a task does.
LEMMA SettleFacts ==
  ASSUME TypeOK, Settle
  PROVE  /\ phase = "settle"
         /\ UNCHANGED <<attempts, base, phase, opt, cancel, queue, batch, todo, items,
                        refused, bounds>>
         /\ status' \in [Tasks -> Statuses] /\ ws' \in [Tasks -> Workspace]
         /\ \E t \in Members(batch) :
              /\ t \in Tasks /\ worker[t] # "none"
              /\ worker' = [worker EXCEPT ![t] = "none"]
              /\ \A u \in Tasks \ {t} : status'[u] = status[u] /\ ws'[u] = ws[u]
              /\ \/ /\ status'[t] \in {"failed", "verify_failed", "changes_requested"}
                    /\ ws'[t] \in FailedCleanup(t)
                 \/ /\ status'[t] \in Accepts(worker[t]) \ {"already_satisfied"}
                    /\ ws'[t] = ws[t]
                 \/ /\ status'[t] = "already_satisfied" /\ worker[t] = "noop"
                    /\ ws'[t] \in DoneCleanup(t)
<1>1. PICK t \in Members(batch) :
        /\ worker[t] # "none"
        /\ worker' = [worker EXCEPT ![t] = "none"]
        /\ \/ \E s \in Rejects(worker[t]) : NotMerged(t, s)
           \/ \E s \in Accepts(worker[t]) :
                /\ Mark(t, s)
                /\ \E w \in IF s = "already_satisfied" THEN DoneCleanup(t) ELSE {ws[t]} :
                     ws' = [ws EXCEPT ![t] = w]
  BY DEF Settle
<1>2. t \in Tasks
  BY MembersOfSeq DEF TypeOK
<1>3. ws \in [Tasks -> Workspace] /\ ws[t] \in Workspace /\ DoneCleanup(t) \subseteq Workspace
  BY <1>2, CleanupFacts DEF TypeOK
<1> DEFINE Effect ==
      /\ status' \in [Tasks -> Statuses] /\ ws' \in [Tasks -> Workspace]
      /\ \A u \in Tasks \ {t} : status'[u] = status[u] /\ ws'[u] = ws[u]
      /\ \/ /\ status'[t] \in {"failed", "verify_failed", "changes_requested"}
            /\ ws'[t] \in FailedCleanup(t)
         \/ /\ status'[t] \in Accepts(worker[t]) \ {"already_satisfied"}
            /\ ws'[t] = ws[t]
         \/ /\ status'[t] = "already_satisfied" /\ worker[t] = "noop"
            /\ ws'[t] \in DoneCleanup(t)
<1>4. ASSUME NEW s \in Rejects(worker[t]), NotMerged(t, s)
      PROVE  Effect
  <2>1. s \in {"failed", "verify_failed", "changes_requested"} /\ s \in Statuses
    BY VerdictFacts DEF Statuses
  <2>2. QED
    BY <1>2, <1>4, <2>1, NotMergedFacts
<1>5. ASSUME NEW s \in Accepts(worker[t]), Mark(t, s),
             NEW w \in IF s = "already_satisfied" THEN DoneCleanup(t) ELSE {ws[t]},
             ws' = [ws EXCEPT ![t] = w]
      PROVE  Effect
  <2>1. s \in Statuses /\ (s = "already_satisfied" => worker[t] = "noop")
    BY VerdictFacts DEF Statuses, Successful
  <2>2. /\ status' \in [Tasks -> Statuses] /\ status'[t] = s
        /\ \A u \in Tasks \ {t} : status'[u] = status[u]
    BY <1>2, <1>5, <2>1, MarkFacts
  <2>3. w \in Workspace
    BY <1>3, <1>5
  <2>4. /\ ws' \in [Tasks -> Workspace] /\ ws'[t] = w
        /\ \A u \in Tasks \ {t} : ws'[u] = ws[u]
    BY <1>2, <1>3, <1>5, <2>3
  <2>5. CASE s = "already_satisfied"
    BY <1>5, <2>1, <2>2, <2>4, <2>5
  <2>6. CASE s # "already_satisfied"
    BY <1>5, <2>2, <2>4, <2>6
  <2>7. QED
    BY <2>5, <2>6
<1>6. Effect
  BY <1>1, <1>4, <1>5
<1>7. phase = "settle" /\ UNCHANGED <<attempts, base, phase, opt, cancel, queue, batch,
                                      todo, items, refused, bounds>>
  BY DEF Settle
<1>8. QED
  BY <1>1, <1>2, <1>6, <1>7

\* Working and settling keep the types.
LEMMA WorkTypes ==
  ASSUME TypeOK, WorkerStep \/ WorkDone \/ Settle \/ SettleDone
  PROVE  TypeOK'
<1>1. CASE WorkerStep
  <2>1. PICK t \in Members(batch) : Advances(t) \/ Edit(t) \/ AgentCommit(t)
    BY <1>1 DEF WorkerStep
  <2>2. t \in Tasks
    BY MembersOfSeq DEF TypeOK
  <2>3. /\ UNCHANGED <<status, attempts, base, phase, opt, cancel, queue, batch, todo,
                       items, refused, bounds>>
        /\ worker' \in [Tasks -> Results \cup {"none", "queued", "agent", "moved", "committed"}]
        /\ ws' \in [Tasks -> Workspace]
    BY <2>1, <2>2, WorkerFacts
  <2>4. QED
    BY <2>3 DEF TypeOK, bounds
<1>2. CASE WorkDone
  BY <1>2 DEF WorkDone, TypeOK, Phases, durable, bounds
<1>3. CASE Settle
  <2>1. /\ UNCHANGED <<attempts, base, phase, opt, cancel, queue, batch, todo, items,
                       refused, bounds>>
        /\ status' \in [Tasks -> Statuses] /\ ws' \in [Tasks -> Workspace]
        /\ \E t : worker' = [worker EXCEPT ![t] = "none"]
    BY <1>3, SettleFacts
  <2>2. worker' \in [Tasks -> Results \cup {"none", "queued", "agent", "moved", "committed"}]
    BY <2>1 DEF TypeOK
  <2>3. QED
    BY <2>1, <2>2 DEF TypeOK, bounds
<1>4. CASE SettleDone
  <2>1. todo' \in Seq(Tasks)
    BY <1>4, AmongFacts DEF SettleDone, TypeOK
  <2>2. QED
    BY <1>4, <2>1 DEF SettleDone, TypeOK, Phases, durable, bounds
<1>5. QED
  BY <1>1, <1>2, <1>3, <1>4

\* Collecting what is ready keeps the types.
LEMMA CollectTypes ==
  ASSUME TypeOK, CollectTask \/ CollectDone
  PROVE  TypeOK'
<1>1. CASE CollectTask
  <2> DEFINE t == Head(todo)
  <2>1. t \in Tasks /\ Tail(todo) \in Seq(Tasks) /\ Append(items, t) \in Seq(Tasks)
    BY <1>1, TailFacts, AppendFacts DEF TypeOK, CollectTask
  <2> HIDE DEF t
  <2>2. items' \in Seq(Tasks) /\ todo' \in Seq(Tasks)
    BY <1>1, <2>1 DEF TypeOK, CollectTask, t
  <2>3. \/ \E s \in Statuses : NotMerged(t, s)
        \/ UNCHANGED <<status, ws>>
    BY <1>1 DEF CollectTask, RemoteBlocked, Statuses, t
  <2>4. status' \in [Tasks -> Statuses] /\ ws' \in [Tasks -> Workspace]
    BY <2>1, <2>3, NotMergedFacts DEF TypeOK
  <2>5. UNCHANGED <<attempts, base, phase, opt, cancel, queue, batch, worker, refused,
                    bounds>>
    BY <1>1 DEF CollectTask
  <2>6. QED
    BY <2>2, <2>4, <2>5 DEF TypeOK, bounds
<1>2. CASE CollectDone
  <2> DEFINE ready == Among(items, {t \in Tasks : ~Deferred(t, status)})
  <2>1. UNCHANGED <<durable, opt, cancel, worker, refused, bounds>>
    BY <1>2 DEF CollectDone
  <2>2. CASE NextBatch
    BY <2>1, <2>2, NextBatchTypes DEF TypeOK, Phases, durable, bounds
  <2>3. CASE /\ phase' = "gate" /\ items' = RedDependencies(ready) \o ready
             /\ UNCHANGED <<queue, batch, todo>>
    <3>1. ready \in Seq(Tasks)
      BY AmongFacts DEF TypeOK
    <3> HIDE DEF ready
    <3>2. RedDependencies(ready) \in Seq(Tasks)
      BY PlanFacts, AmongFacts DEF RedDependencies
    <3>3. items' \in Seq(Tasks)
      BY <2>3, <3>1, <3>2, ConcatFacts
    <3>4. QED
      BY <2>1, <2>3, <3>3 DEF TypeOK, Phases, durable, bounds
  <2>4. QED
    BY <1>2, <2>2, <2>3 DEF CollectDone
<1>3. QED
  BY <1>1, <1>2

\* The gate and what it rejects keep the types.
LEMMA RejectTypes ==
  ASSUME TypeOK, Gate \/ RejectItem \/ RejectDone
  PROVE  TypeOK'
<1>1. CASE Gate
  BY <1>1 DEF Gate, TypeOK, Phases, durable, bounds
<1>2. CASE RejectItem
  <2> DEFINE t == Head(todo)
  <2>1. t \in Tasks /\ Tail(todo) \in Seq(Tasks)
    BY <1>2, TailFacts DEF TypeOK, RejectItem
  <2>2. PICK w \in FailedCleanup(t) : ws' = [ws EXCEPT ![t] = w]
    BY <1>2 DEF RejectItem
  <2>3. w \in Workspace
    BY <2>1, CleanupFacts
  <2> HIDE DEF t
  <2>4. ws' \in [Tasks -> Workspace]
    BY <2>1, <2>2, <2>3 DEF TypeOK
  <2>5. todo' \in Seq(Tasks)
    BY <1>2, <2>1 DEF RejectItem
  <2>6. QED
    BY <1>2, <2>4, <2>5 DEF RejectItem, TypeOK, bounds
<1>3. CASE RejectDone
  <2>1. UNCHANGED <<attempts, ws, base, opt, cancel, worker, refused, bounds>>
    BY <1>3 DEF RejectDone
  <2>2. status' \in [Tasks -> Statuses]
    BY <1>3 DEF RejectDone, TypeOK, Statuses
  <2>3. \/ phase' = "final" /\ UNCHANGED <<queue, batch, todo, items>>
        \/ NextBatch
    BY <1>3 DEF RejectDone
  <2>4. QED
    BY <2>1, <2>2, <2>3, NextBatchTypes DEF TypeOK, Phases, bounds
<1>4. QED
  BY <1>1, <1>2, <1>3

\* Merging keeps the types.
LEMMA MergeTypes ==
  ASSUME TypeOK, MergeApply \/ MergeMark \/ MergeFails \/ MergesDone, phase = "mark" => todo # <<>>
  PROVE  TypeOK'
<1> DEFINE t == Head(todo)
<1>1. CASE MergeApply
  <2>1. t \in Tasks
    BY <1>1, TailFacts DEF TypeOK, MergeApply
  <2>2. QED
    BY <1>1, <2>1 DEF MergeApply, TypeOK, Phases, bounds
<1>2. CASE MergeMark
  <2>1. t \in Tasks /\ Tail(todo) \in Seq(Tasks)
    BY <1>2, TailFacts DEF TypeOK, MergeMark
  <2>2. PICK w \in DoneCleanup(t) : ws' = [ws EXCEPT ![t] = w]
    BY <1>2 DEF MergeMark
  <2>3. w \in Workspace
    BY <2>1, CleanupFacts
  <2>4. status' \in [Tasks -> Statuses]
    BY <1>2, <2>1, MarkFacts DEF MergeMark, Statuses, Successful
  <2> HIDE DEF t
  <2>5. ws' \in [Tasks -> Workspace]
    BY <2>1, <2>2, <2>3 DEF TypeOK
  <2>6. QED
    BY <1>2, <2>1, <2>4, <2>5 DEF MergeMark, TypeOK, Phases, bounds
<1>3. CASE MergeFails
  <2>1. t \in Tasks /\ Tail(todo) \in Seq(Tasks)
    BY <1>3, TailFacts DEF TypeOK, MergeFails
  <2>2. todo' = Tail(todo) /\ UNCHANGED <<attempts, phase, opt, cancel, queue, batch, items,
                                          worker, refused, bounds>>
    BY <1>3 DEF MergeFails
  <2>3. \/ Mark(t, "done") /\ base' = base \cup {t} /\ UNCHANGED ws
        \/ Mark(t, "merge_conflict") /\ UNCHANGED <<base, ws>>
        \/ NotMerged(t, "failed") /\ UNCHANGED base
    BY <1>3 DEF MergeFails
  <2> HIDE DEF t
  <2>4. {"done", "merge_conflict", "failed"} \subseteq Statuses
    BY DEF Statuses, Successful
  <2>5. /\ status' \in [Tasks -> Statuses] /\ ws' \in [Tasks -> Workspace]
        /\ base' \subseteq Tasks
    BY <2>1, <2>3, <2>4, MarkFacts, NotMergedFacts DEF TypeOK
  <2>6. QED
    BY <2>1, <2>2, <2>5 DEF TypeOK, bounds
<1>4. CASE MergesDone
  <2>1. NextBatch /\ UNCHANGED <<durable, opt, cancel, worker, refused, bounds>>
    BY <1>4 DEF MergesDone
  <2>2. QED
    BY <2>1, NextBatchTypes DEF TypeOK, Phases, durable, bounds
<1>5. QED
  BY <1>1, <1>2, <1>3, <1>4

\* The start and the end of a run keep the types.
LEMMA RunTypes ==
  ASSUME TypeOK, StartRun \/ Finish \/ Cancel \/ Crash
  PROVE  TypeOK'
<1>1. CASE StartRun
  <2>1. PICK o \in Options, S \in SUBSET Tasks :
          opt' = o /\ todo' = IF o.strategy = "auto" THEN Among(PlanOrder, S) ELSE <<>>
    BY <1>1 DEF StartRun
  <2>2. todo' \in Seq(Tasks)
    <3>1. Among(PlanOrder, S) \in Seq(Tasks) /\ <<>> \in Seq(Tasks)
      BY PlanFacts, AmongFacts, NothingIn
    <3>2. QED
      BY <2>1, <3>1
  <2>3. status' \in [Tasks -> Statuses]
    BY <1>1 DEF StartRun, Recovered, TypeOK, Statuses
  <2>4. runs' \in 0..MaxRuns
    BY <1>1, EngineAssumption DEF StartRun, TypeOK
  <2>5. QED
    BY <1>1, <2>1, <2>2, <2>3, <2>4 DEF StartRun, TypeOK, Phases
<1>2. CASE Finish
  BY <1>2, NothingIn DEF Finish, TypeOK, Phases, durable, bounds
<1>3. CASE Cancel
  BY <1>3 DEF Cancel, TypeOK, durable, bounds
<1>4. CASE Crash
  <2>1. crashes' \in 0..MaxCrashes
    BY <1>4, EngineAssumption DEF Crash, TypeOK
  <2>2. worker' \in [Tasks -> Results \cup {"none", "queued", "agent", "moved", "committed"}]
    BY <1>4 DEF Crash
  <2>3. QED
    BY <1>4, <2>1, <2>2, NothingIn DEF Crash, TypeOK, Phases, durable
<1>5. QED
  BY <1>1, <1>2, <1>3, <1>4

\* Every step keeps the types.
LEMMA NextTypes ==
  ASSUME TypeOK, ItemsInv, [Next]_vars
  PROVE  TypeOK'
<1>1. phase = "mark" => todo # <<>>
  BY DEF ItemsInv
<1>2. CASE UNCHANGED vars
  BY <1>2 DEF TypeOK, vars, durable, local, bounds
<1>3. CASE Next
  BY <1>1, <1>3, PendingTypes, ScheduleTypes, PrepareTypes, WorkTypes, CollectTypes,
     RejectTypes, MergeTypes, RunTypes DEF Next, Engine
<1>4. QED
  BY <1>2, <1>3

-----------------------------------------------------------------------------
(* The inductive invariant holds, action by action.                        *)

\* Outside of a batch nobody works.
LEMMA Unoccupied ==
  ASSUME TypeOK, WorkersInv, phase \notin {"idle", "work", "settle"}
  PROVE  \A t \in Tasks : worker[t] = "none" /\ status[t] # "in_progress"
BY DEF WorkersInv

\* Then nothing is claimed of the workers.
LEMMA NobodyWorks ==
  ASSUME \A t \in Tasks : worker[t] = "none" /\ status[t] # "in_progress"
  PROVE  WorkersInv
BY DEF WorkersInv

\* A schedule is one with tasks of a larger set.
LEMMA ScheduleWidens ==
  ASSUME NEW q, NEW p, NEW S, Schedule(q, p, S), NEW T, S \subseteq T
  PROVE  Schedule(q, p, T)
BY DEF Schedule

\* Nothing fits.
LEMMA NothingFits ==
  ASSUME NEW p \in Nat
  PROVE  Fits(<<>>, p) /\ Compatible({})
BY NothingIn DEF Fits, Compatible

\* The next batch can be prepared when the tasks of the queue are still idle.
LEMMA NextBatchKeeps ==
  ASSUME TypeOK, QueueInv, phase \in Looping, NextBatch, opt' = opt, Idle \subseteq Idle'
  PROVE  QueueInv' /\ PrepareInv' /\ ItemsInv' /\ StrategyInv'
<1> DEFINE p == opt.parallel
<1>1. p \in Nat \ {0} /\ Schedule(queue, p, Idle')
  BY OptionsFacts, ScheduleWidens DEF QueueInv
<1>2. opt'.parallel = p
  OBVIOUS
<1> HIDE DEF p
<1>3. batch' = <<>> /\ items' = <<>> /\ Fits(<<>>, p) /\ Members(<<>>) = {} /\ Len(<<>>) = 0
  BY <1>1, NothingFits, NothingIn DEF NextBatch
<1>4. CASE queue = <<>>
  BY <1>3, <1>4 DEF NextBatch, QueueInv, PrepareInv, ItemsInv, StrategyInv, Looping
<1>5. CASE queue # <<>>
  <2>1. phase' = "prepare" /\ todo' = Head(queue) /\ queue' = Tail(queue)
    BY <1>5 DEF NextBatch
  <2>2. /\ Head(queue) \in Seq(Tasks) /\ Fits(Head(queue), p)
        /\ Members(Head(queue)) \subseteq Idle'
        /\ Schedule(Tail(queue), p, Idle' \ Members(Head(queue)))
    BY <1>1, <1>5, FirstBatch
  <2>3. Schedule(queue', p, Idle')
    BY <2>1, <2>2, ScheduleWidens
  <2>4. \A i \in DOMAIN queue' : Members(todo') \cap Members(queue'[i]) = {}
    BY <2>1, <2>2 DEF Schedule
  <2>5. QueueInv'
    BY <1>2, <1>3, <2>1, <2>3 DEF QueueInv
  <2>6. PrepareInv'
    <3>1. Members(batch') = {} /\ Len(batch') = 0
      BY <1>3
    <3>2. Len(todo') \in Nat /\ Distinct(todo') /\ Len(todo') <= p /\ Compatible(Members(todo'))
      BY <2>1, <2>2, MembersOfSeq DEF Fits
    <3>3. {} \cup Members(todo') = Members(todo')
      OBVIOUS
    <3>4. Len(batch') + Len(todo') <= p
      BY <3>1, <3>2
    <3>5. Members(todo') \subseteq Idle'
      BY <2>1, <2>2
    <3>6. QED
      BY <1>2, <2>4, <3>1, <3>2, <3>3, <3>4, <3>5 DEF PrepareInv
  <2>7. ItemsInv' /\ StrategyInv'
    BY <1>3, <2>1 DEF ItemsInv, StrategyInv
  <2>8. QED
    BY <2>5, <2>6, <2>7
<1>6. QED
  BY <1>4, <1>5

\* A run starts, with the merges an earlier one has left over.
LEMMA StartRunKeeps ==
  ASSUME EngineInv, StartRun
  PROVE  RunInv'
<1>1. TypeOK /\ phase = "idle" /\ phase' = "pending" /\ UNCHANGED <<queue, batch, items, worker, ws,
                                                        base, crashes>>
  BY DEF EngineInv, StartRun
<1>2. PICK o \in Options :
        LET pending == {t \in Tasks :
                          \/ status[t] = "ready_for_merge" /\ ~Deferred(t, status')
                          \/ status[t] = "merge_conflict" /\ o.retryConflicts}
        IN  /\ opt' = o
            /\ todo' = IF o.strategy = "auto" THEN Among(PlanOrder, pending) ELSE <<>>
  BY DEF StartRun
<1> DEFINE pending == {t \in Tasks :
                         \/ status[t] = "ready_for_merge" /\ ~Deferred(t, status')
                         \/ status[t] = "merge_conflict" /\ o.retryConflicts}
<1>3. todo' = (IF o.strategy = "auto" THEN Among(PlanOrder, pending) ELSE <<>>) /\ opt' = o
  BY <1>2
<1>4. \A t \in pending : t \in Tasks /\ status[t] \in Mergeable
  BY DEF Mergeable
<1> HIDE DEF pending
<1>5. \A t \in Tasks : status'[t] = IF status[t] = "in_progress" THEN "failed" ELSE status[t]
  BY DEF StartRun, Recovered
<1>6. WorkersInv'
  <2>1. \A t \in Tasks : worker'[t] = "none" /\ status'[t] # "in_progress"
    BY <1>1, <1>5 DEF EngineInv, RunInv, WorkersInv
  <2>2. QED
    BY <2>1 DEF WorkersInv
<1>7. QueueInv' /\ PrepareInv'
  BY <1>1 DEF EngineInv, RunInv, QueueInv, PrepareInv, Looping
<1>8. ItemsInv' /\ StrategyInv'
  <2>1. items' = <<>>
    BY <1>1 DEF EngineInv, RunInv, ItemsInv
  <2>2. Distinct(<<>>) /\ Members(<<>>) = {}
    BY NothingIn
  <2>3. Distinct(todo') /\ Members(todo') \subseteq pending
    BY <1>3, <2>2, PlanFacts, AmongFacts
  <2>4. \A t \in Members(todo') : status'[t] \in Mergeable
    BY <1>4, <1>5, <2>3 DEF Mergeable
  <2>5. ItemsInv'
    BY <1>1, <2>1, <2>2, <2>3, <2>4 DEF ItemsInv
  <2>6. StrategyInv'
    BY <1>1, <1>3, <2>1 DEF StrategyInv
  <2>7. QED
    BY <2>5, <2>6
<1>9. DoneIsMerged' /\ WorkInv'
  <2>1. DoneIsMerged'
    BY <1>1, <1>5 DEF EngineInv, RunInv, DoneIsMerged
  <2>2. \A t \in Tasks : worker'[t] = "none"
    BY <1>1 DEF EngineInv, RunInv, WorkersInv
  <2>3. WorkInv'
    BY <1>1, <1>5, <2>2 DEF EngineInv, RunInv, WorkInv
  <2>4. QED
    BY <2>1, <2>3
<1>10. QED
  BY <1>6, <1>7, <1>8, <1>9 DEF RunInv

\* The first item of a loop, and the others.
LEMMA Visiting ==
  ASSUME TypeOK, todo # <<>>
  PROVE  /\ Head(todo) \in Tasks /\ Head(todo) \in Members(todo)
         /\ Members(Tail(todo)) \subseteq Members(todo)
         /\ Members(todo) = {Head(todo)} \cup Members(Tail(todo))
         /\ Distinct(todo) =>
              Distinct(Tail(todo)) /\ Head(todo) \notin Members(Tail(todo))
BY TailFacts DEF TypeOK

\* Appending the visited task to the items.
LEMMA ItemAdded ==
  ASSUME TypeOK, NEW t \in Tasks
  PROVE  /\ Members(Append(items, t)) = Members(items) \cup {t}
         /\ Append(items, t) # <<>>
         /\ Distinct(items) /\ t \notin Members(items) => Distinct(Append(items, t))
<1>1. items \in Seq(Tasks)
  BY DEF TypeOK
<1>2. QED
  BY <1>1, AppendFacts

\* The next task that is to be merged: kept, or refused.  It is the same before
\* the main loop and in it.
LEMMA VisitKeepsItems ==
  ASSUME EngineInv, phase \in {"pending", "collect"}, todo # <<>>, phase' = phase,
         todo' = Tail(todo),
         \/ /\ items' = Append(items, Head(todo)) /\ status' = status
         \/ /\ items' = items
            /\ \A u \in Tasks \ {Head(todo)} : status'[u] = status[u]
  PROVE  ItemsInv'
<1> DEFINE t == Head(todo)
<1>1. /\ Distinct(items) /\ Distinct(todo) /\ Members(items) \cap Members(todo) = {}
      /\ \A u \in Members(items) \cup Members(todo) : status[u] \in Mergeable
      /\ TypeOK
  BY DEF EngineInv, RunInv, ItemsInv
<1>2. /\ t \in Tasks /\ t \in Members(todo) /\ Members(todo) = {t} \cup Members(todo')
      /\ Distinct(todo') /\ t \notin Members(todo') /\ t \notin Members(items)
  BY <1>1, Visiting
<1>3. Members(items) \subseteq Tasks /\ Members(todo) \subseteq Tasks
  BY <1>1, MembersOfSeq DEF TypeOK
<1>4. CASE items' = Append(items, t) /\ status' = status
  <2>1. Members(items') = Members(items) \cup {t} /\ Distinct(items')
    BY <1>1, <1>2, <1>4, ItemAdded
  <2>2. QED
    BY <1>1, <1>2, <1>4, <2>1 DEF ItemsInv
<1>5. CASE items' = items /\ \A u \in Tasks \ {t} : status'[u] = status[u]
  <2>1. \A u \in Members(items') \cup Members(todo') : u \in Tasks \ {t}
    BY <1>2, <1>3, <1>5
  <2>2. \A u \in Members(items') \cup Members(todo') : status'[u] \in Mergeable
    BY <1>1, <1>2, <1>5, <2>1
  <2>3. Distinct(items') /\ Distinct(todo') /\ Members(items') \cap Members(todo') = {}
    BY <1>1, <1>2, <1>5
  <2>4. QED
    BY <2>2, <2>3 DEF ItemsInv
<1>6. QED
  BY <1>4, <1>5

\* A task that is refused can be started again, and what else is known of the
\* plan and the workspaces stays true.
LEMMA RefusedKeeps ==
  ASSUME EngineInv, phase \notin {"idle", "work", "settle", "reject"},
         NEW t \in Tasks, NEW s \in Startable, NotMerged(t, s),
         UNCHANGED <<base, worker, crashes, phase>>
  PROVE  /\ \A u \in Tasks \ {t} : status'[u] = status[u]
         /\ Idle \subseteq Idle' /\ WorkersInv' /\ DoneIsMerged' /\ WorkInv'
<1>1. TypeOK /\ WorkersInv /\ DoneIsMerged /\ WorkInv
  BY DEF EngineInv, RunInv
<1>2. s \in Statuses /\ s \notin {"in_progress", "done", "ready_for_merge"}
  BY DEF Startable, Statuses
<1>3. /\ status'[t] = s /\ \A u \in Tasks \ {t} : status'[u] = status[u]
      /\ \A u \in Tasks \ {t} : ws'[u] = ws[u]
  BY <1>1, <1>2, NotMergedFacts
<1>4. Idle \subseteq Idle'
  BY <1>3 DEF Idle
<1>5. \A u \in Tasks : worker[u] = "none" /\ status[u] # "in_progress"
  BY <1>1, Unoccupied
<1>6. WorkersInv'
  BY <1>2, <1>3, <1>5 DEF WorkersInv
<1>7. DoneIsMerged'
  BY <1>1, <1>2, <1>3 DEF DoneIsMerged
<1>8. WorkInv'
  BY <1>1, <1>2, <1>3, <1>5 DEF WorkInv
<1>9. QED
  BY <1>3, <1>4, <1>6, <1>7, <1>8

\* When neither the plan nor the workspaces nor the workers change, neither
\* does what is known of them.
LEMMA PlanKeeps ==
  ASSUME EngineInv, phase \notin {"idle", "work", "settle", "reject"},
         UNCHANGED <<status, ws, base, worker, crashes>>
  PROVE  Idle \subseteq Idle' /\ WorkersInv' /\ DoneIsMerged' /\ WorkInv'
<1>1. TypeOK /\ WorkersInv /\ DoneIsMerged /\ WorkInv
  BY DEF EngineInv, RunInv
<1>2. \A u \in Tasks : worker[u] = "none" /\ status[u] # "in_progress"
  BY <1>1, Unoccupied
<1>3. WorkersInv'
  BY <1>2 DEF WorkersInv
<1>4. QED
  BY <1>1, <1>3 DEF Idle, DoneIsMerged, WorkInv

\* The merges an earlier run has left over.
LEMMA PendingKeeps ==
  ASSUME EngineInv, PendingTask \/ PendingDone
  PROVE  RunInv'
<1>1. CASE PendingTask
  <2> DEFINE t == Head(todo)
  <2>1. /\ phase = "pending" /\ phase' = "pending" /\ todo # <<>> /\ todo' = Tail(todo)
        /\ UNCHANGED <<base, opt, queue, batch, worker, crashes>>
    BY <1>1 DEF PendingTask, bounds
  <2>2. t \in Tasks /\ opt.strategy = "auto" /\ QueueInv
    BY <2>1, Visiting DEF EngineInv, RunInv, StrategyInv
  <2>3. \/ items' = items /\ \E s \in Startable : NotMerged(t, s)
        \/ items' = Append(items, t) /\ UNCHANGED <<status, ws>>
    BY <1>1 DEF PendingTask, RemoteBlocked, ReviewVerdicts, Startable
  <2>4. \/ items' = items /\ \A u \in Tasks \ {t} : status'[u] = status[u]
        \/ items' = Append(items, t) /\ status' = status
    <3> HIDE DEF t
    <3>1. QED
      BY <2>1, <2>2, <2>3, RefusedKeeps
  <2>5. ItemsInv'
    BY <2>1, <2>4, VisitKeepsItems
  <2> HIDE DEF t
  <2>6. WorkersInv' /\ DoneIsMerged' /\ WorkInv'
    BY <2>1, <2>2, <2>3, RefusedKeeps, PlanKeeps
  <2>7. QueueInv' /\ PrepareInv' /\ StrategyInv'
    BY <2>1, <2>2 DEF QueueInv, PrepareInv, StrategyInv, Looping
  <2>8. QED
    BY <2>5, <2>6, <2>7 DEF RunInv
<1>2. CASE PendingDone
  <2>1. /\ phase = "pending" /\ phase' = (IF items = <<>> THEN "schedule" ELSE "gate") /\ todo = <<>>
        /\ UNCHANGED <<status, ws, base, opt, queue, batch, todo, items, worker, crashes>>
    BY <1>2 DEF PendingDone, durable, bounds
  <2>2. WorkersInv' /\ DoneIsMerged' /\ WorkInv'
    BY <2>1, PlanKeeps
  <2>3. queue = <<>> /\ batch = <<>>
    BY <2>1 DEF EngineInv, RunInv, QueueInv
  <2>4. QueueInv'
    <3>1. opt.parallel \in Nat
      BY OptionsFacts DEF EngineInv
    <3>2. Fits(<<>>, opt.parallel) /\ Schedule(<<>>, opt.parallel, Idle')
      BY <3>1, NothingFits, NoSchedule
    <3>3. QED
      BY <2>1, <2>3, <3>2 DEF QueueInv
  <2>5. PrepareInv' /\ ItemsInv' /\ StrategyInv'
    BY <2>1 DEF EngineInv, RunInv, PrepareInv, ItemsInv, StrategyInv
  <2>6. QED
    BY <2>2, <2>4, <2>5 DEF RunInv
<1>3. QED
  BY <1>1, <1>2

\* What a schedule is made of: tasks that can be started.
LEMMA ScheduleOfRunnable ==
  ASSUME EngineInv, ComputeSchedule
  PROVE  \/ phase' = "final" /\ UNCHANGED <<queue, todo>>
         \/ /\ phase' = "prepare"
            /\ \E q : /\ Schedule(q, opt.parallel, {t \in Tasks : Runnable(t)}) /\ q # <<>>
                      /\ queue' = Tail(q) /\ todo' = Head(q)
<1> DEFINE runnable == {t \in Tasks : Runnable(t)}
           all == Batches(runnable)
           kept == [i \in DOMAIN all |-> Among(all[i], Tasks \ refused)]
           schedule == Among(kept, Members(kept) \ {<<>>})
           p == opt.parallel
<1>1. p \in Nat \ {0}
  BY OptionsFacts DEF EngineInv
<1>2. Schedule(all, p, runnable)
  BY <1>1, BatchesFacts
<1> HIDE DEF all, runnable
<1>3. Schedule(schedule, p, runnable)
  <2> HIDE DEF p
  <2>1. p \in Nat
    BY <1>1
  <2>2. QED
    BY <1>2, <2>1, KeptFacts
<1>4. \/ phase' = "final" /\ UNCHANGED <<queue, todo>>
      \/ /\ schedule # <<>> /\ phase' = "prepare"
         /\ queue' = Tail(schedule) /\ todo' = Head(schedule)
  BY DEF ComputeSchedule, all, runnable
<1> HIDE DEF schedule
<1>5. QED
  BY <1>3, <1>4 DEF runnable

\* A schedule is computed.
LEMMA ScheduleKeeps ==
  ASSUME EngineInv, ComputeSchedule
  PROVE  RunInv'
<1> DEFINE p == opt.parallel
<1>1. /\ phase = "schedule"
      /\ UNCHANGED <<status, ws, base, opt, cancel, batch, items, worker, refused, crashes>>
  BY DEF ComputeSchedule, durable, bounds
<1>2. Idle' = Idle /\ WorkersInv' /\ DoneIsMerged' /\ WorkInv'
  BY <1>1, PlanKeeps DEF Idle
<1>3. /\ batch = <<>> /\ items = <<>> /\ Members(<<>>) = {} /\ Len(<<>>) = 0
      /\ p \in Nat \ {0} /\ Fits(<<>>, p)
  BY <1>1, NothingIn, NothingFits, OptionsFacts DEF EngineInv, RunInv, QueueInv, ItemsInv
<1>4. {t \in Tasks : Runnable(t)} \subseteq Idle
  BY DEF Idle, Runnable, RunnableStatus, Startable
<1>5. CASE phase' = "final"
  BY <1>1, <1>2, <1>5 DEF RunInv, QueueInv, PrepareInv, ItemsInv, StrategyInv, Looping
<1>6. CASE /\ phase' = "prepare"
           /\ \E q : /\ Schedule(q, opt.parallel, {t \in Tasks : Runnable(t)}) /\ q # <<>>
                     /\ queue' = Tail(q) /\ todo' = Head(q)
  <2>1. PICK q : /\ Schedule(q, p, {t \in Tasks : Runnable(t)}) /\ q # <<>>
                 /\ queue' = Tail(q) /\ todo' = Head(q)
    BY <1>6
  <2>2. opt'.parallel = p
    BY <1>1
  <2> HIDE DEF p
  <2>3. Schedule(q, p, Idle)
    BY <1>4, <2>1, ScheduleWidens
  <2>4. /\ todo' \in Seq(Tasks) /\ Fits(todo', p) /\ Members(todo') \subseteq Idle
        /\ Schedule(queue', p, Idle \ Members(todo'))
    BY <2>1, <2>3, FirstBatch
  <2>5. Schedule(queue', p, Idle)
    BY <2>4, ScheduleWidens
  <2>6. \A i \in DOMAIN queue' : Members(todo') \cap Members(queue'[i]) = {}
    BY <2>4 DEF Schedule
  <2>7. QueueInv'
    BY <1>1, <1>2, <1>3, <1>6, <2>2, <2>5 DEF QueueInv
  <2>8. PrepareInv'
    <3>1. Members(batch') = {} /\ Len(batch') = 0
      BY <1>1, <1>3
    <3>2. Len(todo') \in Nat /\ Distinct(todo') /\ Len(todo') <= p /\ Compatible(Members(todo'))
      BY <2>4, MembersOfSeq DEF Fits
    <3>3. {} \cup Members(todo') = Members(todo')
      OBVIOUS
    <3>4. Len(batch') + Len(todo') <= p
      BY <3>1, <3>2
    <3>5. Members(todo') \subseteq Idle'
      BY <1>2, <2>4
    <3>6. QED
      BY <2>2, <2>6, <3>1, <3>2, <3>3, <3>4, <3>5 DEF PrepareInv
  <2>9. ItemsInv' /\ StrategyInv'
    BY <1>1, <1>3, <1>6 DEF ItemsInv, StrategyInv
  <2>10. QED
    BY <1>2, <2>7, <2>8, <2>9 DEF RunInv
<1>7. QED
  BY <1>5, <1>6, ScheduleOfRunnable

\* The next task of a batch is prepared, or refused.
LEMMA PrepareTaskKeeps ==
  ASSUME EngineInv, PrepareTask
  PROVE  RunInv'
<1> DEFINE t == Head(todo)
           p == opt.parallel
           started == Members(batch) \cup Members(todo)
<1>1. /\ phase = "prepare" /\ phase' = "prepare" /\ todo # <<>> /\ todo' = Tail(todo)
      /\ UNCHANGED <<attempts, base, opt, queue, items, worker, crashes>>
  BY DEF PrepareTask, bounds
<1>2. TypeOK /\ QueueInv /\ PrepareInv /\ batch \in Seq(Tasks) /\ todo \in Seq(Tasks)
  BY DEF EngineInv, RunInv, TypeOK
<1>3. /\ Distinct(todo) /\ Members(batch) \cap Members(todo) = {}
      /\ Len(batch) + Len(todo) <= p /\ Compatible(started) /\ started \subseteq Idle
      /\ \A i \in DOMAIN queue : started \cap Members(queue[i]) = {}
      /\ Fits(batch, p) /\ Schedule(queue, p, Idle)
  BY <1>1, <1>2 DEF PrepareInv, QueueInv, Looping
<1>4. /\ t \in Tasks /\ Members(todo) = {t} \cup Members(todo') /\ Distinct(todo')
      /\ t \notin Members(todo')
      /\ Len(todo') = Len(todo) - 1 /\ Len(todo) \in Nat \ {0}
  BY <1>1, <1>2, <1>3, TailFacts
<1>5. Len(batch) \in Nat /\ Distinct(batch) /\ p \in Nat /\ opt'.parallel = p
  BY <1>1, <1>2, <1>3, MembersOfSeq, OptionsFacts DEF Fits
<1>6. \/ /\ ws' = [ws EXCEPT ![t] = Prepared(Retried(ws[t]))]
         /\ batch' = Append(batch, t) /\ status' = status
      \/ /\ Mark(t, "failed") /\ ws' = ws /\ batch' = batch
  BY DEF PrepareTask
<1>7. /\ Members(batch') \cup Members(todo') \subseteq started
      /\ Members(batch') \cap Members(todo') = {} /\ Distinct(batch')
      /\ Len(batch') + Len(todo') <= p /\ Len(batch') <= p /\ Len(batch') \in Nat
      /\ Len(todo') \in Nat
  <2>1. CASE batch' = Append(batch, t)
    <3>1. /\ Members(batch') = Members(batch) \cup {t} /\ Len(batch') = Len(batch) + 1
          /\ t \notin Members(batch) => Distinct(batch')
      BY <1>2, <1>4, <1>5, <2>1, AppendFacts
    <3> HIDE DEF t, p
    <3>2. t \notin Members(batch)
      BY <1>3, <1>4
    <3>3. Len(batch') + Len(todo') <= p /\ Len(batch') <= p
      BY <1>3, <1>4, <1>5, <3>1
    <3>4. QED
      BY <1>3, <1>4, <1>5, <3>1, <3>2, <3>3
  <2>2. CASE batch' = batch
    <3> HIDE DEF t, p
    <3>1. Len(batch') + Len(todo') <= p /\ Len(batch') <= p /\ Len(todo') \in Nat
      BY <1>3, <1>4, <1>5, <2>2
    <3>2. QED
      BY <1>3, <1>4, <1>5, <2>2, <3>1
  <2>3. QED
    BY <1>6, <2>1, <2>2
<1>8. Idle' = Idle /\ \A u \in Tasks : status'[u] = status[u] \/ status'[u] = "failed"
  <2>1. status[t] \in Startable
    BY <1>3, <1>4 DEF Idle
  <2>2. \/ status' = status
        \/ status'[t] = "failed" /\ \A u \in Tasks \ {t} : status'[u] = status[u]
    BY <1>2, <1>4, <1>6, MarkFacts DEF Statuses
  <2>3. "failed" \in Startable
    BY DEF Startable
  <2> HIDE DEF t
  <2>4. QED
    BY <1>4, <2>1, <2>2, <2>3 DEF Idle
<1>9. Compatible(Members(batch') \cup Members(todo')) /\ Compatible(Members(batch'))
  <2> HIDE DEF t
  <2>1. QED
    BY <1>3, <1>7 DEF Compatible
<1>10. QueueInv'
  <2>1. Fits(batch', p)
    BY <1>7, <1>9 DEF Fits
  <2> HIDE DEF p, started
  <2>2. QED
    BY <1>1, <1>3, <1>5, <1>8, <2>1 DEF QueueInv
<1>11. PrepareInv'
  <2> HIDE DEF p
  <2>1. \A i \in DOMAIN queue' :
          (Members(batch') \cup Members(todo')) \cap Members(queue'[i]) = {}
    BY <1>1, <1>3, <1>7
  <2>2. Members(batch') \cup Members(todo') \subseteq Idle'
    BY <1>3, <1>7, <1>8
  <2> HIDE DEF started, t
  <2>3. QED
    BY <1>4, <1>5, <1>7, <1>9, <2>1, <2>2 DEF PrepareInv
<1>12. ItemsInv' /\ StrategyInv'
  BY <1>1 DEF EngineInv, RunInv, ItemsInv, StrategyInv
<1>13. WorkersInv' /\ DoneIsMerged' /\ WorkInv'
  <2>1. \A u \in Tasks : worker[u] = "none" /\ status[u] # "in_progress"
    BY <1>1, Unoccupied DEF EngineInv, RunInv
  <2>2. WorkersInv'
    BY <1>1, <1>8, <2>1 DEF WorkersInv
  <2>3. DoneIsMerged'
    BY <1>1, <1>8 DEF EngineInv, RunInv, DoneIsMerged
  <2>4. \A u \in Tasks : status'[u] = "ready_for_merge" => status[u] = status'[u] /\ ws'[u] = ws[u]
    <3>1. status[t] \in Startable
      BY <1>3, <1>4 DEF Idle
    <3>2. status'[t] \in Startable
      BY <1>4, <1>8, <3>1 DEF Startable
    <3>3. \A u \in Tasks \ {t} : ws'[u] = ws[u]
      BY <1>2, <1>6 DEF TypeOK
    <3> HIDE DEF t
    <3>4. QED
      BY <1>8, <3>2, <3>3 DEF Startable
  <2>5. WorkInv'
    BY <1>1, <2>1, <2>4 DEF EngineInv, RunInv, WorkInv
  <2>6. QED
    BY <2>2, <2>3, <2>5
<1>14. QED
  BY <1>10, <1>11, <1>12, <1>13 DEF RunInv

\* A batch starts: its tasks are in progress, with a worker each.
LEMMA DispatchKeeps ==
  ASSUME EngineInv, Dispatch
  PROVE  RunInv'
<1> DEFINE p == opt.parallel
           b == Members(batch)
<1>1. /\ phase = "prepare" /\ phase' = "work" /\ todo = <<>>
      /\ status' = [t \in Tasks |-> IF t \in b THEN "in_progress" ELSE status[t]]
      /\ worker' = [t \in Tasks |-> IF t \in b THEN "queued" ELSE "none"]
      /\ UNCHANGED <<ws, base, opt, queue, batch, todo, items, crashes>>
  BY DEF Dispatch, bounds
<1>2. /\ TypeOK /\ Fits(batch, p) /\ Schedule(queue, p, Idle)
      /\ \A i \in DOMAIN queue : b \cap Members(queue[i]) = {}
  BY <1>1 DEF EngineInv, RunInv, QueueInv, PrepareInv, Looping
<1>3. \A t \in Tasks : status[t] # "in_progress"
  BY <1>1, Unoccupied DEF EngineInv, RunInv
<1>4. WorkersInv'
  BY <1>1, <1>3 DEF WorkersInv
<1>5. QueueInv'
  <2>1. Idle' = Idle \ b
    BY <1>1 DEF Idle, Startable
  <2>2. Schedule(queue, p, Idle')
    BY <1>2, <2>1 DEF Schedule
  <2>3. opt'.parallel = p
    BY <1>1
  <2> HIDE DEF p
  <2>4. QED
    BY <1>1, <1>2, <2>2, <2>3 DEF QueueInv
<1>6. PrepareInv' /\ ItemsInv' /\ StrategyInv'
  BY <1>1 DEF EngineInv, RunInv, PrepareInv, ItemsInv, StrategyInv
<1>7. DoneIsMerged' /\ WorkInv'
  BY <1>1 DEF EngineInv, RunInv, DoneIsMerged, WorkInv
<1>8. QED
  BY <1>4, <1>5, <1>6, <1>7 DEF RunInv

\* The next batch, when the plan and the workspaces stay as they are.
LEMMA NextBatchOnly ==
  ASSUME EngineInv, phase \in Looping \ {"work", "settle", "reject"}, NextBatch,
         UNCHANGED <<status, ws, base, opt, worker, crashes>>
  PROVE  RunInv'
<1>1. phase \notin {"idle", "work", "settle", "reject"} /\ phase \in Looping
  BY DEF Looping
<1>2. Idle \subseteq Idle' /\ WorkersInv' /\ DoneIsMerged' /\ WorkInv'
  BY <1>1, PlanKeeps
<1>3. QueueInv' /\ PrepareInv' /\ ItemsInv' /\ StrategyInv'
  BY <1>1, <1>2, NextBatchKeeps DEF EngineInv, RunInv
<1>4. QED
  BY <1>2, <1>3 DEF RunInv

\* A worker makes a step, or has made its last one.
LEMMA WorkKeeps ==
  ASSUME EngineInv, WorkerStep \/ WorkDone
  PROVE  RunInv'
<1>1. CASE WorkerStep
  <2>1. PICK t \in Members(batch) : Advances(t) \/ Edit(t) \/ AgentCommit(t)
    BY <1>1 DEF WorkerStep
  <2>2. TypeOK /\ t \in Tasks
    BY MembersOfSeq DEF EngineInv, TypeOK
  <2>3. /\ UNCHANGED <<status, attempts, base, phase, opt, cancel, queue, batch, todo,
                       items, refused, bounds>>
        /\ worker[t] \in {"queued", "agent", "moved", "committed"}
        /\ worker' \in [Tasks -> Results \cup {"none", "queued", "agent", "moved", "committed"}]
        /\ worker'[t] # "none" /\ \A u \in Tasks \ {t} : worker'[u] = worker[u]
        /\ ws' \in [Tasks -> Workspace] /\ ws'[t].marker = ws[t].marker
        /\ \A u \in Tasks \ {t} : ws'[u] = ws[u]
        /\ worker'[t] \in {"committed", "success", "unverified"} =>
             \/ ws'[t].branch = "work"
             \/ worker[t] = "committed" /\ ws' = ws
    BY <2>1, <2>2, WorkerFacts
  <2>4. /\ phase \in {"work", "settle"} /\ status[t] = "in_progress"
        /\ worker[t] \notin Results \cup {"none"}
    BY <2>2, <2>3 DEF EngineInv, RunInv, WorkersInv, Results
  <2>5. phase = "work"
    BY <2>2, <2>4 DEF EngineInv, RunInv, WorkersInv
  <2>6. WorkersInv'
    BY <2>2, <2>3, <2>4, <2>5 DEF EngineInv, RunInv, WorkersInv
  <2>7. QueueInv' /\ PrepareInv' /\ ItemsInv' /\ StrategyInv' /\ DoneIsMerged'
    BY <2>3, <2>5 DEF EngineInv, RunInv, QueueInv, PrepareInv, ItemsInv, StrategyInv, DoneIsMerged,
       Idle
  <2>8. WorkInv'
    BY <2>2, <2>3, <2>4 DEF EngineInv, RunInv, WorkInv, bounds
  <2>9. QED
    BY <2>6, <2>7, <2>8 DEF RunInv
<1>2. CASE WorkDone
  <2>1. /\ phase = "work" /\ phase' = "settle" /\ \A t \in Members(batch) : worker[t] \in Results
        /\ UNCHANGED <<status, ws, base, opt, queue, batch, todo, items, worker, crashes>>
    BY <1>2 DEF WorkDone, durable, bounds
  <2>2. WorkersInv'
    BY <2>1 DEF EngineInv, RunInv, WorkersInv
  <2>3. QueueInv'
    BY <2>1 DEF EngineInv, RunInv, QueueInv, Looping, Idle
  <2>4. PrepareInv' /\ ItemsInv' /\ StrategyInv' /\ DoneIsMerged' /\ WorkInv'
    BY <2>1 DEF EngineInv, RunInv, PrepareInv, ItemsInv, StrategyInv, DoneIsMerged, WorkInv
  <2>5. QED
    BY <2>2, <2>3, <2>4 DEF RunInv
<1>3. QED
  BY <1>1, <1>2

\* A result is settled, or the last one has been.
LEMMA SettleKeeps ==
  ASSUME EngineInv, Settle \/ SettleDone
  PROVE  RunInv'
<1>1. CASE Settle
  <2>1. TypeOK
    BY DEF EngineInv
  <2>2. PICK t \in Members(batch) :
          /\ t \in Tasks /\ worker[t] # "none"
          /\ worker' = [worker EXCEPT ![t] = "none"]
          /\ \A u \in Tasks \ {t} : status'[u] = status[u] /\ ws'[u] = ws[u]
          /\ \/ /\ status'[t] \in {"failed", "verify_failed", "changes_requested"}
                /\ ws'[t] \in FailedCleanup(t)
             \/ /\ status'[t] \in Accepts(worker[t]) \ {"already_satisfied"}
                /\ ws'[t] = ws[t]
             \/ /\ status'[t] = "already_satisfied" /\ worker[t] = "noop"
                /\ ws'[t] \in DoneCleanup(t)
    BY <1>1, <2>1, SettleFacts
  <2>3. phase = "settle" /\ phase' = phase
        /\ UNCHANGED <<base, opt, queue, batch, todo, items, crashes>>
    BY <1>1, <2>1, SettleFacts DEF bounds
  <2>4. worker'[t] = "none" /\ \A u \in Tasks \ {t} : worker'[u] = worker[u]
    BY <2>1, <2>2 DEF TypeOK
  <2>5. /\ status'[t] \in {"failed", "verify_failed", "changes_requested", "ready_for_merge",
                           "completed_unverified", "already_satisfied", "interrupted"}
        /\ status'[t] = "ready_for_merge" => worker[t] = "success" /\ ws'[t] = ws[t]
    <3>1. /\ Accepts(worker[t]) \subseteq {"ready_for_merge", "completed_unverified",
                                           "already_satisfied", "interrupted"}
          /\ "ready_for_merge" \in Accepts(worker[t]) => worker[t] = "success"
      BY VerdictFacts
    <3>2. QED
      BY <2>2, <3>1
  <2>6. status[t] = "in_progress"
    BY <2>2 DEF EngineInv, RunInv, WorkersInv
  <2>7. WorkersInv'
    BY <2>2, <2>3, <2>4, <2>5 DEF EngineInv, RunInv, WorkersInv
  <2>8. QueueInv'
    <3>1. Idle \subseteq Idle'
      BY <2>2, <2>6 DEF Idle, Startable
    <3>2. Schedule(queue, opt.parallel, Idle') /\ Fits(batch, opt.parallel)
      BY <2>3, <3>1, ScheduleWidens DEF EngineInv, RunInv, QueueInv, Looping
    <3>3. QED
      BY <2>3, <3>2 DEF QueueInv
  <2>9. PrepareInv' /\ ItemsInv' /\ StrategyInv'
    BY <2>3 DEF EngineInv, RunInv, PrepareInv, ItemsInv, StrategyInv
  <2>10. DoneIsMerged'
    BY <2>2, <2>3, <2>5 DEF EngineInv, RunInv, DoneIsMerged
  <2>11. WorkInv'
    <3>1. status'[t] = "ready_for_merge" => ws'[t].branch = "work"
      BY <2>2, <2>5 DEF EngineInv, RunInv, WorkInv
    <3>2. QED
      BY <2>2, <2>3, <2>4, <3>1 DEF EngineInv, RunInv, WorkInv
  <2>12. QED
    BY <2>7, <2>8, <2>9, <2>10, <2>11 DEF RunInv
<1>2. CASE SettleDone
  <2>1. /\ phase = "settle" /\ \A t \in Members(batch) : worker[t] = "none"
        /\ phase' = "collect" /\ todo' = Among(batch, Ready)
        /\ UNCHANGED <<status, ws, base, opt, queue, batch, items, worker, crashes>>
    BY <1>2 DEF SettleDone, durable, bounds
  <2>2. \A t \in Tasks : worker[t] = "none" /\ status[t] # "in_progress"
    BY <2>1 DEF EngineInv, RunInv, WorkersInv
  <2>3. WorkersInv'
    BY <2>1, <2>2 DEF WorkersInv
  <2>4. QueueInv'
    BY <2>1 DEF EngineInv, RunInv, QueueInv, Looping, Idle
  <2>5. batch \in Seq(Tasks) /\ Distinct(batch) /\ items = <<>>
    BY <2>1 DEF EngineInv, RunInv, QueueInv, ItemsInv, Looping, Fits, TypeOK
  <2>6. ItemsInv'
    <3>1. Distinct(<<>>) /\ Members(<<>>) = {}
      BY NothingIn
    <3>2. Distinct(todo') /\ Members(todo') \subseteq Ready
      BY <2>1, <2>5, AmongFacts
    <3>3. QED
      BY <2>1, <2>5, <3>1, <3>2 DEF ItemsInv, Ready, Mergeable
  <2>7. PrepareInv' /\ StrategyInv' /\ DoneIsMerged' /\ WorkInv'
    BY <2>1 DEF EngineInv, RunInv, PrepareInv, StrategyInv, DoneIsMerged, WorkInv
  <2>8. QED
    BY <2>3, <2>4, <2>6, <2>7 DEF RunInv
<1>3. QED
  BY <1>1, <1>2

\* What goes to the merge: ready tasks, each once.
LEMMA ReadyItems ==
  ASSUME TypeOK, Distinct(items), \A t \in Members(items) : status[t] \in Mergeable,
         NEW S, NEW ready, ready = Among(items, S)
  PROVE  /\ RedDependencies(ready) \o ready \in Seq(Tasks)
         /\ Distinct(RedDependencies(ready) \o ready)
         /\ \A t \in Members(RedDependencies(ready) \o ready) : status[t] \in Mergeable
<1> DEFINE red == RedDependencies(ready)
           R == {t \in (Red \cap Ready) \ Members(ready) : \E u \in Members(ready) : t \in Deps[u]}
<1>1. items \in Seq(Tasks)
  BY DEF TypeOK
<1>2. /\ ready \in Seq(Tasks) /\ Members(ready) \subseteq Members(items) /\ Distinct(ready)
  BY <1>1, AmongFacts
<1>3. red = Among(PlanOrder, R)
  BY DEF RedDependencies
<1>4. \A t \in R : status[t] \in Mergeable /\ t \notin Members(ready)
  BY DEF Ready, Mergeable
<1> HIDE DEF R, red
<1>5. red \in Seq(Tasks) /\ Members(red) \subseteq R /\ Distinct(red)
  BY <1>3, PlanFacts, AmongFacts
<1>6. Members(red) \cap Members(ready) = {}
  BY <1>4, <1>5
<1>7. /\ red \o ready \in Seq(Tasks) /\ Distinct(red \o ready)
      /\ Members(red \o ready) = Members(red) \cup Members(ready)
  BY <1>2, <1>5, <1>6, ConcatFacts
<1>8. QED
  BY <1>2, <1>4, <1>5, <1>7 DEF red

\* The settled tasks are collected for the merge.
LEMMA CollectKeeps ==
  ASSUME EngineInv, CollectTask \/ CollectDone
  PROVE  RunInv'
<1>1. CASE CollectTask
  <2> DEFINE t == Head(todo)
  <2>1. /\ phase = "collect" /\ phase' = "collect" /\ todo # <<>> /\ todo' = Tail(todo)
        /\ UNCHANGED <<base, opt, queue, batch, worker, crashes>>
    BY <1>1 DEF CollectTask, bounds
  <2>2. t \in Tasks /\ QueueInv
    BY <2>1, Visiting DEF EngineInv, RunInv
  <2>3. \/ items' = items /\ \E s \in Startable : NotMerged(t, s)
        \/ items' = Append(items, t) /\ UNCHANGED <<status, ws>>
    BY <1>1 DEF CollectTask, RemoteBlocked, Startable
  <2>4. \/ items' = items /\ \A u \in Tasks \ {t} : status'[u] = status[u]
        \/ items' = Append(items, t) /\ status' = status
    <3> HIDE DEF t
    <3>1. QED
      BY <2>1, <2>2, <2>3, RefusedKeeps
  <2>5. ItemsInv'
    BY <2>1, <2>4, VisitKeepsItems
  <2> HIDE DEF t
  <2>6. Idle \subseteq Idle' /\ WorkersInv' /\ DoneIsMerged' /\ WorkInv'
    BY <2>1, <2>2, <2>3, RefusedKeeps, PlanKeeps
  <2>7. QueueInv'
    <3>1. Schedule(queue, opt.parallel, Idle') /\ Fits(batch, opt.parallel)
      BY <2>1, <2>2, <2>6, ScheduleWidens DEF QueueInv, Looping
    <3>2. QED
      BY <2>1, <3>1 DEF QueueInv
  <2>8. PrepareInv' /\ StrategyInv'
    BY <2>1 DEF PrepareInv, StrategyInv
  <2>9. QED
    BY <2>5, <2>6, <2>7, <2>8 DEF RunInv
<1>2. CASE CollectDone
  <2> DEFINE ready == Among(items, {t \in Tasks : ~Deferred(t, status)})
  <2>1. /\ phase = "collect" /\ todo = <<>>
        /\ UNCHANGED <<status, ws, base, opt, worker, crashes>>
    BY <1>2 DEF CollectDone, durable, bounds
  <2>2. CASE NextBatch
    BY <2>1, <2>2, NextBatchOnly DEF Looping
  <2>3. CASE /\ opt.strategy # "review"
             /\ phase' = "gate" /\ items' = RedDependencies(ready) \o ready
             /\ UNCHANGED <<queue, batch, todo>>
    <3>1. TypeOK /\ Distinct(items) /\ \A t \in Members(items) : status[t] \in Mergeable
      BY <2>1 DEF EngineInv, RunInv, ItemsInv
    <3>2. Distinct(items') /\ \A t \in Members(items') : status'[t] \in Mergeable
      <4>1. ready = Among(items, {t \in Tasks : ~Deferred(t, status)})
        OBVIOUS
      <4> HIDE DEF ready
      <4>2. QED
        BY <2>1, <2>3, <3>1, <4>1, ReadyItems
    <3>3. opt.strategy = "auto"
      BY <2>3, <3>1, OptionsFacts
    <3> HIDE DEF ready
    <3>4. Idle' = Idle /\ WorkersInv' /\ DoneIsMerged' /\ WorkInv'
      BY <2>1, PlanKeeps DEF Idle
    <3>5. QueueInv'
      BY <2>1, <2>3, <3>4 DEF EngineInv, RunInv, QueueInv, Looping
    <3>6. PrepareInv' /\ ItemsInv' /\ StrategyInv'
      BY <2>1, <2>3, <3>2, <3>3 DEF PrepareInv, ItemsInv, StrategyInv
    <3>7. QED
      BY <3>4, <3>5, <3>6 DEF RunInv
  <2>4. QED
    BY <1>2, <2>2, <2>3 DEF CollectDone
<1>3. QED
  BY <1>1, <1>2

\* The gate judges the items, and those it rejects are cleaned up.
LEMMA GateKeeps ==
  ASSUME EngineInv, Gate \/ RejectItem
  PROVE  RunInv'
<1>1. CASE Gate
  <2>1. /\ phase = "gate" /\ phase' \in {"merge", "reject"} /\ todo' = items
        /\ UNCHANGED <<status, ws, base, opt, queue, batch, items, worker, crashes>>
    BY <1>1 DEF Gate, durable, bounds
  <2>2. Idle' = Idle /\ WorkersInv' /\ DoneIsMerged' /\ WorkInv'
    BY <2>1, PlanKeeps DEF Idle
  <2>3. QueueInv'
    BY <2>1, <2>2 DEF EngineInv, RunInv, QueueInv, Looping
  <2>4. PrepareInv' /\ ItemsInv' /\ StrategyInv'
    BY <2>1 DEF EngineInv, RunInv, PrepareInv, ItemsInv, StrategyInv
  <2>5. QED
    BY <2>2, <2>3, <2>4 DEF RunInv
<1>2. CASE RejectItem
  <2> DEFINE t == Head(todo)
  <2>1. /\ phase = "reject" /\ phase' = "reject" /\ todo # <<>> /\ todo' = Tail(todo)
        /\ UNCHANGED <<status, base, opt, queue, batch, items, worker, crashes>>
    BY <1>2 DEF RejectItem, bounds
  <2>2. TypeOK /\ t \in Tasks /\ t \in Members(items) /\ Members(todo') \subseteq Members(items)
    BY <2>1, Visiting DEF EngineInv, RunInv, ItemsInv
  <2>3. \A u \in Tasks \ {t} : ws'[u] = ws[u]
    <3>1. PICK w \in FailedCleanup(t) : ws' = [ws EXCEPT ![t] = w]
      BY <1>2 DEF RejectItem
    <3>2. QED
      BY <2>2, <3>1 DEF TypeOK
  <2> HIDE DEF t
  <2>4. \A u \in Tasks : worker[u] = "none" /\ status[u] # "in_progress"
    BY <2>1, Unoccupied DEF EngineInv, RunInv
  <2>5. WorkersInv'
    BY <2>1, <2>4 DEF WorkersInv
  <2>6. Idle' = Idle
    BY <2>1 DEF Idle
  <2>7. QueueInv' /\ PrepareInv' /\ ItemsInv' /\ StrategyInv' /\ DoneIsMerged'
    BY <2>1, <2>2, <2>6 DEF EngineInv, RunInv, QueueInv, PrepareInv, ItemsInv, StrategyInv,
       DoneIsMerged
  <2>8. WorkInv'
    BY <2>1, <2>2, <2>3, <2>4 DEF EngineInv, RunInv, WorkInv
  <2>9. QED
    BY <2>5, <2>7, <2>8 DEF RunInv
<1>3. QED
  BY <1>1, <1>2

\* The rejection is saved.
LEMMA RejectDoneKeeps ==
  ASSUME EngineInv, RejectDone
  PROVE  RunInv'
<1> DEFINE st == [t \in Tasks |->
                    IF t \in Members(items) THEN "candidate_rejected" ELSE status[t]]
<1>1. /\ phase = "reject" /\ todo = <<>> /\ UNCHANGED <<ws, base, opt, worker, crashes>>
      /\ status' = [t \in Tasks |-> IF Blocked(t, st) THEN "blocked_integration" ELSE st[t]]
      /\ \/ /\ opt.integration = "strict" /\ phase' = "final"
            /\ UNCHANGED <<queue, batch, todo, items>>
         \/ opt.integration # "strict" /\ NextBatch
  BY DEF RejectDone, bounds
<1>2. TypeOK /\ QueueInv /\ DoneIsMerged /\ WorkInv /\ phase \in Looping
  BY <1>1 DEF EngineInv, RunInv, Looping
<1>3. \A t \in Tasks :
        /\ worker[t] = "none" /\ status[t] # "in_progress"
        /\ status'[t] = IF Blocked(t, st) THEN "blocked_integration" ELSE st[t]
        /\ st[t] = IF t \in Members(items) THEN "candidate_rejected" ELSE status[t]
  BY <1>1, Unoccupied DEF EngineInv, RunInv
<1> HIDE DEF st
<1>4. \A t \in Tasks : \/ status'[t] = status[t] /\ t \notin Members(items)
                       \/ status'[t] \in {"candidate_rejected", "blocked_integration"}
  BY <1>3
<1>5. WorkersInv' /\ DoneIsMerged' /\ WorkInv'
  <2>1. WorkersInv'
    BY <1>1, <1>3, <1>4 DEF WorkersInv
  <2>2. DoneIsMerged'
    BY <1>1, <1>2, <1>4 DEF DoneIsMerged
  <2>3. WorkInv'
    BY <1>1, <1>2, <1>3, <1>4 DEF WorkInv
  <2>4. QED
    BY <2>1, <2>2, <2>3
<1>6. CASE opt.integration = "strict" /\ phase' = "final" /\ UNCHANGED <<queue, batch, todo, items>>
  BY <1>5, <1>6 DEF RunInv, QueueInv, PrepareInv, ItemsInv, StrategyInv, Looping
<1>7. CASE opt.integration # "strict" /\ NextBatch
  <2>1. \A t \in Tasks : status'[t] = st[t]
    BY <1>3, <1>7 DEF Blocked
  <2>2. Idle \subseteq Idle'
    BY <1>3, <2>1 DEF Idle, Startable
  <2>3. QueueInv' /\ PrepareInv' /\ ItemsInv' /\ StrategyInv'
    BY <1>1, <1>2, <1>7, <2>2, NextBatchKeeps
  <2>4. QED
    BY <1>5, <2>3 DEF RunInv
<1>8. QED
  BY <1>1, <1>6, <1>7

\* The first task of the merge leaves it, done or not.
LEMMA MergedKeeps ==
  ASSUME EngineInv, phase \in {"merge", "mark"}, todo # <<>>, todo' = Tail(todo),
         phase' = "merge", UNCHANGED <<opt, queue, batch, items, worker, crashes>>,
         base \subseteq base',
         \/ status'[Head(todo)] \in {"merge_conflict", "failed"}
         \/ status'[Head(todo)] = "done" /\ Head(todo) \in base',
         \A u \in Tasks \ {Head(todo)} : status'[u] = status[u] /\ ws'[u] = ws[u]
  PROVE  RunInv'
<1> DEFINE t == Head(todo)
<1>1. TypeOK /\ Distinct(todo) /\ \A u \in Members(todo) : status[u] \in Mergeable
  BY DEF EngineInv, RunInv, ItemsInv
<1>2. /\ t \in Tasks /\ Members(todo) = {t} \cup Members(todo') /\ Distinct(todo')
      /\ t \notin Members(todo')
  BY <1>1, Visiting
<1>3. Members(todo') \subseteq Tasks \ {t}
  BY <1>1, <1>2, MembersOfSeq DEF TypeOK
<1>4. status[t] \in Mergeable /\ \A u \in Members(todo') : status'[u] \in Mergeable
  BY <1>1, <1>2, <1>3
<1>5. /\ \/ status'[t] \in {"merge_conflict", "failed"}
         \/ status'[t] = "done" /\ t \in base'
      /\ \A u \in Tasks \ {t} : status'[u] = status[u] /\ ws'[u] = ws[u]
  OBVIOUS
<1> HIDE DEF t
<1>6. \A u \in Tasks : worker[u] = "none" /\ status[u] # "in_progress"
  BY <1>1, Unoccupied DEF EngineInv, RunInv
<1>7. WorkersInv'
  BY <1>5, <1>6 DEF WorkersInv
<1>8. Idle \subseteq Idle'
  BY <1>2, <1>4, <1>5 DEF Idle, Startable, Mergeable
<1>9. QueueInv'
  <2>1. Schedule(queue, opt.parallel, Idle') /\ Fits(batch, opt.parallel)
    BY <1>8, ScheduleWidens DEF EngineInv, RunInv, QueueInv, Looping
  <2>2. QED
    BY <2>1 DEF QueueInv
<1>10. PrepareInv' /\ ItemsInv' /\ StrategyInv'
  BY <1>2, <1>4 DEF EngineInv, RunInv, PrepareInv, ItemsInv, StrategyInv
<1>11. DoneIsMerged'
  BY <1>5 DEF EngineInv, RunInv, DoneIsMerged
<1>12. WorkInv'
  BY <1>5, <1>6 DEF EngineInv, RunInv, WorkInv
<1>13. QED
  BY <1>7, <1>9, <1>10, <1>11, <1>12 DEF RunInv

\* The items are merged.
LEMMA MergeKeeps ==
  ASSUME EngineInv, MergeApply \/ MergeMark \/ MergeFails \/ MergesDone
  PROVE  RunInv'
<1> DEFINE t == Head(todo)
<1>1. TypeOK /\ (phase = "mark" => todo # <<>> /\ t \in base)
  BY DEF EngineInv, RunInv, ItemsInv
<1>2. "done" \in Statuses /\ "failed" \in Statuses /\ "merge_conflict" \in Statuses
  BY DEF Statuses, Successful
<1>3. CASE MergeApply
  <2>1. /\ phase = "merge" /\ phase' = "mark" /\ todo # <<>> /\ base' = base \cup {t}
        /\ UNCHANGED <<status, ws, opt, queue, batch, todo, items, worker, crashes>>
    BY <1>3 DEF MergeApply, bounds
  <2>2. WorkersInv'
    <3>1. \A u \in Tasks : worker[u] = "none" /\ status[u] # "in_progress"
      BY <2>1, Unoccupied DEF EngineInv, RunInv
    <3>2. QED
      BY <2>1, <3>1 DEF WorkersInv
  <2>3. QueueInv'
    BY <2>1 DEF EngineInv, RunInv, QueueInv, Looping, Idle
  <2>4. PrepareInv' /\ ItemsInv' /\ StrategyInv'
    BY <2>1 DEF EngineInv, RunInv, PrepareInv, ItemsInv, StrategyInv
  <2>5. DoneIsMerged' /\ WorkInv'
    BY <2>1 DEF EngineInv, RunInv, DoneIsMerged, WorkInv
  <2>6. QED
    BY <2>2, <2>3, <2>4, <2>5 DEF RunInv
<1>4. CASE MergeMark
  <2>1. /\ phase = "mark" /\ phase' = "merge" /\ todo' = Tail(todo)
        /\ UNCHANGED <<base, opt, queue, batch, items, worker, crashes>>
        /\ Mark(t, "done") /\ \E w : ws' = [ws EXCEPT ![t] = w]
    BY <1>4 DEF MergeMark, bounds
  <2>2. t \in Tasks /\ todo # <<>> /\ t \in base
    BY <1>1, <2>1, Visiting
  <2>3. /\ status'[t] = "done"
        /\ \A u \in Tasks \ {t} : status'[u] = status[u] /\ ws'[u] = ws[u]
    <3>1. PICK w : ws' = [ws EXCEPT ![t] = w]
      BY <2>1
    <3> HIDE DEF t
    <3>2. \A u \in Tasks \ {t} : ws'[u] = ws[u]
      BY <1>1, <3>1 DEF TypeOK
    <3>3. status'[t] = "done" /\ \A u \in Tasks \ {t} : status'[u] = status[u]
      BY <1>1, <1>2, <2>1, <2>2, MarkFacts
    <3>4. QED
      BY <3>2, <3>3
  <2>4. QED
    BY <2>1, <2>2, <2>3, MergedKeeps
<1>5. CASE MergeFails
  <2>1. /\ phase = "merge" /\ phase' = "merge" /\ todo # <<>> /\ todo' = Tail(todo)
        /\ UNCHANGED <<opt, queue, batch, items, worker, crashes>>
    BY <1>5 DEF MergeFails, bounds
  <2>2. t \in Tasks
    BY <1>1, <2>1, Visiting
  <2>3. \/ Mark(t, "done") /\ base' = base \cup {t} /\ UNCHANGED ws
        \/ Mark(t, "merge_conflict") /\ UNCHANGED <<base, ws>>
        \/ NotMerged(t, "failed") /\ UNCHANGED base
    BY <1>5 DEF MergeFails
  <2>4. /\ base \subseteq base'
        /\ \/ status'[t] \in {"merge_conflict", "failed"}
           \/ status'[t] = "done" /\ t \in base'
        /\ \A u \in Tasks \ {t} : status'[u] = status[u] /\ ws'[u] = ws[u]
    <3> HIDE DEF t
    <3>1. QED
      BY <1>1, <1>2, <2>2, <2>3, MarkFacts, NotMergedFacts
  <2>5. QED
    BY <2>1, <2>4, MergedKeeps
<1>6. CASE MergesDone
  <2>1. /\ phase = "merge" /\ NextBatch
        /\ UNCHANGED <<status, ws, base, opt, worker, crashes>>
    BY <1>6 DEF MergesDone, durable, bounds
  <2>2. QED
    BY <2>1, NextBatchOnly DEF Looping
<1>7. QED
  BY <1>3, <1>4, <1>5, <1>6

\* A run ends, is cancelled, or dies.
LEMMA EndKeeps ==
  ASSUME EngineInv, Finish \/ Cancel \/ Crash
  PROVE  RunInv'
<1>1. Distinct(<<>>) /\ Members(<<>>) = {}
  BY NothingIn
<1>2. CASE Finish
  <2>1. /\ phase = "final" /\ phase' = "idle"
        /\ queue' = <<>> /\ batch' = <<>> /\ todo' = <<>> /\ items' = <<>>
        /\ UNCHANGED <<status, ws, base, opt, worker, crashes>>
    BY <1>2 DEF Finish, durable, bounds
  <2>2. \A u \in Tasks : worker[u] = "none" /\ status[u] # "in_progress"
    BY <2>1, Unoccupied DEF EngineInv, RunInv
  <2>3. WorkersInv'
    BY <2>1, <2>2 DEF WorkersInv
  <2>4. QueueInv' /\ PrepareInv' /\ ItemsInv' /\ StrategyInv'
    BY <2>1 DEF QueueInv, PrepareInv, ItemsInv, StrategyInv, Looping
  <2>5. DoneIsMerged' /\ WorkInv'
    BY <2>1 DEF EngineInv, RunInv, DoneIsMerged, WorkInv
  <2>6. QED
    BY <2>3, <2>4, <2>5 DEF RunInv
<1>3. CASE Cancel
  BY <1>3 DEF Cancel, durable, local, bounds, EngineInv, RunInv, WorkersInv, QueueInv, PrepareInv,
     ItemsInv, StrategyInv, DoneIsMerged, WorkInv, Idle
<1>4. CASE Crash
  <2>1. /\ phase # "idle" /\ phase' = "idle" /\ crashes' = crashes + 1
        /\ queue' = <<>> /\ batch' = <<>> /\ todo' = <<>> /\ items' = <<>>
        /\ worker' = [t \in Tasks |-> "none"]
        /\ UNCHANGED <<status, ws, base, opt>>
    BY <1>4 DEF Crash, durable
  <2>2. crashes' # 0
    BY <2>1, EngineAssumption DEF EngineInv, TypeOK
  <2>3. WorkersInv'
    BY <2>1, <2>2 DEF WorkersInv
  <2>4. QueueInv' /\ PrepareInv' /\ ItemsInv' /\ StrategyInv'
    BY <2>1 DEF QueueInv, PrepareInv, ItemsInv, StrategyInv, Looping
  <2>5. DoneIsMerged' /\ WorkInv'
    BY <2>1, <2>2 DEF EngineInv, RunInv, DoneIsMerged, WorkInv
  <2>6. QED
    BY <2>3, <2>4, <2>5 DEF RunInv
<1>5. QED
  BY <1>2, <1>3, <1>4

\* At the start nothing has happened.
LEMMA InitHolds ==
  ASSUME Init
  PROVE  EngineInv
<1>1. <<>> \in Seq(Tasks) /\ <<>> \in Seq(Seq(Tasks))
  BY NothingIn
<1>2. TypeOK
  <2>1. 0 \in 0..AttemptCap /\ 0 \in 0..MaxRuns /\ 0 \in 0..MaxCrashes
    BY EngineAssumption
  <2>2. status \in [Tasks -> Statuses] /\ ws \in [Tasks -> Workspace] /\ phase \in Phases
    BY DEF Init, Statuses, NoWorkspace, Workspace, Phases
  <2>3. /\ attempts \in [Tasks -> 0..AttemptCap]
        /\ worker \in [Tasks -> Results \cup {"none", "queued", "agent", "moved", "committed"}]
    BY <2>1 DEF Init
  <2>4. QED
    BY <1>1, <2>1, <2>2, <2>3 DEF Init, TypeOK
<1>3. RunInv
  <2>1. WorkersInv /\ DoneIsMerged /\ WorkInv
    BY DEF Init, WorkersInv, DoneIsMerged, WorkInv
  <2>2. QueueInv /\ PrepareInv /\ ItemsInv /\ StrategyInv
    BY DEF Init, QueueInv, PrepareInv, ItemsInv, StrategyInv, Looping
  <2>3. QED
    BY <2>1, <2>2 DEF RunInv
<1>4. QED
  BY <1>2, <1>3 DEF EngineInv

\* Every step keeps the invariant.
LEMMA NextKeeps ==
  ASSUME EngineInv, [Next]_vars
  PROVE  EngineInv'
<1>1. TypeOK'
  BY NextTypes DEF EngineInv, RunInv
<1>2. RunInv'
  <2>1. CASE UNCHANGED vars
    BY <2>1 DEF vars, durable, local, bounds, EngineInv, RunInv, WorkersInv, QueueInv, PrepareInv,
       ItemsInv, StrategyInv, DoneIsMerged, WorkInv, Idle
  <2>2. CASE SkipBatch
    <3>1. /\ phase = "prepare" /\ NextBatch
          /\ UNCHANGED <<status, ws, base, opt, worker, crashes>>
      BY <2>2 DEF SkipBatch, durable, bounds
    <3>2. QED
      BY <3>1, NextBatchOnly DEF Looping
  <2>3. CASE Next /\ ~SkipBatch
    BY <2>3, StartRunKeeps, PendingKeeps, ScheduleKeeps, PrepareTaskKeeps, DispatchKeeps,
       WorkKeeps, SettleKeeps, CollectKeeps, GateKeeps, RejectDoneKeeps, MergeKeeps, EndKeeps
       DEF Next, Engine
  <2>4. QED
    BY <2>1, <2>2, <2>3
<1>3. QED
  BY <1>1, <1>2 DEF EngineInv

LEMMA EngineInvHolds == Spec => []EngineInv
<1>1. Init => EngineInv
  BY InitHolds
<1>2. EngineInv /\ [Next]_vars => EngineInv'
  BY NextKeeps
<1>3. QED
  BY <1>1, <1>2, PTL DEF Spec

-----------------------------------------------------------------------------
(* The properties.                                                         *)

\* The plan, the workspaces and the state of a run keep their types: whatever
\* the workers, reviews and gates answer, a status stays in the vocabulary of
\* the plan and a task visited by a loop of run_swarm is one of the plan.
THEOREM TypeCorrect == Spec => []TypeOK
<1>1. EngineInv => TypeOK
  BY DEF EngineInv
<1>2. QED
  BY <1>1, EngineInvHolds, PTL

\* A sequence has no more members than places.
LEMMA MembersCount ==
  ASSUME NEW X, NEW s \in Seq(X)
  PROVE  IsFiniteSet(Members(s)) /\ Cardinality(Members(s)) <= Len(s)
<1>1. Len(s) \in Nat /\ DOMAIN s = 1..Len(s) /\ s \in [1..Len(s) -> Members(s)]
  BY DEF Members
<1>2. s \in Surjection(1..Len(s), Members(s))
  BY <1>1 DEF Surjection, Members
<1>3. IsFiniteSet(1..Len(s)) /\ Cardinality(1..Len(s)) = Len(s)
  BY <1>1, FS_Interval
<1>4. QED
  BY <1>2, <1>3, FS_Surjection

\* The workers that run_swarm has started in its thread pool are those of one
\* batch, and build_batches has put tasks together only when their scopes are
\* precise and disjoint, and no more of them than the run was given workers.
THEOREM WorkersAreApart == Spec => []DisjointScopes
<1>1. EngineInv => DisjointScopes
  <2> SUFFICES ASSUME EngineInv PROVE DisjointScopes
    OBVIOUS
  <2>1. opt.parallel \in Nat
    BY OptionsFacts DEF EngineInv
  <2>2. CASE Running = {}
    BY <2>1, <2>2, FS_EmptySet DEF DisjointScopes
  <2>3. CASE Running # {}
    <3>1. phase \in Looping /\ Running \subseteq Members(batch)
      BY <2>3 DEF EngineInv, RunInv, WorkersInv, Running, Looping
    <3>2. batch \in Seq(Tasks) /\ Fits(batch, opt.parallel)
      BY <3>1 DEF EngineInv, RunInv, QueueInv, TypeOK
    <3>3. /\ IsFiniteSet(Members(batch)) /\ Cardinality(Members(batch)) <= Len(batch)
          /\ Cardinality(Members(batch)) \in Nat /\ Len(batch) \in Nat
      BY <3>2, MembersCount, MembersOfSeq, FS_CardinalityType
    <3>4. /\ Cardinality(Running) <= Cardinality(Members(batch))
          /\ Cardinality(Running) \in Nat
      BY <3>1, <3>3, FS_Subset, FS_CardinalityType
    <3>5. Cardinality(Running) <= opt.parallel
      BY <2>1, <3>2, <3>3, <3>4 DEF Fits
    <3>6. QED
      BY <3>1, <3>2, <3>5 DEF DisjointScopes, Fits, Compatible
  <2>4. QED
    BY <2>2, <2>3
<1>2. QED
  BY <1>1, EngineInvHolds, PTL

\* A task the plan calls done is in the base branch, wherever a run dies:
\* run_swarm marks it after apply_task_success has returned.
THEOREM DoneWasMerged == Spec => []DoneIsMerged
<1>1. EngineInv => DoneIsMerged
  BY DEF EngineInv, RunInv
<1>2. QED
  BY <1>1, EngineInvHolds, PTL

\* A run that ends, and was not cut off, leaves no task in progress: every
\* worker it has started returns a result, and each is settled.
THEOREM RunsSettle == Spec => []EndsSettled
<1>1. EngineInv => EndsSettled
  BY DEF EngineInv, RunInv, WorkersInv, EndsSettled
<1>2. QED
  BY <1>1, EngineInvHolds, PTL

\* Between runs, a task that waits for its merge still has the branch with its
\* commits, unless a run has died: a task becomes ready with the result
\* "success" of its worker, which has committed, and when a rejection cleans it
\* up the run goes on to save another status for it.
THEOREM ReadyKeepsWork == Spec => []ReadyHasWork
<1>1. EngineInv => ReadyHasWork
  BY DEF EngineInv, RunInv, WorkInv, ReadyHasWork
<1>2. QED
  BY <1>1, EngineInvHolds, PTL

\* Under the review strategy the base branch stays as it is: nothing that
\* run_swarm collects for the merge gets to it, in this run or from an earlier
\* one.
THEOREM ReviewIsRespected == Spec => ReviewNeverMerges
<1>1. ASSUME EngineInv, [Next]_vars
      PROVE  [base' # base => opt.strategy = "auto"]_vars
  <2>1. CASE MergeApply \/ MergeFails
    <3>1. phase = "merge"
      BY <2>1 DEF MergeApply, MergeFails
    <3>2. opt.strategy = "auto"
      BY <1>1, <3>1 DEF EngineInv, RunInv, StrategyInv
    <3>3. QED
      BY <3>2
  <2>2. CASE UNCHANGED vars
    BY <2>2
  <2>3. ASSUME Next, ~MergeApply, ~MergeFails
        PROVE  base' = base
    <3>1. CASE StartRun \/ PendingTask \/ PendingDone \/ ComputeSchedule \/ PrepareTask
      BY <3>1 DEF StartRun, PendingTask, PendingDone, ComputeSchedule, PrepareTask, durable
    <3>2. CASE Dispatch \/ SkipBatch \/ WorkDone \/ Settle \/ SettleDone
      BY <3>2 DEF Dispatch, SkipBatch, WorkDone, Settle, SettleDone, durable
    <3>3. CASE CollectTask \/ CollectDone \/ Gate \/ RejectItem \/ RejectDone
      BY <3>3 DEF CollectTask, CollectDone, Gate, RejectItem, RejectDone, durable
    <3>4. CASE MergeMark \/ MergesDone \/ Finish \/ Cancel \/ Crash
      BY <3>4 DEF MergeMark, MergesDone, Finish, Cancel, Crash, durable
    <3>5. CASE WorkerStep
      <4>1. PICK t \in Members(batch) : Advances(t) \/ Edit(t) \/ AgentCommit(t)
        BY <3>5 DEF WorkerStep
      <4>2. TypeOK /\ t \in Tasks
        BY <1>1, <4>1, MembersOfSeq DEF EngineInv, TypeOK
      <4>3. QED
        BY <4>1, <4>2, WorkerFacts
    <3>6. QED
      BY <2>3, <3>1, <3>2, <3>3, <3>4, <3>5 DEF Next, Engine
  <2>4. QED
    BY <1>1, <2>1, <2>2, <2>3
<1>2. QED
  BY <1>1, EngineInvHolds, PTL DEF Spec, ReviewNeverMerges

\* Only the strict gate takes a success back.
LEMMA SuccessStays ==
  ASSUME EngineInv, [Next]_vars, ~(RejectDone /\ opt.integration = "strict"),
         NEW t \in Tasks, status[t] \in Successful
  PROVE  status'[t] = status[t]
<1>1. TypeOK /\ RunInv
  BY DEF EngineInv
<1>2. status[t] \notin Startable \cup Mergeable \cup {"in_progress"}
  BY DEF Successful, Startable, Mergeable
<1>3. CASE UNCHANGED vars
  BY <1>3 DEF vars, durable
<1>4. CASE \/ PendingDone \/ ComputeSchedule \/ SkipBatch \/ WorkDone \/ SettleDone \/ CollectDone
           \/ Gate \/ RejectItem
  BY <1>4 DEF PendingDone, ComputeSchedule, SkipBatch, WorkDone, SettleDone, CollectDone, Gate,
     RejectItem, durable
<1>5. CASE MergeApply \/ MergesDone \/ Finish \/ Cancel \/ Crash
  BY <1>5 DEF MergeApply, MergesDone, Finish, Cancel, Crash, durable
<1>6. CASE StartRun
  BY <1>2, <1>6 DEF StartRun, Recovered
<1>7. CASE WorkerStep
  <2>1. PICK u \in Members(batch) : Advances(u) \/ Edit(u) \/ AgentCommit(u)
    BY <1>7 DEF WorkerStep
  <2>2. u \in Tasks
    BY <1>1, MembersOfSeq DEF TypeOK
  <2>3. QED
    BY <1>1, <2>1, <2>2, WorkerFacts
<1>8. CASE Dispatch
  <2>1. Members(batch) \subseteq Idle
    BY <1>1, <1>8 DEF Dispatch, RunInv, PrepareInv
  <2>2. t \notin Members(batch)
    BY <1>2, <2>1 DEF Idle
  <2>3. QED
    BY <1>8, <2>2 DEF Dispatch
<1>9. CASE Settle
  <2>1. PICK u \in Members(batch) :
          u \in Tasks /\ worker[u] # "none" /\ \A x \in Tasks \ {u} : status'[x] = status[x]
    BY <1>1, <1>9, SettleFacts
  <2>2. status[u] = "in_progress"
    BY <1>1, <2>1 DEF RunInv, WorkersInv
  <2>3. QED
    BY <1>2, <2>1, <2>2
<1>10. CASE RejectDone
  <2>1. t \notin Members(items)
    BY <1>1, <1>2, <1>10 DEF RejectDone, RunInv, ItemsInv
  <2>2. opt.integration # "strict"
    BY <1>10
  <2>3. QED
    BY <1>10, <2>1, <2>2 DEF RejectDone, Blocked
<1>11. CASE PrepareTask \/ PendingTask \/ CollectTask \/ MergeMark \/ MergeFails
  <2> DEFINE u == Head(todo)
  <2>1. todo # <<>>
    BY <1>1, <1>11 DEF PrepareTask, PendingTask, CollectTask, MergeMark, MergeFails, RunInv, ItemsInv
  <2>2. u \in Tasks /\ u \in Members(todo)
    BY <1>1, <2>1, Visiting
  <2>3. status[u] \in Startable \cup Mergeable
    <3>1. CASE PrepareTask
      BY <1>1, <2>2, <3>1 DEF PrepareTask, RunInv, PrepareInv, Idle
    <3>2. CASE PendingTask \/ CollectTask \/ MergeMark \/ MergeFails
      BY <1>1, <2>2, <3>2 DEF PendingTask, CollectTask, MergeMark, MergeFails, RunInv, ItemsInv
    <3>3. QED
      BY <1>11, <3>1, <3>2
  <2>4. UNCHANGED status \/ (\E s \in Statuses : Mark(u, s) \/ NotMerged(u, s))
    BY <1>11 DEF PrepareTask, PendingTask, CollectTask, MergeMark, MergeFails, RemoteBlocked,
       ReviewVerdicts, Statuses, Successful
  <2> HIDE DEF u
  <2>5. \A x \in Tasks \ {u} : status'[x] = status[x]
    BY <1>1, <2>2, <2>4, MarkFacts, NotMergedFacts
  <2>6. QED
    BY <1>2, <2>3, <2>5
<1>12. QED
  BY <1>3, <1>4, <1>5, <1>6, <1>7, <1>8, <1>9, <1>10, <1>11 DEF Next, Engine

\* Unless the integration gate is strict, a task that has succeeded is never
\* demoted: no retry, no recovery, no later batch and no later run changes it.
\* (A strict gate that fails blocks every task but those it lists, see
\* _mark_remaining_tasks_blocked_by_integration.)
THEOREM SuccessLasts ==
  ASSUME \A o \in Options : o.integration # "strict"
  PROVE  Spec => SuccessIsFinal
<1>1. EngineInv /\ [Next]_vars
        => [\A t \in Tasks : status[t] \in Successful => status'[t] = status[t]]_vars
  <2> SUFFICES ASSUME EngineInv, [Next]_vars, NEW t \in Tasks, status[t] \in Successful
               PROVE  status'[t] = status[t]
    OBVIOUS
  <2>1. opt.integration # "strict"
    BY DEF EngineInv, TypeOK
  <2>2. QED
    BY <2>1, SuccessStays
<1>2. QED
  BY <1>1, EngineInvHolds, PTL DEF Spec, SuccessIsFinal

\* A worker starts with its batch.
LEMMA StartsInDispatch ==
  ASSUME EngineInv, [Next]_vars, NEW t \in Tasks, Starts(t)
  PROVE  Dispatch /\ phase = "prepare" /\ t \in Members(batch)
<1>1. worker[t] = "none" /\ worker'[t] = "queued" /\ TypeOK
  BY DEF Starts, EngineInv
<1>2. worker' # worker
  BY <1>1
<1>3. CASE WorkerStep
  <2>1. PICK u \in Members(batch) : Advances(u) \/ Edit(u) \/ AgentCommit(u)
    BY <1>3 DEF WorkerStep
  <2>2. u \in Tasks
    BY <1>1, MembersOfSeq DEF TypeOK
  <2>3. worker[u] # "none" /\ \A x \in Tasks \ {u} : worker'[x] = worker[x]
    BY <1>1, <2>1, <2>2, WorkerFacts
  <2>4. QED
    BY <1>1, <2>3
<1>4. CASE Settle \/ Crash
  BY <1>1, <1>4 DEF Settle, Crash, TypeOK
<1>5. CASE Dispatch
  BY <1>1, <1>5 DEF Dispatch
<1>6. CASE UNCHANGED vars
  BY <1>2, <1>6 DEF vars, local
<1>7. CASE StartRun \/ PendingTask \/ PendingDone \/ ComputeSchedule \/ PrepareTask \/ SkipBatch
  BY <1>2, <1>7 DEF StartRun, PendingTask, PendingDone, ComputeSchedule, PrepareTask, SkipBatch
<1>8. CASE WorkDone \/ SettleDone \/ CollectTask \/ CollectDone \/ Gate \/ RejectItem
  BY <1>2, <1>8 DEF WorkDone, SettleDone, CollectTask, CollectDone, Gate, RejectItem
<1>9. CASE RejectDone \/ MergeApply \/ MergeMark \/ MergeFails \/ MergesDone \/ Finish \/ Cancel
  BY <1>2, <1>9 DEF RejectDone, MergeApply, MergeMark, MergeFails, MergesDone, Finish, Cancel
<1>10. QED
  BY <1>3, <1>4, <1>5, <1>6, <1>7, <1>8, <1>9 DEF Next, Engine

\* What is scheduled has had its dependencies done.
DepsInv ==
  /\ phase = "prepare" => \A t \in Members(batch) \cup Members(todo) : DepsDone(t)
  /\ phase \in Looping => \A i \in DOMAIN queue : \A t \in Members(queue[i]) : DepsDone(t)

\* The batches that are to start are those of the schedule, in every step of the
\* main loop.
LEMMA QueueSteps ==
  ASSUME EngineInv, [Next]_vars, phase' \in Looping
  PROVE  /\ ~(RejectDone /\ opt.integration = "strict")
         /\ \/ PrepareTask
            \/ ComputeSchedule
            \/ phase \in Looping /\ NextBatch
            \/ phase \in Looping /\ queue' = queue /\ phase' # "prepare"
            \/ queue' = <<>> /\ phase' # "prepare"
            \/ UNCHANGED <<phase, batch, todo, queue, status>>
<1>1. CASE UNCHANGED vars
  BY <1>1 DEF vars, durable, local, RejectDone, Looping
<1>2. CASE StartRun \/ PendingTask \/ PendingDone \/ Finish \/ Crash
  BY <1>2 DEF StartRun, PendingTask, PendingDone, Finish, Crash, RejectDone, Looping, EngineInv,
     RunInv, QueueInv
<1>3. CASE Cancel
  <2>1. UNCHANGED <<phase, batch, todo, queue, status>>
    BY <1>3 DEF Cancel, durable
  <2>2. QED
    BY <2>1 DEF RejectDone, Looping
<1>4. CASE Dispatch \/ SkipBatch \/ WorkDone \/ Settle \/ SettleDone
  BY <1>4 DEF Dispatch, SkipBatch, WorkDone, Settle, SettleDone, RejectDone, Looping
<1>5. CASE CollectTask \/ CollectDone \/ Gate \/ RejectItem
  BY <1>5 DEF CollectTask, CollectDone, Gate, RejectItem, RejectDone, Looping
<1>6. CASE MergeApply \/ MergeMark \/ MergeFails \/ MergesDone \/ RejectDone
  BY <1>6 DEF MergeApply, MergeMark, MergeFails, MergesDone, RejectDone, Looping
<1>7. CASE WorkerStep
  <2>1. PICK t \in Members(batch) : Advances(t) \/ Edit(t) \/ AgentCommit(t)
    BY <1>7 DEF WorkerStep
  <2>2. TypeOK /\ t \in Tasks
    BY MembersOfSeq DEF EngineInv, TypeOK
  <2>3. UNCHANGED <<phase, batch, todo, queue, status>>
    BY <2>1, <2>2, WorkerFacts
  <2>4. QED
    BY <2>3 DEF RejectDone, Looping
<1>8. CASE PrepareTask \/ ComputeSchedule
  BY <1>8 DEF PrepareTask, ComputeSchedule, RejectDone
<1>9. QED
  BY <1>1, <1>2, <1>3, <1>4, <1>5, <1>6, <1>7, <1>8 DEF Next, Engine

\* A step of the main loop keeps the dependencies done.
LEMMA DepsKeep ==
  ASSUME Red = {}, EngineInv, DepsInv, [Next]_vars
  PROVE  DepsInv'
<1>1. ASSUME phase' \in Looping
      PROVE  \A t \in Tasks : DepsDone(t) => DepsDone(t)'
  <2>1. ~(RejectDone /\ opt.integration = "strict")
    BY <1>1, QueueSteps
  <2>2. \A d \in Tasks : status[d] \in Successful => status'[d] \in Successful
    BY <2>1, SuccessStays
  <2>3. \A t \in Tasks : Deps[t] \subseteq Tasks
    BY EngineAssumption
  <2>4. QED
    BY <2>2, <2>3 DEF DepsDone
<1>2. TypeOK /\ queue \in Seq(Seq(Tasks)) /\ batch \in Seq(Tasks) /\ todo \in Seq(Tasks)
  BY DEF EngineInv, TypeOK
<1>3. /\ Members(batch) \cup Members(todo) \subseteq Tasks
      /\ \A i \in DOMAIN queue : queue[i] \in Seq(Tasks) /\ Members(queue[i]) \subseteq Tasks
  BY <1>2, MembersOfSeq
<1>4. ASSUME phase' \in Looping, UNCHANGED <<phase, batch, todo, queue, status>>
      PROVE  DepsInv'
  BY <1>1, <1>3, <1>4 DEF DepsInv
<1>5. ASSUME phase' \in Looping, phase' # "prepare",
             (phase \in Looping /\ queue' = queue) \/ queue' = <<>>
      PROVE  DepsInv'
  BY <1>1, <1>3, <1>5 DEF DepsInv
<1>6. ASSUME phase' \in Looping, phase \in Looping, NextBatch
      PROVE  DepsInv'
  <2>1. batch' = <<>> /\ Members(<<>>) = {}
    BY <1>6, NothingIn DEF NextBatch
  <2>2. CASE queue = <<>>
    BY <1>6, <2>2 DEF NextBatch, Looping
  <2>3. CASE queue # <<>>
    <3>1. todo' = Head(queue) /\ queue' = Tail(queue)
      BY <1>6, <2>3 DEF NextBatch
    <3>2. /\ Len(queue) \in Nat \ {0} /\ DOMAIN queue = 1..Len(queue) /\ Head(queue) = queue[1]
          /\ DOMAIN Tail(queue) = 1..(Len(queue) - 1)
          /\ \A i \in 1..(Len(queue) - 1) : Tail(queue)[i] = queue[i + 1]
      BY <1>2, <2>3, HeadTailProperties
    <3>3. 1 \in DOMAIN queue /\ \A i \in 1..(Len(queue) - 1) : i + 1 \in DOMAIN queue
      BY <3>2
    <3>4. \A i \in DOMAIN queue : \A t \in Members(queue[i]) : DepsDone(t)'
      BY <1>1, <1>3, <1>6 DEF DepsInv
    <3>5. \A t \in Members(todo') : DepsDone(t)'
      BY <3>1, <3>2, <3>3, <3>4
    <3>6. \A i \in DOMAIN queue' : \A t \in Members(queue'[i]) : DepsDone(t)'
      BY <3>1, <3>2, <3>3, <3>4
    <3>7. QED
      BY <2>1, <3>5, <3>6 DEF DepsInv
  <2>4. QED
    BY <2>2, <2>3
<1>7. ASSUME phase' \in Looping, PrepareTask
      PROVE  DepsInv'
  <2>1. /\ phase = "prepare" /\ todo # <<>> /\ todo' = Tail(todo) /\ queue' = queue
        /\ batch' = Append(batch, Head(todo)) \/ batch' = batch
    BY <1>7 DEF PrepareTask
  <2>2. Members(batch') \cup Members(todo') \subseteq Members(batch) \cup Members(todo)
    <3>1. Head(todo) \in Tasks /\ Members(todo) = {Head(todo)} \cup Members(todo')
      BY <1>2, <2>1, Visiting
    <3>2. \A u \in Tasks : Members(Append(batch, u)) = Members(batch) \cup {u}
      BY <1>2, AppendFacts
    <3>3. QED
      BY <2>1, <3>1, <3>2
  <2>3. QED
    BY <1>1, <1>3, <1>7, <2>1, <2>2 DEF DepsInv, Looping
<1>8. ASSUME phase' \in Looping, ComputeSchedule
      PROVE  DepsInv'
  <2>1. batch' = <<>> /\ Members(<<>>) = {} /\ status' = status /\ phase' = "prepare"
    BY <1>8, NothingIn, ScheduleOfRunnable DEF ComputeSchedule, EngineInv, RunInv, QueueInv, Looping,
       durable
  <2> DEFINE runnable == {t \in Tasks : Runnable(t)}
  <2>2. PICK q : /\ Schedule(q, opt.parallel, runnable) /\ q # <<>>
                 /\ queue' = Tail(q) /\ todo' = Head(q)
    BY <1>8, <2>1, ScheduleOfRunnable
  <2>3. \A t \in runnable : DepsDone(t)'
    BY <2>1 DEF Runnable, DepsDone
  <2> HIDE DEF runnable
  <2>4. Members(todo') \subseteq runnable /\ \A i \in DOMAIN queue' : Members(queue'[i]) \subseteq runnable
    BY <2>2, FirstBatch DEF Schedule
  <2>5. QED
    BY <2>1, <2>3, <2>4 DEF DepsInv
<1>9. CASE phase' \in Looping
  BY <1>4, <1>5, <1>6, <1>7, <1>8, <1>9, QueueSteps
<1>10. CASE phase' \notin Looping
  BY <1>10 DEF DepsInv, Looping
<1>11. QED
  BY <1>9, <1>10

\* Without expected-red precursors a worker starts only when the dependencies
\* of its task are finished, although the batch may have waited for others
\* since compute_schedule looked at them: in the main loop they stay finished.
THEOREM DependenciesComeFirst ==
  ASSUME Red = {}
  PROVE  Spec => StartsAfterDependencies
<1>1. Init => DepsInv
  BY DEF Init, DepsInv, Looping
<1>2. EngineInv /\ DepsInv /\ [Next]_vars => DepsInv'
  BY DepsKeep
<1>3. Spec => [](EngineInv /\ DepsInv)
  BY <1>1, <1>2, EngineInvHolds, PTL DEF Spec
<1>4. EngineInv /\ DepsInv /\ [Next]_vars
        => [\A t \in Tasks : Starts(t) => DepsDone(t)]_vars
  <2> SUFFICES ASSUME EngineInv, DepsInv, [Next]_vars, NEW t \in Tasks, Starts(t)
               PROVE  DepsDone(t)
    OBVIOUS
  <2>1. phase = "prepare" /\ t \in Members(batch)
    BY StartsInDispatch
  <2>2. QED
    BY <2>1 DEF DepsInv
<1>5. QED
  BY <1>3, <1>4, PTL DEF Spec, StartsAfterDependencies

\* No run dies, is cancelled, or keeps its failed workspaces.
Unbroken == MaxCrashes = 0 /\ \A o \in Options : ~o.keep /\ ~o.cancellable

\* The branch of t has no commits, unless a marker says that it is to go.
Clean(t) == ws[t].branch = "work" => ws[t].marker

\* A task that can be started has a branch without commits, and so has one that
\* is worked on while its worker has not committed, or was found to be
\* satisfied already.
TaskFresh(t) ==
  /\ status[t] \in Startable => Clean(t)
  /\ status[t] # "interrupted" /\ worker[t] # "interrupted"
  /\ worker[t] \in {"queued", "agent", "noop"} => ws[t].branch = "fresh"
  /\ status[t] = "already_satisfied" /\ ws[t].branch = "work" => t \in base

\* And so have the tasks of a prepared batch, and of a rejected one that have
\* been cleaned up.
FreshInv ==
  /\ cancel = FALSE
  /\ \A t \in Tasks : TaskFresh(t)
  /\ phase = "prepare" =>
       \A t \in Members(batch) : ws[t].tree = "clean" /\ ws[t].branch = "fresh"
  /\ phase = "reject" => \A t \in Members(items) \ Members(todo) : Clean(t)

\* What such a run is spared.
LEMMA UnbrokenFacts ==
  ASSUME Unbroken, EngineInv, [Next]_vars
  PROVE  /\ ~opt.keep /\ ~Crash /\ ~Cancel
         /\ phase # "work" /\ phase # "settle" =>
              \A t \in Tasks : worker[t] = "none" /\ status[t] # "in_progress"
<1>1. opt \in Options /\ crashes \in 0..0 /\ TypeOK
  BY DEF Unbroken, EngineInv, TypeOK
<1>2. crashes = 0
  BY <1>1
<1>3. ~opt.keep /\ ~Crash /\ ~Cancel
  BY <1>1, <1>2 DEF Unbroken, Crash, Cancel
<1>4. ASSUME phase # "work" /\ phase # "settle", NEW t \in Tasks
      PROVE  worker[t] = "none" /\ status[t] # "in_progress"
  BY <1>2, <1>4 DEF EngineInv, RunInv, WorkersInv
<1>5. QED
  BY <1>3, <1>4

\* Failed clean-ups leave a marker.
LEMMA CleanedUp ==
  ASSUME TypeOK, ~opt.keep, NEW t \in Tasks, ws'[t] \in FailedCleanup(t)
  PROVE  Clean(t)'
BY CleanupFacts DEF Clean

\* Most steps change neither the plan nor the workspaces.
LEMMA StillFresh ==
  ASSUME EngineInv, FreshInv, UNCHANGED <<status, ws, worker>>, cancel' = FALSE,
         base \subseteq base', phase' = "prepare" => batch' = <<>>,
         phase' = "reject" => todo' = items'
  PROVE  FreshInv'
<1>1. \A t \in Tasks : TaskFresh(t)'
  BY DEF FreshInv, TaskFresh, Clean
<1>2. phase' = "prepare" => Members(batch') = {}
  BY NothingIn
<1>3. QED
  BY <1>1, <1>2 DEF FreshInv

LEMMA QuietFresh ==
  ASSUME Unbroken, EngineInv, FreshInv, [Next]_vars,
         \/ StartRun \/ PendingDone \/ ComputeSchedule \/ SkipBatch \/ WorkDone
         \/ SettleDone \/ CollectDone \/ Gate \/ MergeApply \/ MergesDone \/ Finish
  PROVE  FreshInv'
<1>1. CASE StartRun
  <2>1. \A t \in Tasks : status[t] # "in_progress"
    BY <1>1, UnbrokenFacts DEF StartRun
  <2>2. status' = status
    BY <1>1, <2>1 DEF StartRun, Recovered, EngineInv, TypeOK
  <2>3. QED
    BY <1>1, <2>2, StillFresh DEF StartRun
<1>2. CASE ComputeSchedule
  BY <1>2, StillFresh DEF ComputeSchedule, durable, FreshInv, EngineInv, RunInv, QueueInv
<1>3. CASE SkipBatch \/ MergesDone
  BY <1>3, StillFresh DEF SkipBatch, MergesDone, NextBatch, durable, FreshInv
<1>4. CASE CollectDone
  BY <1>4, StillFresh DEF CollectDone, NextBatch, durable, FreshInv
<1>5. CASE PendingDone \/ WorkDone \/ SettleDone \/ Finish
  BY <1>5, StillFresh DEF PendingDone, WorkDone, SettleDone, Finish, durable, FreshInv
<1>6. CASE Gate \/ MergeApply
  BY <1>6, StillFresh DEF Gate, MergeApply, durable, FreshInv
<1>7. QED
  BY <1>1, <1>2, <1>3, <1>4, <1>5, <1>6

\* Tasks are visited on their way to the merge, or there.
LEMMA VisitFresh ==
  ASSUME Unbroken, EngineInv, FreshInv, [Next]_vars,
         PendingTask \/ CollectTask \/ MergeMark \/ MergeFails
  PROVE  FreshInv'
<1>1. TypeOK /\ ~opt.keep /\ \A u \in Tasks : worker[u] = "none"
  BY UnbrokenFacts DEF EngineInv, PendingTask, CollectTask, MergeMark, MergeFails
<1>2. todo # <<>> /\ phase' \in {"pending", "collect", "merge"} /\ UNCHANGED <<cancel, worker>>
      /\ base \subseteq base'
  BY DEF PendingTask, CollectTask, MergeMark, MergeFails, EngineInv, RunInv, ItemsInv
<1>3. PICK t \in Tasks : t = Head(todo)
  BY <1>1, <1>2, Visiting
<1>4. \/ \E s \in Startable \ {"interrupted"} : NotMerged(t, s)
      \/ UNCHANGED <<status, ws>>
      \/ Mark(t, "merge_conflict") /\ ws' = ws
      \/ Mark(t, "done") /\ \E w : ws' = [ws EXCEPT ![t] = w]
      \/ Mark(t, "done") /\ ws' = ws
  <2>1. CASE PendingTask
    BY <1>3, <2>1 DEF PendingTask, RemoteBlocked, ReviewVerdicts, Startable
  <2>2. CASE CollectTask
    BY <1>3, <2>2 DEF CollectTask, RemoteBlocked, Startable
  <2>3. CASE MergeMark
    BY <1>3, <2>3 DEF MergeMark
  <2>4. CASE MergeFails
    BY <1>3, <2>4 DEF MergeFails, Startable
  <2>5. QED
    BY <2>1, <2>2, <2>3, <2>4
<1>5. ASSUME NEW s \in Startable \ {"interrupted"}, NotMerged(t, s)
      PROVE  /\ TaskFresh(t)'
             /\ \A u \in Tasks \ {t} : status'[u] = status[u] /\ ws'[u] = ws[u]
  <2>1. s \in Statuses
    BY DEF Startable, Statuses
  <2>2. /\ status'[t] = s /\ ws'[t] \in FailedCleanup(t)
        /\ \A u \in Tasks \ {t} : status'[u] = status[u] /\ ws'[u] = ws[u]
    BY <1>1, <1>3, <1>5, <2>1, NotMergedFacts
  <2>3. Clean(t)'
    BY <1>1, <1>3, <2>2, CleanedUp
  <2>4. QED
    BY <1>1, <1>2, <1>3, <2>2, <2>3 DEF TaskFresh, Startable
<1>6. ASSUME NEW s \in {"merge_conflict", "done"}, Mark(t, s),
             ws' = ws \/ \E w : ws' = [ws EXCEPT ![t] = w]
      PROVE  /\ TaskFresh(t)'
             /\ \A u \in Tasks \ {t} : status'[u] = status[u] /\ ws'[u] = ws[u]
  <2>1. s \in Statuses /\ s \notin Startable
    BY DEF Startable, Statuses, Successful
  <2>2. status'[t] = s /\ \A u \in Tasks \ {t} : status'[u] = status[u]
    BY <1>1, <1>3, <1>6, <2>1, MarkFacts
  <2>3. \A u \in Tasks \ {t} : ws'[u] = ws[u]
    BY <1>1, <1>3, <1>6 DEF TypeOK
  <2>4. QED
    BY <1>1, <1>2, <1>3, <2>1, <2>2, <2>3 DEF TaskFresh, Startable
<1>7. \/ UNCHANGED <<status, ws>>
      \/ /\ TaskFresh(t)'
         /\ \A u \in Tasks \ {t} : status'[u] = status[u] /\ ws'[u] = ws[u]
  BY <1>4, <1>5, <1>6
<1>8. \A u \in Tasks : TaskFresh(u)'
  BY <1>2, <1>7 DEF FreshInv, TaskFresh, Clean
<1>9. QED
  BY <1>2, <1>8 DEF FreshInv

\* The tasks of a batch are prepared, and start.
LEMMA PrepareFresh ==
  ASSUME Unbroken, EngineInv, FreshInv, [Next]_vars, PrepareTask \/ Dispatch
  PROVE  FreshInv'
<1>1. CASE PrepareTask
  <2>1. /\ phase = "prepare" /\ phase' = "prepare" /\ todo # <<>>
        /\ UNCHANGED <<cancel, worker, base>>
    BY <1>1 DEF PrepareTask
  <2>2. PICK t \in Tasks :
          t = Head(todo) /\ TypeOK /\ t \in Members(todo) /\ ws[t] \in Workspace
    BY <2>1, Visiting DEF EngineInv, TypeOK
  <2>3. status[t] \in Startable /\ t \notin Members(batch) /\ worker[t] = "none"
    BY <2>1, <2>2, Unoccupied DEF EngineInv, RunInv, PrepareInv, Idle
  <2>4. Clean(t) /\ status[t] # "interrupted"
    BY <2>2, <2>3 DEF FreshInv, TaskFresh
  <2>5. \/ /\ ws' = [ws EXCEPT ![t] = Prepared(Retried(ws[t]))]
           /\ batch' = Append(batch, t) /\ status' = status
        \/ /\ Mark(t, "failed") /\ ws' = ws /\ batch' = batch
    BY <1>1, <2>2 DEF PrepareTask
  <2>6. CASE Mark(t, "failed") /\ ws' = ws /\ batch' = batch
    <3>1. status'[t] = "failed" /\ \A u \in Tasks \ {t} : status'[u] = status[u]
      BY <2>2, <2>6, MarkFacts DEF Statuses
    <3>2. TaskFresh(t)'
      BY <2>1, <2>3, <2>4, <2>6, <3>1 DEF TaskFresh, Clean
    <3>3. \A u \in Tasks : TaskFresh(u)'
      BY <2>1, <2>6, <3>1, <3>2 DEF FreshInv, TaskFresh, Clean
    <3>4. QED
      BY <2>1, <2>6, <3>3 DEF FreshInv
  <2>7. CASE /\ ws' = [ws EXCEPT ![t] = Prepared(Retried(ws[t]))]
             /\ batch' = Append(batch, t) /\ status' = status
    <3>1. batch \in Seq(Tasks)
      BY DEF EngineInv, TypeOK
    <3>2. Members(batch') = Members(batch) \cup {t}
      BY <2>2, <2>7, <3>1, AppendFacts
    <3>3. ws'[t] = Prepared(Retried(ws[t])) /\ \A u \in Tasks \ {t} : ws'[u] = ws[u]
      BY <2>2, <2>7 DEF TypeOK
    <3>4. ws'[t].tree = "clean" /\ ws'[t].branch = "fresh"
      <4>1. Retried(ws[t]).branch # "work" /\ Retried(ws[t]) \in Workspace
        BY <2>2, <2>4 DEF Clean, Retried, NoWorkspace, Workspace
      <4>2. QED
        BY <3>3, <4>1 DEF Prepared, Workspace
    <3>5. TaskFresh(t)'
      BY <2>1, <2>3, <2>4, <2>7, <3>4 DEF TaskFresh, Clean, Startable
    <3>6. \A u \in Tasks : TaskFresh(u)'
      BY <2>1, <2>7, <3>3, <3>5 DEF FreshInv, TaskFresh, Clean
    <3>7. Members(batch) \subseteq Tasks
      BY <3>1, MembersOfSeq
    <3>8. QED
      BY <2>1, <3>2, <3>3, <3>4, <3>6, <3>7 DEF FreshInv
  <2>8. QED
    BY <2>5, <2>6, <2>7
<1>2. CASE Dispatch
  <2>1. /\ phase = "prepare" /\ phase' = "work"
        /\ status' = [t \in Tasks |-> IF t \in Members(batch) THEN "in_progress" ELSE status[t]]
        /\ worker' = [t \in Tasks |-> IF t \in Members(batch) THEN "queued" ELSE "none"]
        /\ UNCHANGED <<ws, base, cancel>>
    BY <1>2 DEF Dispatch
  <2>2. \A t \in Tasks : TaskFresh(t)'
    BY <2>1 DEF FreshInv, TaskFresh, Clean, Startable
  <2>3. QED
    BY <2>1, <2>2 DEF FreshInv
<1>3. QED
  BY <1>1, <1>2

\* The workers work, and what they return is settled.
LEMMA WorkFresh ==
  ASSUME Unbroken, EngineInv, FreshInv, [Next]_vars, WorkerStep \/ Settle
  PROVE  FreshInv'
<1>1. TypeOK /\ ~opt.keep
  BY UnbrokenFacts DEF EngineInv
<1>2. CASE WorkerStep
  <2>1. PICK t \in Members(batch) : Advances(t) \/ Edit(t) \/ AgentCommit(t)
    BY <1>2 DEF WorkerStep
  <2>2. t \in Tasks
    BY <1>1, <2>1, MembersOfSeq DEF TypeOK
  <2>3. /\ UNCHANGED <<status, base, phase, cancel, batch, todo, items>>
        /\ worker[t] # "none" /\ \A u \in Tasks \ {t} : worker'[u] = worker[u] /\ ws'[u] = ws[u]
        /\ worker'[t] \in {"queued", "agent", "noop"} =>
             worker[t] \in {"queued", "agent"} /\ ws'[t].branch = ws[t].branch
        /\ worker'[t] = "interrupted" => cancel
    BY <1>1, <2>1, <2>2, WorkerFacts
  <2>4. status[t] = "in_progress" /\ phase \in {"work", "settle"}
    BY <2>2, <2>3 DEF EngineInv, RunInv, WorkersInv
  <2>5. TaskFresh(t)'
    BY <2>2, <2>3, <2>4 DEF FreshInv, TaskFresh, Startable
  <2>6. \A u \in Tasks : TaskFresh(u)'
    BY <2>3, <2>5 DEF FreshInv, TaskFresh, Clean
  <2>7. QED
    BY <2>3, <2>4, <2>6 DEF FreshInv
<1>3. CASE Settle
  <2>1. PICK t \in Members(batch) :
          /\ t \in Tasks /\ worker[t] # "none"
          /\ worker' = [worker EXCEPT ![t] = "none"]
          /\ \A u \in Tasks \ {t} : status'[u] = status[u] /\ ws'[u] = ws[u]
          /\ \/ /\ status'[t] \in {"failed", "verify_failed", "changes_requested"}
                /\ ws'[t] \in FailedCleanup(t)
             \/ /\ status'[t] \in Accepts(worker[t]) \ {"already_satisfied"}
                /\ ws'[t] = ws[t]
             \/ /\ status'[t] = "already_satisfied" /\ worker[t] = "noop"
                /\ ws'[t] \in DoneCleanup(t)
    BY <1>1, <1>3, SettleFacts
  <2>2. /\ phase = "settle" /\ UNCHANGED <<base, phase, cancel>>
        /\ worker'[t] = "none" /\ \A u \in Tasks \ {t} : worker'[u] = worker[u]
    BY <1>1, <1>3, <2>1, SettleFacts DEF TypeOK
  <2>3. CASE /\ status'[t] \in {"failed", "verify_failed", "changes_requested"}
             /\ ws'[t] \in FailedCleanup(t)
    <3>1. Clean(t)'
      BY <1>1, <2>1, <2>3, CleanedUp
    <3>2. TaskFresh(t)'
      BY <2>2, <2>3, <3>1 DEF TaskFresh
    <3>3. QED
      BY <2>1, <2>2, <3>2 DEF FreshInv, TaskFresh, Clean
  <2>4. CASE status'[t] \in Accepts(worker[t]) \ {"already_satisfied"} /\ ws'[t] = ws[t]
    <3>1. worker[t] # "interrupted"
      BY <2>1 DEF FreshInv, TaskFresh
    <3>2. status'[t] \in {"ready_for_merge", "completed_unverified"}
      BY <2>4, <3>1, VerdictFacts
    <3>3. TaskFresh(t)'
      BY <2>2, <3>2 DEF TaskFresh, Startable
    <3>4. QED
      BY <2>1, <2>2, <3>3 DEF FreshInv, TaskFresh, Clean
  <2>5. CASE /\ status'[t] = "already_satisfied" /\ worker[t] = "noop"
             /\ ws'[t] \in DoneCleanup(t)
    <3>1. ws[t].branch = "fresh"
      BY <2>1, <2>5 DEF FreshInv, TaskFresh
    <3>2. ws'[t].branch # "work"
      BY <1>1, <2>1, <2>5, <3>1, CleanupFacts
    <3>3. TaskFresh(t)'
      BY <2>2, <2>5, <3>2 DEF TaskFresh, Startable
    <3>4. QED
      BY <2>1, <2>2, <3>3 DEF FreshInv, TaskFresh, Clean
  <2>6. QED
    BY <2>1, <2>3, <2>4, <2>5
<1>4. QED
  BY <1>2, <1>3

\* A batch is rejected: it is cleaned up task by task, and saved.
LEMMA RejectFresh ==
  ASSUME Unbroken, EngineInv, FreshInv, [Next]_vars, RejectItem \/ RejectDone
  PROVE  FreshInv'
<1>1. /\ TypeOK /\ ~opt.keep /\ phase = "reject"
      /\ \A u \in Tasks : worker[u] = "none" /\ status[u] # "in_progress"
  BY UnbrokenFacts DEF EngineInv, RejectItem, RejectDone
<1>2. CASE RejectItem
  <2>1. /\ phase' = "reject" /\ todo # <<>> /\ todo' = Tail(todo)
        /\ UNCHANGED <<status, base, cancel, items, worker>>
    BY <1>2 DEF RejectItem
  <2>2. PICK t \in Tasks :
          /\ t = Head(todo) /\ t \in Members(items)
          /\ Members(todo) = {t} \cup Members(todo') /\ status[t] \in Mergeable
    BY <1>1, <2>1, Visiting DEF EngineInv, RunInv, ItemsInv
  <2>3. PICK w \in FailedCleanup(t) : ws' = [ws EXCEPT ![t] = w]
    BY <1>2, <2>2 DEF RejectItem
  <2>4. ws'[t] = w /\ \A u \in Tasks \ {t} : ws'[u] = ws[u]
    BY <1>1, <2>2, <2>3 DEF TypeOK
  <2>5. Clean(t)'
    BY <1>1, <2>2, <2>4, CleanedUp
  <2>6. TaskFresh(t)'
    BY <1>1, <2>1, <2>2, <2>5 DEF TaskFresh, Mergeable
  <2>7. \A u \in Tasks : TaskFresh(u)'
    BY <2>1, <2>4, <2>6 DEF FreshInv, TaskFresh, Clean
  <2>8. Members(items) \subseteq Tasks
    BY <1>1, MembersOfSeq DEF TypeOK
  <2>9. \A u \in Members(items') \ Members(todo') : Clean(u)'
    <3>1. \A u \in Members(items) \ Members(todo) : Clean(u)
      BY <1>1 DEF FreshInv
    <3>2. ASSUME NEW u \in Members(items') \ Members(todo'), u # t
          PROVE  Clean(u)'
      <4>1. Clean(u) /\ ws'[u] = ws[u]
        BY <2>1, <2>2, <2>4, <2>8, <3>1, <3>2
      <4>2. QED
        BY <4>1 DEF Clean
    <3>3. QED
      BY <2>5, <3>2
  <2>10. QED
    BY <2>1, <2>7, <2>9 DEF FreshInv
<1>3. CASE RejectDone
  <2>1. /\ todo = <<>> /\ UNCHANGED <<ws, base, cancel, worker>>
        /\ phase' = "final" \/ NextBatch
    BY <1>3 DEF RejectDone
  <2>2. \A t \in Members(items) : Clean(t)
    BY <1>1, <2>1, NothingIn DEF FreshInv
  <2>3. \A t \in Tasks : \/ status'[t] = status[t]
                         \/ status'[t] = "candidate_rejected" /\ t \in Members(items)
                         \/ status'[t] = "blocked_integration"
    BY <1>3 DEF RejectDone
  <2>4. \A t \in Tasks : TaskFresh(t)'
    BY <1>1, <2>1, <2>2, <2>3 DEF FreshInv, TaskFresh, Clean, Startable
  <2>5. phase' # "reject" /\ (phase' = "prepare" => Members(batch') = {})
    BY <2>1, NothingIn DEF NextBatch
  <2>6. QED
    BY <2>1, <2>4, <2>5 DEF FreshInv
<1>4. QED
  BY <1>2, <1>3

LEMMA FreshInvHolds == ASSUME Unbroken PROVE Spec => []FreshInv
<1>1. Init => FreshInv
  BY DEF Init, FreshInv, TaskFresh, Clean, NoWorkspace
<1>2. EngineInv /\ FreshInv /\ [Next]_vars => FreshInv'
  <2> SUFFICES ASSUME EngineInv, FreshInv, [Next]_vars PROVE FreshInv'
    OBVIOUS
  <2>1. CASE UNCHANGED vars
    BY <2>1 DEF vars, durable, local, FreshInv, TaskFresh, Clean
  <2>2. CASE Next
    <3>1. ~Cancel /\ ~Crash
      BY UnbrokenFacts
    <3>2. QED
      BY <2>2, <3>1, QuietFresh, VisitFresh, PrepareFresh, WorkFresh, RejectFresh DEF Next, Engine
  <2>3. QED
    BY <2>1, <2>2
<1>3. QED
  BY <1>1, <1>2, EngineInvHolds, PTL DEF Spec

\* When no run dies, is cancelled or keeps its workspaces, a worker starts on a
\* clean worktree and a branch without the commits of an earlier attempt, even
\* where cleaning up has failed: the marker that cleanup_failed_task_workspace
\* leaves makes prepare_task_workspace do it again.
THEOREM AttemptsStartFresh ==
  ASSUME Unbroken
  PROVE  Spec => StartsFresh
<1>1. EngineInv /\ FreshInv /\ [Next]_vars
        => [\A t \in Tasks : Starts(t) => ws[t].tree = "clean" /\ ws[t].branch = "fresh"]_vars
  <2> SUFFICES ASSUME EngineInv, FreshInv, [Next]_vars, NEW t \in Tasks, Starts(t)
               PROVE  ws[t].tree = "clean" /\ ws[t].branch = "fresh"
    OBVIOUS
  <2>1. QED
    BY StartsInDispatch DEF FreshInv
<1>2. QED
  BY <1>1, EngineInvHolds, FreshInvHolds, PTL DEF Spec, StartsFresh

\* Then a task that was found to be satisfied already has left no commits of
\* its own behind: its worker returned without changes from a fresh branch.
THEOREM SatisfiedIsClean ==
  ASSUME Unbroken
  PROVE  Spec => []SatisfiedLeavesNoWork
<1>1. FreshInv => SatisfiedLeavesNoWork
  BY DEF FreshInv, TaskFresh, SatisfiedLeavesNoWork
<1>2. QED
  BY <1>1, FreshInvHolds, PTL
=============================================================================
