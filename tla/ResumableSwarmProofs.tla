------------------------ MODULE ResumableSwarmProofs ------------------------
(***************************************************************************)
(* Machine-checked proofs about ResumableSwarm, for any sets of jobs and   *)
(* bridge threads and any value of the bounds.                             *)
(***************************************************************************)
EXTENDS ResumableSwarm, TLAPS

-----------------------------------------------------------------------------
(* Typing.                                                                 *)

\* A row stays a row when one column is assigned.
LEMMA RowUpdate ==
  ASSUME NEW r \in Row
  PROVE  /\ r.revision + 1 \in Nat /\ r.generation + 1 \in Nat
         /\ r.attempts + 1 \in Nat /\ r.resumes + 1 \in Nat
         /\ \A n \in Nat : r.usage + n \in Nat
         /\ \A x \in States : [r EXCEPT !.state = x] \in Row
         /\ \A x \in Nat : /\ [r EXCEPT !.revision = x] \in Row
                           /\ [r EXCEPT !.generation = x] \in Row
                           /\ [r EXCEPT !.attempts = x] \in Row
                           /\ [r EXCEPT !.resumes = x] \in Row
                           /\ [r EXCEPT !.token = x] \in Row
                           /\ [r EXCEPT !.usage = x] \in Row
         /\ \A x \in BOOLEAN : /\ [r EXCEPT !.expired = x] \in Row
                               /\ [r EXCEPT !.result = x] \in Row
                               /\ [r EXCEPT !.terminal = x] \in Row
BY DEF Row

\* Every row the coordinator's UPDATE statements compute is a row.
LEMMA RowTypes ==
  ASSUME NEW r \in Row
  PROVE  /\ \A s \in Scopes : NewRow(s) \in Row
         /\ \A st \in States : Fenced(r, st) \in Row /\ Finished(r, st) \in Row
         /\ Claimed(r) \in Row
         /\ Renewed(r) \in Row
         /\ Resumed(r) \in Row
         /\ \A n \in Nat : Charged(r, n) \in Row
<1>0. 0 \in Nat /\ TRUE \in BOOLEAN /\ FALSE \in BOOLEAN
  OBVIOUS
<1>1. \A s \in Scopes : NewRow(s) \in Row
  BY DEF NewRow, Row, States
<1>2. \A q \in Row, st \in States : Fenced(q, st) \in Row
  <2>1. \A st : (st \in Terminal) \in BOOLEAN
    OBVIOUS
  <2>2. QED
    BY <1>0, <2>1, RowUpdate DEF Fenced
<1>3. \A st \in States : Finished(r, st) \in Row
  <2>1. \A st : (st = "succeeded") \in BOOLEAN
    OBVIOUS
  <2>2. QED
    BY <1>2, <2>1, RowUpdate DEF Finished
<1>4. Claimed(r) \in Row
  BY <1>0, RowUpdate DEF Claimed, States
<1>5. Renewed(r) \in Row
  BY <1>0, RowUpdate DEF Renewed
<1>6. Resumed(r) \in Row
  <2>1. \A q \in Row : [Fenced(q, "queued") EXCEPT !.resumes = @ + 1] \in Row
    BY <1>2, RowUpdate DEF States
  <2>2. Fenced(r, "interrupted") \in Row
    BY <1>2 DEF States
  <2>3. QED
    BY <2>1, <2>2 DEF Resumed
<1>7. \A n \in Nat : Charged(r, n) \in Row
  BY RowUpdate DEF Charged
<1>8. QED
  BY <1>1, <1>2, <1>3, <1>4, <1>5, <1>6, <1>7

\* A runner stays a runner when one of its locals is assigned.
LEMMA RunnerUpdate ==
  ASSUME NEW r \in Runner
  PROVE  /\ \A x \in Steps : [r EXCEPT !.pc = x] \in Runner
         /\ \A x \in Jobs : [r EXCEPT !.job = x] \in Runner
         /\ \A x \in Scopes : [r EXCEPT !.scope = x] \in Runner
         /\ \A x \in Nat : /\ [r EXCEPT !.generation = x] \in Runner
                           /\ [r EXCEPT !.token = x] \in Runner
                           /\ [r EXCEPT !.delta = x] \in Runner
         /\ \A x \in BOOLEAN : [r EXCEPT !.recorded = x] \in Runner
         /\ \A x \in Intents : [r EXCEPT !.intent = x] \in Runner
         /\ \A x \in {"no", "stop", "error"} : [r EXCEPT !.stop = x] \in Runner
BY DEF Runner

\* What a thread's steps make of its locals is typed.
LEMMA RunnerTypes ==
  ASSUME TypeOK, NEW w \in Workers
  PROVE  /\ runner[w] \in Runner
         /\ Ended(runner[w]) \in Runner
         /\ FailPath(runner[w]) \in Runner
         /\ [Ended(runner[w]) EXCEPT !.token = 0] \in Runner
         /\ \A j \in Jobs, s \in Scopes : Launched(w, j, s) \in Runner
<1>0. 0 \in Nat /\ TRUE \in BOOLEAN /\ FALSE \in BOOLEAN
  OBVIOUS
<1>1. runner[w] \in Runner
  BY DEF TypeOK
<1>2. Ended(runner[w]) \in Runner
  BY <1>0, <1>1, RunnerUpdate DEF Ended, Steps, Intents
<1>3. FailPath(runner[w]) \in Runner
  BY <1>0, <1>1, RunnerUpdate DEF FailPath, Steps, Intents
<1>4. [Ended(runner[w]) EXCEPT !.token = 0] \in Runner
  BY <1>0, <1>2, RunnerUpdate
<1>5. \A j \in Jobs, s \in Scopes : Launched(w, j, s) \in Runner
  BY <1>0, <1>1, RunnerUpdate DEF Launched, Steps
<1>6. QED
  BY <1>1, <1>2, <1>3, <1>4, <1>5

\* A sweep keeps rows typed.
LEMMA RecoveredType ==
  ASSUME TypeOK
  PROVE  Recovered \in [Jobs -> Row]
BY RowTypes DEF TypeOK, Recovered, States

\* An assignment to one thread's locals keeps the array of threads typed.
LEMMA BecomesType ==
  ASSUME TypeOK, NEW w \in Workers, NEW r \in Runner, Becomes(w, r)
  PROVE  runner' \in [Workers -> Runner]
BY DEF TypeOK, Becomes

\* A refused lease (Lost) keeps rows and threads typed.
LEMMA LostType ==
  ASSUME TypeOK, NEW w \in Workers, Lost(w)
  PROVE  row' \in [Jobs -> Row] /\ runner' \in [Workers -> Runner]
<1>1. CASE MainPath(runner[w])
  BY <1>1, RunnerTypes, BecomesType DEF Lost, TypeOK
<1>2. CASE ~MainPath(runner[w])
  BY <1>2, RunnerTypes, RecoveredType, BecomesType DEF Lost
<1>3. QED
  BY <1>1, <1>2

\* The client's requests keep the types.
LEMMA ClientTypes ==
  ASSUME TypeOK, Client
  PROVE  TypeOK'
<1>1. ASSUME NEW w \in Workers, NEW j \in Jobs, NEW s \in Scopes, StartJob(w, j, s)
      PROVE  TypeOK'
  <2>1. NewRow(s) \in Row /\ Launched(w, j, s) \in Runner
    BY RowTypes, RunnerTypes DEF TypeOK
  <2>2. QED
    BY <1>1, <2>1 DEF StartJob, TypeOK
<1>2. ASSUME NEW w \in Workers, NEW j \in Jobs, RestartJob(w, j)
      PROVE  TypeOK'
  <2>1. row[j].scope \in Scopes
    BY DEF TypeOK, Row
  <2>2. Launched(w, j, row[j].scope) \in Runner
    BY <2>1, RunnerTypes
  <2>3. QED
    BY <1>2, <2>2 DEF RestartJob, TypeOK
<1>3. ASSUME NEW j \in Jobs, ConfirmResume(j)
      PROVE  TypeOK'
  <2>1. [job |-> j, revision |-> row[j].revision] \in Grant
    BY DEF TypeOK, Row, Grant
  <2>2. QED
    BY <1>3, <2>1 DEF ConfirmResume, TypeOK
<1>4. ASSUME NEW j \in Jobs, CancelJob(j)
      PROVE  TypeOK'
  <2>1. Fenced(row[j], "cancelled") \in Row
    BY RowTypes DEF TypeOK, States
  <2>2. QED
    BY <1>4, <2>1 DEF CancelJob, TypeOK
<1>5. ASSUME NEW w \in Workers, NEW g \in grants, NEW s \in Scopes,
             NEW late \in BOOLEAN, ResumeJob(w, g, s, late)
      PROVE  TypeOK'
  <2> DEFINE base == IF late THEN [Recovered EXCEPT ![g.job] = row[g.job]]
                             ELSE Recovered
  <2>1. g \in Grant /\ g.job \in Jobs
    BY DEF TypeOK, Grant
  <2>2. base \in [Jobs -> Row]
    BY <2>1, RecoveredType DEF TypeOK
  <2>3. base[g.job] \in Row /\ base[g.job].resumes \in Nat
    BY <2>1, <2>2 DEF Row
  <2>4. Resumed(base[g.job]) \in Row
    BY <2>3, RowTypes
  <2>5. Launched(w, g.job, s) \in Runner
    BY <2>1, RunnerTypes
  <2>6. row' = [base EXCEPT ![g.job] = Resumed(base[g.job])]
        /\ used' = used \cup {<<g, base[g.job].resumes>>}
    BY <1>5 DEF ResumeJob
  <2>7. row' \in [Jobs -> Row]
    BY <2>2, <2>4, <2>6
  <2> HIDE DEF base
  <2>8. <<g, base[g.job].resumes>> \in Grant \X Nat
    BY <2>1, <2>3
  <2>9. used' \subseteq Grant \X Nat
    BY <2>8, <2>6 DEF TypeOK
  <2>10. QED
    BY <1>5, <2>5, <2>7, <2>9 DEF ResumeJob, TypeOK
<1>6. QED
  BY <1>1, <1>2, <1>3, <1>4, <1>5 DEF Client

\* So does every step of a bridge thread.
LEMMA ThreadTypes ==
  ASSUME TypeOK, NEW w \in Workers, Thread(w)
  PROVE  TypeOK'
<1> DEFINE r == runner[w]
           j == runner[w].job
<1>0. /\ r \in Runner /\ j \in Jobs /\ row[j] \in Row /\ r.generation \in Nat
      /\ r.delta \in Nat /\ row[j].usage \in Nat /\ spent[j] \in Nat
  BY DEF TypeOK, Runner, Row
<1>1. CASE Claim(w)
  <2>1. Claimed(row[j]) \in Row
    BY <1>0, RowTypes
  <2>2. Claimed(row[j]).generation \in Nat /\ Claimed(row[j]).token \in Nat
    BY <2>1 DEF Row
  <2>3. [r EXCEPT !.pc = "running", !.generation = Claimed(row[j]).generation,
                  !.token = Claimed(row[j]).token] \in Runner
    BY <1>0, <2>2, RunnerUpdate DEF Steps
  <2>4. runner' \in [Workers -> Runner]
    BY <1>1, <2>3, BecomesType DEF Claim
  <2>5. row' \in [Jobs -> Row]
    BY <1>0, <1>1, <2>1 DEF Claim, TypeOK
  <2>6. QED
    BY <1>1, <2>4, <2>5 DEF Claim, TypeOK
<1>2. CASE ClaimRefused(w)
  BY <1>2, RunnerTypes, BecomesType DEF ClaimRefused, TypeOK
<1>3. CASE Spend(w)
  BY <1>0, <1>3 DEF Spend, TypeOK
<1>4. CASE RequestStop(w)
  <2>1. [r EXCEPT !.stop = "stop"] \in Runner
    BY <1>0, RunnerUpdate
  <2>2. QED
    BY <1>4, <2>1, BecomesType DEF RequestStop, TypeOK
<1>5. CASE Beat(w)
  <2>1. Renewed(row[j]) \in Row
    BY <1>0, RowTypes
  <2>2. QED
    BY <1>0, <1>5, <2>1 DEF Beat, TypeOK
<1>6. CASE BeatLost(w)
  <2>1. \A x \in {"stop", "error"} : [r EXCEPT !.stop = x] \in Runner
    BY <1>0, RunnerUpdate
  <2>2. runner' \in [Workers -> Runner]
    BY <1>6, <2>1, BecomesType DEF BeatLost
  <2>3. QED
    BY <1>6, <2>2 DEF BeatLost, TypeOK
<1>7. CASE Return(w)
  <2>1. \A i \in Intents : [r EXCEPT !.pc = "finish", !.intent = i] \in Runner
    BY <1>0, RunnerUpdate DEF Steps
  <2>2. PICK i \in Intents : Becomes(w, [r EXCEPT !.pc = "finish", !.intent = i])
    <3>1. r.stop \in {"no", "stop", "error"}
      BY <1>0 DEF Runner
    <3>2. QED
      BY <1>7, <3>1 DEF Return, Intents
  <2>3. runner' \in [Workers -> Runner]
    BY <2>1, <2>2, BecomesType
  <2>4. QED
    BY <1>7, <2>3 DEF Return, TypeOK
<1>8. CASE CheckStatus(w)
  <2>1. \A x \in Steps : [r EXCEPT !.pc = x] \in Runner
    BY <1>0, RunnerUpdate
  <2>2. runner' \in [Workers -> Runner]
    BY <1>8, <2>1, RunnerTypes, BecomesType DEF CheckStatus, Steps
  <2>3. QED
    BY <1>8, <2>2 DEF CheckStatus, TypeOK
<1>9. CASE Measure(w)
  <2>1. \A n \in Nat : [r EXCEPT !.pc = "publish", !.delta = n] \in Runner
    BY <1>0, RunnerUpdate DEF Steps
  <2>2. (IF spent[j] > row[j].usage THEN spent[j] - row[j].usage ELSE 0) \in Nat
    BY <1>0
  <2>3. runner' \in [Workers -> Runner]
    BY <1>9, <2>1, <2>2, BecomesType DEF Measure
  <2>4. QED
    BY <1>9, <2>3 DEF Measure, TypeOK
<1>10. CASE Publish(w)
  <2>1. Charged(row[j], r.delta) \in Row
    BY <1>0, RowTypes
  <2>2. row' \in [Jobs -> Row] /\ events' \in [Jobs -> SUBSET (Nat \X Nat)]
    BY <1>0, <1>10, <2>1 DEF Publish, TypeOK
  <2>3. [r EXCEPT !.pc = "close", !.recorded = TRUE, !.delta = 0] \in Runner
    BY <1>0, RunnerUpdate, 0 \in Nat, TRUE \in BOOLEAN DEF Steps
  <2>4. runner' \in [Workers -> Runner]
    BY <1>10, <2>3, RunnerTypes, BecomesType DEF Publish
  <2>5. QED
    BY <1>10, <2>2, <2>4 DEF Publish, TypeOK
<1>11. CASE PublishRefused(w) \/ CloseRefused(w)
  BY <1>11, LostType DEF PublishRefused, CloseRefused, Lost, TypeOK
<1>12. CASE Close(w)
  <2>1. Outcome(r.intent) \in States
    BY DEF Outcome, States
  <2>2. Finished(row[j], Outcome(r.intent)) \in Row
    BY <1>0, <2>1, RowTypes
  <2>3. runner' \in [Workers -> Runner]
    BY <1>12, RunnerTypes, BecomesType DEF Close
  <2>4. QED
    BY <1>0, <1>12, <2>2, <2>3 DEF Close, TypeOK
<1>13. CASE ResultRejected(w)
  BY <1>13, RunnerTypes, BecomesType DEF ResultRejected, TypeOK
<1>14. CASE ShutdownInterrupt(w)
  <2>1. Finished(row[j], "interrupted") \in Row
    BY <1>0, RowTypes DEF States
  <2>2. QED
    BY <1>0, <1>14, <2>1 DEF ShutdownInterrupt, TypeOK
<1>15. CASE Crash(w)
  BY <1>15, RunnerTypes, BecomesType DEF Crash, TypeOK
<1>16. QED
  BY <1>1, <1>2, <1>3, <1>4, <1>5, <1>6, <1>7, <1>8, <1>9, <1>10, <1>11,
     <1>12, <1>13, <1>14, <1>15 DEF Thread

\* The types hold initially ...
LEMMA InitTypes == Init => TypeOK
<1> SUFFICES ASSUME Init PROVE TypeOK
  OBVIOUS
<1>1. PICK s \in Scopes :
        row = [j \in Jobs |-> [NewRow(s) EXCEPT !.state = "absent", !.revision = 0]]
  BY DEF Init
<1>2. \A q \in Row : [q EXCEPT !.state = "absent", !.revision = 0] \in Row
  BY RowUpdate, 0 \in Nat DEF States
<1>3. NewRow(s) \in Row
  BY DEF NewRow, Row, States
<1>4. row \in [Jobs -> Row]
  BY <1>1, <1>2, <1>3
<1>5. runner \in [Workers -> Runner]
  BY DEF Init, Runner, Steps, Intents
<1>6. QED
  BY <1>4, <1>5 DEF Init, TypeOK

\* ... and every step keeps them.
LEMMA NextTypes == TypeOK /\ [Next]_vars => TypeOK'
<1> SUFFICES ASSUME TypeOK, [Next]_vars PROVE TypeOK'
  OBVIOUS
<1>1. CASE Client
  BY <1>1, ClientTypes
<1>2. CASE RecoverStale
  BY <1>2, RecoveredType DEF RecoverStale, TypeOK
<1>3. ASSUME NEW j \in Jobs, LeaseExpires(j)
      PROVE  TypeOK'
  <2>1. [row[j] EXCEPT !.expired = TRUE] \in Row
    BY RowUpdate, TRUE \in BOOLEAN DEF TypeOK
  <2>2. QED
    BY <1>3, <2>1 DEF LeaseExpires, TypeOK
<1>4. ASSUME NEW w \in Workers, Thread(w)
      PROVE  TypeOK'
  BY <1>4, ThreadTypes
<1>5. CASE UNCHANGED vars
  BY <1>5 DEF vars, TypeOK
<1>6. QED
  BY <1>1, <1>2, <1>3, <1>4, <1>5 DEF Next

\* Rows, usage events, grants and threads always have their types: no
\* interleaving of transactions, crashes and expiries corrupts a row.
THEOREM TypeCorrect == Spec => []TypeOK
BY InitTypes, NextTypes, PTL DEF Spec

-----------------------------------------------------------------------------
(* The inductive invariant.                                                *)

\* The columns of a row: nothing is counted before the job exists, usage was
\* really spent and recorded at most once per generation reached so far.
RowInv ==
  \A j \in Jobs :
    /\ row[j].state = "absent" => /\ row[j].generation = 0
                                 /\ row[j].attempts = 0
                                 /\ row[j].usage = 0
                                 /\ row[j].revision = 0
    /\ row[j].usage <= spent[j]
    /\ \A e \in events[j] : e[1] <= row[j].generation
    /\ \A d, e \in events[j] : d[1] = e[1] => d = e

\* A thread's lease is of a claim that happened; if no later transaction has
\* fenced the job the thread holds it, and a token that is still stored is
\* still good.
LeaseInv ==
  \A w \in Workers :
    LET r == row[runner[w].job] IN
    /\ runner[w].token <= r.attempts
    /\ Leased(w) =>
         /\ runner[w].generation >= 1
         /\ runner[w].generation <= r.generation
         /\ runner[w].generation = r.generation => Holds(w)
         /\ (r.state = "running" /\ r.token = runner[w].token) => Holds(w)

\* A thread that has not claimed yet has no token.
LaunchInv ==
  \A w \in Workers : runner[w].pc = "launched" => runner[w].token = 0

\* No two threads have the token of the same claim.
TokenInv ==
  \A v, w \in Workers :
    (/\ Leased(v) /\ Leased(w)
     /\ runner[v].job = runner[w].job
     /\ runner[v].token = runner[w].token) => v = w

\* What a thread that records usage knows: it has not recorded before, its
\* generation has no event, and while it holds the lease the amount it
\* measured is still unrecorded.
UsageInv ==
  \A w \in Workers :
    LET j == runner[w].job IN
    /\ runner[w].pc \in {"measure", "publish"} => ~runner[w].recorded
    /\ (Leased(w) /\ ~runner[w].recorded)
         => \A e \in events[j] : e[1] # runner[w].generation
    /\ (runner[w].pc = "publish" /\ Holds(w))
         => row[j].usage + runner[w].delta <= spent[j]

\* A grant that was used names a revision the job has left behind.
GrantInv ==
  /\ GrantUsedOnce
  /\ \A a \in used : a[1].revision < row[a[1].job].revision

IInv ==
  /\ TypeOK /\ SchemaChecks /\ RowInv /\ LeaseInv /\ LaunchInv /\ TokenInv
  /\ UsageInv /\ GrantInv /\ NoOrphanAfterExit

-----------------------------------------------------------------------------
(* What a step may do to a row and to a thread.  All actions but the two   *)
(* that need a closer look (Claim and Publish) are made of these.          *)

RowKept(j) ==
  /\ row'[j].state = row[j].state
  /\ row'[j].generation = row[j].generation
  /\ row'[j].attempts = row[j].attempts
  /\ row'[j].token = row[j].token
  /\ row'[j].usage = row[j].usage
  /\ row'[j].result = row[j].result
  /\ row'[j].terminal = row[j].terminal
  /\ row'[j].revision >= row[j].revision
  /\ row[j].state = "absent" => row'[j].revision = row[j].revision

RowFenced(j) ==
  /\ row[j].state # "absent"
  /\ row'[j].state \notin {"absent", "running"}
  /\ row'[j].generation > row[j].generation
  /\ row'[j].attempts = row[j].attempts
  /\ row'[j].token = 0
  /\ row'[j].usage = row[j].usage
  /\ row'[j].result <=> row'[j].state = "succeeded"
  /\ row'[j].terminal <=> row'[j].state \in Terminal
  /\ row'[j].revision > row[j].revision

RowNew(j) ==
  /\ row[j].state = "absent"
  /\ \E s \in Scopes : row'[j] = NewRow(s)
  /\ row'[j].revision >= row[j].revision

RunnerMoves(w) ==
  /\ Leased(w) /\ Leased(w)'
  /\ runner'[w].job = runner[w].job
  /\ runner'[w].generation = runner[w].generation
  /\ runner'[w].token = runner[w].token
  /\ runner'[w].recorded = runner[w].recorded
  /\ runner'[w].pc \in {"measure", "publish"} => ~runner[w].recorded
  /\ runner'[w].pc = "publish"
       => row[runner[w].job].usage + runner'[w].delta <= spent[runner[w].job]

RunnerEnds(w) ==
  /\ runner'[w].pc = "idle"
  /\ runner'[w].job = runner[w].job
  /\ runner'[w].token = runner[w].token
  /\ ~(/\ row'[runner[w].job].state = "running"
       /\ row'[runner[w].job].token = runner[w].token)

RunnerUnleased(w) ==
  /\ runner'[w].pc \in {"idle", "launched"}
  /\ runner'[w].token = 0

Quiet ==
  /\ events' = events
  /\ \A j \in Jobs : spent'[j] >= spent[j]
  /\ \A j \in Jobs : RowKept(j) \/ RowFenced(j) \/ RowNew(j)
  /\ \A w \in Workers : \/ runner'[w] = runner[w]
                         \/ RunnerMoves(w)
                         \/ RunnerEnds(w)
                         \/ RunnerUnleased(w)

\* Quiet steps keep the invariant, apart from GrantInv, which needs used.
LEMMA QuietKeeps ==
  ASSUME IInv, TypeOK', Quiet
  PROVE  /\ SchemaChecks' /\ RowInv' /\ LeaseInv' /\ LaunchInv' /\ TokenInv'
         /\ UsageInv' /\ NoOrphanAfterExit'
<1> USE DEF IInv
<1>0. /\ \A j \in Jobs : /\ row[j] \in Row /\ row'[j] \in Row
                          /\ spent[j] \in Nat /\ spent'[j] \in Nat
                          /\ events[j] \in SUBSET (Nat \X Nat)
      /\ \A w \in Workers : /\ runner[w] \in Runner /\ runner'[w] \in Runner
                             /\ runner[w].job \in Jobs /\ runner'[w].job \in Jobs
                             /\ runner[w].generation \in Nat
                             /\ runner[w].token \in Nat
                             /\ runner[w].delta \in Nat /\ runner'[w].delta \in Nat
  BY DEF TypeOK, Runner
<1>1. \A j \in Jobs : /\ row[j].generation \in Nat /\ row'[j].generation \in Nat
                      /\ row[j].attempts \in Nat /\ row'[j].attempts \in Nat
                      /\ row[j].usage \in Nat /\ row'[j].usage \in Nat
  BY <1>0 DEF Row
<1>2. \A j \in Jobs : RowNew(j) => /\ row'[j].state = "queued"
                                   /\ row'[j].generation = 0
                                   /\ row'[j].attempts = 0
                                   /\ row'[j].token = 0
                                   /\ row'[j].usage = 0
                                   /\ row'[j].result = FALSE
                                   /\ row'[j].terminal = FALSE
  BY DEF RowNew, NewRow
<1>3. SchemaChecks'
  BY <1>2 DEF Quiet, SchemaChecks, RowKept, RowFenced, Terminal
<1>4. RowInv'
  BY <1>0, <1>1, <1>2 DEF Quiet, RowInv, RowKept, RowFenced, RowNew
<1>5. LeaseInv'
  <2> SUFFICES ASSUME NEW w \in Workers
               PROVE  LET r == row'[runner'[w].job] IN
                      /\ runner'[w].token <= r.attempts
                      /\ Leased(w)' =>
                           /\ runner'[w].generation >= 1
                           /\ runner'[w].generation <= r.generation
                           /\ runner'[w].generation = r.generation => Holds(w)'
                           /\ (r.state = "running" /\ r.token = runner'[w].token)
                                => Holds(w)'
    BY DEF LeaseInv
  <2> DEFINE j == runner[w].job
  <2>1. j \in Jobs /\ (RowKept(j) \/ RowFenced(j) \/ RowNew(j))
    BY <1>0 DEF Quiet
  <2>2. /\ row[j].generation \in Nat /\ row'[j].generation \in Nat
        /\ row[j].attempts \in Nat /\ row'[j].attempts \in Nat
        /\ runner[w].generation \in Nat /\ runner[w].token \in Nat
    BY <1>0, <1>1, <2>1
  <2>3. /\ runner[w].token <= row[j].attempts
        /\ Leased(w) =>
             /\ runner[w].generation >= 1
             /\ runner[w].generation <= row[j].generation
             /\ runner[w].generation = row[j].generation => Holds(w)
             /\ (row[j].state = "running" /\ row[j].token = runner[w].token) => Holds(w)
    BY DEF LeaseInv
  <2>4. row[j].state = "absent" => row[j].generation = 0 /\ row[j].attempts = 0
    BY <2>1 DEF RowInv
  <2>5. RowNew(j) => /\ row[j].state = "absent" /\ row'[j].state = "queued"
                     /\ row'[j].generation = 0 /\ row'[j].attempts = 0
    BY <1>2, <2>1 DEF RowNew
  <2>6. CASE runner'[w] = runner[w]
    BY <2>1, <2>2, <2>3, <2>4, <2>5, <2>6 DEF Leased, Holds, RowKept, RowFenced
  <2>7. CASE RunnerMoves(w)
    BY <2>1, <2>2, <2>3, <2>4, <2>5, <2>7
       DEF RunnerMoves, Leased, Holds, RowKept, RowFenced
  <2>8. row'[j].attempts >= row[j].attempts
    BY <2>1, <2>2, <2>4, <2>5 DEF RowKept, RowFenced
  <2>9. CASE RunnerEnds(w)
    BY <2>2, <2>3, <2>8, <2>9 DEF RunnerEnds, Leased
  <2>10. CASE RunnerUnleased(w)
    <3>1. row'[runner'[w].job].attempts \in Nat
      BY <1>0, <1>1
    <3>2. QED
      BY <2>10, <3>1 DEF RunnerUnleased, Leased
  <2>11. QED
    BY <2>6, <2>7, <2>9, <2>10 DEF Quiet
<1>6. TokenInv'
  BY <1>0 DEF Quiet, TokenInv, RunnerMoves, RunnerEnds, RunnerUnleased, Leased
<1>7. UsageInv'
  <2> SUFFICES ASSUME NEW w \in Workers
               PROVE  LET k == runner'[w].job IN
                 /\ runner'[w].pc \in {"measure", "publish"} => ~runner'[w].recorded
                 /\ (Leased(w)' /\ ~runner'[w].recorded)
                      => \A e \in events'[k] : e[1] # runner'[w].generation
                 /\ (runner'[w].pc = "publish" /\ Holds(w)')
                      => row'[k].usage + runner'[w].delta <= spent'[k]
    BY DEF UsageInv
  <2> DEFINE j == runner[w].job
  <2>1. j \in Jobs /\ (RowKept(j) \/ RowFenced(j) \/ RowNew(j))
    BY <1>0 DEF Quiet
  <2>2. spent'[j] >= spent[j] /\ spent[j] \in Nat /\ spent'[j] \in Nat
    BY <1>0, <2>1 DEF Quiet
  <2>3. CASE runner'[w] = runner[w]
    <3>1. /\ runner[w].pc \in {"measure", "publish"} => ~runner[w].recorded
          /\ (Leased(w) /\ ~runner[w].recorded)
               => \A e \in events[j] : e[1] # runner[w].generation
          /\ (runner[w].pc = "publish" /\ Holds(w))
               => row[j].usage + runner[w].delta <= spent[j]
      BY DEF UsageInv
    <3>2. Holds(w)' => Holds(w) /\ row'[j].usage = row[j].usage
      BY <1>2, <2>1, <2>3 DEF Holds, RowKept, RowFenced
    <3>3. row[j].usage \in Nat /\ runner[w].delta \in Nat
      BY <1>0, <1>1, <2>1
    <3>4. Leased(w)' => Leased(w)
      BY <2>3 DEF Leased
    <3>5. events'[j] = events[j]
      BY DEF Quiet
    <3>6. QED
      BY <2>2, <2>3, <3>1, <3>2, <3>3, <3>4, <3>5
  <2>4. CASE RunnerMoves(w)
    <3>1. runner'[w].pc = "publish" /\ Holds(w)'
            => row'[j].usage + runner'[w].delta <= spent'[j]
      BY <1>0, <1>1, <1>2, <2>1, <2>2, <2>4
         DEF RunnerMoves, Holds, RowKept, RowFenced
    <3>2. QED
      BY <2>4, <3>1 DEF Quiet, UsageInv, RunnerMoves
  <2>5. CASE RunnerEnds(w) \/ RunnerUnleased(w)
    BY <2>5 DEF RunnerEnds, RunnerUnleased, Leased
  <2>6. QED
    BY <2>3, <2>4, <2>5 DEF Quiet
<1>8. NoOrphanAfterExit'
  <2> SUFFICES ASSUME NEW w \in Workers, Idle(w)', runner'[w].token # 0
               PROVE  ~(/\ row'[runner'[w].job].state = "running"
                        /\ row'[runner'[w].job].token = runner'[w].token)
    BY DEF NoOrphanAfterExit
  <2> DEFINE j == runner[w].job
  <2>1. j \in Jobs /\ (RowKept(j) \/ RowFenced(j) \/ RowNew(j))
    BY <1>0 DEF Quiet
  <2>2. CASE runner'[w] = runner[w]
    BY <1>2, <2>1, <2>2 DEF NoOrphanAfterExit, Idle, RowKept, RowFenced
  <2>3. CASE RunnerMoves(w) \/ RunnerEnds(w) \/ RunnerUnleased(w)
    BY <2>3 DEF RunnerMoves, RunnerEnds, RunnerUnleased, Leased, Idle
  <2>4. QED
    BY <2>2, <2>3 DEF Quiet
<1>9. LaunchInv'
  BY DEF Quiet, LaunchInv, RunnerMoves, RunnerEnds, RunnerUnleased, Leased
<1>10. QED
  BY <1>3, <1>4, <1>5, <1>6, <1>7, <1>8, <1>9

\* What the coordinator's UPDATE statements do to the columns.
LEMMA FencedColumns ==
  ASSUME NEW r \in Row, NEW st \in States
  PROVE  LET q == Fenced(r, st) IN
         /\ q.state = st /\ q.generation = r.generation + 1
         /\ q.attempts = r.attempts /\ q.token = 0 /\ q.usage = r.usage
         /\ q.result = FALSE /\ q.revision = r.revision + 1
         /\ q.terminal <=> st \in Terminal
         /\ q.generation > r.generation /\ q.revision > r.revision
<1> DEFINE q == Fenced(r, st)
<1>1. /\ q.state = st /\ q.generation = r.generation + 1
      /\ q.attempts = r.attempts /\ q.token = 0 /\ q.usage = r.usage
      /\ q.result = FALSE /\ q.revision = r.revision + 1
  BY DEF Fenced, Row
<1>2. q.terminal = (st \in Terminal)
  BY DEF Fenced, Row
<1>3. q.terminal <=> st \in Terminal
  BY <1>2
<1>4. r.generation \in Nat /\ r.revision \in Nat
  BY DEF Row
<1> HIDE DEF q
<1>5. QED
  BY <1>1, <1>3, <1>4 DEF q

\* _finish_locked: like a fencing, and the result goes with success.
LEMMA FinishedColumns ==
  ASSUME NEW r \in Row, NEW st \in States
  PROVE  LET q == Finished(r, st) IN
         /\ q.state = st /\ q.generation = r.generation + 1
         /\ q.attempts = r.attempts /\ q.token = 0 /\ q.usage = r.usage
         /\ q.result <=> st = "succeeded"
         /\ q.terminal <=> st \in Terminal
         /\ q.generation > r.generation /\ q.revision > r.revision
<1> DEFINE f == Fenced(r, st)
           q == Finished(r, st)
<1>1. f \in Row
  BY RowTypes
<1>2. /\ f.state = st /\ f.generation = r.generation + 1
      /\ f.attempts = r.attempts /\ f.token = 0 /\ f.usage = r.usage
      /\ f.terminal <=> st \in Terminal
      /\ f.generation > r.generation /\ f.revision > r.revision
  BY FencedColumns
<1>3. q = [f EXCEPT !.result = (st = "succeeded")]
  BY DEF Finished
<1> HIDE DEF f, q
<1>4. /\ q.state = f.state /\ q.generation = f.generation
      /\ q.attempts = f.attempts /\ q.token = f.token /\ q.usage = f.usage
      /\ q.terminal = f.terminal /\ q.revision = f.revision
  BY <1>1, <1>3 DEF Row
<1>5. q.result = (st = "succeeded")
  BY <1>1, <1>3 DEF Row
<1>6. q.result <=> st = "succeeded"
  BY <1>5
<1>7. QED
  BY <1>2, <1>4, <1>6 DEF q

\* resume_job: the row returns to the queue with a higher generation.
LEMMA ResumedColumns ==
  ASSUME NEW r \in Row
  PROVE  LET q == Resumed(r) IN
         /\ q.state = "queued" /\ q.generation > r.generation
         /\ q.attempts = r.attempts /\ q.token = 0 /\ q.usage = r.usage
         /\ ~q.result /\ ~q.terminal /\ q.revision > r.revision
<1>1. "queued" \in States /\ "interrupted" \in States /\ "queued" \notin Terminal
  BY DEF States, Terminal
<1>2. \A p \in Row :
        LET q == [Fenced(p, "queued") EXCEPT !.resumes = @ + 1] IN
        /\ q.state = "queued" /\ q.generation > p.generation
        /\ q.attempts = p.attempts /\ q.token = 0 /\ q.usage = p.usage
        /\ ~q.result /\ ~q.terminal /\ q.revision > p.revision
  <2> SUFFICES ASSUME NEW p \in Row
               PROVE  LET q == [Fenced(p, "queued") EXCEPT !.resumes = @ + 1] IN
                      /\ q.state = "queued" /\ q.generation > p.generation
                      /\ q.attempts = p.attempts /\ q.token = 0
                      /\ q.usage = p.usage /\ ~q.result /\ ~q.terminal
                      /\ q.revision > p.revision
    OBVIOUS
  <2> DEFINE f == Fenced(p, "queued")
  <2>1. f \in Row
    BY <1>1, RowTypes
  <2>2. /\ f.state = "queued" /\ f.generation > p.generation
        /\ f.attempts = p.attempts /\ f.token = 0 /\ f.usage = p.usage
        /\ ~f.result /\ ~f.terminal /\ f.revision > p.revision
    BY <1>1, FencedColumns
  <2> HIDE DEF f
  <2>3. QED
    BY <2>1, <2>2 DEF Row, f
<1>3. Fenced(r, "interrupted") \in Row
  BY <1>1, RowTypes
<1>4. r.generation \in Nat /\ r.revision \in Nat
  BY DEF Row
<1>5. CASE r.state = "running"
  <2> DEFINE f == Fenced(r, "interrupted")
  <2>1. /\ f.generation \in Nat /\ f.revision \in Nat
        /\ Resumed(r).generation \in Nat /\ Resumed(r).revision \in Nat
    BY <1>3, RowTypes DEF Row
  <2>2. /\ f.attempts = r.attempts /\ f.usage = r.usage
        /\ f.generation > r.generation /\ f.revision > r.revision
    BY <1>1, FencedColumns
  <2>3. Resumed(r) = [Fenced(f, "queued") EXCEPT !.resumes = @ + 1]
    BY <1>5 DEF Resumed
  <2> HIDE DEF f
  <2>4. QED
    BY <1>2, <1>3, <1>4, <2>1, <2>2, <2>3 DEF f
<1>6. CASE r.state # "running"
  <2>1. Resumed(r) = [Fenced(r, "queued") EXCEPT !.resumes = @ + 1]
    BY <1>6 DEF Resumed
  <2>2. QED
    BY <1>2, <2>1
<1>7. QED
  BY <1>5, <1>6

\* Fencing one job is a fencing step for it and leaves the others alone.
LEMMA FenceOne ==
  ASSUME TypeOK, NEW j \in Jobs, row[j].state # "absent",
         NEW st \in States \ {"absent", "running"},
         \/ row' = [row EXCEPT ![j] = Finished(row[j], st)]
         \/ st # "succeeded" /\ row' = [row EXCEPT ![j] = Fenced(row[j], st)]
  PROVE  \A k \in Jobs : RowKept(k) \/ RowFenced(k)
<1>1. row \in [Jobs -> Row] /\ row[j] \in Row /\ st \in States
  BY DEF TypeOK
<1>2. CASE row' = [row EXCEPT ![j] = Finished(row[j], st)]
  <2>1. row'[j] = Finished(row[j], st)
    BY <1>1, <1>2
  <2>2. RowFenced(j)
    BY <1>1, <2>1, FinishedColumns DEF RowFenced
  <2>3. \A k \in Jobs \ {j} : row'[k] = row[k] /\ row[k].revision \in Nat
    BY <1>1, <1>2 DEF Row
  <2>4. QED
    BY <2>2, <2>3 DEF RowKept
<1>3. CASE st # "succeeded" /\ row' = [row EXCEPT ![j] = Fenced(row[j], st)]
  <2>1. row'[j] = Fenced(row[j], st)
    BY <1>1, <1>3
  <2>2. RowFenced(j)
    BY <1>1, <1>3, <2>1, FencedColumns, ZenonT(30) DEF RowFenced
  <2>3. \A k \in Jobs \ {j} : row'[k] = row[k] /\ row[k].revision \in Nat
    BY <1>1, <1>3 DEF Row
  <2>4. QED
    BY <2>2, <2>3 DEF RowKept
<1>4. QED
  BY <1>2, <1>3

\* A sweep fences the expired jobs.
LEMMA Sweep ==
  ASSUME TypeOK, row' = Recovered
  PROVE  \A k \in Jobs : RowKept(k) \/ RowFenced(k)
<1> SUFFICES ASSUME NEW k \in Jobs PROVE RowKept(k) \/ RowFenced(k)
  OBVIOUS
<1>1. row[k] \in Row /\ row[k].revision \in Nat
  BY DEF TypeOK, Row
<1>2. CASE row[k].state = "running" /\ row[k].expired
  <2>1. row'[k] = Fenced(row[k], "interrupted")
    BY <1>2 DEF Recovered
  <2>2. "interrupted" \in States
    BY DEF States
  <2>3. /\ row'[k].state = "interrupted" /\ row'[k].generation > row[k].generation
        /\ row'[k].attempts = row[k].attempts /\ row'[k].token = 0
        /\ row'[k].usage = row[k].usage /\ ~row'[k].result
        /\ row'[k].terminal <=> "interrupted" \in Terminal
        /\ row'[k].revision > row[k].revision
    <3> DEFINE f == Fenced(row[k], "interrupted")
    <3>1. /\ f.state = "interrupted" /\ f.generation > row[k].generation
          /\ f.attempts = row[k].attempts /\ f.token = 0
          /\ f.usage = row[k].usage /\ ~f.result
          /\ f.terminal <=> "interrupted" \in Terminal
          /\ f.revision > row[k].revision
      BY <1>1, <2>2, FencedColumns
    <3> HIDE DEF f
    <3>2. QED
      BY <2>1, <3>1 DEF f
  <2>4. RowFenced(k)
    BY <1>2, <2>3 DEF RowFenced
  <2>5. QED
    BY <2>4
<1>3. CASE ~(row[k].state = "running" /\ row[k].expired)
  BY <1>1, <1>3 DEF Recovered, RowKept
<1>4. QED
  BY <1>2, <1>3

-----------------------------------------------------------------------------
(* The steps, one action at a time.                                        *)

\* Becomes(w, r) assigns w's locals and no others.
LEMMA BecomesOne ==
  ASSUME TypeOK, NEW w \in Workers, NEW r, Becomes(w, r)
  PROVE  runner'[w] = r /\ \A v \in Workers \ {w} : runner'[v] = runner[v]
BY DEF TypeOK, Becomes

\* The locals the thread's bookkeeping keeps.
LEMMA Locals ==
  ASSUME NEW r \in Runner
  PROVE  /\ /\ Ended(r).pc = "idle" /\ Ended(r).job = r.job
            /\ Ended(r).token = r.token
         /\ /\ [Ended(r) EXCEPT !.token = 0].pc = "idle"
            /\ [Ended(r) EXCEPT !.token = 0].token = 0
         /\ /\ FailPath(r).pc = "finish" /\ FailPath(r).job = r.job
            /\ FailPath(r).generation = r.generation
            /\ FailPath(r).token = r.token /\ FailPath(r).recorded = r.recorded
BY DEF Ended, FailPath, Runner

\* A thread that is launched has no lease.
LEMMA LaunchedLocals ==
  ASSUME TypeOK, NEW w \in Workers, NEW j, NEW s
  PROVE  Launched(w, j, s).pc = "launched" /\ Launched(w, j, s).token = 0
BY DEF TypeOK, Launched, Runner

\* Rows nobody writes are kept.
LEMMA SameRows ==
  ASSUME TypeOK, row' = row
  PROVE  \A j \in Jobs : RowKept(j)
BY DEF TypeOK, Row, RowKept

\* Usage nobody spends is kept.
LEMMA SameSpent ==
  ASSUME TypeOK, spent' = spent
  PROVE  \A j \in Jobs : spent'[j] >= spent[j]
BY DEF TypeOK

\* The client's steps that accept no grant.
LEMMA ClientQuiet ==
  ASSUME IInv
  PROVE  /\ \A w \in Workers, j \in Jobs, s \in Scopes : StartJob(w, j, s) => Quiet
         /\ \A w \in Workers, j \in Jobs : RestartJob(w, j) => Quiet
         /\ \A j \in Jobs : ConfirmResume(j) => Quiet
         /\ \A j \in Jobs : CancelJob(j) => Quiet
<1>0. TypeOK
  BY DEF IInv
<1>1. ASSUME NEW w \in Workers, NEW j \in Jobs, NEW s \in Scopes, StartJob(w, j, s)
      PROVE  Quiet
  <2>1. row'[j] = NewRow(s) /\ \A k \in Jobs \ {j} : row'[k] = row[k]
    BY <1>0, <1>1 DEF StartJob, TypeOK
  <2>2. RowNew(j)
    <3>1. NewRow(s).revision = 1
      BY DEF NewRow
    <3>2. row[j].state = "absent" /\ row[j].revision = 0
      BY <1>1 DEF StartJob, IInv, RowInv
    <3>3. QED
      BY <2>1, <3>1, <3>2 DEF RowNew
  <2>3. \A k \in Jobs \ {j} : RowKept(k)
    BY <1>0, <2>1 DEF RowKept, TypeOK, Row
  <2>4. RunnerUnleased(w) /\ \A v \in Workers \ {w} : runner'[v] = runner[v]
    BY <1>0, <1>1, LaunchedLocals DEF StartJob, RunnerUnleased, TypeOK
  <2>5. QED
    BY <1>0, <1>1, <2>2, <2>3, <2>4, SameSpent DEF Quiet, StartJob
<1>2. ASSUME NEW w \in Workers, NEW j \in Jobs, RestartJob(w, j)
      PROVE  Quiet
  <2>1. RunnerUnleased(w) /\ \A v \in Workers \ {w} : runner'[v] = runner[v]
    BY <1>0, <1>2, LaunchedLocals DEF RestartJob, RunnerUnleased, TypeOK
  <2>2. QED
    BY <1>0, <1>2, <2>1, SameRows, SameSpent DEF Quiet, RestartJob
<1>3. ASSUME NEW j \in Jobs, ConfirmResume(j)
      PROVE  Quiet
  BY <1>0, <1>3, SameRows, SameSpent DEF Quiet, ConfirmResume
<1>4. ASSUME NEW j \in Jobs, CancelJob(j)
      PROVE  Quiet
  <2>1. /\ row[j].state # "absent"
        /\ "cancelled" \in States \ {"absent", "running"}
        /\ row' = [row EXCEPT ![j] = Fenced(row[j], "cancelled")]
    BY <1>4 DEF CancelJob, Outstanding, States
  <2>2. \A k \in Jobs : RowKept(k) \/ RowFenced(k)
    BY <1>0, <2>1, FenceOne
  <2>3. QED
    BY <1>0, <1>4, <2>2, SameSpent DEF Quiet, CancelJob
<1>5. QED
  BY <1>1, <1>2, <1>3, <1>4

\* Sweeping and the passage of time.
LEMMA TimeQuiet ==
  ASSUME IInv
  PROVE  /\ RecoverStale => Quiet
         /\ \A j \in Jobs : LeaseExpires(j) => Quiet
<1>0. TypeOK
  BY DEF IInv
<1>1. ASSUME RecoverStale PROVE Quiet
  BY <1>0, <1>1, Sweep, SameSpent DEF RecoverStale, Quiet
<1>2. ASSUME NEW j \in Jobs, LeaseExpires(j) PROVE Quiet
  <2>1. \A k \in Jobs : RowKept(k)
    BY <1>0, <1>2 DEF LeaseExpires, TypeOK, Row, RowKept
  <2>2. QED
    BY <1>0, <1>2, <2>1, SameSpent DEF Quiet, LeaseExpires
<1>3. QED
  BY <1>1, <1>2

\* A thread whose lease is refused: it starts the failure path, or it ends
\* after a sweep that has taken its expired lease away.
LEMMA LostQuiet ==
  ASSUME IInv, NEW w \in Workers, Leased(w), MayRefuse(w), Lost(w)
  PROVE  Quiet
<1>0. TypeOK /\ runner[w] \in Runner /\ runner[w].job \in Jobs
  BY DEF IInv, TypeOK, Runner
<1>1. CASE MainPath(runner[w])
  <2>1. /\ runner'[w] = FailPath(runner[w])
        /\ \A v \in Workers \ {w} : runner'[v] = runner[v]
    BY <1>0, <1>1, BecomesOne DEF Lost
  <2>2. RunnerMoves(w)
    BY <1>0, <2>1, Locals DEF RunnerMoves, Leased
  <2>3. QED
    BY <1>0, <1>1, <2>1, <2>2, SameRows, SameSpent DEF Lost, Quiet
<1>2. CASE ~MainPath(runner[w])
  <2>1. /\ runner'[w] = Ended(runner[w])
        /\ \A v \in Workers \ {w} : runner'[v] = runner[v]
    BY <1>0, <1>2, BecomesOne DEF Lost
  <2>2. \A j \in Jobs : RowKept(j) \/ RowFenced(j)
    BY <1>0, <1>2, Sweep DEF Lost
  <2>3. RunnerEnds(w)
    <3> DEFINE j == runner[w].job
    <3>1. CASE row[j].state = "running" /\ row[j].expired
      <4>1. row'[j] = Fenced(row[j], "interrupted")
        BY <1>0, <1>2, <3>1 DEF Lost, Recovered
      <4>2. row'[j].state = "interrupted"
        <5>1. row[j] \in Row /\ "interrupted" \in States
          BY <1>0 DEF TypeOK, States
        <5>2. Fenced(row[j], "interrupted").state = "interrupted"
          BY <5>1, FencedColumns
        <5>3. QED
          BY <4>1, <5>2
      <4>3. QED
        BY <1>0, <2>1, <4>2, Locals DEF RunnerEnds
    <3>2. CASE ~(row[j].state = "running" /\ row[j].expired)
      <4>1. row'[j] = row[j]
        BY <1>0, <1>2, <3>2 DEF Lost, Recovered
      <4>2. ~Holds(w) \/ row[j].state # "running"
        BY <3>2 DEF MayRefuse
      <4>3. ~(row[j].state = "running" /\ row[j].token = runner[w].token)
        BY <4>2 DEF IInv, LeaseInv
      <4>4. QED
        BY <1>0, <2>1, <4>1, <4>3, Locals DEF RunnerEnds
    <3>3. QED
      BY <3>1, <3>2
  <2>4. QED
    BY <1>0, <1>2, <2>1, <2>2, <2>3, SameSpent DEF Lost, Quiet
<1>3. QED
  BY <1>1, <1>2

\* Every step of a thread but Claim and Publish.
LEMMA ThreadQuiet ==
  ASSUME IInv, NEW w \in Workers, Thread(w)
  PROVE  Claim(w) \/ Publish(w) \/ Quiet
<1> DEFINE r == runner[w]
           j == runner[w].job
<1>0. /\ TypeOK /\ r \in Runner /\ j \in Jobs /\ row[j] \in Row
      /\ row[j].usage \in Nat /\ spent[j] \in Nat /\ r.delta \in Nat
  BY DEF IInv, TypeOK, Runner, Row
<1>1. CASE ClaimRefused(w)
  <2>1. runner'[w] = Ended(r) /\ \A v \in Workers \ {w} : runner'[v] = runner[v]
    BY <1>0, <1>1, BecomesOne DEF ClaimRefused
  <2>2. row' = row /\ ~(row[j].state = "running" /\ row[j].token = r.token)
    <3>1. row[j].token # 0 \/ row[j].state # "running"
      BY <1>0 DEF IInv, SchemaChecks
    <3>2. r.token = 0
      BY <1>0, <1>1 DEF ClaimRefused, IInv, LaunchInv
    <3>3. QED
      BY <1>1, <3>1, <3>2 DEF ClaimRefused
  <2>3. RunnerEnds(w)
    BY <1>0, <2>1, <2>2, Locals DEF RunnerEnds
  <2>4. QED
    BY <1>0, <1>1, <2>1, <2>3, SameRows, SameSpent DEF ClaimRefused, Quiet
<1>2. CASE Spend(w)
  <2>1. \A k \in Jobs : spent'[k] >= spent[k]
    BY <1>0, <1>2 DEF Spend, TypeOK
  <2>2. QED
    BY <1>0, <1>2, <2>1, SameRows DEF Spend, Quiet
<1>3. CASE RequestStop(w) \/ BeatLost(w)
  <2>1. PICK x \in {"stop", "error"} : Becomes(w, [r EXCEPT !.stop = x])
    BY <1>3 DEF RequestStop, BeatLost
  <2>2. /\ runner'[w] = [r EXCEPT !.stop = x]
        /\ \A v \in Workers \ {w} : runner'[v] = runner[v]
    BY <1>0, <2>1, BecomesOne
  <2>3. /\ runner'[w].pc = r.pc /\ runner'[w].job = r.job
        /\ runner'[w].generation = r.generation /\ runner'[w].token = r.token
        /\ runner'[w].recorded = r.recorded
    BY <1>0, <2>2 DEF Runner
  <2>4. r.pc \in {"launched", "running"}
    BY <1>3 DEF RequestStop, BeatLost
  <2>5. CASE r.pc = "running"
    <3>1. RunnerMoves(w)
      BY <2>3, <2>5 DEF RunnerMoves, Leased
    <3>2. QED
      BY <1>0, <1>3, <2>2, <3>1, SameRows, SameSpent DEF RequestStop, BeatLost, Quiet
  <2>6. CASE r.pc = "launched"
    <3>1. RunnerUnleased(w)
      BY <2>3, <2>6 DEF RunnerUnleased, IInv, LaunchInv
    <3>2. QED
      BY <1>0, <1>3, <2>2, <3>1, SameRows, SameSpent DEF RequestStop, BeatLost, Quiet
  <2>7. QED
    BY <2>4, <2>5, <2>6
<1>4. CASE Beat(w)
  <2>1. row[j].state = "running" /\ row' = [row EXCEPT ![j] = Renewed(row[j])]
    BY <1>4 DEF Beat, Holds
  <2>2. RowKept(j)
    BY <1>0, <2>1 DEF Renewed, RowKept, TypeOK, Row
  <2>3. \A k \in Jobs \ {j} : RowKept(k)
    BY <1>0, <2>1 DEF RowKept, TypeOK, Row
  <2>4. QED
    BY <1>0, <1>4, <2>2, <2>3, SameSpent DEF Beat, Quiet
<1>5. CASE Return(w)
  <2>1. PICK i : Becomes(w, [r EXCEPT !.pc = "finish", !.intent = i])
    BY <1>5 DEF Return
  <2>2. /\ runner'[w] = [r EXCEPT !.pc = "finish", !.intent = i]
        /\ \A v \in Workers \ {w} : runner'[v] = runner[v]
    BY <1>0, <2>1, BecomesOne
  <2>3. /\ runner'[w].pc = "finish" /\ runner'[w].job = r.job
        /\ runner'[w].generation = r.generation /\ runner'[w].token = r.token
        /\ runner'[w].recorded = r.recorded
    BY <1>0, <2>2 DEF Runner
  <2>4. RunnerMoves(w)
    BY <1>5, <2>3 DEF Return, RunnerMoves, Leased
  <2>5. QED
    BY <1>0, <1>5, <2>2, <2>4, SameRows, SameSpent DEF Return, Quiet
<1>6. CASE CheckStatus(w)
  <2> DEFINE next == IF r.recorded THEN "close" ELSE "measure"
  <2>1. \/ row[j].state \in Terminal \cup {"interrupted"} /\ Becomes(w, Ended(r))
        \/ Becomes(w, [r EXCEPT !.pc = next])
    BY <1>6 DEF CheckStatus, Terminal
  <2>2. CASE row[j].state \in Terminal \cup {"interrupted"} /\ Becomes(w, Ended(r))
    <3>1. /\ runner'[w] = Ended(r)
          /\ \A v \in Workers \ {w} : runner'[v] = runner[v]
      BY <1>0, <2>2, BecomesOne
    <3>2. RunnerEnds(w)
      BY <1>0, <1>6, <2>2, <3>1, Locals DEF RunnerEnds, CheckStatus, Terminal
    <3>3. QED
      BY <1>0, <1>6, <3>1, <3>2, SameRows, SameSpent DEF CheckStatus, Quiet
  <2>3. CASE Becomes(w, [r EXCEPT !.pc = next])
    <3>1. /\ runner'[w] = [r EXCEPT !.pc = next]
          /\ \A v \in Workers \ {w} : runner'[v] = runner[v]
      BY <1>0, <2>3, BecomesOne
    <3>2. /\ runner'[w].pc = next /\ runner'[w].job = r.job
          /\ runner'[w].generation = r.generation /\ runner'[w].token = r.token
          /\ runner'[w].recorded = r.recorded
      BY <1>0, <3>1 DEF Runner
    <3>3. RunnerMoves(w)
      BY <1>6, <3>2 DEF CheckStatus, RunnerMoves, Leased
    <3>4. QED
      BY <1>0, <1>6, <3>1, <3>3, SameRows, SameSpent DEF CheckStatus, Quiet
  <2>4. QED
    BY <2>1, <2>2, <2>3
<1>7. CASE Measure(w)
  <2> DEFINE d == IF spent[j] > row[j].usage THEN spent[j] - row[j].usage ELSE 0
  <2>1. /\ runner'[w] = [r EXCEPT !.pc = "publish", !.delta = d]
        /\ \A v \in Workers \ {w} : runner'[v] = runner[v]
    BY <1>0, <1>7, BecomesOne DEF Measure
  <2>2. row[j].usage + d <= spent[j]
    BY <1>0 DEF IInv, RowInv
  <2> HIDE DEF d
  <2>3. /\ runner'[w].pc = "publish" /\ runner'[w].job = r.job
        /\ runner'[w].generation = r.generation /\ runner'[w].token = r.token
        /\ runner'[w].recorded = r.recorded /\ runner'[w].delta = d
    BY <1>0, <2>1 DEF Runner
  <2>4. RunnerMoves(w)
    BY <1>7, <2>2, <2>3 DEF Measure, RunnerMoves, Leased, IInv, UsageInv
  <2>5. QED
    BY <1>0, <1>7, <2>1, <2>4, SameRows, SameSpent DEF Measure, Quiet
<1>8. CASE PublishRefused(w) \/ CloseRefused(w)
  BY <1>8, LostQuiet DEF PublishRefused, CloseRefused, Leased
<1>9. CASE Close(w)
  <2>1. /\ row[j].state = "running"
        /\ Outcome(r.intent) \in States \ {"absent", "running"}
        /\ row' = [row EXCEPT ![j] = Finished(row[j], Outcome(r.intent))]
    BY <1>9 DEF Close, Holds, Outcome, States
  <2>2. \A k \in Jobs : RowKept(k) \/ RowFenced(k)
    BY <1>0, <2>1, FenceOne
  <2>3. runner'[w] = Ended(r) /\ \A v \in Workers \ {w} : runner'[v] = runner[v]
    BY <1>0, <1>9, BecomesOne DEF Close
  <2>4. row'[j].state = Outcome(r.intent)
    <3>1. row'[j] = Finished(row[j], Outcome(r.intent))
      BY <1>0, <2>1 DEF TypeOK
    <3>2. Finished(row[j], Outcome(r.intent)).state = Outcome(r.intent)
      BY <1>0, <2>1, FinishedColumns
    <3>3. QED
      BY <3>1, <3>2
  <2>5. RunnerEnds(w)
    BY <1>0, <2>1, <2>3, <2>4, Locals DEF RunnerEnds
  <2>6. QED
    BY <1>0, <1>9, <2>2, <2>3, <2>5, SameSpent DEF Close, Quiet
<1>10. CASE ResultRejected(w)
  <2>1. runner'[w] = FailPath(r) /\ \A v \in Workers \ {w} : runner'[v] = runner[v]
    BY <1>0, <1>10, BecomesOne DEF ResultRejected
  <2>2. RunnerMoves(w)
    BY <1>0, <1>10, <2>1, Locals DEF ResultRejected, RunnerMoves, Leased
  <2>3. QED
    BY <1>0, <1>10, <2>1, <2>2, SameRows, SameSpent DEF ResultRejected, Quiet
<1>11. CASE ShutdownInterrupt(w)
  <2>1. /\ row[j].state = "running"
        /\ "interrupted" \in States \ {"absent", "running"}
        /\ row' = [row EXCEPT ![j] = Finished(row[j], "interrupted")]
    BY <1>11 DEF ShutdownInterrupt, Holds, States
  <2>2. \A k \in Jobs : RowKept(k) \/ RowFenced(k)
    BY <1>0, <2>1, FenceOne
  <2>3. QED
    BY <1>0, <1>11, <2>2, SameSpent DEF ShutdownInterrupt, Quiet
<1>12. CASE Crash(w)
  <2>1. /\ runner'[w] = [Ended(r) EXCEPT !.token = 0]
        /\ \A v \in Workers \ {w} : runner'[v] = runner[v]
    BY <1>0, <1>12, BecomesOne DEF Crash
  <2>2. RunnerUnleased(w)
    BY <1>0, <2>1, Locals DEF RunnerUnleased
  <2>3. QED
    BY <1>0, <1>12, <2>1, <2>2, SameRows, SameSpent DEF Crash, Quiet
<1>13. QED
  BY <1>1, <1>2, <1>3, <1>4, <1>5, <1>6, <1>7, <1>8, <1>9, <1>10, <1>11, <1>12
     DEF Thread

\* A claim hands out a generation and a token no thread has had before.
LEMMA ClaimKeeps ==
  ASSUME IInv, TypeOK', NEW w \in Workers, Claim(w)
  PROVE  /\ SchemaChecks' /\ RowInv' /\ LeaseInv' /\ LaunchInv' /\ TokenInv'
         /\ UsageInv' /\ NoOrphanAfterExit'
         /\ \A j \in Jobs : row'[j].revision >= row[j].revision
<1> DEFINE r == runner[w]
           j == runner[w].job
           c == Claimed(row[j])
<1>0. /\ TypeOK /\ r \in Runner /\ j \in Jobs /\ row[j] \in Row
      /\ events' = events /\ spent' = spent
  BY DEF IInv, TypeOK, Runner, Claim
<1>1. /\ \A k \in Jobs : /\ row[k].generation \in Nat /\ row[k].attempts \in Nat
                          /\ row[k].revision \in Nat
                          /\ events[k] \in SUBSET (Nat \X Nat)
      /\ \A v \in Workers : /\ runner[v].generation \in Nat
                             /\ runner[v].token \in Nat /\ runner[v].job \in Jobs
  BY <1>0 DEF TypeOK, Row, Runner
<1>2. row'[j] = c /\ \A k \in Jobs \ {j} : row'[k] = row[k]
  BY <1>0 DEF Claim, TypeOK
<1>3. /\ c.state = "running" /\ c.generation = row[j].generation + 1
      /\ c.attempts = row[j].attempts + 1 /\ c.token = row[j].attempts + 1
      /\ c.usage = row[j].usage /\ c.result = FALSE /\ c.terminal = FALSE
      /\ c.revision = row[j].revision + 1
  BY <1>0 DEF Claimed, Row
<1>4. /\ runner'[w] = [r EXCEPT !.pc = "running", !.generation = c.generation,
                                !.token = c.token]
      /\ \A v \in Workers \ {w} : runner'[v] = runner[v]
  BY <1>0, BecomesOne DEF Claim
<1> HIDE DEF c
<1>5. /\ runner'[w].pc = "running" /\ runner'[w].job = j
      /\ runner'[w].generation = c.generation /\ runner'[w].token = c.token
      /\ runner'[w].recorded = r.recorded
  BY <1>0, <1>4 DEF Runner
<1>6. SchemaChecks'
  BY <1>1, <1>2, <1>3 DEF IInv, SchemaChecks, Terminal
<1>7. RowInv'
  BY <1>0, <1>1, <1>2, <1>3 DEF IInv, RowInv
<1>8. LeaseInv'
  <2> SUFFICES ASSUME NEW v \in Workers
               PROVE  LET q == row'[runner'[v].job] IN
                      /\ runner'[v].token <= q.attempts
                      /\ Leased(v)' =>
                           /\ runner'[v].generation >= 1
                           /\ runner'[v].generation <= q.generation
                           /\ runner'[v].generation = q.generation => Holds(v)'
                           /\ (q.state = "running" /\ q.token = runner'[v].token)
                                => Holds(v)'
    BY DEF LeaseInv
  <2>1. CASE v = w
    BY <1>1, <1>2, <1>3, <1>5, <2>1 DEF Holds
  <2>2. CASE v # w /\ runner[v].job = j
    BY <1>1, <1>2, <1>3, <1>4, <2>2 DEF IInv, LeaseInv, Leased
  <2>3. CASE v # w /\ runner[v].job # j
    BY <1>1, <1>2, <1>4, <2>3 DEF IInv, LeaseInv, Leased, Holds
  <2>4. QED
    BY <2>1, <2>2, <2>3
<1>9. LaunchInv'
  BY <1>4, <1>5 DEF IInv, LaunchInv
<1>10. TokenInv'
  <2>1. \A v \in Workers : runner[v].job = j => runner[v].token # c.token
    <3>1. \A v \in Workers : runner[v].token <= row[runner[v].job].attempts
      BY DEF IInv, LeaseInv
    <3>2. QED
      BY <1>0, <1>1, <1>3, <3>1
  <2>2. \A v \in Workers \ {w} : Leased(v)' <=> Leased(v)
    BY <1>4 DEF Leased
  <2> SUFFICES ASSUME NEW u \in Workers, NEW v \in Workers, Leased(u)', Leased(v)',
                      runner'[u].job = runner'[v].job,
                      runner'[u].token = runner'[v].token
               PROVE  u = v
    BY DEF TokenInv
  <2>3. CASE u = w \/ v = w
    <3>1. ASSUME NEW t \in Workers \ {w}
          PROVE  ~(runner'[t].job = runner'[w].job /\ runner'[t].token = runner'[w].token)
      BY <1>4, <1>5, <2>1
    <3>2. QED
      BY <2>3, <3>1
  <2>4. CASE u # w /\ v # w
    BY <1>4, <2>2, <2>4 DEF IInv, TokenInv
  <2>5. QED
    BY <2>3, <2>4
<1>11. UsageInv'
  <2> SUFFICES ASSUME NEW v \in Workers
               PROVE  LET k == runner'[v].job IN
                 /\ runner'[v].pc \in {"measure", "publish"} => ~runner'[v].recorded
                 /\ (Leased(v)' /\ ~runner'[v].recorded)
                      => \A e \in events'[k] : e[1] # runner'[v].generation
                 /\ (runner'[v].pc = "publish" /\ Holds(v)')
                      => row'[k].usage + runner'[v].delta <= spent'[k]
    BY DEF UsageInv
  <2>1. CASE v = w
    <3>1. \A e \in events[j] : e[1] # c.generation
      <4>1. \A e \in events[j] : e[1] \in Nat /\ e[1] <= row[j].generation
        BY <1>0, <1>1 DEF IInv, RowInv
      <4>2. QED
        BY <1>0, <1>1, <1>3, <4>1
    <3>2. QED
      BY <1>0, <1>5, <2>1, <3>1
  <2>2. CASE v # w /\ runner[v].job = j
    <3>1. ~Leased(v) \/ ~Holds(v)'
      BY <1>0, <1>1, <1>2, <1>3, <1>4, <2>2 DEF IInv, LeaseInv, Holds
    <3>2. QED
      BY <1>0, <1>4, <2>2, <3>1 DEF IInv, UsageInv, Leased
  <2>3. CASE v # w /\ runner[v].job # j
    BY <1>0, <1>1, <1>2, <1>4, <2>3 DEF IInv, UsageInv, Leased, Holds
  <2>4. QED
    BY <2>1, <2>2, <2>3
<1>12. NoOrphanAfterExit'
  <2> SUFFICES ASSUME NEW v \in Workers, Idle(v)', runner'[v].token # 0
               PROVE  ~(/\ row'[runner'[v].job].state = "running"
                        /\ row'[runner'[v].job].token = runner'[v].token)
    BY DEF NoOrphanAfterExit
  <2>1. v # w /\ runner'[v] = runner[v] /\ Idle(v)
    BY <1>4, <1>5 DEF Idle
  <2>2. runner[v].token <= row[runner[v].job].attempts
    BY DEF IInv, LeaseInv
  <2>3. CASE runner[v].job = j
    BY <1>0, <1>1, <1>2, <1>3, <2>1, <2>2, <2>3
  <2>4. CASE runner[v].job # j
    BY <1>1, <1>2, <2>1, <2>4 DEF IInv, NoOrphanAfterExit
  <2>5. QED
    BY <2>3, <2>4
<1>13. \A k \in Jobs : row'[k].revision >= row[k].revision
  BY <1>1, <1>2, <1>3
<1>14. QED
  BY <1>6, <1>7, <1>8, <1>9, <1>10, <1>11, <1>12, <1>13

\* Only the holder records usage, and only once in its generation.
LEMMA PublishKeeps ==
  ASSUME IInv, TypeOK', NEW w \in Workers, Publish(w)
  PROVE  /\ SchemaChecks' /\ RowInv' /\ LeaseInv' /\ LaunchInv' /\ TokenInv'
         /\ UsageInv' /\ NoOrphanAfterExit'
         /\ \A j \in Jobs : row'[j].revision >= row[j].revision
<1> DEFINE r == runner[w]
           j == runner[w].job
           c == Charged(row[j], r.delta)
           e == <<r.generation, r.delta>>
<1>0. /\ TypeOK /\ r \in Runner /\ j \in Jobs /\ row[j] \in Row
      /\ spent' = spent /\ Leased(w) /\ Holds(w)
  BY DEF IInv, TypeOK, Runner, Publish, Leased
<1>1. /\ \A k \in Jobs : /\ row[k].generation \in Nat /\ row[k].attempts \in Nat
                          /\ row[k].revision \in Nat /\ row[k].usage \in Nat
                          /\ spent[k] \in Nat /\ events[k] \in SUBSET (Nat \X Nat)
      /\ \A v \in Workers : /\ runner[v].generation \in Nat
                             /\ runner[v].token \in Nat /\ runner[v].job \in Jobs
                             /\ runner[v].delta \in Nat
  BY <1>0 DEF TypeOK, Row, Runner
<1>2. {d \in events[j] : d[1] = r.generation} = {}
  BY <1>0 DEF IInv, UsageInv, Publish
<1>3. /\ row' = [row EXCEPT ![j] = c]
      /\ events' = [events EXCEPT ![j] = @ \cup {e}]
      /\ Becomes(w, [r EXCEPT !.pc = "close", !.recorded = TRUE, !.delta = 0])
  BY <1>2 DEF Publish
<1>4. row'[j] = c /\ \A k \in Jobs \ {j} : row'[k] = row[k]
  BY <1>0, <1>3 DEF TypeOK
<1>5. events'[j] = events[j] \cup {e} /\ \A k \in Jobs \ {j} : events'[k] = events[k]
  BY <1>0, <1>3 DEF TypeOK
<1>6. /\ c.state = row[j].state /\ c.generation = row[j].generation
      /\ c.attempts = row[j].attempts /\ c.token = row[j].token
      /\ c.usage = row[j].usage + r.delta /\ c.result = row[j].result
      /\ c.terminal = row[j].terminal /\ c.revision = row[j].revision + 1
  BY <1>0 DEF Charged, Row
<1>7. /\ runner'[w] = [r EXCEPT !.pc = "close", !.recorded = TRUE, !.delta = 0]
      /\ \A v \in Workers \ {w} : runner'[v] = runner[v]
  BY <1>0, <1>3, BecomesOne
<1>8. /\ runner'[w].pc = "close" /\ runner'[w].job = j
      /\ runner'[w].generation = r.generation /\ runner'[w].token = r.token
      /\ runner'[w].recorded
  BY <1>0, <1>7 DEF Runner
<1>9. \A v \in Workers : /\ runner'[v].job = runner[v].job
                         /\ runner'[v].generation = runner[v].generation
                         /\ runner'[v].token = runner[v].token
                         /\ Leased(v)' <=> Leased(v)
                         /\ Idle(v)' <=> Idle(v)
  BY <1>0, <1>7, <1>8 DEF Leased, Idle
<1>10. \A k \in Jobs : /\ row'[k].state = row[k].state
                       /\ row'[k].generation = row[k].generation
                       /\ row'[k].attempts = row[k].attempts
                       /\ row'[k].token = row[k].token
                       /\ row'[k].result = row[k].result
                       /\ row'[k].terminal = row[k].terminal
                       /\ row'[k].revision >= row[k].revision
  BY <1>1, <1>4, <1>6
<1> HIDE DEF c
<1>11. \A v \in Workers : Holds(v)' <=> Holds(v)
  BY <1>1, <1>9, <1>10 DEF Holds
<1>12. SchemaChecks'
  BY <1>10 DEF IInv, SchemaChecks
<1>13. RowInv'
  <2>1. row[j].state = "running" /\ r.generation = row[j].generation
    BY <1>0 DEF Holds
  <2>2. row[j].usage + r.delta <= spent[j]
    BY <1>0 DEF IInv, UsageInv, Publish
  <2>3. e[1] = r.generation
    OBVIOUS
  <2>4. \A d \in events'[j] : d[1] <= row'[j].generation
    BY <1>0, <1>1, <1>5, <1>10, <2>1, <2>3 DEF IInv, RowInv
  <2>5. \A d, f \in events'[j] : d[1] = f[1] => d = f
    BY <1>0, <1>2, <1>5, <2>3 DEF IInv, RowInv
  <2> HIDE DEF e
  <2>6. QED
    BY <1>0, <1>1, <1>4, <1>5, <1>6, <2>1, <2>2, <2>4, <2>5 DEF IInv, RowInv
<1>14. LeaseInv'
  BY <1>1, <1>9, <1>10, <1>11 DEF IInv, LeaseInv
<1>15. LaunchInv'
  BY <1>7, <1>8 DEF IInv, LaunchInv
<1>16. TokenInv'
  BY <1>9 DEF IInv, TokenInv
<1>17. UsageInv'
  <2> SUFFICES ASSUME NEW v \in Workers
               PROVE  LET k == runner'[v].job IN
                 /\ runner'[v].pc \in {"measure", "publish"} => ~runner'[v].recorded
                 /\ (Leased(v)' /\ ~runner'[v].recorded)
                      => \A d \in events'[k] : d[1] # runner'[v].generation
                 /\ (runner'[v].pc = "publish" /\ Holds(v)')
                      => row'[k].usage + runner'[v].delta <= spent'[k]
    BY DEF UsageInv
  <2>1. CASE v = w
    BY <1>8, <2>1
  <2>2. CASE v # w /\ runner[v].job = j
    <3>1. Leased(v) => ~Holds(v)
      BY <1>0, <2>2 DEF IInv, TokenInv, Holds
    <3>2. Leased(v) => runner[v].generation # r.generation
      BY <1>0, <2>2, <3>1 DEF IInv, LeaseInv, Holds
    <3>3. \A d \in events'[j] : d \in events[j] \/ d[1] = r.generation
      BY <1>5
    <3>4. (Leased(v)' /\ ~runner'[v].recorded)
            => \A d \in events'[j] : d[1] # runner'[v].generation
      BY <1>7, <1>9, <2>2, <3>2, <3>3 DEF IInv, UsageInv
    <3>5. ~(runner'[v].pc = "publish" /\ Holds(v)')
      BY <1>7, <1>11, <2>2, <3>1 DEF Leased
    <3>6. QED
      BY <1>7, <1>9, <2>2, <3>4, <3>5 DEF IInv, UsageInv
  <2>3. CASE v # w /\ runner[v].job # j
    BY <1>0, <1>1, <1>4, <1>5, <1>7, <1>9, <1>11, <2>3 DEF IInv, UsageInv
  <2>4. QED
    BY <2>1, <2>2, <2>3
<1>18. NoOrphanAfterExit'
  BY <1>1, <1>9, <1>10 DEF IInv, NoOrphanAfterExit
<1>19. QED
  BY <1>10, <1>12, <1>13, <1>14, <1>15, <1>16, <1>17, <1>18

\* A resume fences its job, sweeps others, and uses a grant nobody has used.
LEMMA ResumeKeeps ==
  ASSUME IInv, TypeOK', NEW w \in Workers, NEW g \in grants, NEW s \in Scopes,
         NEW late \in BOOLEAN, ResumeJob(w, g, s, late)
  PROVE  Quiet /\ GrantInv'
<1> DEFINE base == IF late THEN [Recovered EXCEPT ![g.job] = row[g.job]] ELSE Recovered
           b == base[g.job]
<1>0. TypeOK /\ g \in Grant /\ g.job \in Jobs /\ g.revision \in Nat
  BY DEF IInv, TypeOK, Grant
<1>1. base \in [Jobs -> Row]
  BY <1>0, RecoveredType DEF TypeOK
<1>2. /\ \A k \in Jobs \ {g.job} : base[k] = Recovered[k]
      /\ b = row[g.job] \/ b = Recovered[g.job]
  BY <1>0, RecoveredType
<1>3. /\ row' = [base EXCEPT ![g.job] = Resumed(b)]
      /\ used' = used \cup {<<g, b.resumes>>}
      /\ g.revision = b.revision
      /\ b.state \in {"interrupted", "failed", "running"}
      /\ runner' = [runner EXCEPT ![w] = Launched(w, g.job, s)]
      /\ events' = events /\ spent' = spent
  BY DEF ResumeJob, ResumeGranted
<1>4. b \in Row
  BY <1>0, <1>1
<1> HIDE DEF base
<1>5. row'[g.job] = Resumed(b) /\ \A k \in Jobs \ {g.job} : row'[k] = base[k]
  BY <1>0, <1>1, <1>3
<1>6. /\ row[g.job].state # "absent" /\ b.generation >= row[g.job].generation
      /\ b.revision >= row[g.job].revision /\ b.attempts = row[g.job].attempts
      /\ b.usage = row[g.job].usage
  <2> DEFINE f == Fenced(row[g.job], "interrupted")
  <2>1. /\ row[g.job] \in Row /\ "interrupted" \in States
        /\ row[g.job].generation \in Nat /\ row[g.job].revision \in Nat
    BY <1>0 DEF TypeOK, Row, States
  <2>2. /\ f.generation = row[g.job].generation + 1 /\ f.revision = row[g.job].revision + 1
        /\ f.attempts = row[g.job].attempts /\ f.usage = row[g.job].usage
    BY <2>1, FencedColumns
  <2>3. b = row[g.job] \/ (b = f /\ row[g.job].state = "running")
    BY <1>0, <1>2 DEF Recovered
  <2> HIDE DEF f, b
  <2>4. CASE b = row[g.job]
    BY <1>3, <2>1, <2>4
  <2>5. CASE b = f /\ row[g.job].state = "running"
    BY <2>1, <2>2, <2>5
  <2>6. QED
    BY <2>3, <2>4, <2>5
<1>7. RowFenced(g.job) /\ row'[g.job].revision > b.revision
  <2> DEFINE q == Resumed(b)
  <2>1. /\ q.state = "queued" /\ q.generation > b.generation
        /\ q.attempts = b.attempts /\ q.token = 0 /\ q.usage = b.usage
        /\ ~q.result /\ ~q.terminal /\ q.revision > b.revision
    BY <1>4, ResumedColumns
  <2>2. /\ row[g.job].generation \in Nat /\ row[g.job].revision \in Nat
        /\ b.generation \in Nat /\ b.revision \in Nat
        /\ q.generation \in Nat /\ q.revision \in Nat
    BY <1>0, <1>4, RowTypes DEF TypeOK, Row
  <2> HIDE DEF q, b
  <2>3. row'[g.job] = q
    BY <1>5 DEF q
  <2>4. QED
    BY <1>6, <2>1, <2>2, <2>3 DEF RowFenced, Terminal
<1>8. \A k \in Jobs \ {g.job} : RowKept(k) \/ RowFenced(k)
  <2> SUFFICES ASSUME NEW k \in Jobs \ {g.job} PROVE RowKept(k) \/ RowFenced(k)
    OBVIOUS
  <2>1. row[k] \in Row /\ row[k].revision \in Nat /\ row'[k] = Recovered[k]
    BY <1>0, <1>2, <1>5 DEF TypeOK, Row
  <2>2. CASE row[k].state = "running" /\ row[k].expired
    <3> DEFINE f == Fenced(row[k], "interrupted")
    <3>1. row'[k] = f /\ "interrupted" \in States
      BY <2>1, <2>2 DEF Recovered, States
    <3>2. /\ f.state = "interrupted" /\ f.generation > row[k].generation
          /\ f.attempts = row[k].attempts /\ f.token = 0
          /\ f.usage = row[k].usage /\ ~f.result
          /\ f.terminal <=> "interrupted" \in Terminal
          /\ f.revision > row[k].revision
      BY <2>1, <3>1, FencedColumns
    <3> HIDE DEF f
    <3>3. QED
      BY <2>2, <3>1, <3>2 DEF RowFenced
  <2>3. CASE ~(row[k].state = "running" /\ row[k].expired)
    BY <2>1, <2>3 DEF Recovered, RowKept
  <2>4. QED
    BY <2>2, <2>3
<1>9. RunnerUnleased(w) /\ \A v \in Workers \ {w} : runner'[v] = runner[v]
  BY <1>0, <1>3, LaunchedLocals DEF RunnerUnleased, TypeOK
<1>10. Quiet
  BY <1>0, <1>3, <1>7, <1>8, <1>9, SameSpent DEF Quiet
<1>11. \A k \in Jobs : /\ row'[k].revision >= row[k].revision
                       /\ row[k].revision \in Nat /\ row'[k].revision \in Nat
  <2>1. \A k \in Jobs : row[k].revision \in Nat /\ row'[k].revision \in Nat
    BY <1>0 DEF TypeOK, Row
  <2>2. QED
    BY <1>7, <1>8, <2>1 DEF RowKept, RowFenced
<1>12. \A a \in used : /\ a[1] \in Grant /\ a[1].job \in Jobs
                       /\ a[1].revision \in Nat /\ a[1] # g
  <2>1. \A a \in used : a[1] \in Grant
    BY <1>0 DEF TypeOK
  <2>2. \A a \in used : a[1].job \in Jobs /\ a[1].revision \in Nat
    BY <2>1 DEF Grant
  <2>3. \A a \in used : a[1].revision < row[a[1].job].revision
    BY DEF IInv, GrantInv
  <2>4. g.revision >= row[g.job].revision /\ row[g.job].revision \in Nat
    BY <1>0, <1>3, <1>6, <1>11
  <2>5. QED
    BY <1>0, <2>1, <2>2, <2>3, <2>4
<1> DEFINE n == <<g, b.resumes>>
<1>13. n[1] = g /\ used' = used \cup {n}
  BY <1>3
<1> HIDE DEF n
<1>14. GrantUsedOnce'
  BY <1>12, <1>13 DEF IInv, GrantInv, GrantUsedOnce
<1>15. \A a \in used' : a[1].revision < row'[a[1].job].revision
  <2>1. \A a \in used : a[1].revision < row'[a[1].job].revision
    BY <1>11, <1>12 DEF IInv, GrantInv
  <2>2. g.revision < row'[g.job].revision
    <3>1. b.revision \in Nat
      BY <1>4 DEF Row
    <3>2. QED
      BY <1>0, <1>3, <1>7, <1>11, <3>1
  <2>3. QED
    BY <1>13, <2>1, <2>2
<1>16. QED
  BY <1>10, <1>14, <1>15 DEF GrantInv

-----------------------------------------------------------------------------
(* The invariant and what follows from it.                                 *)

\* The invariant holds when the database is empty and every thread idle ...
LEMMA InitIInv == Init => IInv
<1> SUFFICES ASSUME Init PROVE IInv
  OBVIOUS
<1>0. TypeOK
  BY InitTypes
<1>1. PICK s \in Scopes :
        row = [j \in Jobs |-> [NewRow(s) EXCEPT !.state = "absent", !.revision = 0]]
  BY DEF Init
<1>2. \A j \in Jobs : /\ row[j].state = "absent" /\ row[j].revision = 0
                      /\ row[j].generation = 0 /\ row[j].attempts = 0
                      /\ row[j].usage = 0 /\ row[j].token = 0
                      /\ row[j].result = FALSE /\ row[j].terminal = FALSE
  BY <1>1 DEF NewRow
<1>3. \A w \in Workers : /\ runner[w].pc = "idle" /\ runner[w].token = 0
                         /\ runner[w].job \in Jobs
  BY DEF Init
<1>4. /\ \A j \in Jobs : events[j] = {} /\ spent[j] = 0
      /\ used = {}
  BY DEF Init
<1>5. SchemaChecks
  BY <1>2 DEF SchemaChecks, Terminal
<1>6. RowInv
  BY <1>2, <1>4 DEF RowInv
<1>7. LeaseInv /\ LaunchInv /\ TokenInv /\ UsageInv /\ NoOrphanAfterExit
  BY <1>2, <1>3 DEF LeaseInv, LaunchInv, TokenInv, UsageInv, NoOrphanAfterExit, Leased
<1>8. GrantInv
  BY <1>4 DEF GrantInv, GrantUsedOnce
<1>9. QED
  BY <1>0, <1>5, <1>6, <1>7, <1>8 DEF IInv

\* Grants stay spent as long as revisions only grow.
LEMMA GrantsKept ==
  ASSUME IInv, TypeOK', used' = used,
         \A j \in Jobs : row'[j].revision >= row[j].revision
  PROVE  GrantInv'
<1>1. \A a \in used : a[1] \in Grant
  BY DEF IInv, TypeOK
<1>2. \A a \in used : a[1].job \in Jobs /\ a[1].revision \in Nat
  BY <1>1 DEF Grant
<1>3. \A j \in Jobs : row[j].revision \in Nat /\ row'[j].revision \in Nat
  BY DEF IInv, TypeOK, Row
<1>4. \A a \in used' : a[1].revision < row'[a[1].job].revision
  BY <1>2, <1>3 DEF IInv, GrantInv
<1>5. GrantUsedOnce'
  BY DEF IInv, GrantInv, GrantUsedOnce
<1>6. QED
  BY <1>4, <1>5 DEF GrantInv

\* In a quiet step revisions only grow.
LEMMA QuietRevisions ==
  ASSUME IInv, TypeOK', Quiet
  PROVE  \A j \in Jobs : row'[j].revision >= row[j].revision
<1>1. \A j \in Jobs : row[j].revision \in Nat /\ row'[j].revision \in Nat
  BY DEF IInv, TypeOK, Row
<1>2. QED
  BY <1>1 DEF Quiet, RowKept, RowFenced, RowNew

\* ... and every step of the coordinator, its threads and time keeps it.
LEMMA NextIInv == IInv /\ [Next]_vars => IInv'
<1> SUFFICES ASSUME IInv, [Next]_vars PROVE IInv'
  OBVIOUS
<1>0. TypeOK'
  BY NextTypes DEF IInv
<1>1. ASSUME Quiet, used' = used PROVE IInv'
  BY <1>0, <1>1, QuietKeeps, QuietRevisions, GrantsKept DEF IInv
<1>2. CASE Client
  <2>1. ASSUME NEW w \in Workers, NEW g \in grants, NEW s \in Scopes,
               NEW late \in BOOLEAN, ResumeJob(w, g, s, late)
        PROVE  IInv'
    BY <1>0, <2>1, ResumeKeeps, QuietKeeps DEF IInv
  <2>2. ASSUME NEW w \in Workers, NEW j \in Jobs, NEW s \in Scopes, StartJob(w, j, s)
        PROVE  IInv'
    BY <1>1, <2>2, ClientQuiet DEF StartJob
  <2>3. ASSUME NEW w \in Workers, NEW j \in Jobs, RestartJob(w, j)
        PROVE  IInv'
    BY <1>1, <2>3, ClientQuiet DEF RestartJob
  <2>4. ASSUME NEW j \in Jobs, ConfirmResume(j) \/ CancelJob(j)
        PROVE  IInv'
    BY <1>1, <2>4, ClientQuiet DEF ConfirmResume, CancelJob
  <2>5. QED
    BY <1>2, <2>1, <2>2, <2>3, <2>4 DEF Client
<1>3. CASE RecoverStale
  BY <1>1, <1>3, TimeQuiet DEF RecoverStale
<1>4. ASSUME NEW j \in Jobs, LeaseExpires(j) PROVE IInv'
  BY <1>1, <1>4, TimeQuiet DEF LeaseExpires
<1>5. ASSUME NEW w \in Workers, Thread(w) PROVE IInv'
  <2>1. used' = used
    BY <1>5 DEF Thread, Claim, ClaimRefused, Spend, RequestStop, Beat, BeatLost,
                Return, CheckStatus, Measure, Publish, PublishRefused, Close,
                CloseRefused, ResultRejected, ShutdownInterrupt, Crash, Lost
  <2>2. CASE Claim(w)
    BY <1>0, <2>1, <2>2, ClaimKeeps, GrantsKept DEF IInv
  <2>3. CASE Publish(w)
    BY <1>0, <2>1, <2>3, PublishKeeps, GrantsKept DEF IInv
  <2>4. CASE Quiet
    BY <1>1, <2>1, <2>4
  <2>5. QED
    BY <1>5, <2>2, <2>3, <2>4, ThreadQuiet
<1>6. CASE UNCHANGED vars
  <2>1. Quiet /\ used' = used
    BY <1>6, SameRows, SameSpent DEF vars, Quiet, IInv
  <2>2. QED
    BY <1>1, <2>1
<1>7. QED
  BY <1>2, <1>3, <1>4, <1>5, <1>6 DEF Next

\* The conjunction of all parts is an invariant of the coordinator.
THEOREM InvariantHolds == Spec => []IInv
BY InitIInv, NextIInv, PTL DEF Spec

\* No UPDATE of the coordinator can be aborted by the CHECK constraints of
\* its table, for any number of jobs and bridge threads.
THEOREM SchemaHolds == Spec => []SchemaChecks
<1>1. IInv => SchemaChecks
  BY DEF IInv
<1>2. QED
  BY <1>1, InvariantHolds, PTL

\* At most one thread is ever accepted as the holder of a job's lease.
THEOREM HolderIsUnique == Spec => []SingleHolder
<1>1. IInv => SingleHolder
  BY DEF IInv, TokenInv, SingleHolder, Holds
<1>2. QED
  BY <1>1, InvariantHolds, PTL

\* Usage is recorded at most once per generation and never exceeds what the
\* job's sessions spent.
THEOREM UsageIsExact == Spec => []UsageExactlyOnce
<1>1. IInv => UsageExactlyOnce
  BY DEF IInv, RowInv, UsageExactlyOnce
<1>2. QED
  BY <1>1, InvariantHolds, PTL

\* A permission grant resumes a job at most once.
THEOREM GrantIsSpentOnce == Spec => []GrantUsedOnce
<1>1. IInv => GrantUsedOnce
  BY DEF IInv, GrantInv
<1>2. QED
  BY <1>1, InvariantHolds, PTL

\* A job thread that ends by itself leaves no job running under its lease.
THEOREM NoOrphan == Spec => []NoOrphanAfterExit
<1>1. IInv => NoOrphanAfterExit
  BY DEF IInv
<1>2. QED
  BY <1>1, InvariantHolds, PTL

\* A thread that lost its lease cannot hold it again after any step.
LEMMA LostLeaseStep ==
  ASSUME IInv, [Next]_vars, NEW w \in Workers, Leased(w), ~Holds(w), Leased(w)'
  PROVE  ~Holds(w)'
<1> DEFINE j == runner[w].job
<1>0. /\ TypeOK /\ TypeOK' /\ j \in Jobs /\ runner[w].generation \in Nat
      /\ row[j].generation \in Nat /\ row'[j].generation \in Nat
  <2>1. TypeOK /\ TypeOK'
    BY NextTypes DEF IInv
  <2>2. QED
    BY <2>1 DEF TypeOK, Runner, Row
<1>1. /\ runner[w].generation >= 1 /\ runner[w].generation < row[j].generation
      /\ row[j].state # "absent"
  BY <1>0 DEF IInv, LeaseInv, RowInv
<1>2. ASSUME Quiet PROVE ~Holds(w)'
  <2>1. runner'[w].job = j /\ runner'[w].generation = runner[w].generation
    BY <1>2 DEF Quiet, RunnerMoves, RunnerEnds, RunnerUnleased, Leased
  <2>2. row'[j].generation >= row[j].generation
    BY <1>0, <1>1, <1>2 DEF Quiet, RowKept, RowFenced, RowNew
  <2>3. QED
    BY <1>0, <1>1, <2>1, <2>2 DEF Holds
<1>3. ASSUME NEW v \in Workers, Claim(v) PROVE ~Holds(w)'
  <2>1. v # w /\ runner'[w] = runner[w]
    BY <1>0, <1>3, BecomesOne DEF Claim, Leased
  <2>2. row'[j] = row[j] \/ row'[j] = Claimed(row[j])
    BY <1>0, <1>3 DEF Claim, TypeOK
  <2>3. Claimed(row[j]).generation = row[j].generation + 1
    BY <1>0 DEF Claimed, TypeOK, Row
  <2>4. QED
    BY <1>0, <1>1, <2>1, <2>2, <2>3 DEF Holds
<1>4. ASSUME NEW v \in Workers, Publish(v) PROVE ~Holds(w)'
  <2>1. v # w
    BY <1>4 DEF Publish
  <2>2. runner'[w] = runner[w]
    BY <1>0, <1>4, <2>1 DEF Publish, Becomes, TypeOK
  <2>3. row'[j] = row[j] \/ row'[j] = Charged(row[j], runner[v].delta)
    BY <1>0, <1>4 DEF Publish, TypeOK
  <2>4. Charged(row[j], runner[v].delta).generation = row[j].generation
    BY <1>0 DEF Charged, TypeOK, Row
  <2>5. QED
    BY <1>0, <1>1, <2>2, <2>3, <2>4 DEF Holds
<1>5. ASSUME Client PROVE Quiet
  BY <1>0, <1>5, ClientQuiet, ResumeKeeps DEF Client
<1>6. ASSUME UNCHANGED vars PROVE Quiet
  BY <1>0, <1>6, SameRows, SameSpent DEF vars, Quiet
<1>7. QED
  BY <1>2, <1>3, <1>4, <1>5, <1>6, TimeQuiet, ThreadQuiet DEF Next

\* A lease that was lost (cancelled, swept, resumed or superseded) is never
\* valid again in the hands of the thread that has it.
THEOREM LostLeaseNeverReturns == Spec => LostLeaseStaysLost
<1>1. IInv /\ [Next]_vars
        => [\A w \in Workers : (Leased(w) /\ ~Holds(w)) => (Leased(w)' => ~Holds(w)')]_vars
  BY LostLeaseStep
<1>2. QED
  BY <1>1, InvariantHolds, PTL DEF Spec, LostLeaseStaysLost

\* No step changes the row of a cancelled or succeeded job.
LEMMA FinalStep ==
  ASSUME TypeOK, [Next]_vars, NEW j \in Jobs, row[j].state \in {"cancelled", "succeeded"}
  PROVE  row'[j] = row[j]
<1>0. row \in [Jobs -> Row] /\ \A w \in Workers : runner[w].job \in Jobs
  BY DEF TypeOK, Runner
<1>1. Recovered[j] = row[j]
  BY DEF Recovered
<1>2. CASE Client
  <2>1. ASSUME NEW w \in Workers, NEW g \in grants, NEW s \in Scopes,
               NEW late \in BOOLEAN, ResumeJob(w, g, s, late)
        PROVE  row'[j] = row[j]
    <3> DEFINE base == IF late THEN [Recovered EXCEPT ![g.job] = row[g.job]]
                               ELSE Recovered
    <3>1. base \in [Jobs -> Row] /\ g.job \in Jobs
      BY <1>0, RecoveredType DEF TypeOK, Grant
    <3>2. base[j] = row[j]
      BY <1>0, <1>1, <3>1, RecoveredType
    <3>3. base[g.job].state \in {"interrupted", "failed", "running"}
          /\ row' = [base EXCEPT ![g.job] = Resumed(base[g.job])]
      BY <2>1 DEF ResumeJob, ResumeGranted
    <3> HIDE DEF base
    <3>4. QED
      BY <3>1, <3>2, <3>3
  <2>2. ASSUME NEW w \in Workers, NEW k \in Jobs, NEW s \in Scopes, StartJob(w, k, s)
        PROVE  row'[j] = row[j]
    BY <1>0, <2>2 DEF StartJob
  <2>3. ASSUME NEW k \in Jobs, CancelJob(k)
        PROVE  row'[j] = row[j]
    BY <1>0, <2>3 DEF CancelJob, Outstanding
  <2>4. QED
    BY <1>2, <2>1, <2>2, <2>3 DEF Client, RestartJob, ConfirmResume
<1>3. CASE RecoverStale
  BY <1>1, <1>3 DEF RecoverStale
<1>4. ASSUME NEW k \in Jobs, LeaseExpires(k) PROVE row'[j] = row[j]
  BY <1>0, <1>4 DEF LeaseExpires
<1>5. ASSUME NEW w \in Workers, Thread(w) PROVE row'[j] = row[j]
  <2>1. CASE Claim(w)
    BY <1>0, <2>1 DEF Claim
  <2>2. CASE Beat(w)
    BY <1>0, <2>2 DEF Beat, Holds
  <2>3. CASE Publish(w)
    BY <1>0, <2>3 DEF Publish, Holds
  <2>4. CASE Close(w)
    BY <1>0, <2>4 DEF Close, Holds
  <2>5. CASE ShutdownInterrupt(w)
    BY <1>0, <2>5 DEF ShutdownInterrupt, Holds
  <2>6. CASE PublishRefused(w) \/ CloseRefused(w)
    BY <1>1, <2>6 DEF PublishRefused, CloseRefused, Lost
  <2>7. QED
    BY <1>5, <2>1, <2>2, <2>3, <2>4, <2>5, <2>6
       DEF Thread, ClaimRefused, Spend, RequestStop, BeatLost, Return,
           CheckStatus, Measure, ResultRejected, Crash
<1>6. CASE UNCHANGED vars
  BY <1>6 DEF vars
<1>7. QED
  BY <1>2, <1>3, <1>4, <1>5, <1>6 DEF Next

\* Nothing happens to a job after it was cancelled or succeeded.
THEOREM FinalIsFinal == Spec => FinalStatesAreFinal
<1>1. TypeOK /\ [Next]_vars
        => [\A j \in Jobs : row[j].state \in {"cancelled", "succeeded"}
                               => row'[j] = row[j]]_vars
  BY FinalStep
<1>2. QED
  BY <1>1, TypeCorrect, PTL DEF Spec, FinalStatesAreFinal

=============================================================================
