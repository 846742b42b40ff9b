------------------------- MODULE HostRequestsProofs -------------------------
(***************************************************************************)
(* Machine-checked proofs about HostRequests, for any sets of approvals,   *)
(* host actions and scopes and any number of requests.                     *)
(***************************************************************************)
EXTENDS HostRequests, FiniteSetTheorems, TLAPS

-----------------------------------------------------------------------------
(* What the records hold.                                                  *)

\* An approval that is listed is waited for.  What its record says is what the
\* client was told, and so is the verdict its thread has got.
AskInv(a) ==
  /\ ask[a].listed => ask[a].pc = "waiting"
  /\ ask[a].pc # "waiting" => ask[a].decision = "none"
  /\ ask[a].pc # "done" => ask[a].verdict = "none"
  /\ told[a] \in {{}, {"allow"}, {"deny"}}
  /\ told[a] = {"allow"} <=> "allow" \in {ask[a].decision, ask[a].verdict}
  /\ told[a] = {"deny"} => "deny" \in {ask[a].decision, ask[a].verdict}

\* A host action that is listed is waited for.  An answer stays in the record
\* until its thread takes it; what is withdrawn was not answered.
ActionInv(h) ==
  /\ action[h].listed => action[h].pc = "waiting"
  /\ action[h].pc # "waiting" => action[h].status = "none"
  /\ action[h].pc \in {"new", "register"} => told[h] = {} /\ ~action[h].withdrawn
  /\ action[h].pc = "waiting" =>
       told[h] = IF action[h].status \in {"completed", "failed"} THEN {action[h].status}
                 ELSE {}
  /\ action[h].withdrawn => told[h] = {}
  /\ action[h].pc = "waiting" /\ action[h].withdrawn
       => action[h].status \in {"expired", "cancelled"}
  /\ told[h] \in {{}, {"completed"}, {"failed"}}

HostInv ==
  /\ TypeOK
  /\ \A a \in Asks : AskInv(a)
  /\ \A h \in Actions : ActionInv(h)

\* The records of requests that have not begun.
LEMMA NewRecords == NewAsk \in Ask /\ NewAction \in Action
BY DEF NewAsk, NewAction, Ask, Action

\* What a thread that goes on keeps of its approval.
LEMMA DoneAsk ==
  ASSUME NEW verdict \in {"none", "allow", "deny"}
  PROVE  /\ Done(verdict) \in Ask
         /\ Done(verdict).pc = "done" /\ Done(verdict).listed = FALSE
         /\ Done(verdict).decision = "none" /\ Done(verdict).verdict = verdict
BY DEF Done, NewAsk, Ask

\* Denying what is open, and emptying the registry, keep types and agreement.
LEMMA DenyKeeps ==
  ASSUME HostInv, NEW A, UNCHANGED told,
         ask' = Deny(A) \/ ask' = Unlisted(Deny(A))
  PROVE  /\ ask' \in [Asks -> Ask]
         /\ \A a \in Asks : AskInv(a)'
<1>1. ask \in [Asks -> Ask]
  BY DEF HostInv, TypeOK
<1>2. ASSUME NEW a \in Asks
      PROVE  ask'[a] \in Ask /\ AskInv(a)'
  <2>1. ask[a] \in Ask /\ AskInv(a)
    BY <1>1 DEF HostInv
  <2> DEFINE denied == IF a \in A /\ OpenAsk(a) THEN [ask[a] EXCEPT !.decision = "deny"]
                       ELSE ask[a]
  <2>2. denied \in Ask /\ (denied.listed => denied.pc = "waiting")
    BY <2>1 DEF Ask, AskInv
  <2>3. ask'[a] = denied \/ ask'[a] = [denied EXCEPT !.listed = FALSE]
    BY DEF Deny, Unlisted
  <2>4. CASE a \in A /\ OpenAsk(a)
    <3>1. /\ denied.decision = "deny" /\ denied.pc = "waiting" /\ denied.verdict = "none"
          /\ told[a] = {}
      BY <2>1, <2>4 DEF Ask, AskInv, OpenAsk
    <3> HIDE DEF denied
    <3>2. QED
      BY <2>2, <2>3, <3>1 DEF Ask, AskInv
  <2>5. CASE ~(a \in A /\ OpenAsk(a))
    <3>1. denied = ask[a]
      BY <2>5
    <3> HIDE DEF denied
    <3>2. QED
      BY <2>1, <2>3, <3>1 DEF Ask, AskInv
  <2>6. QED
    BY <2>4, <2>5
<1>3. QED
  BY <1>1, <1>2 DEF Deny, Unlisted

\* Withdrawing what was not answered keeps types and agreement.
LEMMA WithdrawKeeps ==
  ASSUME HostInv, NEW H, NEW status \in {"expired", "cancelled"}, UNCHANGED told,
         action' = Withdraw(H, status)
  PROVE  /\ action' \in [Actions -> Action]
         /\ \A h \in Actions : ActionInv(h)'
<1>1. action \in [Actions -> Action]
  BY DEF HostInv, TypeOK
<1>2. ASSUME NEW h \in Actions
      PROVE  action'[h] \in Action /\ ActionInv(h)'
  <2>1. action[h] \in Action /\ ActionInv(h)
    BY <1>1 DEF HostInv
  <2>2. CASE h \in H /\ action[h].listed /\ action[h].status = "none"
    <3>1. action'[h] = [action[h] EXCEPT !.status = status, !.withdrawn = TRUE]
      BY <2>2 DEF Withdraw
    <3>2. QED
      BY <2>1, <2>2, <3>1 DEF Action, ActionInv
  <2>3. CASE ~(h \in H /\ action[h].listed /\ action[h].status = "none")
    <3>1. action'[h] = action[h]
      BY <2>3 DEF Withdraw
    <3>2. QED
      BY <2>1, <3>1 DEF ActionInv
  <2>4. QED
    BY <2>2, <2>3
<1>3. QED
  BY <1>1, <1>2 DEF Withdraw

\* A step that leaves the records of approvals alone.
LEMMA UntouchedAsks ==
  ASSUME HostInv, UNCHANGED ask, \A a \in Asks : told'[a] = told[a]
  PROVE  ask' \in [Asks -> Ask] /\ \A a \in Asks : AskInv(a)'
BY DEF HostInv, TypeOK, AskInv

\* The same for host actions.
LEMMA UntouchedActions ==
  ASSUME HostInv, UNCHANGED action, \A h \in Actions : told'[h] = told[h]
  PROVE  action' \in [Actions -> Action] /\ \A h \in Actions : ActionInv(h)'
BY DEF HostInv, TypeOK, ActionInv

\* Only the record of a changes, and what the client was told of it.
LEMMA OneAsk ==
  ASSUME HostInv, NEW a \in Asks, NEW r \in Ask, ask' = [ask EXCEPT ![a] = r],
         \A b \in Asks \ {a} : told'[b] = told[b], AskInv(a)'
  PROVE  ask' \in [Asks -> Ask] /\ \A b \in Asks : AskInv(b)'
<1>1. ask \in [Asks -> Ask]
  BY DEF HostInv, TypeOK
<1>2. ASSUME NEW b \in Asks, b # a
      PROVE  AskInv(b)'
  BY <1>1, <1>2 DEF HostInv, AskInv
<1>3. QED
  BY <1>1, <1>2

\* Only the record of h changes, and what the client was told of it.
LEMMA OneAction ==
  ASSUME HostInv, NEW h \in Actions, NEW r \in Action, action' = [action EXCEPT ![h] = r],
         \A i \in Actions \ {h} : told'[i] = told[i], ActionInv(h)'
  PROVE  action' \in [Actions -> Action] /\ \A i \in Actions : ActionInv(i)'
<1>1. action \in [Actions -> Action]
  BY DEF HostInv, TypeOK
<1>2. ASSUME NEW i \in Actions, i # h
      PROVE  ActionInv(i)'
  BY <1>1, <1>2 DEF HostInv, ActionInv
<1>3. QED
  BY <1>1, <1>2

-----------------------------------------------------------------------------
(* The threads of the job.                                                 *)

\* A thread that proposes, registers, gives up or concludes agrees with the
\* client.
LEMMA AskThread ==
  ASSUME HostInv, NEW a \in Asks, Propose(a) \/ Late(a) \/ AskStep(a), UNCHANGED asked
  PROVE  HostInv'
<1>1. ask \in [Asks -> Ask] /\ ask[a] \in Ask /\ AskInv(a)
  BY DEF HostInv, TypeOK
<1>2. UNCHANGED <<grants, action, told, job, session, main>>
  BY DEF AskStep, Propose, Late, Register, TimeOut, Conclude
<1>3. ask' \in [Asks -> Ask] /\ \A b \in Asks : AskInv(b)'
  <2>1. CASE \E A : ask' = Deny(A)
    BY <1>2, <2>1, DenyKeeps
  <2>2. ASSUME NEW r \in Ask, ask' = [ask EXCEPT ![a] = r], AskInv(a)'
        PROVE  ask' \in [Asks -> Ask] /\ \A b \in Asks : AskInv(b)'
    BY <1>2, <2>2, OneAsk
  <2>3. ASSUME NEW verdict \in {"none", "allow", "deny"},
               ask' = [ask EXCEPT ![a] = Done(verdict)],
               told[a] = {"allow"} <=> verdict = "allow",
               told[a] = {"deny"} => verdict = "deny"
        PROVE  ask' \in [Asks -> Ask] /\ \A b \in Asks : AskInv(b)'
    <3>1. ask'[a] = Done(verdict)
      BY <1>1, <2>3
    <3>2. AskInv(a)'
      BY <1>1, <1>2, <2>3, <3>1, DoneAsk DEF AskInv
    <3>3. QED
      BY <2>2, <2>3, <3>2, DoneAsk
  <2>4. CASE Propose(a)
    <3>1. told[a] = {}
      BY <1>1, <2>4 DEF Propose, AskInv
    <3>2. CASE ask' = [ask EXCEPT ![a] = Done("none")]
      BY <2>3, <3>1, <3>2
    <3>3. ASSUME NEW scope \in Scopes \cup {None},
                 ask' = [ask EXCEPT ![a].pc = "register", ![a].scope = scope]
          PROVE  ask' \in [Asks -> Ask] /\ \A b \in Asks : AskInv(b)'
      <4> DEFINE r == [ask[a] EXCEPT !.pc = "register", !.scope = scope]
      <4>1. r \in Ask /\ ask' = [ask EXCEPT ![a] = r]
        BY <1>1, <3>3 DEF Ask
      <4>2. AskInv(a)'
        BY <1>1, <1>2, <2>4, <3>3 DEF Propose, AskInv, Ask
      <4> HIDE DEF r
      <4>3. QED
        BY <2>2, <4>1, <4>2
    <3>4. QED
      BY <2>4, <3>2, <3>3 DEF Propose
  <2>5. CASE Late(a)
    <3> DEFINE r == [ask[a] EXCEPT !.late = TRUE]
    <3>1. r \in Ask /\ ask' = [ask EXCEPT ![a] = r]
      BY <1>1, <2>5 DEF Late, Ask
    <3>2. AskInv(a)'
      BY <1>1, <1>2, <2>5 DEF Late, AskInv, Ask
    <3> HIDE DEF r
    <3>3. QED
      BY <2>2, <3>1, <3>2
  <2>6. CASE Register(a)
    <3>1. told[a] = {}
      BY <1>1, <2>6 DEF Register, AskInv
    <3>2. CASE ask' = [ask EXCEPT ![a] = Done("none")]
      BY <2>3, <3>1, <3>2
    <3>3. CASE ask' = [ask EXCEPT ![a] = [@ EXCEPT !.pc = "waiting", !.listed = TRUE]]
      <4> DEFINE r == [ask[a] EXCEPT !.pc = "waiting", !.listed = TRUE]
      <4>1. r \in Ask /\ ask' = [ask EXCEPT ![a] = r]
        BY <1>1, <3>3 DEF Ask
      <4>2. /\ r.pc = "waiting" /\ r.decision = ask[a].decision
            /\ r.verdict = ask[a].verdict
        BY <1>1 DEF Ask
      <4>3. ask[a].decision = "none" /\ ask[a].verdict = "none"
        BY <1>1, <2>6 DEF Register, AskInv
      <4> HIDE DEF r
      <4>4. ask'[a] = r
        BY <1>1, <4>1
      <4>5. AskInv(a)'
        BY <1>2, <3>1, <4>2, <4>3, <4>4 DEF AskInv
      <4>6. QED
        BY <2>2, <4>1, <4>5
    <3>4. QED
      BY <2>6, <3>2, <3>3 DEF Register
  <2>7. CASE TimeOut(a)
    BY <2>1, <2>7 DEF TimeOut
  <2>8. CASE Conclude(a)
    <3>1. /\ ask[a].decision \in {"allow", "deny"}
          /\ ask' = [ask EXCEPT ![a] = Done(ask[a].decision)]
      BY <1>1, <2>8 DEF Conclude, Ask
    <3>2. /\ told[a] = {"allow"} <=> ask[a].decision = "allow"
          /\ told[a] = {"deny"} => ask[a].decision = "deny"
      BY <1>1, <2>8 DEF Conclude, AskInv
    <3>3. QED
      BY <2>3, <3>1, <3>2
  <2>9. QED
    BY <2>4, <2>5, <2>6, <2>7, <2>8 DEF AskStep
<1>4. action' \in [Actions -> Action] /\ \A h \in Actions : ActionInv(h)'
  BY <1>2, UntouchedActions
<1>5. QED
  BY <1>2, <1>3, <1>4 DEF HostInv, TypeOK

\* A thread that offers, registers, polls or gives up a host action never goes
\* on with what it withdraws.
LEMMA ActionThread ==
  ASSUME HostInv, NEW h \in Actions, Offer(h) \/ LateAction(h) \/ ActionStep(h),
         UNCHANGED asked
  PROVE  HostInv'
<1>1. action \in [Actions -> Action] /\ action[h] \in Action /\ ActionInv(h)
  BY DEF HostInv, TypeOK
<1>2. UNCHANGED <<ask, grants, told, job, session, main>>
  BY DEF ActionStep, Offer, LateAction, RegisterAction, PollAction
<1>3. action' \in [Actions -> Action] /\ \A i \in Actions : ActionInv(i)'
  <2>1. ASSUME NEW r \in Action, action' = [action EXCEPT ![h] = r], ActionInv(h)'
        PROVE  action' \in [Actions -> Action] /\ \A i \in Actions : ActionInv(i)'
    BY <1>2, <2>1, OneAction
  <2>2. ASSUME NEW r \in {[action[h] EXCEPT !.pc = "register"],
                          [action[h] EXCEPT !.pc = "waiting", !.listed = TRUE],
                          [action[h] EXCEPT !.late = TRUE]}
        PROVE  r \in Action
    BY <1>1, <2>2 DEF Action
  <2>3. CASE Offer(h)
    <3>1. action' = [action EXCEPT ![h] = [action[h] EXCEPT !.pc = "register"]]
      BY <2>3 DEF Offer
    <3>2. ActionInv(h)'
      BY <1>1, <1>2, <2>3 DEF Offer, ActionInv, Action
    <3>3. QED
      BY <2>1, <2>2, <3>1, <3>2
  <2>4. CASE RegisterAction(h)
    <3>1. action' = [action EXCEPT ![h] = [action[h] EXCEPT !.pc = "waiting", !.listed = TRUE]]
      BY <2>4 DEF RegisterAction
    <3>2. ActionInv(h)'
      BY <1>1, <1>2, <2>4 DEF RegisterAction, ActionInv, Action
    <3>3. QED
      BY <2>1, <2>2, <3>1, <3>2
  <2>5. CASE LateAction(h)
    <3>1. action' = [action EXCEPT ![h] = [action[h] EXCEPT !.late = TRUE]]
      BY <2>5 DEF LateAction
    <3>2. ActionInv(h)'
      BY <1>1, <1>2, <2>5 DEF LateAction, ActionInv, Action
    <3>3. QED
      BY <2>1, <2>2, <3>1, <3>2
  <2>6. CASE PollAction(h)
    <3>1. PICK w \in BOOLEAN :
            /\ action' = [action EXCEPT ![h] = [NewAction EXCEPT !.pc = "done", !.withdrawn = w]]
            /\ w => action[h].withdrawn \/ action[h].status = "none"
      <4> DEFINE status == IF action[h].status # "none" THEN action[h].status
                           ELSE IF job = "cancelling" THEN "cancelled"
                           ELSE IF action[h].late THEN "expired" ELSE "none"
                 w == Withdraw({h}, status)[h].withdrawn
      <4>1. action' = [action EXCEPT ![h] = [NewAction EXCEPT !.pc = "done", !.withdrawn = w]]
        BY <2>6 DEF PollAction
      <4>2. \/ Withdraw({h}, status)[h] = action[h]
            \/ /\ action[h].status = "none"
               /\ Withdraw({h}, status)[h]
                    = [action[h] EXCEPT !.status = status, !.withdrawn = TRUE]
        BY DEF Withdraw
      <4> HIDE DEF status
      <4>3. w \in BOOLEAN /\ (w => action[h].withdrawn \/ action[h].status = "none")
        BY <1>1, <4>2 DEF Action
      <4> HIDE DEF w
      <4>4. QED
        BY <4>1, <4>3
    <3> DEFINE r == [NewAction EXCEPT !.pc = "done", !.withdrawn = w]
    <3>2. /\ r \in Action /\ r.pc = "done" /\ r.withdrawn = w /\ r.status = "none"
          /\ r.listed = FALSE
      BY NewRecords DEF Action, NewAction
    <3>3. action'[h] = r
      BY <1>1, <3>1
    <3> HIDE DEF r
    <3>4. w => told[h] = {}
      BY <1>1, <2>6, <3>1 DEF PollAction, ActionInv
    <3>5. ActionInv(h)'
      BY <1>1, <1>2, <3>2, <3>3, <3>4 DEF ActionInv
    <3>6. action' = [action EXCEPT ![h] = r]
      BY <3>1 DEF r
    <3>7. QED
      BY <2>1, <3>2, <3>5, <3>6
  <2>7. QED
    BY <2>3, <2>4, <2>5, <2>6 DEF ActionStep
<1>4. ask' \in [Asks -> Ask] /\ \A a \in Asks : AskInv(a)'
  BY <1>2, UntouchedAsks
<1>5. QED
  BY <1>2, <1>3, <1>4 DEF HostInv, TypeOK

-----------------------------------------------------------------------------
(* The client.                                                             *)

\* Neither approvals nor host actions change, nor what the client was told.
LEMMA RecordsStay ==
  ASSUME HostInv, UNCHANGED <<ask, action, told>>, asked' \in Nat,
         grants' \subseteq Scopes,
         job' \in {"none", "active", "cancelling"},
         session' \in {"open", "closing", "closed"},
         main' \in {"idle", "cancel", "actions", "clear", "close", "release"}
  PROVE  HostInv'
<1>1. ask' \in [Asks -> Ask] /\ \A a \in Asks : AskInv(a)'
  BY UntouchedAsks
<1>2. action' \in [Actions -> Action] /\ \A h \in Actions : ActionInv(h)'
  BY UntouchedActions
<1>3. QED
  BY <1>1, <1>2 DEF HostInv, TypeOK

\* An answer that is applied is the first one, and its record holds it until
\* the thread takes it.
LEMMA AnswerKeeps ==
  ASSUME HostInv, NEW a \in Asks, NEW allow \in BOOLEAN, NEW forSession \in BOOLEAN,
         Respond(a, allow, forSession), asked' \in Nat
  PROVE  HostInv'
<1>1. /\ ask \in [Asks -> Ask] /\ ask[a] \in Ask /\ AskInv(a)
      /\ told \in [Asks \cup Actions -> SUBSET {"allow", "deny", "completed", "failed"}]
  BY DEF HostInv, TypeOK
<1>2. UNCHANGED <<action, job, session, main>>
  BY DEF Respond
<1>3. CASE UNCHANGED <<ask, grants, told>>
  BY <1>2, <1>3, RecordsStay DEF HostInv, TypeOK
<1>4. CASE ask' = Deny({a}) /\ UNCHANGED <<grants, told>>
  <2>1. ask' \in [Asks -> Ask] /\ \A b \in Asks : AskInv(b)'
    BY <1>4, DenyKeeps
  <2>2. action' \in [Actions -> Action] /\ \A h \in Actions : ActionInv(h)'
    BY <1>2, <1>4, UntouchedActions
  <2>3. QED
    BY <1>2, <1>4, <2>1, <2>2 DEF HostInv, TypeOK
<1>5. ASSUME OpenAsk(a), NEW d \in {"allow", "deny"},
             ask' = [ask EXCEPT ![a].decision = d],
             grants' = IF allow /\ forSession /\ ask[a].scope # None
                       THEN grants \cup {ask[a].scope} ELSE grants,
             told' = [told EXCEPT ![a] = @ \cup {d}]
      PROVE  HostInv'
  <2>1. /\ ask[a].decision = "none" /\ ask[a].pc = "waiting" /\ ask[a].verdict = "none"
        /\ told[a] = {}
    BY <1>1, <1>5 DEF OpenAsk, AskInv
  <2> DEFINE r == [ask[a] EXCEPT !.decision = d]
  <2>2. r \in Ask /\ ask' = [ask EXCEPT ![a] = r]
    BY <1>1, <1>5 DEF Ask
  <2>3. r.pc = "waiting" /\ r.decision = d /\ r.verdict = "none"
    BY <1>1, <2>1 DEF Ask
  <2> HIDE DEF r
  <2>4. ask'[a] = r
    BY <1>1, <2>2
  <2>5. /\ told' \in [Asks \cup Actions -> SUBSET {"allow", "deny", "completed", "failed"}]
        /\ told'[a] = {d}
        /\ \A x \in (Asks \cup Actions) \ {a} : told'[x] = told[x]
    BY <1>1, <1>5, <2>1
  <2>6. AskInv(a)'
    BY <2>3, <2>4, <2>5 DEF AskInv
  <2>7. ask' \in [Asks -> Ask] /\ \A b \in Asks : AskInv(b)'
    BY <2>2, <2>5, <2>6, OneAsk
  <2>8. action' \in [Actions -> Action] /\ \A h \in Actions : ActionInv(h)'
    BY <1>2, <2>5, UntouchedActions, HostAssumption
  <2>9. grants' \subseteq Scopes
    BY <1>1, <1>5 DEF HostInv, TypeOK, Ask
  <2>10. QED
    BY <1>2, <2>5, <2>7, <2>8, <2>9 DEF HostInv, TypeOK
<1>6. QED
  BY <1>3, <1>4, <1>5 DEF Respond, Answer

\* A result that is applied is the first one, of an action nobody withdrew.
LEMMA ResultKeeps ==
  ASSUME HostInv, NEW h \in Actions, NEW status \in {"completed", "failed"},
         RespondAction(h, status), asked' \in Nat
  PROVE  HostInv'
<1>1. /\ action \in [Actions -> Action] /\ action[h] \in Action /\ ActionInv(h)
      /\ told \in [Asks \cup Actions -> SUBSET {"allow", "deny", "completed", "failed"}]
  BY DEF HostInv, TypeOK
<1>2. UNCHANGED <<ask, grants, job, session, main>>
  BY DEF RespondAction
<1>3. CASE UNCHANGED <<action, told>>
  BY <1>2, <1>3, RecordsStay DEF HostInv, TypeOK
<1>4. CASE action' = Withdraw({h}, "expired") /\ UNCHANGED told
  <2>1. action' \in [Actions -> Action] /\ \A i \in Actions : ActionInv(i)'
    BY <1>4, WithdrawKeeps
  <2>2. ask' \in [Asks -> Ask] /\ \A a \in Asks : AskInv(a)'
    BY <1>2, <1>4, UntouchedAsks
  <2>3. QED
    BY <1>2, <1>4, <2>1, <2>2 DEF HostInv, TypeOK
<1>5. ASSUME action[h].listed, action[h].status = "none",
             action' = [action EXCEPT ![h].status = status],
             told' = [told EXCEPT ![h] = @ \cup {status}]
      PROVE  HostInv'
  <2>1. action[h].pc = "waiting" /\ told[h] = {} /\ action[h].withdrawn = FALSE
    BY <1>1, <1>5 DEF ActionInv, Action
  <2> DEFINE r == [action[h] EXCEPT !.status = status]
  <2>2. r \in Action /\ action' = [action EXCEPT ![h] = r]
    BY <1>1, <1>5 DEF Action
  <2>3. r.pc = "waiting" /\ r.status = status /\ r.withdrawn = FALSE
    BY <1>1, <2>1 DEF Action
  <2> HIDE DEF r
  <2>4. action'[h] = r
    BY <1>1, <2>2
  <2>5. /\ told' \in [Asks \cup Actions -> SUBSET {"allow", "deny", "completed", "failed"}]
        /\ told'[h] = {status}
        /\ \A x \in (Asks \cup Actions) \ {h} : told'[x] = told[x]
    BY <1>1, <1>5, <2>1
  <2>6. ActionInv(h)'
    BY <2>3, <2>4, <2>5 DEF ActionInv
  <2>7. action' \in [Actions -> Action] /\ \A i \in Actions : ActionInv(i)'
    BY <2>2, <2>5, <2>6, OneAction
  <2>8. ask' \in [Asks -> Ask] /\ \A a \in Asks : AskInv(a)'
    BY <1>2, <2>5, UntouchedAsks, HostAssumption
  <2>9. QED
    BY <1>2, <2>5, <2>7, <2>8 DEF HostInv, TypeOK
<1>6. QED
  BY <1>3, <1>4, <1>5 DEF RespondAction

\* Clearing denies and withdraws whatever is still open.
LEMMA ClearKeeps ==
  ASSUME HostInv, ClearAll, UNCHANGED told
  PROVE  /\ ask' \in [Asks -> Ask] /\ \A a \in Asks : AskInv(a)'
         /\ action' \in [Actions -> Action] /\ \A h \in Actions : ActionInv(h)'
         /\ grants' \subseteq Scopes
BY DenyKeeps, WithdrawKeeps DEF ClearAll

\* What the request thread has left to do after a request.
LEMMA MainKeeps ==
  ASSUME HostInv, MainStep, UNCHANGED asked
  PROVE  HostInv'
<1>1. CASE CancelAsks
  <2>1. ask' \in [Asks -> Ask] /\ \A a \in Asks : AskInv(a)'
    BY <1>1, DenyKeeps DEF CancelAsks
  <2>2. action' \in [Actions -> Action] /\ \A h \in Actions : ActionInv(h)'
    BY <1>1, UntouchedActions DEF CancelAsks
  <2>3. QED
    BY <1>1, <2>1, <2>2 DEF CancelAsks, HostInv, TypeOK
<1>2. CASE CancelActions
  <2>1. action' \in [Actions -> Action] /\ \A h \in Actions : ActionInv(h)'
    BY <1>2, WithdrawKeeps, UntouchedActions DEF CancelActions
  <2>2. ask' \in [Asks -> Ask] /\ \A a \in Asks : AskInv(a)'
    BY <1>2, UntouchedAsks DEF CancelActions
  <2>3. QED
    BY <1>2, <2>1, <2>2 DEF CancelActions, HostInv, TypeOK
<1>3. CASE Clear
  <2>1. UNCHANGED <<told, job, session>> /\ main' = "idle" /\ ClearAll
    BY <1>3 DEF Clear
  <2>2. QED
    BY <2>1, ClearKeeps DEF HostInv, TypeOK
<1>4. CASE CloseClear
  <2>1. UNCHANGED <<told, job, session>> /\ main' = "release"
    BY <1>4 DEF CloseClear
  <2>2. CASE UNCHANGED <<ask, grants, action>>
    BY <2>1, <2>2, RecordsStay DEF HostInv, TypeOK
  <2>3. CASE ClearAll
    BY <2>1, <2>3, ClearKeeps DEF HostInv, TypeOK
  <2>4. QED
    BY <1>4, <2>2, <2>3 DEF CloseClear
<1>5. CASE CloseEnd
  BY <1>5, RecordsStay DEF CloseEnd, HostInv, TypeOK
<1>6. QED
  BY <1>1, <1>2, <1>3, <1>4, <1>5 DEF MainStep

\* Every request of the client.
LEMMA RequestKeeps ==
  ASSUME HostInv, Request, asked' \in Nat
  PROVE  HostInv'
<1>1. ASSUME NEW scope \in Scopes, Revoke(scope)
      PROVE  HostInv'
  BY <1>1, RecordsStay DEF Revoke, HostInv, TypeOK
<1>2. ASSUME NEW closing \in BOOLEAN, Cancel(closing)
      PROVE  HostInv'
  BY <1>2, RecordsStay DEF Cancel, HostInv, TypeOK
<1>3. CASE ClearCheck
  BY <1>3, RecordsStay DEF ClearCheck, HostInv, TypeOK
<1>4. CASE CloseCheck
  BY <1>4, RecordsStay DEF CloseCheck, HostInv, TypeOK
<1>5. ASSUME NEW launch \in {{}} \cup {{scope} : scope \in Scopes}, StartJob(launch)
      PROVE  HostInv'
  BY <1>5, RecordsStay DEF StartJob, HostInv, TypeOK
<1>6. QED
  BY <1>1, <1>2, <1>3, <1>4, <1>5, AnswerKeeps, ResultKeeps DEF Request

-----------------------------------------------------------------------------
(* The theorems.                                                           *)

\* Nothing was asked of the client yet.
LEMMA HostInvInit ==
  ASSUME Init
  PROVE  HostInv
<1>1. ask \in [Asks -> Ask] /\ action \in [Actions -> Action]
  BY NewRecords DEF Init
<1>2. ASSUME NEW a \in Asks
      PROVE  AskInv(a)
  BY DEF Init, AskInv, NewAsk
<1>3. ASSUME NEW h \in Actions
      PROVE  ActionInv(h)
  BY DEF Init, ActionInv, NewAction
<1>4. QED
  BY <1>1, <1>2, <1>3 DEF Init, HostInv, TypeOK

\* Records and answers agree after every step.
LEMMA HostInvStep ==
  ASSUME HostInv, [Next]_vars
  PROVE  HostInv'
<1>1. asked \in Nat
  BY DEF HostInv, TypeOK
<1>2. CASE asked' = asked + 1 /\ Request
  BY <1>1, <1>2, RequestKeeps
<1>3. CASE UNCHANGED asked /\ Internal
  <2>1. CASE EndJob
    BY <1>1, <1>3, <2>1, RecordsStay DEF EndJob, HostInv, TypeOK
  <2>2. CASE CloseAfterJob
    <3>1. /\ ClearAll /\ session' = "closed" /\ UNCHANGED <<told, job, main>>
      BY <2>2 DEF CloseAfterJob
    <3>2. QED
      BY <1>3, <3>1, ClearKeeps DEF HostInv, TypeOK
  <2>3. QED
    BY <1>3, <2>1, <2>2, AskThread, ActionThread, MainKeeps DEF Internal
<1>4. CASE UNCHANGED vars
  BY <1>4, RecordsStay DEF vars, HostInv, TypeOK
<1>5. QED
  BY <1>2, <1>3, <1>4 DEF Next

\* Records and answers agree in every state.
LEMMA HostInvHolds == Spec => []HostInv
<1>1. Init => HostInv
  BY HostInvInit
<1>2. HostInv /\ [Next]_vars => HostInv'
  BY HostInvStep
<1>3. QED
  BY <1>1, <1>2, PTL DEF Spec

\* Approvals, host actions, grants and answers have their types, however many
\* requests race for them.
THEOREM TypeCorrect == Spec => []TypeOK
<1>1. HostInv => TypeOK
  BY DEF HostInv
<1>2. QED
  BY <1>1, HostInvHolds, PTL

\* A thread acts on an approval exactly if the client was told that its
\* permission was applied, whatever timeout, cancellation or clear raced it.
THEOREM ThreadsObeyTheClient == Spec => []AgentObeysClient
<1>1. HostInv => AgentObeysClient
  <2>1. ASSUME HostInv, NEW a \in Asks, ask[a].verdict # "none"
        PROVE  ask[a].verdict = "allow" <=> told[a] = {"allow"}
    BY <2>1 DEF HostInv, AskInv
  <2>2. QED
    BY <2>1 DEF AgentObeysClient
<1>2. QED
  BY <1>1, HostInvHolds, PTL

\* At most one answer to an approval or a host action is applied.
THEOREM AnswersApplyOnce == Spec => []OneAnswerApplies
<1>1. HostInv => OneAnswerApplies
  <2>1. ASSUME HostInv, NEW x \in Asks \cup Actions
        PROVE  Cardinality(told[x]) <= 1
    <3>1. told[x] = {} \/ \E answer : told[x] = {answer}
      BY <2>1 DEF HostInv, AskInv, ActionInv
    <3>2. CASE told[x] = {}
      BY <3>2, FS_EmptySet
    <3>3. ASSUME NEW answer, told[x] = {answer}
          PROVE  Cardinality(told[x]) <= 1
      BY <3>3, FS_Singleton
    <3>4. QED
      BY <3>1, <3>2, <3>3
  <2>2. QED
    BY <2>1 DEF OneAnswerApplies
<1>2. QED
  BY <1>1, HostInvHolds, PTL

\* A host action whose result was applied is not withdrawn from the host.
THEOREM WithdrawnIsUnanswered == Spec => []AppliedOrWithdrawn
<1>1. HostInv => AppliedOrWithdrawn
  BY DEF HostInv, ActionInv, AppliedOrWithdrawn
<1>2. QED
  BY <1>1, HostInvHolds, PTL

\* A grant appears only when an open approval is allowed or a job is launched
\* with it: neither a timeout nor a waiter that returns late brings one back.
THEOREM GrantsNeedAnAnswer == Spec => NoGrantReturns
<1> DEFINE Justified ==
      \A s \in grants' \ grants :
        \/ \E a \in Asks : ask[a].scope = s /\ OpenAsk(a) /\ ask'[a].decision = "allow"
        \/ job = "none" /\ job' = "active"
<1>1. ASSUME TypeOK, [Next]_vars
      PROVE  Justified \/ UNCHANGED vars
  <2>1. CASE grants' \subseteq grants
    BY <2>1
  <2>2. ASSUME NEW a \in Asks, NEW allow \in BOOLEAN, NEW forSession \in BOOLEAN,
               Respond(a, allow, forSession)
        PROVE  Justified
    <3>1. CASE grants' = grants
      BY <3>1
    <3>2. CASE grants' # grants
      <4>1. /\ OpenAsk(a) /\ grants' = grants \cup {ask[a].scope}
            /\ ask' = [ask EXCEPT ![a].decision = "allow"]
        BY <2>2, <3>2 DEF Respond, Answer
      <4>2. ask'[a].decision = "allow"
        BY <1>1, <4>1 DEF TypeOK, Ask
      <4>3. QED
        BY <4>1, <4>2
    <3>3. QED
      BY <3>1, <3>2
  <2>3. ASSUME NEW launch, StartJob(launch)
        PROVE  Justified
    BY <2>3 DEF StartJob
  <2>4. CASE Request
    <3>1. \/ grants' \subseteq grants
          \/ \E a \in Asks, allow \in BOOLEAN, forSession \in BOOLEAN :
               Respond(a, allow, forSession)
          \/ \E launch : StartJob(launch)
      BY <2>4 DEF Request, RespondAction, Revoke, Cancel, ClearCheck, CloseCheck
    <3>2. QED
      BY <2>1, <2>2, <2>3, <3>1
  <2>5. CASE Internal
    <3>1. grants' \subseteq grants
      BY <2>5 DEF Internal, Propose, Late, AskStep, Register, TimeOut, Conclude, Offer,
                  LateAction, ActionStep, RegisterAction, PollAction, EndJob, MainStep,
                  CancelAsks, CancelActions, Clear, CloseClear, CloseEnd, CloseAfterJob,
                  ClearAll
    <3>2. QED
      BY <2>1, <3>1
  <2> HIDE DEF Justified
  <2>6. QED
    BY <1>1, <2>4, <2>5 DEF Next
<1>2. TypeOK /\ [Next]_vars
        => [\A s \in grants' \ grants :
              \/ \E a \in Asks : /\ ask[a].scope = s /\ OpenAsk(a)
                                 /\ ask'[a].decision = "allow"
              \/ job = "none" /\ job' = "active"]_vars
  BY <1>1
<1> HIDE DEF Justified
<1>3. QED
  BY <1>2, TypeCorrect, PTL DEF Spec, NoGrantReturns
=============================================================================
