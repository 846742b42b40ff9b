-------------------------- MODULE PromptQueueProofs --------------------------
(***************************************************************************)
(* Machine-checked proofs about PromptQueue, for any sets of bridges,      *)
(* sessions and keys, any requests and any value of the bounds.            *)
(***************************************************************************)
EXTENDS PromptQueue, WellFoundedInduction, TLAPS

-----------------------------------------------------------------------------
(* The operators of the model.                                             *)

\* The least of some numbers is one of them and not above any of them: what
\* ORDER BY sequence LIMIT 1 returns in claim_next.
LEMMA MinProperties ==
  ASSUME NEW S \in SUBSET Nat, S # {}
  PROVE  /\ Min(S) \in S
         /\ \A n \in S : Min(S) <= n
<1> DEFINE Below == {ss \in Nat \X Nat : ss[1] < ss[2]}
<1>1. IsWellFoundedOn(Below, Nat)
  BY NatLessThanWellFounded DEF OpToRel
<1>2. PICK m \in S : \A n \in S : <<n, m>> \notin Below
  BY <1>1, WFMin
<1>3. \A n \in S : m <= n
  <2>1. \A n, k \in Nat : n < k => <<n, k>> \in Below
    OBVIOUS
  <2> HIDE DEF Below
  <2>2. TAKE n \in S
  <2>3. n \in Nat /\ m \in Nat
    OBVIOUS
  <2>4. ~(n < m)
    BY <1>2, <2>1, <2>3
  <2>5. QED
    BY <2>3, <2>4
<1>4. QED
  BY <1>3 DEF Min

\* A row, session, job or claim with one column assigned keeps its type.
LEMMA RowUpdate ==
  ASSUME NEW r \in Row
  PROVE  /\ \A x \in {"absent", "pending", "running"} \cup Terminal :
              [r EXCEPT !.st = x] \in Row
         /\ \A x \in Sessions \cup {None} : /\ [r EXCEPT !.ses = x] \in Row
                                            /\ [r EXCEPT !.lses = x] \in Row
         /\ \A x \in Keys \cup {None} : [r EXCEPT !.key = x] \in Row
         /\ \A x \in Tokens \cup {0} : [r EXCEPT !.tok = x] \in Row
         /\ \A x \in BOOLEAN : /\ [r EXCEPT !.fresh = x] \in Row
                               /\ [r EXCEPT !.started = x] \in Row
                               /\ [r EXCEPT !.moved = x] \in Row
BY DEF Row

\* A session with one field assigned.
LEMMA SessUpdate ==
  ASSUME NEW r \in Sess
  PROVE  /\ \A x \in {"none", "open", "closing", "closed"} :
              [r EXCEPT !.st = x] \in Sess
         /\ \A x \in Prompts \cup {0} : /\ [r EXCEPT !.active = x] \in Sess
                                        /\ [r EXCEPT !.listed = x] \in Sess
         /\ \A x \in SUBSET Prompts : [r EXCEPT !.seen = x] \in Sess
BY DEF Sess

\* A job with one field assigned.
LEMMA JobUpdate ==
  ASSUME NEW r \in Job
  PROVE  /\ \A x \in {"none", "queued", "running", "final"} :
              [r EXCEPT !.st = x] \in Job
         /\ \A x \in BOOLEAN : /\ [r EXCEPT !.cancel = x] \in Job
                               /\ [r EXCEPT !.due = x] \in Job
         /\ \A x \in Sessions \cup {None} : [r EXCEPT !.watch = x] \in Job
BY DEF Job

\* A claim with one field assigned.
LEMMA ClaimUpdate ==
  ASSUME NEW r \in ClaimRecord
  PROVE  /\ \A x \in Steps : [r EXCEPT !.pc = x] \in ClaimRecord
         /\ \A x \in Bridges \cup {None} : [r EXCEPT !.b = x] \in ClaimRecord
         /\ \A x \in Sessions \cup {None} : [r EXCEPT !.s = x] \in ClaimRecord
         /\ \A x \in Prompts \cup {0} : [r EXCEPT !.p = x] \in ClaimRecord
         /\ \A x \in BOOLEAN : /\ [r EXCEPT !.was = x] \in ClaimRecord
                               /\ [r EXCEPT !.lost = x] \in ClaimRecord
                               /\ [r EXCEPT !.ran = x] \in ClaimRecord
                               /\ [r EXCEPT !.main = x] \in ClaimRecord
                               /\ [r EXCEPT !.stray = x] \in ClaimRecord
BY DEF ClaimRecord

\* The rows of no prompt, no session, no job, no claim.
LEMMA NullTypes ==
  NoRow \in Row /\ NoSess \in Sess /\ NoJob \in Job /\ FreeClaim \in ClaimRecord
BY DEF NoRow, Row, NoSess, Sess, NoJob, Job, FreeClaim, ClaimRecord, Steps

\* What the queue's statements make of a row.
LEMMA RowTypes ==
  ASSUME NEW r \in Row
  PROVE  /\ \A x \in {"pending"} \cup Terminal : Unleased(r, x) \in Row
         /\ \A s \in Sessions : Rebound(r, s) \in Row
<1>1. \A q \in Row, x \in {"pending"} \cup Terminal : Unleased(q, x) \in Row
  <2>1. TAKE q \in Row, x \in {"pending"} \cup Terminal
  <2>2. [q EXCEPT !.st = x] \in Row
    BY RowUpdate
  <2>3. 0 \in Tokens \cup {0} /\ None \in Sessions \cup {None} /\ FALSE \in BOOLEAN
    OBVIOUS
  <2>4. QED
    BY <2>2, <2>3, RowUpdate DEF Unleased
<1>2. \A s \in Sessions : Rebound(r, s) \in Row
  <2>1. TAKE s \in Sessions
  <2>2. [r EXCEPT !.ses = s, !.moved = TRUE] \in Row
    BY RowUpdate
  <2>3. QED
    BY <1>1, <2>2 DEF Rebound
<1>3. QED
  BY <1>1, <1>2

\* A claim whose thread is gone is a claim.
LEMMA OverType == \A c \in ClaimRecord : Over(c) \in ClaimRecord
BY DEF Over, ClaimRecord, Steps

-----------------------------------------------------------------------------
(* Typing.                                                                 *)

\* A table by bridge, with one entry assigned.
LEMMA EntryUpdate ==
  ASSUME NEW A, NEW B, NEW T, NEW f \in [A -> [B -> T]],
         NEW a \in A, NEW b, NEW v \in T
  PROVE  [f EXCEPT ![a][b] = v] \in [A -> [B -> T]]
OBVIOUS

\* A call is one of Calls; what it leaves of a session's calls, too.
LEMMA CallTypes ==
  ASSUME TypeOK, NEW b \in Bridges, NEW s \in Sessions
  PROVE  /\ todo[b][s] \subseteq Calls
         /\ \A calls \in SUBSET Calls :
              Call(b, s, calls) => todo' \in [Bridges -> [Sessions -> SUBSET Calls]]
         /\ \A call : Return(b, s, call) =>
              todo' \in [Bridges -> [Sessions -> SUBSET Calls]]
         /\ \A calls \in SUBSET Calls :
              todo' = [todo EXCEPT ![b][s] = calls]
                => todo' \in [Bridges -> [Sessions -> SUBSET Calls]]
<1>1. todo[b][s] \subseteq Calls
  BY DEF TypeOK
<1>2. todo \in [Bridges -> [Sessions -> SUBSET Calls]]
  BY DEF TypeOK
<1>3. \A calls \in SUBSET Calls :
        [todo EXCEPT ![b][s] = calls] \in [Bridges -> [Sessions -> SUBSET Calls]]
  BY <1>2, EntryUpdate
<1>4. ASSUME NEW calls \in SUBSET Calls, Call(b, s, calls)
      PROVE  todo' \in [Bridges -> [Sessions -> SUBSET Calls]]
  <2>1. todo[b][s] \cup calls \in SUBSET Calls
    BY <1>1
  <2>2. QED
    BY <1>3, <1>4, <2>1 DEF Call
<1>5. ASSUME NEW call, Return(b, s, call)
      PROVE  todo' \in [Bridges -> [Sessions -> SUBSET Calls]]
  <2>1. todo[b][s] \ {call} \in SUBSET Calls
    BY <1>1
  <2>2. QED
    BY <1>3, <1>5, <2>1 DEF Return
<1>6. QED
  BY <1>1, <1>3, <1>4, <1>5

\* A step of a claim's thread keeps the type of the claims.
LEMMA GotoTypes ==
  ASSUME TypeOK, NEW t \in Tokens
  PROVE  /\ \A pc \in Steps : Goto(t, pc) => claim' \in [Tokens -> ClaimRecord]
         /\ Exit(t) => claim' \in [Tokens -> ClaimRecord]
<1>1. claim \in [Tokens -> ClaimRecord] /\ claim[t] \in ClaimRecord
  BY DEF TypeOK
<1>2. ASSUME NEW pc \in Steps, Goto(t, pc)
      PROVE  claim' \in [Tokens -> ClaimRecord]
  BY <1>1, <1>2, ClaimUpdate DEF Goto
<1>3. ASSUME Exit(t)
      PROVE  claim' \in [Tokens -> ClaimRecord]
  BY <1>1, <1>3, OverType DEF Exit
<1>4. QED
  BY <1>2, <1>3

\* The rows a finished claim leaves.
LEMMA FinishedTypes ==
  ASSUME TypeOK, NEW t \in Tokens, NEW st \in Terminal, Finished(t, st)
  PROVE  row' \in [Prompts -> Row]
BY RowTypes DEF TypeOK, Finished

\* The rows that cancel_pending_for_session leaves.
LEMMA CancelPendingTypes ==
  ASSUME TypeOK, NEW s \in Sessions, CancelPending(s)
  PROVE  row' \in [Prompts -> Row]
<1>1. "cancelled" \in {"absent", "pending", "running"} \cup Terminal
  BY DEF Terminal
<1>2. QED
  BY <1>1, RowUpdate DEF TypeOK, CancelPending

\* _mark_job_completed and the reconciliation keep the types.
LEMMA ConcludeTypes ==
  ASSUME TypeOK, NEW b \in Bridges, NEW s \in Sessions, NEW p \in Prompts \cup {0},
         NEW watch \in Sessions \cup {None}, NEW drain \in {"drain", "redrain"},
         Conclude(b, s, p, watch, drain)
  PROVE  /\ job' \in [Bridges -> [Prompts -> Job]]
         /\ sess' \in [Bridges -> [Sessions -> Sess]]
         /\ todo' \in [Bridges -> [Sessions -> SUBSET Calls]]
<1>1. job' \in [Bridges -> [Prompts -> Job]]
  <2>1. job \in [Bridges -> [Prompts -> Job]]
    BY DEF TypeOK
  <2>2. job' = [job EXCEPT ![b][p].st = "final", ![b][p].watch = watch]
    BY DEF Conclude
  <2>3. \A r \in Job : [r EXCEPT !.st = "final", !.watch = watch] \in Job
    BY DEF Job
  <2>4. QED
    BY <2>1, <2>2, <2>3
<1>2. sess' \in [Bridges -> [Sessions -> Sess]]
  <2>1. sess \in [Bridges -> [Sessions -> Sess]] /\ sess[b][s] \in Sess
    BY DEF TypeOK
  <2>2. sess[b][s].active \in Prompts \cup {0}
    BY <2>1 DEF Sess
  <2>3. \A x \in Prompts \cup {0} : [sess[b][s] EXCEPT !.active = x] \in Sess
    BY <2>1, SessUpdate
  <2>4. PICK x \in {0, sess[b][s].active} :
          sess' = [sess EXCEPT ![b][s] = [sess[b][s] EXCEPT !.active = x]]
    BY DEF Conclude
  <2>5. QED
    BY <2>1, <2>2, <2>3, <2>4, EntryUpdate
<1>3. {drain} \in SUBSET Calls
  BY DEF Calls
<1>4. QED
  BY <1>1, <1>2, <1>3, CallTypes DEF Conclude

\* One entry of the table of sessions, or of jobs, with one field assigned.
LEMMA SessEntry ==
  ASSUME TypeOK, NEW b \in Bridges, NEW s \in Sessions
  PROVE  /\ sess[b][s] \in Sess
         /\ \A x \in {"none", "open", "closing", "closed"} :
              [sess EXCEPT ![b][s].st = x] \in [Bridges -> [Sessions -> Sess]]
         /\ \A x \in Prompts \cup {0} :
              /\ [sess EXCEPT ![b][s].active = x] \in [Bridges -> [Sessions -> Sess]]
              /\ [sess EXCEPT ![b][s].listed = x] \in [Bridges -> [Sessions -> Sess]]
         /\ \A x \in Sess : [sess EXCEPT ![b][s] = x] \in [Bridges -> [Sessions -> Sess]]
<1>1. sess \in [Bridges -> [Sessions -> Sess]] /\ sess[b][s] \in Sess
  BY DEF TypeOK
<1>2. QED
  BY <1>1, SessUpdate, EntryUpdate

\* One entry of the table of jobs, with one field assigned.
LEMMA JobEntry ==
  ASSUME NEW jobs \in [Bridges -> [Prompts -> Job]], NEW b \in Bridges, NEW p
  PROVE  /\ \A x \in {"none", "queued", "running", "final"} :
              [jobs EXCEPT ![b][p].st = x] \in [Bridges -> [Prompts -> Job]]
         /\ \A x \in BOOLEAN :
              [jobs EXCEPT ![b][p].cancel = x] \in [Bridges -> [Prompts -> Job]]
         /\ \A x \in BOOLEAN :
              [jobs EXCEPT ![b][p].due = x] \in [Bridges -> [Prompts -> Job]]
         /\ \A x \in Sessions \cup {None} :
              [jobs EXCEPT ![b][p].watch = x] \in [Bridges -> [Prompts -> Job]]
<1>1. CASE p \in Prompts
  <2>1. jobs[b][p] \in Job
    BY <1>1
  <2>2. QED
    BY <1>1, <2>1, JobUpdate, EntryUpdate
<1>2. CASE p \notin Prompts
  BY <1>2
<1>3. QED
  BY <1>1, <1>2

\* session.cancel keeps the types, whatever it will do next.
LEMMA StopTypes ==
  ASSUME TypeOK, NEW b \in Bridges, NEW s \in Sessions, NEW closing \in BOOLEAN,
         NEW calls \in SUBSET Calls, Stop(b, s, closing, calls)
  PROVE  /\ job' \in [Bridges -> [Prompts -> Job]]
         /\ sess' \in [Bridges -> [Sessions -> Sess]]
         /\ todo' \in [Bridges -> [Sessions -> SUBSET Calls]]
<1>1. todo' \in [Bridges -> [Sessions -> SUBSET Calls]]
  <2>1. calls \cup {"end"} \in SUBSET Calls
    BY DEF Calls
  <2>2. QED
    BY <2>1, CallTypes DEF Stop
<1>2. sess' \in [Bridges -> [Sessions -> Sess]]
  <2>1. [sess EXCEPT ![b][s].st = "closing"] \in [Bridges -> [Sessions -> Sess]]
    BY SessEntry
  <2>2. QED
    BY <2>1 DEF Stop, TypeOK
<1>3. job' \in [Bridges -> [Prompts -> Job]]
  <2> DEFINE stopping == [job EXCEPT ![b][sess[b][s].active].cancel = TRUE]
  <2>1. stopping \in [Bridges -> [Prompts -> Job]]
    BY JobEntry DEF TypeOK
  <2>2. [stopping EXCEPT ![b][sess[b][s].active].st = "running"]
          \in [Bridges -> [Prompts -> Job]]
    <3> HIDE DEF stopping
    <3>1. QED
      BY <2>1, JobEntry
  <2>3. QED
    BY <2>2 DEF Stop, TypeOK
<1>4. QED
  BY <1>1, <1>2, <1>3

\* The handlers of requests keep the types.
LEMMA RequestTypes ==
  ASSUME TypeOK, NEW b \in Bridges, Request(b)
  PROVE  TypeOK'
<1>0. asked' \in Nat
  BY DEF Request, TypeOK
<1>1. ASSUME NEW s \in Sessions, Open(b, s)
      PROVE  TypeOK'
  <2>1. [NoSess EXCEPT !.st = "open", !.seen = log[s]] \in Sess
    BY NullTypes, SessUpdate DEF TypeOK
  <2>2. sess' \in [Bridges -> [Sessions -> Sess]]
    BY <1>1, <2>1, SessEntry DEF Open
  <2>3. todo' \in [Bridges -> [Sessions -> SUBSET Calls]]
    BY <1>1, CallTypes DEF Open, Calls
  <2>4. claim' \in [Tokens -> ClaimRecord]
    BY <1>1, ClaimUpdate DEF TypeOK, Open
  <2>5. ASSUME NEW r \in Job
        PROVE  [r EXCEPT !.watch = None, !.due = FALSE] \in Job
    BY JobUpdate
  <2>6. job' \in [Bridges -> [Prompts -> Job]]
    BY <1>1, <2>5 DEF TypeOK, Open
  <2>7. QED
    BY <1>0, <1>1, <2>2, <2>3, <2>4, <2>6 DEF TypeOK, Open
<1>2. ASSUME NEW s \in Sessions, NEW k \in Keys, EnqueueNew(b, s, k)
      PROVE  TypeOK'
  <2>1. PICK p \in Prompts : row' = [row EXCEPT ![p].st = "pending", ![p].ses = s,
                                                ![p].key = k]
    BY <1>2 DEF EnqueueNew
  <2>2. row' \in [Prompts -> Row]
    BY <2>1, RowUpdate DEF TypeOK
  <2>3. (IF Busy(b, s) THEN {} ELSE {"drain"}) \in SUBSET Calls
    BY DEF Calls
  <2>4. todo' \in [Bridges -> [Sessions -> SUBSET Calls]]
    BY <1>2, <2>3, CallTypes DEF EnqueueNew
  <2>5. QED
    BY <1>0, <1>2, <2>2, <2>4 DEF TypeOK, EnqueueNew
<1>3. ASSUME NEW s \in Sessions, NEW p \in Prompts, EnqueueAgain(b, s, p)
      PROVE  TypeOK'
  <2>1. job' \in [Bridges -> [Prompts -> Job]]
    <3>1. job \in [Bridges -> [Prompts -> Job]]
      BY DEF TypeOK
    <3>2. [job EXCEPT ![b][p].watch = s] \in [Bridges -> [Prompts -> Job]]
      BY <3>1, JobEntry
    <3>3. QED
      BY <1>3, <3>1, <3>2 DEF EnqueueAgain
  <2>2. (IF Busy(b, s) THEN {} ELSE {"drain"}) \in SUBSET Calls
    BY DEF Calls
  <2>3. todo' \in [Bridges -> [Sessions -> SUBSET Calls]]
    BY <1>3, <2>2, CallTypes DEF EnqueueAgain
  <2>4. QED
    BY <1>0, <1>3, <2>1, <2>3 DEF TypeOK, EnqueueAgain
<1>4. ASSUME NEW s \in Sessions, ClearCheck(b, s)
      PROVE  TypeOK'
  <2>1. todo' \in [Bridges -> [Sessions -> SUBSET Calls]]
    BY <1>4, CallTypes DEF ClearCheck, Calls
  <2>2. QED
    BY <1>0, <1>4, <2>1 DEF TypeOK, ClearCheck
<1>5. ASSUME NEW s \in Sessions, SessionCancel(b, s)
      PROVE  TypeOK'
  <2>1. todo[b][s] \subseteq Calls
    BY CallTypes
  <2>2. job' \in [Bridges -> [Prompts -> Job]] /\ sess' \in [Bridges -> [Sessions -> Sess]]
          /\ todo' \in [Bridges -> [Sessions -> SUBSET Calls]]
    BY <1>5, <2>1, StopTypes DEF SessionCancel
  <2>3. QED
    BY <1>0, <1>5, <2>2 DEF TypeOK, SessionCancel
<1>6. ASSUME NEW s \in Sessions, CloseRequest(b, s)
      PROVE  TypeOK'
  <2>1. row' \in [Prompts -> Row]
    BY <1>6, CancelPendingTypes DEF CloseRequest
  <2>2. todo' \in [Bridges -> [Sessions -> SUBSET Calls]]
    BY <1>6, CallTypes DEF CloseRequest, Calls
  <2>3. QED
    BY <1>0, <1>6, <2>1, <2>2 DEF TypeOK, CloseRequest
<1>7. ASSUME NEW s \in Sessions, NEW source \in Sessions, Resume(b, source, s)
      PROVE  TypeOK'
  <2>1. row' \in [Prompts -> Row]
    BY <1>7, RowTypes DEF TypeOK, Resume
  <2>2. todo' \in [Bridges -> [Sessions -> SUBSET Calls]]
    BY <1>7, CallTypes DEF Resume, Calls
  <2>3. QED
    BY <1>0, <1>7, <2>1, <2>2 DEF TypeOK, Resume
<1>8. ASSUME NEW p \in Prompts, DeletePending(b, p)
      PROVE  TypeOK'
  <2>1. row' \in [Prompts -> Row]
    BY <1>8, RowUpdate DEF TypeOK, DeletePending, Terminal
  <2>2. job' \in [Bridges -> [Prompts -> Job]]
    <3>1. job \in [Bridges -> [Prompts -> Job]]
      BY DEF TypeOK
    <3>2. [job EXCEPT ![b][p].st = "final"] \in [Bridges -> [Prompts -> Job]]
      BY <3>1, JobEntry
    <3>3. QED
      BY <1>8, <3>1, <3>2 DEF DeletePending
  <2>3. QED
    BY <1>0, <1>8, <2>1, <2>2 DEF TypeOK, DeletePending
<1>9. ASSUME Shutdown(b)
      PROVE  TypeOK'
  <2>1. up' \in [Bridges -> {"up", "closed", "dead"}]
    BY <1>9 DEF TypeOK, Shutdown
  <2>2. ASSUME NEW p \in Prompts
        PROVE  [job[b][p] EXCEPT !.cancel = @ \/ p \in ActiveJobs(b)] \in Job
    <3>1. job[b][p] \in Job
      BY DEF TypeOK
    <3>2. (job[b][p].cancel \/ p \in ActiveJobs(b)) \in BOOLEAN
      OBVIOUS
    <3>3. QED
      BY <3>1, <3>2, JobUpdate
  <2>3. job' \in [Bridges -> [Prompts -> Job]]
    BY <1>9, <2>2 DEF TypeOK, Shutdown
  <2>4. QED
    BY <1>0, <1>9, <2>1, <2>3 DEF TypeOK, Shutdown
<1>10. QED
  BY <1>1, <1>2, <1>3, <1>4, <1>5, <1>6, <1>7, <1>8, <1>9 DEF Request

\* What a claim chooses from are prompts.
LEMMA EligibleTypes ==
  ASSUME NEW s \in Sessions
  PROVE  /\ Eligible(s) \subseteq Prompts
         /\ Eligible(s) # {} => /\ Min(Eligible(s)) \in Eligible(s)
                                /\ Min(Eligible(s)) \in Prompts
                                /\ \A p \in Eligible(s) : Min(Eligible(s)) <= p
<1>1. Eligible(s) \subseteq Prompts
  BY DEF Eligible, InState, Expired, Live
<1>2. Eligible(s) \in SUBSET Nat
  BY <1>1 DEF Prompts
<1>3. QED
  BY <1>1, <1>2, MinProperties

\* What the request thread does after its response keeps the types.
LEMMA FollowUpTypes ==
  ASSUME TypeOK, UNCHANGED asked, NEW b \in Bridges, NEW s \in Sessions, FollowUp(b, s)
  PROVE  TypeOK'
<1>1. ASSUME Clear(b, s)
      PROVE  TypeOK'
  BY <1>1, CancelPendingTypes, CallTypes DEF TypeOK, Clear
<1>2. ASSUME CloseDecide(b, s)
      PROVE  TypeOK'
  <2>1. todo[b][s] \ {"close"} \in SUBSET Calls
    BY CallTypes
  <2>2. QED
    BY <1>2, <2>1, StopTypes DEF TypeOK, CloseDecide
<1>3. ASSUME CloseSession(b, s)
      PROVE  TypeOK'
  BY <1>3, SessEntry, CallTypes DEF TypeOK, CloseSession
<1>4. ASSUME CloseAfterJob(b, s)
      PROVE  TypeOK'
  BY <1>4, SessEntry DEF TypeOK, CloseAfterJob
<1>5. ASSUME ListRunning(b, s)
      PROVE  TypeOK'
  <2> DEFINE running == InState(s, "running")
  <2>1. running \in SUBSET Nat /\ running \subseteq Prompts
    BY DEF InState, Prompts
  <2>2. (IF running = {} THEN 0 ELSE Min(running)) \in Prompts \cup {0}
    BY <2>1, MinProperties
  <2>3. sess' \in [Bridges -> [Sessions -> Sess]]
    BY <1>5, <2>2, SessEntry DEF ListRunning
  <2> DEFINE calls == (todo[b][s] \ {"list"})
                        \cup {IF running = {} THEN "drain" ELSE "attach"}
  <2>4. calls \in SUBSET Calls
    BY CallTypes DEF Calls
  <2>5. todo' \in [Bridges -> [Sessions -> SUBSET Calls]]
    <3>1. todo' = [todo EXCEPT ![b][s] = calls]
      BY <1>5 DEF ListRunning
    <3> HIDE DEF calls
    <3>2. QED
      BY <2>4, <3>1, CallTypes
  <2>6. QED
    BY <1>5, <2>3, <2>5 DEF TypeOK, ListRunning
<1>6. ASSUME Attach(b, s)
      PROVE  TypeOK'
  <2> DEFINE p == sess[b][s].listed
             marked == [job EXCEPT ![b][p].st = "running"]
  <2>1. p \in Prompts \cup {0}
    BY SessEntry DEF Sess
  <2>2. marked \in [Bridges -> [Prompts -> Job]]
    BY JobEntry DEF TypeOK
  <2>3. job' \in [Bridges -> [Prompts -> Job]]
    <3>1. job' = [marked EXCEPT ![b][p].watch = IF @ = None THEN s ELSE @]
      BY <1>6 DEF Attach
    <3>2. CASE p \in Prompts
      <4> HIDE DEF marked
      <4>1. marked[b][p].watch \in Sessions \cup {None}
        BY <2>2, <3>2 DEF Job
      <4>2. (IF marked[b][p].watch = None THEN s ELSE marked[b][p].watch)
              \in Sessions \cup {None}
        BY <4>1
      <4>3. QED
        BY <2>2, <3>1, <4>2, JobEntry
    <3>3. CASE p \notin Prompts
      <4> HIDE DEF marked, p
      <4>1. QED
        BY <2>2, <3>1, <3>3
    <3>4. QED
      BY <3>2, <3>3
  <2>4. sess' \in [Bridges -> [Sessions -> Sess]]
    <3>1. [sess[b][s] EXCEPT !.active = p, !.listed = 0] \in Sess
      BY <2>1, SessEntry, SessUpdate
    <3>2. sess' = [sess EXCEPT ![b][s] = [sess[b][s] EXCEPT !.active = p, !.listed = 0]]
      BY <1>6 DEF Attach
    <3>3. QED
      BY <3>1, <3>2, SessEntry
  <2>5. QED
    BY <1>6, <2>3, <2>4, CallTypes DEF TypeOK, Attach
<1>7. ASSUME NEW drain \in {"drain", "redrain"}, DrainReturns(b, s, drain)
      PROVE  TypeOK'
  BY <1>7, CallTypes DEF TypeOK, DrainReturns
<1>8. ASSUME NEW drain \in {"drain", "redrain"}, ClaimNext(b, s, drain)
      PROVE  TypeOK'
  <2> DEFINE p == Min(Eligible(s))
  <2>1. p \in Prompts
    BY <1>8, EligibleTypes DEF ClaimNext
  <2>2. PICK t \in Tokens :
          /\ row' = [row EXCEPT ![p].st = "running", ![p].tok = t,
                                ![p].lses = s, ![p].fresh = TRUE]
          /\ claim' = [claim EXCEPT ![t] =
                [FreeClaim EXCEPT !.b = b, !.s = s, !.p = p,
                                  !.pc = "decide", !.was = row[p].started,
                                  !.main = (drain = "drain")]]
    BY <1>8 DEF ClaimNext
  <2> HIDE DEF p
  <2>3. row[p] \in Row /\ row[p].started \in BOOLEAN
    BY <2>1 DEF TypeOK, Row
  <2>4. row' \in [Prompts -> Row]
    BY <2>1, <2>2, <2>3, RowUpdate DEF TypeOK
  <2>5. [FreeClaim EXCEPT !.b = b, !.s = s, !.p = p, !.pc = "decide",
                          !.was = row[p].started, !.main = (drain = "drain")]
          \in ClaimRecord
    <3>1. "decide" \in Steps /\ (drain = "drain") \in BOOLEAN
      BY DEF Steps
    <3>2. QED
      BY <2>1, <2>3, <3>1, NullTypes, ClaimUpdate
  <2>6. claim' \in [Tokens -> ClaimRecord]
    BY <2>2, <2>5 DEF TypeOK
  <2>7. job' = [job EXCEPT ![b][p].st = "queued"] /\ sess' = [sess EXCEPT ![b][s].active = p]
    BY <1>8 DEF ClaimNext, p
  <2>8. job' \in [Bridges -> [Prompts -> Job]] /\ sess' \in [Bridges -> [Sessions -> Sess]]
    <3>1. job \in [Bridges -> [Prompts -> Job]]
      BY DEF TypeOK
    <3>2. QED
      BY <2>1, <2>7, <3>1, JobEntry, SessEntry
  <2>9. todo' \in [Bridges -> [Sessions -> SUBSET Calls]]
    BY <1>8, CallTypes DEF ClaimNext
  <2>10. QED
    BY <1>8, <2>4, <2>6, <2>8, <2>9 DEF TypeOK, ClaimNext
<1>9. QED
  BY <1>1, <1>2, <1>3, <1>4, <1>5, <1>6, <1>7, <1>8 DEF FollowUp

\* A crash, the timers and the passing of a lease keep the types.
LEMMA TimerTypes ==
  ASSUME TypeOK, UNCHANGED asked
  PROVE  /\ \A b \in Bridges : Crash(b) => TypeOK'
         /\ \A b \in Bridges, p \in Prompts : Poll(b, p) \/ Reclaim(b, p) => TypeOK'
         /\ \A p \in Prompts : Expire(p) => TypeOK'
<1>1. ASSUME NEW b \in Bridges, Crash(b)
      PROVE  TypeOK'
  <2>1. claim' \in [Tokens -> ClaimRecord]
    BY <1>1, OverType DEF TypeOK, Crash
  <2>2. QED
    BY <1>1, <2>1, NullTypes DEF TypeOK, Crash
<1>2. ASSUME NEW b \in Bridges, NEW p \in Prompts, Poll(b, p)
      PROVE  TypeOK'
  <2>1. job[b][p].watch \in Sessions \cup {None}
    BY DEF TypeOK, Job
  <2>2. job[b][p].watch \in Sessions
    BY <1>2, <2>1 DEF Poll
  <2>3. job \in [Bridges -> [Prompts -> Job]]
    BY DEF TypeOK
  <2>4. CASE UNCHANGED <<sess, todo>>
    <3>1. job' = [job EXCEPT ![b][p].watch = None] \/ job' = [job EXCEPT ![b][p].due = TRUE]
            \/ Conclude(b, job[b][p].watch, p, None, "redrain")
      BY <1>2 DEF Poll
    <3>2. job' \in [Bridges -> [Prompts -> Job]]
      <4>1. /\ [job EXCEPT ![b][p].watch = None] \in [Bridges -> [Prompts -> Job]]
            /\ [job EXCEPT ![b][p].due = TRUE] \in [Bridges -> [Prompts -> Job]]
        BY <2>3, JobEntry
      <4>2. Conclude(b, job[b][p].watch, p, None, "redrain")
              => job' \in [Bridges -> [Prompts -> Job]]
        BY <2>2, ConcludeTypes
      <4>3. QED
        BY <3>1, <4>1, <4>2
    <3>3. QED
      BY <1>2, <2>4, <3>2 DEF TypeOK, Poll
  <2>5. CASE Conclude(b, job[b][p].watch, p, None, "redrain")
    BY <1>2, <2>2, <2>5, ConcludeTypes DEF TypeOK, Poll
  <2>6. QED
    BY <1>2, <2>4, <2>5 DEF Poll
<1>3. ASSUME NEW b \in Bridges, NEW p \in Prompts, Reclaim(b, p)
      PROVE  TypeOK'
  <2> DEFINE s == job[b][p].watch
             given == [job[b][p] EXCEPT !.st = "queued", !.watch = None, !.due = FALSE]
  <2>1. job[b][p] \in Job /\ s \in Sessions \cup {None}
    BY DEF TypeOK, Job
  <2>2. given \in Job
    BY <2>1, JobUpdate
  <2>3. job' = [job EXCEPT ![b][p] = given]
    BY <1>3 DEF Reclaim
  <2>4. job' \in [Bridges -> [Prompts -> Job]]
    <3> HIDE DEF given
    <3>1. QED
      BY <2>2, <2>3, EntryUpdate DEF TypeOK
  <2>5. sess' \in [Bridges -> [Sessions -> Sess]]
          /\ todo' \in [Bridges -> [Sessions -> SUBSET Calls]]
    <3>1. CASE s \in Sessions
      <4>1. (IF sess[b][s].active = p THEN 0 ELSE sess[b][s].active) \in Prompts \cup {0}
        BY <3>1, SessEntry DEF Sess
      <4>2. sess' \in [Bridges -> [Sessions -> Sess]]
        <5>1. sess' = [sess EXCEPT ![b][s].active =
                         IF sess[b][s].active = p THEN 0 ELSE sess[b][s].active]
          BY <1>3 DEF Reclaim
        <5>2. QED
          BY <3>1, <4>1, <5>1, SessEntry
      <4>3. Call(b, s, {"redrain"}) /\ {"redrain"} \in SUBSET Calls
        BY <1>3 DEF Reclaim, Calls
      <4>4. QED
        BY <3>1, <4>2, <4>3, CallTypes
    <3>2. CASE s \notin Sessions
      BY <1>3, <3>2 DEF TypeOK, Reclaim, Call
    <3>3. QED
      BY <3>1, <3>2
  <2>6. QED
    BY <1>3, <2>4, <2>5 DEF TypeOK, Reclaim
<1>4. ASSUME NEW p \in Prompts, Expire(p)
      PROVE  TypeOK'
  BY <1>4, RowUpdate DEF TypeOK, Expire
<1>5. QED
  BY <1>1, <1>2, <1>3, <1>4

\* A claim that was handed out names a bridge, a session and a prompt.
NamedClaims ==
  \A t \in Tokens :
    IF claim[t].pc = "free" THEN claim[t] = FreeClaim
    ELSE claim[t].b \in Bridges /\ claim[t].s \in Sessions /\ claim[t].p \in Prompts

\* The thread of a turn and its heartbeat keep the types.
LEMMA TurnTypes ==
  ASSUME TypeOK, NamedClaims, UNCHANGED asked, NEW t \in Tokens, TurnStep(t) \/ Beat(t)
  PROVE  TypeOK'
<1> DEFINE b == claim[t].b
           s == claim[t].s
           p == claim[t].p
<1>0. b \in Bridges /\ s \in Sessions /\ p \in Prompts
  BY DEF NamedClaims, TurnStep, Beat, Decide, NoThread, MarkStarted, StartTurn, EndTurn,
         Publish, Complete, FailClaim, CancelClaimed, Wrap
<1>1. job \in [Bridges -> [Prompts -> Job]] /\ claim[t] \in ClaimRecord /\ row[p] \in Row
  BY <1>0 DEF TypeOK
<1>2. {"begin", "ready", "turn", "publish", "settle", "fail", "cancel", "wrap", "done"}
        \subseteq Steps
  BY DEF Steps
<1>3. /\ [claim EXCEPT ![t].pc = "begin", ![t].main = FALSE] \in [Tokens -> ClaimRecord]
      /\ [claim EXCEPT ![t].pc = "turn", ![t].ran = TRUE] \in [Tokens -> ClaimRecord]
      /\ [claim EXCEPT ![t].lost = TRUE] \in [Tokens -> ClaimRecord]
  BY <1>1, <1>2, ClaimUpdate DEF TypeOK
<1>4. ASSUME Decide(t)
      PROVE  TypeOK'
  <2>1. row' \in [Prompts -> Row]
    <3>1. UNCHANGED row \/ Finished(t, "completed")
      BY <1>4 DEF Decide, Refused
    <3>2. QED
      BY <3>1, FinishedTypes DEF TypeOK, Terminal
  <2>2. claim' \in [Tokens -> ClaimRecord]
    <3>1. \/ Exit(t) \/ Goto(t, "wrap") \/ Goto(t, "fail")
          \/ claim' = [claim EXCEPT ![t].pc = "begin", ![t].main = FALSE]
      BY <1>4 DEF Decide
    <3>2. QED
      BY <1>2, <1>3, <3>1, GotoTypes
  <2>3. QED
    BY <1>4, <2>1, <2>2 DEF TypeOK, Decide
<1>5. ASSUME NoThread(t)
      PROVE  TypeOK'
  <2>1. sess[b][s].active \in Prompts \cup {0}
    BY <1>0, SessEntry DEF Sess
  <2>2. (IF sess[b][s].active = p /\ ~claim[t].stray THEN 0 ELSE sess[b][s].active)
          \in Prompts \cup {0}
    BY <2>1
  <2>3. sess' \in [Bridges -> [Sessions -> Sess]]
    <3>1. PICK x \in Prompts \cup {0} : sess' = [sess EXCEPT ![b][s].active = x]
      BY <1>5, <2>2 DEF NoThread
    <3>2. QED
      BY <1>0, <3>1, SessEntry
  <2>4. job' \in [Bridges -> [Prompts -> Job]]
    BY <1>0, <1>1, <1>5, JobEntry DEF NoThread
  <2>5. claim' \in [Tokens -> ClaimRecord]
    BY <1>2, <1>5, GotoTypes DEF NoThread
  <2>6. QED
    BY <1>5, <2>3, <2>4, <2>5 DEF TypeOK, NoThread
<1>6. ASSUME MarkStarted(t)
      PROVE  TypeOK'
  <2>1. row' \in [Prompts -> Row]
    BY <1>0, <1>1, <1>6, RowUpdate DEF TypeOK, MarkStarted
  <2>2. claim' \in [Tokens -> ClaimRecord]
    BY <1>2, <1>6, GotoTypes DEF MarkStarted
  <2>3. QED
    BY <1>6, <2>1, <2>2 DEF TypeOK, MarkStarted
<1>7. ASSUME StartTurn(t)
      PROVE  TypeOK'
  <2>1. job[b][p].st \in {"none", "queued", "running", "final"}
    BY <1>0, <1>1 DEF Job
  <2>2. job' = [job EXCEPT ![b][p].st = IF job[b][p].st = "final" THEN job[b][p].st
                                        ELSE "running"]
    BY <1>7 DEF StartTurn
  <2>3. job' \in [Bridges -> [Prompts -> Job]]
    BY <1>0, <1>1, <2>1, <2>2, JobEntry
  <2>4. claim' \in [Tokens -> ClaimRecord]
    <3>1. \/ Goto(t, "fail") \/ Goto(t, "cancel")
          \/ claim' = [claim EXCEPT ![t].pc = "turn", ![t].ran = TRUE]
      BY <1>7 DEF StartTurn
    <3>2. QED
      BY <1>2, <1>3, <3>1, GotoTypes
  <2>5. QED
    BY <1>7, <2>3, <2>4 DEF TypeOK, StartTurn
<1>8. ASSUME EndTurn(t)
      PROVE  TypeOK'
  <2>1. claim' \in [Tokens -> ClaimRecord]
    BY <1>2, <1>8, GotoTypes DEF EndTurn
  <2>2. QED
    BY <1>8, <2>1 DEF TypeOK, EndTurn
<1>9. ASSUME Publish(t)
      PROVE  TypeOK'
  <2>1. claim' \in [Tokens -> ClaimRecord]
    BY <1>2, <1>9, GotoTypes DEF Publish
  <2>2. log' \in [Sessions -> SUBSET Prompts]
    <3>1. log \in [Sessions -> SUBSET Prompts] /\ log[s] \cup {p} \in SUBSET Prompts
      BY <1>0 DEF TypeOK
    <3>2. log' = log \/ log' = [log EXCEPT ![s] = log[s] \cup {p}]
      BY <1>9 DEF Publish
    <3>3. QED
      BY <3>1, <3>2
  <2>3. sess' \in [Bridges -> [Sessions -> Sess]]
    <3>1. sess[b][s].seen \in SUBSET Prompts
      BY <1>0, SessEntry DEF Sess
    <3>2. \A x \in SUBSET Prompts :
            [sess EXCEPT ![b][s].seen = x] \in [Bridges -> [Sessions -> Sess]]
      BY <1>0, SessUpdate, SessEntry
    <3>3. (IF claim[t].stray THEN sess[b][s].seen ELSE sess[b][s].seen \cup {p})
            \in SUBSET Prompts
      BY <1>0, <3>1
    <3>4. \/ sess' = sess
          \/ sess' = [sess EXCEPT ![b][s].seen =
                        IF claim[t].stray THEN sess[b][s].seen ELSE sess[b][s].seen \cup {p}]
      BY <1>9 DEF Publish
    <3>5. QED
      BY <3>2, <3>3, <3>4 DEF TypeOK
  <2>4. QED
    BY <1>9, <2>1, <2>2, <2>3 DEF TypeOK, Publish
<1>10. ASSUME Complete(t) \/ FailClaim(t) \/ CancelClaimed(t)
       PROVE  TypeOK'
  <2>1. \/ UNCHANGED row \/ Finished(t, "completed") \/ Finished(t, "failed")
        \/ Finished(t, "cancelled")
    BY <1>10 DEF Complete, FailClaim, CancelClaimed, Refused
  <2>2. row' \in [Prompts -> Row]
    BY <2>1, FinishedTypes DEF TypeOK, Terminal
  <2>3. claim' \in [Tokens -> ClaimRecord]
    BY <1>2, <1>10, GotoTypes DEF Complete, FailClaim, CancelClaimed
  <2>4. QED
    BY <1>10, <2>2, <2>3 DEF TypeOK, Complete, FailClaim, CancelClaimed
<1>11. ASSUME Wrap(t)
       PROVE  TypeOK'
  <2>1. claim' \in [Tokens -> ClaimRecord]
    BY <1>11, GotoTypes DEF Wrap
  <2>2. CASE claim[t].stray
    <3>1. job' = [job EXCEPT ![b][p].st = "final"] /\ UNCHANGED <<sess, todo>>
      BY <1>11, <2>2 DEF Wrap
    <3>2. job' \in [Bridges -> [Prompts -> Job]]
      BY <1>0, <1>1, <3>1, JobEntry
    <3>3. QED
      BY <1>11, <2>1, <3>1, <3>2 DEF TypeOK, Wrap
  <2>3. CASE ~claim[t].stray
    <3>1. Conclude(b, s, p, job[b][p].watch, IF claim[t].main THEN "drain" ELSE "redrain")
      BY <1>11, <2>3 DEF Wrap
    <3>2. job[b][p].watch \in Sessions \cup {None}
      BY <1>0, <1>1 DEF Job
    <3>3. (IF claim[t].main THEN "drain" ELSE "redrain") \in {"drain", "redrain"}
      OBVIOUS
    <3>4. /\ job' \in [Bridges -> [Prompts -> Job]]
          /\ sess' \in [Bridges -> [Sessions -> Sess]]
          /\ todo' \in [Bridges -> [Sessions -> SUBSET Calls]]
      BY <1>0, <3>1, <3>2, <3>3, ConcludeTypes
    <3>5. QED
      BY <1>11, <2>1, <3>4 DEF TypeOK, Wrap
  <2>4. QED
    BY <2>2, <2>3
<1>12. ASSUME Beat(t)
       PROVE  TypeOK'
  <2>1. row' \in [Prompts -> Row]
    BY <1>0, <1>1, <1>12, RowUpdate DEF TypeOK, Beat, Refused
  <2>2. claim' \in [Tokens -> ClaimRecord]
    BY <1>3, <1>12 DEF TypeOK, Beat
  <2>3. job' \in [Bridges -> [Prompts -> Job]]
    <3>1. job' = job \/ job' = [job EXCEPT ![b][p].cancel = TRUE]
      BY <1>12 DEF Beat
    <3>2. [job EXCEPT ![b][p].cancel = TRUE] \in [Bridges -> [Prompts -> Job]]
      BY <1>0, <1>1, JobEntry
    <3>3. QED
      BY <1>1, <3>1, <3>2
  <2>4. QED
    BY <1>12, <2>1, <2>2, <2>3 DEF TypeOK, Beat
<1>13. QED
  BY <1>4, <1>5, <1>6, <1>7, <1>8, <1>9, <1>10, <1>11, <1>12 DEF TurnStep

-----------------------------------------------------------------------------
(* What a step does to the rows, the logs and the claims.                  *)

SameWork(t) ==
  claim'[t].b = claim[t].b /\ claim'[t].s = claim[t].s /\ claim'[t].p = claim[t].p

SameRun(t) == SameWork(t) /\ claim'[t].ran = claim[t].ran

SameClaim(t) ==
  /\ SameRun(t) /\ claim'[t].pc = claim[t].pc
  /\ claim[t].pc = "free" => claim'[t] = claim[t]

\* No bridge dies.
Alive == \A b \in Bridges : up'[b] = "dead" => up[b] = "dead"

Quiet ==
  /\ UNCHANGED <<row, log>> /\ Alive
  /\ \A t \in Tokens : SameClaim(t)

\* A prompt is accepted.
Sends(p, s, k) ==
  /\ row[p].st = "absent"
  /\ \A q \in Prompts : q < p => row[q].st # "absent"
  /\ \A q \in Prompts : row[q].ses = s => row[q].key # k
  /\ row' = [row EXCEPT ![p].st = "pending", ![p].ses = s, ![p].key = k]
  /\ UNCHANGED <<log, up, claim>>

\* Pending prompts are cancelled.
Drops(D) ==
  /\ \A p \in D : row[p].st = "pending"
  /\ row' = [p \in Prompts |-> IF p \in D THEN [row[p] EXCEPT !.st = "cancelled"]
                               ELSE row[p]]
  /\ UNCHANGED <<log, up, claim>>

Rebinds(source, target) ==
  /\ source # target
  /\ CanRebind(source, target)
  /\ row' = [p \in Prompts |->
               IF row[p].ses = source /\ row[p].st \in {"pending", "running"}
               THEN Rebound(row[p], target) ELSE row[p]]
  /\ UNCHANGED <<log, up, claim>>

\* A drain of the session s of the bridge b has claimed the prompt p.
Claims(t, b, s, p) ==
  /\ claim[t].pc = "free"
  /\ p \in Eligible(s)
  /\ \A q \in Eligible(s) : p <= q
  /\ InState(s, "running") \ {p} = {}
  /\ up[b] = "up"
  /\ \E main \in BOOLEAN :
       claim' = [claim EXCEPT ![t] =
         [FreeClaim EXCEPT !.b = b, !.s = s, !.p = p, !.pc = "decide",
                           !.was = row[p].started, !.main = main]]
  /\ row' = [row EXCEPT ![p].st = "running", ![p].tok = t, ![p].lses = s,
                        ![p].fresh = TRUE]
  /\ UNCHANGED <<log, up>>

\* Every step is one of these; the threads of the turns come next.
LEMMA StepKinds ==
  ASSUME TypeOK, [Next]_vars
  PROVE  \/ Quiet
         \/ \E p \in Prompts, s \in Sessions, k \in Keys : Sends(p, s, k)
         \/ \E D \in SUBSET Prompts : Drops(D)
         \/ \E source, target \in Sessions : Rebinds(source, target)
         \/ \E b \in Bridges : Crash(b)
         \/ \E t \in Tokens, b \in Bridges, s \in Sessions, p \in Prompts :
              Claims(t, b, s, p)
         \/ \E p \in Prompts : Expire(p)
         \/ \E t \in Tokens : TurnStep(t) \/ Beat(t)
<1>0. \A t \in Tokens : UNCHANGED claim => SameClaim(t)
  BY DEF SameClaim, SameRun, SameWork
<1>00. UNCHANGED up => Alive
  BY DEF Alive
<1>1. ASSUME NEW b \in Bridges, NEW s \in Sessions, Open(b, s)
      PROVE  Quiet
  <2>1. ASSUME NEW t \in Tokens
        PROVE  SameClaim(t)
    <3>1. claim[t] \in ClaimRecord
      BY DEF TypeOK
    <3>2. \/ Working(t) /\ claim'[t] = [claim[t] EXCEPT !.stray = TRUE]
          \/ claim'[t] = claim[t]
      BY <1>1 DEF Open
    <3>3. QED
      BY <3>1, <3>2 DEF SameClaim, SameRun, SameWork, Working, ClaimRecord
  <2>2. QED
    BY <1>1, <1>00, <2>1 DEF Open, Quiet
<1>2. ASSUME NEW b \in Bridges, NEW s \in Sessions, NEW k \in Keys, EnqueueNew(b, s, k)
      PROVE  \E p \in Prompts : Sends(p, s, k)
  <2>1. PICK p \in Prompts :
          /\ row[p].st = "absent"
          /\ \A q \in 1..(p - 1) : row[q].st # "absent"
          /\ row' = [row EXCEPT ![p].st = "pending", ![p].ses = s, ![p].key = k]
    BY <1>2 DEF EnqueueNew
  <2>2. \A q \in Prompts : q < p => row[q].st # "absent"
    BY <2>1 DEF Prompts
  <2>3. \A q \in Prompts : row[q].ses = s => row[q].key # k
    BY <1>2 DEF EnqueueNew
  <2>4. QED
    BY <1>2, <2>1, <2>2, <2>3 DEF EnqueueNew, Sends
<1>3. ASSUME NEW b \in Bridges, NEW s \in Sessions, NEW source \in Sessions,
             Resume(b, source, s)
      PROVE  Quiet \/ Rebinds(source, s)
  <2>1. CASE UNCHANGED row
    BY <1>0, <1>00, <1>3, <2>1 DEF Resume, Quiet
  <2>2. CASE ~UNCHANGED row
    <3>1. source # s
      BY <1>3, <2>2 DEF Resume, Serving
    <3>2. QED
      BY <1>3, <2>2, <3>1 DEF Resume, Rebinds
  <2>3. QED
    BY <2>1, <2>2
<1>4. ASSUME NEW s \in Sessions, CancelPending(s), UNCHANGED <<log, up, claim>>
      PROVE  \E D \in SUBSET Prompts : Drops(D)
  <2>1. Drops(InState(s, "pending"))
    BY <1>4 DEF CancelPending, Drops, InState
  <2>2. InState(s, "pending") \in SUBSET Prompts
    BY DEF InState
  <2>3. QED
    BY <2>1, <2>2
<1>5. ASSUME NEW b \in Bridges, NEW p \in Prompts, DeletePending(b, p)
      PROVE  \E D \in SUBSET Prompts : Drops(D)
  <2>1. row' = [q \in Prompts |-> IF q \in {p} THEN [row[q] EXCEPT !.st = "cancelled"]
                                  ELSE row[q]]
    <3>1. row \in [Prompts -> Row]
      BY DEF TypeOK
    <3>2. row' = [row EXCEPT ![p].st = "cancelled"]
      BY <1>5 DEF DeletePending
    <3>3. QED
      BY <3>1, <3>2
  <2>2. Drops({p})
    BY <1>5, <2>1 DEF DeletePending, Drops
  <2>3. QED
    BY <2>2
<1>6. ASSUME NEW b \in Bridges, Request(b)
      PROVE  \/ Quiet
             \/ \E p \in Prompts, s \in Sessions, k \in Keys : Sends(p, s, k)
             \/ \E D \in SUBSET Prompts : Drops(D)
             \/ \E source, target \in Sessions : Rebinds(source, target)
  <2>1. ASSUME NEW s \in Sessions, CloseRequest(b, s)
        PROVE  \E D \in SUBSET Prompts : Drops(D)
    BY <1>4, <2>1 DEF CloseRequest
  <2>2. ASSUME NEW s \in Sessions,
               \/ \E p \in Prompts : EnqueueAgain(b, s, p)
               \/ ClearCheck(b, s) \/ SessionCancel(b, s)
        PROVE  Quiet
    BY <1>0, <1>00, <2>2 DEF EnqueueAgain, ClearCheck, SessionCancel, Quiet
  <2>3. ASSUME Shutdown(b)
        PROVE  Quiet
    <3>1. Alive
      BY <2>3 DEF Shutdown, TypeOK, Alive
    <3>2. QED
      BY <1>0, <2>3, <3>1 DEF Shutdown, Quiet
  <2>4. QED
    BY <1>1, <1>2, <1>3, <1>5, <1>6, <2>1, <2>2, <2>3 DEF Request
<1>7. ASSUME NEW b \in Bridges, NEW s \in Sessions, FollowUp(b, s)
      PROVE  \/ Quiet
             \/ \E D \in SUBSET Prompts : Drops(D)
             \/ \E t \in Tokens, p \in Prompts : Claims(t, b, s, p)
  <2>1. ASSUME Clear(b, s)
        PROVE  \E D \in SUBSET Prompts : Drops(D)
    BY <1>4, <2>1 DEF Clear
  <2>2. ASSUME \/ CloseDecide(b, s) \/ CloseSession(b, s) \/ CloseAfterJob(b, s)
               \/ ListRunning(b, s) \/ Attach(b, s)
               \/ \E drain \in {"drain", "redrain"} : DrainReturns(b, s, drain)
        PROVE  Quiet
    BY <1>0, <1>00, <2>2
       DEF CloseDecide, CloseSession, CloseAfterJob, ListRunning, Attach, DrainReturns, Quiet
  <2>3. ASSUME NEW drain \in {"drain", "redrain"}, ClaimNext(b, s, drain)
        PROVE  \E t \in Tokens, p \in Prompts : Claims(t, b, s, p)
    <3> DEFINE p == Min(Eligible(s))
    <3>1. p \in Prompts /\ p \in Eligible(s) /\ \A q \in Eligible(s) : p <= q
      BY <2>3, EligibleTypes DEF ClaimNext
    <3>2. InState(s, "running") \ {p} = {}
      BY <2>3 DEF ClaimNext, IndexRejects
    <3>3. PICK t \in Tokens :
            /\ claim[t].pc = "free"
            /\ row' = [row EXCEPT ![p].st = "running", ![p].tok = t, ![p].lses = s,
                                  ![p].fresh = TRUE]
            /\ claim' = [claim EXCEPT ![t] =
                 [FreeClaim EXCEPT !.b = b, !.s = s, !.p = p, !.pc = "decide",
                                   !.was = row[p].started, !.main = (drain = "drain")]]
      BY <2>3 DEF ClaimNext
    <3>4. up[b] = "up" /\ UNCHANGED <<log, up>>
      BY <2>3 DEF ClaimNext, Serving
    <3> HIDE DEF p
    <3>5. (drain = "drain") \in BOOLEAN
      OBVIOUS
    <3>6. Claims(t, b, s, p)
      BY <3>1, <3>2, <3>3, <3>4, <3>5 DEF Claims
    <3>7. QED
      BY <3>1, <3>6
  <2>4. QED
    BY <1>7, <2>1, <2>2, <2>3 DEF FollowUp
<1>8. ASSUME NEW b \in Bridges, NEW p \in Prompts, Poll(b, p) \/ Reclaim(b, p)
      PROVE  Quiet
  BY <1>0, <1>00, <1>8 DEF Poll, Reclaim, Quiet
<1>9. CASE UNCHANGED vars
  BY <1>0, <1>00, <1>9 DEF vars, Quiet
<1>10. CASE Internal
  BY <1>7, <1>8, <1>10 DEF Internal
<1>11. QED
  BY <1>6, <1>9, <1>10 DEF Next, Quietly

\* The thread of the claim t is at the step pc, and goes to the step next.
Moves(t, pc, next) == claim[t].pc = pc /\ claim'[t].pc = next

\* It ends the prompt, while it holds the lease.
Ends(t, st) ==
  /\ Holds(t) /\ Finished(t, st)
  /\ claim[t].pc \in {"decide", "settle", "fail", "cancel"}
  /\ claim'[t].pc = "wrap" /\ SameRun(t)
  /\ UNCHANGED log
  /\ st = "completed" =>
       claim[t].pc = "settle" \/ claim[t].p \in sess[claim[t].b][claim[t].s].seen

\* It marks the prompt as begun.
Begins(t) ==
  /\ Holds(t) /\ ~row[claim[t].p].started
  /\ row' = [row EXCEPT ![claim[t].p].started = TRUE]
  /\ Moves(t, "begin", "ready") /\ SameRun(t)
  /\ UNCHANGED log

\* It renews its lease.
Renews(t) ==
  /\ Holds(t)
  /\ row' = [row EXCEPT ![claim[t].p].fresh = TRUE]
  /\ SameClaim(t)
  /\ UNCHANGED log

\* It starts the agent's turn.
Runs(t) ==
  /\ SameWork(t)
  /\ Moves(t, "ready", "turn") /\ claim'[t].ran = TRUE
  /\ UNCHANGED <<row, log>>

\* It writes the end of the turn to the session log.
Publishes(t) ==
  /\ log' = [log EXCEPT ![claim[t].s] = @ \cup {claim[t].p}]
  /\ Moves(t, "publish", "settle") /\ SameRun(t)
  /\ UNCHANGED row

\* It goes on otherwise.  Only a lease that is lost makes it skip its duty to
\* the row.
Proceeds(t) ==
  /\ SameRun(t)
  /\ \/ SameClaim(t) \/ Moves(t, "decide", "begin") \/ Moves(t, "turn", "publish")
     \/ Moves(t, "wrap", "done")
     \/ claim[t].pc \notin {"free", "done", "wrap"} /\ claim'[t].pc \in {"fail", "cancel"}
     \/ /\ claim[t].pc \notin {"free", "done", "wrap"}
        /\ claim'[t].pc \in {"wrap", "done"}
        /\ MayRefuse(t)
  /\ UNCHANGED <<row, log>>

\* A step of a thread or of its heartbeat leaves the other claims alone, and is
\* one of these.
LEMMA TurnKinds ==
  ASSUME TypeOK, NEW t \in Tokens, TurnStep(t) \/ Beat(t)
  PROVE  /\ UNCHANGED up
         /\ \A u \in Tokens \ {t} : claim'[u] = claim[u]
         /\ claim[t].pc \notin {"free", "done"}
         /\ \/ \E st \in Terminal : Ends(t, st)
            \/ Begins(t) \/ Renews(t) \/ Runs(t) \/ Publishes(t) \/ Proceeds(t)
<1>1. claim \in [Tokens -> ClaimRecord] /\ claim[t] \in ClaimRecord
  BY DEF TypeOK
<1> DEFINE Kind == \/ \E st \in Terminal : Ends(t, st)
                   \/ Begins(t) \/ Renews(t) \/ Runs(t) \/ Publishes(t) \/ Proceeds(t)
           Rest == /\ UNCHANGED up
                   /\ \A u \in Tokens \ {t} : claim'[u] = claim[u]
                   /\ claim[t].pc \notin {"free", "done"}
\* What the ways to go on make of the claim.
<1>2. ASSUME NEW pc, Goto(t, pc)
      PROVE  /\ \A u \in Tokens \ {t} : claim'[u] = claim[u]
             /\ SameRun(t) /\ claim'[t].pc = pc
  BY <1>1, <1>2 DEF Goto, SameRun, SameWork, ClaimRecord
<1>3. ASSUME Exit(t)
      PROVE  /\ \A u \in Tokens \ {t} : claim'[u] = claim[u]
             /\ SameRun(t) /\ claim'[t].pc = "done"
  BY <1>1, <1>3 DEF Exit, Over, SameRun, SameWork, ClaimRecord
<1>4. ASSUME UNCHANGED claim
      PROVE  /\ \A u \in Tokens \ {t} : claim'[u] = claim[u]
             /\ SameClaim(t)
  BY <1>4 DEF SameClaim, SameRun, SameWork
<1>5. ASSUME Decide(t)
      PROVE  Rest /\ Kind
  <2>1. CASE claim' = [claim EXCEPT ![t].pc = "begin", ![t].main = FALSE]
    <3>1. SameRun(t) /\ claim'[t].pc = "begin" /\ \A u \in Tokens \ {t} : claim'[u] = claim[u]
      BY <1>1, <2>1 DEF SameRun, SameWork, ClaimRecord
    <3>2. claim[t].pc = "decide" /\ UNCHANGED <<row, log, up>>
      BY <1>1, <1>5, <2>1, <3>1 DEF Decide, Goto, Exit, Over, Finished, Refused, ClaimRecord
    <3>3. QED
      BY <3>1, <3>2 DEF Proceeds, Moves
  <2>2. CASE Goto(t, "wrap") /\ Holds(t) /\ Finished(t, "completed")
              /\ claim[t].p \in sess[claim[t].b][claim[t].s].seen
    BY <1>2, <1>5, <2>2 DEF Decide, Ends, Terminal
  <2>3. CASE Goto(t, "fail") /\ UNCHANGED row
    BY <1>2, <1>5, <2>3 DEF Decide, Proceeds
  <2>4. CASE Refused(t) /\ Exit(t)
    BY <1>3, <1>5, <2>4 DEF Decide, Proceeds, Refused
  <2>5. QED
    BY <1>5, <2>1, <2>2, <2>3, <2>4 DEF Decide
<1>6. ASSUME NoThread(t)
      PROVE  Rest /\ Kind
  BY <1>2, <1>6 DEF NoThread, Proceeds
<1>7. ASSUME MarkStarted(t)
      PROVE  Rest /\ Kind
  BY <1>2, <1>7 DEF MarkStarted, Begins, Proceeds, Moves
<1>8. ASSUME StartTurn(t)
      PROVE  Rest /\ Kind
  <2>1. CASE claim' = [claim EXCEPT ![t].pc = "turn", ![t].ran = TRUE]
    <3>1. /\ claim'[t].b = claim[t].b /\ claim'[t].s = claim[t].s /\ claim'[t].p = claim[t].p
          /\ claim'[t].pc = "turn" /\ claim'[t].ran = TRUE
          /\ \A u \in Tokens \ {t} : claim'[u] = claim[u]
      BY <1>1, <2>1 DEF ClaimRecord
    <3>2. QED
      BY <1>8, <3>1 DEF StartTurn, Runs, Moves, SameWork
  <2>2. CASE Goto(t, "fail") \/ Goto(t, "cancel")
    BY <1>2, <1>8, <2>2 DEF StartTurn, Proceeds
  <2>3. QED
    BY <1>8, <2>1, <2>2 DEF StartTurn
<1>9. ASSUME EndTurn(t)
      PROVE  Rest /\ Kind
  BY <1>2, <1>9 DEF EndTurn, Proceeds, Moves
<1>10. ASSUME Publish(t)
       PROVE  Rest /\ Kind
  BY <1>2, <1>10 DEF Publish, Proceeds, Publishes, Moves
<1>11. ASSUME Complete(t)
       PROVE  Rest /\ Kind
  BY <1>2, <1>11 DEF Complete, Ends, Proceeds, Refused, Terminal
<1>12. ASSUME FailClaim(t)
       PROVE  Rest /\ Kind
  BY <1>2, <1>12 DEF FailClaim, Ends, Proceeds, Refused, Terminal
<1>13. ASSUME CancelClaimed(t)
       PROVE  Rest /\ Kind
  BY <1>2, <1>13 DEF CancelClaimed, Ends, Proceeds, Refused, Terminal
<1>14. ASSUME Wrap(t)
       PROVE  Rest /\ Kind
  BY <1>3, <1>14 DEF Wrap, Proceeds, Moves
<1>15. ASSUME Beat(t)
       PROVE  Rest /\ Kind
  <2>1. CASE claim' = [claim EXCEPT ![t].lost = TRUE] /\ Refused(t)
    <3>1. SameClaim(t) /\ \A u \in Tokens \ {t} : claim'[u] = claim[u]
      BY <1>1, <1>15, <2>1 DEF Beat, SameClaim, SameRun, SameWork, ClaimRecord
    <3>2. QED
      BY <1>15, <2>1, <3>1 DEF Beat, Refused, Proceeds, SameClaim
  <2>2. CASE Holds(t) /\ row' = [row EXCEPT ![claim[t].p].fresh = TRUE] /\ UNCHANGED claim
    BY <1>4, <1>15, <2>2 DEF Beat, Renews
  <2>3. QED
    BY <1>15, <2>1, <2>2 DEF Beat
<1> HIDE DEF Kind, Rest
<1>16. Rest /\ Kind
  BY <1>5, <1>6, <1>7, <1>8, <1>9, <1>10, <1>11, <1>12, <1>13, <1>14, <1>15 DEF TurnStep
<1>17. QED
  BY <1>16 DEF Kind, Rest

\* What the bridges know of the session logs, and the logs themselves.
LEMMA SeenSteps ==
  ASSUME TypeOK, NamedClaims, [Next]_vars, NEW b \in Bridges, NEW s \in Sessions
  PROVE  /\ sess'[b][s].seen \subseteq sess[b][s].seen \cup log'[s]
         /\ log[s] \subseteq log'[s]
<1> DEFINE Kept == sess'[b][s].seen = sess[b][s].seen
<1>1. sess \in [Bridges -> [Sessions -> Sess]] /\ sess[b][s] \in Sess
  BY DEF TypeOK
<1>20. ASSUME NEW c, NEW d, NEW x, sess' = [sess EXCEPT ![c][d].active = x]
      PROVE  Kept
  <2>1. CASE c = b /\ d = s
    <3>1. sess'[b][s] = [sess[b][s] EXCEPT !.active = x]
      BY <1>1, <1>20, <2>1
    <3>2. QED
      BY <1>1, <3>1 DEF Sess
  <2>2. CASE ~(c = b /\ d = s)
    <3>1. sess'[b][s] = sess[b][s]
      BY <1>1, <1>20, <2>2
    <3>2. QED
      BY <3>1
  <2>3. QED
    BY <2>1, <2>2
<1>21. ASSUME NEW c, NEW d, NEW x, sess' = [sess EXCEPT ![c][d].st = x]
      PROVE  Kept
  <2>1. CASE c = b /\ d = s
    <3>1. sess'[b][s] = [sess[b][s] EXCEPT !.st = x]
      BY <1>1, <1>21, <2>1
    <3>2. QED
      BY <1>1, <3>1 DEF Sess
  <2>2. CASE ~(c = b /\ d = s)
    <3>1. sess'[b][s] = sess[b][s]
      BY <1>1, <1>21, <2>2
    <3>2. QED
      BY <3>1
  <2>3. QED
    BY <2>1, <2>2
<1>22. ASSUME NEW c, NEW d, NEW x, sess' = [sess EXCEPT ![c][d].listed = x]
      PROVE  Kept
  <2>1. CASE c = b /\ d = s
    <3>1. sess'[b][s] = [sess[b][s] EXCEPT !.listed = x]
      BY <1>1, <1>22, <2>1
    <3>2. QED
      BY <1>1, <3>1 DEF Sess
  <2>2. CASE ~(c = b /\ d = s)
    <3>1. sess'[b][s] = sess[b][s]
      BY <1>1, <1>22, <2>2
    <3>2. QED
      BY <3>1
  <2>3. QED
    BY <2>1, <2>2
<1>23. ASSUME NEW c, NEW d, NEW x, sess' = [sess EXCEPT ![c][d] = [@ EXCEPT !.active = x, !.listed = 0]]
      PROVE  Kept
  <2>1. CASE c = b /\ d = s
    <3>1. sess'[b][s] = [sess[b][s] EXCEPT !.active = x, !.listed = 0]
      BY <1>1, <1>23, <2>1
    <3>2. QED
      BY <1>1, <3>1 DEF Sess
  <2>2. CASE ~(c = b /\ d = s)
    <3>1. sess'[b][s] = sess[b][s]
      BY <1>1, <1>23, <2>2
    <3>2. QED
      BY <3>1
  <2>3. QED
    BY <2>1, <2>2
<1>3. UNCHANGED sess => Kept
  OBVIOUS
<1> HIDE DEF Kept
<1>4. ASSUME NEW c, NEW d, NEW p, NEW watch, NEW drain, Conclude(c, d, p, watch, drain)
      PROVE  Kept
  <2> DEFINE a == sess[c][d].active
             x == IF a # 0 /\ (a = p \/ job[c][a].st = "final") THEN 0 ELSE a
  <2>1. sess' = [sess EXCEPT ![c][d].active = x]
    BY <1>4 DEF Conclude
  <2> HIDE DEF x
  <2>2. QED
    BY <1>20, <2>1
<1>5. ASSUME NEW c, NEW d, NEW closing, NEW calls, Stop(c, d, closing, calls)
      PROVE  Kept
  <2>1. sess' = [sess EXCEPT ![c][d].st = "closing"] \/ UNCHANGED sess
    BY <1>5 DEF Stop
  <2>2. QED
    BY <1>21, <1>3, <2>1
<1>6. ASSUME NEW c \in Bridges, NEW d \in Sessions, FollowUp(c, d)
      PROVE  Kept /\ UNCHANGED log
  <2>1. ASSUME Clear(c, d)
        PROVE  Kept /\ UNCHANGED log
    BY <1>3, <2>1 DEF Clear
  <2>2. ASSUME CloseDecide(c, d)
        PROVE  Kept /\ UNCHANGED log
    BY <1>5, <2>2 DEF CloseDecide
  <2>3. ASSUME CloseSession(c, d) \/ CloseAfterJob(c, d)
        PROVE  Kept /\ UNCHANGED log
    BY <1>21, <2>3 DEF CloseSession, CloseAfterJob
  <2>4. ASSUME ListRunning(c, d)
        PROVE  Kept /\ UNCHANGED log
    BY <1>22, <2>4 DEF ListRunning
  <2>5. ASSUME Attach(c, d)
        PROVE  Kept /\ UNCHANGED log
    <3>1. PICK x : sess' = [sess EXCEPT ![c][d] = [@ EXCEPT !.active = x, !.listed = 0]]
      BY <2>5 DEF Attach
    <3>2. Kept
      BY <1>23, <3>1
    <3>3. QED
      BY <2>5, <3>2 DEF Attach
  <2>6. ASSUME NEW drain, DrainReturns(c, d, drain)
        PROVE  Kept /\ UNCHANGED log
    BY <1>3, <2>6 DEF DrainReturns
  <2>7. ASSUME NEW drain, ClaimNext(c, d, drain)
        PROVE  Kept /\ UNCHANGED log
    BY <1>20, <2>7 DEF ClaimNext
  <2>8. QED
    BY <1>6, <2>1, <2>2, <2>3, <2>4, <2>5, <2>6, <2>7 DEF FollowUp
<1>7. ASSUME NEW c \in Bridges, NEW p \in Prompts, Poll(c, p) \/ Reclaim(c, p)
      PROVE  Kept /\ UNCHANGED log
  <2>1. CASE Poll(c, p)
    BY <1>3, <1>4, <2>1 DEF Poll
  <2>2. CASE Reclaim(c, p)
    <3>1. \E d, x : sess' = [sess EXCEPT ![c][d].active = x]
      BY <2>2 DEF Reclaim
    <3>2. QED
      BY <1>20, <2>2, <3>1 DEF Reclaim
  <2>3. QED
    BY <1>7, <2>1, <2>2
<1>8. ASSUME NEW c \in Bridges, Request(c)
      PROVE  (Kept \/ sess'[b][s].seen = log[s] \/ sess'[b][s].seen = sess[b][s].seen)
               /\ UNCHANGED log
  <2>1. ASSUME NEW d \in Sessions, Open(c, d)
        PROVE  (sess'[b][s].seen = log[s] \/ sess'[b][s].seen = sess[b][s].seen)
                 /\ UNCHANGED log
    BY <1>1, <2>1 DEF Open, NoSess
  <2>2. ASSUME NEW d \in Sessions, SessionCancel(c, d)
        PROVE  Kept /\ UNCHANGED log
    BY <1>5, <2>2 DEF SessionCancel
  <2>3. QED
    BY <1>3, <1>8, <2>1, <2>2
       DEF Request, EnqueueNew, EnqueueAgain, ClearCheck, CloseRequest, Resume,
           DeletePending, Shutdown
<1>9. ASSUME NEW c \in Bridges, Crash(c)
      PROVE  (sess'[b][s].seen = {} \/ sess'[b][s].seen = sess[b][s].seen) /\ UNCHANGED log
  BY <1>1, <1>9 DEF Crash, NoSess
<1>10. ASSUME NEW t \in Tokens, TurnStep(t) \/ Beat(t)
       PROVE  \/ Kept /\ UNCHANGED log
              \/ /\ log' = [log EXCEPT ![claim[t].s] = @ \cup {claim[t].p}]
                 /\ \/ sess' = [sess EXCEPT ![claim[t].b][claim[t].s].seen = @ \cup {claim[t].p}]
                    \/ Kept
  <2>1. ASSUME NoThread(t)
        PROVE  Kept /\ UNCHANGED log
    BY <1>20, <2>1 DEF NoThread
  <2>2. ASSUME Wrap(t)
        PROVE  Kept /\ UNCHANGED log
    BY <1>3, <1>4, <2>2 DEF Wrap
  <2>3. ASSUME Publish(t)
        PROVE  \/ Kept /\ UNCHANGED log
               \/ /\ log' = [log EXCEPT ![claim[t].s] = @ \cup {claim[t].p}]
                  /\ \/ sess' = [sess EXCEPT ![claim[t].b][claim[t].s].seen = @ \cup {claim[t].p}]
                     \/ Kept
    <3>1. CASE claim[t].stray
      <4>1. sess' = [sess EXCEPT ![claim[t].b][claim[t].s].seen = @] => Kept
        BY <1>1 DEF Sess, Kept
      <4>2. QED
        BY <1>3, <2>3, <3>1, <4>1 DEF Publish
    <3>2. CASE ~claim[t].stray
      BY <1>3, <2>3, <3>2 DEF Publish
    <3>3. QED
      BY <3>1, <3>2
  <2>4. QED
    BY <1>3, <1>10, <2>1, <2>2, <2>3
       DEF TurnStep, Decide, MarkStarted, StartTurn, EndTurn, Complete, FailClaim,
           CancelClaimed, Beat
<1>11. CASE Kept /\ UNCHANGED log
  BY <1>11 DEF Kept
<1>12. ASSUME NEW t \in Tokens, TurnStep(t) \/ Beat(t)
       PROVE  /\ sess'[b][s].seen \subseteq sess[b][s].seen \cup log'[s]
              /\ log[s] \subseteq log'[s]
  <2>1. log \in [Sessions -> SUBSET Prompts]
    BY DEF TypeOK
  <2>2. CASE /\ log' = [log EXCEPT ![claim[t].s] = @ \cup {claim[t].p}]
             /\ \/ sess' = [sess EXCEPT ![claim[t].b][claim[t].s].seen = @ \cup {claim[t].p}]
                \/ Kept
    <3>1. log[s] \subseteq log'[s] /\ (claim[t].s = s => claim[t].p \in log'[s])
      BY <2>1, <2>2
    <3>2. \/ sess'[b][s].seen = sess[b][s].seen
          \/ claim[t].s = s /\ sess'[b][s].seen = sess[b][s].seen \cup {claim[t].p}
      <4>1. CASE Kept
        BY <4>1 DEF Kept
      <4>2. CASE sess' = [sess EXCEPT ![claim[t].b][claim[t].s].seen = @ \cup {claim[t].p}]
        <5>1. CASE claim[t].b = b /\ claim[t].s = s
          <6>1. sess'[b][s] = [sess[b][s] EXCEPT !.seen = @ \cup {claim[t].p}]
            BY <1>1, <4>2, <5>1
          <6>2. QED
            BY <1>1, <5>1, <6>1 DEF Sess
        <5>2. CASE ~(claim[t].b = b /\ claim[t].s = s)
          <6>1. sess'[b][s] = sess[b][s]
            BY <1>1, <4>2, <5>2
          <6>2. QED
            BY <6>1
        <5>3. QED
          BY <5>1, <5>2
      <4>3. QED
        BY <2>2, <4>1, <4>2
    <3>3. QED
      BY <3>1, <3>2
  <2>3. QED
    BY <1>10, <1>11, <1>12, <2>2
<1>13. QED
  BY <1>3, <1>6, <1>7, <1>8, <1>9, <1>11, <1>12
     DEF Next, Quietly, Internal, Expire, vars, Kept

-----------------------------------------------------------------------------
(* The types, and what every step keeps.                                   *)

TypeInv == TypeOK /\ NamedClaims

\* What is claimed stays named: a free claim is blank, and a bridge that crashes
\* touches its own.
LEMMA NamedClaimsStep ==
  ASSUME TypeInv, [Next]_vars
  PROVE  NamedClaims'
<1> SUFFICES ASSUME NEW t \in Tokens
             PROVE  IF claim'[t].pc = "free" THEN claim'[t] = FreeClaim
                    ELSE /\ claim'[t].b \in Bridges /\ claim'[t].s \in Sessions
                         /\ claim'[t].p \in Prompts
  BY DEF NamedClaims
<1>1. claim \in [Tokens -> ClaimRecord] /\ claim[t] \in ClaimRecord
  BY DEF TypeInv, TypeOK
<1>2. IF claim[t].pc = "free" THEN claim[t] = FreeClaim
      ELSE claim[t].b \in Bridges /\ claim[t].s \in Sessions /\ claim[t].p \in Prompts
  BY DEF TypeInv, NamedClaims
<1>3. CASE claim'[t] = claim[t]
  BY <1>2, <1>3
<1>4. CASE claim[t].pc # "free" /\ SameWork(t) /\ claim'[t].pc # "free"
  BY <1>2, <1>4 DEF SameWork
<1>5. CASE SameClaim(t)
  BY <1>3, <1>4, <1>5 DEF SameClaim, SameRun
<1>6. ASSUME NEW b \in Bridges, Crash(b)
      PROVE  claim'[t] = claim[t] \/ (claim[t].pc # "free" /\ SameWork(t) /\ claim'[t].pc # "free")
  <2>1. CASE claim[t].pc = "free"
    <3>1. claim[t].b = None
      BY <1>2, <2>1 DEF FreeClaim
    <3>2. QED
      BY <1>6, <3>1, QueueAssumption DEF Crash
  <2>2. CASE claim[t].pc # "free"
    BY <1>1, <1>6, <2>2 DEF Crash, Over, SameWork, ClaimRecord
  <2>3. QED
    BY <2>1, <2>2
<1>7. ASSUME NEW u \in Tokens, NEW b \in Bridges, NEW s \in Sessions, NEW p \in Prompts,
             Claims(u, b, s, p)
      PROVE  \/ claim'[t] = claim[t]
             \/ /\ claim'[t].b = b /\ claim'[t].s = s /\ claim'[t].p = p
                /\ claim'[t].pc = "decide"
  BY <1>1, <1>7 DEF Claims, FreeClaim
<1>8. ASSUME NEW u \in Tokens, TurnStep(u) \/ Beat(u)
      PROVE  claim'[t] = claim[t] \/ (claim[t].pc # "free" /\ SameWork(t) /\ claim'[t].pc # "free")
  <2>1. CASE t # u
    BY <1>8, <2>1, TurnKinds DEF TypeInv
  <2>2. CASE t = u
    <3>1. claim[t].pc # "free"
      BY <1>8, <2>2, TurnKinds DEF TypeInv
    <3>2. SameWork(t)
      BY <1>8, <2>2, TurnKinds
         DEF TypeInv, Ends, Begins, Renews, Runs, Publishes, Proceeds, SameClaim, SameRun
    <3>3. claim'[t].pc # "free"
      BY <1>8, <2>2, TurnKinds
         DEF TypeInv, Ends, Begins, Renews, Runs, Publishes, Proceeds, SameClaim, Moves
    <3>4. QED
      BY <3>1, <3>2, <3>3
  <2>3. QED
    BY <2>1, <2>2
<1>9. QED
  <2>1. CASE Quiet
    BY <1>5, <2>1 DEF Quiet
  <2>2. CASE UNCHANGED claim
    BY <1>3, <2>2
  <2>3. ASSUME NEW u \in Tokens, NEW b \in Bridges, NEW s \in Sessions, NEW p \in Prompts,
               Claims(u, b, s, p)
        PROVE  IF claim'[t].pc = "free" THEN claim'[t] = FreeClaim
               ELSE /\ claim'[t].b \in Bridges /\ claim'[t].s \in Sessions
                    /\ claim'[t].p \in Prompts
    BY <1>3, <1>7, <2>3
  <2>4. QED
    BY <1>3, <1>4, <1>6, <1>8, <2>1, <2>2, <2>3, StepKinds
       DEF TypeInv, Sends, Drops, Rebinds, Expire

\* A claim that was handed out keeps its bridge, its session and its prompt.
LEMMA ClaimKeepsWork ==
  ASSUME TypeInv, [Next]_vars, NEW t \in Tokens, claim[t].pc # "free"
  PROVE  SameWork(t) /\ claim'[t].pc # "free"
<1>1. claim \in [Tokens -> ClaimRecord] /\ claim[t] \in ClaimRecord
  BY DEF TypeInv, TypeOK
<1>2. ASSUME NEW b \in Bridges, Crash(b)
      PROVE  SameWork(t) /\ claim'[t].pc # "free"
  BY <1>1, <1>2 DEF Crash, Over, SameWork, ClaimRecord
<1>3. ASSUME NEW u \in Tokens, NEW b \in Bridges, NEW s \in Sessions, NEW p \in Prompts,
             Claims(u, b, s, p)
      PROVE  claim'[t] = claim[t]
  BY <1>1, <1>3 DEF Claims
<1>4. ASSUME NEW u \in Tokens, TurnStep(u) \/ Beat(u)
      PROVE  claim'[t] = claim[t] \/ (SameWork(t) /\ claim'[t].pc # "free")
  <2>1. CASE t # u
    BY <1>4, <2>1, TurnKinds DEF TypeInv
  <2>2. CASE t = u
    BY <1>4, <2>2, TurnKinds
       DEF TypeInv, Ends, Begins, Renews, Runs, Publishes, Proceeds, SameClaim, SameRun, Moves
  <2>3. QED
    BY <2>1, <2>2
<1>5. claim'[t] = claim[t] => SameWork(t) /\ claim'[t].pc # "free"
  BY DEF SameWork
<1>6. QED
  BY <1>2, <1>3, <1>4, <1>5, StepKinds
     DEF TypeInv, Quiet, SameClaim, SameRun, Sends, Drops, Rebinds, Expire

\* The types are an inductive invariant.
LEMMA TypeInvInductive == /\ Init => TypeInv
                          /\ TypeInv /\ [Next]_vars => TypeInv'
<1>1. Init => TypeInv
  <2>1. Init => TypeOK
    BY NullTypes DEF Init, TypeOK
  <2>2. Init => NamedClaims
    BY DEF Init, NamedClaims, FreeClaim
  <2>3. QED
    BY <2>1, <2>2 DEF TypeInv
<1>2. ASSUME TypeInv, [Next]_vars
      PROVE  TypeInv'
  <2>1. TypeOK'
    <3>1. ASSUME NEW b \in Bridges, Request(b)
          PROVE  TypeOK'
      BY <1>2, <3>1, RequestTypes DEF TypeInv
    <3>2. CASE Quietly(Internal)
      <4>1. UNCHANGED asked
        BY <3>2 DEF Quietly
      <4>2. TypeOK /\ NamedClaims
        BY <1>2 DEF TypeInv
      <4>3. ASSUME NEW b \in Bridges, NEW s \in Sessions, FollowUp(b, s)
            PROVE  TypeOK'
        BY <4>1, <4>2, <4>3, FollowUpTypes
      <4>4. ASSUME NEW t \in Tokens, TurnStep(t) \/ Beat(t)
            PROVE  TypeOK'
        BY <4>1, <4>2, <4>4, TurnTypes
      <4>5. QED
        BY <3>2, <4>1, <4>2, <4>3, <4>4, TimerTypes DEF Quietly, Internal
    <3>3. CASE UNCHANGED vars
      BY <1>2, <3>3 DEF vars, TypeInv, TypeOK
    <3>4. QED
      BY <1>2, <3>1, <3>2, <3>3 DEF Next
  <2>2. QED
    BY <1>2, <2>1, NamedClaimsStep DEF TypeInv
<1>3. QED
  BY <1>1, <1>2

\* The tables of the queue, the bridges, their sessions, jobs and claims are
\* well typed in every state, for any sets and bounds.
THEOREM TypeCorrect == Spec => []TypeOK
<1>1. TypeInv => TypeOK
  BY DEF TypeInv
<1>2. QED
  BY <1>1, TypeInvInductive, PTL DEF Spec

\* What a step may do to a row.
RowStep(p) ==
  \/ row'[p] = row[p]
  \/ /\ row[p].st = "absent"
     /\ \E s \in Sessions, k \in Keys :
          row'[p] = [row[p] EXCEPT !.st = "pending", !.ses = s, !.key = k]
  \/ row[p].st = "pending" /\ row'[p] = [row[p] EXCEPT !.st = "cancelled"]
  \/ /\ row[p].st \in {"pending", "running"}
     /\ \E s \in Sessions : row'[p] = Rebound(row[p], s)
  \/ /\ \E s \in Sessions : p \in Eligible(s)
     /\ \E t \in Tokens, s \in Sessions :
          row'[p] = [row[p] EXCEPT !.st = "running", !.tok = t, !.lses = s, !.fresh = TRUE]
  \/ /\ row[p].st = "running"
     /\ \/ \E x \in BOOLEAN : row'[p] = [row[p] EXCEPT !.fresh = x]
        \/ \E st \in Terminal : row'[p] = Unleased(row[p], st)
        \/ row'[p] = [row[p] EXCEPT !.started = TRUE]

\* Every step does one of these things to a row.
LEMMA RowSteps ==
  ASSUME TypeInv, [Next]_vars, NEW p \in Prompts
  PROVE  RowStep(p)
<1>1. row \in [Prompts -> Row]
  BY DEF TypeInv, TypeOK
<1>2. CASE UNCHANGED row
  BY <1>2 DEF RowStep
<1>3. ASSUME NEW q \in Prompts, NEW s \in Sessions, NEW k \in Keys, Sends(q, s, k)
      PROVE  RowStep(p)
  BY <1>1, <1>3 DEF Sends, RowStep
<1>4. ASSUME NEW D \in SUBSET Prompts, Drops(D)
      PROVE  RowStep(p)
  BY <1>4 DEF Drops, RowStep
<1>5. ASSUME NEW source \in Sessions, NEW target \in Sessions, Rebinds(source, target)
      PROVE  RowStep(p)
  BY <1>5 DEF Rebinds, RowStep
<1>6. ASSUME NEW t \in Tokens, NEW b \in Bridges, NEW s \in Sessions, NEW q \in Prompts,
             Claims(t, b, s, q)
      PROVE  RowStep(p)
  <2>1. CASE p # q
    BY <1>1, <1>6, <2>1 DEF Claims, RowStep
  <2>2. CASE p = q
    <3>1. p \in Eligible(s)
      BY <1>6, <2>2 DEF Claims
    <3>2. row'[p] = [row[p] EXCEPT !.st = "running", !.tok = t, !.lses = s, !.fresh = TRUE]
      BY <1>1, <1>6, <2>2 DEF Claims
    <3>3. QED
      BY <3>1, <3>2 DEF RowStep
  <2>3. QED
    BY <2>1, <2>2
<1>7. ASSUME NEW q \in Prompts, Expire(q)
      PROVE  RowStep(p)
  BY <1>1, <1>7 DEF Expire, RowStep
<1>8. ASSUME NEW t \in Tokens, TurnStep(t) \/ Beat(t)
      PROVE  RowStep(p)
  <2>1. \/ \E st \in Terminal : Ends(t, st)
        \/ Begins(t) \/ Renews(t) \/ Runs(t) \/ Publishes(t) \/ Proceeds(t)
    BY <1>8, TurnKinds DEF TypeInv
  <2>2. Holds(t) => row[claim[t].p].st = "running"
    BY DEF Holds
  <2>3. QED
    BY <1>1, <2>1, <2>2
       DEF Ends, Finished, Begins, Renews, Runs, Publishes, Proceeds, RowStep
<1>9. QED
  BY <1>2, <1>3, <1>4, <1>5, <1>6, <1>7, <1>8, StepKinds DEF TypeInv, Quiet, Crash

\* A row stays, an outcome is final, the execution marker is never taken back,
\* and only a rebinding gives a prompt to another session.
LEMMA RowHistory ==
  ASSUME TypeInv, [Next]_vars, NEW p \in Prompts
  PROVE  /\ row'[p] \in Row
         /\ row'[p].st = "absent" => row'[p] = row[p]
         /\ row[p].st = "absent" => row'[p].st \in {"absent", "pending"}
         /\ row[p].st \in Terminal => row'[p] = row[p]
         /\ row[p].started => row'[p].started
         /\ row[p].moved => row'[p].moved
         /\ row[p].st # "absent" => /\ row'[p].key = row[p].key
                                    /\ row'[p].ses = row[p].ses \/ row'[p].moved
<1>1. row[p] \in Row /\ RowStep(p)
  BY RowSteps DEF TypeInv, TypeOK
<1>2. row'[p] \in Row
  BY TypeInvInductive DEF TypeInv, TypeOK
<1>3. \A s \in Sessions : p \in Eligible(s) => row[p].st \in {"pending", "running"}
  BY DEF Eligible, InState, Expired, Live
<1> DEFINE Kept == /\ row'[p].st = "absent" => row'[p] = row[p]
                   /\ row[p].st = "absent" => row'[p].st \in {"absent", "pending"}
                   /\ row[p].st \in Terminal => row'[p] = row[p]
                   /\ row[p].started => row'[p].started
                   /\ row[p].moved => row'[p].moved
                   /\ row[p].st # "absent" => /\ row'[p].key = row[p].key
                                              /\ row'[p].ses = row[p].ses \/ row'[p].moved
<1>4. CASE row'[p] = row[p]
  BY <1>1, <1>4
<1>5. ASSUME row[p].st = "absent", NEW s, NEW k,
             row'[p] = [row[p] EXCEPT !.st = "pending", !.ses = s, !.key = k]
      PROVE  Kept
  BY <1>1, <1>5 DEF Row, Terminal
<1>6. CASE row[p].st = "pending" /\ row'[p] = [row[p] EXCEPT !.st = "cancelled"]
  BY <1>1, <1>6 DEF Row, Terminal
<1>7. ASSUME row[p].st \in {"pending", "running"}, NEW s, row'[p] = Rebound(row[p], s)
      PROVE  Kept
  BY <1>1, <1>7 DEF Row, Rebound, Unleased, Terminal
<1>8. ASSUME row[p].st \in {"pending", "running"}, NEW s, NEW t,
             row'[p] = [row[p] EXCEPT !.st = "running", !.tok = t, !.lses = s, !.fresh = TRUE]
      PROVE  Kept
  BY <1>1, <1>8 DEF Row, Terminal
<1>9. ASSUME row[p].st = "running",
             \/ \E x \in BOOLEAN : row'[p] = [row[p] EXCEPT !.fresh = x]
             \/ \E st \in Terminal : row'[p] = Unleased(row[p], st)
             \/ row'[p] = [row[p] EXCEPT !.started = TRUE]
      PROVE  Kept
  BY <1>1, <1>9 DEF Row, Unleased, Terminal
<1> HIDE DEF Kept
<1>10. Kept
  BY <1>1, <1>3, <1>4, <1>5, <1>6, <1>7, <1>8, <1>9 DEF RowStep, Kept
<1>11. QED
  BY <1>2, <1>10 DEF Kept

-----------------------------------------------------------------------------
(* The table.                                                              *)

RowShape(p) ==
  /\ row[p].st = "absent" => row[p] = NoRow
  /\ row[p].st # "absent" => row[p].ses \in Sessions /\ row[p].key \in Keys
  /\ row[p].st = "running" <=> row[p].tok # 0

Dense ==
  \A p, q \in Prompts : p < q /\ row[p].st = "absent" => row[q].st = "absent"

\* Two rows of a session have different keys and do not both run.
Apart(p, q) ==
  p # q /\ row[p].st # "absent" /\ row[p].ses = row[q].ses
    => /\ row[p].key # row[q].key
       /\ ~(row[p].st = "running" /\ row[q].st = "running")

TableInv ==
  /\ \A p \in Prompts : RowShape(p)
  /\ Dense
  /\ \A p, q \in Prompts : Apart(p, q)

\* Accepting, rebinding, claiming and finishing keep the shape of a row.
LEMMA RowShapeStep ==
  ASSUME TypeInv, [Next]_vars, NEW p \in Prompts, RowShape(p)
  PROVE  RowShape(p)'
<1>1. row[p] \in Row /\ RowStep(p)
  BY RowSteps DEF TypeInv, TypeOK
<1>2. \A s \in Sessions : p \in Eligible(s) => row[p].st \in {"pending", "running"}
  BY DEF Eligible, InState, Expired, Live
<1>3. CASE row'[p] = row[p]
  BY <1>3 DEF RowShape
<1>4. ASSUME row[p].st = "absent", NEW s \in Sessions, NEW k \in Keys,
             row'[p] = [row[p] EXCEPT !.st = "pending", !.ses = s, !.key = k]
      PROVE  RowShape(p)'
  BY <1>1, <1>4 DEF Row, RowShape, NoRow
<1>5. CASE row[p].st = "pending" /\ row'[p] = [row[p] EXCEPT !.st = "cancelled"]
  BY <1>1, <1>5 DEF Row, RowShape
<1>6. ASSUME row[p].st \in {"pending", "running"}, NEW s \in Sessions, row'[p] = Rebound(row[p], s)
      PROVE  RowShape(p)'
  BY <1>1, <1>6 DEF Row, Rebound, Unleased, RowShape
<1>7. ASSUME row[p].st \in {"pending", "running"}, NEW s \in Sessions, NEW t \in Tokens,
             row'[p] = [row[p] EXCEPT !.st = "running", !.tok = t, !.lses = s, !.fresh = TRUE]
      PROVE  RowShape(p)'
  BY <1>1, <1>7 DEF Row, RowShape, Tokens
<1>8. ASSUME row[p].st = "running",
             \/ \E x \in BOOLEAN : row'[p] = [row[p] EXCEPT !.fresh = x]
             \/ \E st \in Terminal : row'[p] = Unleased(row[p], st)
             \/ row'[p] = [row[p] EXCEPT !.started = TRUE]
      PROVE  RowShape(p)'
  BY <1>1, <1>8 DEF Row, Unleased, Terminal, RowShape
<1>9. QED
  BY <1>1, <1>2, <1>3, <1>4, <1>5, <1>6, <1>7, <1>8 DEF RowStep

\* Sequence numbers are given out in order.
LEMMA DenseStep ==
  ASSUME TypeInv, [Next]_vars, Dense
  PROVE  Dense'
<1> SUFFICES ASSUME NEW p \in Prompts, NEW q \in Prompts, p < q, row'[p].st = "absent"
             PROVE  row'[q].st = "absent"
  BY DEF Dense
<1>1. row[p].st = "absent" /\ row[q].st = "absent"
  BY RowHistory DEF Dense
<1>2. row'[q] = row[q] \/ \E s \in Sessions, k \in Keys : Sends(q, s, k)
  <2>1. row \in [Prompts -> Row]
    BY DEF TypeInv, TypeOK
  <2>2. ASSUME NEW r \in Prompts, NEW s \in Sessions, NEW k \in Keys, Sends(r, s, k)
        PROVE  row'[q] = row[q] \/ Sends(q, s, k)
    BY <2>1, <2>2 DEF Sends
  <2>3. ASSUME NEW D \in SUBSET Prompts, Drops(D)
        PROVE  row'[q] = row[q]
    BY <1>1, <2>3 DEF Drops
  <2>4. ASSUME NEW source \in Sessions, NEW target \in Sessions, Rebinds(source, target)
        PROVE  row'[q] = row[q]
    BY <1>1, <2>4 DEF Rebinds
  <2>5. ASSUME NEW t \in Tokens, NEW b \in Bridges, NEW s \in Sessions, NEW r \in Prompts,
               Claims(t, b, s, r)
        PROVE  row'[q] = row[q]
    <3>1. row[r].st \in {"pending", "running"}
      BY <2>5 DEF Claims, Eligible, InState, Expired, Live
    <3>2. QED
      BY <1>1, <2>1, <2>5, <3>1 DEF Claims
  <2>6. ASSUME NEW r \in Prompts, Expire(r)
        PROVE  row'[q] = row[q]
    BY <1>1, <2>1, <2>6 DEF Expire
  <2>7. ASSUME NEW t \in Tokens, TurnStep(t) \/ Beat(t)
        PROVE  row'[q] = row[q]
    <3>1. \/ \E st \in Terminal : Ends(t, st)
          \/ Begins(t) \/ Renews(t) \/ Runs(t) \/ Publishes(t) \/ Proceeds(t)
      BY <2>7, TurnKinds DEF TypeInv
    <3>2. Holds(t) => row[claim[t].p].st = "running"
      BY DEF Holds
    <3>3. QED
      BY <1>1, <2>1, <3>1, <3>2 DEF Ends, Finished, Begins, Renews, Runs, Publishes, Proceeds
  <2>8. QED
    BY <2>2, <2>3, <2>4, <2>5, <2>6, <2>7, StepKinds DEF TypeInv, Quiet, Crash
<1>3. QED
  BY <1>1, <1>2 DEF Sends

\* Rebinding a queue and claiming a prompt keep the unique indexes.
LEMMA ApartStep ==
  ASSUME TypeInv, TableInv, [Next]_vars, NEW p \in Prompts, NEW q \in Prompts
  PROVE  Apart(p, q)'
<1>1. row \in [Prompts -> Row] /\ row[p] \in Row /\ row[q] \in Row
  BY DEF TypeInv, TypeOK
<1>2. Apart(p, q) /\ Apart(q, p) /\ RowShape(p) /\ RowShape(q)
  BY DEF TableInv
<1>3. None \notin Sessions
  BY QueueAssumption
<1> SUFFICES ASSUME p # q
             PROVE  Apart(p, q)'
  BY DEF Apart
\* A row that keeps its session and key and does not begin to run is no worse.
<1> DEFINE Same(r) == /\ row'[r].ses = row[r].ses /\ row'[r].key = row[r].key
                      /\ row'[r].st = "absent" <=> row[r].st = "absent"
                      /\ row'[r].st = "running" => row[r].st = "running"
<1>5. Same(p) /\ Same(q) => Apart(p, q)'
  BY <1>2 DEF Apart
<1>6. ASSUME NEW r \in Prompts, NEW s \in Sessions, NEW k \in Keys, Sends(r, s, k)
      PROVE  Apart(p, q)'
  <2>1. \A x \in Prompts \ {r} : row'[x] = row[x]
    BY <1>1, <1>6 DEF Sends
  <2>2. row'[r].st = "pending" /\ row'[r].ses = s /\ row'[r].key = k
    BY <1>1, <1>6 DEF Sends, Row
  <2>3. \A x \in Prompts : row[x].ses = s => row[x].key # k
    BY <1>6 DEF Sends
  <2>4. CASE r # p /\ r # q
    BY <1>2, <2>1, <2>4 DEF Apart
  <2>5. CASE r = p \/ r = q
    BY <2>1, <2>2, <2>3, <2>5 DEF Apart
  <2>6. QED
    BY <2>4, <2>5
<1>7. ASSUME NEW D \in SUBSET Prompts, Drops(D)
      PROVE  Apart(p, q)'
  <2>1. ASSUME NEW r \in Prompts
        PROVE  Same(r)
    <3>1. row[r] \in Row
      BY <1>1
    <3>2. \/ row'[r] = row[r]
          \/ row[r].st = "pending" /\ row'[r] = [row[r] EXCEPT !.st = "cancelled"]
      BY <1>7 DEF Drops
    <3>3. QED
      BY <3>1, <3>2 DEF Row
  <2>2. QED
    BY <1>5, <2>1
<1>8. ASSUME NEW source \in Sessions, NEW target \in Sessions, Rebinds(source, target)
      PROVE  Apart(p, q)'
  <2> DEFINE Moved(r) == row[r].ses = source /\ row[r].st \in {"pending", "running"}
  <2>1. ASSUME NEW r \in Prompts
        PROVE  /\ row'[r].key = row[r].key
               /\ row'[r].st = "absent" <=> row[r].st = "absent"
               /\ row'[r].st = "running" => row[r].st = "running"
               /\ Moved(r) => row'[r].ses = target
               /\ ~Moved(r) => row'[r].ses = row[r].ses
    <3>1. row[r] \in Row
      BY <1>1
    <3>2. IF Moved(r) THEN row'[r] = Rebound(row[r], target) ELSE row'[r] = row[r]
      BY <1>8 DEF Rebinds
    <3>3. QED
      BY <3>1, <3>2 DEF Row, Rebound, Unleased
  <2>2. \A x, y \in Prompts : Moved(x) /\ row[y].ses = target => row[y].key # row[x].key
    BY <1>8 DEF Rebinds, CanRebind, InState
  <2>3. \A x, y \in Prompts :
          Moved(x) /\ row[y].ses = target => ~(row[x].st = "running" /\ row[y].st = "running")
    BY <1>8 DEF Rebinds, CanRebind, InState
  <2> HIDE DEF Moved
  <2>4. CASE Moved(p) /\ Moved(q)
    <3>1. row[p].ses = row[q].ses /\ row[p].st # "absent"
      BY <2>4 DEF Moved
    <3>2. QED
      BY <1>2, <2>1, <3>1 DEF Apart
  <2>5. CASE Moved(p) /\ ~Moved(q)
    BY <2>1, <2>2, <2>3, <2>5 DEF Apart
  <2>6. CASE ~Moved(p) /\ Moved(q)
    BY <2>1, <2>2, <2>3, <2>6 DEF Apart
  <2>7. CASE ~Moved(p) /\ ~Moved(q)
    BY <1>2, <2>1, <2>7 DEF Apart
  <2>8. QED
    BY <2>4, <2>5, <2>6, <2>7
<1>9. ASSUME NEW t \in Tokens, NEW b \in Bridges, NEW s \in Sessions, NEW r \in Prompts,
             Claims(t, b, s, r)
      PROVE  Apart(p, q)'
  <2>1. \A x \in Prompts \ {r} : row'[x] = row[x]
    BY <1>1, <1>9 DEF Claims
  <2>2. row[r] \in Row /\ row[r].ses = s /\ row[r].st \in {"pending", "running"}
    BY <1>1, <1>9 DEF Claims, Eligible, InState, Expired, Live
  <2>3. /\ row'[r].st = "running" /\ row'[r].ses = row[r].ses /\ row'[r].key = row[r].key
    BY <1>1, <1>9, <2>2 DEF Claims, Row
  <2>4. \A x \in Prompts \ {r} : row[x].ses = s => row[x].st # "running"
    BY <1>9 DEF Claims, InState
  <2>5. QED
    BY <1>2, <2>1, <2>2, <2>3, <2>4 DEF Apart
<1>10. ASSUME NEW r \in Prompts, Expire(r)
       PROVE  Apart(p, q)'
  <2>1. ASSUME NEW x \in Prompts
        PROVE  Same(x)
    <3>1. row[x] \in Row
      BY <1>1
    <3>2. row'[x] = row[x] \/ row'[x] = [row[x] EXCEPT !.fresh = FALSE]
      BY <1>1, <1>10 DEF Expire
    <3>3. QED
      BY <3>1, <3>2 DEF Row
  <2>2. QED
    BY <1>5, <2>1
<1>11. ASSUME NEW t \in Tokens, TurnStep(t) \/ Beat(t)
       PROVE  Apart(p, q)'
  <2>1. ASSUME NEW x \in Prompts
        PROVE  Same(x)
    <3>1. row[x] \in Row
      BY <1>1
    <3>2. \/ \E st \in Terminal : Ends(t, st)
          \/ Begins(t) \/ Renews(t) \/ Runs(t) \/ Publishes(t) \/ Proceeds(t)
      BY <1>11, TurnKinds DEF TypeInv
    <3>3. \/ row'[x] = row[x]
          \/ /\ row[x].st = "running"
             /\ \/ row'[x] = [row[x] EXCEPT !.fresh = TRUE]
                \/ row'[x] = [row[x] EXCEPT !.started = TRUE]
                \/ \E st \in Terminal : row'[x] = Unleased(row[x], st)
      BY <1>1, <3>2 DEF Holds, Ends, Finished, Begins, Renews, Runs, Publishes, Proceeds
    <3>4. QED
      BY <3>1, <3>3 DEF Row, Unleased, Terminal
  <2>2. QED
    BY <1>5, <2>1
<1>12. CASE UNCHANGED row
  BY <1>2, <1>12 DEF Apart
<1>13. QED
  BY <1>6, <1>7, <1>8, <1>9, <1>10, <1>11, <1>12, StepKinds DEF TypeInv, Quiet, Crash

\* The table is well formed from the start.
LEMMA TableInductive == /\ Init => TableInv
                        /\ TypeInv /\ TableInv /\ [Next]_vars => TableInv'
<1>1. Init => TableInv
  BY DEF Init, TableInv, RowShape, Dense, Apart, NoRow
<1>2. ASSUME TypeInv, TableInv, [Next]_vars
      PROVE  TableInv'
  <2>1. \A p \in Prompts : RowShape(p)'
    BY <1>2, RowShapeStep DEF TableInv
  <2>2. Dense'
    BY <1>2, DenseStep DEF TableInv
  <2>3. \A p, q \in Prompts : Apart(p, q)'
    BY <1>2, ApartStep
  <2>4. QED
    BY <2>1, <2>2, <2>3 DEF TableInv
<1>3. QED
  BY <1>1, <1>2

\* Exactly the running rows have a lease token, and claims, retries and
\* rebindings never give a session two running prompts or two prompts with the
\* same idempotency key, for any number of bridges, sessions and prompts.
THEOREM SchemaIsKept == Spec => []SchemaHolds
<1>1. TableInv => SchemaHolds
  BY DEF TableInv, RowShape, Apart, SchemaHolds
<1>2. QED
  BY <1>1, TypeInvInductive, TableInductive, PTL DEF Spec

-----------------------------------------------------------------------------
(* The order of a session's prompts, and the turns that were begun.        *)

\* A prompt that runs has outlived the earlier ones of its session, unless one
\* of them came from another session.
InOrder ==
  \A p, q \in Prompts :
    /\ row[p].st = "running" /\ ~row[p].moved
    /\ q < p /\ row[q].ses = row[p].ses /\ ~row[q].moved
    => row[q].st \in Terminal

\* A prompt that begins to run was the oldest of the eligible ones.
LEMMA InOrderStep ==
  ASSUME TypeInv, TableInv, InOrder, [Next]_vars
  PROVE  InOrder'
<1> SUFFICES ASSUME NEW p \in Prompts, NEW q \in Prompts,
                    row'[p].st = "running", ~row'[p].moved,
                    q < p, row'[q].ses = row'[p].ses, ~row'[q].moved
             PROVE  row'[q].st \in Terminal
  BY DEF InOrder
<1>1. /\ row \in [Prompts -> Row] /\ row[p] \in Row /\ row[q] \in Row
      /\ q \in Nat /\ p \in Nat
  <2>1. row \in [Prompts -> Row]
    BY DEF TypeInv, TypeOK
  <2>2. q \in Nat /\ p \in Nat
    BY DEF Prompts
  <2>3. QED
    BY <2>1, <2>2
<1>2. row[p].st # "absent" /\ row[q].st # "absent"
  <2>1. row[p].st # "absent"
    BY RowHistory
  <2>2. row[q].st # "absent"
    BY <2>1 DEF TableInv, Dense
  <2>3. QED
    BY <2>1, <2>2
<1>3. /\ row[q].ses = row[p].ses /\ ~row[q].moved /\ ~row[p].moved
  BY <1>2, RowHistory
<1>4. row[q].st \in Terminal => row'[q].st \in Terminal
  BY RowHistory
<1>5. CASE row[p].st = "running"
  BY <1>1, <1>3, <1>4, <1>5 DEF InOrder
<1>6. CASE row[p].st # "running"
  <2>1. \E s \in Sessions : /\ p \in Eligible(s) /\ \A x \in Eligible(s) : p <= x
    <3>1. ASSUME NEW t \in Tokens, TurnStep(t) \/ Beat(t)
          PROVE  FALSE
      <4>1. \/ \E st \in Terminal : Ends(t, st)
            \/ Begins(t) \/ Renews(t) \/ Runs(t) \/ Publishes(t) \/ Proceeds(t)
        BY <3>1, TurnKinds DEF TypeInv
      <4>2. row'[p] = row[p] \/ row[p].st = "running"
        BY <1>1, <4>1 DEF Holds, Ends, Finished, Begins, Renews, Runs, Publishes, Proceeds
      <4>3. QED
        BY <1>6, <4>2
    <3>2. ASSUME NEW t \in Tokens, NEW b \in Bridges, NEW s \in Sessions, NEW r \in Prompts,
                 Claims(t, b, s, r)
          PROVE  p \in Eligible(s) /\ \A x \in Eligible(s) : p <= x
      <4>1. p = r
        BY <1>1, <1>6, <3>2 DEF Claims
      <4>2. QED
        BY <3>2, <4>1 DEF Claims
    <3>3. ASSUME NEW r \in Prompts, NEW s \in Sessions, NEW k \in Keys, Sends(r, s, k)
          PROVE  FALSE
      <4>1. row'[p] = row[p]
        BY <1>1, <1>2, <3>3 DEF Sends
      <4>2. QED
        BY <1>6, <4>1
    <3>4. ASSUME NEW D \in SUBSET Prompts, Drops(D)
          PROVE  FALSE
      <4>1. row'[p] = row[p] \/ row'[p] = [row[p] EXCEPT !.st = "cancelled"]
        BY <3>4 DEF Drops
      <4>2. QED
        BY <1>1, <1>6, <4>1 DEF Row
    <3>5. ASSUME NEW source \in Sessions, NEW target \in Sessions, Rebinds(source, target)
          PROVE  FALSE
      <4>1. row'[p] = row[p] \/ row'[p] = Rebound(row[p], target)
        BY <3>5 DEF Rebinds
      <4>2. QED
        BY <1>1, <1>6, <4>1 DEF Row, Rebound, Unleased
    <3>6. ASSUME NEW r \in Prompts, Expire(r)
          PROVE  FALSE
      <4>1. row'[p] = row[p] \/ row'[p] = [row[p] EXCEPT !.fresh = FALSE]
        BY <1>1, <3>6 DEF Expire
      <4>2. QED
        BY <1>1, <1>6, <4>1 DEF Row
    <3>7. row' # row
      BY <1>6
    <3>8. QED
      BY <3>1, <3>2, <3>3, <3>4, <3>5, <3>6, <3>7, StepKinds DEF TypeInv, Quiet, Crash
  <2>2. PICK s \in Sessions : p \in Eligible(s) /\ \A x \in Eligible(s) : p <= x
    BY <2>1
  <2>3. row[p].ses = s /\ Live(s) = {}
    BY <2>2 DEF Eligible, InState, Expired, Live
  <2>4. q \notin Eligible(s)
    BY <1>1, <2>2
  <2>5. q \notin InState(s, "pending") /\ q \notin InState(s, "running")
    BY <2>3, <2>4 DEF Eligible, Expired, Live
  <2>6. row[q].st \notin {"pending", "running"}
    BY <1>3, <2>3, <2>5 DEF InState
  <2>7. QED
    BY <1>1, <1>2, <1>4, <2>6 DEF Row
<1>7. QED
  BY <1>5, <1>6

\* The turn of a claim was started, or is about to be.
Marked(t) == claim[t].ran \/ claim[t].pc = "ready"

Marks ==
  /\ \A t \in Tokens : Marked(t) => row[claim[t].p].started
  /\ \A t, u \in Tokens :
       Marked(t) /\ Marked(u) /\ claim[t].p = claim[u].p => t = u
  /\ \A t \in Tokens : claim[t].pc \in {"turn", "publish", "settle"} => claim[t].ran

\* A claim becomes marked only when it marks its prompt.
LEMMA MarkedStep ==
  ASSUME TypeInv, [Next]_vars, NEW t \in Tokens, Marked(t)', ~Marked(t)
  PROVE  Begins(t) /\ \A u \in Tokens \ {t} : claim'[u] = claim[u]
<1>1. claim \in [Tokens -> ClaimRecord] /\ claim[t] \in ClaimRecord
  BY DEF TypeInv, TypeOK
<1>2. ~SameClaim(t) /\ claim' # claim
  BY DEF SameClaim, SameRun, SameWork, Marked
<1>3. ASSUME NEW b \in Bridges, Crash(b)
      PROVE  FALSE
  <2>1. claim'[t] = claim[t] \/ claim'[t] = Over(claim[t])
    BY <1>3 DEF Crash
  <2>2. QED
    BY <1>1, <2>1 DEF Over, Marked, ClaimRecord
<1>4. ASSUME NEW u \in Tokens, NEW b \in Bridges, NEW s \in Sessions, NEW p \in Prompts,
             Claims(u, b, s, p)
      PROVE  FALSE
  <2>1. claim'[t] = claim[t] \/ (claim'[t].pc = "decide" /\ claim'[t].ran = FALSE)
    BY <1>1, <1>4 DEF Claims, FreeClaim
  <2>2. QED
    BY <2>1 DEF Marked
<1>5. ASSUME NEW u \in Tokens, TurnStep(u) \/ Beat(u)
      PROVE  Begins(t) /\ \A v \in Tokens \ {t} : claim'[v] = claim[v]
  <2>1. t = u /\ \A v \in Tokens \ {t} : claim'[v] = claim[v]
    BY <1>5, TurnKinds DEF TypeInv, Marked
  <2>2. \/ \E st \in Terminal : Ends(t, st)
        \/ Begins(t) \/ Renews(t) \/ Runs(t) \/ Publishes(t) \/ Proceeds(t)
    BY <1>5, <2>1, TurnKinds DEF TypeInv
  <2>3. Begins(t)
    BY <1>2, <2>2 DEF Ends, Renews, Runs, Publishes, Proceeds, Moves, SameRun, Marked
  <2>4. QED
    BY <2>1, <2>3
<1>6. QED
  BY <1>2, <1>3, <1>4, <1>5, StepKinds DEF TypeInv, Quiet, Sends, Drops, Rebinds, Expire

\* mark_execution_started refuses a prompt that was marked before, so that two
\* claims are never marked for the same one.
LEMMA MarksStep ==
  ASSUME TypeInv, Marks, [Next]_vars
  PROVE  Marks'
<1>1. \A t \in Tokens : Marked(t) => claim[t].pc # "free" /\ claim[t].p \in Prompts
  BY DEF Marked, TypeInv, NamedClaims, FreeClaim
<1>2. ASSUME NEW t \in Tokens, Marked(t)
      PROVE  claim'[t].p = claim[t].p
  BY <1>1, <1>2, ClaimKeepsWork DEF SameWork
<1>3. ASSUME NEW t \in Tokens, Marked(t)', ~Marked(t)
      PROVE  /\ row'[claim'[t].p].started /\ ~row[claim[t].p].started
             /\ claim'[t].p = claim[t].p /\ claim[t].p \in Prompts
             /\ \A u \in Tokens \ {t} : claim'[u] = claim[u]
  <2>1. Begins(t) /\ \A u \in Tokens \ {t} : claim'[u] = claim[u]
    BY <1>3, MarkedStep
  <2>2. claim[t].p \in Prompts
    BY <2>1 DEF Begins, Moves, TypeInv, NamedClaims
  <2>3. row \in [Prompts -> Row] /\ row[claim[t].p] \in Row
    BY <2>2 DEF TypeInv, TypeOK
  <2>4. QED
    BY <2>1, <2>2, <2>3 DEF Begins, SameRun, SameWork, Row
<1>4. \A t \in Tokens : Marked(t)' => row'[claim'[t].p].started
  <2> SUFFICES ASSUME NEW t \in Tokens, Marked(t)'
               PROVE  row'[claim'[t].p].started
    OBVIOUS
  <2>1. CASE Marked(t)
    BY <1>1, <1>2, <2>1, RowHistory DEF Marks
  <2>2. CASE ~Marked(t)
    BY <1>3, <2>2
  <2>3. QED
    BY <2>1, <2>2
<1>5. ASSUME NEW t \in Tokens, NEW u \in Tokens, Marked(t)', Marked(u)',
             claim'[t].p = claim'[u].p, t # u
      PROVE  FALSE
  <2>1. CASE Marked(t) /\ Marked(u)
    BY <1>2, <1>5, <2>1 DEF Marks
  <2>2. ASSUME NEW v \in Tokens, NEW w \in Tokens, v # w, Marked(v)', ~Marked(v), Marked(w)',
               claim'[v].p = claim'[w].p
        PROVE  FALSE
    <3>1. claim'[w] = claim[w]
      BY <1>3, <2>2
    <3>2. Marked(w)
      BY <2>2, <3>1 DEF Marked
    <3>3. row[claim[w].p].started
      BY <3>2 DEF Marks
    <3>4. QED
      BY <1>3, <2>2, <3>1, <3>3
  <2>3. QED
    BY <1>5, <2>1, <2>2
<1>6. ASSUME NEW t \in Tokens, claim'[t].pc \in {"turn", "publish", "settle"}
      PROVE  claim'[t].ran
  <2>1. claim \in [Tokens -> ClaimRecord] /\ claim[t] \in ClaimRecord
    BY DEF TypeInv, TypeOK
  <2>2. claim[t].pc \in {"turn", "publish", "settle"} => claim[t].ran
    BY DEF Marks
  <2>3. ASSUME NEW b \in Bridges, Crash(b)
        PROVE  claim'[t].ran
    <3>1. claim'[t] = claim[t] \/ claim'[t] = Over(claim[t])
      BY <2>3 DEF Crash
    <3>2. QED
      BY <1>6, <2>1, <2>2, <3>1 DEF Over, ClaimRecord
  <2>4. ASSUME NEW u \in Tokens, NEW b \in Bridges, NEW s \in Sessions, NEW p \in Prompts,
               Claims(u, b, s, p)
        PROVE  claim'[t].ran
    <3>1. claim'[t] = claim[t] \/ claim'[t].pc = "decide"
      BY <2>1, <2>4 DEF Claims, FreeClaim
    <3>2. QED
      BY <1>6, <2>2, <3>1
  <2>5. ASSUME NEW u \in Tokens, TurnStep(u) \/ Beat(u)
        PROVE  claim'[t].ran
    <3>1. CASE t # u
      BY <1>6, <2>2, <2>5, <3>1, TurnKinds DEF TypeInv
    <3>2. CASE t = u
      <4>1. \/ \E st \in Terminal : Ends(t, st)
            \/ Begins(t) \/ Renews(t) \/ Runs(t) \/ Publishes(t) \/ Proceeds(t)
        BY <2>5, <3>2, TurnKinds DEF TypeInv
      <4>2. QED
        BY <1>6, <2>2, <4>1
           DEF Ends, Begins, Renews, Runs, Publishes, Proceeds, SameClaim, SameRun, Moves
    <3>3. QED
      BY <3>1, <3>2
  <2>6. ASSUME SameClaim(t) \/ UNCHANGED claim
        PROVE  claim'[t].ran
    BY <1>6, <2>2, <2>6 DEF SameClaim, SameRun
  <2>7. QED
    BY <2>3, <2>4, <2>5, <2>6, StepKinds DEF TypeInv, Quiet, Sends, Drops, Rebinds, Expire
<1>7. QED
  BY <1>4, <1>5, <1>6 DEF Marks, Marked

\* What the logs say was executed.
Published ==
  /\ \A b \in Bridges, s \in Sessions : sess[b][s].seen \subseteq log[s]
  /\ \A s \in Sessions : \A p \in log[s] : row[p].started
  /\ \A t \in Tokens : claim[t].pc = "settle" => claim[t].p \in log[claim[t].s]
  /\ \A p \in Prompts :
       row[p].st = "completed" => \E s \in Sessions : p \in log[s]

\* A turn publishes only what it began, and only what was published completes.
LEMMA PublishedStep ==
  ASSUME TypeInv, TableInv, Marks, Published, [Next]_vars
  PROVE  Published'
<1>1. /\ log \in [Sessions -> SUBSET Prompts] /\ row \in [Prompts -> Row]
      /\ claim \in [Tokens -> ClaimRecord]
  BY DEF TypeInv, TypeOK
<1>2. \A b \in Bridges, s \in Sessions : sess'[b][s].seen \subseteq log'[s]
  <2> TAKE b \in Bridges, s \in Sessions
  <2>1. /\ sess'[b][s].seen \subseteq sess[b][s].seen \cup log'[s]
        /\ log[s] \subseteq log'[s]
    BY SeenSteps DEF TypeInv
  <2>2. sess[b][s].seen \subseteq log[s]
    BY DEF Published
  <2>3. QED
    BY <2>1, <2>2
\* The logs grow by the prompts of claims at "publish".
<1>4. ASSUME NEW u \in Tokens, Publishes(u)
      PROVE  /\ claim[u].s \in Sessions /\ claim[u].p \in Prompts
             /\ row[claim[u].p].started
             /\ \A s \in Sessions : log'[s] = IF s = claim[u].s THEN log[s] \cup {claim[u].p}
                                             ELSE log[s]
  <2>1. claim[u].pc = "publish"
    BY <1>4 DEF Publishes, Moves
  <2>2. claim[u].s \in Sessions /\ claim[u].p \in Prompts
    BY <2>1 DEF TypeInv, NamedClaims
  <2>3. row[claim[u].p].started
    BY <2>1 DEF Marks, Marked
  <2>4. QED
    BY <1>1, <1>4, <2>2, <2>3 DEF Publishes
<1>5. UNCHANGED log \/ \E u \in Tokens : Publishes(u)
  <2>1. ASSUME NEW u \in Tokens, TurnStep(u) \/ Beat(u)
        PROVE  UNCHANGED log \/ Publishes(u)
    <3>1. \/ \E st \in Terminal : Ends(u, st)
          \/ Begins(u) \/ Renews(u) \/ Runs(u) \/ Publishes(u) \/ Proceeds(u)
      BY <2>1, TurnKinds DEF TypeInv
    <3>2. QED
      BY <3>1 DEF Ends, Begins, Renews, Runs, Proceeds
  <2>2. Quiet => UNCHANGED log
    BY DEF Quiet
  <2>3. ASSUME NEW p \in Prompts, NEW s \in Sessions, NEW k \in Keys, Sends(p, s, k)
        PROVE  UNCHANGED log
    BY <2>3 DEF Sends
  <2>4. ASSUME NEW D \in SUBSET Prompts, Drops(D)
        PROVE  UNCHANGED log
    BY <2>4 DEF Drops
  <2>5. ASSUME NEW source \in Sessions, NEW target \in Sessions, Rebinds(source, target)
        PROVE  UNCHANGED log
    BY <2>5 DEF Rebinds
  <2>6. ASSUME NEW b \in Bridges, Crash(b)
        PROVE  UNCHANGED log
    BY <2>6 DEF Crash
  <2>7. ASSUME NEW t \in Tokens, NEW b \in Bridges, NEW s \in Sessions, NEW p \in Prompts,
               Claims(t, b, s, p)
        PROVE  UNCHANGED log
    BY <2>7 DEF Claims
  <2>8. ASSUME NEW p \in Prompts, Expire(p)
        PROVE  UNCHANGED log
    BY <2>8 DEF Expire
  <2>9. QED
    BY <2>1, <2>2, <2>3, <2>4, <2>5, <2>6, <2>7, <2>8, StepKinds DEF TypeInv
<1>6. \A s \in Sessions : log[s] \subseteq log'[s]
  BY <1>4, <1>5
<1>7. ASSUME NEW s \in Sessions, NEW p \in log'[s]
      PROVE  row'[p].started
  <2>1. p \in log[s] => p \in Prompts /\ row[p].started
    BY <1>1 DEF Published
  <2>2. ASSUME NEW u \in Tokens, Publishes(u), p \notin log[s]
        PROVE  p \in Prompts /\ row[p].started
    <3>1. p = claim[u].p
      <4>1. log'[s] = IF s = claim[u].s THEN log[s] \cup {claim[u].p} ELSE log[s]
        BY <1>4, <2>2
      <4>2. QED
        BY <1>7, <2>2, <4>1
    <3>2. QED
      BY <1>4, <2>2, <3>1
  <2>3. p \in Prompts /\ row[p].started
    BY <1>5, <1>7, <2>1, <2>2
  <2>4. QED
    BY <2>3, RowHistory
<1>8. ASSUME NEW t \in Tokens, claim'[t].pc = "settle"
      PROVE  claim'[t].p \in log'[claim'[t].s]
  <2>1. CASE claim[t].pc = "settle"
    <3>1. /\ claim'[t].p = claim[t].p /\ claim'[t].s = claim[t].s
          /\ claim[t].s \in Sessions
      BY <2>1, ClaimKeepsWork DEF SameWork, TypeInv, NamedClaims
    <3>2. QED
      BY <1>6, <2>1, <3>1 DEF Published
  <2>2. CASE claim[t].pc # "settle"
    <3>1. ASSUME NEW b \in Bridges, Crash(b)
          PROVE  FALSE
      <4>1. claim'[t] = claim[t] \/ claim'[t] = Over(claim[t])
        BY <3>1 DEF Crash
      <4>2. QED
        BY <1>1, <1>8, <2>2, <4>1 DEF Over, ClaimRecord
    <3>2. ASSUME NEW u \in Tokens, NEW b \in Bridges, NEW s \in Sessions, NEW p \in Prompts,
                 Claims(u, b, s, p)
          PROVE  FALSE
      <4>1. claim'[t] = claim[t] \/ claim'[t].pc = "decide"
        BY <1>1, <3>2 DEF Claims, FreeClaim
      <4>2. QED
        BY <1>8, <2>2, <4>1
    <3>3. ASSUME NEW u \in Tokens, TurnStep(u) \/ Beat(u)
          PROVE  Publishes(t)
      <4>1. t = u
        BY <1>8, <2>2, <3>3, TurnKinds DEF TypeInv
      <4>2. \/ \E st \in Terminal : Ends(t, st)
            \/ Begins(t) \/ Renews(t) \/ Runs(t) \/ Publishes(t) \/ Proceeds(t)
        BY <3>3, <4>1, TurnKinds DEF TypeInv
      <4>3. QED
        BY <1>8, <2>2, <4>2 DEF Ends, Begins, Renews, Runs, Proceeds, SameClaim, Moves
    <3>4. ~SameClaim(t) /\ claim' # claim
      BY <1>8, <2>2 DEF SameClaim
    <3>5. Publishes(t)
      BY <3>1, <3>2, <3>3, <3>4, StepKinds DEF TypeInv, Quiet, Sends, Drops, Rebinds, Expire
    <3>6. claim'[t].p = claim[t].p /\ claim'[t].s = claim[t].s
      BY <3>5 DEF Publishes, SameRun, SameWork
    <3>7. claim[t].p \in log'[claim[t].s]
      BY <1>4, <3>5
    <3>8. QED
      BY <3>6, <3>7
  <2>3. QED
    BY <2>1, <2>2
<1>9. ASSUME NEW p \in Prompts, row'[p].st = "completed"
      PROVE  \E s \in Sessions : p \in log'[s]
  <2>1. CASE row[p].st = "completed"
    BY <1>6, <2>1 DEF Published
  <2>2. CASE row[p].st # "completed"
    <3>1. row[p] \in Row /\ row[p].st # "absent"
      BY <1>1, <1>9, RowHistory
    <3>2. ASSUME NEW u \in Tokens, TurnStep(u) \/ Beat(u)
          PROVE  claim[u].p = p /\ Ends(u, "completed")
      <4>1. \/ \E st \in Terminal : Ends(u, st)
            \/ Begins(u) \/ Renews(u) \/ Runs(u) \/ Publishes(u) \/ Proceeds(u)
        BY <3>2, TurnKinds DEF TypeInv
      <4>2. CASE Begins(u) \/ Renews(u) \/ Runs(u) \/ Publishes(u) \/ Proceeds(u)
        <5>1. \/ row'[p] = row[p]
              \/ row'[p] = [row[p] EXCEPT !.started = TRUE]
              \/ row'[p] = [row[p] EXCEPT !.fresh = TRUE]
          BY <1>1, <4>2 DEF Begins, Renews, Runs, Publishes, Proceeds
        <5>2. QED
          BY <1>9, <2>2, <3>1, <5>1 DEF Row
      <4>3. ASSUME NEW st \in Terminal, Ends(u, st)
            PROVE  claim[u].p = p /\ st = "completed"
        <5>1. row'[p] = IF claim[u].p = p THEN Unleased(row[p], st) ELSE row[p]
          BY <1>1, <4>3 DEF Ends, Finished
        <5>2. QED
          BY <1>9, <2>2, <3>1, <5>1 DEF Row, Unleased
      <4>4. QED
        BY <4>1, <4>2, <4>3
    <3>3. ASSUME NEW D \in SUBSET Prompts, Drops(D)
          PROVE  FALSE
      <4>1. row'[p] = row[p] \/ row'[p] = [row[p] EXCEPT !.st = "cancelled"]
        BY <3>3 DEF Drops
      <4>2. QED
        BY <1>9, <2>2, <3>1, <4>1 DEF Row
    <3>4. ASSUME NEW source \in Sessions, NEW target \in Sessions, Rebinds(source, target)
          PROVE  FALSE
      <4>1. row'[p] = row[p] \/ row'[p] = Rebound(row[p], target)
        BY <3>4 DEF Rebinds
      <4>2. QED
        BY <1>9, <2>2, <3>1, <4>1 DEF Row, Rebound, Unleased
    <3>5. ASSUME NEW r \in Prompts, Expire(r)
          PROVE  FALSE
      <4>1. row'[p] = row[p] \/ row'[p] = [row[p] EXCEPT !.fresh = FALSE]
        BY <1>1, <3>5 DEF Expire
      <4>2. QED
        BY <1>9, <2>2, <3>1, <4>1 DEF Row
    <3>6. ASSUME NEW t \in Tokens, NEW b \in Bridges, NEW s \in Sessions, NEW r \in Prompts,
                 Claims(t, b, s, r)
          PROVE  FALSE
      <4>1. \/ row'[p] = row[p]
            \/ row'[p] = [row[p] EXCEPT !.st = "running", !.tok = t, !.lses = s, !.fresh = TRUE]
        BY <1>1, <3>6 DEF Claims
      <4>2. QED
        BY <1>9, <2>2, <3>1, <4>1 DEF Row
    <3>7. ASSUME NEW r \in Prompts, NEW s \in Sessions, NEW k \in Keys, Sends(r, s, k)
          PROVE  FALSE
      <4>1. row'[p] = row[p]
        BY <1>1, <3>1, <3>7 DEF Sends
      <4>2. QED
        BY <1>9, <2>2, <4>1
    <3>8. PICK u \in Tokens : claim[u].p = p /\ Ends(u, "completed")
      BY <1>9, <2>2, <3>2, <3>3, <3>4, <3>5, <3>6, <3>7, StepKinds DEF TypeInv, Quiet, Crash
    <3>9. claim[u].b \in Bridges /\ claim[u].s \in Sessions
      BY <3>8 DEF Ends, TypeInv, NamedClaims
    <3>10. p \in log[claim[u].s]
      BY <3>8, <3>9 DEF Ends, Published
    <3>11. QED
      BY <1>6, <3>9, <3>10
  <2>3. QED
    BY <2>1, <2>2
<1>10. QED
  BY <1>2, <1>7, <1>8, <1>9 DEF Published

QueueInv == TypeInv /\ TableInv /\ InOrder /\ Marks /\ Published

\* Together they are an inductive invariant of the queue.
LEMMA QueueInvInductive == /\ Init => QueueInv
                           /\ QueueInv /\ [Next]_vars => QueueInv'
<1>1. ASSUME Init
      PROVE  QueueInv
  <2>1. InOrder
    BY <1>1 DEF Init, InOrder, NoRow
  <2>2. Marks
    BY <1>1 DEF Init, Marks, Marked, FreeClaim
  <2>3. Published
    BY <1>1 DEF Init, Published, NoSess, NoRow, FreeClaim
  <2>4. QED
    BY <1>1, <2>1, <2>2, <2>3, TypeInvInductive, TableInductive DEF QueueInv
<1>2. ASSUME QueueInv, [Next]_vars
      PROVE  QueueInv'
  BY <1>2, TypeInvInductive, TableInductive, InOrderStep, MarksStep, PublishedStep DEF QueueInv
<1>3. QED
  BY <1>1, <1>2

\* The at-most-once boundary of mark_execution_started holds for any number of
\* bridges, whatever is lost, expires, is rebound, retried or crashes: no two
\* claims start a turn for the same prompt.
THEOREM TurnsStartOnce == Spec => []ExecutedOnce
<1>1. QueueInv => ExecutedOnce
  BY DEF QueueInv, Marks, Marked, ExecutedOnce
<1>2. QED
  BY <1>1, QueueInvInductive, PTL DEF Spec

\* complete is called only for a prompt whose ide_prompt_completed event is in
\* a session log: by the thread that wrote it, or by a drain that read it.
THEOREM CompletionIsLogged == Spec => []CompletedWasPublished
<1>1. QueueInv => CompletedWasPublished
  BY DEF QueueInv, Published, CompletedWasPublished
<1>2. QED
  BY <1>1, QueueInvInductive, PTL DEF Spec

-----------------------------------------------------------------------------
(* One turn per session, while no lease of a living bridge runs out.       *)

\* The thread of the claim has a duty to the row.
Holding(t) == claim[t].pc \notin {"free", "wrap", "done"}

LeaseHeld(t) ==
  LET r == row[claim[t].p]
  IN  r.st = "running" /\ r.tok = t /\ r.fresh /\ r.lses = claim[t].s

Leases ==
  /\ \A t \in Tokens : Working(t) => up[claim[t].b] # "dead"
  /\ \A t \in Tokens : Holding(t) => LeaseHeld(t)

\* A prompt that nobody took over stays in the session it was claimed for.
Home ==
  \A t \in Tokens : claim[t].pc # "free" =>
    /\ row[claim[t].p].st # "absent"
    /\ row[claim[t].p].moved \/ row[claim[t].p].ses = claim[t].s

\* Only a rebinding parts a claim from the session of its prompt.
LEMMA HomeStep ==
  ASSUME TypeInv, Home, [Next]_vars
  PROVE  Home'
<1> SUFFICES ASSUME NEW t \in Tokens, claim'[t].pc # "free"
             PROVE  /\ row'[claim'[t].p].st # "absent"
                    /\ row'[claim'[t].p].moved \/ row'[claim'[t].p].ses = claim'[t].s
  BY DEF Home
<1>1. /\ claim \in [Tokens -> ClaimRecord] /\ row \in [Prompts -> Row]
  BY DEF TypeInv, TypeOK
<1>2. CASE claim[t].pc # "free"
  <2>1. /\ claim'[t].p = claim[t].p /\ claim'[t].s = claim[t].s
        /\ claim[t].p \in Prompts
    BY <1>2, ClaimKeepsWork DEF SameWork, TypeInv, NamedClaims
  <2>2. /\ row[claim[t].p].st # "absent"
        /\ row[claim[t].p].moved \/ row[claim[t].p].ses = claim[t].s
    BY <1>2 DEF Home
  <2>3. QED
    BY <2>1, <2>2, RowHistory
<1>3. CASE claim[t].pc = "free"
  <2>1. PICK u \in Tokens, b \in Bridges, s \in Sessions, p \in Prompts : Claims(u, b, s, p)
    <3>1. claim'[t] # claim[t] /\ ~SameClaim(t)
      BY <1>3 DEF SameClaim
    <3>2. claim[t].b \notin Bridges
      BY <1>3, QueueAssumption DEF TypeInv, NamedClaims, FreeClaim
    <3>3. ASSUME NEW b \in Bridges, Crash(b)
          PROVE  FALSE
      BY <3>1, <3>2, <3>3 DEF Crash
    <3>4. ASSUME NEW u \in Tokens, TurnStep(u) \/ Beat(u)
          PROVE  FALSE
      BY <1>3, <3>1, <3>4, TurnKinds DEF TypeInv
    <3>5. QED
      BY <3>1, <3>3, <3>4, StepKinds DEF TypeInv, Quiet, Sends, Drops, Rebinds, Expire
  <2>2. t = u
    BY <1>1, <1>3, <2>1 DEF Claims
  <2>3. claim'[t].p = p /\ claim'[t].s = s
    BY <1>1, <2>1, <2>2 DEF Claims, FreeClaim
  <2>4. row[p] \in Row /\ row[p].ses = s
    BY <1>1, <2>1 DEF Claims, Eligible, InState, Expired, Live
  <2>5. row'[p].st = "running" /\ row'[p].ses = s
    BY <1>1, <2>1, <2>2, <2>4 DEF Claims, Row
  <2>6. QED
    BY <2>3, <2>5
<1>4. QED
  BY <1>2, <1>3

\* A living bridge keeps its leases: no claim, rebinding, refusal or passing of
\* time takes a row from the thread that works on it.
LEMMA LeasesStep ==
  ASSUME ~Sleeps, TypeInv, Home, Leases, [Next]_vars
  PROVE  Leases'
<1>1. /\ claim \in [Tokens -> ClaimRecord] /\ row \in [Prompts -> Row]
      /\ up \in [Bridges -> {"up", "closed", "dead"}]
  BY DEF TypeInv, TypeOK
<1>2. \A t \in Tokens : claim[t].pc # "free" =>
        claim[t].b \in Bridges /\ claim[t].s \in Sessions /\ claim[t].p \in Prompts
  BY DEF TypeInv, NamedClaims
\* A held row is eligible for no claim, and no claim can refuse its holder.
<1>3. ASSUME NEW t \in Tokens, Holding(t)
      PROVE  /\ claim[t].p \in Prompts /\ LeaseHeld(t)
             /\ \A s \in Sessions : claim[t].p \notin Eligible(s)
  <2>1. claim[t].p \in Prompts /\ LeaseHeld(t)
    BY <1>2, <1>3 DEF Holding, Leases
  <2>2. QED
    BY <2>1 DEF LeaseHeld, Eligible, InState, Expired, Live
<1>4. ASSUME NEW t \in Tokens, Holding(t)
      PROVE  ~MayRefuse(t)
  BY <1>3, <1>4 DEF MayRefuse, Holds, LeaseHeld
<1> DEFINE Good(t) == /\ Working(t)' => up'[claim'[t].b] # "dead"
                      /\ Holding(t)' => LeaseHeld(t)'
           Kept(t) == /\ claim[t].pc # "free" => SameWork(t)
                      /\ Working(t)' => Working(t)
                      /\ Holding(t)' => Holding(t)
\* Where a claim and its row do no worse than before.
<1>5. ASSUME NEW t \in Tokens, Kept(t), Alive,
             Holding(t)' => LET r == row[claim[t].p]
                                q == row'[claim[t].p]
                            IN  q.st = r.st /\ q.tok = r.tok /\ q.lses = r.lses
                                  /\ q.fresh = r.fresh
      PROVE  Good(t)
  <2>1. Working(t)' => up'[claim'[t].b] # "dead"
    BY <1>2, <1>5 DEF Working, Leases, Alive, SameWork
  <2>2. Holding(t)' => LeaseHeld(t)'
    BY <1>3, <1>5 DEF Holding, LeaseHeld, SameWork
  <2>3. QED
    BY <2>1, <2>2
<1>6. \A t \in Tokens : (SameClaim(t) \/ claim'[t] = claim[t]) => Kept(t)
  BY DEF SameClaim, SameRun, SameWork, Working, Holding
<1>7. UNCHANGED up => Alive
  BY DEF Alive
<1>8. ASSUME UNCHANGED claim
      PROVE  \A t \in Tokens : Kept(t)
  BY <1>6, <1>8
<1> HIDE DEF Good
<1>9. ASSUME Quiet
      PROVE  \A t \in Tokens : Good(t)
  <2> TAKE t \in Tokens
  <2>1. Kept(t)
    BY <1>6, <1>9 DEF Quiet
  <2>2. QED
    BY <1>5, <1>9, <2>1 DEF Quiet
<1> HIDE DEF Kept
<1>10. ASSUME NEW p \in Prompts, NEW s \in Sessions, NEW k \in Keys, Sends(p, s, k)
       PROVE  \A t \in Tokens : Good(t)
  <2> TAKE t \in Tokens
  <2>1. Alive /\ Kept(t)
    BY <1>7, <1>8, <1>10 DEF Sends
  <2>2. Holding(t) => row'[claim[t].p] = row[claim[t].p]
    BY <1>1, <1>3, <1>10 DEF Sends, LeaseHeld
  <2>3. Holding(t)' => Holding(t)
    BY <2>1 DEF Kept
  <2>4. QED
    BY <1>5, <2>1, <2>2, <2>3
<1>11. ASSUME NEW D \in SUBSET Prompts, Drops(D)
       PROVE  \A t \in Tokens : Good(t)
  <2> TAKE t \in Tokens
  <2>1. Alive /\ Kept(t)
    BY <1>7, <1>8, <1>11 DEF Drops
  <2>2. Holding(t) => row'[claim[t].p] = row[claim[t].p]
    BY <1>3, <1>11 DEF Drops, LeaseHeld
  <2>3. Holding(t)' => Holding(t)
    BY <2>1 DEF Kept
  <2>4. QED
    BY <1>5, <2>1, <2>2, <2>3
<1>12. ASSUME NEW source \in Sessions, NEW target \in Sessions, Rebinds(source, target)
       PROVE  \A t \in Tokens : Good(t)
  <2> TAKE t \in Tokens
  <2>1. Alive /\ Kept(t)
    BY <1>7, <1>8, <1>12 DEF Rebinds
  <2>2. ASSUME Holding(t)
        PROVE  /\ row'[claim[t].p].st = row[claim[t].p].st
               /\ row'[claim[t].p].tok = row[claim[t].p].tok
               /\ row'[claim[t].p].lses = row[claim[t].p].lses
               /\ row'[claim[t].p].fresh = row[claim[t].p].fresh
    <3>1. claim[t].p \in Prompts /\ row[claim[t].p] \in Row /\ row[claim[t].p].fresh
      BY <1>1, <1>3, <2>2 DEF LeaseHeld
    <3>2. row'[claim[t].p] \in {row[claim[t].p], Rebound(row[claim[t].p], target)}
      BY <1>12, <3>1 DEF Rebinds
    <3>3. QED
      BY <3>1, <3>2 DEF Row, Rebound
  <2>3. Holding(t)' => Holding(t)
    BY <2>1 DEF Kept
  <2>4. QED
    BY <1>5, <2>1, <2>2, <2>3
<1>13. ASSUME NEW b \in Bridges, Crash(b)
       PROVE  \A t \in Tokens : Good(t)
  <2> TAKE t \in Tokens
  <2>1. CASE claim[t].b = b
    <3>1. claim'[t] = Over(claim[t])
      BY <1>13, <2>1 DEF Crash
    <3>2. claim'[t].pc = "done"
      BY <1>1, <3>1 DEF Over, ClaimRecord
    <3>3. QED
      BY <3>2 DEF Good, Working, Holding
  <2>2. CASE claim[t].b # b
    <3>1. claim'[t] = claim[t] /\ row' = row
      BY <1>13, <2>2 DEF Crash
    <3>2. Working(t) => up'[claim[t].b] # "dead"
      BY <1>1, <1>2, <1>13, <2>2 DEF Crash, Working, Leases
    <3>3. QED
      BY <3>1, <3>2 DEF Good, Working, Holding, LeaseHeld, Leases
  <2>3. QED
    BY <2>1, <2>2
<1>14. ASSUME NEW u \in Tokens, NEW b \in Bridges, NEW s \in Sessions, NEW p \in Prompts,
              Claims(u, b, s, p)
       PROVE  \A t \in Tokens : Good(t)
  <2> TAKE t \in Tokens
  <2>1. CASE t = u
    <3>1. /\ claim'[t].b = b /\ claim'[t].s = s /\ claim'[t].p = p
      BY <1>1, <1>14, <2>1 DEF Claims, FreeClaim
    <3>2. /\ row'[p].st = "running" /\ row'[p].tok = t /\ row'[p].lses = s /\ row'[p].fresh
      BY <1>1, <1>14, <2>1 DEF Claims, Row
    <3>3. up'[b] # "dead"
      BY <1>14 DEF Claims
    <3>4. QED
      BY <3>1, <3>2, <3>3 DEF Good, LeaseHeld
  <2>2. CASE t # u
    <3>1. claim'[t] = claim[t]
      BY <1>1, <1>14, <2>2 DEF Claims
    <3>2. Alive /\ Kept(t)
      BY <1>6, <1>7, <1>14, <3>1 DEF Claims
    <3>3. Holding(t) => row'[claim[t].p] = row[claim[t].p]
      BY <1>1, <1>3, <1>14 DEF Claims
    <3>4. Holding(t)' => Holding(t)
      BY <3>2 DEF Kept
    <3>5. QED
      BY <1>5, <3>2, <3>3, <3>4
  <2>3. QED
    BY <2>1, <2>2
<1>15. ASSUME NEW p \in Prompts, Expire(p)
       PROVE  \A t \in Tokens : Good(t)
  <2> TAKE t \in Tokens
  <2>1. Alive /\ Kept(t)
    BY <1>7, <1>8, <1>15 DEF Expire
  <2>2. Abandoned(p)
    BY <1>15 DEF Expire
  <2>3. Holding(t) => claim[t].p # p
    <3>1. SUFFICES ASSUME Holding(t), claim[t].p = p
                   PROVE  FALSE
      OBVIOUS
    <3>2. row[p].tok = t /\ up[claim[t].b] # "dead"
      BY <1>3, <3>1 DEF LeaseHeld, Leases, Holding, Working
    <3>3. QED
      BY <2>2, <3>2 DEF Abandoned
  <2>4. Holding(t) => row'[claim[t].p] = row[claim[t].p]
    BY <1>1, <1>3, <1>15, <2>3 DEF Expire
  <2>5. Holding(t)' => Holding(t)
    BY <2>1 DEF Kept
  <2>6. QED
    BY <1>5, <2>1, <2>4, <2>5
<1>16. ASSUME NEW u \in Tokens, TurnStep(u) \/ Beat(u)
       PROVE  \A t \in Tokens : Good(t)
  <2> TAKE t \in Tokens
  <2>1. /\ UNCHANGED up
        /\ \A v \in Tokens \ {u} : claim'[v] = claim[v]
        /\ claim[u].pc \notin {"free", "done"}
        /\ \/ \E st \in Terminal : Ends(u, st)
           \/ Begins(u) \/ Renews(u) \/ Runs(u) \/ Publishes(u) \/ Proceeds(u)
    BY <1>16, TurnKinds DEF TypeInv
  <2>2. CASE t # u
    <3>1. Alive /\ Kept(t)
      BY <1>6, <1>7, <2>1, <2>2
    <3>2. Holding(t) => row'[claim[t].p] = row[claim[t].p]
      <4>1. SUFFICES ASSUME Holding(t)
                     PROVE  row'[claim[t].p] = row[claim[t].p]
        OBVIOUS
      <4>2. Holds(u) => claim[u].p # claim[t].p
        BY <1>3, <2>2, <4>1 DEF Holds, LeaseHeld
      <4>3. QED
        BY <1>1, <1>3, <2>1, <4>1, <4>2
           DEF Ends, Finished, Begins, Renews, Runs, Publishes, Proceeds
    <3>3. Holding(t)' => Holding(t)
      BY <3>1 DEF Kept
    <3>4. QED
      BY <1>5, <3>1, <3>2, <3>3
  <2>3. CASE t = u
    <3>1. Alive /\ claim[t].pc \notin {"free", "done"}
      BY <1>7, <2>1, <2>3
    <3>2. SameWork(t)
      BY <2>1, <2>3
         DEF Ends, Begins, Renews, Runs, Publishes, Proceeds, SameClaim, SameRun
    <3>3. Holding(t)' => Holding(t)
      BY <2>1, <2>3, <3>1
         DEF Ends, Begins, Renews, Runs, Publishes, Proceeds, SameClaim, Moves, Holding
    <3>4. Kept(t)
      BY <3>1, <3>2, <3>3 DEF Kept, Working
    <3>5. ASSUME Holding(t)'
          PROVE  /\ row'[claim[t].p].st = row[claim[t].p].st
                 /\ row'[claim[t].p].tok = row[claim[t].p].tok
                 /\ row'[claim[t].p].lses = row[claim[t].p].lses
                 /\ row'[claim[t].p].fresh = row[claim[t].p].fresh
      <4>1. /\ claim[t].p \in Prompts /\ row[claim[t].p] \in Row
            /\ row[claim[t].p].fresh = TRUE
        BY <1>1, <1>3, <3>3, <3>5 DEF LeaseHeld, Row
      <4>2. Begins(t) \/ Renews(t) \/ UNCHANGED row
        BY <2>1, <2>3, <3>5 DEF Ends, Runs, Publishes, Proceeds, Holding
      <4>3. \/ row'[claim[t].p] = row[claim[t].p]
            \/ row'[claim[t].p] = [row[claim[t].p] EXCEPT !.started = TRUE]
            \/ row'[claim[t].p] = [row[claim[t].p] EXCEPT !.fresh = TRUE]
        BY <1>1, <4>1, <4>2 DEF Begins, Renews
      <4>4. QED
        BY <4>1, <4>3 DEF Row
    <3>6. QED
      BY <1>5, <3>1, <3>4, <3>5
  <2>4. QED
    BY <2>2, <2>3
<1>17. \A t \in Tokens : Good(t)
  BY <1>9, <1>10, <1>11, <1>12, <1>13, <1>14, <1>15, <1>16, StepKinds DEF TypeInv
<1>18. QED
  BY <1>17 DEF Good, Leases

\* "Only one prompt runs per session": as long as no lease of a living bridge
\* runs out, turns that are executed together belong to different sessions of
\* the queue, and only after a rebinding can an agent session execute two.
THEOREM TurnsAreExclusive ==
  ASSUME ~Sleeps
  PROVE  Spec => []OneTurnPerSession
<1> DEFINE Inv == TypeInv /\ TableInv /\ Home /\ Leases
<1>1. Init => Inv
  <2>1. ASSUME Init
        PROVE  Home /\ Leases
    BY <2>1 DEF Init, Home, Leases, Working, Holding, FreeClaim
  <2>2. QED
    BY <2>1, TypeInvInductive, TableInductive
<1>2. Inv /\ [Next]_vars => Inv'
  BY TypeInvInductive, TableInductive, HomeStep, LeasesStep
<1>3. Inv => OneTurnPerSession
  <2> SUFFICES ASSUME Inv, NEW t \in Tokens, NEW u \in Tokens, Turning(t), Turning(u), t # u
               PROVE  /\ row[claim[t].p].ses # row[claim[u].p].ses
                      /\ Agent(t) = Agent(u)
                           => row[claim[t].p].moved \/ row[claim[u].p].moved
    BY DEF OneTurnPerSession
  <2> DEFINE p == claim[t].p
             q == claim[u].p
  <2>1. /\ p \in Prompts /\ q \in Prompts
        /\ row[p].st = "running" /\ row[q].st = "running" /\ row[p].tok = t /\ row[q].tok = u
    BY DEF Turning, TypeInv, NamedClaims, Leases, Holding, LeaseHeld
  <2>2. row[p].ses # row[q].ses
    BY <2>1 DEF TableInv, Apart
  <2>3. /\ row[p].moved \/ row[p].ses = claim[t].s
        /\ row[q].moved \/ row[q].ses = claim[u].s
    BY DEF Turning, Home
  <2>4. QED
    BY <2>2, <2>3 DEF Agent
<1> HIDE DEF Inv
<1>4. QED
  BY <1>1, <1>2, <1>3, PTL DEF Spec

-----------------------------------------------------------------------------
(* The queue implements PromptService.                                     *)

\* The phase of a prompt follows from two columns of its row.
LEMMA Phases ==
  ASSUME TypeInv, NEW p \in Prompts
  PROVE  /\ row[p].st = "absent" <=> phaseOf(p) = "new"
         /\ row[p].st \in Terminal => phaseOf(p) = row[p].st
         /\ row[p].st \in {"pending", "running"}
              => phaseOf(p) = IF row[p].started THEN "executing" ELSE "queued"
         /\ row[p].st \in {"pending", "running"} <=> phaseOf(p) \in {"queued", "executing"}
         /\ row[p].st \in Terminal <=> phaseOf(p) \in Terminal
<1>1. row[p] \in Row
  BY DEF TypeInv, TypeOK
<1>2. row[p].st \in {"absent", "pending", "running"} \cup Terminal
  BY <1>1 DEF Row
<1>3. CASE row[p].st = "absent"
  BY <1>3 DEF phaseOf, Terminal
<1>4. CASE row[p].st \in {"pending", "running"}
  BY <1>4 DEF phaseOf, Terminal
<1>5. CASE row[p].st \in Terminal
  BY <1>5 DEF phaseOf, Terminal
<1>6. QED
  BY <1>2, <1>3, <1>4, <1>5

\* Rows that keep these columns, their session and their mark are no step of
\* the service.
LEMMA ServiceStutters ==
  ASSUME \A p \in Prompts : /\ row'[p].st = row[p].st \/ {row'[p].st, row[p].st} = {"pending", "running"}
                            /\ row'[p].started = row[p].started
                            /\ row'[p].ses = row[p].ses
                            /\ row'[p].moved = row[p].moved
  PROVE  UNCHANGED Service!svars
<1>1. \A p \in Prompts : phaseOf(p)' = phaseOf(p)
  <2>1. TAKE p \in Prompts
  <2>2. CASE row'[p].st = row[p].st
    BY <2>2 DEF phaseOf
  <2>3. CASE row'[p].st \in {"pending", "running"} /\ row[p].st \in {"pending", "running"}
    BY <2>3 DEF phaseOf, Terminal
  <2>4. QED
    BY <2>2, <2>3
<1>2. QED
  BY <1>1 DEF Service!svars

\* Under the invariant, every step is one of the service or a stutter.
LEMMA ServiceStep ==
  ASSUME QueueInv, [Next]_vars
  PROVE  [Service!ServiceNext]_(Service!svars)
<1> DEFINE phase == [p \in Prompts |-> phaseOf(p)]
           owner == [p \in Prompts |-> row[p].ses]
           moved == [p \in Prompts |-> row[p].moved]
           Unfinished == {p \in Prompts : phase[p] \in {"queued", "executing"}}
<1>1. /\ row \in [Prompts -> Row] /\ \A p \in Prompts : row[p] \in Row
      /\ TypeInv /\ TypeInv'
  BY TypeInvInductive DEF QueueInv, TypeInv, TypeOK
<1>2. ASSUME NEW p \in Prompts, NEW s \in Sessions, NEW k \in Keys, Sends(p, s, k)
      PROVE  Service!Accept(p, s)
  <2>1. \A q \in Prompts \ {p} : row'[q] = row[q]
    BY <1>1, <1>2 DEF Sends
  <2>2. row[p] = NoRow
    BY <1>2 DEF Sends, QueueInv, TableInv, RowShape
  <2>3. row'[p].st = "pending" /\ row'[p].ses = s /\ row'[p].started = FALSE
          /\ row'[p].moved = row[p].moved
    BY <1>1, <1>2, <2>2 DEF Sends, NoRow
  <2>4. phaseOf(p)' = "queued" /\ phaseOf(p) = "new"
    <3>1. phaseOf(p)' = "queued"
      BY <2>3 DEF phaseOf, Terminal
    <3>2. phaseOf(p) = "new"
      BY <1>1, <1>2, Phases DEF Sends
    <3>3. QED
      BY <3>1, <3>2
  <2>5. \A q \in Prompts \ {p} : phaseOf(q)' = phaseOf(q)
    BY <2>1 DEF phaseOf
  <2>6. \A q \in Prompts : q < p => phaseOf(q) # "new"
    BY <1>1, <1>2, Phases DEF Sends
  <2>7. phase' = [phase EXCEPT ![p] = "queued"]
    BY <2>4, <2>5
  <2>8. owner' = [owner EXCEPT ![p] = s] /\ moved' = moved
    BY <2>1, <2>3
  <2>9. QED
    BY <2>4, <2>6, <2>7, <2>8 DEF Service!Accept
<1>3. ASSUME NEW D \in SUBSET Prompts, Drops(D)
      PROVE  Service!GiveUp(D, "cancelled") /\ D \in SUBSET Service!Open
  <2>1. \A p \in Prompts : row'[p] = IF p \in D THEN [row[p] EXCEPT !.st = "cancelled"]
                                     ELSE row[p]
    BY <1>3 DEF Drops
  <2>2. \A p \in Prompts : row'[p].ses = row[p].ses /\ row'[p].moved = row[p].moved
    BY <1>1, <2>1 DEF Row
  <2>3. ASSUME NEW p \in Prompts
        PROVE  phaseOf(p)' = IF p \in D THEN "cancelled" ELSE phaseOf(p)
    <3>1. CASE p \in D
      <4>1. row'[p].st = "cancelled"
        BY <1>1, <2>1, <3>1 DEF Row
      <4>2. QED
        BY <3>1, <4>1 DEF phaseOf, Terminal
    <3>2. CASE p \notin D
      <4>1. row'[p] = row[p]
        BY <2>1, <3>2
      <4>2. phaseOf(p)' = phaseOf(p)
        BY <4>1 DEF phaseOf
      <4>3. QED
        BY <3>2, <4>2
    <3>3. QED
      BY <3>1, <3>2
  <2>4. D \subseteq Unfinished
    BY <1>1, <1>3, Phases DEF Drops
  <2>5. QED
    BY <2>2, <2>3, <2>4 DEF Service!GiveUp, Service!Open
<1>4. ASSUME NEW source \in Sessions, NEW target \in Sessions, Rebinds(source, target)
      PROVE  Service!Rebind(source, target)
  <2> DEFINE M == {p \in Unfinished : owner[p] = source}
  <2>1. ASSUME NEW p \in Prompts
        PROVE  p \in M <=> row[p].ses = source /\ row[p].st \in {"pending", "running"}
    BY <1>1, Phases
  <2>2. ASSUME NEW p \in Prompts
        PROVE  /\ row'[p].ses = IF p \in M THEN target ELSE row[p].ses
               /\ row'[p].moved = (row[p].moved \/ p \in M)
               /\ row'[p].started = row[p].started
               /\ \/ row'[p].st = row[p].st
                  \/ row'[p].st = "pending" /\ row[p].st = "running"
    <3>1. row'[p] = IF p \in M THEN Rebound(row[p], target) ELSE row[p]
      BY <1>4, <2>1 DEF Rebinds
    <3> HIDE DEF M
    <3>2. QED
      BY <1>1, <3>1 DEF Row, Rebound, Unleased
  <2>3. \A p \in Prompts : phaseOf(p)' = phaseOf(p)
    <3>1. TAKE p \in Prompts
    <3>2. CASE row'[p].st = row[p].st
      BY <2>2, <3>2 DEF phaseOf
    <3>3. CASE row'[p].st = "pending" /\ row[p].st = "running"
      BY <2>2, <3>3 DEF phaseOf, Terminal
    <3>4. QED
      BY <2>2, <3>2, <3>3
  <2>4. QED
    BY <2>2, <2>3 DEF Service!Rebind, Service!Open
<1>5. ASSUME NEW u \in Tokens, TurnStep(u) \/ Beat(u)
      PROVE  [Service!ServiceNext]_(Service!svars)
  <2>1. /\ claim[u].pc \notin {"free", "done"}
        /\ \/ \E st \in Terminal : Ends(u, st)
           \/ Begins(u) \/ Renews(u) \/ Runs(u) \/ Publishes(u) \/ Proceeds(u)
    BY <1>1, <1>5, TurnKinds DEF TypeInv
  <2>2. PICK p \in Prompts : p = claim[u].p
    BY <1>1, <2>1 DEF TypeInv, NamedClaims
  <2>3. Holds(u) => row[p].st = "running"
    BY <2>2 DEF Holds
  <2>4. ASSUME NEW st \in Terminal, Ends(u, st)
        PROVE  Service!Complete(p) \/ (st \in {"cancelled", "failed"}
                                         /\ Service!GiveUp({p}, st) /\ {p} \in SUBSET Service!Open)
    <3>1. /\ \A q \in Prompts \ {p} : row'[q] = row[q]
          /\ row'[p] = Unleased(row[p], st)
      BY <1>1, <2>2, <2>4 DEF Ends, Finished
    <3>2. /\ row'[p].st = st /\ row'[p].ses = row[p].ses /\ row'[p].moved = row[p].moved
      BY <1>1, <2>2, <3>1 DEF Unleased, Row
    <3>3. phaseOf(p)' = st /\ \A q \in Prompts \ {p} : phaseOf(q)' = phaseOf(q)
      BY <3>1, <3>2 DEF phaseOf, Terminal
    <3>4. UNCHANGED owner /\ UNCHANGED moved
      BY <3>1, <3>2
    <3>5. row[p].st = "running"
      BY <2>3, <2>4 DEF Ends
    <3>6. CASE st = "completed"
      <4>1. row[p].started
        BY <2>2, <2>4, <3>6 DEF Ends, QueueInv, Published, TypeInv, NamedClaims
      <4>2. phaseOf(p) = "executing"
        BY <1>1, <2>2, <3>5, <4>1, Phases
      <4>3. phase' = [phase EXCEPT ![p] = "completed"]
        BY <3>3, <3>6
      <4>4. QED
        BY <2>2, <3>4, <4>2, <4>3 DEF Service!Complete
    <3>7. CASE st \in {"cancelled", "failed"}
      <4>1. p \in Unfinished
        BY <1>1, <2>2, <3>5, Phases
      <4>2. phase' = [q \in Prompts |-> IF q \in {p} THEN st ELSE phase[q]]
        BY <3>3
      <4>3. QED
        BY <3>4, <3>7, <4>1, <4>2 DEF Service!GiveUp, Service!Open
    <3>8. QED
      BY <3>6, <3>7 DEF Terminal
  <2>5. ASSUME Begins(u)
        PROVE  Service!Begin(p)
    <3>1. /\ \A q \in Prompts \ {p} : row'[q] = row[q]
          /\ row'[p] = [row[p] EXCEPT !.started = TRUE]
      BY <1>1, <2>2, <2>5 DEF Begins
    <3>2. /\ row'[p].st = row[p].st /\ row'[p].ses = row[p].ses /\ row'[p].moved = row[p].moved
          /\ row'[p].started = TRUE
      BY <1>1, <2>2, <3>1 DEF Row
    <3>3. row[p].st = "running" /\ ~row[p].started
      BY <2>2, <2>3, <2>5 DEF Begins
    <3>4. phaseOf(p) = "queued" /\ phaseOf(p)' = "executing"
      BY <3>2, <3>3 DEF phaseOf, Terminal
    <3>5. \A q \in Prompts \ {p} : phaseOf(q)' = phaseOf(q)
      BY <3>1 DEF phaseOf
    <3>6. phase' = [phase EXCEPT ![p] = "executing"] /\ UNCHANGED owner /\ UNCHANGED moved
      BY <3>1, <3>2, <3>4, <3>5
    <3>7. \A q \in Prompts :
            q < p /\ owner[q] = owner[p] /\ ~moved[q] /\ ~moved[p] => phase[q] \in Terminal
      BY <1>1, <2>2, <3>3, Phases DEF QueueInv, InOrder
    <3>8. QED
      BY <2>2, <3>4, <3>6, <3>7 DEF Service!Begin, Service!Over, Service!Outcomes, Terminal
  <2>6. ASSUME Renews(u) \/ Runs(u) \/ Publishes(u) \/ Proceeds(u)
        PROVE  UNCHANGED Service!svars
    <3>1. UNCHANGED row \/ row' = [row EXCEPT ![p].fresh = TRUE]
      BY <2>2, <2>6 DEF Renews, Runs, Publishes, Proceeds
    <3>2. \A q \in Prompts :
            /\ row'[q].st = row[q].st /\ row'[q].started = row[q].started
            /\ row'[q].ses = row[q].ses /\ row'[q].moved = row[q].moved
      BY <1>1, <3>1 DEF Row
    <3>3. QED
      BY <3>2, ServiceStutters
  <2>7. QED
    BY <2>1, <2>2, <2>4, <2>5, <2>6 DEF Service!ServiceNext
<1>6. ASSUME \/ Quiet
             \/ \E b \in Bridges : Crash(b)
             \/ \E t \in Tokens, b \in Bridges, s \in Sessions, p \in Prompts :
                  Claims(t, b, s, p)
             \/ \E p \in Prompts : Expire(p)
      PROVE  UNCHANGED Service!svars
  <2>1. ASSUME NEW t \in Tokens, NEW b \in Bridges, NEW s \in Sessions, NEW p \in Prompts,
               Claims(t, b, s, p)
        PROVE  UNCHANGED Service!svars
    <3>1. row[p].st \in {"pending", "running"}
      BY <2>1 DEF Claims, Eligible, InState, Expired, Live
    <3>2. \A q \in Prompts :
            /\ row'[q].st = row[q].st \/ {row'[q].st, row[q].st} = {"pending", "running"}
            /\ row'[q].started = row[q].started
            /\ row'[q].ses = row[q].ses /\ row'[q].moved = row[q].moved
      BY <1>1, <2>1, <3>1 DEF Claims, Row
    <3>3. QED
      BY <3>2, ServiceStutters
  <2>2. ASSUME NEW p \in Prompts, Expire(p)
        PROVE  UNCHANGED Service!svars
    <3>1. \A q \in Prompts :
            /\ row'[q].st = row[q].st /\ row'[q].started = row[q].started
            /\ row'[q].ses = row[q].ses /\ row'[q].moved = row[q].moved
      BY <1>1, <2>2 DEF Expire, Row
    <3>2. QED
      BY <3>1, ServiceStutters
  <2>3. CASE UNCHANGED row
    BY <2>3, ServiceStutters
  <2>4. QED
    BY <1>6, <2>1, <2>2, <2>3 DEF Quiet, Crash
<1>7. QED
  <2>1. ASSUME NEW p \in Prompts, NEW s \in Sessions, NEW k \in Keys, Sends(p, s, k)
        PROVE  [Service!ServiceNext]_(Service!svars)
    BY <1>2, <2>1 DEF Service!ServiceNext
  <2>2. ASSUME NEW D \in SUBSET Prompts, Drops(D)
        PROVE  [Service!ServiceNext]_(Service!svars)
    <3>1. Service!GiveUp(D, "cancelled") /\ D \in SUBSET Service!Open
      BY <1>3, <2>2
    <3>2. QED
      BY <3>1 DEF Service!ServiceNext
  <2>3. QED
    BY <1>1, <1>4, <1>5, <1>6, <2>1, <2>2, StepKinds DEF TypeInv, Service!ServiceNext

\* Every behaviour of the queue, its bridges and their threads is one of the
\* promised service: a prompt begins at most once and in the order of its
\* session, completes only after it began, and its outcome is final.
THEOREM QueueImplementsService == Spec => ImplementsService
<1>1. Init => Service!ServiceInit
  <2>1. ASSUME Init
        PROVE  \A p \in Prompts : row[p] = NoRow
    BY <2>1 DEF Init
  <2>2. ASSUME NEW p \in Prompts, row[p] = NoRow
        PROVE  phaseOf(p) = "new" /\ row[p].ses = None /\ row[p].moved = FALSE
    <3>1. row[p].st = "absent" /\ row[p].ses = None /\ row[p].moved = FALSE
      BY <2>2 DEF NoRow
    <3>2. phaseOf(p) = "new"
      BY <3>1 DEF phaseOf, Terminal
    <3>3. QED
      BY <3>1, <3>2
  <2>3. QED
    BY <2>1, <2>2 DEF Service!ServiceInit
<1>2. QED
  BY <1>1, QueueInvInductive, ServiceStep, PTL DEF Spec, ImplementsService, Service!ServiceSpec
==============================================================================
