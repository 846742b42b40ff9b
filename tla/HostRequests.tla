---------------------------- MODULE HostRequests ----------------------------
(***************************************************************************)
(* What the threads of a job ask of the IDE while they work: approvals     *)
(* (_request_approval, approval.respond) and host actions                  *)
(* (_request_host_action, host_action.respond) of ide/stdio_bridge.py.     *)
(*                                                                         *)
(* A thread registers its request, waits for an event that the request     *)
(* thread sets, and gives up when its time is over; answers, timeouts,     *)
(* cancellation, clearing and closing race for the same record under the   *)
(* session's approval_lock or host_action_lock.  One session is modelled:  *)
(* all of this state belongs to a session.  The request thread handles one *)
(* request at a time; `main' is what it still has to do outside the state  *)
(* lock.  A scope is the set of files it names, and covers its subsets; an *)
(* exact command is a singleton.                                           *)
(***************************************************************************)
EXTENDS Naturals, FiniteSets

CONSTANTS
  Asks,        \* approvals that threads request
  Persistent,  \* those of swarm workers, which have no deadline
  Actions,     \* host actions that threads request
  Scopes,      \* scopes of approvals, as sets
  None,        \* an approval without an exact scope
  MaxRequests  \* bound: requests of the client and jobs started

ASSUME HostAssumption ==
  /\ Persistent \subseteq Asks
  /\ Asks \cap Actions = {}
  /\ None \notin Scopes
  /\ MaxRequests \in Nat

VARIABLES
  ask,      \* an approval: its thread and its PendingApprovalRecord
  grants,   \* approved_approval_scopes
  action,   \* a host action: its thread and its PendingHostActionRecord
  told,     \* the answers the client was told are applied
  job,      \* the active job and its cancellation event
  session,  \* open, closing (close_when_idle) or closed
  main,     \* what the request thread has left to do
  asked     \* requests so far

vars == <<ask, grants, action, told, job, session, main, asked>>

\* scope: what allow_for_session would cover, None if that is not supported;
\* listed: in pending_approvals; decision: of the record, once it is resolved;
\* verdict: what the thread gets from it.  An approval that a policy or a grant
\* settles is done without a verdict.
Ask == [pc : {"new", "register", "waiting", "done"},
        scope : Scopes \cup {None}, listed : BOOLEAN, late : BOOLEAN,
        decision : {"none", "allow", "deny"},
        verdict : {"none", "allow", "deny"}]

Action == [pc : {"new", "register", "waiting", "done"}, listed : BOOLEAN,
           late : BOOLEAN, withdrawn : BOOLEAN,
           status : {"none", "completed", "failed", "expired", "cancelled"}]

NewAsk == [pc |-> "new", scope |-> None, listed |-> FALSE, late |-> FALSE,
           decision |-> "none", verdict |-> "none"]
NewAction == [pc |-> "new", listed |-> FALSE, late |-> FALSE,
              withdrawn |-> FALSE, status |-> "none"]

Init ==
  /\ ask = [a \in Asks |-> NewAsk]
  /\ grants = {}
  /\ action = [h \in Actions |-> NewAction]
  /\ told = [x \in Asks \cup Actions |-> {}]
  /\ job = "none"
  /\ session = "open"
  /\ main = "idle"
  /\ asked = 0

-----------------------------------------------------------------------------
(* Records.                                                                *)

\* Mutant of OpenAsk: a resolved record still in the registry is taken as open.
OpenAskListed(a) == ask[a].listed

OpenAsk(a) == ask[a].listed /\ ask[a].decision = "none"

\* _expire_pending_approval_locked and the loop of _cancel_pending_approvals:
\* those of A that are open are denied.
Deny(A) ==
  [a \in Asks |-> IF a \in A /\ OpenAsk(a)
                  THEN [ask[a] EXCEPT !.decision = "deny"] ELSE ask[a]]

Unlisted(asks) == [a \in Asks |-> [asks[a] EXCEPT !.listed = FALSE]]

\* The thread goes on with a verdict.
Done(verdict) == [NewAsk EXCEPT !.pc = "done", !.verdict = verdict]

\* _resolve_host_action_error_locked, and the event that withdraws the action.
Withdraw(H, status) ==
  [h \in Actions |->
     IF h \in H /\ action[h].listed /\ action[h].status = "none"
     THEN [action[h] EXCEPT !.status = status, !.withdrawn = TRUE]
     ELSE action[h]]

\* _approved_scope_matches
Approved(scope) == \E g \in grants : scope \subseteq g

-----------------------------------------------------------------------------
(* The job's threads: approvals.                                           *)

\* Past its last look at the cancellation event a thread needs an approval.
\* A policy may settle it; otherwise it will be asked for, with a scope if that
\* is exact and neither a rule nor the paths demand a decision each time.
Propose(a) ==
  /\ ask[a].pc = "new"
  /\ job = "active"
  /\ \/ ask' = [ask EXCEPT ![a] = Done("none")]
     \/ \E scope \in Scopes \cup {None} :
          ask' = [ask EXCEPT ![a].pc = "register", ![a].scope = scope]
  /\ UNCHANGED <<grants, action, told, job, session, main>>

\* A grant of the session settles it, or it is listed and the client prompted.
Register(a) ==
  /\ ask[a].pc = "register"
  /\ ask' = [ask EXCEPT ![a] =
       IF @.scope # None /\ Approved(@.scope) THEN Done("none")
       ELSE [@ EXCEPT !.pc = "waiting", !.listed = TRUE]]
  /\ UNCHANGED <<grants, action, told, job, session, main>>

\* The deadline passes.
Late(a) ==
  /\ ask[a].pc = "waiting" /\ a \notin Persistent /\ ~ask[a].late
  /\ ask' = [ask EXCEPT ![a].late = TRUE]
  /\ UNCHANGED <<grants, action, told, job, session, main>>

\* Mutant of TimeOut: the record is not looked at again under the lock.
TimeOutAnyway(a) ==
  /\ ask[a].pc = "waiting" /\ ask[a].late /\ ask[a].decision # "deny"
  /\ ask' = [ask EXCEPT ![a].decision = "deny"]
  /\ UNCHANGED <<grants, action, told, job, session, main>>

\* done.wait() gives up; under the lock an answer may have been faster.
TimeOut(a) ==
  /\ ask[a].pc = "waiting" /\ ask[a].late
  /\ OpenAsk(a)
  /\ ask' = Deny({a})
  /\ UNCHANGED <<grants, action, told, job, session, main>>

\* Mutant of Conclude: the waiter remembers the grant as well.
ConcludeRemembers(a) ==
  /\ ask[a].pc = "waiting" /\ ask[a].decision # "none"
  /\ ask' = [ask EXCEPT ![a] = Done(@.decision)]
  /\ grants' = IF ask[a].decision = "allow" /\ ask[a].scope # None
               THEN grants \cup {ask[a].scope} ELSE grants
  /\ UNCHANGED <<action, told, job, session, main>>

\* The thread reads the decision, reports it and leaves the registry.
Conclude(a) ==
  /\ ask[a].pc = "waiting" /\ ask[a].decision # "none"
  /\ ask' = [ask EXCEPT ![a] = Done(@.decision)]
  /\ UNCHANGED <<grants, action, told, job, session, main>>

-----------------------------------------------------------------------------
(* The job's threads: host actions.                                        *)

\* The session and its job are looked at under the state lock ...
Offer(h) ==
  /\ action[h].pc = "new"
  /\ job = "active" /\ session = "open"
  /\ action' = [action EXCEPT ![h].pc = "register"]
  /\ UNCHANGED <<ask, grants, told, job, session, main>>

\* ... and then the action is listed and sent to the host.
RegisterAction(h) ==
  /\ action[h].pc = "register"
  /\ action' = [action EXCEPT ![h].pc = "waiting", ![h].listed = TRUE]
  /\ UNCHANGED <<ask, grants, told, job, session, main>>

LateAction(h) ==
  /\ action[h].pc = "waiting" /\ ~action[h].late
  /\ action' = [action EXCEPT ![h].late = TRUE]
  /\ UNCHANGED <<ask, grants, told, job, session, main>>

\* Mutant of PollAction: the deadline is left to the host.
PollActionPatient(h) ==
  /\ action[h].pc = "waiting"
  /\ action[h].status # "none" \/ job = "cancelling"
  /\ action' = [action EXCEPT ![h] =
       [NewAction EXCEPT !.pc = "done",
                         !.withdrawn = Withdraw({h}, "cancelled")[h].withdrawn]]
  /\ UNCHANGED <<ask, grants, told, job, session, main>>

\* Mutant of PollAction: an answer is overlooked when the job is cancelled.
PollActionBlind(h) ==
  /\ action[h].pc = "waiting"
  /\ action[h].status # "none" \/ job = "cancelling" \/ action[h].late
  /\ action' = [action EXCEPT ![h] =
       [NewAction EXCEPT !.pc = "done",
          !.withdrawn = action[h].withdrawn \/ action[h].late
                          \/ job = "cancelling"]]
  /\ UNCHANGED <<ask, grants, told, job, session, main>>

\* Every 50 ms the thread looks at the record, the cancellation event and its
\* deadline; it gets the result or an error, and leaves the registry.
PollAction(h) ==
  LET status == IF action[h].status # "none" THEN action[h].status
                ELSE IF job = "cancelling" THEN "cancelled"
                ELSE IF action[h].late THEN "expired" ELSE "none"
  IN  /\ action[h].pc = "waiting" /\ status # "none"
      /\ action' = [action EXCEPT ![h] =
           [NewAction EXCEPT !.pc = "done",
                             !.withdrawn = Withdraw({h}, status)[h].withdrawn]]
      /\ UNCHANGED <<ask, grants, told, job, session, main>>

-----------------------------------------------------------------------------
(* The job.                                                                *)

InFlight ==
  {a \in Asks : ask[a].pc \in {"register", "waiting"}}
    \cup {h \in Actions : action[h].pc \in {"register", "waiting"}}

\* A turn drained from the queue, or a swarm with launch-time grants.
StartJob(launch) ==
  /\ job = "none" /\ session = "open"
  /\ launch # {} => main = "idle"
  /\ job' = "active"
  /\ grants' = grants \cup launch
  /\ UNCHANGED <<ask, action, told, session, main>>

EndJob ==
  /\ job # "none"
  /\ InFlight = {}
  /\ job' = "none"
  /\ UNCHANGED <<ask, grants, action, told, session, main>>

-----------------------------------------------------------------------------
(* Requests.                                                               *)

\* Mutant of Answer: a grant is remembered although it has no scope.
AnswerUnscoped(a, allow, forSession) ==
  /\ ask' = [ask EXCEPT ![a].decision = IF allow THEN "allow" ELSE "deny"]
  /\ grants' = IF allow /\ forSession THEN grants \cup {ask[a].scope} ELSE grants
  /\ told' = [told EXCEPT ![a] = @ \cup {IF allow THEN "allow" ELSE "deny"}]

\* An answer to an open approval.  It is applied, unless the deadline has
\* passed; the clock is read before the lock is taken.
Answer(a, allow, forSession) ==
  \/ /\ ask' = [ask EXCEPT ![a].decision = IF allow THEN "allow" ELSE "deny"]
     /\ grants' = IF allow /\ forSession /\ ask[a].scope # None
                  THEN grants \cup {ask[a].scope} ELSE grants
     /\ told' = [told EXCEPT ![a] = @ \cup {IF allow THEN "allow" ELSE "deny"}]
  \/ /\ ask[a].late
     /\ ask' = Deny({a})
     /\ UNCHANGED <<grants, told>>

\* approval.respond: for an approval that is no longer open the client gets an
\* error or the response that is kept.
Respond(a, allow, forSession) ==
  /\ main = "idle" /\ session = "open"
  /\ ask[a].pc \in {"waiting", "done"}
  /\ IF OpenAsk(a) THEN Answer(a, allow, forSession)
     ELSE UNCHANGED <<ask, grants, told>>
  /\ UNCHANGED <<action, job, session, main>>

\* host_action.respond: applied, or refused because it is late or stale.
RespondAction(h, status) ==
  /\ main = "idle" /\ session # "closed"
  /\ action[h].pc \in {"waiting", "done"}
  /\ IF ~action[h].listed \/ action[h].status # "none"
     THEN UNCHANGED <<action, told>>
     ELSE IF action[h].late
     THEN action' = Withdraw({h}, "expired") /\ UNCHANGED told
     ELSE /\ action' = [action EXCEPT ![h].status = status]
          /\ told' = [told EXCEPT ![h] = @ \cup {status}]
  /\ UNCHANGED <<ask, grants, job, session, main>>

\* permission.session.revoke
Revoke(scope) ==
  /\ main = "idle" /\ session = "open"
  /\ scope \in grants
  /\ grants' = grants \ {scope}
  /\ UNCHANGED <<ask, action, told, job, session, main>>

\* session.cancel, forge.cancel and forge.swarm.cancel of an active job set
\* its cancellation event under the state lock ...
Cancel(closing) ==
  /\ main = "idle" /\ session # "closed"
  /\ job # "none"
  /\ job' = "cancelling"
  /\ session' = IF closing THEN "closing" ELSE session
  /\ main' = "cancel"
  /\ UNCHANGED <<ask, grants, action, told>>

\* Mutant of CancelAsks: the registry is emptied, the waiters are not woken.
CancelAsksForgets ==
  /\ main = "cancel"
  /\ ask' = Unlisted(ask)
  /\ main' = "actions"
  /\ UNCHANGED <<grants, action, told, job, session>>

\* ... and then _cancel_pending_approvals.
CancelAsks ==
  /\ main = "cancel"
  /\ ask' = Unlisted(Deny(Asks))
  /\ main' = "actions"
  /\ UNCHANGED <<grants, action, told, job, session>>

\* session.cancel goes on with _cancel_pending_host_actions; the others leave
\* host actions to their threads.
CancelActions ==
  /\ main = "actions"
  /\ action' \in {Withdraw(Actions, "cancelled"), action}
  /\ main' = "idle"
  /\ UNCHANGED <<ask, grants, told, job, session>>

\* session.clear of a session that was idle when the state lock was held.
ClearCheck ==
  /\ main = "idle" /\ session = "open"
  /\ job = "none"
  /\ main' = "clear"
  /\ UNCHANGED <<ask, grants, action, told, job, session>>

\* _clear_session_approvals and _clear_session_host_actions
ClearAll ==
  /\ ask' = Unlisted(Deny(Asks))
  /\ grants' = {}
  /\ action' = Withdraw(Actions, "cancelled")

Clear ==
  /\ main = "clear"
  /\ ClearAll
  /\ main' = "idle"
  /\ UNCHANGED <<told, job, session>>

\* session.cancel of a session that was idle when the state lock was held:
\* _close_session clears it, releases its resources, and then marks it closed.
CloseCheck ==
  /\ main = "idle" /\ session # "closed"
  /\ job = "none"
  /\ main' = "close"
  /\ UNCHANGED <<ask, grants, action, told, job, session>>

CloseClear ==
  /\ main = "close"
  /\ IF session = "closed" THEN UNCHANGED <<ask, grants, action>> ELSE ClearAll
  /\ main' = "release"
  /\ UNCHANGED <<told, job, session>>

CloseEnd ==
  /\ main = "release"
  /\ session' = "closed"
  /\ main' = "idle"
  /\ UNCHANGED <<ask, grants, action, told, job>>

\* The thread of _close_session_after_job does so once the job is over; nobody
\* starts another one in a closing session.
CloseAfterJob ==
  /\ session = "closing"
  /\ job = "none"
  /\ ClearAll
  /\ session' = "closed"
  /\ UNCHANGED <<told, job, main>>

-----------------------------------------------------------------------------

AskStep(a) == Register(a) \/ TimeOut(a) \/ Conclude(a)
ActionStep(h) == RegisterAction(h) \/ PollAction(h)
MainStep == CancelAsks \/ CancelActions \/ Clear \/ CloseClear \/ CloseEnd

Request ==
  \/ \E a \in Asks, allow, forSession \in BOOLEAN : Respond(a, allow, forSession)
  \/ \E h \in Actions, status \in {"completed", "failed"} :
       RespondAction(h, status)
  \/ \E scope \in Scopes : Revoke(scope)
  \/ \E closing \in BOOLEAN : Cancel(closing)
  \/ ClearCheck \/ CloseCheck
  \/ \E launch \in {{}} \cup {{scope} : scope \in Scopes} : StartJob(launch)

Internal ==
  \/ \E a \in Asks : Propose(a) \/ Late(a) \/ AskStep(a)
  \/ \E h \in Actions : Offer(h) \/ LateAction(h) \/ ActionStep(h)
  \/ EndJob \/ MainStep \/ CloseAfterJob

Next ==
  \/ asked < MaxRequests /\ asked' = asked + 1 /\ Request
  \/ UNCHANGED asked /\ Internal

Spec == Init /\ [][Next]_vars

\* Threads run, time passes and a job ends once its threads are done; nobody
\* has to ask or to answer.
FairSpec ==
  /\ Spec
  /\ \A a \in Asks : WF_vars(AskStep(a) /\ UNCHANGED asked)
                       /\ WF_vars(Late(a) /\ UNCHANGED asked)
  /\ \A h \in Actions : WF_vars(ActionStep(h) /\ UNCHANGED asked)
                          /\ WF_vars(LateAction(h) /\ UNCHANGED asked)
  /\ WF_vars(MainStep /\ UNCHANGED asked)
  /\ WF_vars(EndJob /\ UNCHANGED asked)

-----------------------------------------------------------------------------
(* Properties.                                                             *)

\* Approvals, actions, grants and answers have their types.
TypeOK ==
  /\ ask \in [Asks -> Ask]
  /\ grants \subseteq Scopes
  /\ action \in [Actions -> Action]
  /\ told \in [Asks \cup Actions -> SUBSET {"allow", "deny", "completed", "failed"}]
  /\ job \in {"none", "active", "cancelling"}
  /\ session \in {"open", "closing", "closed"}
  /\ main \in {"idle", "cancel", "actions", "clear", "close", "release"}
  /\ asked \in Nat

\* A thread acts on an approval exactly if the client was told that its
\* permission was applied: a timeout, a cancellation or a clear that races the
\* answer never makes the two sides believe different things.
AgentObeysClient ==
  \A a \in Asks : ask[a].verdict # "none" =>
    (ask[a].verdict = "allow" <=> told[a] = {"allow"})

\* "Duplicate responses already applied ... fail closed" (ide_protocol.md): at
\* most one answer to an approval is applied, whatever was pruned or cleared.
OneAnswerApplies == \A x \in Asks \cup Actions : Cardinality(told[x]) <= 1

\* A host action whose answer was applied is not withdrawn, and a withdrawn one
\* is not applied: the host never undoes what the agent goes on with.
AppliedOrWithdrawn ==
  \A h \in Actions : action[h].withdrawn => told[h] = {}

\* "A revoked grant cannot be recreated by a delayed approval waiter"
\* (ide_protocol.md): a grant appears when an open approval is answered, or
\* when a job is launched with it.
NoGrantReturns ==
  [][\A s \in grants' \ grants :
       \/ \E a \in Asks : /\ ask[a].scope = s /\ OpenAsk(a)
                          /\ ask'[a].decision = "allow"
       \/ job = "none" /\ job' = "active"]_vars

\* "Timeout is fail-closed" (ide_protocol.md) and nobody waits for ever: a
\* thread whose request has a deadline goes on, answered or not.
WaitersReturn ==
  /\ \A a \in Asks \ Persistent : ask[a].pc = "waiting" ~> ask[a].pc = "done"
  /\ \A h \in Actions : action[h].pc = "waiting" ~> action[h].pc = "done"

\* "A paused task waits for an explicit decision (or run cancellation)"
\* (_request_approval): a cancellation releases the workers it finds waiting.
CancelReleases ==
  \A a \in Persistent :
    main = "cancel" /\ ask[a].pc = "waiting" ~> ask[a].pc = "done"
=============================================================================
