----------------------------- MODULE PromptQueue -----------------------------
(***************************************************************************)
(* The durable queue of chat prompts (ide/prompt_queue.py) and the part of *)
(* the IDE bridge that drains it (ide/stdio_bridge.py): the handlers that  *)
(* fill, clear and rebind a session's queue, the loop that claims the next *)
(* prompt, the thread and heartbeat of a turn, and the timer that watches  *)
(* a prompt somebody else holds.                                           *)
(*                                                                         *)
(* A method of the queue is one BEGIN IMMEDIATE transaction, hence one     *)
(* step.  A prompt is identified with its AUTOINCREMENT sequence; a lease  *)
(* token, drawn at random in the code, with the number of its claim.       *)
(* `fresh' says that lease_expires_at has not passed.  The clock is read   *)
(* before a transaction begins, so a holder whose lease has just run out   *)
(* is accepted or refused (MayRefuse).                                     *)
(*                                                                         *)
(* Requests are handled by one thread, which writes the response and then  *)
(* runs the follow-up that the handler returned; turn threads and timers   *)
(* drain the queue too.  `todo' holds the calls a session still has in     *)
(* front of it: "drain" is one of the request thread, "redrain" one of any *)
(* other thread.  Of two redrains under way one is kept: a claim makes the *)
(* later one a no-op.                                                      *)
(***************************************************************************)
EXTENDS Integers, FiniteSets, FiniteSetsExt

CONSTANTS
  Bridges,         \* bridge processes
  Sessions,        \* session ids
  Keys,            \* idempotency keys
  None,            \* a NULL
  MaxPrompts,      \* bound: rows of the table
  MaxClaims,       \* bound: leases handed out
  Requests,        \* the requests clients send besides creating sessions and
                   \* sending prompts: "retry", "clear", "cancel", "close",
                   \* "resume", "delete", "shutdown"
  MaxRequests,     \* bound: requests the clients send
  MaxOutstanding,  \* config.max_outstanding_per_session
  Sleeps           \* may the lease of a living bridge run out?

ASSUME QueueAssumption ==
  /\ MaxPrompts \in Nat
  /\ MaxClaims \in Nat
  /\ MaxRequests \in Nat
  /\ MaxOutstanding \in Nat \ {0}
  /\ Sleeps \in BOOLEAN
  /\ None \notin Bridges \cup Sessions \cup Keys

VARIABLES
  row,    \* prompt_queue_items
  log,    \* ide_prompt_completed events in the log of each session
  up,     \* the bridge processes
  sess,   \* a bridge's sessions
  job,    \* a bridge's job of each prompt
  todo,   \* calls a bridge still has to make for a session
  claim,  \* leases handed out, each with the thread that works under it
  asked   \* number of requests so far

vars == <<row, log, up, sess, job, todo, claim, asked>>

Prompts == 1..MaxPrompts
Tokens == 1..MaxClaims
Terminal == {"completed", "cancelled", "failed"}

Row == [st : {"absent", "pending", "running"} \cup Terminal,
        ses : Sessions \cup {None}, key : Keys \cup {None},
        tok : Tokens \cup {0}, lses : Sessions \cup {None},
        fresh : BOOLEAN, started : BOOLEAN, moved : BOOLEAN]

\* seen is the bridge's copy of the session log, read when it opens; listed
\* the running prompt that session.resume has found.
Sess == [st : {"none", "open", "closing", "closed"},
         active : Prompts \cup {0}, listed : Prompts \cup {0},
         seen : SUBSET Prompts]

\* A job whose cancellation was requested counts as running.  watch is the
\* session for which prompt_reconciliation_started is set; due says that its
\* timer has found the prompt reclaimable.
Job == [st : {"none", "queued", "running", "final"}, cancel : BOOLEAN,
        watch : Sessions \cup {None}, due : BOOLEAN]

Calls == {"drain", "redrain", "list", "attach", "clear", "close", "end"}

Steps == {"free", "decide", "begin", "ready", "turn", "publish", "settle",
          "fail", "cancel", "wrap", "done"}

\* was: the row carried the execution marker when it was claimed; main: it is
\* still the request thread that works on the claim; stray: the session object
\* it works for was closed and its id is in use again.
ClaimRecord == [b : Bridges \cup {None}, s : Sessions \cup {None},
                p : Prompts \cup {0}, pc : Steps, was : BOOLEAN,
                lost : BOOLEAN, ran : BOOLEAN, main : BOOLEAN,
                stray : BOOLEAN]

NoRow == [st |-> "absent", ses |-> None, key |-> None, tok |-> 0,
          lses |-> None, fresh |-> FALSE, started |-> FALSE, moved |-> FALSE]
NoSess == [st |-> "none", active |-> 0, listed |-> 0, seen |-> {}]
NoJob == [st |-> "none", cancel |-> FALSE, watch |-> None, due |-> FALSE]
FreeClaim == [b |-> None, s |-> None, p |-> 0, pc |-> "free", was |-> FALSE,
              lost |-> FALSE, ran |-> FALSE, main |-> FALSE,
              stray |-> FALSE]

Init ==
  /\ row = [p \in Prompts |-> NoRow]
  /\ log = [s \in Sessions |-> {}]
  /\ up = [b \in Bridges |-> "up"]
  /\ sess = [b \in Bridges |-> [s \in Sessions |-> NoSess]]
  /\ job = [b \in Bridges |-> [p \in Prompts |-> NoJob]]
  /\ todo = [b \in Bridges |-> [s \in Sessions |-> {}]]
  /\ claim = [t \in Tokens |-> FreeClaim]
  /\ asked = 0

-----------------------------------------------------------------------------
(* Rows and leases.                                                        *)

InState(s, st) == {p \in Prompts : row[p].ses = s /\ row[p].st = st}

\* Mutant of Live: a lease blocks the session that accepted it.
LiveByLease(s) == {p \in InState(s, "running") : row[p].fresh /\ row[p].lses = s}

Live(s) == {p \in InState(s, "running") : row[p].fresh}
Expired(s) == InState(s, "running") \ Live(s)

\* A row without its lease.
Unleased(r, st) ==
  [r EXCEPT !.st = st, !.tok = 0, !.lses = None, !.fresh = FALSE]

\* Mutant of Holds: a lease is recognised by its session alone.
HoldsBySession(t) ==
  claim[t].s \in {row[claim[t].p].ses, row[claim[t].p].lses}

\* _require_live_lease but for the clock.
Holds(t) ==
  LET r == row[claim[t].p]
  IN  /\ r.st = "running"
      /\ r.tok = t
      /\ claim[t].s \in {r.ses, r.lses}

MayRefuse(t) == Holds(t) => ~row[claim[t].p].fresh

\* _finish, whose error the caller suppresses or handles.
Finished(t, st) ==
  row' = [row EXCEPT ![claim[t].p] = Unleased(@, st)]

Refused(t) == MayRefuse(t) /\ UNCHANGED row

Goto(t, pc) == claim' = [claim EXCEPT ![t].pc = pc]

Working(t) == claim[t].pc \notin {"free", "done"}

\* The thread of a claim is gone.
Over(c) == [c EXCEPT !.pc = "done", !.was = FALSE, !.lost = FALSE,
                     !.main = FALSE, !.stray = FALSE]
Exit(t) == claim' = [claim EXCEPT ![t] = Over(@)]

-----------------------------------------------------------------------------
(* Sessions of a bridge.                                                   *)

Serving(b, s) == up[b] = "up" /\ sess[b][s].st = "open"

\* _job_is_active(session.active_job)
Busy(b, s) ==
  /\ sess[b][s].active # 0
  /\ job[b][sess[b][s].active].st \in {"queued", "running"}

\* The request thread has nothing left to do for the last request.
NextRequest(b) ==
  /\ up[b] = "up"
  /\ \A s \in Sessions : todo[b][s] \subseteq {"redrain"}
  /\ \A t \in Tokens : claim[t].b = b => ~claim[t].main

Call(b, s, calls) == todo' = [todo EXCEPT ![b][s] = @ \cup calls]
Return(b, s, call) == todo' = [todo EXCEPT ![b][s] = @ \ {call}]

\* session.create, or run.start for a new session: the store is hydrated from
\* the log, and the queue is drained.  Threads and timers of a closed session
\* with the same id find it closed.
Open(b, s) ==
  /\ NextRequest(b)
  /\ sess[b][s].st \in {"none", "closed"}
  /\ sess' = [sess EXCEPT ![b][s] = [NoSess EXCEPT !.st = "open",
                                                   !.seen = log[s]]]
  /\ todo' = [todo EXCEPT ![b][s] = {"drain"}]
  /\ claim' = [t \in Tokens |->
       IF Working(t) /\ claim[t].b = b /\ claim[t].s = s
       THEN [claim[t] EXCEPT !.stray = TRUE] ELSE claim[t]]
  /\ job' = [job EXCEPT ![b] = [p \in Prompts |->
       IF job[b][p].watch = s
       THEN [job[b][p] EXCEPT !.watch = None, !.due = FALSE]
       ELSE job[b][p]]]
  /\ UNCHANGED <<row, log, up>>

\* chat.send with a key the session has not seen.
EnqueueNew(b, s, k) ==
  /\ NextRequest(b) /\ Serving(b, s)
  /\ \A p \in Prompts : row[p].ses = s => row[p].key # k
  /\ Cardinality(InState(s, "pending") \cup InState(s, "running"))
       < MaxOutstanding
  /\ \E p \in Prompts :
       /\ row[p].st = "absent"
       /\ \A q \in 1..(p - 1) : row[q].st # "absent"
       /\ row' = [row EXCEPT ![p].st = "pending", ![p].ses = s,
                             ![p].key = k]
  /\ Call(b, s, IF Busy(b, s) THEN {} ELSE {"drain"})
  /\ UNCHANGED <<log, up, sess, job, claim>>

\* chat.send repeated with the same key and payload: the row is returned, and
\* a running one is watched.
EnqueueAgain(b, s, p) ==
  /\ NextRequest(b) /\ Serving(b, s)
  /\ row[p].ses = s
  /\ Call(b, s, IF Busy(b, s) THEN {} ELSE {"drain"})
  /\ job' = IF row[p].st = "running" /\ job[b][p].watch = None
            THEN [job EXCEPT ![b][p].watch = s] ELSE job
  /\ UNCHANGED <<row, log, up, sess, claim>>

\* chat.queue.delete
DeletePending(b, p) ==
  /\ row[p].st = "pending"
  /\ NextRequest(b) /\ Serving(b, row[p].ses)
  /\ row' = [row EXCEPT ![p].st = "cancelled"]
  /\ job' = IF job[b][p].st = "queued" THEN [job EXCEPT ![b][p].st = "final"]
            ELSE job
  /\ UNCHANGED <<log, up, sess, todo, claim>>

\* cancel_pending_for_session
CancelPending(s) ==
  row' = [p \in Prompts |-> IF p \in InState(s, "pending")
                            THEN [row[p] EXCEPT !.st = "cancelled"]
                            ELSE row[p]]

\* session.clear looks at the session under the state lock ...
ClearCheck(b, s) ==
  /\ NextRequest(b) /\ Serving(b, s)
  /\ ~Busy(b, s)
  /\ Call(b, s, {"clear"})
  /\ UNCHANGED <<row, log, up, sess, job, claim>>

\* ... and then cancels what is queued and clears the conversation.
Clear(b, s) ==
  /\ "clear" \in todo[b][s]
  /\ CancelPending(s)
  /\ Return(b, s, "clear")
  /\ UNCHANGED <<log, up, sess, job, claim>>

\* Under the state lock session.cancel asks the job of a busy session to stop;
\* an idle session will be closed.
Stop(b, s, closing, calls) ==
  IF Busy(b, s)
  THEN /\ job' = [job EXCEPT ![b][sess[b][s].active].cancel = TRUE,
                             ![b][sess[b][s].active].st = "running"]
       /\ sess' = IF closing THEN [sess EXCEPT ![b][s].st = "closing"]
                  ELSE sess
       /\ todo' = [todo EXCEPT ![b][s] = calls]
  ELSE /\ todo' = [todo EXCEPT ![b][s] = calls \cup {"end"}]
       /\ UNCHANGED <<job, sess>>

SessionCancel(b, s) ==
  /\ NextRequest(b)
  /\ sess[b][s].st \in {"open", "closing"}
  /\ Stop(b, s, FALSE, todo[b][s])
  /\ UNCHANGED <<row, log, up, claim>>

\* session.cancel with close_when_idle first cancels what is queued.
CloseRequest(b, s) ==
  /\ NextRequest(b)
  /\ sess[b][s].st \in {"open", "closing"}
  /\ CancelPending(s)
  /\ Call(b, s, {"close"})
  /\ UNCHANGED <<log, up, sess, job, claim>>

CloseDecide(b, s) ==
  /\ "close" \in todo[b][s]
  /\ Stop(b, s, TRUE, todo[b][s] \ {"close"})
  /\ UNCHANGED <<row, log, up, claim>>

\* _close_session: until it has released the resources of the session other
\* threads find it open.
CloseSession(b, s) ==
  /\ "end" \in todo[b][s]
  /\ sess' = [sess EXCEPT ![b][s].st = "closed"]
  /\ Return(b, s, "end")
  /\ UNCHANGED <<row, log, up, job, claim>>

\* _close_session_after_job
CloseAfterJob(b, s) ==
  /\ sess[b][s].st = "closing"
  /\ ~Busy(b, s)
  /\ \A t \in Tokens : claim[t].b = b /\ claim[t].s = s
                         => claim[t].pc = "done"
  /\ sess' = [sess EXCEPT ![b][s].st = "closed"]
  /\ UNCHANGED <<row, log, up, job, todo, claim>>

ActiveJobs(b) == {sess[b][s].active : s \in {s \in Sessions : Busy(b, s)}}

\* bridge.shutdown cancels the active jobs; the process is gone after a
\* bounded wait (Crash).
Shutdown(b) ==
  /\ NextRequest(b)
  /\ up' = [up EXCEPT ![b] = "closed"]
  /\ job' = [job EXCEPT ![b] = [p \in Prompts |->
                [job[b][p] EXCEPT !.cancel = @ \/ p \in ActiveJobs(b)]]]
  /\ UNCHANGED <<row, log, sess, todo, claim>>

\* The process ends, with its threads.
Crash(b) ==
  /\ up[b] # "dead"
  /\ up' = [up EXCEPT ![b] = "dead"]
  /\ sess' = [sess EXCEPT ![b] = [s \in Sessions |-> NoSess]]
  /\ job' = [job EXCEPT ![b] = [p \in Prompts |-> NoJob]]
  /\ todo' = [todo EXCEPT ![b] = [s \in Sessions |-> {}]]
  /\ claim' = [t \in Tokens |-> IF claim[t].b = b THEN Over(claim[t])
                               ELSE claim[t]]
  /\ UNCHANGED <<row, log>>

\* The bridge that holds the prompt is gone.
Abandoned(p) == row[p].st = "running" /\ up[claim[row[p].tok].b] = "dead"

\* A lease runs out.  A living bridge renews it every 30 of its 120 seconds, so
\* this takes a dead one, or one whose machine slept.
Expire(p) ==
  /\ row[p].st = "running"
  /\ row[p].fresh
  /\ Sleeps \/ Abandoned(p)
  /\ row' = [row EXCEPT ![p].fresh = FALSE]
  /\ UNCHANGED <<log, up, sess, job, todo, claim>>

-----------------------------------------------------------------------------
(* session.resume: rebinding a queue.                                      *)

\* Mutant of Rebound: a requeued prompt starts afresh.
ReboundAfresh(r, target) ==
  LET moved == [r EXCEPT !.ses = target, !.moved = TRUE]
  IN  IF r.st = "running" /\ ~r.fresh
      THEN [Unleased(moved, "pending") EXCEPT !.started = FALSE]
      ELSE moved

\* What rebind_recoverable makes of a row of the source session.
Rebound(r, target) ==
  LET moved == [r EXCEPT !.ses = target, !.moved = TRUE]
  IN  IF r.st = "running" /\ ~r.fresh THEN Unleased(moved, "pending")
      ELSE moved

\* Mutant of CanRebind: a running prompt of the target is overlooked.
CanRebindKeys(source, target) ==
  \A p \in InState(source, "pending") \cup InState(source, "running"),
     q \in Prompts : row[q].ses = target => row[q].key # row[p].key

\* rebind_recoverable refuses to mix keys, or two running prompts.
CanRebind(source, target) ==
  LET outstanding == InState(source, "pending") \cup InState(source, "running")
  IN  /\ \A p \in outstanding, q \in Prompts :
           row[q].ses = target => row[q].key # row[p].key
      /\ \/ InState(source, "running") = {}
         \/ InState(target, "running") = {}

\* session.resume: the source must not be open in this bridge; it may be in
\* another.  A session can also resume itself, which moves nothing.
Resume(b, source, target) ==
  /\ NextRequest(b) /\ Serving(b, target)
  /\ \/ source = target /\ UNCHANGED row
     \/ /\ sess[b][source].st \in {"none", "closed"}
        /\ CanRebind(source, target)
        /\ row' = [p \in Prompts |->
                     IF row[p].ses = source /\ row[p].st \in {"pending", "running"}
                     THEN Rebound(row[p], target) ELSE row[p]]
  /\ Call(b, target, {"list"})
  /\ UNCHANGED <<log, up, sess, job, claim>>

\* _resume_prompt_queue lists what is running ...
ListRunning(b, s) ==
  /\ "list" \in todo[b][s]
  /\ LET running == InState(s, "running")
         next == IF running = {} THEN "drain" ELSE "attach"
     IN  /\ todo' = [todo EXCEPT ![b][s] = (@ \ {"list"}) \cup {next}]
         /\ sess' = [sess EXCEPT ![b][s].listed =
                       IF running = {} THEN 0 ELSE Min(running)]
  /\ UNCHANGED <<row, log, up, job, claim>>

\* ... and then, under the state lock, makes it the session's active job and
\* watches it.
Attach(b, s) ==
  /\ "attach" \in todo[b][s]
  /\ LET p == sess[b][s].listed
     IN  /\ job' = [job EXCEPT ![b][p].st = "running",
                               ![b][p].watch = IF @ = None THEN s ELSE @]
         /\ sess' = [sess EXCEPT ![b][s] = [@ EXCEPT !.active = p, !.listed = 0]]
  /\ Return(b, s, "attach")
  /\ UNCHANGED <<row, log, up, claim>>

\* Mutant of Conclude: nobody drains the queue after a turn.
ConcludeOnly(b, s, p, watch, drain) ==
  /\ job' = [job EXCEPT ![b][p].st = "final", ![b][p].watch = watch]
  /\ sess' = [sess EXCEPT ![b][s].active =
                IF @ # 0 /\ (@ = p \/ job[b][@].st = "final") THEN 0 ELSE @]
  /\ UNCHANGED todo

\* _mark_job_completed, _reconcile_session_job_state and a call of the drain.
Conclude(b, s, p, watch, drain) ==
  /\ job' = [job EXCEPT ![b][p].st = "final", ![b][p].watch = watch]
  /\ sess' = [sess EXCEPT ![b][s].active =
                IF @ # 0 /\ (@ = p \/ job[b][@].st = "final") THEN 0 ELSE @]
  /\ Call(b, s, {drain})

\* The timer of _schedule_prompt_reconciliation: it stops, reports what has
\* become of the prompt, or finds it reclaimable ...
Poll(b, p) ==
  LET s == job[b][p].watch
      gone == up[b] # "up" \/ sess[b][s].st \notin {"open", "closing"}
                \/ row[p].ses # s
  IN  /\ s # None /\ ~job[b][p].due
      /\ \/ /\ gone
            /\ job' = [job EXCEPT ![b][p].watch = None]
            /\ UNCHANGED <<sess, todo>>
         \/ /\ ~gone
            /\ row[p].st \in Terminal
            /\ Conclude(b, s, p, None, "redrain")
         \/ /\ ~gone
            /\ row[p].st = "pending" \/ p \in Expired(s)
            /\ job' = [job EXCEPT ![b][p].due = TRUE]
            /\ UNCHANGED <<sess, todo>>
      /\ UNCHANGED <<row, log, up, claim>>

\* ... and then, under the state lock, gives it up and drains the queue.
Reclaim(b, p) ==
  LET s == job[b][p].watch
  IN  /\ job[b][p].due
      /\ job' = [job EXCEPT ![b][p] =
                   [@ EXCEPT !.st = "queued", !.watch = None, !.due = FALSE]]
      /\ sess' = [sess EXCEPT ![b][s].active = IF @ = p THEN 0 ELSE @]
      /\ Call(b, s, {"redrain"})
      /\ UNCHANGED <<row, log, up, claim>>

-----------------------------------------------------------------------------
(* The drain and the turn.                                                 *)

\* claim_next: nothing while a live lease blocks the session, else the oldest
\* prompt that is pending or whose lease ran out.
Eligible(s) ==
  IF Live(s) # {} THEN {} ELSE InState(s, "pending") \cup Expired(s)

\* The unique index on running rows rejects the claim's UPDATE.
IndexRejects(s) ==
  Eligible(s) # {} /\ InState(s, "running") \ {Min(Eligible(s))} # {}

\* A drain that ends without a claim.
DrainReturns(b, s, drain) ==
  /\ drain \in todo[b][s]
  /\ \/ ~Serving(b, s)
     \/ Busy(b, s)
     \/ Eligible(s) = {}
     \/ IndexRejects(s)
  /\ Return(b, s, drain)
  /\ UNCHANGED <<row, log, up, sess, job, claim>>

ClaimNext(b, s, drain) ==
  /\ drain \in todo[b][s]
  /\ Serving(b, s) /\ ~Busy(b, s)
  /\ Eligible(s) # {} /\ ~IndexRejects(s)
  /\ LET p == Min(Eligible(s))
     IN  /\ \E t \in Tokens :
              /\ claim[t].pc = "free"
              /\ \A u \in 1..(t - 1) : claim[u].pc # "free"
              /\ row' = [row EXCEPT ![p].st = "running", ![p].tok = t,
                                    ![p].lses = s, ![p].fresh = TRUE]
              /\ claim' = [claim EXCEPT ![t] =
                   [FreeClaim EXCEPT !.b = b, !.s = s, !.p = p,
                                     !.pc = "decide", !.was = row[p].started,
                                     !.main = (drain = "drain")]]
         /\ job' = [job EXCEPT ![b][p].st = "queued"]
         /\ sess' = [sess EXCEPT ![b][s].active = p]
  /\ Return(b, s, drain)
  /\ UNCHANGED <<log, up>>

\* Mutant of Decide: a prompt that was begun is taken to be finished.
DecideBegunIsDone(t) ==
  LET c == claim[t]
      known == c.was \/ c.p \in sess[c.b][c.s].seen
  IN  /\ c.pc = "decide"
      /\ \/ known /\ Holds(t) /\ Finished(t, "completed") /\ Goto(t, "wrap")
         \/ known /\ Refused(t) /\ Exit(t)
         \/ ~known /\ Goto(t, "fail") /\ UNCHANGED row
         \/ /\ ~known
            /\ claim' = [claim EXCEPT ![t].pc = "begin", ![t].main = FALSE]
            /\ UNCHANGED row
      /\ UNCHANGED <<log, up, sess, job, todo>>

\* _drain_prompt_queue after the claim.  A prompt whose turn is known to have
\* finished is completed; if that is refused the loop just returns.  One that
\* has an invalid payload or was begun before is failed.
Decide(t) ==
  LET c == claim[t]
      known == c.p \in sess[c.b][c.s].seen
  IN  /\ c.pc = "decide"
      /\ \/ known /\ Holds(t) /\ Finished(t, "completed") /\ Goto(t, "wrap")
         \/ known /\ Refused(t) /\ Exit(t)
         \/ ~known /\ Goto(t, "fail") /\ UNCHANGED row
         \/ /\ ~known /\ ~c.was
            /\ claim' = [claim EXCEPT ![t].pc = "begin", ![t].main = FALSE]
            /\ UNCHANGED row
      /\ UNCHANGED <<log, up, sess, job, todo>>

\* _start_job_thread fails: the job is marked before the prompt is failed.
NoThread(t) ==
  LET c == claim[t]
  IN  /\ c.pc = "decide"
      /\ c.p \notin sess[c.b][c.s].seen /\ ~c.was
      /\ job' = [job EXCEPT ![c.b][c.p].st = "final"]
      /\ sess' = [sess EXCEPT ![c.b][c.s].active =
                    IF @ = c.p /\ ~c.stray THEN 0 ELSE @]
      /\ Goto(t, "fail")
      /\ UNCHANGED <<row, log, up, todo>>

\* mark_execution_started, at the start of the turn's thread.
MarkStarted(t) ==
  LET p == claim[t].p
  IN  /\ claim[t].pc = "begin"
      /\ \/ /\ Holds(t) /\ ~row[p].started
            /\ row' = [row EXCEPT ![p].started = TRUE]
            /\ Goto(t, "ready")
         \/ /\ MayRefuse(t) \/ row[p].started
            /\ Goto(t, "fail")
            /\ UNCHANGED row
      /\ UNCHANGED <<log, up, sess, job, todo>>

\* _mark_job_running, the marker in the session log (which may fail), the look
\* at the cancellation event, and the agent's turn.
StartTurn(t) ==
  LET c == claim[t]
      cancelled == job[c.b][c.p].cancel
  IN  /\ c.pc = "ready"
      /\ job' = [job EXCEPT ![c.b][c.p].st =
                   IF @ = "final" THEN @ ELSE "running"]
      /\ \/ Goto(t, "fail")
         \/ cancelled /\ Goto(t, "cancel")
         \/ /\ ~cancelled
            /\ claim' = [claim EXCEPT ![t].pc = "turn", ![t].ran = TRUE]
      /\ UNCHANGED <<row, log, up, sess, todo>>

\* The turn returns, or raises.
EndTurn(t) ==
  LET cancelled == job[claim[t].b][claim[t].p].cancel
  IN  /\ claim[t].pc = "turn"
      /\ \/ Goto(t, "fail")
         \/ cancelled /\ Goto(t, "cancel")
         \/ ~cancelled /\ ~claim[t].lost /\ Goto(t, "publish")
      /\ UNCHANGED <<row, log, up, sess, job, todo>>

\* The checkpoint and the ide_prompt_completed event.
Publish(t) ==
  LET c == claim[t]
  IN  /\ c.pc = "publish"
      /\ \/ Goto(t, "fail") /\ UNCHANGED <<log, sess>>
         \/ /\ log' = [log EXCEPT ![c.s] = @ \cup {c.p}]
            /\ sess' = [sess EXCEPT ![c.b][c.s].seen =
                          IF c.stray THEN @ ELSE @ \cup {c.p}]
            /\ Goto(t, "settle")
      /\ UNCHANGED <<row, up, job, todo>>

\* complete; an error is handled like any other.
Complete(t) ==
  /\ claim[t].pc = "settle"
  /\ \/ Holds(t) /\ Finished(t, "completed") /\ Goto(t, "wrap")
     \/ Refused(t) /\ Goto(t, "fail")
  /\ UNCHANGED <<log, up, sess, job, todo>>

\* Mutant of FailClaim: the row gets a state the table does not know.
FailClaimAsError(t) ==
  /\ claim[t].pc = "fail"
  /\ (Holds(t) /\ Finished(t, "error")) \/ Refused(t)
  /\ Goto(t, "wrap")
  /\ UNCHANGED <<log, up, sess, job, todo>>

\* fail and cancel_claimed, whose errors are suppressed.
FailClaim(t) ==
  /\ claim[t].pc = "fail"
  /\ (Holds(t) /\ Finished(t, "failed")) \/ Refused(t)
  /\ Goto(t, "wrap")
  /\ UNCHANGED <<log, up, sess, job, todo>>

CancelClaimed(t) ==
  /\ claim[t].pc = "cancel"
  /\ (Holds(t) /\ Finished(t, "cancelled")) \/ Refused(t)
  /\ Goto(t, "wrap")
  /\ UNCHANGED <<log, up, sess, job, todo>>

\* The job is marked and the next prompt drained.
Wrap(t) ==
  LET c == claim[t]
  IN  /\ c.pc = "wrap"
      /\ IF c.stray
         THEN /\ job' = [job EXCEPT ![c.b][c.p].st = "final"]
              /\ UNCHANGED <<sess, todo>>
         ELSE Conclude(c.b, c.s, c.p, job[c.b][c.p].watch,
                       IF c.main THEN "drain" ELSE "redrain")
      /\ Exit(t)
      /\ UNCHANGED <<row, log, up>>

\* _prompt_lease_heartbeat: a renewal, or the loss of the lease.
Beat(t) ==
  LET c == claim[t]
  IN  /\ c.pc \in {"ready", "turn", "publish"} /\ ~c.lost
      /\ \/ /\ Holds(t)
            /\ row' = [row EXCEPT ![c.p].fresh = TRUE]
            /\ UNCHANGED <<claim, job>>
         \/ /\ Refused(t)
            /\ claim' = [claim EXCEPT ![t].lost = TRUE]
            /\ job' = [job EXCEPT ![c.b][c.p].cancel = TRUE]
      /\ UNCHANGED <<log, up, sess, todo>>

TurnStep(t) ==
  \/ Decide(t) \/ NoThread(t) \/ MarkStarted(t) \/ StartTurn(t) \/ EndTurn(t)
  \/ Publish(t) \/ Complete(t) \/ FailClaim(t) \/ CancelClaimed(t) \/ Wrap(t)

Request(b) ==
  /\ asked < MaxRequests
  /\ asked' = asked + 1
  /\ \/ \E s \in Sessions :
          \/ Open(b, s)
          \/ \E k \in Keys : EnqueueNew(b, s, k)
          \/ "retry" \in Requests /\ \E p \in Prompts : EnqueueAgain(b, s, p)
          \/ "clear" \in Requests /\ ClearCheck(b, s)
          \/ "cancel" \in Requests /\ SessionCancel(b, s)
          \/ "close" \in Requests /\ CloseRequest(b, s)
          \/ "resume" \in Requests
               /\ \E source \in Sessions : Resume(b, source, s)
     \/ "delete" \in Requests /\ \E p \in Prompts : DeletePending(b, p)
     \/ "shutdown" \in Requests /\ Shutdown(b)

FollowUp(b, s) ==
  \/ Clear(b, s) \/ CloseDecide(b, s) \/ CloseSession(b, s)
  \/ CloseAfterJob(b, s)
  \/ ListRunning(b, s) \/ Attach(b, s)
  \/ \E drain \in {"drain", "redrain"} :
       DrainReturns(b, s, drain) \/ ClaimNext(b, s, drain)

Internal ==
  \/ \E b \in Bridges : Crash(b)
  \/ \E b \in Bridges, s \in Sessions : FollowUp(b, s)
  \/ \E b \in Bridges, p \in Prompts : Poll(b, p) \/ Reclaim(b, p)
  \/ \E p \in Prompts : Expire(p)
  \/ \E t \in Tokens : TurnStep(t) \/ Beat(t)

Quietly(A) == A /\ UNCHANGED asked

Next ==
  \/ \E b \in Bridges : Request(b)
  \/ Quietly(Internal)

Spec == Init /\ [][Next]_vars

\* Threads and timers run, a turn has a budget and a deadline, and time passes.
\* Requests and crashes are not forced.
FairSpec ==
  /\ Spec
  /\ \A b \in Bridges, s \in Sessions : WF_vars(Quietly(FollowUp(b, s)))
  /\ \A b \in Bridges, p \in Prompts :
       WF_vars(Quietly(Poll(b, p) \/ Reclaim(b, p)))
  /\ \A t \in Tokens : WF_vars(Quietly(TurnStep(t)))
  /\ \A p \in Prompts :
       WF_vars(Quietly(Abandoned(p) /\ Expire(p)))

-----------------------------------------------------------------------------
(* Properties.                                                             *)

\* Rows, logs, sessions, jobs and claims have their types.
TypeOK ==
  /\ row \in [Prompts -> Row]
  /\ log \in [Sessions -> SUBSET Prompts]
  /\ up \in [Bridges -> {"up", "closed", "dead"}]
  /\ sess \in [Bridges -> [Sessions -> Sess]]
  /\ job \in [Bridges -> [Prompts -> Job]]
  /\ todo \in [Bridges -> [Sessions -> SUBSET Calls]]
  /\ claim \in [Tokens -> ClaimRecord]
  /\ asked \in Nat

\* The CHECK and UNIQUE clauses of prompt_queue_items hold although only the
\* claim relies on SQLite to enforce them: rebinding a queue, which checks for
\* itself, never mixes two running prompts or two uses of a key in a session.
SchemaHolds ==
  /\ \A p \in Prompts :
       row[p].st = "running" <=> row[p].tok # 0
  /\ \A p, q \in Prompts :
       p # q /\ row[p].st # "absent" /\ row[p].ses = row[q].ses
         => /\ row[p].key # row[q].key
            /\ ~(row[p].st = "running" /\ row[q].st = "running")

\* "At-most-once execution boundary" (mark_execution_started): whatever is
\* lost, expires, is rebound, retried or crashes, an agent's turn for a prompt
\* is started at most once.
ExecutedOnce ==
  \A t, u \in Tokens :
    claim[t].ran /\ claim[u].ran /\ claim[t].p = claim[u].p => t = u

\* A prompt is completed only if the end of its turn was written to a session
\* log; the drain that completes another bridge's prompt relies on that log.
CompletedWasPublished ==
  \A p \in Prompts :
    row[p].st = "completed" => \E s \in Sessions : p \in log[s]

Turning(t) == claim[t].pc = "turn"
Agent(t) == <<claim[t].b, claim[t].s, claim[t].stray>>

\* "Only one prompt runs per session" (docs/ide_protocol.md): two turns that are
\* executed together, by whatever bridges, belong to different sessions of the
\* queue; and an agent session executes two only if somebody else took over the
\* session of one of them.
OneTurnPerSession ==
  \A t, u \in Tokens :
    Turning(t) /\ Turning(u) /\ t # u
      => /\ row[claim[t].p].ses # row[claim[u].p].ses
         /\ Agent(t) = Agent(u) => row[claim[t].p].moved \/ row[claim[u].p].moved

\* "Atomically claim the oldest eligible prompt ...  An expired running item is
\* reclaimed" (claim_next): the prompt the claim selects can be claimed.
OldestIsClaimable == \A s \in Sessions : ~IndexRejects(s)

\* Somebody else holds the session's lease.
HeldElsewhere(b, s) ==
  \E p \in InState(s, "running") : claim[row[p].tok].b # b

\* "Additional sends remain durable and ordered until the active turn
\* finishes" (docs/ide_protocol.md), and then they are served: no hand-over
\* from turn to drain, timer or request loses the wake-up of the prompts that
\* wait in a bridge whose session is busy or about to be drained.
FollowUpsAreServed ==
  \A b \in Bridges, s \in Sessions :
    (/\ InState(s, "pending") # {} /\ Serving(b, s)
     /\ Busy(b, s) \/ todo[b][s] \cap {"drain", "redrain"} # {})
    ~> (\/ InState(s, "pending") = {} \/ ~Serving(b, s)
        \/ HeldElsewhere(b, s))

-----------------------------------------------------------------------------
(* The queue implements PromptService.                                     *)

phaseOf(p) ==
  CASE row[p].st = "absent" -> "new"
    [] row[p].st \in Terminal -> row[p].st
    [] OTHER -> IF row[p].started THEN "executing" ELSE "queued"

Service == INSTANCE PromptService WITH
    phase <- [p \in Prompts |-> phaseOf(p)],
    owner <- [p \in Prompts |-> row[p].ses],
    moved <- [p \in Prompts |-> row[p].moved]

\* Every step of queue, bridges and threads is a step of the promised service
\* or leaves it unchanged.
ImplementsService == Service!ServiceSpec
=============================================================================
