--------------------------- MODULE ResumableSwarm ---------------------------
(***************************************************************************)
(* The durable coordinator of IDE swarm jobs (ide/resumable_swarm.py) and  *)
(* the bridge thread that executes one job (_run_forge_swarm_job in        *)
(* ide/stdio_bridge.py).                                                   *)
(*                                                                         *)
(* Every coordinator method is one BEGIN IMMEDIATE transaction on a shared *)
(* SQLite database, so a method is one step here; what interleaves are the *)
(* steps of several bridge processes, their heartbeat threads, the client  *)
(* that cancels and resumes, and the passage of time.                      *)
(*                                                                         *)
(* Time.  A lease is valid until lease_expires_at.  Only whether that      *)
(* moment has passed matters, so the row keeps a flag.  A method reads the *)
(* clock before its transaction gets the database lock, so a holder may    *)
(* still be accepted for a while after its lease ran out: see MayRefuse.   *)
(*                                                                         *)
(* One session of one workspace is modelled; rows of other owners are      *)
(* never selected.  A job is identified with its idempotency key, which    *)
(* the schema makes unique.                                                *)
(***************************************************************************)
EXTENDS Naturals, FiniteSets

CONSTANTS
  Jobs,            \* idempotency keys, one job each
  Workers,         \* bridge job threads
  Scopes,          \* permission-scope fingerprints
  MaxOutstanding,  \* config.max_outstanding_per_session
  MaxGeneration,   \* bound: claims and resumes stop at this generation
  MaxRevision,     \* bound: heartbeats stop renewing at this revision
  MaxGrants,       \* bound: confirmations the user gives
  MaxSpend         \* bound: units of provider usage one job may burn

ASSUME ConstantsAssumption ==
  /\ MaxOutstanding \in Nat \ {0}
  /\ MaxGeneration \in Nat
  /\ MaxRevision \in Nat
  /\ MaxGrants \in Nat
  /\ MaxSpend \in Nat

VARIABLES
  row,      \* ide_swarm_jobs
  events,   \* ide_swarm_usage_events: generation key -> recorded amount
  grants,   \* fresh permission grants the client has confirmed
  used,     \* history: how often each grant was accepted
  spent,    \* usage found in the job's session directory
  runner    \* the bridge threads

vars == <<row, events, grants, used, spent, runner>>

States == {"absent", "queued", "running", "interrupted", "succeeded",
           "failed", "cancelled"}
Outstanding == {"queued", "running", "interrupted"}
Terminal == {"succeeded", "failed", "cancelled"}

\* token = 0 is a NULL lease.  A token is drawn at random by each claim; the
\* number of the claim stands for it.
Row == [state : States, revision : Nat, generation : Nat, attempts : Nat,
        resumes : Nat, scope : Scopes, token : Nat, expired : BOOLEAN,
        result : BOOLEAN, terminal : BOOLEAN, usage : Nat]

Intents == {"complete", "interrupt", "abort", "fail"}
Steps == {"idle", "launched", "running", "finish", "measure", "publish",
          "close"}

Runner == [pc : Steps, job : Jobs, scope : Scopes, generation : Nat,
           token : Nat, recorded : BOOLEAN, delta : Nat, intent : Intents,
           stop : {"no", "stop", "error"}]

Grant == [job : Jobs, revision : Nat]

-----------------------------------------------------------------------------
(* Coordinator transactions.                                               *)

\* A row as start_job inserts it.
NewRow(scope) ==
  [state |-> "queued", revision |-> 1, generation |-> 0, attempts |-> 0,
   resumes |-> 0, scope |-> scope, token |-> 0, expired |-> FALSE,
   result |-> FALSE, terminal |-> FALSE, usage |-> 0]

\* Mutants of Fenced: the generation steps back; the lease is not cleared.
FencedBackwards(r, state) ==
  [r EXCEPT !.state = state, !.revision = @ + 1, !.generation = @ - 1,
            !.token = 0, !.expired = FALSE, !.result = FALSE,
            !.terminal = state \in Terminal]
FencedKeepsLease(r, state) ==
  [r EXCEPT !.state = state, !.revision = @ + 1, !.generation = @ + 1,
            !.expired = FALSE, !.result = FALSE,
            !.terminal = state \in Terminal]

\* Every UPDATE that moves a job out of `running' or back to the queue also
\* revokes the lease: bump revision and generation, clear token and result.
Fenced(r, state) ==
  [r EXCEPT !.state = state, !.revision = @ + 1, !.generation = @ + 1,
            !.token = 0, !.expired = FALSE, !.result = FALSE,
            !.terminal = state \in Terminal]

\* _finish_locked, which also stores the result of a success.
Finished(r, state) ==
  [Fenced(r, state) EXCEPT !.result = (state = "succeeded")]

\* claim_job's UPDATE.
Claimed(r) ==
  [r EXCEPT !.state = "running", !.revision = @ + 1, !.generation = @ + 1,
            !.attempts = @ + 1, !.token = r.attempts + 1, !.expired = FALSE,
            !.terminal = FALSE, !.result = FALSE]

\* record_usage's INSERT and UPDATE.
Charged(r, amount) ==
  [r EXCEPT !.usage = @ + amount, !.revision = @ + 1]

Renewed(r) == [r EXCEPT !.expired = FALSE, !.revision = @ + 1]

\* Mutant of Holds: any running row accepts, whoever claimed it.
HoldsAnyRunning(w) == row[runner[w].job].state = "running"

\* _require_live_lease, the part that does not look at the clock.
Holds(w) ==
  LET r == row[runner[w].job] IN
  /\ r.state = "running"
  /\ r.generation = runner[w].generation
  /\ r.token = runner[w].token

\* Since the clock is read before the transaction, a holder whose lease has
\* just run out may be accepted or refused; anyone else is refused.
MayRefuse(w) == ~Holds(w) \/ row[runner[w].job].expired

\* Mutant of Recovered: the deadline comparison is turned round.
RecoveredTooEarly ==
  [j \in Jobs |-> IF row[j].state = "running" /\ ~row[j].expired
                  THEN Fenced(row[j], "interrupted") ELSE row[j]]

\* recover_stale_jobs(session_id = ...).
Recovered ==
  [j \in Jobs |-> IF row[j].state = "running" /\ row[j].expired
                  THEN Fenced(row[j], "interrupted") ELSE row[j]]

HasCapacity ==
  Cardinality({j \in Jobs : row[j].state \in Outstanding}) < MaxOutstanding

-----------------------------------------------------------------------------
(* The client: start, resume, cancel, status.                              *)

Idle(w) == runner[w].pc = "idle"

Leased(w) == runner[w].pc \in {"running", "finish", "measure", "publish", "close"}

Launched(w, j, scope) ==
  [runner[w] EXCEPT !.pc = "launched", !.job = j, !.scope = scope, !.token = 0]

\* The thread ends and its locals with it (job and token are kept as history).
Ended(r) ==
  [r EXCEPT !.pc = "idle", !.generation = 0, !.recorded = FALSE, !.delta = 0,
            !.intent = "complete", !.stop = "no"]

\* forge.swarm.start with a new key: insert the job and start its thread.
StartJob(w, j, scope) ==
  /\ Idle(w)
  /\ row[j].state = "absent"
  /\ HasCapacity
  /\ row' = [row EXCEPT ![j] = NewRow(scope)]
  /\ runner' = [runner EXCEPT ![w] = Launched(w, j, scope)]
  /\ UNCHANGED <<events, grants, used, spent>>

\* forge.swarm.start retried with a key already used.  A different request
\* conflicts and a job that left the queue is only reported; a job still
\* queued gets a thread again.
RestartJob(w, j) ==
  /\ Idle(w)
  /\ row[j].state = "queued"
  /\ runner' = [runner EXCEPT ![w] = Launched(w, j, row[j].scope)]
  /\ UNCHANGED <<row, events, grants, used, spent>>

\* The user confirms resuming the job at the revision the client shows.
ConfirmResume(j) ==
  /\ row[j].state \in {"running", "interrupted", "failed"}
  /\ Cardinality(grants) < MaxGrants
  /\ grants' = grants \cup {[job |-> j, revision |-> row[j].revision]}
  /\ UNCHANGED <<row, events, used, spent, runner>>

\* Mutant of ResumeGranted: the grant's revision is not compared.
ResumeGrantedEver(r, g, scope) ==
  /\ scope = r.scope
  /\ \/ r.state \in {"interrupted", "failed"}
     \/ r.state = "running" /\ r.expired

\* resume_job, a single transaction: the grant must name the revision of the
\* row as it is before an expired lease is swept.
ResumeGranted(r, g, scope) ==
  /\ g.revision = r.revision
  /\ scope = r.scope
  /\ \/ r.state \in {"interrupted", "failed"}
     \/ r.state = "running" /\ r.expired

\* Mutant of Resumed: the job starts over with its counters reset.
ResumedFromScratch(r) ==
  [Fenced(r, "queued") EXCEPT !.resumes = @ + 1, !.generation = 0, !.attempts = 0]

Resumed(r) ==
  LET swept == IF r.state = "running" THEN Fenced(r, "interrupted") ELSE r
  IN  [Fenced(swept, "queued") EXCEPT !.resumes = @ + 1]

\* forge.swarm.resume: recover stale jobs, resume this one, start its thread.
\* late: its lease ran out between the two transactions.
ResumeJob(w, g, scope, late) ==
  LET base == IF late THEN [Recovered EXCEPT ![g.job] = row[g.job]] ELSE Recovered
      r == base[g.job]
  IN /\ Idle(w)
     /\ g \in grants
     /\ ResumeGranted(r, g, scope)
     /\ r.generation < MaxGeneration
     /\ row' = [base EXCEPT ![g.job] = Resumed(r)]
     /\ used' = used \cup {<<g, r.resumes>>}
     /\ runner' = [runner EXCEPT ![w] = Launched(w, g.job, scope)]
     /\ UNCHANGED <<events, grants, spent>>

\* Mutant of CancelJob: a finished job can be cancelled.
CancelFinishedJob(j) ==
  /\ row[j].state \in Outstanding \cup {"succeeded"}
  /\ row' = [row EXCEPT ![j] = Fenced(@, "cancelled")]
  /\ UNCHANGED <<events, grants, used, spent, runner>>

\* cancel_job.  The cancellation event of the live thread is RequestStop.
CancelJob(j) ==
  /\ row[j].state \in Outstanding
  /\ row' = [row EXCEPT ![j] = Fenced(@, "cancelled")]
  /\ UNCHANGED <<events, grants, used, spent, runner>>

\* recover_stale_jobs, run by list, status, result and session attach.
RecoverStale ==
  /\ \E j \in Jobs : row[j].state = "running" /\ row[j].expired
  /\ row' = Recovered
  /\ UNCHANGED <<events, grants, used, spent, runner>>

\* Time passes lease_expires_at.
LeaseExpires(j) ==
  /\ row[j].state = "running"
  /\ ~row[j].expired
  /\ row' = [row EXCEPT ![j].expired = TRUE]
  /\ UNCHANGED <<events, grants, used, spent, runner>>

-----------------------------------------------------------------------------
(* The bridge thread of a job, its heartbeat thread, and bridge shutdown.  *)

Becomes(w, r) == runner' = [runner EXCEPT ![w] = r]

Claim(w) ==
  LET j == runner[w].job IN
  /\ runner[w].pc = "launched"
  /\ row[j].state = "queued"
  /\ row[j].scope = runner[w].scope
  /\ row[j].generation < MaxGeneration
  /\ row' = [row EXCEPT ![j] = Claimed(@)]
  /\ Becomes(w, [runner[w] EXCEPT !.pc = "running",
                                  !.generation = Claimed(row[j]).generation,
                                  !.token = Claimed(row[j]).token])
  /\ UNCHANGED <<events, grants, used, spent>>

\* claim_job raises: the thread ends without a lease.
ClaimRefused(w) ==
  /\ runner[w].pc = "launched"
  /\ row[runner[w].job].state # "queued"
  /\ Becomes(w, Ended(runner[w]))
  /\ UNCHANGED <<row, events, grants, used, spent>>

\* The engine's workers call the model provider.
Spend(w) ==
  LET j == runner[w].job IN
  /\ runner[w].pc = "running"
  /\ spent[j] < MaxSpend
  /\ spent' = [spent EXCEPT ![j] = @ + 1]
  /\ UNCHANGED <<row, events, grants, used, runner>>

\* forge.swarm.cancel, forge.cancel and shutdown set cancellation_event.
RequestStop(w) ==
  /\ runner[w].pc \in {"launched", "running"}
  /\ runner[w].stop = "no"
  /\ Becomes(w, [runner[w] EXCEPT !.stop = "stop"])
  /\ UNCHANGED <<row, events, grants, used, spent>>

\* The heartbeat thread renews; the renewal may still be in flight when the
\* job thread has begun to finish.
Beat(w) ==
  LET j == runner[w].job IN
  /\ runner[w].pc \in {"running", "finish"}
  /\ Holds(w)
  /\ row[j].revision < MaxRevision
  /\ row' = [row EXCEPT ![j] = Renewed(@)]
  /\ UNCHANGED <<events, grants, used, spent, runner>>

\* should_cancel answers true, or renew raises after it answered false.
BeatLost(w) ==
  /\ runner[w].pc = "running"
  /\ runner[w].stop # "error"
  /\ MayRefuse(w)
  /\ \E s \in {"stop", "error"} : Becomes(w, [runner[w] EXCEPT !.stop = s])
  /\ UNCHANGED <<row, events, grants, used, spent>>

\* The engine returns or raises, or _check_job_cancelled raised before it ran.
Return(w) ==
  /\ runner[w].pc = "running"
  /\ \E i \in CASE runner[w].stop = "no" -> {"complete", "interrupt", "fail"}
              [] runner[w].stop = "stop" -> {"interrupt", "abort", "fail"}
              [] runner[w].stop = "error" -> {"abort", "fail"} :
       Becomes(w, [runner[w] EXCEPT !.pc = "finish", !.intent = i])
  /\ UNCHANGED <<row, events, grants, used, spent>>

\* Mutant of CheckStatus: usage is recorded again on the failure path.
CheckStatusRecordsAgain(w) ==
  LET r == runner[w]
      settled == IF r.intent = "fail" THEN Terminal \cup {"interrupted"}
                                      ELSE {"cancelled"}
  IN /\ r.pc = "finish"
     /\ Becomes(w, IF row[r.job].state \in settled THEN Ended(r)
                   ELSE [r EXCEPT !.pc = "measure"])
     /\ UNCHANGED <<row, events, grants, used, spent>>

\* get_status before anything is written: some outcomes leave nothing to do.
CheckStatus(w) ==
  LET r == runner[w]
      settled == IF r.intent = "fail" THEN Terminal \cup {"interrupted"}
                                      ELSE {"cancelled"}
  IN /\ r.pc = "finish"
     /\ Becomes(w, IF row[r.job].state \in settled THEN Ended(r)
                   ELSE [r EXCEPT !.pc = IF r.recorded THEN "close" ELSE "measure"])
     /\ UNCHANGED <<row, events, grants, used, spent>>

\* Mutant of Measure: the whole total is charged, not what is new in it.
MeasureTotal(w) ==
  /\ runner[w].pc = "measure"
  /\ Becomes(w, [runner[w] EXCEPT !.pc = "publish", !.delta = spent[runner[w].job]])
  /\ UNCHANGED <<row, events, grants, used, spent>>

\* _record_usage, first half: what this job spent beyond what is recorded.
Measure(w) ==
  LET j == runner[w].job IN
  /\ runner[w].pc = "measure"
  /\ Becomes(w, [runner[w] EXCEPT
                   !.pc = "publish",
                   !.delta = IF spent[j] > row[j].usage
                             THEN spent[j] - row[j].usage ELSE 0])
  /\ UNCHANGED <<row, events, grants, used, spent>>

\* A SwarmLeaseLost from the main path enters the generic failure path; from
\* _fail_durable or _interrupt_durable it ends the thread after a sweep.
MainPath(r) == r.intent \in {"complete", "interrupt"}

FailPath(r) == [r EXCEPT !.pc = "finish", !.intent = "fail", !.delta = 0]

Lost(w) ==
  /\ IF MainPath(runner[w])
     THEN Becomes(w, FailPath(runner[w])) /\ row' = row
     ELSE Becomes(w, Ended(runner[w])) /\ row' = Recovered
  /\ UNCHANGED <<events, grants, used, spent>>

\* record_usage.  A key already used for a different amount raises a
\* conflict, which only the main path survives.
Publish(w) ==
  LET r == runner[w]
      prior == {e \in events[r.job] : e[1] = r.generation}
  IN /\ r.pc = "publish"
     /\ Holds(w)
     /\ IF prior = {}
        THEN /\ row' = [row EXCEPT ![r.job] = Charged(@, r.delta)]
             /\ events' = [events EXCEPT ![r.job] = @ \cup {<<r.generation, r.delta>>}]
        ELSE UNCHANGED <<row, events>>
     /\ Becomes(w, IF prior \subseteq {<<r.generation, r.delta>>}
                   THEN [r EXCEPT !.pc = "close", !.recorded = TRUE, !.delta = 0]
                   ELSE IF MainPath(r) THEN FailPath(r) ELSE Ended(r))
     /\ UNCHANGED <<grants, used, spent>>

PublishRefused(w) ==
  /\ runner[w].pc = "publish"
  /\ MayRefuse(w)
  /\ Lost(w)

Outcome(i) == CASE i = "complete" -> "succeeded"
                [] i = "fail" -> "failed"
                [] OTHER -> "interrupted"

\* complete, interrupt or fail.
Close(w) ==
  LET r == runner[w] IN
  /\ r.pc = "close"
  /\ Holds(w)
  /\ row' = [row EXCEPT ![r.job] = Finished(@, Outcome(r.intent))]
  /\ Becomes(w, Ended(r))
  /\ UNCHANGED <<events, grants, used, spent>>

CloseRefused(w) ==
  /\ runner[w].pc = "close"
  /\ MayRefuse(w)
  /\ Lost(w)

\* complete refuses a result that is too large or does not serialise.
ResultRejected(w) ==
  /\ runner[w].pc = "close"
  /\ runner[w].intent = "complete"
  /\ Becomes(w, FailPath(runner[w]))
  /\ UNCHANGED <<row, events, grants, used, spent>>

\* The bridge's close() interrupts the leases of jobs it could not join.
ShutdownInterrupt(w) ==
  /\ Leased(w)
  /\ runner[w].stop # "no"
  /\ Holds(w)
  /\ row' = [row EXCEPT ![runner[w].job] = Finished(@, "interrupted")]
  /\ UNCHANGED <<events, grants, used, spent, runner>>

\* The bridge process dies; a new one starts with an idle thread.
Crash(w) ==
  /\ runner[w].pc # "idle"
  /\ Becomes(w, [Ended(runner[w]) EXCEPT !.token = 0])
  /\ UNCHANGED <<row, events, grants, used, spent>>

-----------------------------------------------------------------------------
Init ==
  /\ \E s \in Scopes : row = [j \in Jobs |-> [NewRow(s) EXCEPT !.state = "absent", !.revision = 0]]
  /\ events = [j \in Jobs |-> {}]
  /\ grants = {}
  /\ used = {}
  /\ spent = [j \in Jobs |-> 0]
  /\ \E j \in Jobs, s \in Scopes :
       runner = [w \in Workers |->
                   [pc |-> "idle", job |-> j, scope |-> s, generation |-> 0,
                    token |-> 0, recorded |-> FALSE, delta |-> 0,
                    intent |-> "complete", stop |-> "no"]]

Client ==
  \/ \E w \in Workers, j \in Jobs, s \in Scopes : StartJob(w, j, s)
  \/ \E w \in Workers, j \in Jobs : RestartJob(w, j)
  \/ \E j \in Jobs : ConfirmResume(j) \/ CancelJob(j)
  \/ \E w \in Workers, g \in grants, s \in Scopes, late \in BOOLEAN :
       ResumeJob(w, g, s, late)

Thread(w) ==
  \/ Claim(w) \/ ClaimRefused(w) \/ Spend(w) \/ RequestStop(w)
  \/ Beat(w) \/ BeatLost(w) \/ Return(w) \/ CheckStatus(w) \/ Measure(w)
  \/ Publish(w) \/ PublishRefused(w) \/ Close(w) \/ CloseRefused(w)
  \/ ResultRejected(w) \/ ShutdownInterrupt(w) \/ Crash(w)

Next ==
  \/ Client
  \/ RecoverStale
  \/ \E j \in Jobs : LeaseExpires(j)
  \/ \E w \in Workers : Thread(w)

\* Time passes, and some client keeps asking for a status, which sweeps.
Fairness ==
  /\ \A j \in Jobs : WF_vars(LeaseExpires(j))
  /\ WF_vars(RecoverStale)

Spec == Init /\ [][Next]_vars
FairSpec == Spec /\ Fairness

-----------------------------------------------------------------------------
(* Properties.                                                             *)

\* The tables, the confirmations and the threads have their types: in
\* particular the counters of a row never drop below zero.
TypeOK ==
  /\ row \in [Jobs -> Row]
  /\ events \in [Jobs -> SUBSET (Nat \X Nat)]
  /\ grants \subseteq Grant
  /\ used \subseteq Grant \X Nat
  /\ spent \in [Jobs -> Nat]
  /\ runner \in [Workers -> Runner]

\* The CHECK constraints of ide_swarm_jobs hold after every UPDATE, so no
\* statement of the coordinator can be aborted by them: a lease is stored
\* exactly while the job runs, a result exactly once it has succeeded, and
\* terminal_at exactly in a terminal state.
SchemaChecks ==
  \A j \in Jobs :
    /\ row[j].state = "running" <=> row[j].token # 0
    /\ row[j].result <=> row[j].state = "succeeded"
    /\ row[j].terminal <=> row[j].state \in Terminal

\* At most one bridge thread has the authority to publish for a job, however
\* claims, expiries, sweeps, resumes, crashes and restarts interleave.
SingleHolder ==
  \A v, w \in Workers :
    (/\ Leased(v) /\ Holds(v)
     /\ Leased(w) /\ Holds(w)
     /\ runner[v].job = runner[w].job) => v = w

\* A worker that was cancelled, swept or superseded never regains authority
\* with the lease it has: no later claim makes its token and generation valid
\* again (_require_live_lease).
LostLeaseStaysLost ==
  [][\A w \in Workers :
       (Leased(w) /\ ~Holds(w)) => (Leased(w)' => ~Holds(w)')]_vars

\* record_usage is exactly once per attempt: a generation is charged at most
\* once, and the usage of a job never exceeds what its sessions really spent,
\* although the amount is computed from a status read before the charge.
UsageExactlyOnce ==
  \A j \in Jobs :
    /\ \A d, e \in events[j] : d[1] = e[1] => d = e
    /\ row[j].usage <= spent[j]

\* One confirmation by the user authorises at most one resume
\* (_require_fresh_permission_grant compares the revision).
GrantUsedOnce ==
  \A a, b \in used : a[1] = b[1] => a = b

\* Nothing happens to a job after forge.swarm.cancel has returned, and a
\* success is never overwritten.
FinalStatesAreFinal ==
  [][\A j \in Jobs : row[j].state \in {"cancelled", "succeeded"}
                       => row'[j] = row[j]]_vars

\* A job thread that ends by itself does not leave its job running: whatever
\* error it met, the durable row was finished, fenced or swept before.
NoOrphanAfterExit ==
  \A w \in Workers :
    (Idle(w) /\ runner[w].token # 0)
      => ~(row[runner[w].job].state = "running"
           /\ row[runner[w].job].token = runner[w].token)

\* A running job nobody executes any more: its bridge process died.
Abandoned(j) ==
  /\ row[j].state = "running"
  /\ \A w \in Workers : ~(Leased(w) /\ Holds(w) /\ runner[w].job = j)

\* A job whose bridge died is not reported as running for ever.
AbandonedIsSwept ==
  \A j \in Jobs : Abandoned(j) ~> (row[j].state # "running")

=============================================================================
