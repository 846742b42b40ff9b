---------------------------- MODULE SwarmEngine ----------------------------
(***************************************************************************)
(* One Forge swarm (swarm_orchestrator.run_swarm with swarm_scheduler, the *)
(* git-worktree backend and the worker threads): tasks of a plan are       *)
(* scheduled in batches, each runs in a worktree and on a branch of its    *)
(* own, its result is settled, and accepted results are merged into the    *)
(* base branch behind an integration gate.                                 *)
(*                                                                         *)
(* The plan file, the worktrees, the branches and the base branch survive  *)
(* a crash; everything else is local to one run.  A task's work is         *)
(* abstracted to whether its worktree has uncommitted edits and whether    *)
(* its branch has commits.  The outcome of an agent, a verification, a     *)
(* review, a gate or a git command is a choice.                            *)
(***************************************************************************)
EXTENDS Integers, Sequences, FiniteSets

CONSTANTS
  NumTasks,    \* the tasks of the plan are 1..NumTasks, in plan order
  Deps,        \* Deps[t]: the tasks t depends on
  Claims,      \* Claims[t]: the files t claims; {} if not precise
  Group,       \* Group[t]: its parallel_group; 0 if none
  Red,         \* the expected-red regression precursors
  Impl,        \* the tasks with a primary implementation scope
  Options,     \* the ways a run is started, see RunOptions
  MaxRuns,     \* bound: runs
  MaxCrashes,  \* bound: runs that die
  AttemptCap,  \* bound: attempts are counted up to here
  Faults       \* which commands can fail: "cleanup", "prepare", "merge"

Tasks == 1..NumTasks
PlanOrder == [t \in Tasks |-> t]

\* The elements of a sequence.
Members(s) == {s[i] : i \in DOMAIN s}

\* Those of them that are in S, in their order.
Among(s, S) ==
  LET after[i \in 0..Len(s)] ==
        IF i = 0 THEN <<>>
        ELSE IF s[i] \in S THEN Append(after[i - 1], s[i]) ELSE after[i - 1]
  IN  after[Len(s)]

RunOptions ==
  [strategy : {"auto", "review"}, integration : {"off", "warn", "strict"},
   parallel : Nat \ {0}, only : SUBSET Tasks, maxAttempts : Nat,
   retryFailed : BOOLEAN, retryChanges : BOOLEAN, retryConflicts : BOOLEAN,
   review : BOOLEAN, remote : BOOLEAN, replan : BOOLEAN, keep : BOOLEAN,
   cancellable : BOOLEAN]

ASSUME EngineAssumption ==
  /\ NumTasks \in Nat \ {0}
  /\ Deps \in [Tasks -> SUBSET Tasks]
  /\ Claims \in [Tasks -> SUBSET Nat]
  /\ Group \in [Tasks -> Nat]
  /\ Red \subseteq Tasks /\ Impl \subseteq Tasks
  /\ Options \subseteq RunOptions
  /\ MaxRuns \in Nat /\ MaxCrashes \in Nat /\ AttemptCap \in Nat \ {0}
  /\ Faults \subseteq {"cleanup", "prepare", "merge"}

VARIABLES
  status,    \* the plan: status of each task
  attempts,  \* the plan: attempts of each task
  ws,        \* worktree, branch and failed-cleanup marker of each task
  base,      \* the tasks whose work is in the base branch
  phase,     \* where run_swarm is
  opt,       \* the options of this run
  cancel,    \* the cancellation event
  queue,     \* the batches of this schedule that are still to start
  batch,     \* batch_tasks: the tasks of the running batch, prepared
  todo,      \* the tasks the current loop still has to visit
  items,     \* ready_items
  worker,    \* what the worker thread of a task does, or has returned
  refused,   \* blocked_task_ids_this_run
  runs, crashes

durable == <<status, attempts, ws, base>>
local == <<phase, opt, cancel, queue, batch, todo, items, worker, refused>>
bounds == <<runs, crashes>>
vars == <<durable, local, bounds>>

Successful == {"done", "already_satisfied", "completed_unverified"}
Statuses == Successful \cup
  {"planned", "in_progress", "ready_for_merge", "failed", "verify_failed",
   "candidate_rejected", "changes_requested", "merge_conflict",
   "blocked_integration", "interrupted"}

Results == {"success", "unverified", "nonexecuting", "noop", "failed",
            "verify_failed", "interrupted"}
Workspace == [tree : {"none", "clean", "dirty"},
              branch : {"none", "fresh", "work"}, marker : BOOLEAN]
NoWorkspace == [tree |-> "none", branch |-> "none", marker |-> FALSE]

-----------------------------------------------------------------------------
(* swarm_scheduler.                                                        *)

Precise(t) == Claims[t] # {}

\* _deps_done: an expected-red precursor need only be ready when the
\* dependent is the implementation it waits for.
DepsDone(t) ==
  \A d \in Deps[t] :
    \/ status[d] \in Successful
    \/ status[d] = "ready_for_merge" /\ d \in Red /\ t \in Impl

\* _runnable_status.
RunnableStatus(s) ==
  \/ s \in {"planned", "interrupted"}
  \/ s \in {"failed", "verify_failed", "candidate_rejected"} /\ opt.retryFailed
  \/ s = "changes_requested" /\ opt.retryChanges

\* Mutant of AttemptLimit: retrying has no limit of its own.
AttemptLimitAsGiven == opt.maxAttempts

\* effective_max_attempts; 0 is no limit.
AttemptLimit ==
  IF opt.maxAttempts = 0 /\ (opt.retryFailed \/ opt.retryChanges)
  THEN 3 ELSE opt.maxAttempts

\* Mutant of Runnable: dependencies are not looked at.
RunnableEarly(t) ==
  /\ t \in opt.only
  /\ RunnableStatus(status[t])
  /\ AttemptLimit # 0 => attempts[t] < AttemptLimit

\* select_task_candidates, for one task.
Runnable(t) ==
  /\ t \in opt.only
  /\ RunnableStatus(status[t])
  /\ AttemptLimit # 0 => attempts[t] < AttemptLimit
  /\ DepsDone(t)

\* Mutant of PairSafe: the parallel group alone decides.
PairSafeByGroup(t, u) == Group[t] = 0 \/ Group[t] # Group[u]

\* _pair_safe.
PairSafe(t, u) ==
  /\ Precise(t) /\ Precise(u)
  /\ Claims[t] \cap Claims[u] = {}
  /\ Group[t] = 0 \/ Group[t] # Group[u]

\* build_batches: t joins the first batch that has room and no conflict.
Place(batches, t) ==
  LET fits == {i \in DOMAIN batches :
                 /\ Precise(t)
                 /\ Len(batches[i]) < opt.parallel
                 /\ \A k \in DOMAIN batches[i] : PairSafe(t, batches[i][k])}
      first == CHOOSE i \in fits : \A j \in fits : i <= j
  IN  IF fits = {} THEN Append(batches, <<t>>)
      ELSE [batches EXCEPT ![first] = Append(@, t)]

\* build_batches: tasks with a precise scope come first, then by id ...
InOrder(tasks) ==
  Among(PlanOrder, {t \in tasks : Precise(t)})
    \o Among(PlanOrder, {t \in tasks : ~Precise(t)})

\* ... and are placed one after the other: the batches after i of them.
Placed(order) ==
  LET after[i \in 0..Len(order)] ==
        IF i = 0 THEN <<>> ELSE Place(after[i - 1], order[i])
  IN  after

Batches(tasks) == LET order == InOrder(tasks) IN Placed(order)[Len(order)]

-----------------------------------------------------------------------------
(* The git-worktree backend.                                               *)

\* _record_failed_cleanup_state: what commands that fail leave behind, with
\* its marker.
Leftovers(w) ==
  {x \in {[w EXCEPT !.marker = TRUE], [w EXCEPT !.tree = "none", !.marker = TRUE]} :
     "cleanup" \in Faults /\ w.branch # "none"}

\* Mutant of FailedCleanup: the branch stays.
FailedCleanupTreeOnly(t) == {IF opt.keep THEN ws[t] ELSE [ws[t] EXCEPT !.tree = "none"]}

\* cleanup_failed_task_workspace: worktree and branch go.
FailedCleanup(t) == IF opt.keep THEN {ws[t]} ELSE {NoWorkspace} \cup Leftovers(ws[t])

\* cleanup_task_workspace after a success: git branch -d keeps a branch whose
\* commits are not in the base, and errors are only reported.
DoneCleanup(t) ==
  IF opt.keep THEN {ws[t]}
  ELSE {[ws[t] EXCEPT !.tree = "none",
                      !.branch = IF @ = "work" /\ t \notin base THEN @ ELSE "none"]}
       \cup IF "cleanup" \in Faults THEN {ws[t], [ws[t] EXCEPT !.tree = "none"]} ELSE {}

\* ensure_task_worktree: a dirty worktree is discarded, an existing branch is
\* used with whatever it has.
Prepared(w) ==
  [tree |-> "clean",
   branch |-> IF w.branch = "none" THEN "fresh" ELSE w.branch, marker |-> FALSE]

\* Mutant of Retried: the marker is ignored.
RetriedNever(w) == w

\* _retry_incomplete_failed_cleanup, before ensure_task_worktree.
Retried(w) == IF w.marker THEN NoWorkspace ELSE w

Mark(t, s) == status' = [status EXCEPT ![t] = s]
NotMerged(t, s) ==
  /\ Mark(t, s)
  /\ \E w \in FailedCleanup(t) : ws' = [ws EXCEPT ![t] = w]

-----------------------------------------------------------------------------
(* run_swarm: start, and the merges left over by an earlier run.           *)

\* _task_has_unfinished_direct_dependent.
Awaited(t, st) ==
  \E u \in Tasks : t \in Deps[u] /\ st[u] \in {"planned", "in_progress"}

\* _should_defer_red_regression_ready_task.
Deferred(t, st) == t \in Red /\ Awaited(t, st)

\* Mutant of Recovered: every task that has been started counts as stale.
RecoveredStarted ==
  [t \in Tasks |-> IF attempts[t] > 0 THEN "failed" ELSE status[t]]

\* _recover_stale_in_progress.
Recovered ==
  [t \in Tasks |-> IF status[t] = "in_progress" THEN "failed" ELSE status[t]]

StartRun ==
  /\ phase = "idle"
  /\ runs < MaxRuns
  /\ runs' = runs + 1
  /\ status' = Recovered
  /\ \E o \in Options :
       LET pending == {t \in Tasks :
                         \/ status[t] = "ready_for_merge" /\ ~Deferred(t, status')
                         \/ status[t] = "merge_conflict" /\ o.retryConflicts}
       IN  /\ opt' = o
           /\ todo' = IF o.strategy = "auto" THEN Among(PlanOrder, pending) ELSE <<>>
  /\ phase' = "pending"
  /\ cancel' = FALSE
  /\ refused' = {}
  /\ UNCHANGED <<attempts, ws, base, queue, batch, items, worker, crashes>>

\* What strict remote sync and the review gate can make of a result.
RemoteBlocked == {s \in {"failed"} : opt.remote}
ReviewVerdicts == {s \in {"failed", "changes_requested"} : opt.review}

PendingTask ==
  /\ phase = "pending"
  /\ todo # <<>>
  /\ todo' = Tail(todo)
  /\ LET t == Head(todo)
     IN  \/ /\ \E s \in RemoteBlocked \cup ReviewVerdicts : NotMerged(t, s)
            /\ items' = items
         \/ /\ ws[t].branch = "none"
            /\ NotMerged(t, "failed")
            /\ items' = items
         \/ /\ ws[t].branch # "none"
            /\ items' = Append(items, t)
            /\ UNCHANGED <<status, ws>>
  /\ UNCHANGED <<attempts, base, phase, opt, cancel, queue, batch, worker, refused, bounds>>

PendingDone ==
  /\ phase = "pending"
  /\ todo = <<>>
  /\ phase' = IF items = <<>> THEN "schedule" ELSE "gate"
  /\ UNCHANGED <<durable, opt, cancel, queue, batch, todo, items, worker, refused, bounds>>

-----------------------------------------------------------------------------
(* The main loop: schedule, prepare, dispatch.                             *)

\* compute_schedule, less what was refused in this run.
ComputeSchedule ==
  /\ phase = "schedule"
  /\ LET all == Batches({t \in Tasks : Runnable(t)})
         kept == [i \in DOMAIN all |-> Among(all[i], Tasks \ refused)]
         schedule == Among(kept, Members(kept) \ {<<>>})
     IN  IF schedule = <<>>
         THEN phase' = "final" /\ UNCHANGED <<queue, todo>>
         ELSE phase' = "prepare" /\ queue' = Tail(schedule) /\ todo' = Head(schedule)
  /\ UNCHANGED <<durable, opt, cancel, batch, items, worker, refused, bounds>>

\* A marker whose clean-up fails again blocks the task; git can fail as well.
PreparingFails(t) ==
  \/ ws[t].marker /\ "cleanup" \in Faults
  \/ "prepare" \in Faults

\* backend.prepare_task_workspace, for the next task of the batch.
PrepareTask ==
  /\ phase = "prepare"
  /\ todo # <<>>
  /\ todo' = Tail(todo)
  /\ LET t == Head(todo)
     IN  \/ /\ ws' = [ws EXCEPT ![t] = Prepared(Retried(@))]
            /\ batch' = Append(batch, t)
            /\ UNCHANGED <<status, refused>>
         \/ /\ PreparingFails(t)
            /\ Mark(t, "failed")
            /\ refused' = refused \cup {t}
            /\ UNCHANGED <<ws, batch>>
  /\ UNCHANGED <<attempts, base, phase, opt, cancel, queue, items, worker, bounds>>

\* The next batch, or a new schedule when there is none.
NextBatch ==
  /\ batch' = <<>>
  /\ items' = <<>>
  /\ IF queue = <<>>
     THEN phase' = "schedule" /\ todo' = <<>> /\ queue' = <<>>
     ELSE phase' = "prepare" /\ todo' = Head(queue) /\ queue' = Tail(queue)

\* _bump_attempt.
Bumped(n) == IF n < AttemptCap THEN n + 1 ELSE n

\* Attempts are counted, the tasks are in progress, and their workers start.
Dispatch ==
  /\ phase = "prepare"
  /\ todo = <<>>
  /\ batch # <<>>
  /\ phase' = "work"
  /\ attempts' = [t \in Tasks |-> IF t \in Members(batch) THEN Bumped(attempts[t]) ELSE attempts[t]]
  /\ status' = [t \in Tasks |-> IF t \in Members(batch) THEN "in_progress" ELSE status[t]]
  /\ worker' = [t \in Tasks |-> IF t \in Members(batch) THEN "queued" ELSE "none"]
  /\ UNCHANGED <<ws, base, opt, cancel, queue, batch, todo, items, refused, bounds>>

SkipBatch ==
  /\ phase = "prepare"
  /\ todo = <<>>
  /\ batch = <<>>
  /\ NextBatch
  /\ UNCHANGED <<durable, opt, cancel, worker, refused, bounds>>

-----------------------------------------------------------------------------
(* run_task_worker, on a thread of the pool.                               *)

Works(t, now, next) ==
  /\ worker[t] \in now
  /\ worker' = [worker EXCEPT ![t] = next]
  /\ UNCHANGED <<status, attempts, base, phase, opt, cancel, queue, batch, todo, items,
                 refused, bounds>>

\* The event is looked at before the agent's turn ...
Begin(t) == ~cancel /\ Works(t, {"queued"}, "agent") /\ UNCHANGED ws

\* ... and at its checkpoints; the worktree stays as it is.
Interrupted(t) ==
  cancel /\ Works(t, {"queued", "agent", "moved"}, "interrupted") /\ UNCHANGED ws

\* The agent edits its worktree, and may commit by itself, which moves HEAD.
Edit(t) ==
  /\ ws[t].tree = "clean"
  /\ \E a \in {"agent", "moved"} : Works(t, {a}, a)
  /\ ws' = [ws EXCEPT ![t].tree = "dirty"]

AgentCommit(t) ==
  /\ ws[t].tree = "dirty"
  /\ Works(t, {"agent", "moved"}, "moved")
  /\ ws' = [ws EXCEPT ![t].tree = "clean", ![t].branch = "work"]

\* commit_all of what is staged, or the agent's commit, once the agent has
\* ended normally with changes.
Commit(t) ==
  /\ ws[t].tree = "dirty" \/ worker[t] = "moved"
  /\ Works(t, {"agent", "moved"}, "committed")
  /\ ws' = [ws EXCEPT ![t].tree = "clean", ![t].branch = "work"]

\* _run_authoritative_verification of the commit.
Verified(t, r) ==
  /\ r \in {"success", "unverified", "nonexecuting", "verify_failed"}
  /\ Works(t, {"committed"}, r)

\* Without changes, and with its verification passed or not needed, the task
\* was satisfied already.
NoChanges(t) == ws[t].tree = "clean" /\ Works(t, {"agent"}, "noop")

\* The instructions do not fit, the agent ends abnormally or leaves its scope,
\* the verification refuses an unchanged worktree, or git fails.
Fails(t) == Works(t, {"queued", "agent", "moved", "committed"}, "failed")

\* The worker returns its TaskWorkerResult.
Return(t, r) ==
  /\ \/ Verified(t, r)
     \/ r = "noop" /\ NoChanges(t)
     \/ r = "failed" /\ Fails(t)
  /\ UNCHANGED ws

\* The steps that bring a worker to its end.
Advances(t) ==
  \/ Begin(t) \/ Interrupted(t) \/ Commit(t)
  \/ \E r \in Results : Return(t, r)

WorkerStep == \E t \in Members(batch) : Advances(t) \/ Edit(t) \/ AgentCommit(t)

-----------------------------------------------------------------------------
(* Settling the results of a batch.                                        *)

WorkDone ==
  /\ phase = "work"
  /\ \A t \in Members(batch) : worker[t] \in Results
  /\ phase' = "settle"
  /\ UNCHANGED <<durable, opt, cancel, queue, batch, todo, items, worker, refused, bounds>>

\* The statuses a result can be refused with.  (A result without changes is
\* refused when its verification executed no test.)
Rejects(r) ==
  CASE r \in {"nonexecuting", "verify_failed"} -> {"verify_failed"}
    [] r = "failed" -> {"failed"}
    [] r = "noop" -> {"verify_failed"}
    [] r \in {"success", "unverified"} -> ReviewVerdicts
    [] OTHER -> {}

\* Mutant of Accepts: a status outside the vocabulary.
AcceptsMisspelt(r) ==
  CASE r = "success" -> {"ready_for_merge"}
    [] r = "unverified" -> {"completed_unverified"}
    [] r = "noop" -> {"satisfied"}
    [] r = "interrupted" -> {"interrupted"}
    [] OTHER -> {}

\* Mutant of Accepts: a result without changes goes to the merge as well.
AcceptsNoopForMerge(r) ==
  CASE r \in {"success", "noop"} -> {"ready_for_merge"}
    [] r = "unverified" -> {"completed_unverified"}
    [] r = "interrupted" -> {"interrupted"}
    [] OTHER -> {}

\* The status it is kept with, otherwise.
Accepts(r) ==
  CASE r = "success" -> {"ready_for_merge"}
    [] r = "unverified" -> {"completed_unverified"}
    [] r = "noop" -> {"already_satisfied"}
    [] r = "interrupted" -> {"interrupted"}
    [] OTHER -> {}

Settle ==
  /\ phase = "settle"
  /\ \E t \in Members(batch) :
       /\ worker[t] # "none"
       /\ worker' = [worker EXCEPT ![t] = "none"]
       /\ \/ \E s \in Rejects(worker[t]) : NotMerged(t, s)
          \/ \E s \in Accepts(worker[t]) :
               /\ Mark(t, s)
               /\ \E w \in IF s = "already_satisfied" THEN DoneCleanup(t) ELSE {ws[t]} :
                    ws' = [ws EXCEPT ![t] = w]
  /\ UNCHANGED <<attempts, base, phase, opt, cancel, queue, batch, todo, items, refused, bounds>>

Ready == {t \in Tasks : status[t] = "ready_for_merge"}

\* Mutant of SettleDone: the first settled result ends the loop.
SettleDoneEarly ==
  /\ phase = "settle"
  /\ \E t \in Members(batch) : worker[t] = "none"
  /\ phase' = "collect"
  /\ todo' = Among(batch, Ready)
  /\ UNCHANGED <<durable, opt, cancel, queue, batch, items, worker, refused, bounds>>

SettleDone ==
  /\ phase = "settle"
  /\ \A t \in Members(batch) : worker[t] = "none"
  /\ phase' = "collect"
  /\ todo' = Among(batch, Ready)
  /\ UNCHANGED <<durable, opt, cancel, queue, batch, items, worker, refused, bounds>>

\* Strict remote sync, then the task is one of the ready items.
CollectTask ==
  /\ phase = "collect"
  /\ todo # <<>>
  /\ todo' = Tail(todo)
  /\ \/ /\ \E s \in RemoteBlocked : NotMerged(Head(todo), s)
        /\ items' = items
     \/ /\ items' = Append(items, Head(todo))
        /\ UNCHANGED <<status, ws>>
  /\ UNCHANGED <<attempts, base, phase, opt, cancel, queue, batch, worker, refused, bounds>>

\* Expected-red tasks wait for their dependents, and come along with them.
RedDependencies(ready) ==
  Among(PlanOrder, {t \in (Red \cap Ready) \ Members(ready) :
                      \E u \in Members(ready) : t \in Deps[u]})

\* Mutant of CollectDone: the review strategy is not looked at.
CollectDoneAlways ==
  /\ phase = "collect"
  /\ todo = <<>>
  /\ LET ready == Among(items, {t \in Tasks : ~Deferred(t, status)})
     IN  IF ready = <<>>
         THEN NextBatch
         ELSE /\ phase' = "gate"
              /\ items' = RedDependencies(ready) \o ready
              /\ UNCHANGED <<queue, batch, todo>>
  /\ UNCHANGED <<durable, opt, cancel, worker, refused, bounds>>

CollectDone ==
  /\ phase = "collect"
  /\ todo = <<>>
  /\ LET ready == Among(items, {t \in Tasks : ~Deferred(t, status)})
     IN  IF opt.strategy = "review" \/ ready = <<>>
         THEN NextBatch
         ELSE /\ phase' = "gate"
              /\ items' = RedDependencies(ready) \o ready
              /\ UNCHANGED <<queue, batch, todo>>
  /\ UNCHANGED <<durable, opt, cancel, worker, refused, bounds>>

-----------------------------------------------------------------------------
(* The gate in front of the base branch, and the merges.                   *)

\* A failing candidate is tolerated in warn mode while dependents are to come.
Tolerated ==
  /\ opt.integration = "warn"
  /\ ~opt.replan
  /\ \E t \in Members(items) : Awaited(t, status)

\* _verify_ready_batch_candidate: what the gate says of the items, as a whole.
\* A candidate that cannot be assembled is rejected in every mode.
Gate ==
  /\ phase = "gate"
  /\ todo' = items
  /\ \E verdict \in {"passed", "failed", "unassembled"} :
       phase' = IF \/ opt.integration = "off"
                   \/ verdict = "passed"
                   \/ verdict = "failed" /\ Tolerated
                THEN "merge" ELSE "reject"
  /\ UNCHANGED <<durable, opt, cancel, queue, batch, items, worker, refused, bounds>>

\* _reject_ready_batch_items: one workspace after the other is cleaned up; the
\* plan is saved after the last.
RejectItem ==
  /\ phase = "reject"
  /\ todo # <<>>
  /\ todo' = Tail(todo)
  /\ \E w \in FailedCleanup(Head(todo)) : ws' = [ws EXCEPT ![Head(todo)] = w]
  /\ UNCHANGED <<status, attempts, base, phase, opt, cancel, queue, batch, items, worker,
                 refused, bounds>>

\* _mark_remaining_tasks_blocked_by_integration leaves these alone.
NotBlocked == {"done", "completed_unverified", "failed", "verify_failed",
               "candidate_rejected", "changes_requested", "merge_conflict",
               "blocked_integration", "interrupted"}

Blocked(t, st) == opt.integration = "strict" /\ t \in opt.only /\ st[t] \notin NotBlocked

\* The rejection is saved; in strict mode it ends the run.
RejectDone ==
  /\ phase = "reject"
  /\ todo = <<>>
  /\ LET st == [t \in Tasks |->
                  IF t \in Members(items) THEN "candidate_rejected" ELSE status[t]]
     IN  status' = [t \in Tasks |-> IF Blocked(t, st) THEN "blocked_integration" ELSE st[t]]
  /\ IF opt.integration = "strict"
     THEN phase' = "final" /\ UNCHANGED <<queue, batch, todo, items>>
     ELSE NextBatch
  /\ UNCHANGED <<attempts, ws, base, opt, cancel, worker, refused, bounds>>

\* Mutant of MergeApply: the plan is marked before the merge.
MergeApplyMarksFirst ==
  /\ phase = "merge"
  /\ todo # <<>>
  /\ ws[Head(todo)].branch # "none"
  /\ Mark(Head(todo), "done")
  /\ phase' = "mark"
  /\ UNCHANGED <<base, attempts, ws, opt, cancel, queue, batch, todo, items, worker,
                 refused, bounds>>

\* backend.apply_task_success: the merge commit is on the base branch.
MergeApply ==
  /\ phase = "merge"
  /\ todo # <<>>
  /\ ws[Head(todo)].branch # "none"
  /\ base' = base \cup {Head(todo)}
  /\ phase' = "mark"
  /\ UNCHANGED <<status, attempts, ws, opt, cancel, queue, batch, todo, items, worker,
                 refused, bounds>>

\* The task is done, and its workspace is no longer needed.
MergeMark ==
  /\ phase = "mark"
  /\ phase' = "merge"
  /\ todo' = Tail(todo)
  /\ LET t == Head(todo)
     IN  Mark(t, "done") /\ \E w \in DoneCleanup(t) : ws' = [ws EXCEPT ![t] = w]
  /\ UNCHANGED <<attempts, base, opt, cancel, queue, batch, items, worker, refused, bounds>>

\* A conflict is resolved automatically, or left with its branch for a later
\* --retry-merge-conflicts; any other error fails the task.
MergeFails ==
  /\ phase = "merge"
  /\ todo # <<>>
  /\ "merge" \in Faults \/ ws[Head(todo)].branch = "none"
  /\ todo' = Tail(todo)
  /\ LET t == Head(todo)
     IN  \/ /\ ws[t].branch # "none"
            /\ Mark(t, "done") /\ base' = base \cup {t} /\ UNCHANGED ws
         \/ /\ ws[t].branch # "none"
            /\ Mark(t, "merge_conflict") /\ UNCHANGED <<base, ws>>
         \/ NotMerged(t, "failed") /\ UNCHANGED base
  /\ UNCHANGED <<attempts, phase, opt, cancel, queue, batch, items, worker, refused, bounds>>

MergesDone ==
  /\ phase = "merge"
  /\ todo = <<>>
  /\ NextBatch
  /\ UNCHANGED <<durable, opt, cancel, worker, refused, bounds>>

\* The final gate and the summary only report.
Finish ==
  /\ phase = "final"
  /\ phase' = "idle"
  /\ queue' = <<>> /\ batch' = <<>> /\ todo' = <<>> /\ items' = <<>>
  /\ UNCHANGED <<durable, opt, cancel, worker, refused, bounds>>

-----------------------------------------------------------------------------
(* Around the run.                                                         *)

\* forge.swarm.cancel sets the event; only the IDE passes one.
Cancel ==
  /\ phase # "idle"
  /\ opt.cancellable
  /\ ~cancel
  /\ cancel' = TRUE
  /\ UNCHANGED <<durable, phase, opt, queue, batch, todo, items, worker, refused, bounds>>

\* The process dies, or an exception of a worker leaves run_swarm.
Crash ==
  /\ phase # "idle"
  /\ crashes < MaxCrashes
  /\ crashes' = crashes + 1
  /\ phase' = "idle"
  /\ queue' = <<>> /\ batch' = <<>> /\ todo' = <<>> /\ items' = <<>>
  /\ worker' = [t \in Tasks |-> "none"]
  /\ UNCHANGED <<durable, opt, cancel, refused, runs>>

Init ==
  /\ status = [t \in Tasks |-> "planned"]
  /\ attempts = [t \in Tasks |-> 0]
  /\ ws = [t \in Tasks |-> NoWorkspace]
  /\ base = {}
  /\ phase = "idle"
  /\ opt \in Options
  /\ cancel = FALSE
  /\ queue = <<>> /\ batch = <<>> /\ todo = <<>> /\ items = <<>>
  /\ worker = [t \in Tasks |-> "none"]
  /\ refused = {}
  /\ runs = 0 /\ crashes = 0

Engine ==
  \/ PendingTask \/ PendingDone \/ ComputeSchedule \/ PrepareTask \/ Dispatch
  \/ SkipBatch \/ WorkDone \/ Settle \/ SettleDone \/ CollectTask \/ CollectDone
  \/ Gate \/ RejectItem \/ RejectDone \/ MergeApply \/ MergeMark \/ MergeFails
  \/ MergesDone \/ Finish

Next == StartRun \/ Engine \/ WorkerStep \/ Cancel \/ Crash

Spec == Init /\ [][Next]_vars

\* The orchestrator thread and the worker threads run, and an agent does not
\* edit for ever: its steps are budgeted.
FairSpec ==
  /\ Spec
  /\ WF_vars(Engine)
  /\ \A t \in Tasks : WF_vars(t \in Members(batch) /\ Advances(t))

-----------------------------------------------------------------------------
(* Properties.                                                             *)

Phases == {"idle", "pending", "schedule", "prepare", "work", "settle", "collect",
           "gate", "reject", "merge", "mark", "final"}

\* The plan, the workspaces and the run have their types.
TypeOK ==
  /\ status \in [Tasks -> Statuses]
  /\ attempts \in [Tasks -> 0..AttemptCap]
  /\ ws \in [Tasks -> Workspace]
  /\ base \subseteq Tasks
  /\ phase \in Phases
  /\ opt \in Options
  /\ cancel \in BOOLEAN
  /\ queue \in Seq(Seq(Tasks))
  /\ batch \in Seq(Tasks) /\ todo \in Seq(Tasks) /\ items \in Seq(Tasks)
  /\ worker \in [Tasks -> Results \cup {"none", "queued", "agent", "moved", "committed"}]
  /\ refused \subseteq Tasks
  /\ runs \in 0..MaxRuns /\ crashes \in 0..MaxCrashes

Running == {t \in Tasks : worker[t] \in {"queued", "agent", "moved", "committed"}}
Starts(t) == worker[t] = "none" /\ worker'[t] = "queued"

\* Workers that run at the same time hold disjoint, known write scopes, and
\* are no more than asked for.
DisjointScopes ==
  /\ Cardinality(Running) <= opt.parallel
  /\ \A t, u \in Running :
       t # u => Claims[t] # {} /\ Claims[t] \cap Claims[u] = {}

\* A task starts only when its dependencies are finished, although they may
\* change between the schedule and the start of a later batch of it.
StartsAfterDependencies == [][\A t \in Tasks : Starts(t) => DepsDone(t)]_vars

\* What the plan calls done is in the base branch, wherever a run dies.
DoneIsMerged == \A t \in Tasks : status[t] = "done" => t \in base

\* Under the review strategy nothing merges.
ReviewNeverMerges == [][base' # base => opt.strategy = "auto"]_vars

\* A worker starts on a clean worktree and on a branch without the commits of
\* an attempt that was not accepted, although cleaning up may have failed.
StartsFresh ==
  [][\A t \in Tasks : Starts(t) => ws[t].tree = "clean" /\ ws[t].branch = "fresh"]_vars

\* A task that was found to be satisfied already has no commits of its own
\* outside the base branch.
SatisfiedLeavesNoWork ==
  \A t \in Tasks :
    status[t] = "already_satisfied" /\ ws[t].branch = "work" => t \in base

\* Between runs, a task that waits for its merge has the branch to merge.  (A
\* run that dies while it rejects a batch can leave one without.)
ReadyHasWork ==
  phase = "idle" /\ crashes = 0 =>
    \A t \in Tasks : status[t] = "ready_for_merge" => ws[t].branch = "work"

\* A run that ends leaves no task in progress.
EndsSettled ==
  phase = "idle" /\ crashes = 0 => \A t \in Tasks : status[t] # "in_progress"

\* A task that has succeeded stays so.
SuccessIsFinal ==
  [][\A t \in Tasks : status[t] \in Successful => status'[t] = status[t]]_vars

\* A run ends, whatever its workers, reviews and gates answer.
RunEnds == phase # "idle" ~> phase = "idle"
=============================================================================
