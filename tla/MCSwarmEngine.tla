---------------------------- MODULE MCSwarmEngine ----------------------------
(* Small instances of SwarmEngine for TLC. *)
EXTENDS SwarmEngine

\* Task 2 depends on task 1; task 3 is independent and overlaps with task 1.
ChainDeps == <<{}, {1}, {}>>
ChainClaims == <<{1}, {2}, {1, 3}>>

\* Tasks 1 and 2 can run side by side; 3 overlaps with 2 and is in the group
\* of 1; 4 needs 1 and has no precise scope.
WideDeps == <<{}, {}, {}, {1}>>
WideClaims == <<{1}, {2}, {2, 3}, {}>>
WideGroups == <<1, 0, 1, 0>>

PairDeps == <<{}, {}>>
PairClaims == <<{1}, {2}>>
PairGroups == <<0, 0>>
NoGroups == <<0, 0, 0>>

\* `forge swarm' with its defaults, on two workers.
Plain ==
  [strategy |-> "auto", integration |-> "warn", parallel |-> 2, only |-> Tasks,
   maxAttempts |-> 0, retryFailed |-> FALSE, retryChanges |-> FALSE,
   retryConflicts |-> FALSE, review |-> FALSE, remote |-> FALSE, replan |-> FALSE,
   keep |-> FALSE, cancellable |-> FALSE]
Retrying == [Plain EXCEPT !.retryFailed = TRUE, !.maxAttempts = 2]
Everything ==
  [Retrying EXCEPT !.retryChanges = TRUE, !.retryConflicts = TRUE, !.review = TRUE,
                   !.remote = TRUE]
Strict == [Plain EXCEPT !.integration = "strict"]
Ungated == [Plain EXCEPT !.integration = "off"]
\* The call of the IDE bridge.
Ide == [Plain EXCEPT !.strategy = "review", !.keep = TRUE, !.cancellable = TRUE]

RetryingRuns == {Plain, Retrying}
EverythingRuns == {Everything, Ungated}
MixedRuns == {Plain, Ide, [Plain EXCEPT !.only = {1, 4}]}
LiveRuns == {Everything, Plain, Strict, Ungated, [Plain EXCEPT !.retryFailed = TRUE]}
=============================================================================
