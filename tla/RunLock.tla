------------------------------- MODULE RunLock -------------------------------
(***************************************************************************)
(* The lock file that keeps two Forge executions off one workspace         *)
(* (run_lock.py): acquisition with O_EXCL, two liveness signals (pid and   *)
(* heartbeat), recovery of a stale lock under a recovery claim file, the   *)
(* heartbeat thread, release, and `forge unlock'.                          *)
(*                                                                         *)
(* A process that acquires once and exits is one element of Procs; a       *)
(* restarted command is another element, with a pid and token of its own.  *)
(* One file operation is one step: what a step reads is used by a later    *)
(* one.  Files are named by their creator, so that a write to a file that  *)
(* was unlinked meanwhile is not seen at the path.                         *)
(*                                                                         *)
(* Time is what a reader of the file concludes from it: `lapsed' says that *)
(* last_heartbeat_at is older than heartbeat_ttl_s.                        *)
(***************************************************************************)
EXTENDS Integers, FiniteSets

CONSTANTS
  Procs,        \* executions: one acquisition each
  Remote,       \* the ones on another host
  Nobody,       \* "no such file"
  HeartbeatOn,  \* ALYSIS_RUN_LOCK_HEARTBEAT
  Interval,     \* heartbeat_interval_s
  MaxGrace,     \* _MAX_RECOVERY_GRACE_S
  MaxBeats,     \* bound: beats one process writes
  Faults        \* what the environment may do, see FaultKinds

\* late_beat: a release overtakes a heartbeat that is being written.
\* recoverer_dies: a process dies while it holds the recovery claim.
\* sleep: an owner sleeps beyond its TTL and lives on.
\* stall: a recoverer sleeps beyond its TTL and lives on.
\* unlock: an operator runs `forge unlock' (without --force).
\* pid_reused: the pid of a dead process is given to another one.
\* write_fails: the metadata of a file just created cannot be written.
FaultKinds == {"late_beat", "recoverer_dies", "sleep", "stall", "unlock",
               "pid_reused", "write_fails"}

ASSUME LockAssumption ==
  /\ Remote \subseteq Procs
  /\ Nobody \notin Procs
  /\ HeartbeatOn \in BOOLEAN
  /\ Interval \in Nat /\ MaxGrace \in Nat /\ MaxBeats \in Nat
  /\ Faults \subseteq FaultKinds

VARIABLES
  lock,      \* active_execution.lock.json
  claim,     \* active_execution.recovering.json
  pc,        \* where each process is in acquire_run_mutation_guard
  seen,      \* the stale lock text a process has read: owner and beat
  grace,     \* it was stale by its heartbeat
  outcome,   \* what acquire returns once the recovery claim is dropped
  beats,     \* heartbeats written so far
  beating,   \* the heartbeat thread has read its lock, not yet replaced it
  reused,    \* dead processes whose pid runs again
  operator   \* forge unlock: the file it removes next

vars == <<lock, claim, pc, seen, grace, outcome, beats, beating, reused, operator>>

File == [owner : Procs \cup {Nobody}, written : BOOLEAN, beat : Nat, lapsed : BOOLEAN]
NoFile == [owner |-> Nobody, written |-> FALSE, beat |-> 0, lapsed |-> FALSE]
\* A file just created by p with O_EXCL, and not yet written.
Blank(p) == [NoFile EXCEPT !.owner = p]
\* The same with its metadata.
Text(p, n) == [owner |-> p, written |-> TRUE, beat |-> n, lapsed |-> FALSE]

Ended == {"done", "failed", "gone"}
Recovering == {"claimwrite", "recheck", "unlink", "recreate", "rewrite",
               "drop", "dropunlink"}
Steps == {"new", "clear", "unclaim", "create", "write", "read", "claim",
          "clear2", "unclaim2", "held", "release"} \cup Recovering \cup Ended

\* _load_metadata: an absent or half-written file is unreadable.
Readable(f) == f.owner # Nobody /\ f.written

\* The heartbeat alone can make a lock stale.
Expired(f) == f.lapsed

\* assess_lock_staleness(...).recoverable as computed by p: another host's
\* lock is ambiguous, a dead pid is stale, and so is an expired heartbeat.
PidDead(q) == pc[q] = "gone" /\ q \notin reused
SameHost(p, q) == (p \in Remote) = (q \in Remote)

\* Mutant of Stale: only the heartbeat counts, not the pid.
StaleByHeartbeat(p, f) == SameHost(p, f.owner) /\ Expired(f)

Stale(p, f) ==
  /\ SameHost(p, f.owner)
  /\ PidDead(f.owner) \/ Expired(f)

Goto(p, step) == pc' = [pc EXCEPT ![p] = step]

\* An error inside the try block of the recovery: the finally clause is next.
Fails(p) == Goto(p, "drop") /\ outcome' = [outcome EXCEPT ![p] = "failed"]

-----------------------------------------------------------------------------
(* acquire_run_mutation_guard.                                             *)

Start(p) ==
  /\ pc[p] = "new"
  /\ Goto(p, "clear")
  /\ UNCHANGED <<lock, claim, seen, grace, outcome, beats, beating, reused, operator>>

\* _clear_stale_recovery_claim: a live claim is a conflict, a stale one is
\* about to be unlinked.
LoadClaim(p) ==
  /\ pc[p] = "clear"
  /\ Goto(p, IF ~Readable(claim) THEN "create"
             ELSE IF Stale(p, claim) THEN "unclaim" ELSE "failed")
  /\ UNCHANGED <<lock, claim, seen, grace, outcome, beats, beating, reused, operator>>

Unclaim(p) ==
  /\ pc[p] = "unclaim"
  /\ claim' = NoFile
  /\ Goto(p, "create")
  /\ UNCHANGED <<lock, seen, grace, outcome, beats, beating, reused, operator>>

\* _write_exclusive, first half: open(O_CREAT | O_EXCL).
CreateLock(p) ==
  /\ pc[p] = "create"
  /\ IF lock.owner = Nobody
     THEN Goto(p, "write") /\ lock' = Blank(p)
     ELSE Goto(p, "read") /\ lock' = lock
  /\ UNCHANGED <<claim, seen, grace, outcome, beats, beating, reused, operator>>

\* Mutant of WriteLock: the metadata is not written.
WriteLockNothing(p) ==
  /\ pc[p] \in {"write", "rewrite"}
  /\ IF pc[p] = "write"
     THEN Goto(p, "held") /\ UNCHANGED outcome
     ELSE Goto(p, "drop") /\ outcome' = [outcome EXCEPT ![p] = "held"]
  /\ UNCHANGED <<lock, claim, seen, grace, beats, beating, reused, operator>>

\* _write_exclusive, second half: the metadata goes to the file p created,
\* whether or not that file is still at the path.
WriteLock(p) ==
  /\ pc[p] \in {"write", "rewrite"}
  /\ lock' = IF lock = Blank(p) THEN Text(p, 0) ELSE lock
  /\ IF pc[p] = "write"
     THEN Goto(p, "held") /\ UNCHANGED outcome
     ELSE Goto(p, "drop") /\ outcome' = [outcome EXCEPT ![p] = "held"]
  /\ UNCHANGED <<claim, seen, grace, beats, beating, reused, operator>>

\* Its error path: the path is unlinked and the error goes to the caller.
WriteLockFails(p) ==
  /\ "write_fails" \in Faults
  /\ pc[p] \in {"write", "rewrite"}
  /\ lock' = NoFile
  /\ IF pc[p] = "write" THEN Goto(p, "failed") /\ UNCHANGED outcome ELSE Fails(p)
  /\ UNCHANGED <<claim, seen, grace, beats, beating, reused, operator>>

\* The lock exists: unreadable is a conflict; stale starts a recovery; active
\* or ambiguous is a conflict, or the process waits and starts over.
ReadLock(p) ==
  /\ pc[p] = "read"
  /\ IF Readable(lock) /\ Stale(p, lock)
     THEN /\ Goto(p, "claim")
          /\ seen' = [seen EXCEPT ![p] = <<lock.owner, lock.beat>>]
          /\ grace' = [grace EXCEPT ![p] = ~PidDead(lock.owner)]
     ELSE /\ \/ Goto(p, "failed")
             \/ Readable(lock) /\ Goto(p, "clear")
          /\ UNCHANGED <<seen, grace>>
  /\ UNCHANGED <<lock, claim, outcome, beats, beating, reused, operator>>

\* The recovery claim is created exclusively; if there is one already, a
\* stale one is removed but the acquisition fails all the same.
CreateClaim(p) ==
  /\ pc[p] = "claim"
  /\ IF claim.owner = Nobody
     THEN Goto(p, "claimwrite") /\ claim' = Blank(p)
     ELSE Goto(p, "clear2") /\ claim' = claim
  /\ UNCHANGED <<lock, seen, grace, outcome, beats, beating, reused, operator>>

LoadClaimAgain(p) ==
  /\ pc[p] = "clear2"
  /\ Goto(p, IF Readable(claim) /\ Stale(p, claim) THEN "unclaim2" ELSE "failed")
  /\ UNCHANGED <<lock, claim, seen, grace, outcome, beats, beating, reused, operator>>

UnclaimAgain(p) ==
  /\ pc[p] = "unclaim2"
  /\ claim' = NoFile
  /\ Goto(p, "failed")
  /\ UNCHANGED <<lock, seen, grace, outcome, beats, beating, reused, operator>>

WriteClaim(p) ==
  /\ pc[p] = "claimwrite"
  /\ claim' = IF claim = Blank(p) THEN Text(p, 0) ELSE claim
  /\ Goto(p, "recheck")
  /\ UNCHANGED <<lock, seen, grace, outcome, beats, beating, reused, operator>>

WriteClaimFails(p) ==
  /\ "write_fails" \in Faults
  /\ pc[p] = "claimwrite"
  /\ claim' = NoFile
  /\ Goto(p, "failed")
  /\ UNCHANGED <<lock, seen, grace, outcome, beats, beating, reused, operator>>

\* _recovery_grace_s: how long the recoverer waits before it looks again.
Grace == IF Interval < MaxGrace THEN Interval ELSE MaxGrace

\* A grace of a whole interval lets a live owner beat; a shorter one may end
\* before its next beat is due.
GraceOver(p) ==
  grace[p] /\ Grace >= Interval =>
    ~(/\ HeartbeatOn /\ Readable(lock) /\ lock.lapsed
      /\ pc[lock.owner] = "held")

\* Mutant of StillStale: the lock is not read again under the claim.
StillStaleUnchecked(p) == TRUE

\* The lock is still readable, has the same text, and is still stale.
StillStale(p) ==
  /\ Readable(lock)
  /\ <<lock.owner, lock.beat>> = seen[p]
  /\ Stale(p, lock)

Recheck(p) ==
  /\ pc[p] = "recheck"
  /\ GraceOver(p)
  /\ IF StillStale(p) THEN Goto(p, "unlink") /\ UNCHANGED outcome ELSE Fails(p)
  /\ UNCHANGED <<lock, claim, seen, grace, beats, beating, reused, operator>>

\* lock_path.unlink(): an absent file raises, whatever is there goes.
UnlinkLock(p) ==
  /\ pc[p] = "unlink"
  /\ IF lock.owner = Nobody THEN Fails(p) ELSE Goto(p, "recreate") /\ UNCHANGED outcome
  /\ lock' = NoFile
  /\ UNCHANGED <<claim, seen, grace, beats, beating, reused, operator>>

\* Mutant of RecreateLock: a conflict returns without the finally clause.
RecreateLockNoFinally(p) ==
  /\ pc[p] = "recreate"
  /\ IF lock.owner = Nobody
     THEN Goto(p, "rewrite") /\ lock' = Blank(p)
     ELSE Goto(p, "failed") /\ lock' = lock
  /\ UNCHANGED <<claim, seen, grace, outcome, beats, beating, reused, operator>>

RecreateLock(p) ==
  /\ pc[p] = "recreate"
  /\ IF lock.owner = Nobody
     THEN Goto(p, "rewrite") /\ lock' = Blank(p) /\ UNCHANGED outcome
     ELSE Fails(p) /\ lock' = lock
  /\ UNCHANGED <<claim, seen, grace, beats, beating, reused, operator>>

\* The finally clause: the claim is removed if it is still this process's.
Drop(p) ==
  /\ pc[p] = "drop"
  /\ Goto(p, IF Readable(claim) /\ claim.owner = p THEN "dropunlink" ELSE outcome[p])
  /\ UNCHANGED <<lock, claim, seen, grace, outcome, beats, beating, reused, operator>>

DropUnlink(p) ==
  /\ pc[p] = "dropunlink"
  /\ claim' = NoFile
  /\ Goto(p, outcome[p])
  /\ UNCHANGED <<lock, seen, grace, outcome, beats, beating, reused, operator>>

-----------------------------------------------------------------------------
(* The guard: heartbeat and release.                                       *)

\* refresh_heartbeat on the heartbeat thread: load, compare the token ...
BeatLoad(p) ==
  /\ HeartbeatOn
  /\ pc[p] = "held"
  /\ ~beating[p]
  /\ beats[p] < MaxBeats
  /\ Readable(lock) /\ lock.owner = p
  /\ beating' = [beating EXCEPT ![p] = TRUE]
  /\ UNCHANGED <<lock, claim, pc, seen, grace, outcome, beats, reused, operator>>

\* Mutant of BeatWrite: the counter runs backwards.
BeatWriteBackwards(p) ==
  /\ beating[p]
  /\ beating' = [beating EXCEPT ![p] = FALSE]
  /\ beats' = [beats EXCEPT ![p] = @ - 1]
  /\ lock' = Text(p, beats[p] + 1)
  /\ UNCHANGED <<claim, pc, seen, grace, outcome, reused, operator>>

\* ... and atomic_write_json, which replaces whatever is at the path.
BeatWrite(p) ==
  /\ beating[p]
  /\ beating' = [beating EXCEPT ![p] = FALSE]
  /\ beats' = [beats EXCEPT ![p] = @ + 1]
  /\ lock' = Text(p, beats[p] + 1)
  /\ UNCHANGED <<claim, pc, seen, grace, outcome, reused, operator>>

\* release: the heartbeat thread is told to stop but not joined; the lock is
\* loaded and its token compared ...
ReleaseLoad(p) ==
  /\ pc[p] = "held"
  /\ beating[p] => "late_beat" \in Faults
  /\ Goto(p, IF Readable(lock) /\ lock.owner = p THEN "release" ELSE "done")
  /\ UNCHANGED <<lock, claim, seen, grace, outcome, beats, beating, reused, operator>>

\* ... and it is unlinked, with a recovery claim this process may have left
\* (there is none: see ClaimOwner in RunLockProofs).
ReleaseUnlink(p) ==
  /\ pc[p] = "release"
  /\ lock' = NoFile
  /\ claim' = IF Readable(claim) /\ claim.owner = p THEN NoFile ELSE claim
  /\ Goto(p, "done")
  /\ UNCHANGED <<seen, grace, outcome, beats, beating, reused, operator>>

-----------------------------------------------------------------------------
(* The environment.                                                        *)

Vanishes(p) ==
  /\ Goto(p, "gone")
  /\ beating' = [beating EXCEPT ![p] = FALSE]
  /\ UNCHANGED <<lock, claim, seen, grace, outcome, beats, reused, operator>>

Exit(p) == pc[p] \in {"done", "failed"} /\ Vanishes(p)

Crash(p) ==
  /\ pc[p] \notin Ended \cup {"new"}
  /\ pc[p] \in Recovering => "recoverer_dies" \in Faults
  /\ Vanishes(p)

ReusePid(p) ==
  /\ "pid_reused" \in Faults
  /\ pc[p] = "gone"
  /\ p \notin reused
  /\ reused' = reused \cup {p}
  /\ UNCHANGED <<lock, claim, pc, seen, grace, outcome, beats, beating, operator>>

\* The owner sleeps, and has beats left for when it wakes.
Sleeps(p) ==
  "sleep" \in Faults /\ pc[p] = "held" /\ ~beating[p] /\ beats[p] < MaxBeats

\* A heartbeat gets older than its TTL.  An owner that beats prevents it:
\* heartbeat_ttl_s is at least twice the interval.
LockLapses ==
  /\ Readable(lock) /\ ~lock.lapsed
  /\ pc[lock.owner] \in Ended \/ ~HeartbeatOn \/ Sleeps(lock.owner)
  /\ lock' = [lock EXCEPT !.lapsed = TRUE]
  /\ UNCHANGED <<claim, pc, seen, grace, outcome, beats, beating, reused, operator>>

\* Nobody refreshes a claim; recovery takes seconds.
ClaimLapses ==
  /\ Readable(claim) /\ ~claim.lapsed
  /\ pc[claim.owner] \in Ended \/ "stall" \in Faults
  /\ claim' = [claim EXCEPT !.lapsed = TRUE]
  /\ UNCHANGED <<lock, pc, seen, grace, outcome, beats, beating, reused, operator>>

\* clear_run_mutation_lock: the verdict, then the unlink of the lock, then
\* that of the recovery claim.
Inspect ==
  /\ "unlock" \in Faults
  /\ operator = "idle"
  /\ Readable(lock)
  /\ lock.owner \notin Remote /\ (PidDead(lock.owner) \/ Expired(lock))
  /\ operator' = "lock"
  /\ UNCHANGED <<lock, claim, pc, seen, grace, outcome, beats, beating, reused>>

Unlock ==
  \/ /\ operator = "lock"
     /\ operator' = "claim"
     /\ lock' = NoFile
     /\ UNCHANGED <<claim, pc, seen, grace, outcome, beats, beating, reused>>
  \/ /\ operator = "claim"
     /\ operator' = "idle"
     /\ claim' = NoFile
     /\ UNCHANGED <<lock, pc, seen, grace, outcome, beats, beating, reused>>

-----------------------------------------------------------------------------
Init ==
  /\ lock = NoFile
  /\ claim = NoFile
  /\ pc = [p \in Procs |-> "new"]
  /\ seen = [p \in Procs |-> <<Nobody, 0>>]
  /\ grace = [p \in Procs |-> FALSE]
  /\ outcome = [p \in Procs |-> "failed"]
  /\ beats = [p \in Procs |-> 0]
  /\ beating = [p \in Procs |-> FALSE]
  /\ reused = {}
  /\ operator = "idle"

\* The code of one process, apart from the decision to start and to release.
Code(p) ==
  \/ LoadClaim(p) \/ Unclaim(p) \/ CreateLock(p) \/ WriteLock(p) \/ ReadLock(p)
  \/ CreateClaim(p) \/ LoadClaimAgain(p) \/ UnclaimAgain(p) \/ WriteClaim(p)
  \/ Recheck(p) \/ UnlinkLock(p) \/ RecreateLock(p) \/ Drop(p) \/ DropUnlink(p)
  \/ BeatWrite(p) \/ ReleaseUnlink(p)

Process(p) ==
  \/ Start(p) \/ Code(p) \/ WriteLockFails(p) \/ WriteClaimFails(p)
  \/ BeatLoad(p) \/ ReleaseLoad(p)

Environment ==
  \/ \E p \in Procs : Exit(p) \/ Crash(p) \/ ReusePid(p)
  \/ LockLapses \/ ClaimLapses \/ Inspect \/ Unlock

Next == Environment \/ \E p \in Procs : Process(p)

Spec == Init /\ [][Next]_vars

\* A process that has started runs.
FairSpec == Spec /\ \A p \in Procs : WF_vars(Code(p))

-----------------------------------------------------------------------------
(* Properties.                                                             *)

\* The files, the processes and the operator have their types.
TypeOK ==
  /\ lock \in File /\ claim \in File
  /\ pc \in [Procs -> Steps]
  /\ seen \in [Procs -> (Procs \cup {Nobody}) \X Nat]
  /\ grace \in [Procs -> BOOLEAN]
  /\ outcome \in [Procs -> {"held", "failed"}]
  /\ beats \in [Procs -> Nat]
  /\ beating \in [Procs -> BOOLEAN]
  /\ reused \subseteq Procs
  /\ operator \in {"idle", "lock", "claim"}

\* Two executions never mutate the workspace at the same time, however
\* crashes, recoveries and heartbeats interleave.
MutualExclusion ==
  \A p, q \in Procs : pc[p] = "held" /\ pc[q] = "held" => p = q

\* An acquisition that failed leaves no file behind that would block the next
\* one, on any error path.
FailedLeavesNothing ==
  \A p \in Procs : pc[p] = "failed" => lock.owner # p /\ claim.owner # p

\* A lock or claim that cannot be read was left by a process that died while
\* it created it, or is about to become readable.
UnreadableIsTransient ==
  \A f \in {lock, claim} :
    f.owner # Nobody /\ ~f.written
      => pc[f.owner] \in {"write", "rewrite", "claimwrite", "gone"}

\* p is the only process left, and the lock is one a dead process has left.
LeftToRecover(p) ==
  /\ pc[p] = "clear"
  /\ \A q \in Procs \ {p} : pc[q] = "gone"
  /\ Readable(lock) /\ lock.owner # p /\ SameHost(p, lock.owner)

\* A lock whose owner is gone is recovered: the next acquisition on the same
\* host gets it, without an operator.
DeadOwnerIsRecovered ==
  \A p \in Procs : LeftToRecover(p) ~> (pc[p] \in {"held", "gone"})

=============================================================================
