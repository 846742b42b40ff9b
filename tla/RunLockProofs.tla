---------------------------- MODULE RunLockProofs ----------------------------
(***************************************************************************)
(* Machine-checked proofs about RunLock, for any number of executions.     *)
(***************************************************************************)
EXTENDS RunLock, TLAPS

-----------------------------------------------------------------------------
(* Typing.                                                                 *)

\* The files the steps write are well-typed.
LEMMA FileTypes ==
  /\ NoFile \in File
  /\ \A p \in Procs : Blank(p) \in File
  /\ \A p \in Procs, n \in Nat : Text(p, n) \in File
  /\ \A f \in File : [f EXCEPT !.lapsed = TRUE] \in File
BY DEF NoFile, Blank, Text, File

\* Whose a file is and whether it can be read, by how it was made.
LEMMA FileFields ==
  /\ NoFile.owner = Nobody
  /\ \A p \in Procs : Blank(p).owner = p /\ ~Blank(p).written /\ ~Blank(p).lapsed
  /\ \A p \in Procs, n \in Nat :
       Text(p, n).owner = p /\ Text(p, n).written /\ ~Text(p, n).lapsed
BY DEF NoFile, Blank, Text

\* A heartbeat that lapses changes nothing else.
LEMMA LapsedFields ==
  ASSUME NEW f \in File
  PROVE  LET g == [f EXCEPT !.lapsed = TRUE]
         IN  g.owner = f.owner /\ g.written = f.written /\ g.beat = f.beat
BY DEF File

\* Initially the types hold.
LEMMA InitTypes == Init => TypeOK
<1> SUFFICES ASSUME Init PROVE TypeOK
  OBVIOUS
<1>1. <<Nobody, 0>> \in (Procs \cup {Nobody}) \X Nat
  OBVIOUS
<1>2. seen \in [Procs -> (Procs \cup {Nobody}) \X Nat]
  BY <1>1 DEF Init
<1>3. QED
  BY <1>2, FileTypes DEF Init, TypeOK, Steps

\* A step to a known place keeps pc well-typed.
LEMMA GotoTypes ==
  ASSUME TypeOK, NEW p \in Procs, NEW s \in Steps, Goto(p, s)
  PROVE  pc' \in [Procs -> Steps]
BY DEF TypeOK, Goto

\* The steps of acquire_run_mutation_guard keep the types.
LEMMA AcquireTypes ==
  ASSUME TypeOK, NEW p \in Procs,
         \/ Start(p) \/ LoadClaim(p) \/ Unclaim(p) \/ CreateLock(p) \/ WriteLock(p)
         \/ ReadLock(p) \/ CreateClaim(p) \/ LoadClaimAgain(p) \/ UnclaimAgain(p)
         \/ WriteClaim(p) \/ WriteLockFails(p) \/ WriteClaimFails(p)
  PROVE  TypeOK'
<1> USE FileTypes, GotoTypes DEF Steps, Recovering, Ended
<1>1. CASE Start(p)
  BY <1>1 DEF Start, TypeOK
<1>2. CASE LoadClaim(p)
  BY <1>2 DEF LoadClaim, TypeOK
<1>3. CASE Unclaim(p)
  BY <1>3 DEF Unclaim, TypeOK
<1>4. CASE CreateLock(p)
  BY <1>4 DEF CreateLock, TypeOK
<1>5. CASE WriteLock(p)
  BY <1>5 DEF WriteLock, TypeOK
<1>6. CASE ReadLock(p)
  <2>1. lock.owner \in Procs \cup {Nobody} /\ lock.beat \in Nat
    BY DEF TypeOK, File
  <2>2. pc' \in [Procs -> Steps]
    BY <1>6 DEF ReadLock
  <2>3. seen' \in [Procs -> (Procs \cup {Nobody}) \X Nat]
    BY <1>6, <2>1, SMTT(30) DEF ReadLock, TypeOK
  <2>4. grace' \in [Procs -> BOOLEAN]
    BY <1>6 DEF ReadLock, TypeOK, PidDead
  <2>5. QED
    BY <1>6, <2>2, <2>3, <2>4 DEF ReadLock, TypeOK
<1>7. CASE CreateClaim(p)
  BY <1>7 DEF CreateClaim, TypeOK
<1>8. CASE LoadClaimAgain(p)
  BY <1>8 DEF LoadClaimAgain, TypeOK
<1>9. CASE UnclaimAgain(p)
  BY <1>9 DEF UnclaimAgain, TypeOK
<1>10. CASE WriteClaim(p)
  BY <1>10 DEF WriteClaim, TypeOK
<1>11. CASE WriteLockFails(p)
  BY <1>11 DEF WriteLockFails, Fails, TypeOK
<1>12. CASE WriteClaimFails(p)
  BY <1>12 DEF WriteClaimFails, TypeOK
<1>13. QED
  BY <1>1, <1>2, <1>3, <1>4, <1>5, <1>6, <1>7, <1>8, <1>9, <1>10, <1>11, <1>12

\* So do the recovery under the claim, the heartbeat and the release.
LEMMA RecoverTypes ==
  ASSUME TypeOK, NEW p \in Procs,
         \/ Recheck(p) \/ UnlinkLock(p) \/ RecreateLock(p) \/ Drop(p) \/ DropUnlink(p)
         \/ BeatLoad(p) \/ BeatWrite(p) \/ ReleaseLoad(p) \/ ReleaseUnlink(p)
  PROVE  TypeOK'
<1> USE FileTypes, GotoTypes DEF Steps, Recovering, Ended
<1>1. CASE Recheck(p)
  BY <1>1 DEF Recheck, Fails, TypeOK
<1>2. CASE UnlinkLock(p)
  BY <1>2 DEF UnlinkLock, Fails, TypeOK
<1>3. CASE RecreateLock(p)
  BY <1>3 DEF RecreateLock, Fails, TypeOK
<1>4. CASE Drop(p)
  BY <1>4 DEF Drop, TypeOK
<1>5. CASE DropUnlink(p)
  BY <1>5 DEF DropUnlink, TypeOK
<1>6. CASE BeatLoad(p)
  BY <1>6 DEF BeatLoad, TypeOK
<1>7. CASE BeatWrite(p)
  BY <1>7 DEF BeatWrite, TypeOK
<1>8. CASE ReleaseLoad(p)
  BY <1>8 DEF ReleaseLoad, TypeOK
<1>9. CASE ReleaseUnlink(p)
  BY <1>9 DEF ReleaseUnlink, TypeOK
<1>10. QED
  BY <1>1, <1>2, <1>3, <1>4, <1>5, <1>6, <1>7, <1>8, <1>9

\* And the environment.
LEMMA EnvironmentTypes ==
  ASSUME TypeOK, Environment
  PROVE  TypeOK'
<1> USE FileTypes, GotoTypes DEF Steps, Recovering, Ended
<1>1. ASSUME NEW p \in Procs, Exit(p) \/ Crash(p) PROVE TypeOK'
  BY <1>1 DEF Exit, Crash, Vanishes, TypeOK
<1>2. ASSUME NEW p \in Procs, ReusePid(p) PROVE TypeOK'
  BY <1>2 DEF ReusePid, TypeOK
<1>3. CASE LockLapses
  BY <1>3 DEF LockLapses, TypeOK
<1>4. CASE ClaimLapses
  BY <1>4 DEF ClaimLapses, TypeOK
<1>5. CASE Inspect \/ Unlock
  BY <1>5 DEF Inspect, Unlock, TypeOK
<1>6. QED
  BY <1>1, <1>2, <1>3, <1>4, <1>5 DEF Environment

\* Every step keeps the types.
LEMMA NextTypes == TypeOK /\ [Next]_vars => TypeOK'
<1> SUFFICES ASSUME TypeOK, [Next]_vars PROVE TypeOK'
  OBVIOUS
<1>1. CASE Environment
  BY <1>1, EnvironmentTypes
<1>2. ASSUME NEW p \in Procs, Process(p) PROVE TypeOK'
  BY <1>2, AcquireTypes, RecoverTypes DEF Process, Code
<1>3. CASE UNCHANGED vars
  BY <1>3 DEF vars, TypeOK
<1>4. QED
  BY <1>1, <1>2, <1>3 DEF Next

\* Lock and claim files, program counters and locals have their types under
\* every fault.
THEOREM LockTypes == Spec => []TypeOK
BY InitTypes, NextTypes, PTL DEF Spec

-----------------------------------------------------------------------------
(* Under every fault: a failed acquisition leaves no file behind.          *)

\* p has the lock, or has just got it by recovery.
Owning(p) ==
  \/ pc[p] \in {"held", "release"}
  \/ pc[p] \in {"drop", "dropunlink"} /\ outcome[p] = "held"

\* When p can be named in the lock file, and when that is still blank.  A
\* process that is done can, when its last heartbeat came after its release.
LockOwner(p) ==
  /\ lock.owner = p => \/ Owning(p)
                       \/ pc[p] \in {"write", "rewrite", "done", "gone"}
  /\ beating[p] => pc[p] \in {"held", "release", "done"}
  /\ lock.owner = p /\ ~lock.written
       => pc[p] \in {"write", "rewrite", "gone"} /\ lock = Blank(p)

\* When p can be named in the claim file, and when that is still blank.
ClaimOwner(p) ==
  claim.owner = p =>
    /\ pc[p] \in Recovering \cup {"gone"}
    /\ ~claim.written => pc[p] \in {"claimwrite", "gone"} /\ claim = Blank(p)

OwnersInv == \A p \in Procs : LockOwner(p) /\ ClaimOwner(p)

LeavesInv == TypeOK /\ OwnersInv

\* No step of a process breaks it.
LEMMA ProcessLeaves ==
  ASSUME LeavesInv, NEW p \in Procs, Process(p)
  PROVE  OwnersInv'
<1> SUFFICES ASSUME NEW q \in Procs PROVE LockOwner(q)' /\ ClaimOwner(q)'
  BY DEF OwnersInv
<1> /\ LockOwner(p) /\ ClaimOwner(p) /\ LockOwner(q) /\ ClaimOwner(q)
    /\ pc \in [Procs -> Steps] /\ outcome \in [Procs -> {"held", "failed"}]
    /\ beating \in [Procs -> BOOLEAN] /\ beats \in [Procs -> Nat]
  BY DEF LeavesInv, OwnersInv, TypeOK
<1> USE LockAssumption, FileFields
    DEF LockOwner, ClaimOwner, Owning, Recovering, Goto, Readable
<1>1. CASE Start(p)
  BY <1>1 DEF Start
<1>2. CASE LoadClaim(p)
  BY <1>2 DEF LoadClaim
<1>3. CASE Unclaim(p)
  BY <1>3 DEF Unclaim
<1>4. CASE CreateLock(p)
  BY <1>4 DEF CreateLock
<1>5. CASE WriteLock(p)
  BY <1>5 DEF WriteLock
<1>6. CASE ReadLock(p)
  BY <1>6 DEF ReadLock
<1>7. CASE CreateClaim(p)
  BY <1>7 DEF CreateClaim
<1>8. CASE LoadClaimAgain(p)
  BY <1>8 DEF LoadClaimAgain
<1>9. CASE UnclaimAgain(p)
  BY <1>9 DEF UnclaimAgain
<1>10. CASE WriteClaim(p)
  BY <1>10 DEF WriteClaim
<1>11. CASE Recheck(p)
  BY <1>11 DEF Recheck, Fails
<1>12. CASE UnlinkLock(p)
  BY <1>12 DEF UnlinkLock, Fails
<1>13. CASE RecreateLock(p)
  BY <1>13 DEF RecreateLock, Fails
<1>14. CASE Drop(p)
  BY <1>14 DEF Drop
<1>15. CASE DropUnlink(p)
  BY <1>15 DEF DropUnlink
<1>16. CASE BeatLoad(p)
  BY <1>16 DEF BeatLoad
<1>17. CASE BeatWrite(p)
  BY <1>17 DEF BeatWrite
<1>18. CASE ReleaseLoad(p)
  BY <1>18 DEF ReleaseLoad
<1>19. CASE ReleaseUnlink(p)
  BY <1>19 DEF ReleaseUnlink
<1>20. CASE WriteLockFails(p)
  BY <1>20 DEF WriteLockFails, Fails
<1>21. CASE WriteClaimFails(p)
  BY <1>21 DEF WriteClaimFails
<1>22. QED
  BY <1>20, <1>21, <1>1, <1>2, <1>3, <1>4, <1>5, <1>6, <1>7, <1>8, <1>9,
     <1>10, <1>11, <1>12, <1>13, <1>14, <1>15, <1>16, <1>17, <1>18, <1>19 DEF Process, Code

\* Nor does the environment.
LEMMA EnvironmentLeaves ==
  ASSUME LeavesInv, Environment
  PROVE  OwnersInv'
<1> SUFFICES ASSUME NEW q \in Procs PROVE LockOwner(q)' /\ ClaimOwner(q)'
  BY DEF OwnersInv
<1> /\ LockOwner(q) /\ ClaimOwner(q)
    /\ pc \in [Procs -> Steps] /\ beating \in [Procs -> BOOLEAN]
    /\ lock \in File /\ claim \in File
  BY DEF LeavesInv, OwnersInv, TypeOK
<1> USE LockAssumption, FileFields
    DEF LockOwner, ClaimOwner, Owning, Recovering, Goto, Readable
<1>1. ASSUME NEW p \in Procs, Exit(p) \/ Crash(p) PROVE LockOwner(q)' /\ ClaimOwner(q)'
  BY <1>1 DEF Exit, Crash, Vanishes
<1>2. ASSUME NEW p \in Procs, ReusePid(p) PROVE LockOwner(q)' /\ ClaimOwner(q)'
  BY <1>2 DEF ReusePid
<1>3. CASE LockLapses
  BY <1>3, LapsedFields DEF LockLapses
<1>4. CASE ClaimLapses
  BY <1>4, LapsedFields DEF ClaimLapses
<1>5. CASE Inspect
  BY <1>5 DEF Inspect
<1>6. CASE Unlock
  BY <1>6 DEF Unlock
<1>7. QED
  BY <1>1, <1>2, <1>3, <1>4, <1>5, <1>6 DEF Environment

\* LeavesInv is inductive, whatever the faults.
LEMMA LeavesInvariant == Spec => []LeavesInv
<1>1. Init => LeavesInv
  BY InitTypes, LockAssumption, FileFields
     DEF Init, LeavesInv, OwnersInv, LockOwner, ClaimOwner
<1>2. LeavesInv /\ [Next]_vars => LeavesInv'
  <2> SUFFICES ASSUME LeavesInv, [Next]_vars PROVE LeavesInv'
    OBVIOUS
  <2>1. TypeOK'
    BY NextTypes DEF LeavesInv
  <2>2. CASE Environment
    BY <2>1, <2>2, EnvironmentLeaves DEF LeavesInv
  <2>3. ASSUME NEW p \in Procs, Process(p) PROVE LeavesInv'
    BY <2>1, <2>3, ProcessLeaves DEF LeavesInv
  <2>4. CASE UNCHANGED vars
    BY <2>1, <2>4 DEF vars, LeavesInv, OwnersInv, LockOwner, ClaimOwner, Owning
  <2>5. QED
    BY <2>2, <2>3, <2>4 DEF Next
<1>3. QED
  BY <1>1, <1>2, PTL DEF Spec

\* Every error path of acquire_run_mutation_guard removes what it created:
\* a failed acquisition owns neither file, under every fault.
THEOREM FailureLeavesNothing == Spec => []FailedLeavesNothing
<1>1. LeavesInv => FailedLeavesNothing
  BY DEF LeavesInv, OwnersInv, LockOwner, ClaimOwner, Owning, Recovering,
         FailedLeavesNothing
<1>2. QED
  BY <1>1, LeavesInvariant, PTL

\* Only a process between the creation and the first write of a file, or one
\* that died there, leaves it unreadable (_write_exclusive).
THEOREM UnreadableSoonReadable == Spec => []UnreadableIsTransient
<1>1. LeavesInv => UnreadableIsTransient
  <2> SUFFICES ASSUME LeavesInv PROVE UnreadableIsTransient
    OBVIOUS
  <2>1. lock.owner # Nobody => lock.owner \in Procs
    BY DEF LeavesInv, TypeOK, File
  <2>2. claim.owner # Nobody => claim.owner \in Procs
    BY DEF LeavesInv, TypeOK, File
  <2>3. QED
    BY <2>1, <2>2 DEF LeavesInv, OwnersInv, LockOwner, ClaimOwner, UnreadableIsTransient
<1>2. QED
  BY <1>1, LeavesInvariant, PTL

-----------------------------------------------------------------------------
(* Without the faults that break it: mutual exclusion.                     *)

\* Heartbeats are on, each is written before the release that follows it, no
\* owner or recoverer outsleeps its TTL, no recoverer dies, and no operator
\* clears the lock.  Owners and waiters may die at any moment, their pids may
\* be reused, and the writes of lock and claim may fail.
Benign == HeartbeatOn /\ Faults \subseteq {"pid_reused", "write_fails"}

\* While p owns the lock the file at the path is p's, readable and fresh; what
\* p has created is still there when p writes it; and no one else is named.
Holding(p) ==
  /\ Owning(p) => lock.owner = p /\ lock.written /\ ~lock.lapsed
  /\ pc[p] \in {"write", "rewrite"} => lock = Blank(p)
  /\ beating[p] => pc[p] = "held"
  /\ lock.owner = p => Owning(p) \/ pc[p] \in {"write", "rewrite", "gone"}

\* The recovery claim names the one live recoverer, is never taken for stale,
\* and the lock about to be unlinked belongs to a process that is gone.
Recovery(p) ==
  /\ pc[p] = "claimwrite" => claim = Blank(p)
  /\ pc[p] \in Recovering \ {"claimwrite"}
       => claim.owner = p /\ claim.written /\ ~claim.lapsed
  /\ claim.owner = p => pc[p] \in Recovering
  /\ pc[p] \notin {"unclaim", "unclaim2"}
  /\ pc[p] = "unlink"
       => lock.owner \in Procs /\ lock.written /\ pc[lock.owner] = "gone"

ExclusionInv ==
  /\ TypeOK
  /\ operator = "idle"
  /\ \A p \in Procs : Holding(p) /\ Recovery(p)

\* No step of a process breaks it.
LEMMA ProcessExclusion ==
  ASSUME Benign, ExclusionInv, NEW p \in Procs, Process(p), NEW q \in Procs
  PROVE  Holding(q)' /\ Recovery(q)'
<1> /\ Holding(p) /\ Recovery(p) /\ Holding(q) /\ Recovery(q)
    /\ pc \in [Procs -> Steps] /\ outcome \in [Procs -> {"held", "failed"}]
    /\ beating \in [Procs -> BOOLEAN] /\ beats \in [Procs -> Nat]
  BY DEF ExclusionInv, TypeOK
<1>a. lock.owner # Nobody => lock.owner \in Procs /\ Holding(lock.owner)
  BY DEF ExclusionInv, TypeOK, File
<1>b. claim.owner # Nobody => claim.owner \in Procs /\ Recovery(claim.owner)
  BY DEF ExclusionInv, TypeOK, File
<1> USE LockAssumption, FileFields
    DEF Holding, Recovery, Owning, Recovering, Goto, Readable
<1>1. CASE Start(p)
  BY <1>1 DEF Start
<1>2. CASE LoadClaim(p)
  BY <1>2, <1>b DEF LoadClaim, Stale, PidDead, Expired
<1>3. CASE Unclaim(p)
  BY <1>3 DEF Unclaim
<1>4. CASE CreateLock(p)
  BY <1>4 DEF CreateLock
<1>5. CASE WriteLock(p)
  BY <1>5 DEF WriteLock
<1>6. CASE ReadLock(p)
  BY <1>6 DEF ReadLock
<1>7. CASE CreateClaim(p)
  BY <1>7, <1>b DEF CreateClaim
<1>8. CASE LoadClaimAgain(p)
  BY <1>8, <1>b DEF LoadClaimAgain, Stale, PidDead, Expired
<1>9. CASE UnclaimAgain(p)
  BY <1>9 DEF UnclaimAgain
<1>10. CASE WriteClaim(p)
  BY <1>10 DEF WriteClaim
<1>11. CASE Recheck(p)
  BY <1>11, <1>a DEF Recheck, Fails, StillStale, Stale, PidDead, Expired
<1>12. CASE UnlinkLock(p)
  BY <1>12, <1>a DEF UnlinkLock, Fails
<1>13. CASE RecreateLock(p)
  BY <1>13 DEF RecreateLock, Fails
<1>14. CASE Drop(p)
  BY <1>14 DEF Drop
<1>15. CASE DropUnlink(p)
  BY <1>15 DEF DropUnlink
<1>16. CASE BeatLoad(p)
  BY <1>16 DEF BeatLoad
<1>17. CASE BeatWrite(p)
  BY <1>17 DEF BeatWrite
<1>18. CASE ReleaseLoad(p)
  BY <1>18 DEF ReleaseLoad, Benign
<1>19. CASE ReleaseUnlink(p)
  BY <1>19 DEF ReleaseUnlink
<1>20. CASE WriteLockFails(p)
  BY <1>20 DEF WriteLockFails, Fails
<1>21. CASE WriteClaimFails(p)
  BY <1>21 DEF WriteClaimFails
<1>22. QED
  BY <1>20, <1>21, <1>1, <1>2, <1>3, <1>4, <1>5, <1>6, <1>7, <1>8, <1>9,
     <1>10, <1>11, <1>12, <1>13, <1>14, <1>15, <1>16, <1>17, <1>18, <1>19 DEF Process, Code

\* Nor does the environment, with no other fault than a reused pid or a
\* failing write.
LEMMA EnvironmentExclusion ==
  ASSUME Benign, ExclusionInv, Environment, NEW q \in Procs
  PROVE  Holding(q)' /\ Recovery(q)' /\ operator' = "idle"
<1> /\ Holding(q) /\ Recovery(q) /\ operator = "idle"
    /\ pc \in [Procs -> Steps] /\ beating \in [Procs -> BOOLEAN]
    /\ lock \in File /\ claim \in File
  BY DEF ExclusionInv, TypeOK
<1>a. lock.owner # Nobody => lock.owner \in Procs /\ Holding(lock.owner)
  BY DEF ExclusionInv, TypeOK, File
<1>b. claim.owner # Nobody => claim.owner \in Procs /\ Recovery(claim.owner)
  BY DEF ExclusionInv, TypeOK, File
<1> USE LockAssumption, FileFields
    DEF Benign, Holding, Recovery, Owning, Recovering, Goto, Readable
<1>1. ASSUME NEW p \in Procs, Exit(p) \/ Crash(p)
      PROVE  Holding(q)' /\ Recovery(q)' /\ operator' = "idle"
  <2>1. Recovery(p)
    BY DEF ExclusionInv
  <2>2. QED
    BY <1>1, <1>a, <2>1 DEF Exit, Crash, Vanishes, Ended
<1>2. ASSUME NEW p \in Procs, ReusePid(p)
      PROVE  Holding(q)' /\ Recovery(q)' /\ operator' = "idle"
  BY <1>2 DEF ReusePid
<1>3. CASE LockLapses
  BY <1>3, <1>a, LapsedFields DEF LockLapses, Sleeps, Ended
<1>4. CASE ClaimLapses
  BY <1>4, <1>b DEF ClaimLapses, Ended
<1>5. CASE Inspect \/ Unlock
  BY <1>5 DEF Inspect, Unlock
<1>6. QED
  BY <1>1, <1>2, <1>3, <1>4, <1>5 DEF Environment

\* ExclusionInv is inductive, and implies mutual exclusion because the lock
\* file names one owner.  Two live executions never hold the workspace at
\* once, for any number of executions on any hosts, whatever crashes and
\* recoveries happen, as long as the environment is benign.
THEOREM OneExecution == Benign => (Spec => []MutualExclusion)
<1> SUFFICES ASSUME Benign PROVE Spec => []MutualExclusion
  OBVIOUS
<1>1. Init => ExclusionInv
  BY InitTypes, LockAssumption, FileFields
     DEF Init, ExclusionInv, Holding, Recovery, Owning, Recovering
<1>2. ExclusionInv /\ [Next]_vars => ExclusionInv'
  <2> SUFFICES ASSUME ExclusionInv, [Next]_vars PROVE ExclusionInv'
    OBVIOUS
  <2>1. TypeOK'
    BY NextTypes DEF ExclusionInv
  <2>2. CASE Environment
    <3>1. operator' = "idle"
      BY <2>2 DEF Environment, Exit, Crash, Vanishes, ReusePid, LockLapses,
                  ClaimLapses, Inspect, Unlock, ExclusionInv, Benign
    <3>2. QED
      BY <2>1, <2>2, <3>1, EnvironmentExclusion DEF ExclusionInv
  <2>3. ASSUME NEW p \in Procs, Process(p) PROVE ExclusionInv'
    <3>1. operator' = operator
      BY <2>3 DEF Process, Code, Start, LoadClaim, Unclaim, CreateLock, WriteLock,
                  ReadLock, CreateClaim, LoadClaimAgain, UnclaimAgain, WriteClaim,
                  Recheck, UnlinkLock, RecreateLock, Drop, DropUnlink, BeatLoad,
                  BeatWrite, ReleaseLoad, ReleaseUnlink, WriteLockFails, WriteClaimFails
    <3>2. QED
      BY <2>1, <2>3, <3>1, ProcessExclusion DEF ExclusionInv
  <2>4. CASE UNCHANGED vars
    BY <2>1, <2>4 DEF vars, ExclusionInv, Holding, Recovery, Owning
  <2>5. QED
    BY <2>2, <2>3, <2>4 DEF Next
<1>3. ExclusionInv => MutualExclusion
  BY DEF ExclusionInv, Holding, Owning, MutualExclusion
<1>4. QED
  BY <1>1, <1>2, <1>3, PTL DEF Spec

=============================================================================
