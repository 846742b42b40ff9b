---------------------------- MODULE PromptService ----------------------------
(***************************************************************************)
(* What the prompt queue promises to the clients of the IDE bridge         *)
(* (docs/ide_protocol.md, the docstrings of ide/prompt_queue.py): a prompt *)
(* is executed at most once, it is reported completed only after it was    *)
(* executed, its outcome is final, and the prompts of a session begin in   *)
(* the order in which they were accepted, one after the other.  Leases,    *)
(* processes, threads and time do not appear.                              *)
(***************************************************************************)
EXTENDS Naturals

CONSTANTS Prompts, Sessions, None

VARIABLES
  phase,  \* where a prompt is
  owner,  \* the session it belongs to
  moved   \* it came from another session

svars == <<phase, owner, moved>>

Outcomes == {"completed", "cancelled", "failed"}
Over(p) == phase[p] \in Outcomes
Open == {p \in Prompts : phase[p] \in {"queued", "executing"}}

ServiceInit ==
  /\ phase = [p \in Prompts |-> "new"]
  /\ owner = [p \in Prompts |-> None]
  /\ moved = [p \in Prompts |-> FALSE]

Accept(p, s) ==
  /\ phase[p] = "new"
  /\ \A q \in Prompts : q < p => phase[q] # "new"
  /\ phase' = [phase EXCEPT ![p] = "queued"]
  /\ owner' = [owner EXCEPT ![p] = s]
  /\ UNCHANGED moved

\* A session whose prompts were never rebound serves them in order: all
\* earlier ones are over.
Begin(p) ==
  /\ phase[p] = "queued"
  /\ \A q \in Prompts :
       q < p /\ owner[q] = owner[p] /\ ~moved[q] /\ ~moved[p] => Over(q)
  /\ phase' = [phase EXCEPT ![p] = "executing"]
  /\ UNCHANGED <<owner, moved>>

Complete(p) ==
  /\ phase[p] = "executing"
  /\ phase' = [phase EXCEPT ![p] = "completed"]
  /\ UNCHANGED <<owner, moved>>

\* Prompts that end in another way: one that was deleted, cancelled or failed,
\* or all that a session has waiting.
GiveUp(D, outcome) ==
  /\ phase' = [p \in Prompts |-> IF p \in D THEN outcome ELSE phase[p]]
  /\ UNCHANGED <<owner, moved>>

\* Session `to' takes over what session `from' has not finished.
Rebind(from, to) ==
  LET M == {p \in Open : owner[p] = from}
  IN  /\ owner' = [p \in Prompts |-> IF p \in M THEN to ELSE owner[p]]
      /\ moved' = [p \in Prompts |-> moved[p] \/ p \in M]
      /\ UNCHANGED phase

ServiceNext ==
  \/ \E p \in Prompts, s \in Sessions : Accept(p, s)
  \/ \E p \in Prompts : Begin(p) \/ Complete(p)
  \/ \E D \in SUBSET Open, outcome \in {"cancelled", "failed"} :
       GiveUp(D, outcome)
  \/ \E from, to \in Sessions : Rebind(from, to)

ServiceSpec == ServiceInit /\ [][ServiceNext]_svars
=============================================================================
