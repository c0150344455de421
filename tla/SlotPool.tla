------------------------------ MODULE SlotPool ------------------------------
(***************************************************************************)
(* What the run store promises its callers, without saying how: a run is   *)
(* asked for, waits or is granted a slot on a node, and is finished.  A    *)
(* node never grants more slots than the largest concurrency it has        *)
(* advertised, a run holds one slot at a time, and a finished run takes a  *)
(* slot again only after it has been asked for again.                      *)
(*                                                                         *)
(* docs/architecture/executors.md, "Node Assignment", is the prose of this *)
(* promise; RunStore is shown to implement it.                             *)
(***************************************************************************)
EXTENDS Naturals, FiniteSets

CONSTANTS
  Run,     \* run identifiers
  Node,    \* executor nodes
  NoNode   \* the node of a run that was granted none

VARIABLES
  phase,   \* phase[r]: "none", "waiting", "granted" or "finished"
  at,      \* at[r]: the node that granted r its slot
  limit    \* limit[n]: the largest concurrency n has advertised

vars == <<phase, at, limit>>

\* The runs that hold a slot of n.
Held(n) == {r \in Run : phase[r] = "granted" /\ at[r] = n}

Init ==
  /\ phase = [r \in Run |-> "none"]
  /\ at = [r \in Run |-> NoNode]
  /\ limit = [n \in Node |-> 0]

Advertise(n) ==
  /\ limit'[n] \in Nat
  /\ limit'[n] > limit[n]
  /\ limit' = [limit EXCEPT ![n] = limit'[n]]
  /\ UNCHANGED <<phase, at>>

Wait(r) ==
  /\ phase[r] = "none"
  /\ phase' = [phase EXCEPT ![r] = "waiting"]
  /\ UNCHANGED <<at, limit>>

\* A run that is granted another slot gives back the one it held.
Grant(r, n) ==
  /\ phase[r] # "finished"
  /\ Cardinality(Held(n)) < limit[n]
  /\ phase' = [phase EXCEPT ![r] = "granted"]
  /\ at' = [at EXCEPT ![r] = n]
  /\ UNCHANGED limit

Finish(r) ==
  /\ phase[r] \in {"waiting", "granted"}
  /\ phase' = [phase EXCEPT ![r] = "finished"]
  /\ UNCHANGED <<at, limit>>

Reopen(r) ==
  /\ phase[r] = "finished"
  /\ phase' = [phase EXCEPT ![r] = "waiting"]
  /\ UNCHANGED <<at, limit>>

Next ==
  \/ \E n \in Node : Advertise(n)
  \/ \E r \in Run : Wait(r) \/ Finish(r) \/ Reopen(r)
  \/ \E r \in Run, n \in Node : Grant(r, n)

Spec == Init /\ [][Next]_vars
=============================================================================
