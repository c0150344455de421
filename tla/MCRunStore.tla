----------------------------- MODULE MCRunStore -----------------------------
(***************************************************************************)
(* An instance of RunStore with one task, two runs, a docker node with one *)
(* slot, and a node that is registered as a docker node with two slots or  *)
(* as an ssh node with one, whose key is not verified yet or is another    *)
(* one.  Two sessions race for a last slot, by starts and by dispatches of *)
(* a feature request and of a Git Sync request of higher priority; reports *)
(* end runs, in both ways, and make runs that have ended running again.    *)
(* The snapshot lists one run, so the other has dropped from it.           *)
(***************************************************************************)
EXTENDS Backpressure, TLC

CONSTANTS t1, n1, n2, key1, key2

Ask(role, executor, priority) ==
  [task |-> t1, role |-> role, executor |-> executor, priority |-> priority]

Docker(status, capacity) ==
  [kind |-> "docker", status |-> status, capacity |-> capacity,
   key |-> key1, verified |-> TRUE]

SSH(key) ==
  [kind |-> "ssh", status |-> "active", capacity |-> 1, key |-> key, verified |-> FALSE]

StoreRequest == {Ask("feature", "docker", 0), Ask("git_sync", "ssh", 1)}

\* A capacity of 0 stands for one that is missing or no number.
StoreRegistrations ==
  [n \in Node |-> IF n = n1 THEN {Docker("active", 2), SSH(key2)} ELSE {Docker("active", 0)}]

Symmetry == Permutations(Session)
=============================================================================
