---------------------------- MODULE Backpressure ----------------------------
(***************************************************************************)
(* What callers are told when every slot is taken: the backpressure        *)
(* snapshot of internal/scheduler/backpressure.go, which finds out anew,   *)
(* from a list of runs and the list of nodes, what the store decides in    *)
(* one SQL statement (RunStore, Eligible and Candidates).  Both lists are  *)
(* taken to be read at one moment.                                         *)
(***************************************************************************)
EXTENDS RunStore

CONSTANT Newest   \* runs ListAllRuns returns (200)

ASSUME NewestAssumption == Newest \in Nat

-----------------------------------------------------------------------------
\* ListAllRuns: the newest ones.
ListAllRuns == {r \in Run : r <= created /\ created < r + Newest}

\* Mutant: a run counts however it has ended.
ActiveRunsOfAnyStatus(n) == Cardinality({r \in ListAllRuns : runs[r].node = n})

Active(n) == {r \in ListAllRuns : runs[r].node = n /\ runs[r].status \in ActiveStatuses}
ActiveRuns(n) == Cardinality(Active(n))

\* selection_reason of a node, or ineligible_reason.
Reason(n, executor) ==
  CASE nodes[n].status # "active" -> "node_not_active"
    [] nodes[n].status = "active" /\ executor = "ssh" /\ ~nodes[n].verified ->
         "host_key_unverified"
    [] OTHER -> IF ActiveRuns(n) >= Concurrency(n) THEN "capacity_full"
                ELSE "eligible_capacity"

\* The nodes a snapshot shows as eligible.
Offered(executor) ==
  {n \in Node : nodes[n].kind = executor /\ Reason(n, executor) = "eligible_capacity"}

AvailableSlots(n) == Concurrency(n) - ActiveRuns(n)

\* In ten-thousandths, rounded.
Utilization(n) == (20000 * ActiveRuns(n) + Concurrency(n)) \div (2 * Concurrency(n))

\* Mutant: ties are left to the name.
AboveByUtilization(m, n) == Utilization(m) < Utilization(n)

\* The order of eligible nodes; the name, which breaks the remaining ties, is
\* left open.
Above(m, n) ==
  \/ Utilization(m) < Utilization(n)
  \/ Utilization(m) = Utilization(n) /\ AvailableSlots(m) > AvailableSlots(n)

\* The nodes that may have selection_rank 1.
FirstRank(executor) ==
  {n \in Offered(executor) : \A m \in Offered(executor) : ~Above(m, n)}

-----------------------------------------------------------------------------
(* Properties *)

\* docs/architecture/executors.md:152 promises a caller the selection rank of
\* each node.  As long as the list holds every active run, the snapshot offers
\* exactly the nodes the store would select from, and ranks those first that
\* the store would select: two programs, one in Go and one in SQL, agree over nodes that
\* are re-registered, drained, verified and refused.  (Rounding may change the
\* order of two nodes, one of which has more than 100 slots.)
FirstRankIsSelected ==
  (\A r \in Run : runs[r].status \in ActiveStatuses => r \in ListAllRuns) =>
    \A e \in Executor : Offered(e) = Eligible(e) /\ FirstRank(e) = Candidates(e)

\* However many runs have dropped from the list, a caller who is told that no
\* node has a free slot is told the truth: active runs that are older than the
\* newest 200 can make a node look free, but none look full.
HidesNoSlot == \A e \in Executor : Eligible(e) \subseteq Offered(e)
=============================================================================
