--------------------------- MODULE MCWorkflowGate ---------------------------
(***************************************************************************)
(* Instances of WorkflowGate.                                              *)
(*                                                                         *)
(* MCWorkflowGate.cfg looks at four settings, each deep in another way:    *)
(* a task that needs tests and an audit; two requests at once about a task *)
(* that needs approvals; dry runs, reports on any run, posted scope        *)
(* checks, workers that fail and retries; runs of which nothing is heard   *)
(* but what callers of worker_result claim.                                *)
(*                                                                         *)
(* The other cfgs take the smallest setting that shows where the code      *)
(* departs from its documents.                                             *)
(***************************************************************************)
EXTENDS WorkflowGate, TLC

CONSTANTS h1, h2

Smallest ==
  [tests |-> FALSE, audit |-> FALSE, human |-> FALSE, modes |-> {"live"}, lostRows |-> FALSE,
   attempts |-> 1, outcomes |-> {"succeeded"}, failures |-> {}, changes |-> {"in_scope"},
   reports |-> {}, results |-> {}, requests |-> 1, runs |-> 2, approvals |-> 1, scopeChecks |-> 0]

Gates == [Smallest EXCEPT !.tests = TRUE, !.audit = TRUE, !.changes = {"in_scope", "out_of_scope"},
                          !.runs = 5]

Race == [Smallest EXCEPT !.human = TRUE, !.requests = 2, !.runs = 3, !.approvals = 2]

Reports == [Smallest EXCEPT !.modes = {"live", "dry_run"}, !.attempts = 2,
                            !.failures = {"failed"},
                            !.changes = {"in_scope", "nothing"}, !.reports = {"succeeded"},
                            !.results = {"published"}, !.runs = 3, !.scopeChecks = 1]

Claims == [Smallest EXCEPT !.outcomes = {}, !.scopeChecks = 1, !.reports = {"succeeded"},
                           !.results = {"prepared", "published"}, !.runs = 3]

AllSettings == {Gates, Race, Reports, Claims}
SmallestSetting == {Smallest}
LosesRows == {[Smallest EXCEPT !.lostRows = TRUE]}
ChangesDependency == {[Smallest EXCEPT !.changes = {"in_scope", "dependency"}, !.runs = 3]}

Symmetry == Permutations(Handler)
=============================================================================
