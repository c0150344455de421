------------------------- MODULE MCExecutorManager -------------------------
(***************************************************************************)
(* Instances of ExecutorManager.                                           *)
(*                                                                         *)
(* MCExecutorManager.cfg: docker and agentd, a slot each, two runs with    *)
(* two attempts, one fault, one report from outside, and a window of one   *)
(* run for the dispatcher.                                                 *)
(*                                                                         *)
(* MCExecutorExpired.cfg: one ssh run through a forced command.            *)
(***************************************************************************)
EXTENDS ExecutorManager

BothTransports == [e \in Executor |-> IF e = "docker" THEN "docker" ELSE "agentd"]
ForcedCommand == [e \in Executor |-> "forced"]
OneSlot == [e \in Executor |-> 1]
=============================================================================
