----------------------------- MODULE MCServices -----------------------------
(***************************************************************************)
(* Instances of Login, AuditShip, RunEvents and Startup.  They share no    *)
(* variable, so they are not interleaved: `part` says which of them a      *)
(* behaviour is about, and the others stay in one of their initial states. *)
(*                                                                         *)
(* Login has one token, which expires at 1, and a clock that stops at 2,   *)
(* after the token's leeway: whatever is stored ends at 0, 1 or 2, and so  *)
(* do the clock and the cutoff of a retention pass.                        *)
(*                                                                         *)
(* AuditShip's rows that were there before, and whether they are allowed,  *)
(* are looked at with the target that is a directory: what a target does   *)
(* with a bundle does not depend on the bundle's rows.                     *)
(*                                                                         *)
(* Startup has the directories of two releases, which have other content   *)
(* in the migration they share, and one has an earlier migration too.  Its *)
(* runners and processes have the names of Login's handlers: one group of  *)
(* permutations serves all three.                                          *)
(***************************************************************************)
EXTENDS Login, AuditShip, RunEvents, Startup, TLC

CONSTANTS t1, sid, alice

VARIABLE part

IssuedTokens == t1 :> [expires |-> 1, subject |-> alice, sid |-> sid]

Releases == {1 :> "a" @@ 2 :> "a", 2 :> "b"}
SeedRows == <<"organization", "user", "credential", "membership">>
Tables   == [row \in {SeedRows[i] : i \in DOMAIN SeedRows} |-> IF row = "credential" THEN 2 ELSE 1]

Same == Permutations(Handler)

ServicesInit ==
  /\ part \in {"login", "audit", "events", "startup"}
  /\ Init
  /\ AuditInit
  /\ RunEventsInit
  /\ StartupInit
  /\ part # "login" => mode = "local"
  /\ part # "audit" => table = <<>> /\ allow = FALSE /\ scheme = "file"
  /\ scheme # "file" => table = <<>> /\ allow = FALSE
  /\ part # "events" => status = "queued"
  /\ part # "startup" => applied = <<>>

ServicesNext ==
  \/ part = "login" /\ Next /\ UNCHANGED <<part, auditVars, runEventVars, startupVars>>
  \/ part = "audit" /\ AuditNext /\ UNCHANGED <<part, vars, runEventVars, startupVars>>
  \/ part = "events" /\ RunEventsNext /\ UNCHANGED <<part, vars, auditVars, startupVars>>
  \/ part = "startup" /\ StartupNext /\ UNCHANGED <<part, vars, auditVars, runEventVars>>

servicesVars == <<part, vars, auditVars, runEventVars, startupVars>>
ServicesSpec == ServicesInit /\ [][ServicesNext]_servicesVars

(* The variables of the four parts have their types (TypeOK of Login,       *)
(* AuditTypeOK, StartupTypeOK; RunEventsTypeOK says more and stands alone). *)
ServicesTypeOK == TypeOK /\ AuditTypeOK /\ StartupTypeOK
=============================================================================
