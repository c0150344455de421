------------------------------- MODULE Startup -------------------------------
(***************************************************************************)
(* What happens to the database before a process serves: `mcxctl migrate`  *)
(* applies the migrations of a directory, and every start of the API and   *)
(* the gateway, and each mcxctl command that opens the store, writes the   *)
(* seed rows, one statement at a time and in no transaction.  Several      *)
(* runners and processes may be at it at once, with the files and the      *)
(* configuration of different releases, and each may fail or die at every  *)
(* step.                                                                   *)
(*                                                                         *)
(* The default user is the one seed row somebody else writes: an           *)
(* administrator may give it a role and a password, and other users take   *)
(* email addresses the configuration may name later.                       *)
(***************************************************************************)
EXTENDS Integers, Sequences, FiniteSets, SequencesExt

CONSTANTS
  Runner,      \* mcxctl migrate, wherever it is run
  Directory,   \* the migration directories of the releases: version -> content
  Process,     \* processes that open the PostgreSQL store
  Email,       \* email addresses: configured for the default user, or used by others
  NoEmail,     \* the default user has no row
  SeedRow,     \* the seed rows, in the order of their statements
  NeededBy     \* the version of the migration that creates a seed row's table

ASSUME StartupAssumption ==
  /\ \A d \in Directory : IsFiniteSet(DOMAIN d) /\ DOMAIN d \subseteq Nat \ {0}
  /\ NoEmail \notin Email
  /\ SeedRow \in Seq(DOMAIN NeededBy)
  /\ {"user", "credential", "membership"} \subseteq {SeedRow[i] : i \in DOMAIN SeedRow}
  /\ NeededBy \in [{SeedRow[i] : i \in DOMAIN SeedRow} -> Nat]

VARIABLES
  applied,   \* the migrations whose effects are committed, with their schema_migrations rows
  runner,    \* what each runner is about to do
  seeded,    \* the seed rows that are there
  account,   \* the default user's email, role and credential
  others,    \* the email addresses of other users
  process    \* where each process is

migrationVars == <<applied, runner>>
seedVars      == <<seeded, account, others, process>>
startupVars   == <<migrationVars, seedVars>>

NotRunning == [step |-> "rest"]
Down       == [step |-> "down"]

\* readMigrations: the files of a directory in the order of their versions.
InVersionOrder(d) ==
  {rows \in [1 .. Cardinality(DOMAIN d) -> {[version |-> v, content |-> d[v]] : v \in DOMAIN d}] :
     \A i, j \in DOMAIN rows : i < j => rows[i].version < rows[j].version}

\* A new database, or one that a release has migrated.
StartupInit ==
  /\ applied \in {<<>>} \cup UNION {InVersionOrder(d) : d \in Directory}
  /\ runner = [r \in Runner |-> NotRunning]
  /\ seeded = {}
  /\ account = [email |-> NoEmail, role |-> "none", credential |-> "none"]
  /\ others = {}
  /\ process = [p \in Process |-> Down]

-----------------------------------------------------------------------------
(* Migrating. *)

Versions == {applied[i].version : i \in DOMAIN applied}
ContentOf(v) == {applied[i].content : i \in {j \in DOMAIN applied : applied[j].version = v}}

Continue(r, work) == runner' = [runner EXCEPT ![r] = work]

\* The directory is read once, and its versions are gone through in their order.
Migrate(r, d) ==
  /\ runner[r].step \in {"rest", "done"}
  /\ Continue(r, [step |-> "check", dir |-> d, at |-> 0])
  /\ UNCHANGED <<applied, seedVars>>

Left(r) == {v \in DOMAIN runner[r].dir : v > runner[r].at}

\* Mutant: a row of the version is enough.
SameContentOrAny(v, content) == v \in Versions
SameContent(v, content) == content \in ContentOf(v)

MigrationApplied(r) ==
  /\ runner[r].step = "check" /\ Left(r) # {}
  /\ LET v == Min(Left(r))
     IN  \/ /\ v \notin Versions
            /\ Continue(r, [runner[r] EXCEPT !.step = "apply", !.at = v])
         \/ /\ SameContent(v, runner[r].dir[v])
            /\ Continue(r, [runner[r] EXCEPT !.at = v])
         \/ /\ v \in Versions /\ ~SameContent(v, runner[r].dir[v])   \* hash changed after apply
            /\ Continue(r, NotRunning)
  /\ UNCHANGED <<applied, seedVars>>

\* The row's version is the primary key: a second insertion waits for the
\* transaction of the first, and fails when that has been committed.
VersionFreeAlways(v) == TRUE                                         \* no such constraint
VersionFree(v) ==
  /\ v \notin Versions
  /\ \A r \in Runner : runner[r].step = "inserted" => runner[r].at # v

\* The transaction executes the migration and inserts its row ...
ApplyMigration(r) ==
  /\ runner[r].step = "apply"
  /\ VersionFree(runner[r].at)
  /\ Continue(r, [runner[r] EXCEPT !.step = "inserted"])
  /\ UNCHANGED <<applied, seedVars>>

\* ... and both are there when it is committed.
CommitMigration(r) ==
  /\ runner[r].step = "inserted"
  /\ LET v == runner[r].at
     IN  applied' = Append(applied, [version |-> v, content |-> runner[r].dir[v]])
  /\ Continue(r, [runner[r] EXCEPT !.step = "check"])
  /\ UNCHANGED seedVars

Migrated(r) ==
  /\ runner[r].step = "check" /\ Left(r) = {}
  /\ Continue(r, [runner[r] EXCEPT !.step = "done"])
  /\ UNCHANGED <<applied, seedVars>>

\* A statement fails, or the runner dies: its transaction is rolled back.
MigrateFails(r) ==
  /\ runner[r].step \notin {"rest", "done"}
  /\ Continue(r, NotRunning)
  /\ UNCHANGED <<applied, seedVars>>

-----------------------------------------------------------------------------
(* Opening the store. *)

At(p, where) == process' = [process EXCEPT ![p] = where]

FirstStatementIfAny ==                       \* a database that has its organisation is complete
  IF SeedRow[1] \in seeded THEN Len(SeedRow) + 1 ELSE 1
FirstStatement == 1

OpenWithConfig(p, email) ==
  /\ process[p] = Down
  /\ At(p, [step |-> "seed", next |-> FirstStatement, email |-> email])
  /\ UNCHANGED <<migrationVars, seeded, account, others>>

Statement(p, row) ==
  /\ process[p].step = "seed" /\ process[p].next <= Len(SeedRow)
  /\ row = SeedRow[process[p].next]
  /\ NeededBy[row] \in Versions
  /\ At(p, [process[p] EXCEPT !.next = @ + 1])
  /\ UNCHANGED <<migrationVars, others>>

\* Another user's email is a conflict that does nothing; an email that is free
\* while the default user has another one violates the primary key instead.
SeedUser(p) ==
  /\ Statement(p, "user")
  /\ \/ /\ process[p].email \in others \cup {account.email}
        /\ UNCHANGED <<seeded, account>>
     \/ /\ process[p].email \notin others /\ account.email = NoEmail
        /\ seeded' = seeded \cup {"user"}
        /\ account' = [account EXCEPT !.email = process[p].email]

OverwrittenCredential == "seeded"                                    \* the conflict updates it
SeededCredential == IF account.credential = "none" THEN "seeded" ELSE account.credential

SeedCredential(p) ==
  /\ Statement(p, "credential")
  /\ account.email # NoEmail                                         \* the foreign key
  /\ seeded' = seeded \cup {"credential"}
  /\ account' = [account EXCEPT !.credential = SeededCredential]

\* The conflict updates the role.
SeedMembership(p) ==
  /\ Statement(p, "membership")
  /\ account.email # NoEmail
  /\ seeded' = seeded \cup {"membership"}
  /\ account' = [account EXCEPT !.role = "owner"]

SeedOther(p) ==
  \E row \in {SeedRow[i] : i \in DOMAIN SeedRow} \ {"user", "credential", "membership"} :
    /\ Statement(p, row)
    /\ seeded' = seeded \cup {row}
    /\ UNCHANGED account

Serve(p) ==
  /\ process[p].step = "seed" /\ process[p].next > Len(SeedRow)
  /\ At(p, [step |-> "up"])
  /\ UNCHANGED <<migrationVars, seeded, account, others>>

\* A statement fails - its table is missing, the email conflicts -, or the
\* process ends; a request it serves ends with it.
Stop(p) ==
  /\ process[p] # Down
  /\ At(p, Down)
  /\ UNCHANGED <<migrationVars, seeded, account, others>>

-----------------------------------------------------------------------------
(* Users a process that serves is asked to store. *)

\* POST /users for a local user: the row and its role, and then its password.
UpsertUser(p, email, role) ==
  /\ process[p] = [step |-> "up"]
  /\ IF email = account.email
       THEN /\ account' = [account EXCEPT !.role = role]
            /\ \/ At(p, [step |-> "password"])
               \/ UNCHANGED process
            /\ UNCHANGED others
       ELSE others' = others \cup {email} /\ UNCHANGED <<account, process>>
  /\ UNCHANGED <<migrationVars, seeded>>

SetUserPassword(p) ==
  /\ process[p].step = "password"
  /\ account' = [account EXCEPT !.credential = "chosen"]
  /\ At(p, [step |-> "up"])
  /\ UNCHANGED <<migrationVars, seeded, others>>

\* A user of the identity provider, known by its subject, may come back with
\* another email; one that is taken is refused.
UpsertExternalUser(p, email) ==
  /\ process[p].step = "up"
  /\ email \notin others \cup {account.email}
  /\ others' \in {(others \ old) \cup {email} : old \in {{}} \cup {{e} : e \in others}}
  /\ UNCHANGED <<migrationVars, seeded, account, process>>

-----------------------------------------------------------------------------
StartupNext ==
  \/ \E r \in Runner :
       \/ \E d \in Directory : Migrate(r, d)
       \/ MigrationApplied(r)
       \/ ApplyMigration(r)
       \/ CommitMigration(r)
       \/ Migrated(r)
       \/ MigrateFails(r)
  \/ \E p \in Process :
       \/ \E email \in Email : OpenWithConfig(p, email)
       \/ SeedUser(p)
       \/ SeedCredential(p)
       \/ SeedMembership(p)
       \/ SeedOther(p)
       \/ Serve(p)
       \/ Stop(p)
       \/ \E email \in Email, role \in {"owner", "viewer"} : UpsertUser(p, email, role)
       \/ SetUserPassword(p)
       \/ \E email \in Email : UpsertExternalUser(p, email)

-----------------------------------------------------------------------------
(* The tables hold rows of their kinds, each runner is between two versions *)
(* and each process at a statement or a request.                           *)
StartupTypeOK ==
  /\ \A i \in DOMAIN applied : \E d \in Directory :
       applied[i].version \in DOMAIN d /\ applied[i].content = d[applied[i].version]
  /\ \A r \in Runner :
       \/ runner[r] = NotRunning
       \/ /\ runner[r].step \in {"check", "apply", "inserted", "done"}
          /\ runner[r].dir \in Directory
          /\ runner[r].at \in DOMAIN runner[r].dir \cup {0}
  /\ seeded \subseteq {SeedRow[i] : i \in DOMAIN SeedRow}
  /\ account \in [email : Email \cup {NoEmail}, role : {"none", "owner", "viewer"},
                  credential : {"none", "seeded", "chosen"}]
  /\ others \subseteq Email \ {account.email}
  /\ process \in [Process -> {Down, [step |-> "up"], [step |-> "password"]} \cup
                   [step : {"seed"}, next : 1 .. Len(SeedRow) + 1, email : Email]]

(* No migration is applied twice, although a runner that has looked for its *)
(* row applies it later, and another one may have done so in between        *)
(* (Migrate, migrationApplied, applyMigration).                             *)
MigrationsRunOnce == Cardinality(Versions) = Len(applied)

(* A runner that ends without an error leaves a database that has every     *)
(* migration of its directory, with the content it has there, whatever      *)
(* runners of other releases have applied before it or meanwhile (Migrate). *)
MigratedMeansApplied ==
  \A r \in Runner : runner[r].step = "done" =>
    \A v \in DOMAIN runner[r].dir : runner[r].dir[v] \in ContentOf(v)

(* A process serves only when all the seed rows are there and the default   *)
(* user can log in as somebody, however many starts were cut short before   *)
(* it and whatever email each was configured with (OpenWithConfig,          *)
(* EnsureSeedWithCredentials).                                              *)
ServingIsSeeded ==
  (\E p \in Process : process[p].step \in {"up", "password"}) =>
    /\ seeded = {SeedRow[i] : i \in DOMAIN SeedRow}
    /\ account.email # NoEmail /\ account.role # "none" /\ account.credential # "none"

(* The password an administrator has given the default user is never        *)
(* replaced by the one of the configuration, whichever process is started   *)
(* again (EnsureSeedWithCredentials, SetUserPassword).                      *)
PasswordStays == [][account.credential = "chosen" => account'.credential = "chosen"]_startupVars
=============================================================================
