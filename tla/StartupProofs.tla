--------------------------- MODULE StartupProofs ---------------------------
(***************************************************************************)
(* What Startup guarantees for every number of runners and processes and   *)
(* every release: no migration runs twice, a runner that ends well leaves  *)
(* its migrations behind, a process serves a database that has been seeded *)
(* completely, and no start replaces a password that was chosen.           *)
(*                                                                         *)
(* Startup is the last of the four services that MCServices puts together: *)
(* the end of this module carries what is proved of each by itself to the  *)
(* specification of the four, for every value of its constants.            *)
(***************************************************************************)
EXTENDS MCServices, LoginProofs, AuditProofs, RunEventsProofs

StartupSpec == StartupInit /\ [][StartupNext]_startupVars

-----------------------------------------------------------------------------
(* The version a runner looks at next. *)

LEMMA LeastIs ==
  ASSUME NEW S \in SUBSET Nat, S # {}
  PROVE  Min(S) \in S /\ \A n \in S : Min(S) <= n
<1> DEFINE R == {p \in Nat \X Nat : p[1] < p[2]}
<1>1. OpToRel(<, Nat) = R
  BY Zenon DEF OpToRel
<1> HIDE DEF R
<1>2. PICK x \in S : \A y \in S : ~(<<y, x>> \in R)
  BY <1>1, NatLessThanWellFounded, WFMin
<1>3. \A y \in S : x <= y
  <2> TAKE y \in S
  <2>1. x \in Nat /\ y \in Nat
    OBVIOUS
  <2>2. y < x => <<y, x>> \in R
    BY <2>1 DEF R
  <2>3. ~(y < x)
    BY <1>2, <2>2
  <2> QED
    BY <2>1, <2>3
<1> QED
  BY <1>3 DEF Min

-----------------------------------------------------------------------------
(* The parts of the invariant. *)

Contents == UNION {{d[v] : v \in DOMAIN d} : d \in Directory}
Row == [version : Nat \ {0}, content : Contents]

\* The rows of schema_migrations have different versions, and come from the
\* directories.
AppliedOnce ==
  /\ applied \in Seq(Row)
  /\ \A i, j \in 1 .. Len(applied) : applied[i].version = applied[j].version => i = j
  /\ \A i \in 1 .. Len(applied) : \E d \in Directory :
       applied[i].version \in DOMAIN d /\ applied[i].content = d[applied[i].version]

RunnerType ==
  {NotRunning} \cup [step : {"check", "apply", "inserted", "done"}, dir : Directory, at : Nat]

\* A runner has left behind what it has gone past.
Behind(r) ==
  \A v \in DOMAIN runner[r].dir :
    (v < runner[r].at \/ (v = runner[r].at /\ runner[r].step \in {"check", "done"})
       \/ runner[r].step = "done") =>
      runner[r].dir[v] \in ContentOf(v)

Runners ==
  /\ runner \in [Runner -> RunnerType]
  /\ \A r \in Runner : runner[r] # NotRunning => /\ runner[r].at \in DOMAIN runner[r].dir \cup {0}
                                                 /\ Behind(r)
  /\ \A r \in Runner : runner[r].step \in {"apply", "inserted"} =>
       runner[r].at \in DOMAIN runner[r].dir
  /\ \A r \in Runner : runner[r].step = "inserted" => runner[r].at \notin Versions
  /\ \A q, r \in Runner : runner[q].step = "inserted" /\ runner[r].step = "inserted"
                            /\ runner[q].at = runner[r].at => q = r

StatementRows == {SeedRow[i] : i \in 1 .. Len(SeedRow)}

ProcessType ==
  {Down, [step |-> "up"], [step |-> "password"]}
    \cup [step : {"seed"}, next : 1 .. Len(SeedRow) + 1, email : Email]

\* The default user's row, and what hangs on it, are as the seed rows say.
Account ==
  /\ account \in [email : Email \cup {NoEmail}, role : {"none", "owner", "viewer"},
                  credential : {"none", "seeded", "chosen"}]
  /\ others \subseteq Email \ {account.email}
  /\ seeded \subseteq StatementRows
  /\ account.email # NoEmail => "user" \in seeded
  /\ "credential" \in seeded => account.email # NoEmail /\ account.credential # "none"
  /\ "membership" \in seeded => account.role # "none"

\* The statements a process has gone past have left their rows, but for the
\* default user's, which may have met a conflict.
Processes ==
  /\ process \in [Process -> ProcessType]
  /\ \A p \in Process : process[p].step = "seed" =>
       \A i \in 1 .. Len(SeedRow) : i < process[p].next => SeedRow[i] \in seeded \cup {"user"}
  /\ \A p \in Process : process[p].step \in {"up", "password"} => seeded = StatementRows

LEMMA Assumptions ==
  /\ \A d \in Directory : IsFiniteSet(DOMAIN d) /\ DOMAIN d \subseteq Nat \ {0}
  /\ NoEmail \notin Email
  /\ Len(SeedRow) \in Nat /\ DOMAIN SeedRow = 1 .. Len(SeedRow)
  /\ "user" \in StatementRows /\ "credential" \in StatementRows /\ "membership" \in StatementRows
<1>1. SeedRow \in Seq(DOMAIN NeededBy)
  BY StartupAssumption
<1>2. Len(SeedRow) \in Nat /\ DOMAIN SeedRow = 1 .. Len(SeedRow)
  BY <1>1
<1> QED
  BY <1>2, StartupAssumption DEF StatementRows

-----------------------------------------------------------------------------
(* Migrations *)

LEMMA RunnerFields ==
  ASSUME NEW w \in RunnerType
  PROVE  /\ w.step \in {"rest", "check", "apply", "inserted", "done"}
         /\ w.step = "rest" <=> w = NotRunning
         /\ w # NotRunning => /\ w.dir \in Directory /\ w.at \in Nat
                              /\ w = [step |-> w.step, dir |-> w.dir, at |-> w.at]
BY DEF RunnerType, NotRunning

LEMMA ContinueTyped ==
  ASSUME runner \in [Runner -> RunnerType], NEW r \in Runner, NEW w \in RunnerType, Continue(r, w)
  PROVE  /\ runner' \in [Runner -> RunnerType]
         /\ runner'[r] = w
         /\ \A q \in Runner \ {r} : runner'[q] = runner[q]
BY DEF Continue

\* Runners that stand still, and the tables only grow.
LEMMA BehindStays ==
  ASSUME NEW r \in Runner, Behind(r), runner'[r] = runner[r],
         \A v : ContentOf(v) \subseteq ContentOf(v)'
  PROVE  Behind(r)'
BY DEF Behind

\* A step of one runner, with the database as it was.
LEMMA RunnersStep ==
  ASSUME Runners, NEW r \in Runner, NEW w \in RunnerType, Continue(r, w), applied' = applied,
         w # NotRunning =>
           /\ w.at \in DOMAIN w.dir \cup {0}
           /\ \A v \in DOMAIN w.dir :
                (v < w.at \/ (v = w.at /\ w.step \in {"check", "done"}) \/ w.step = "done") =>
                  w.dir[v] \in ContentOf(v),
         w.step \in {"apply", "inserted"} => w.at \in DOMAIN w.dir,
         w.step = "inserted" =>
           /\ w.at \notin Versions
           /\ \A q \in Runner : runner[q].step = "inserted" => runner[q].at # w.at
  PROVE  Runners'
<1>1. /\ runner' \in [Runner -> RunnerType] /\ runner'[r] = w
      /\ \A q \in Runner \ {r} : runner'[q] = runner[q]
  BY ContinueTyped DEF Runners
<1>2. Versions' = Versions /\ \A v : ContentOf(v)' = ContentOf(v)
  BY DEF Versions, ContentOf
<1>3. \A q \in Runner : runner'[q] # NotRunning =>
        runner'[q].at \in DOMAIN runner'[q].dir \cup {0}
  BY <1>1 DEF Runners
<1>4. ASSUME NEW q \in Runner, runner'[q] # NotRunning
      PROVE  Behind(q)'
  <2>1. CASE q = r
    BY <1>1, <1>2, <1>4, <2>1 DEF Behind
  <2>2. CASE q # r
    <3>1. runner'[q] = runner[q] /\ Behind(q)
      BY <1>1, <1>4, <2>2 DEF Runners
    <3> QED
      BY <1>2, <3>1, BehindStays
  <2> QED
    BY <2>1, <2>2
<1>5. \A q \in Runner : runner'[q].step \in {"apply", "inserted"} =>
        runner'[q].at \in DOMAIN runner'[q].dir
  BY <1>1 DEF Runners
<1>6. \A q \in Runner : runner'[q].step = "inserted" => runner'[q].at \notin Versions'
  BY <1>1, <1>2 DEF Runners
<1>7. \A p, q \in Runner :
        runner'[p].step = "inserted" /\ runner'[q].step = "inserted" /\ runner'[p].at = runner'[q].at
          => p = q
  BY <1>1 DEF Runners
<1> QED
  BY <1>1, <1>3, <1>4, <1>5, <1>6, <1>7 DEF Runners

LEMMA AppliedStands == AppliedOnce /\ applied' = applied => AppliedOnce'
BY DEF AppliedOnce

LEMMA MigrateStep ==
  ASSUME Runners, NEW r \in Runner, NEW d \in Directory, Migrate(r, d)
  PROVE  Runners'
<1> DEFINE w == [step |-> "check", dir |-> d, at |-> 0]
<1>1. w \in RunnerType /\ w.step = "check" /\ w.dir = d /\ w.at = 0 /\ w # NotRunning
  BY DEF RunnerType, NotRunning
<1>2. Continue(r, w) /\ applied' = applied
  BY DEF Migrate
<1>3. \A v \in DOMAIN d : v \in Nat /\ v # 0
  BY Assumptions
<1> HIDE DEF w
<1>4. \A v \in DOMAIN w.dir : ~(v < w.at \/ v = w.at)
  BY <1>1, <1>3
<1> QED
  BY <1>1, <1>2, <1>4, RunnersStep

RunnerWork == [step : {"check", "apply", "inserted", "done"}, dir : Directory, at : Nat]

LEMMA RunnerWorks ==
  /\ RunnerType = {NotRunning} \cup RunnerWork
  /\ \A w \in RunnerWork : w # NotRunning
BY DEF RunnerType, RunnerWork, NotRunning

\* A runner looks at the least version it has left.
LEMMA CheckStep ==
  ASSUME Runners, NEW r \in Runner, MigrationApplied(r)
  PROVE  Runners'
<1> DEFINE u == runner[r]
           v == Min(Left(r))
           a == [u EXCEPT !.step = "apply", !.at = v]
           c == [u EXCEPT !.at = v]
<1>1. u \in RunnerType /\ u.step = "check" /\ applied' = applied /\ Left(r) # {}
  BY DEF Runners, MigrationApplied
<1>2. u # NotRunning /\ u.dir \in Directory /\ u.at \in Nat
      /\ u = [step |-> u.step, dir |-> u.dir, at |-> u.at] /\ Behind(r)
  BY <1>1, RunnerFields DEF Runners, NotRunning
<1>3. /\ v \in DOMAIN u.dir /\ v \in Nat /\ v > u.at
      /\ \A m \in DOMAIN u.dir : m < v => m <= u.at
  <2>1. DOMAIN u.dir \subseteq Nat
    BY <1>2, Assumptions
  <2>2. Left(r) \in SUBSET Nat /\ Left(r) = {m \in DOMAIN u.dir : m > u.at}
    BY <2>1 DEF Left
  <2>3. v \in Left(r) /\ \A m \in Left(r) : v <= m
    BY <1>1, <2>2, LeastIs
  <2> HIDE DEF v, u
  <2> QED
    BY <1>2, <2>1, <2>2, <2>3
<1>4. \/ v \notin Versions /\ Continue(r, a)
      \/ u.dir[v] \in ContentOf(v) /\ Continue(r, c)
      \/ Continue(r, NotRunning)
  BY DEF MigrationApplied, SameContent
<1>5. /\ a \in RunnerWork /\ a.step = "apply" /\ a.dir = u.dir /\ a.at = v
      /\ c \in RunnerWork /\ c.step = "check" /\ c.dir = u.dir /\ c.at = v
  <2>1. u \in RunnerWork
    BY <1>1, <1>2, RunnerWorks
  <2> HIDE DEF u, v
  <2> QED
    BY <1>1, <1>3, <2>1 DEF RunnerWork
<1>6. \A m \in DOMAIN u.dir : m < v => u.dir[m] \in ContentOf(m)
  <2> SUFFICES ASSUME NEW m \in DOMAIN u.dir, m < v
               PROVE  u.dir[m] \in ContentOf(m)
    OBVIOUS
  <2>1. m \in Nat /\ m <= u.at
    BY <1>2, <1>3, Assumptions
  <2> HIDE DEF v
  <2> QED
    BY <1>1, <1>2, <2>1 DEF Behind
<1> HIDE DEF a, c, v, u
<1>7. a \in RunnerType /\ c \in RunnerType
  BY <1>5, RunnerWorks
<1>8. CASE Continue(r, a)
  BY <1>1, <1>3, <1>5, <1>6, <1>7, <1>8, RunnersStep
<1>9. CASE u.dir[v] \in ContentOf(v) /\ Continue(r, c)
  BY <1>1, <1>3, <1>5, <1>6, <1>7, <1>9, RunnersStep
<1>10. CASE Continue(r, NotRunning)
  <2>1. NotRunning \in RunnerType /\ NotRunning.step = "rest"
    BY DEF RunnerType, NotRunning
  <2> QED
    BY <1>1, <1>10, <2>1, RunnersStep
<1> QED
  BY <1>4, <1>8, <1>9, <1>10

LEMMA ApplyStep ==
  ASSUME Runners, NEW r \in Runner, ApplyMigration(r)
  PROVE  Runners'
<1> DEFINE u == runner[r]
           w == [u EXCEPT !.step = "inserted"]
<1>1. u \in RunnerType /\ u.step = "apply" /\ applied' = applied
  BY DEF Runners, ApplyMigration
<1>2. u \in RunnerWork /\ u # NotRunning /\ Behind(r) /\ u.at \in DOMAIN u.dir
  BY <1>1, RunnerWorks DEF Runners, NotRunning
<1>3. VersionFree(u.at) /\ Continue(r, w)
  BY DEF ApplyMigration
<1>4. w \in RunnerWork /\ w.step = "inserted" /\ w.dir = u.dir /\ w.at = u.at
  BY <1>2 DEF RunnerWork
<1>5. \A v \in DOMAIN u.dir : v < u.at => u.dir[v] \in ContentOf(v)
  BY <1>2 DEF Behind
<1> HIDE DEF w, u
<1>6. w \in RunnerType
  BY <1>4, RunnerWorks
<1>7. u.at \notin Versions /\ \A q \in Runner : runner[q].step = "inserted" => runner[q].at # u.at
  BY <1>3 DEF VersionFree
<1> QED
  BY <1>1, <1>2, <1>3, <1>4, <1>5, <1>6, <1>7, RunnersStep

LEMMA DoneStep ==
  ASSUME Runners, NEW r \in Runner, Migrated(r)
  PROVE  Runners'
<1> DEFINE u == runner[r]
           w == [u EXCEPT !.step = "done"]
<1>1. u \in RunnerType /\ u.step = "check" /\ applied' = applied /\ Left(r) = {}
  BY DEF Runners, Migrated
<1>2. u \in RunnerWork /\ u # NotRunning /\ Behind(r) /\ u.at \in DOMAIN u.dir \cup {0}
  BY <1>1, RunnerWorks DEF Runners, NotRunning
<1>3. Continue(r, w)
  BY DEF Migrated
<1>4. w \in RunnerWork /\ w.step = "done" /\ w.dir = u.dir /\ w.at = u.at
  BY <1>2 DEF RunnerWork
<1>5. \A v \in DOMAIN u.dir : u.dir[v] \in ContentOf(v)
  <2> TAKE v \in DOMAIN u.dir
  <2>1. v \in Nat /\ u.at \in Nat
    BY <1>2, Assumptions DEF RunnerWork
  <2>2. ~(v > u.at)
    BY <1>1 DEF Left
  <2>3. v < u.at \/ v = u.at
    BY <2>1, <2>2
  <2> QED
    BY <1>1, <1>2, <2>3 DEF Behind
<1> HIDE DEF w, u
<1>6. w \in RunnerType
  BY <1>4, RunnerWorks
<1> QED
  BY <1>1, <1>2, <1>3, <1>4, <1>5, <1>6, RunnersStep

LEMMA FailStep ==
  ASSUME Runners, NEW r \in Runner, MigrateFails(r)
  PROVE  Runners'
<1>1. NotRunning \in RunnerType /\ NotRunning.step = "rest"
  BY DEF RunnerType, NotRunning
<1> QED
  BY <1>1, RunnersStep DEF MigrateFails

\* The row of a migration is appended.
LEMMA CommitEffect ==
  ASSUME AppliedOnce, Runners, NEW r \in Runner, CommitMigration(r),
         NEW n, n = runner[r].at
  PROVE  /\ AppliedOnce'
         /\ Versions' = Versions \cup {n}
         /\ \A v : ContentOf(v) \subseteq ContentOf(v)'
         /\ runner[r].dir[n] \in ContentOf(n)'
<1> DEFINE u   == runner[r]
           row == [version |-> u.at, content |-> u.dir[u.at]]
<1>1. u.step = "inserted" /\ applied' = Append(applied, row)
  BY DEF CommitMigration
<1>2. u \in RunnerWork /\ u.at \in DOMAIN u.dir /\ u.at \notin Versions
  BY <1>1, RunnerWorks DEF Runners, NotRunning
<1>3. u.dir \in Directory /\ u.at \in Nat \ {0}
  BY <1>2, Assumptions DEF RunnerWork
<1>4. row.version = u.at /\ row.content = u.dir[u.at]
  OBVIOUS
<1>5. u.dir[u.at] \in Contents
  BY <1>2, <1>3 DEF Contents
<1>6. row \in Row
  BY <1>3, <1>5 DEF Row
<1> HIDE DEF row, u
<1>7. /\ applied' \in Seq(Row) /\ Len(applied) \in Nat /\ Len(applied') = Len(applied) + 1
      /\ \A i \in 1 .. Len(applied) : applied'[i] = applied[i]
      /\ applied'[Len(applied) + 1] = row
  BY <1>1, <1>6 DEF AppliedOnce
<1>8. /\ DOMAIN applied = 1 .. Len(applied) /\ DOMAIN applied' = 1 .. Len(applied) + 1
  BY <1>7 DEF AppliedOnce
<1>9. \A i \in 1 .. Len(applied) + 1 : i \in 1 .. Len(applied) \/ i = Len(applied) + 1
  BY <1>7
<1>10. Versions = {applied[i].version : i \in 1 .. Len(applied)}
  BY <1>8 DEF Versions
<1>11. \A i \in 1 .. Len(applied) : applied[i].version # u.at
  BY <1>2, <1>10
<1>12. \A i, j \in 1 .. Len(applied) + 1 : applied'[i].version = applied'[j].version => i = j
  BY <1>4, <1>7, <1>9, <1>11 DEF AppliedOnce
<1>13. \A i \in 1 .. Len(applied) + 1 : \E d \in Directory :
         applied'[i].version \in DOMAIN d /\ applied'[i].content = d[applied'[i].version]
  BY <1>2, <1>3, <1>4, <1>7, <1>9 DEF AppliedOnce
<1>14. AppliedOnce'
  BY <1>7, <1>12, <1>13 DEF AppliedOnce
<1>15. Versions' = Versions \cup {u.at}
  <2>1. Versions' = {applied'[i].version : i \in 1 .. Len(applied) + 1}
    BY <1>8 DEF Versions
  <2>2. Len(applied) + 1 \in 1 .. Len(applied) + 1
        /\ \A i \in 1 .. Len(applied) : i \in 1 .. Len(applied) + 1
    BY <1>7
  <2> QED
    BY <1>4, <1>7, <1>9, <1>10, <2>1, <2>2
<1>16. \A v : ContentOf(v) \subseteq ContentOf(v)'
  <2> SUFFICES ASSUME NEW v, NEW i \in 1 .. Len(applied), applied[i].version = v
               PROVE  applied[i].content \in ContentOf(v)'
    BY <1>8 DEF ContentOf
  <2>1. i \in DOMAIN applied' /\ applied'[i] = applied[i]
    BY <1>7, <1>8
  <2> QED
    BY <2>1 DEF ContentOf
<1>17. u.dir[n] \in ContentOf(n)'
  <2>0. n = u.at
    BY DEF u
  <2>1. Len(applied) + 1 \in DOMAIN applied'
    BY <1>7, <1>8
  <2> QED
    BY <1>4, <1>7, <2>0, <2>1 DEF ContentOf
<1> QED
  BY <1>14, <1>15, <1>16, <1>17 DEF u

LEMMA CommitStep ==
  ASSUME AppliedOnce, Runners, NEW r \in Runner, CommitMigration(r)
  PROVE  Runners'
<1> DEFINE u == runner[r]
           w == [u EXCEPT !.step = "check"]
<1>0. PICK n : n = u.at
  OBVIOUS
<1>1. /\ Versions' = Versions \cup {n}
      /\ \A v : ContentOf(v) \subseteq ContentOf(v)'
      /\ u.dir[n] \in ContentOf(n)'
  BY <1>0, CommitEffect
<1>2. u.step = "inserted" /\ Continue(r, w)
  BY DEF CommitMigration
<1>3. u \in RunnerWork /\ u.at \in DOMAIN u.dir /\ u # NotRunning /\ Behind(r)
  BY <1>2, RunnerWorks DEF Runners, NotRunning
<1>4. w \in RunnerWork /\ w.step = "check" /\ w.dir = u.dir /\ w.at = u.at
  BY <1>3 DEF RunnerWork
<1>5. \A v \in DOMAIN u.dir : v < u.at => u.dir[v] \in ContentOf(v)
  BY <1>3 DEF Behind
<1>6. \A q \in Runner \ {r} : runner[q].step = "inserted" => runner[q].at # u.at
  BY <1>2 DEF Runners
<1> HIDE DEF w, u
<1>7. /\ runner' \in [Runner -> RunnerType] /\ runner'[r] = w
      /\ \A q \in Runner \ {r} : runner'[q] = runner[q]
  BY <1>2, <1>4, RunnerWorks, ContinueTyped DEF Runners
<1>8. ASSUME NEW q \in Runner, runner'[q] # NotRunning
      PROVE  runner'[q].at \in DOMAIN runner'[q].dir \cup {0} /\ Behind(q)'
  <2>1. CASE q = r
    <3>1. \A v \in DOMAIN w.dir : v < w.at \/ v = w.at => w.dir[v] \in ContentOf(v)'
      BY <1>0, <1>1, <1>4, <1>5
    <3>2. Behind(q)'
      BY <1>4, <1>7, <2>1, <3>1 DEF Behind
    <3> QED
      BY <1>3, <1>4, <1>7, <2>1, <3>2
  <2>2. CASE q # r
    BY <1>1, <1>7, <1>8, <2>2, BehindStays DEF Runners
  <2> QED
    BY <2>1, <2>2
<1>9. \A q \in Runner : runner'[q].step \in {"apply", "inserted"} =>
        runner'[q].at \in DOMAIN runner'[q].dir
  BY <1>4, <1>7 DEF Runners
<1>10. \A q \in Runner : runner'[q].step = "inserted" => runner'[q].at \notin Versions'
  BY <1>0, <1>1, <1>4, <1>6, <1>7 DEF Runners
<1>11. \A p, q \in Runner :
         runner'[p].step = "inserted" /\ runner'[q].step = "inserted" /\ runner'[p].at = runner'[q].at
           => p = q
  BY <1>4, <1>7 DEF Runners
<1> QED
  BY <1>7, <1>8, <1>9, <1>10, <1>11 DEF Runners

LEMMA RunnersStand == Runners /\ applied' = applied /\ runner' = runner => Runners'
BY DEF Runners, Behind, Versions, ContentOf

\* A database that a release has migrated has a row for each of its versions.
LEMMA AppliedInit ==
  ASSUME StartupInit
  PROVE  AppliedOnce
<1>1. CASE applied = <<>>
  <2>1. Len(applied) = 0 /\ applied \in Seq(Row)
    BY <1>1, EmptySeq
  <2> QED
    BY <2>1 DEF AppliedOnce
<1>2. ASSUME NEW d \in Directory, applied \in InVersionOrder(d)
      PROVE  AppliedOnce
  <2> DEFINE n == Cardinality(DOMAIN d)
             R == {[version |-> v, content |-> d[v]] : v \in DOMAIN d}
  <2>1. n \in Nat
    BY Assumptions, FS_CardinalityType
  <2>2. applied \in [1 .. n -> R]
        /\ \A i, j \in 1 .. n : i < j => applied[i].version < applied[j].version
    BY <1>2 DEF InVersionOrder
  <2>3. \A row \in R : row \in Row /\ row.version \in DOMAIN d /\ row.content = d[row.version]
    <3> SUFFICES ASSUME NEW v \in DOMAIN d
                 PROVE  LET row == [version |-> v, content |-> d[v]]
                        IN  row \in Row /\ row.version \in DOMAIN d /\ row.content = d[row.version]
      OBVIOUS
    <3>1. v \in Nat \ {0} /\ d[v] \in Contents
      BY Assumptions DEF Contents
    <3> QED
      BY <3>1 DEF Row
  <2> HIDE DEF R, n
  <2>4. applied \in [1 .. n -> Row]
    BY <2>2, <2>3
  <2>5. applied \in Seq(Row) /\ Len(applied) = n
    BY <2>1, <2>4
  <2>6. ASSUME NEW i \in 1 .. n, NEW j \in 1 .. n, applied[i].version = applied[j].version
        PROVE  i = j
    <3>1. applied[i].version \in Nat /\ applied[j].version \in Nat
      BY <2>4 DEF Row
    <3>2. ~(i < j) /\ ~(j < i)
      BY <2>2, <2>6, <3>1
    <3> QED
      BY <2>1, <3>2
  <2> QED
    BY <2>2, <2>3, <2>5, <2>6 DEF AppliedOnce
<1> QED
  BY <1>1, <1>2 DEF StartupInit

-----------------------------------------------------------------------------
(* The seed rows *)

LEMMA ProcessFields ==
  ASSUME NEW w \in ProcessType
  PROVE  /\ w.step \in {"down", "up", "password", "seed"}
         /\ w.step = "seed" => /\ w.next \in 1 .. Len(SeedRow) + 1 /\ w.email \in Email
                               /\ w \in [step : {"seed"}, next : 1 .. Len(SeedRow) + 1, email : Email]
         /\ w.step = "up" <=> w = [step |-> "up"]
BY DEF ProcessType, Down

LEMMA AtTyped ==
  ASSUME process \in [Process -> ProcessType], NEW p \in Process, NEW w \in ProcessType, At(p, w)
  PROVE  /\ process' \in [Process -> ProcessType]
         /\ process'[p] = w
         /\ \A q \in Process \ {p} : process'[q] = process[q]
BY DEF At

\* A step of one process, with at least the rows that were there.
LEMMA ProcessesStep ==
  ASSUME Processes, NEW p \in Process, NEW w \in ProcessType, At(p, w),
         seeded \subseteq seeded', seeded' \subseteq StatementRows,
         w.step = "seed" =>
           \A i \in 1 .. Len(SeedRow) : i < w.next => SeedRow[i] \in seeded' \cup {"user"},
         w.step \in {"up", "password"} => seeded' = StatementRows
  PROVE  Processes'
<1>1. /\ process' \in [Process -> ProcessType] /\ process'[p] = w
      /\ \A q \in Process \ {p} : process'[q] = process[q]
  BY AtTyped DEF Processes
<1>2. ASSUME NEW q \in Process, process'[q].step = "seed", NEW i \in 1 .. Len(SeedRow),
             i < process'[q].next
      PROVE  SeedRow[i] \in seeded' \cup {"user"}
  BY <1>1, <1>2 DEF Processes
<1>3. ASSUME NEW q \in Process, process'[q].step \in {"up", "password"}
      PROVE  seeded' = StatementRows
  BY <1>1, <1>3 DEF Processes
<1> QED
  BY <1>1, <1>2, <1>3 DEF Processes

\* A statement that leaves its row, or is the default user's.
LEMMA StatementStep ==
  ASSUME Processes, NEW p \in Process, NEW row, Statement(p, row),
         seeded \subseteq seeded', seeded' \subseteq StatementRows, row \in seeded' \cup {"user"}
  PROVE  Processes'
<1> DEFINE u == process[p]
           w == [u EXCEPT !.next = @ + 1]
           n == u.next
<1>1. /\ u.step = "seed" /\ n <= Len(SeedRow) /\ row = SeedRow[n] /\ At(p, w)
  BY DEF Statement
<1>2. u \in ProcessType
  BY DEF Processes
<1>3. u \in [step : {"seed"}, next : 1 .. Len(SeedRow) + 1, email : Email]
  BY <1>1, <1>2, ProcessFields
<1>4. n \in Nat /\ n + 1 \in 1 .. Len(SeedRow) + 1
  BY <1>1, <1>3, Assumptions
<1>5. w \in [step : {"seed"}, next : 1 .. Len(SeedRow) + 1, email : Email] /\ w.next = n + 1
  BY <1>3, <1>4
<1>6. \A i \in 1 .. Len(SeedRow) : i < n => SeedRow[i] \in seeded \cup {"user"}
  BY <1>1 DEF Processes
<1> HIDE DEF u, w, n
<1>7. \A i \in 1 .. Len(SeedRow) : i < w.next => SeedRow[i] \in seeded' \cup {"user"}
  <2> TAKE i \in 1 .. Len(SeedRow)
  <2>1. i < w.next => i < n \/ i = n
    BY <1>4, <1>5
  <2> QED
    BY <1>1, <1>6, <2>1
<1>8. w \in ProcessType /\ w.step = "seed"
  BY <1>5 DEF ProcessType
<1> QED
  BY <1>1, <1>7, <1>8, ProcessesStep

SeedInv == Account /\ Processes

LEMMA SeedUserStep ==
  ASSUME SeedInv, NEW p \in Process, SeedUser(p)
  PROVE  SeedInv' /\ account'.credential = account.credential
<1>1. Statement(p, "user") /\ others' = others
  BY DEF SeedUser, Statement
<1>2. CASE seeded' = seeded /\ account' = account
  <2>1. Account'
    BY <1>1, <1>2 DEF SeedInv, Account
  <2>2. Processes'
    BY <1>1, <1>2, StatementStep DEF SeedInv, Account
  <2> QED
    BY <1>2, <2>1, <2>2 DEF SeedInv
<1>3. CASE /\ process[p].email \notin others /\ account.email = NoEmail
           /\ seeded' = seeded \cup {"user"}
           /\ account' = [account EXCEPT !.email = process[p].email]
  <2>1. process[p].email \in Email
    BY <1>1, ProcessFields DEF SeedInv, Processes, Statement
  <2>2. /\ account' \in [email : Email \cup {NoEmail}, role : {"none", "owner", "viewer"},
                         credential : {"none", "seeded", "chosen"}]
        /\ account'.email = process[p].email /\ account'.role = account.role
        /\ account'.credential = account.credential
    BY <1>3, <2>1 DEF SeedInv, Account
  <2>3. Account'
    BY <1>1, <1>3, <2>1, <2>2, Assumptions DEF SeedInv, Account
  <2>4. Processes'
    BY <1>1, <1>3, <2>3, StatementStep DEF SeedInv, Account
  <2> QED
    BY <2>2, <2>3, <2>4 DEF SeedInv
<1> QED
  BY <1>2, <1>3 DEF SeedUser

LEMMA SeedCredentialStep ==
  ASSUME SeedInv, NEW p \in Process, SeedCredential(p)
  PROVE  SeedInv' /\ (account.credential = "chosen" => account'.credential = "chosen")
<1> DEFINE c == SeededCredential
<1>1. /\ Statement(p, "credential") /\ others' = others /\ account.email # NoEmail
      /\ seeded' = seeded \cup {"credential"} /\ account' = [account EXCEPT !.credential = c]
  BY DEF SeedCredential, Statement
<1>2. c \in {"seeded", "chosen"} /\ (account.credential = "chosen" => c = "chosen")
  BY DEF SeededCredential, SeedInv, Account
<1> HIDE DEF c
<1>3. /\ account' \in [email : Email \cup {NoEmail}, role : {"none", "owner", "viewer"},
                       credential : {"none", "seeded", "chosen"}]
      /\ account'.email = account.email /\ account'.role = account.role /\ account'.credential = c
  BY <1>1, <1>2 DEF SeedInv, Account
<1>4. Account'
  BY <1>1, <1>2, <1>3, Assumptions DEF SeedInv, Account
<1>5. Processes'
  BY <1>1, <1>4, StatementStep DEF SeedInv, Account
<1> QED
  BY <1>2, <1>3, <1>4, <1>5 DEF SeedInv

LEMMA SeedMembershipStep ==
  ASSUME SeedInv, NEW p \in Process, SeedMembership(p)
  PROVE  SeedInv' /\ account'.credential = account.credential
<1>1. /\ Statement(p, "membership") /\ others' = others /\ account.email # NoEmail
      /\ seeded' = seeded \cup {"membership"} /\ account' = [account EXCEPT !.role = "owner"]
  BY DEF SeedMembership, Statement
<1>2. /\ account' \in [email : Email \cup {NoEmail}, role : {"none", "owner", "viewer"},
                       credential : {"none", "seeded", "chosen"}]
      /\ account'.email = account.email /\ account'.role = "owner"
      /\ account'.credential = account.credential
  BY <1>1 DEF SeedInv, Account
<1>3. Account'
  BY <1>1, <1>2, Assumptions DEF SeedInv, Account
<1>4. Processes'
  BY <1>1, <1>3, StatementStep DEF SeedInv, Account
<1> QED
  BY <1>2, <1>3, <1>4 DEF SeedInv

LEMMA SeedOtherStep ==
  ASSUME SeedInv, NEW p \in Process, SeedOther(p)
  PROVE  SeedInv' /\ account' = account
<1>1. PICK row \in StatementRows \ {"user", "credential", "membership"} :
        Statement(p, row) /\ seeded' = seeded \cup {row} /\ account' = account /\ others' = others
  BY Assumptions DEF SeedOther, Statement, StatementRows
<1>2. Account'
  BY <1>1 DEF SeedInv, Account
<1>3. Processes'
  BY <1>1, <1>2, StatementStep DEF SeedInv, Account
<1> QED
  BY <1>1, <1>2, <1>3 DEF SeedInv

LEMMA AccountStands ==
  Account /\ account' = account /\ others' = others /\ seeded' = seeded => Account'
BY DEF Account

LEMMA ProcessesStand == Processes /\ process' = process /\ seeded' = seeded => Processes'
BY DEF Processes

\* A step of one process that stores no seed row.
LEMMA PlainStep ==
  ASSUME SeedInv, NEW p \in Process, NEW w \in ProcessType, At(p, w), seeded' = seeded,
         w.step = "seed" => \A i \in 1 .. Len(SeedRow) : ~(i < w.next),
         w.step \in {"up", "password"} => seeded = StatementRows
  PROVE  Processes'
BY ProcessesStep DEF SeedInv, Account

LEMMA OpenStep ==
  ASSUME SeedInv, NEW p \in Process, NEW email \in Email, OpenWithConfig(p, email)
  PROVE  SeedInv'
<1> DEFINE w == [step |-> "seed", next |-> FirstStatement, email |-> email]
<1>1. 1 \in 1 .. Len(SeedRow) + 1 /\ FirstStatement = 1
  BY Assumptions DEF FirstStatement
<1>2. w \in ProcessType /\ w.step = "seed" /\ w.next = 1
  BY <1>1 DEF ProcessType
<1>3. At(p, w) /\ seeded' = seeded /\ account' = account /\ others' = others
  BY DEF OpenWithConfig
<1>4. \A i \in 1 .. Len(SeedRow) : ~(i < 1)
  OBVIOUS
<1> HIDE DEF w
<1> QED
  BY <1>2, <1>3, <1>4, PlainStep, AccountStands DEF SeedInv

LEMMA ServeStep ==
  ASSUME SeedInv, NEW p \in Process, Serve(p)
  PROVE  SeedInv'
<1> DEFINE w == [step |-> "up"]
<1>1. /\ At(p, w) /\ seeded' = seeded /\ account' = account /\ others' = others
      /\ process[p].step = "seed" /\ process[p].next > Len(SeedRow)
  BY DEF Serve
<1>2. w \in ProcessType /\ w.step = "up"
  BY DEF ProcessType
<1>3. StatementRows \subseteq seeded \cup {"user"}
  <2> SUFFICES ASSUME NEW i \in 1 .. Len(SeedRow)
               PROVE  SeedRow[i] \in seeded \cup {"user"}
    BY DEF StatementRows
  <2>1. process[p].next \in Nat /\ Len(SeedRow) \in Nat
    BY <1>1, ProcessFields, Assumptions DEF SeedInv, Processes
  <2>2. i < process[p].next
    BY <1>1, <2>1
  <2> QED
    BY <1>1, <2>2 DEF SeedInv, Processes
<1>4. "credential" \in seeded
  BY <1>3, Assumptions
<1>5. seeded = StatementRows
  BY <1>3, <1>4 DEF SeedInv, Account
<1> HIDE DEF w
<1> QED
  BY <1>1, <1>2, <1>5, PlainStep, AccountStands DEF SeedInv

LEMMA StopStep ==
  ASSUME SeedInv, NEW p \in Process, Stop(p)
  PROVE  SeedInv'
<1>1. Down \in ProcessType /\ Down.step = "down"
  BY DEF ProcessType, Down
<1> QED
  BY <1>1, PlainStep, AccountStands DEF SeedInv, Stop

LEMMA UpsertUserStep ==
  ASSUME SeedInv, NEW p \in Process, NEW email \in Email, NEW role \in {"owner", "viewer"},
         UpsertUser(p, email, role)
  PROVE  SeedInv' /\ account'.credential = account.credential
<1> DEFINE w == [step |-> "password"]
<1>1. process[p].step = "up" /\ seeded' = seeded /\ seeded = StatementRows
  BY DEF UpsertUser, SeedInv, Processes
<1>2. w \in ProcessType /\ w.step = "password"
  BY DEF ProcessType
<1>3. CASE email = account.email
  <2>1. /\ account' = [account EXCEPT !.role = role] /\ others' = others
        /\ At(p, w) \/ process' = process
    BY <1>3 DEF UpsertUser
  <2>2. /\ account' \in [email : Email \cup {NoEmail}, role : {"none", "owner", "viewer"},
                         credential : {"none", "seeded", "chosen"}]
        /\ account'.email = account.email /\ account'.role = role
        /\ account'.credential = account.credential
    BY <2>1 DEF SeedInv, Account
  <2>3. Account'
    BY <1>1, <2>1, <2>2 DEF SeedInv, Account
  <2> HIDE DEF w
  <2>4. Processes'
    BY <1>1, <1>2, <2>1, PlainStep, ProcessesStand DEF SeedInv
  <2> QED
    BY <2>2, <2>3, <2>4 DEF SeedInv
<1>4. CASE email # account.email
  <2>1. others' = others \cup {email} /\ account' = account /\ process' = process
    BY <1>4 DEF UpsertUser
  <2>2. Account'
    BY <1>1, <1>4, <2>1 DEF SeedInv, Account
  <2> QED
    BY <1>1, <2>1, <2>2, ProcessesStand DEF SeedInv
<1> QED
  BY <1>3, <1>4

LEMMA SetUserPasswordStep ==
  ASSUME SeedInv, NEW p \in Process, SetUserPassword(p)
  PROVE  SeedInv' /\ account'.credential = "chosen"
<1> DEFINE w == [step |-> "up"]
<1>1. /\ process[p].step = "password" /\ seeded' = seeded /\ seeded = StatementRows /\ others' = others
      /\ account' = [account EXCEPT !.credential = "chosen"] /\ At(p, w)
  BY DEF SetUserPassword, SeedInv, Processes
<1>2. w \in ProcessType /\ w.step = "up"
  BY DEF ProcessType
<1>3. /\ account' \in [email : Email \cup {NoEmail}, role : {"none", "owner", "viewer"},
                       credential : {"none", "seeded", "chosen"}]
      /\ account'.email = account.email /\ account'.role = account.role
      /\ account'.credential = "chosen"
  BY <1>1 DEF SeedInv, Account
<1>4. Account'
  BY <1>1, <1>3 DEF SeedInv, Account
<1> HIDE DEF w
<1> QED
  BY <1>1, <1>2, <1>3, <1>4, PlainStep DEF SeedInv

LEMMA UpsertExternalUserStep ==
  ASSUME SeedInv, NEW p \in Process, NEW email \in Email, UpsertExternalUser(p, email)
  PROVE  SeedInv' /\ account' = account
<1>1. /\ email \notin others \cup {account.email} /\ seeded' = seeded /\ account' = account
      /\ process' = process /\ others' \subseteq others \cup {email}
  BY DEF UpsertExternalUser
<1>2. Account'
  BY <1>1 DEF SeedInv, Account
<1> QED
  BY <1>1, <1>2, ProcessesStand DEF SeedInv

-----------------------------------------------------------------------------
(* What holds always. *)

StartupInv == AppliedOnce /\ Runners /\ SeedInv

LEMMA StartupInvInit == StartupInit => StartupInv
<1> SUFFICES ASSUME StartupInit
             PROVE  StartupInv
  OBVIOUS
<1>1. Runners
  <2>1. NotRunning \in RunnerType /\ NotRunning.step = "rest"
    BY DEF RunnerType, NotRunning
  <2>2. runner \in [Runner -> RunnerType] /\ \A r \in Runner : runner[r] = NotRunning
    BY <2>1 DEF StartupInit
  <2> QED
    BY <2>1, <2>2 DEF Runners
<1>2. Account
  <2> DEFINE a == [email |-> NoEmail, role |-> "none", credential |-> "none"]
  <2>1. /\ a \in [email : Email \cup {NoEmail}, role : {"none", "owner", "viewer"},
                  credential : {"none", "seeded", "chosen"}]
        /\ a.email = NoEmail
    OBVIOUS
  <2>2. account = a /\ others = {} /\ seeded = {}
    BY DEF StartupInit
  <2> HIDE DEF a
  <2> QED
    BY <2>1, <2>2 DEF Account
<1>3. Processes
  <2>1. Down \in ProcessType /\ Down.step = "down"
    BY DEF ProcessType, Down
  <2>2. process \in [Process -> ProcessType] /\ \A p \in Process : process[p] = Down
    BY <2>1 DEF StartupInit
  <2> QED
    BY <2>1, <2>2 DEF Processes
<1> QED
  BY <1>1, <1>2, <1>3, AppliedInit DEF StartupInv, SeedInv

LEMMA SeedStands == SeedInv /\ UNCHANGED seedVars => SeedInv'
BY AccountStands, ProcessesStand DEF SeedInv, seedVars

LEMMA MigrationsStand ==
  AppliedOnce /\ Runners /\ UNCHANGED migrationVars => AppliedOnce' /\ Runners'
BY AppliedStands, RunnersStand DEF migrationVars

Steps == StartupInv' /\ (account.credential = "chosen" => account'.credential = "chosen")

LEMMA StartupInvStep == StartupInv /\ [StartupNext]_startupVars => Steps
<1> SUFFICES ASSUME StartupInv, [StartupNext]_startupVars
             PROVE  Steps
  OBVIOUS
<1>1. ASSUME AppliedOnce', Runners', UNCHANGED seedVars
      PROVE  Steps
  BY <1>1, SeedStands DEF StartupInv, Steps, seedVars
<1>2. ASSUME SeedInv', UNCHANGED migrationVars,
             account.credential = "chosen" => account'.credential = "chosen"
      PROVE  Steps
  BY <1>2, MigrationsStand DEF StartupInv, Steps
<1>3. ASSUME NEW r \in Runner, NEW d \in Directory, Migrate(r, d)
      PROVE  Steps
  BY <1>1, <1>3, MigrateStep, AppliedStands DEF StartupInv, Migrate
<1>4. ASSUME NEW r \in Runner, MigrationApplied(r)
      PROVE  Steps
  BY <1>1, <1>4, CheckStep, AppliedStands DEF StartupInv, MigrationApplied
<1>5. ASSUME NEW r \in Runner, ApplyMigration(r)
      PROVE  Steps
  BY <1>1, <1>5, ApplyStep, AppliedStands DEF StartupInv, ApplyMigration
<1>6. ASSUME NEW r \in Runner, CommitMigration(r)
      PROVE  Steps
  <2>1. PICK n : n = runner[r].at
    OBVIOUS
  <2>2. AppliedOnce'
    BY <1>6, <2>1, CommitEffect DEF StartupInv
  <2>3. UNCHANGED seedVars
    BY <1>6 DEF CommitMigration
  <2> QED
    BY <1>1, <1>6, <2>2, <2>3, CommitStep DEF StartupInv
<1>7. ASSUME NEW r \in Runner, Migrated(r)
      PROVE  Steps
  BY <1>1, <1>7, DoneStep, AppliedStands DEF StartupInv, Migrated
<1>8. ASSUME NEW r \in Runner, MigrateFails(r)
      PROVE  Steps
  BY <1>1, <1>8, FailStep, AppliedStands DEF StartupInv, MigrateFails
<1>9. ASSUME NEW p \in Process, NEW email \in Email, OpenWithConfig(p, email)
      PROVE  Steps
  BY <1>2, <1>9, OpenStep DEF StartupInv, OpenWithConfig
<1>10. ASSUME NEW p \in Process, SeedUser(p)
       PROVE  Steps
  BY <1>2, <1>10, SeedUserStep DEF StartupInv, SeedUser, Statement
<1>11. ASSUME NEW p \in Process, SeedCredential(p)
       PROVE  Steps
  BY <1>2, <1>11, SeedCredentialStep DEF StartupInv, SeedCredential, Statement
<1>12. ASSUME NEW p \in Process, SeedMembership(p)
       PROVE  Steps
  BY <1>2, <1>12, SeedMembershipStep DEF StartupInv, SeedMembership, Statement
<1>13. ASSUME NEW p \in Process, SeedOther(p)
       PROVE  Steps
  BY <1>2, <1>13, SeedOtherStep DEF StartupInv, SeedOther, Statement
<1>14. ASSUME NEW p \in Process, Serve(p)
       PROVE  Steps
  BY <1>2, <1>14, ServeStep DEF StartupInv, Serve
<1>15. ASSUME NEW p \in Process, Stop(p)
       PROVE  Steps
  BY <1>2, <1>15, StopStep DEF StartupInv, Stop
<1>16. ASSUME NEW p \in Process, NEW email \in Email, NEW role \in {"owner", "viewer"},
              UpsertUser(p, email, role)
       PROVE  Steps
  BY <1>2, <1>16, UpsertUserStep DEF StartupInv, UpsertUser
<1>17. ASSUME NEW p \in Process, SetUserPassword(p)
       PROVE  Steps
  BY <1>2, <1>17, SetUserPasswordStep DEF StartupInv, SetUserPassword
<1>18. ASSUME NEW p \in Process, NEW email \in Email, UpsertExternalUser(p, email)
       PROVE  Steps
  BY <1>2, <1>18, UpsertExternalUserStep DEF StartupInv, UpsertExternalUser
<1>19. CASE UNCHANGED startupVars
  <2>1. UNCHANGED migrationVars /\ UNCHANGED seedVars
    BY <1>19 DEF startupVars
  <2> QED
    BY <1>1, <2>1, MigrationsStand DEF StartupInv
<1> QED
  BY <1>3, <1>4, <1>5, <1>6, <1>7, <1>8, <1>9, <1>10, <1>11, <1>12, <1>13, <1>14, <1>15, <1>16,
     <1>17, <1>18, <1>19 DEF StartupNext

LEMMA StartupInvAlways == StartupSpec => []StartupInv
<1>1. StartupInv /\ [StartupNext]_startupVars => StartupInv'
  BY StartupInvStep DEF Steps
<1> QED
  BY <1>1, StartupInvInit, PTL DEF StartupSpec

\* The tables hold rows of their kinds, each runner is between two versions and
\* each process at a statement or a request.
THEOREM StartupTypes == StartupSpec => []StartupTypeOK
<1>1. StartupInv => StartupTypeOK
  <2> SUFFICES ASSUME StartupInv
               PROVE  StartupTypeOK
    OBVIOUS
  <2>1. \A i \in DOMAIN applied : \E d \in Directory :
          applied[i].version \in DOMAIN d /\ applied[i].content = d[applied[i].version]
    BY DEF StartupInv, AppliedOnce
  <2>2. \A r \in Runner :
          \/ runner[r] = NotRunning
          \/ /\ runner[r].step \in {"check", "apply", "inserted", "done"}
             /\ runner[r].dir \in Directory
             /\ runner[r].at \in DOMAIN runner[r].dir \cup {0}
    BY RunnerFields DEF StartupInv, Runners
  <2>3. seeded \subseteq {SeedRow[i] : i \in DOMAIN SeedRow}
    BY Assumptions DEF StartupInv, SeedInv, Account, StatementRows
  <2>4. /\ account \in [email : Email \cup {NoEmail}, role : {"none", "owner", "viewer"},
                         credential : {"none", "seeded", "chosen"}]
        /\ others \subseteq Email \ {account.email}
    BY DEF StartupInv, SeedInv, Account
  <2>5. process \in [Process -> {Down, [step |-> "up"], [step |-> "password"]} \cup
                   [step : {"seed"}, next : 1 .. Len(SeedRow) + 1, email : Email]]
    BY DEF StartupInv, SeedInv, Processes, ProcessType
  <2> QED
    BY <2>1, <2>2, <2>3, <2>4, <2>5 DEF StartupTypeOK
<1> QED
  BY <1>1, StartupInvAlways, PTL

\* No migration is applied twice, whoever has looked for its row before.
THEOREM MigrationsAreAppliedOnce == StartupSpec => []MigrationsRunOnce
<1>1. StartupInv => MigrationsRunOnce
  <2> SUFFICES ASSUME StartupInv
               PROVE  Cardinality(Versions) = Len(applied)
    BY DEF MigrationsRunOnce
  <2> DEFINE n == Len(applied)
             f == [i \in 1 .. n |-> applied[i].version]
  <2>1. n \in Nat /\ DOMAIN applied = 1 .. n
    BY DEF StartupInv, AppliedOnce
  <2>2. Versions = {applied[i].version : i \in 1 .. n}
    BY <2>1 DEF Versions
  <2>3. \A i, j \in 1 .. n : applied[i].version = applied[j].version => i = j
    BY DEF StartupInv, AppliedOnce
  <2> HIDE DEF n
  <2>4. f \in Bijection(1 .. n, Versions)
    BY <2>2, <2>3 DEF Bijection, Injection, Surjection, IsInjective
  <2>5. ExistsBijection(1 .. n, Versions)
    BY <2>4 DEF ExistsBijection
  <2>6. IsFiniteSet(1 .. n) /\ Cardinality(1 .. n) = n
    BY <2>1, FS_Interval
  <2>7. Cardinality(Versions) = n
    BY <2>5, <2>6, FS_Bijection
  <2> QED
    BY <2>7 DEF n
<1> QED
  BY <1>1, StartupInvAlways, PTL

\* A runner that has ended well has left every migration of its directory.
THEOREM MigrationsAreComplete == StartupSpec => []MigratedMeansApplied
<1>1. StartupInv => MigratedMeansApplied
  BY RunnerFields DEF StartupInv, Runners, Behind, MigratedMeansApplied, NotRunning
<1> QED
  BY <1>1, StartupInvAlways, PTL

\* A process that serves has a database with all its seed rows and a default
\* user who can log in.
THEOREM ServingMeansSeeded == StartupSpec => []ServingIsSeeded
<1>1. StartupInv => ServingIsSeeded
  <2> SUFFICES ASSUME StartupInv, NEW p \in Process, process[p].step \in {"up", "password"}
               PROVE  /\ seeded = {SeedRow[i] : i \in DOMAIN SeedRow}
                      /\ account.email # NoEmail /\ account.role # "none"
                      /\ account.credential # "none"
    BY DEF ServingIsSeeded
  <2>1. seeded = StatementRows
    BY DEF StartupInv, SeedInv, Processes
  <2>2. seeded = {SeedRow[i] : i \in DOMAIN SeedRow}
    BY <2>1, Assumptions DEF StatementRows
  <2> QED
    BY <2>1, <2>2, Assumptions DEF StartupInv, SeedInv, Account
<1> QED
  BY <1>1, StartupInvAlways, PTL

\* No start replaces the password an administrator has chosen.
THEOREM ChosenPasswordsStay == StartupSpec => PasswordStays
<1>1. StartupInv /\ [StartupNext]_startupVars =>
        (account.credential = "chosen" => account'.credential = "chosen")
  BY StartupInvStep DEF Steps
<1> QED
  BY <1>1, StartupInvAlways, PTL DEF StartupSpec, PasswordStays

-----------------------------------------------------------------------------
(* The four services together. *)

\* Each service begins in one of its own initial states.
LEMMA ServicesBegin == ServicesInit => Init /\ AuditInit /\ RunEventsInit /\ StartupInit
BY DEF ServicesInit

\* A step of one service leaves the others where they are.
LEMMA ServicesWork ==
  [ServicesNext]_servicesVars =>
    /\ [Next]_vars
    /\ [AuditNext]_auditVars
    /\ [RunEventsNext]_runEventVars
    /\ [StartupNext]_startupVars
<1> SUFFICES ASSUME [ServicesNext]_servicesVars
             PROVE  /\ [Next]_vars
                    /\ [AuditNext]_auditVars
                    /\ [RunEventsNext]_runEventVars
                    /\ [StartupNext]_startupVars
  OBVIOUS
<1>1. CASE UNCHANGED servicesVars
  BY <1>1 DEF servicesVars
<1>2. CASE Next /\ UNCHANGED <<part, auditVars, runEventVars, startupVars>>
  BY <1>2
<1>3. CASE AuditNext /\ UNCHANGED <<part, vars, runEventVars, startupVars>>
  BY <1>3
<1>4. CASE RunEventsNext /\ UNCHANGED <<part, vars, auditVars, startupVars>>
  BY <1>4
<1>5. CASE StartupNext /\ UNCHANGED <<part, vars, auditVars, runEventVars>>
  BY <1>5
<1> QED
  BY <1>1, <1>2, <1>3, <1>4, <1>5 DEF ServicesNext

\* A behaviour of the four services is a behaviour of each, so that whatever is
\* proved of one by itself holds where a run checks them together.
THEOREM ServicesAreEach == ServicesSpec => Spec /\ AuditSpec /\ RunEventsSpec /\ StartupSpec
BY ServicesBegin, ServicesWork, PTL DEF ServicesSpec, Spec, AuditSpec, RunEventsSpec, StartupSpec

\* The variables of the four services keep their types.
THEOREM ServicesTypes == ServicesSpec => []ServicesTypeOK
<1>1. TypeOK /\ AuditTypeOK /\ StartupTypeOK => ServicesTypeOK
  BY DEF ServicesTypeOK
<1> QED
  BY <1>1, ServicesAreEach, TypesHold, AuditTypes, StartupTypes, PTL

\* What the four services promise, each for its own callers and under the
\* conditions its properties state, holds of them together: of logins and
\* revocations (outside the leeway), of the audit log and its shipments (while rows
\* are stamped in the order they are recorded in), of the events of a run, and of
\* starts on a database.
THEOREM ServicesKeepTheirPromises ==
  ServicesSpec =>
    /\ [](OneSessionPerLogin /\ RevokedIsRefused /\ SessionsEndWithTheirToken)
    /\ [](HonestChainVerifies /\ ChangesAreFound /\ ReceiptVouches /\ OneShipment)
    /\ [](RunEventsTypeOK /\ StatusIsTold /\ StreamMissesNothing)
    /\ [](MigrationsRunOnce /\ MigratedMeansApplied /\ ServingIsSeeded)
    /\ NeverUsableAgain /\ PasswordStays
<1>1. Spec => [](OneSessionPerLogin /\ RevokedIsRefused /\ SessionsEndWithTheirToken)
  BY LoginsAreUsedOnce, RevokedAreRefused, SessionsDieWithTheirToken, PTL
<1>2. AuditSpec => [](HonestChainVerifies /\ ChangesAreFound /\ ReceiptVouches /\ OneShipment)
  BY HonestVerified, ChangesFound, ReceiptsVouch, OneShipmentOnly, PTL
<1>3. RunEventsSpec => [](RunEventsTypeOK /\ StatusIsTold /\ StreamMissesNothing)
  BY EventsAreNumbered, EventsTellTheStatus, StreamsAreComplete, PTL
<1>4. StartupSpec => [](MigrationsRunOnce /\ MigratedMeansApplied /\ ServingIsSeeded)
  BY MigrationsAreAppliedOnce, MigrationsAreComplete, ServingMeansSeeded, PTL
<1> QED
  BY <1>1, <1>2, <1>3, <1>4, ServicesAreEach, EndedStaysEnded, ChosenPasswordsStay
=============================================================================
