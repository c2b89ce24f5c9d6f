----------------------------- MODULE Migrations -----------------------------
(***************************************************************************)
(* The upgrade that partitions two tables (migrations 0011 and 0012) while *)
(* workers write, and the script that adds a partition for each month.     *)
(* The upgrade is one transaction.  Statements take the locks PostgreSQL   *)
(* gives them, on the tables both sides write, and keep them until their   *)
(* transaction ends; of a cycle of waiting transactions one is aborted.    *)
(* The rows of one transaction are told apart only by who wrote them.      *)
(* Rows of core.jobs are written by nothing under src/omnivore: their      *)
(* writers are external.                                                   *)
(***************************************************************************)
EXTENDS Integers, FiniteSets, Sequences

CONSTANTS
  Calendar,        \* the months something happens in, as <<year, month>>
  FirstPartition,  \* the month of core.jobs_2026_06
  Writers,         \* transactions that write chunks or jobs
  Runs,            \* runs of the script
  Inputs,          \* what may be asked: the tables each writer writes, in order, the
                   \* arguments of each run, a month or None and --dry-run, and whether
                   \* row level security spares the role of the upgrade
  None

Tables == {"documents", "chunks", "entities", "jobs"}
Months == Int \X Int             \* what may be asked for
ValidMonths == Int \X (1 .. 12)  \* and what a clock shows

ASSUME MigrationsAssumption ==
  /\ Calendar \in Seq(ValidMonths) /\ Calendar # << >> /\ FirstPartition \in ValidMonths
  /\ None \notin Months
  /\ Inputs \subseteq [order : [Writers -> Seq(Tables)], exempt : BOOLEAN,
                      call : [Runs -> [month : Months \cup {None}, dry : BOOLEAN]]]
  /\ \A i \in Inputs, w \in Writers :
       \E k \in DOMAIN i.order[w] : i.order[w][k] \in {"chunks", "jobs"}

VARIABLES
  order, call,
  clock,       \* the current month, an index of Calendar
  exempt,      \* row level security does not hold for the role
  upgrade,     \* how the upgrade stands
  step,        \* locks it has
  backup,      \* writers whose rows are in its backups
  writing,     \* how each writer stands
  written,     \* tables it has written
  created,     \* created_at of its row of jobs
  late,        \* it committed what the upgrade had copied before
  live,        \* committed writers whose rows are in the live tables
  place,       \* the partition a row of jobs is in, None for jobs_default
  partitions,
  running,     \* how each run of the script stands
  target,      \* the month it computed
  asked        \* and, given none, the month it began in

upgradeVars == <<upgrade, step, backup>>
writerVars == <<writing, written, created, late, live, place>>
scriptVars == <<running, target, asked>>
inputs == <<order, call, exempt>>
vars == <<inputs, clock, upgradeVars, writerVars, partitions, scriptVars>>

Now == Calendar[clock]

Before(a, b) == a[1] < b[1] \/ (a[1] = b[1] /\ a[2] < b[2])

\* Mutant: the year does not turn.
SameYear(m) == <<m[1], (m[2] % 12) + 1>>

NextMonth(m) == IF m[2] = 12 THEN <<m[1] + 1, 1>> ELSE <<m[1], m[2] + 1>>

\* parse_year_month
Parses(m) == m[2] \in 1 .. 12 /\ m[1] \in 2000 .. 2100

\* build_sql: the name, and the first days of the month and of the one after.
PartitionOf(m) == [name |-> m, from |-> m, to |-> NextMonth(m)]

Holding(p, m) == ~Before(m, p.from) /\ Before(m, p.to)
Overlaps(p, q) == Before(p.from, q.to) /\ Before(q.from, p.to)

\* The name of the partition of jobs that a row of month m goes to.
Placed(parts, m) ==
  IF \E p \in parts : Holding(p, m) THEN (CHOOSE p \in parts : Holding(p, m)).name ELSE None

Lock(table, mode) == [table |-> table, mode |-> mode]

\* The locks of the upgrade: 0011 copies chunks, drops the foreign key of
\* entities, drops chunks, and creates it with one to documents; then 0012.
UpgradeLocks ==
  <<Lock("chunks", "read"), Lock("entities", "all"), Lock("chunks", "all"),
    Lock("documents", "share"), Lock("jobs", "read"), Lock("jobs", "all")>>

Writes(w, table) == \E i \in DOMAIN order[w] : order[w][i] = table
Holds(w, table) == writing[w] = "open" /\ \E i \in 1 .. written[w] : order[w][i] = table

UpgradeKeepsOut(table) ==
  upgrade = "runs"
    /\ \E i \in 1 .. step : UpgradeLocks[i].table = table /\ UpgradeLocks[i].mode # "read"

Copied(table) ==
  upgrade = "runs"
    /\ \E i \in 1 .. step : UpgradeLocks[i].table = table /\ UpgradeLocks[i].mode = "read"

\* Mutant: the tables are replaced without a lock.
LocksNothing(lock) == lock = lock

UpgradeMayLock(lock) == lock.mode = "read" \/ \A w \in Writers : ~Holds(w, lock.table)

MigrationsTypeOK ==
  /\ [order |-> order, call |-> call, exempt |-> exempt] \in Inputs
  /\ clock \in DOMAIN Calendar
  /\ upgrade \in {"runs", "done", "failed"} /\ step \in 0 .. Len(UpgradeLocks)
  /\ backup \subseteq Writers /\ live \subseteq Writers
  /\ writing \in [Writers -> {"new", "open", "done", "failed"}]
  /\ \A w \in Writers : written[w] \in 0 .. Len(order[w])
  /\ \A w \in Writers, t \in Tables : ~(Holds(w, t) /\ UpgradeKeepsOut(t))
  /\ running \in [Runs -> {"start", "check", "create", "zero", "one"}]
  /\ \A p, q \in partitions : Overlaps(p, q) => p = q

Init ==
  /\ \E i \in Inputs : order = i.order /\ call = i.call /\ exempt = i.exempt
  /\ clock = 1
  /\ upgrade = "runs" /\ step = 0 /\ backup = {}
  /\ writing = [w \in Writers |-> "new"] /\ written = [w \in Writers |-> 0]
  /\ created = [w \in Writers |-> None] /\ late = [w \in Writers |-> FALSE]
  /\ live = {} /\ place = [w \in Writers |-> None]
  /\ partitions = {}
  /\ running = [r \in Runs |-> "start"]
  /\ target = [r \in Runs |-> None] /\ asked = [r \in Runs |-> None]

Tick ==
  /\ clock < Len(Calendar)
  /\ clock' = clock + 1
  /\ UNCHANGED <<inputs, upgradeVars, writerVars, partitions, scriptVars>>
-----------------------------------------------------------------------------
(* Writers. *)

Begin(w) ==
  /\ writing[w] = "new"
  /\ writing' = [writing EXCEPT ![w] = "open"]
  /\ created' = [created EXCEPT ![w] = IF Writes(w, "jobs") THEN Now ELSE None]
  /\ UNCHANGED <<inputs, clock, upgradeVars, written, late, live, place, partitions, scriptVars>>

\* The unit of work writes the next table, when the upgrade lets it.
Write(w) ==
  /\ writing[w] = "open" /\ written[w] < Len(order[w])
  /\ LET table == order[w][written[w] + 1] IN
     /\ ~UpgradeKeepsOut(table)
     /\ place' = IF table = "jobs" THEN [place EXCEPT ![w] = Placed(partitions, created[w])] ELSE place
  /\ written' = [written EXCEPT ![w] = @ + 1]
  /\ UNCHANGED <<inputs, clock, upgradeVars, writing, created, late, live, partitions, scriptVars>>

Commit(w) ==
  /\ writing[w] = "open" /\ written[w] = Len(order[w])
  /\ writing' = [writing EXCEPT ![w] = "done"]
  /\ late' = [late EXCEPT ![w] = \E t \in Tables : Writes(w, t) /\ Copied(t)]
  /\ live' = live \cup {w}
  /\ UNCHANGED <<inputs, clock, upgradeVars, written, created, place, partitions, scriptVars>>
-----------------------------------------------------------------------------
(* The upgrade. *)

\* What CREATE TABLE ... AS SELECT finds: of chunks the rows the policy lets the
\* role see, none without a tenant set; core.jobs has no policy.
Found(table) == IF table = "chunks" /\ ~exempt THEN {} ELSE {w \in live : Writes(w, table)}

Advance ==
  /\ upgrade = "runs" /\ step < Len(UpgradeLocks)
  /\ LET lock == UpgradeLocks[step + 1] IN
     /\ UpgradeMayLock(lock)
     /\ backup' = IF lock.mode = "read" THEN backup \cup Found(lock.table) ELSE backup
  /\ step' = step + 1
  /\ UNCHANGED <<inputs, clock, upgrade, writerVars, partitions, scriptVars>>

\* jobs_2026_06, the only partition besides jobs_default.
FirstPartitions == {PartitionOf(FirstPartition)}

\* The rows of jobs are put back from their backup, into these partitions.
PlacedBack ==
  [w \in Writers |-> IF w \in backup /\ Writes(w, "jobs")
                     THEN Placed(FirstPartitions, created[w]) ELSE place[w]]

\* The tables are as they were copied.
Finish ==
  /\ upgrade = "runs" /\ step = Len(UpgradeLocks)
  /\ upgrade' = "done" /\ step' = 0 /\ backup' = {}
  /\ live' = backup
  /\ partitions' = FirstPartitions
  /\ place' = PlacedBack
  /\ UNCHANGED <<inputs, clock, writing, written, created, late, scriptVars>>

\* Mutant: what has been dropped and not copied yet is lost by an error.
FailsDropped ==
  /\ upgrade = "runs"
  /\ upgrade' = "failed" /\ step' = 0 /\ backup' = {}
  /\ live' = IF step >= 3 THEN {w \in live : ~Writes(w, "chunks")} ELSE live
  /\ UNCHANGED <<inputs, clock, writing, written, created, late, place, partitions, scriptVars>>

\* An error, whichever migration it is in, rolls all of them back.
Fail ==
  /\ upgrade = "runs"
  /\ upgrade' = "failed" /\ step' = 0 /\ backup' = {}
  /\ UNCHANGED <<inputs, clock, writerVars, partitions, scriptVars>>

\* The upgrade and w wait for one another.
Deadlocked(w) ==
  /\ upgrade = "runs" /\ step < Len(UpgradeLocks)
  /\ UpgradeLocks[step + 1].mode # "read" /\ Holds(w, UpgradeLocks[step + 1].table)
  /\ written[w] < Len(order[w]) /\ UpgradeKeepsOut(order[w][written[w] + 1])

\* PostgreSQL aborts one of them; when it is the upgrade, that is Fail.
Abort(w) ==
  /\ Deadlocked(w)
  /\ writing' = [writing EXCEPT ![w] = "failed"]
  /\ UNCHANGED <<inputs, clock, upgradeVars, written, created, late, live, place, partitions, scriptVars>>
-----------------------------------------------------------------------------
(* The script. *)

Moves(r, to) == running' = [running EXCEPT ![r] = to]

\* The month given, or the one after today's.
Aim(r) == IF call[r].month = None THEN NextMonth(Now) ELSE call[r].month

Start(r) ==
  /\ running[r] = "start"
  /\ target' = [target EXCEPT ![r] = Aim(r)]
  /\ asked' = [asked EXCEPT ![r] = IF call[r].month = None THEN Now ELSE None]
  /\ Moves(r, IF ~Parses(Aim(r)) THEN "one" ELSE IF call[r].dry THEN "zero" ELSE "check")
  /\ UNCHANGED <<inputs, clock, upgradeVars, writerVars, partitions>>

Named(m) == \E p \in partitions : p.name = m

CheckExists(r) ==
  /\ running[r] = "check"
  /\ Moves(r, IF Named(target[r]) THEN "zero" ELSE "create")
  /\ UNCHANGED <<inputs, clock, upgradeVars, writerVars, partitions, target, asked>>

\* No connection, or an error of either statement.
RunFails(r) ==
  /\ running[r] \in {"check", "create"}
  /\ Moves(r, "one")
  /\ UNCHANGED <<inputs, clock, upgradeVars, writerVars, partitions, target, asked>>

\* CREATE ... PARTITION OF raises for a table that is not partitioned, for a range
\* that overlaps another, and for one jobs_default has rows of.
Refused(m) ==
  \/ upgrade # "done"
  \/ \E p \in partitions : Overlaps(p, PartitionOf(m))
  \/ \E w \in live : Writes(w, "jobs") /\ place[w] = None /\ Holding(PartitionOf(m), created[w])

\* The statement needs jobs to itself.
JobsFree == (\A w \in Writers : ~Holds(w, "jobs")) /\ ~(upgrade = "runs" /\ step >= 5)

\* Mutant: a run that is refused tries again until it is not.
CreateOrWait(r) ==
  /\ running[r] = "create" /\ JobsFree /\ (Named(target[r]) \/ ~Refused(target[r]))
  /\ partitions' = IF Named(target[r]) THEN partitions ELSE partitions \cup {PartitionOf(target[r])}
  /\ Moves(r, "zero")
  /\ UNCHANGED <<inputs, clock, upgradeVars, writerVars, target, asked>>

\* IF NOT EXISTS, since another run may have come between the check and this.
Create(r) ==
  /\ running[r] = "create" /\ JobsFree
  /\ IF Named(target[r]) \/ ~Refused(target[r])
     THEN /\ partitions' = IF Named(target[r]) THEN partitions ELSE partitions \cup {PartitionOf(target[r])}
          /\ Moves(r, "zero")
     ELSE Moves(r, "one") /\ UNCHANGED partitions
  /\ UNCHANGED <<inputs, clock, upgradeVars, writerVars, target, asked>>

Upgrading == Advance \/ Finish
Writing(w) == Begin(w) \/ Write(w) \/ Commit(w)
Running(r) == Start(r) \/ CheckExists(r) \/ Create(r)

Next ==
  \/ Tick \/ Upgrading \/ Fail
  \/ \E w \in Writers : Writing(w) \/ Abort(w)
  \/ \E r \in Runs : Running(r) \/ RunFails(r)

Spec == Init /\ [][Next]_vars

\* A session that does not wait goes on; PostgreSQL looks for deadlocks.
FairSpec ==
  /\ Spec /\ WF_vars(Upgrading)
  /\ \A w \in Writers : WF_vars(Writing(w)) /\ WF_vars(Abort(w))
  /\ \A r \in Runs : WF_vars(Running(r))
-----------------------------------------------------------------------------
\* Safety of the upgrade: rows that were committed stay in their tables, however
\* it ends, except those committed after the backup was taken and before the
\* table was locked, and, for a role under row level security, the chunks.
KeptUnlessBetween ==
  \A w \in Writers : writing[w] = "done" =>
    \/ w \in live
    \/ upgrade = "done" /\ (late[w] \/ (~exempt /\ Writes(w, "chunks")))

Number(m) == 12 * m[1] + m[2]

\* The month a run is for: the one it is given, else the one after it began.
IsFor(r, m) ==
  IF call[r].month = None THEN Number(m) = Number(asked[r]) + 1 ELSE m = call[r].month

\* Safety of the script: after a run for a month has said it succeeded, no row of
\* that month is in jobs_default, however runs, writers and the turn of the month
\* or of the year interleave.
MonthCovered ==
  \A r \in Runs, w \in live :
    running[r] = "zero" /\ ~call[r].dry /\ Writes(w, "jobs") /\ IsFor(r, created[w])
      => place[w] # None

\* Liveness: the upgrade, the writers and the runs end, deadlocks included.
AllEnd ==
  <>(/\ upgrade # "runs" /\ \A w \in Writers : writing[w] \in {"done", "failed"}
     /\ \A r \in Runs : running[r] \in {"zero", "one"})
=============================================================================
