-------------------------- MODULE MigrationsProofs --------------------------
(***************************************************************************)
(* The upgrade and the monthly script, for every number of writers and     *)
(* runs and every calendar.  What is committed stays because a writer that *)
(* commits is either found by a copy that is still to be taken or marked   *)
(* late (Backed); what is in jobs_default stays out of the way of a new    *)
(* partition because nobody may be writing jobs when one is made (Apart).  *)
(***************************************************************************)
EXTENDS Migrations, SequenceTheorems, TLAPS

\* How a writer's row stands: it is there, or being written.
HasJob(w) == Writes(w, "jobs") /\ (w \in live \/ Holds(w, "jobs"))

MigrationsTypes ==
  /\ [order |-> order, call |-> call, exempt |-> exempt] \in Inputs
  /\ clock \in DOMAIN Calendar
  /\ upgrade \in {"runs", "done", "failed"} /\ step \in 0 .. 6
  /\ backup \subseteq Writers /\ live \subseteq Writers
  /\ writing \in [Writers -> {"new", "open", "done", "failed"}]
  /\ written \in [Writers -> Nat] /\ \A w \in Writers : written[w] <= Len(order[w])
  /\ late \in [Writers -> BOOLEAN]
  /\ created \in [Writers -> ValidMonths \cup {None}]
  /\ place \in [Writers -> ValidMonths \cup {None}]
  /\ running \in [Runs -> {"start", "check", "create", "zero", "one"}]
  /\ target \in [Runs -> Months \cup {None}] /\ asked \in [Runs -> ValidMonths \cup {None}]

\* Locks that exclude one another are not held at once; who has not begun has none.
Exclusion ==
  /\ \A w \in Writers, t \in Tables : ~(Holds(w, t) /\ UpgradeKeepsOut(t))
  /\ \A w \in Writers : writing[w] = "new" => written[w] = 0

\* Committed rows are in the tables or, once these are copied, in the copy.
Backed ==
  /\ \A w \in Writers : Writes(w, "chunks") \/ Writes(w, "jobs")
  /\ live \cup backup \subseteq {w \in Writers : writing[w] = "done"}
  /\ upgrade # "done" => {w \in Writers : writing[w] = "done"} \subseteq live
  /\ \A w \in Writers, t \in {"chunks", "jobs"} :
       writing[w] = "done" /\ Writes(w, t) /\ Copied(t)
         => w \in backup \/ late[w] \/ (t = "chunks" /\ ~exempt)
  /\ KeptUnlessBetween

\* A row of jobs has a month, and is in jobs_default only if no partition holds it.
Apart ==
  /\ \A w \in Writers : writing[w] # "new" /\ Writes(w, "jobs") => created[w] \in ValidMonths
  /\ \A w \in Writers : HasJob(w) /\ place[w] = None =>
       \A p \in partitions : ~Holding(p, created[w])

\* Partitions are whole months, one for each, and there are none before the upgrade.
Parted ==
  /\ \A p \in partitions : p.name \in ValidMonths /\ p = PartitionOf(p.name)
  /\ \A p, q \in partitions : Overlaps(p, q) => p = q
  /\ upgrade # "done" => partitions = {}

\* A run aims at its month, and a month it reports has its partition.
Aims ==
  \A r \in Runs :
    /\ running[r] # "start" =>
         IF call[r].month = None
         THEN asked[r] \in ValidMonths /\ target[r] = NextMonth(asked[r])
         ELSE target[r] = call[r].month
    /\ running[r] \in {"check", "create"} => Parses(target[r]) /\ target[r] \in Months
    /\ running[r] = "zero" /\ ~call[r].dry => Named(target[r])

MigrationsInv == MigrationsTypes /\ Exclusion /\ Backed /\ Apart /\ Parted /\ Aims

-----------------------------------------------------------------------------
(* Months, and the locks of the upgrade one after the other. *)

LEMMA MonthFacts ==
  ASSUME NEW m \in ValidMonths
  PROVE  /\ m \in Months /\ m # None /\ m[1] \in Int /\ m[2] \in 1 .. 12 /\ m = <<m[1], m[2]>>
         /\ NextMonth(m) \in ValidMonths
         /\ Holding(PartitionOf(m), m)
         /\ \A k \in ValidMonths : Number(k) = Number(m) + 1 => k = NextMonth(m)
<1>1. m[1] \in Int /\ m[2] \in 1 .. 12 /\ m = <<m[1], m[2]>> /\ m \in Months
  BY DEF ValidMonths, Months
<1>2. m # None
  BY <1>1, MigrationsAssumption
<1>3. NextMonth(m) \in ValidMonths
  BY <1>1 DEF NextMonth, ValidMonths
<1>4. Holding(PartitionOf(m), m)
  BY <1>1 DEF Holding, PartitionOf, Before, NextMonth
<1>5. ASSUME NEW k \in ValidMonths, Number(k) = Number(m) + 1
      PROVE  k = NextMonth(m)
  <2>1. k[1] \in Int /\ k[2] \in 1 .. 12 /\ k = <<k[1], k[2]>>
    BY DEF ValidMonths
  <2>2. 12 * k[1] + k[2] = 12 * m[1] + m[2] + 1
    BY <1>5 DEF Number
  <2>3. CASE m[2] = 12
    <3>1. 12 * (k[1] - m[1] - 1) = 1 - k[2]
      BY <1>1, <2>1, <2>2, <2>3
    <3>2. k[1] = m[1] + 1 /\ k[2] = 1
      BY <1>1, <2>1, <3>1
    <3> QED
      BY <2>1, <2>3, <3>2 DEF NextMonth
  <2>4. CASE m[2] # 12
    <3>1. 12 * (k[1] - m[1]) = m[2] + 1 - k[2]
      BY <1>1, <2>1, <2>2, <2>4
    <3>2. k[1] = m[1] /\ k[2] = m[2] + 1
      BY <1>1, <2>1, <2>4, <3>1
    <3> QED
      BY <2>1, <2>4, <3>2 DEF NextMonth
  <2> QED
    BY <2>3, <2>4
<1> QED
  BY <1>1, <1>2, <1>3, <1>4, <1>5

\* A row goes to jobs_default only when no partition holds its month.
LEMMA PlacedFacts ==
  ASSUME NEW parts, NEW m, \A p \in parts : p.name \in ValidMonths
  PROVE  /\ Placed(parts, m) \in ValidMonths \cup {None}
         /\ Placed(parts, m) = None => \A p \in parts : ~Holding(p, m)
<1>1. CASE \E p \in parts : Holding(p, m)
  <2>1. (CHOOSE p \in parts : Holding(p, m)) \in parts
    BY <1>1
  <2>2. Placed(parts, m) \in ValidMonths
    BY <1>1, <2>1 DEF Placed
  <2> QED
    BY <2>2, MonthFacts
<1>2. CASE ~\E p \in parts : Holding(p, m)
  BY <1>2 DEF Placed
<1> QED
  BY <1>1, <1>2

KeptOutAt(n, t) == \E i \in 1 .. n : UpgradeLocks[i].table = t /\ UpgradeLocks[i].mode # "read"
CopiedAt(n, t) == \E i \in 1 .. n : UpgradeLocks[i].table = t /\ UpgradeLocks[i].mode = "read"

LEMMA LockFacts ==
  /\ Len(UpgradeLocks) = 6
  /\ \A i \in 1 .. 6 : UpgradeLocks[i].table \in Tables
  /\ \A i \in 1 .. 6 : UpgradeLocks[i].mode = "read" <=> i \in {1, 5}
  /\ UpgradeLocks[1].table = "chunks" /\ UpgradeLocks[5].table = "jobs"
  /\ KeptOutAt(6, "jobs") /\ CopiedAt(6, "chunks") /\ CopiedAt(6, "jobs")
<1>1. /\ Len(UpgradeLocks) = 6
      /\ UpgradeLocks[1] = Lock("chunks", "read") /\ UpgradeLocks[2] = Lock("entities", "all")
      /\ UpgradeLocks[3] = Lock("chunks", "all") /\ UpgradeLocks[4] = Lock("documents", "share")
      /\ UpgradeLocks[5] = Lock("jobs", "read") /\ UpgradeLocks[6] = Lock("jobs", "all")
  BY DEF UpgradeLocks
<1>2. \A i \in 1 .. 6 : i = 1 \/ i = 2 \/ i = 3 \/ i = 4 \/ i = 5 \/ i = 6
  OBVIOUS
<1>3. KeptOutAt(6, "jobs") /\ CopiedAt(6, "chunks") /\ CopiedAt(6, "jobs")
  BY <1>1 DEF KeptOutAt, CopiedAt, Lock
<1> QED
  BY <1>1, <1>2, <1>3 DEF Lock, Tables

\* What one more lock adds.
LEMMA LockAdds ==
  ASSUME NEW n \in 0 .. 5, NEW t
  PROVE  /\ KeptOutAt(n + 1, t) <=>
              KeptOutAt(n, t) \/ (UpgradeLocks[n + 1].table = t /\ UpgradeLocks[n + 1].mode # "read")
         /\ CopiedAt(n + 1, t) <=>
              CopiedAt(n, t) \/ (UpgradeLocks[n + 1].table = t /\ UpgradeLocks[n + 1].mode = "read")
<1>1. \A i \in 1 .. n + 1 : i \in 1 .. n \/ i = n + 1
  OBVIOUS
<1>2. 1 .. n \subseteq 1 .. n + 1 /\ n + 1 \in 1 .. n + 1
  OBVIOUS
<1> QED
  BY <1>1, <1>2 DEF KeptOutAt, CopiedAt

LEMMA LockHeld ==
  \A t : /\ UpgradeKeepsOut(t) <=> upgrade = "runs" /\ KeptOutAt(step, t)
         /\ Copied(t) <=> upgrade = "runs" /\ CopiedAt(step, t)
  BY DEF UpgradeKeepsOut, Copied, KeptOutAt, CopiedAt

-----------------------------------------------------------------------------
(* What a step that leaves the variables of a part alone leaves of it. *)

LEMMA ExclusionStill ==
  ASSUME Exclusion, UNCHANGED <<order, upgrade, step, writing, written>>
  PROVE  Exclusion'
  BY DEF Exclusion, Holds, UpgradeKeepsOut

LEMMA BackedStill ==
  ASSUME Backed, UNCHANGED <<order, exempt, upgrade, step, backup, writing, late, live>>
  PROVE  Backed'
  BY DEF Backed, Writes, Copied, KeptUnlessBetween

LEMMA ApartStill ==
  ASSUME Apart, UNCHANGED <<order, created, place, live, writing, written, partitions>>
  PROVE  Apart'
  BY DEF Apart, HasJob, Writes, Holds

LEMMA PartedStill ==
  ASSUME Parted, partitions' = partitions, upgrade' # "done" => upgrade # "done"
  PROVE  Parted'
  BY DEF Parted

LEMMA AimsStill ==
  ASSUME Aims, UNCHANGED <<call, running, target, asked, partitions>>
  PROVE  Aims'
  BY DEF Aims, Named

LEMMA InputFacts ==
  ASSUME MigrationsTypes
  PROVE  /\ order \in [Writers -> Seq(Tables)] /\ exempt \in BOOLEAN
         /\ call \in [Runs -> [month : Months \cup {None}, dry : BOOLEAN]]
         /\ \A w \in Writers : Len(order[w]) \in Nat /\ DOMAIN order[w] = 1 .. Len(order[w])
         /\ \A w \in Writers : \A k \in 1 .. Len(order[w]) : order[w][k] \in Tables
         /\ \A w \in Writers : Writes(w, "chunks") \/ Writes(w, "jobs")
         /\ Now \in ValidMonths
<1>1. PICK i \in Inputs : order = i.order /\ call = i.call /\ exempt = i.exempt
  BY DEF MigrationsTypes
<1>2. /\ order \in [Writers -> Seq(Tables)] /\ exempt \in BOOLEAN
      /\ call \in [Runs -> [month : Months \cup {None}, dry : BOOLEAN]]
      /\ \A w \in Writers : \E k \in DOMAIN order[w] : order[w][k] \in {"chunks", "jobs"}
  BY <1>1, MigrationsAssumption
<1>3. \A w \in Writers : /\ Len(order[w]) \in Nat /\ DOMAIN order[w] = 1 .. Len(order[w])
                         /\ \A k \in 1 .. Len(order[w]) : order[w][k] \in Tables
  BY <1>2
<1>4. Now \in ValidMonths
  BY MigrationsAssumption DEF MigrationsTypes, Now
<1> QED
  BY <1>2, <1>3, <1>4 DEF Writes

-----------------------------------------------------------------------------
(* The steps. *)

LEMMA InitMigrations == Init => MigrationsInv
<1> SUFFICES ASSUME Init PROVE MigrationsInv
  OBVIOUS
<1>1. MigrationsTypes
  <2>1. 1 \in DOMAIN Calendar
    <3>1. Calendar \in Seq(ValidMonths) /\ Len(Calendar) # 0
      BY MigrationsAssumption, EmptySeq
    <3> QED
      BY <3>1
  <2>2. PICK i \in Inputs : order = i.order /\ call = i.call /\ exempt = i.exempt
    BY DEF Init
  <2>3. i.order \in [Writers -> Seq(Tables)]
    BY MigrationsAssumption
  <2>4. written \in [Writers -> Nat] /\ \A w \in Writers : written[w] <= Len(order[w])
    <3>1. \A w \in Writers : order[w] \in Seq(Tables)
      BY <2>2, <2>3
    <3>2. \A w \in Writers : Len(order[w]) \in Nat
      BY <3>1
    <3>3. written = [w \in Writers |-> 0]
      BY DEF Init
    <3> QED
      BY <3>2, <3>3
  <2>5. [order |-> order, call |-> call, exempt |-> exempt] \in Inputs
    BY MigrationsAssumption, <2>2
  <2> QED
    BY <2>1, <2>4, <2>5 DEF Init, MigrationsTypes
<1>2. Exclusion
  BY DEF Init, Exclusion, Holds
<1>3. Backed
  BY <1>1, InputFacts DEF Init, Backed, KeptUnlessBetween
<1>4. Apart /\ Parted /\ Aims
  BY DEF Init, Apart, HasJob, Holds, Parted, Aims
<1> QED
  BY <1>1, <1>2, <1>3, <1>4 DEF MigrationsInv

LEMMA TickStep ==
  ASSUME MigrationsInv, Tick
  PROVE  MigrationsInv'
<1>1. MigrationsTypes'
  <2>1. clock + 1 \in DOMAIN Calendar
    BY MigrationsAssumption DEF MigrationsInv, MigrationsTypes, Tick
  <2> QED
    BY <2>1 DEF MigrationsInv, MigrationsTypes, Tick, inputs, upgradeVars, writerVars, scriptVars
<1>2. Exclusion' /\ Backed' /\ Apart' /\ Parted' /\ Aims'
  BY ExclusionStill, BackedStill, ApartStill, PartedStill, AimsStill
  DEF MigrationsInv, Tick, inputs, upgradeVars, writerVars, scriptVars
<1> QED
  BY <1>1, <1>2 DEF MigrationsInv

LEMMA BeginStep ==
  ASSUME MigrationsInv, NEW w \in Writers, Begin(w)
  PROVE  MigrationsInv'
<1> USE DEF MigrationsInv
<1>1. /\ writing[w] = "new" /\ writing' = [writing EXCEPT ![w] = "open"]
      /\ created' = [created EXCEPT ![w] = IF Writes(w, "jobs") THEN Now ELSE None]
      /\ UNCHANGED <<inputs, clock, upgradeVars, written, late, live, place, partitions, scriptVars>>
  BY DEF Begin
<1>2. UNCHANGED <<order, call, exempt, upgrade, step, backup, running, target, asked>>
  BY <1>1 DEF inputs, upgradeVars, scriptVars
<1>3. Now \in ValidMonths /\ \A v \in Writers : Writes(v, "chunks") \/ Writes(v, "jobs")
  BY InputFacts
<1>4. MigrationsTypes'
  BY <1>1, <1>2, <1>3 DEF MigrationsTypes
<1>5. /\ \A v \in Writers : writing'[v] = IF v = w THEN "open" ELSE writing[v]
      /\ \A v \in Writers : (writing'[v] = "done") = (writing[v] = "done")
      /\ \A v \in Writers : \A t : (Writes(v, t))' = Writes(v, t)
  BY <1>1, <1>2 DEF MigrationsTypes, Writes
<1>6. Exclusion'
  <2>1. written[w] = 0
    BY <1>1 DEF Exclusion
  <2>2. \A v \in Writers : \A t : (Holds(v, t))' => Holds(v, t)
    BY <1>1, <1>2, <1>5, <2>1 DEF Holds
  <2>3. \A t : (UpgradeKeepsOut(t))' = UpgradeKeepsOut(t)
    BY <1>2 DEF UpgradeKeepsOut
  <2> QED
    BY <1>1, <1>5, <2>2, <2>3 DEF Exclusion
<1>7. Backed'
  BY <1>1, <1>2, <1>5 DEF Backed, Copied, KeptUnlessBetween
<1>8. Apart'
  <2>1. w \notin live /\ written[w] = 0
    BY <1>1 DEF Backed, Exclusion
  <2>2. ~(HasJob(w))' /\ \A v \in Writers \ {w} : (HasJob(v))' = HasJob(v)
    BY <1>1, <1>2, <1>5, <2>1 DEF HasJob, Holds
  <2>3. \A v \in Writers : created'[v] = IF v # w THEN created[v]
                                         ELSE IF Writes(w, "jobs") THEN Now ELSE None
    BY <1>1 DEF MigrationsTypes
  <2> QED
    BY <1>1, <1>3, <1>5, <2>2, <2>3 DEF Apart
<1>9. Parted' /\ Aims'
  BY <1>1, <1>2, PartedStill, AimsStill
<1> QED
  BY <1>4, <1>6, <1>7, <1>8, <1>9

LEMMA WriteStep ==
  ASSUME MigrationsInv, NEW w \in Writers, Write(w)
  PROVE  MigrationsInv'
<1> USE DEF MigrationsInv
<1> DEFINE table == order[w][written[w] + 1]
<1>1. /\ writing[w] = "open" /\ written[w] < Len(order[w]) /\ ~UpgradeKeepsOut(table)
      /\ place' = IF table = "jobs" THEN [place EXCEPT ![w] = Placed(partitions, created[w])] ELSE place
      /\ written' = [written EXCEPT ![w] = @ + 1]
      /\ UNCHANGED <<inputs, clock, upgradeVars, writing, created, late, live, partitions, scriptVars>>
  BY DEF Write
<1>2. UNCHANGED <<order, call, exempt, upgrade, step, backup, running, target, asked>>
  BY <1>1 DEF inputs, upgradeVars, scriptVars
<1>3. /\ Len(order[w]) \in Nat /\ DOMAIN order[w] = 1 .. Len(order[w])
      /\ \A k \in 1 .. Len(order[w]) : order[w][k] \in Tables
      /\ written[w] \in Nat
  BY InputFacts DEF MigrationsTypes
<1>4. /\ Placed(partitions, created[w]) \in ValidMonths \cup {None}
      /\ Placed(partitions, created[w]) = None => \A p \in partitions : ~Holding(p, created[w])
  BY PlacedFacts DEF Parted
<1>5. \A v \in Writers : written'[v] = IF v = w THEN written[w] + 1 ELSE written[v]
  BY <1>1 DEF MigrationsTypes
<1>6. MigrationsTypes'
  <2>1. /\ written' \in [Writers -> Nat] /\ \A v \in Writers : written'[v] <= Len(order[v])
        /\ place' \in [Writers -> ValidMonths \cup {None}]
    BY <1>1, <1>3, <1>4, <1>5 DEF MigrationsTypes
  <2> QED
    BY <1>1, <1>2, <2>1 DEF MigrationsTypes
<1>7. \A v \in Writers : \A t : (Writes(v, t))' = Writes(v, t)
  BY <1>2 DEF Writes
<1>8. \A v \in Writers \ {w} : \A t : (Holds(v, t))' = Holds(v, t)
  BY <1>1, <1>2, <1>5 DEF Holds
<1>9. \A t : (Holds(w, t))' <=> Holds(w, t) \/ t = table
  <2>1. \A i \in 1 .. written[w] + 1 : i \in 1 .. written[w] \/ i = written[w] + 1
    BY <1>3
  <2>2. 1 .. written[w] \subseteq 1 .. written[w] + 1 /\ written[w] + 1 \in 1 .. written[w] + 1
    BY <1>3
  <2> QED
    BY <1>1, <1>2, <1>5, <2>1, <2>2 DEF Holds
<1>10. Exclusion'
  <2>1. \A t : (UpgradeKeepsOut(t))' = UpgradeKeepsOut(t)
    BY <1>2 DEF UpgradeKeepsOut
  <2>2. \A v \in Writers, t \in Tables : ~((Holds(v, t))' /\ (UpgradeKeepsOut(t))')
    BY <1>1, <1>8, <1>9, <2>1 DEF Exclusion
  <2> QED
    BY <1>1, <1>5, <2>2 DEF Exclusion
<1>11. Backed'
  BY <1>1, <1>2, BackedStill
<1>12. Apart'
  <2>1. \A v \in Writers \ {w} : (HasJob(v))' = HasJob(v) /\ place'[v] = place[v]
    BY <1>1, <1>7, <1>8 DEF HasJob, MigrationsTypes
  <2>2. ASSUME (HasJob(w))', place'[w] = None
        PROVE  \A p \in partitions : ~Holding(p, created[w])
    <3>1. CASE table = "jobs"
      <4>1. place'[w] = Placed(partitions, created[w])
        BY <1>1, <3>1 DEF MigrationsTypes
      <4> QED
        BY <1>4, <2>2, <4>1
    <3>2. CASE table # "jobs"
      BY <1>1, <1>7, <1>9, <2>2, <3>2 DEF HasJob, Apart
    <3> QED
      BY <3>1, <3>2
  <2> QED
    BY <1>1, <1>7, <2>1, <2>2 DEF Apart
<1>13. Parted' /\ Aims'
  BY <1>1, <1>2, PartedStill, AimsStill
<1> QED
  BY <1>6, <1>10, <1>11, <1>12, <1>13

LEMMA CommitStep ==
  ASSUME MigrationsInv, NEW w \in Writers, Commit(w)
  PROVE  MigrationsInv'
<1> USE DEF MigrationsInv
<1>1. /\ writing[w] = "open" /\ written[w] = Len(order[w])
      /\ writing' = [writing EXCEPT ![w] = "done"]
      /\ late' = [late EXCEPT ![w] = \E t \in Tables : Writes(w, t) /\ Copied(t)]
      /\ live' = live \cup {w}
      /\ UNCHANGED <<inputs, clock, upgradeVars, written, created, place, partitions, scriptVars>>
  BY DEF Commit
<1>2. UNCHANGED <<order, call, exempt, upgrade, step, backup, running, target, asked>>
  BY <1>1 DEF inputs, upgradeVars, scriptVars
<1>3. /\ \A v \in Writers : writing'[v] = IF v = w THEN "done" ELSE writing[v]
      /\ \A v \in Writers : late'[v] = IF v = w THEN \E t \in Tables : Writes(w, t) /\ Copied(t)
                                       ELSE late[v]
  BY <1>1 DEF MigrationsTypes
<1>4. MigrationsTypes'
  BY <1>1, <1>2 DEF MigrationsTypes
<1>5. \A v \in Writers : \A t : (Writes(v, t))' = Writes(v, t)
  BY <1>2 DEF Writes
<1>6. \A v \in Writers : \A t : (Holds(v, t))' => Holds(v, t)
  BY <1>1, <1>2, <1>3 DEF Holds
<1>7. Exclusion'
  <2>1. \A t : (UpgradeKeepsOut(t))' = UpgradeKeepsOut(t)
    BY <1>2 DEF UpgradeKeepsOut
  <2> QED
    BY <1>1, <1>3, <1>6, <2>1 DEF Exclusion
<1>8. Backed'
  <2>1. \A t : (Copied(t))' = Copied(t)
    BY <1>2 DEF Copied
  <2>2. \A t \in {"chunks", "jobs"} : Writes(w, t) /\ Copied(t) => late'[w]
    BY <1>3 DEF Tables
  <2>3. KeptUnlessBetween'
    BY <1>1, <1>2, <1>3, <1>5 DEF Backed, KeptUnlessBetween
  <2> QED
    BY <1>1, <1>2, <1>3, <1>5, <2>1, <2>2, <2>3 DEF Backed
<1>9. Apart'
  <2>1. Writes(w, "jobs") => Holds(w, "jobs")
    BY <1>1, InputFacts DEF Writes, Holds
  <2>2. \A v \in Writers : (HasJob(v))' => HasJob(v)
    BY <1>1, <1>5, <1>6, <2>1 DEF HasJob
  <2>3. writing[w] # "new"
    BY <1>1
  <2> QED
    BY <1>1, <1>3, <1>5, <2>2, <2>3 DEF Apart
<1>10. Parted' /\ Aims'
  BY <1>1, <1>2, PartedStill, AimsStill
<1> QED
  BY <1>4, <1>7, <1>8, <1>9, <1>10

LEMMA AbortStep ==
  ASSUME MigrationsInv, NEW w \in Writers, Abort(w)
  PROVE  MigrationsInv'
<1> USE DEF MigrationsInv
<1>1. /\ writing[w] = "open" /\ writing' = [writing EXCEPT ![w] = "failed"]
      /\ UNCHANGED <<inputs, clock, upgradeVars, written, created, late, live, place, partitions, scriptVars>>
  BY DEF Abort, Deadlocked, Holds
<1>2. UNCHANGED <<order, call, exempt, upgrade, step, backup, running, target, asked>>
  BY <1>1 DEF inputs, upgradeVars, scriptVars
<1>3. \A v \in Writers : writing'[v] = IF v = w THEN "failed" ELSE writing[v]
  BY <1>1 DEF MigrationsTypes
<1>4. MigrationsTypes'
  BY <1>1, <1>2 DEF MigrationsTypes
<1>5. \A v \in Writers : \A t : (Writes(v, t))' = Writes(v, t)
  BY <1>2 DEF Writes
<1>6. \A v \in Writers : \A t : (Holds(v, t))' => Holds(v, t)
  BY <1>1, <1>2, <1>3 DEF Holds
<1>7. Exclusion'
  <2>1. \A t : (UpgradeKeepsOut(t))' = UpgradeKeepsOut(t)
    BY <1>2 DEF UpgradeKeepsOut
  <2> QED
    BY <1>1, <1>3, <1>6, <2>1 DEF Exclusion
<1>8. Backed'
  BY <1>1, <1>2, <1>3, <1>5 DEF Backed, Copied, KeptUnlessBetween
<1>9. Apart'
  BY <1>1, <1>3, <1>5, <1>6 DEF Apart, HasJob
<1>10. Parted' /\ Aims'
  BY <1>1, <1>2, PartedStill, AimsStill
<1> QED
  BY <1>4, <1>7, <1>8, <1>9, <1>10

LEMMA AdvanceStep ==
  ASSUME MigrationsInv, Advance
  PROVE  MigrationsInv'
<1> USE DEF MigrationsInv
<1> DEFINE lock == UpgradeLocks[step + 1]
<1>1. /\ upgrade = "runs" /\ step < Len(UpgradeLocks) /\ UpgradeMayLock(lock)
      /\ backup' = IF lock.mode = "read" THEN backup \cup Found(lock.table) ELSE backup
      /\ step' = step + 1
      /\ UNCHANGED <<inputs, clock, upgrade, writerVars, partitions, scriptVars>>
  BY DEF Advance
<1>2. UNCHANGED <<order, call, exempt, writing, written, created, late, live, place, running, target, asked>>
  BY <1>1 DEF inputs, writerVars, scriptVars
<1>3. step \in 0 .. 5
  BY <1>1, LockFacts DEF MigrationsTypes
<1>4. MigrationsTypes'
  <2>1. Found(lock.table) \subseteq live
    BY DEF Found
  <2>2. step' \in 0 .. 6 /\ backup' \subseteq Writers
    BY <1>1, <1>3, <2>1 DEF MigrationsTypes
  <2> QED
    BY <1>1, <1>2, <2>2 DEF MigrationsTypes
<1>5. \A v \in Writers : \A t : (Writes(v, t))' = Writes(v, t) /\ (Holds(v, t))' = Holds(v, t)
  BY <1>2 DEF Writes, Holds
<1>6. \A t : /\ (UpgradeKeepsOut(t))' <=> UpgradeKeepsOut(t) \/ (lock.table = t /\ lock.mode # "read")
             /\ (Copied(t))' <=> Copied(t) \/ (lock.table = t /\ lock.mode = "read")
  <2>1. \A t : /\ (UpgradeKeepsOut(t))' <=> KeptOutAt(step + 1, t)
               /\ (Copied(t))' <=> CopiedAt(step + 1, t)
    BY <1>1 DEF UpgradeKeepsOut, Copied, KeptOutAt, CopiedAt
  <2>2. \A t : (UpgradeKeepsOut(t) <=> KeptOutAt(step, t)) /\ (Copied(t) <=> CopiedAt(step, t))
    BY <1>1, LockHeld
  <2> QED
    BY <1>3, <2>1, <2>2, LockAdds
<1>7. Exclusion'
  <2>1. \A w \in Writers, t \in Tables : ~((Holds(w, t))' /\ (UpgradeKeepsOut(t))')
    BY <1>1, <1>5, <1>6 DEF Exclusion, UpgradeMayLock
  <2> QED
    BY <1>2, <2>1 DEF Exclusion
<1>8. Backed'
  <2>1. live' \cup backup' \subseteq {w \in Writers : writing[w] = "done"}
    BY <1>1, <1>2 DEF Backed, Found
  <2>2. ASSUME NEW w \in Writers, NEW t \in {"chunks", "jobs"},
               writing[w] = "done", Writes(w, t), (Copied(t))'
        PROVE  w \in backup' \/ late[w] \/ (t = "chunks" /\ ~exempt)
    <3>1. CASE Copied(t)
      BY <1>1, <2>2, <3>1 DEF Backed
    <3>2. CASE lock.table = t /\ lock.mode = "read"
      <4>1. w \in live
        BY <1>1, <2>2 DEF Backed
      <4> QED
        BY <1>1, <2>2, <3>2, <4>1 DEF Found
    <3> QED
      BY <1>6, <2>2, <3>1, <3>2
  <2>3. KeptUnlessBetween'
    BY <1>1, <1>2 DEF Backed, KeptUnlessBetween
  <2>4. upgrade' # "done" => {w \in Writers : writing'[w] = "done"} \subseteq live'
    BY <1>1, <1>2 DEF Backed
  <2> QED
    BY <1>2, <1>5, <2>1, <2>2, <2>3, <2>4 DEF Backed
<1>9. Apart' /\ Parted' /\ Aims'
  BY <1>1, <1>2, ApartStill, PartedStill, AimsStill
<1> QED
  BY <1>4, <1>7, <1>8, <1>9

LEMMA FirstFacts ==
  /\ \A p \in FirstPartitions : p.name \in ValidMonths /\ p = PartitionOf(p.name)
  /\ \A p, q \in FirstPartitions : p = q
<1>1. PartitionOf(FirstPartition).name = FirstPartition
  BY DEF PartitionOf
<1> QED
  BY <1>1, MigrationsAssumption DEF FirstPartitions

LEMMA FinishStep ==
  ASSUME MigrationsInv, Finish
  PROVE  MigrationsInv'
<1> USE DEF MigrationsInv
<1>1. /\ upgrade = "runs" /\ step = 6
      /\ upgrade' = "done" /\ step' = 0 /\ backup' = {} /\ live' = backup
      /\ partitions' = FirstPartitions /\ place' = PlacedBack
      /\ UNCHANGED <<inputs, clock, writing, written, created, late, scriptVars>>
  BY LockFacts DEF Finish
<1>2. UNCHANGED <<order, call, exempt, running, target, asked>>
  BY <1>1 DEF inputs, scriptVars
<1>3. \A m : /\ Placed(FirstPartitions, m) \in ValidMonths \cup {None}
             /\ Placed(FirstPartitions, m) = None => \A p \in FirstPartitions : ~Holding(p, m)
  BY PlacedFacts, FirstFacts
<1>4. MigrationsTypes'
  <2>1. place' \in [Writers -> ValidMonths \cup {None}]
    BY <1>1, <1>3 DEF PlacedBack, MigrationsTypes
  <2> QED
    BY <1>1, <1>2, <2>1 DEF MigrationsTypes
<1>5. \A v \in Writers : \A t : (Writes(v, t))' = Writes(v, t) /\ (Holds(v, t))' = Holds(v, t)
  BY <1>1, <1>2 DEF Writes, Holds
<1>6. Exclusion'
  <2>1. \A t : ~(UpgradeKeepsOut(t))'
    BY <1>1 DEF UpgradeKeepsOut
  <2> QED
    BY <1>1, <2>1 DEF Exclusion
<1>7. Backed'
  <2>1. \A t \in {"chunks", "jobs"} : Copied(t)
    BY <1>1, LockFacts, LockHeld
  <2>2. ASSUME NEW w \in Writers, writing[w] = "done"
        PROVE  w \in backup \/ late[w] \/ (~exempt /\ Writes(w, "chunks"))
    BY <2>1, <2>2 DEF Backed
  <2>3. KeptUnlessBetween'
    BY <1>1, <1>2, <1>5, <2>2 DEF KeptUnlessBetween
  <2>4. \A t : ~(Copied(t))'
    BY <1>1 DEF Copied
  <2> QED
    BY <1>1, <1>5, <2>3, <2>4 DEF Backed
<1>8. Apart'
  <2>1. \A w \in Writers : ~Holds(w, "jobs")
    <3>1. UpgradeKeepsOut("jobs") /\ "jobs" \in Tables
      BY <1>1, LockFacts, LockHeld DEF Tables
    <3> QED
      BY <3>1 DEF Exclusion
  <2>2. ASSUME NEW w \in Writers, (HasJob(w))', place'[w] = None
        PROVE  \A p \in FirstPartitions : ~Holding(p, created[w])
    <3>1. w \in backup /\ Writes(w, "jobs")
      BY <1>1, <1>5, <2>1, <2>2 DEF HasJob
    <3>2. place'[w] = Placed(FirstPartitions, created[w])
      BY <1>1, <3>1 DEF PlacedBack
    <3> QED
      BY <1>3, <2>2, <3>2
  <2> QED
    BY <1>1, <1>5, <2>2 DEF Apart
<1>9. Parted'
  <2>1. partitions' = FirstPartitions /\ upgrade' = "done"
    BY <1>1
  <2> QED
    BY <2>1, FirstFacts DEF Parted
<1>10. Aims'
  <2>1. \A m : ~Named(m)
    BY <1>1 DEF Parted, Named
  <2> QED
    BY <1>1, <1>2, <2>1 DEF Aims, Named
<1> QED
  BY <1>4, <1>6, <1>7, <1>8, <1>9, <1>10

LEMMA FailStep ==
  ASSUME MigrationsInv, Fail
  PROVE  MigrationsInv'
<1> USE DEF MigrationsInv
<1>1. /\ upgrade = "runs" /\ upgrade' = "failed" /\ step' = 0 /\ backup' = {}
      /\ UNCHANGED <<inputs, clock, writerVars, partitions, scriptVars>>
  BY DEF Fail
<1>2. UNCHANGED <<order, call, exempt, writing, written, created, late, live, place, running, target, asked>>
  BY <1>1 DEF inputs, writerVars, scriptVars
<1>3. MigrationsTypes'
  BY <1>1, <1>2 DEF MigrationsTypes
<1>4. Exclusion'
  BY <1>1, <1>2 DEF Exclusion, UpgradeKeepsOut
<1>5. Backed'
  <2>1. \A t : ~(Copied(t))'
    BY <1>1 DEF Copied
  <2>2. KeptUnlessBetween'
    BY <1>1, <1>2 DEF Backed, KeptUnlessBetween
  <2> QED
    BY <1>1, <1>2, <2>1, <2>2 DEF Backed, Writes
<1>6. Apart' /\ Parted' /\ Aims'
  BY <1>1, <1>2, ApartStill, PartedStill, AimsStill
<1> QED
  BY <1>3, <1>4, <1>5, <1>6

\* A step of the script that makes no partition.
LEMMA RunStep ==
  ASSUME MigrationsInv, NEW r \in Runs, Start(r) \/ CheckExists(r) \/ RunFails(r)
  PROVE  MigrationsInv'
<1> USE DEF MigrationsInv
<1>1. UNCHANGED <<order, call, exempt, clock, upgrade, step, backup, writing, written, created, late,
                  live, place, partitions>>
  BY DEF Start, CheckExists, RunFails, inputs, upgradeVars, writerVars
<1>2. Exclusion' /\ Backed' /\ Apart' /\ Parted'
  BY <1>1, ExclusionStill, BackedStill, ApartStill, PartedStill
<1>3. /\ call[r].month \in Months \cup {None} /\ call[r].dry \in BOOLEAN
      /\ Now \in ValidMonths /\ NextMonth(Now) \in Months
  BY InputFacts, MonthFacts
<1>4. \A m : (Named(m))' = Named(m)
  BY <1>1 DEF Named
<1>5. CASE Start(r)
  <2>1. PICK s \in {"one", "zero", "check"} :
          /\ running' = [running EXCEPT ![r] = s]
          /\ s = "check" => Parses(Aim(r))
          /\ s = "zero" => call[r].dry
    BY <1>5 DEF Start, Moves
  <2>2. /\ target' = [target EXCEPT ![r] = Aim(r)]
        /\ asked' = [asked EXCEPT ![r] = IF call[r].month = None THEN Now ELSE None]
    BY <1>5 DEF Start
  <2>3. Aim(r) \in Months
    BY <1>3 DEF Aim
  <2>4. MigrationsTypes'
    BY <1>1, <1>3, <2>1, <2>2, <2>3 DEF MigrationsTypes
  <2>5. Aims'
    <3>1. \A q \in Runs \ {r} : running'[q] = running[q] /\ target'[q] = target[q] /\ asked'[q] = asked[q]
      BY <2>1, <2>2 DEF MigrationsTypes
    <3>2. /\ running'[r] = s /\ target'[r] = Aim(r)
          /\ asked'[r] = IF call[r].month = None THEN Now ELSE None
      BY <2>1, <2>2 DEF MigrationsTypes
    <3>3. IF call[r].month = None THEN asked'[r] \in ValidMonths /\ target'[r] = NextMonth(asked'[r])
          ELSE target'[r] = call[r].month
      BY <1>3, <3>2 DEF Aim
    <3> QED
      BY <1>1, <1>4, <2>1, <2>3, <3>1, <3>2, <3>3 DEF Aims
  <2> QED
    BY <1>2, <2>4, <2>5
<1>6. CASE CheckExists(r) \/ RunFails(r)
  <2>1. UNCHANGED <<target, asked>> /\ running[r] \in {"check", "create"}
    BY <1>6 DEF CheckExists, RunFails
  <2>2. PICK s \in {"zero", "create", "one"} :
          running' = [running EXCEPT ![r] = s] /\ (s = "zero" => Named(target[r]))
    BY <1>6 DEF CheckExists, RunFails, Moves
  <2>3. MigrationsTypes'
    BY <1>1, <2>1, <2>2 DEF MigrationsTypes
  <2>4. \A q \in Runs : running'[q] = IF q = r THEN s ELSE running[q]
    BY <2>2 DEF MigrationsTypes
  <2>5. Aims'
    BY <1>1, <1>4, <2>1, <2>2, <2>4 DEF Aims
  <2> QED
    BY <1>2, <2>3, <2>5
<1> QED
  BY <1>5, <1>6

LEMMA CreateStep ==
  ASSUME MigrationsInv, NEW r \in Runs, Create(r)
  PROVE  MigrationsInv'
<1> USE DEF MigrationsInv
<1> DEFINE m == target[r]
           new == PartitionOf(m)
<1>1. UNCHANGED <<order, call, exempt, clock, upgrade, step, backup, writing, written, created, late,
                  live, place, target, asked>>
  BY DEF Create, inputs, upgradeVars, writerVars
<1>2. running[r] = "create" /\ JobsFree
  BY DEF Create
<1>3. PICK s \in {"zero", "one"} : running' = [running EXCEPT ![r] = s]
  BY DEF Create, Moves
<1>4. \A q \in Runs : running'[q] = IF q = r THEN s ELSE running[q]
  BY <1>3 DEF MigrationsTypes
<1>5. MigrationsTypes'
  BY <1>1, <1>3 DEF MigrationsTypes
<1>6. Exclusion' /\ Backed'
  BY <1>1, ExclusionStill, BackedStill
<1>7. m \in ValidMonths /\ new.name = m
  BY <1>2 DEF Aims, Parses, Months, ValidMonths, PartitionOf
<1>8. CASE partitions' = partitions /\ (s = "zero" => Named(m))
  <2>1. \A k : (Named(k))' = Named(k)
    BY <1>8 DEF Named
  <2>2. Aims'
    BY <1>1, <1>2, <1>4, <1>8, <2>1 DEF Aims
  <2>3. Apart' /\ Parted'
    BY <1>1, <1>8, ApartStill, PartedStill
  <2> QED
    BY <1>5, <1>6, <2>2, <2>3
<1>9. CASE partitions' = partitions \cup {new} /\ ~Refused(m)
  <2>1. upgrade = "done" /\ \A p \in partitions : ~Overlaps(p, new)
    BY <1>9 DEF Refused
  <2>2. Parted'
    <3>1. \A p \in partitions : ~Overlaps(new, p)
      BY <2>1 DEF Overlaps
    <3>2. \A p \in partitions' : p.name \in ValidMonths /\ p = PartitionOf(p.name)
      BY <1>7, <1>9 DEF Parted
    <3>3. \A p, q \in partitions' : Overlaps(p, q) => p = q
      BY <1>9, <2>1, <3>1 DEF Parted
    <3> QED
      BY <1>1, <2>1, <3>2, <3>3 DEF Parted
  <2>3. Apart'
    <3>1. \A w \in Writers : (HasJob(w))' = HasJob(w) /\ (Writes(w, "jobs"))' = Writes(w, "jobs")
      BY <1>1 DEF HasJob, Writes, Holds
    <3>2. \A w \in Writers : HasJob(w) /\ place[w] = None => ~Holding(new, created[w])
      BY <1>2, <1>9 DEF HasJob, JobsFree, Refused
    <3>3. \A w \in Writers : HasJob(w) /\ place[w] = None =>
            \A p \in partitions' : ~Holding(p, created[w])
      BY <1>9, <3>2 DEF Apart
    <3>4. created' = created /\ place' = place /\ writing' = writing
      BY <1>1
    <3>5. \A w \in Writers : (HasJob(w))' /\ place'[w] = None =>
            \A p \in partitions' : ~Holding(p, created'[w])
      BY <3>1, <3>3, <3>4
    <3>6. \A w \in Writers : writing'[w] # "new" /\ (Writes(w, "jobs"))' => created'[w] \in ValidMonths
      BY <3>1, <3>4 DEF Apart
    <3> QED
      BY <3>5, <3>6 DEF Apart
  <2>4. Aims'
    <3>1. (Named(m))' /\ \A k : Named(k) => (Named(k))'
      BY <1>1, <1>7, <1>9 DEF Named
    <3> QED
      BY <1>1, <1>2, <1>4, <3>1 DEF Aims
  <2> QED
    BY <1>5, <1>6, <2>2, <2>3, <2>4
<1>10. \/ partitions' = partitions /\ (s = "zero" => Named(m))
       \/ partitions' = partitions \cup {new} /\ ~Refused(m)
  <2>1. CASE Named(m)
    BY <2>1 DEF Create
  <2>2. CASE ~Named(m) /\ ~Refused(m)
    BY <2>2 DEF Create
  <2>3. CASE ~Named(m) /\ Refused(m)
    <3>1. running' = [running EXCEPT ![r] = "one"] /\ partitions' = partitions
      BY <2>3 DEF Create, Moves
    <3> QED
      BY <1>4, <3>1 DEF MigrationsTypes
  <2> QED
    BY <2>1, <2>2, <2>3
<1> QED
  BY <1>8, <1>9, <1>10

LEMMA NextMigrations == MigrationsInv /\ [Next]_vars => MigrationsInv'
<1> SUFFICES ASSUME MigrationsInv, [Next]_vars PROVE MigrationsInv'
  OBVIOUS
<1>1. CASE UNCHANGED vars
  <2>1. UNCHANGED <<order, call, exempt, clock, upgrade, step, backup, writing, written, created, late,
                    live, place, partitions, running, target, asked>>
    BY <1>1 DEF vars, inputs, upgradeVars, writerVars, scriptVars
  <2>2. MigrationsTypes'
    BY <2>1 DEF MigrationsInv, MigrationsTypes
  <2> QED
    BY <2>1, <2>2, ExclusionStill, BackedStill, ApartStill, PartedStill, AimsStill DEF MigrationsInv
<1>2. CASE Tick \/ Advance \/ Finish \/ Fail
  BY <1>2, TickStep, AdvanceStep, FinishStep, FailStep
<1>3. ASSUME NEW w \in Writers, Begin(w) \/ Write(w) \/ Commit(w) \/ Abort(w)
      PROVE  MigrationsInv'
  BY <1>3, BeginStep, WriteStep, CommitStep, AbortStep
<1>4. ASSUME NEW r \in Runs, Start(r) \/ CheckExists(r) \/ RunFails(r) \/ Create(r)
      PROVE  MigrationsInv'
  BY <1>4, RunStep, CreateStep
<1> QED
  BY <1>1, <1>2, <1>3, <1>4 DEF Next, Upgrading, Writing, Running

LEMMA MigrationsHold == Spec => []MigrationsInv
<1> QED
  BY InitMigrations, NextMigrations, PTL DEF Spec

-----------------------------------------------------------------------------
\* Types; the upgrade and a writer never have locks that exclude one another, and no
\* two partitions of jobs overlap, as PostgreSQL requires of them.
THEOREM MigrationsTypeCorrect == Spec => []MigrationsTypeOK
<1>1. MigrationsInv => MigrationsTypeOK
  <2> SUFFICES ASSUME MigrationsInv PROVE MigrationsTypeOK
    OBVIOUS
  <2>1. \A w \in Writers : written[w] \in 0 .. Len(order[w])
    BY InputFacts DEF MigrationsInv, MigrationsTypes
  <2> QED
    BY <2>1, LockFacts DEF MigrationsInv, MigrationsTypes, Exclusion, Parted, MigrationsTypeOK
<1> QED
  BY <1>1, MigrationsHold, PTL

\* An upgrade, however it ends, loses no committed row but those committed between
\* the copy and the lock and, under row level security, the chunks.
THEOREM KeptCorrect == Spec => []KeptUnlessBetween
<1>1. MigrationsInv => KeptUnlessBetween
  BY DEF MigrationsInv, Backed
<1> QED
  BY <1>1, MigrationsHold, PTL

\* A month the script has reported has a partition that takes all of its rows.
THEOREM MonthCorrect == Spec => []MonthCovered
<1>1. MigrationsInv => MonthCovered
  <2> SUFFICES ASSUME MigrationsInv, NEW r \in Runs, NEW w \in live,
                      running[r] = "zero", ~call[r].dry, Writes(w, "jobs"), IsFor(r, created[w])
               PROVE  place[w] # None
    BY DEF MonthCovered
  <2>1. w \in Writers /\ writing[w] = "done" /\ HasJob(w) /\ created[w] \in ValidMonths
    BY DEF MigrationsInv, MigrationsTypes, Backed, HasJob, Apart
  <2>2. created[w] = target[r]
    BY <2>1, MonthFacts DEF MigrationsInv, Aims, IsFor
  <2>3. PICK p \in partitions : p.name = target[r]
    BY DEF MigrationsInv, Aims, Named
  <2>4. Holding(p, created[w])
    BY <2>1, <2>2, <2>3, MonthFacts DEF MigrationsInv, Parted
  <2> QED
    BY <2>1, <2>4 DEF MigrationsInv, Apart
<1> QED
  BY <1>1, MigrationsHold, PTL
=============================================================================
