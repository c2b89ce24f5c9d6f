-------------------------- MODULE RateLimitProofs --------------------------
(***************************************************************************)
(* The token bucket keeps its promises for every capacity, rate, set of    *)
(* costs, number of calls and order of their scripts, if a bucket that is  *)
(* dropped would be full again by then (RateAssumption).                   *)
(*                                                                         *)
(* The argument is a potential: tokens - Rate * updated is what a script   *)
(* preserves, whatever its stamp, when it neither grants nor fills up.     *)
(***************************************************************************)
EXTENDS RateLimit, TLAPS

Potential == tokens - Rate * updated

\* A waiting stamp is of the past, and not older than Delay.
StampsRecent ==
  \A q \in Calls : call[q] = "stamped" => stamp[q] \in (clock - Delay)..clock

\* The script last ran at deadline - TTL, with a stamp of the past, and the
\* debt it may have left is the refill since its stamp.
DebtBounded ==
  Present =>
    /\ updated <= deadline - TTL /\ deadline - TTL <= clock
    /\ Potential + Rate * (deadline - TTL) >= 0

\* What was granted in the window is missing from the potential; a bucket that
\* was dropped has had the time to refill what was granted.
WindowPaid ==
  /\ Present /\ granted > 0 => granted + Potential <= Capacity - Rate * (opened - Delay)
  /\ ~Present => granted <= Rate * (clock - opened)

\* The potential still reaches the cost of a refused call at its time.
WaitsPaid ==
  \A q \in Calls :
    call[q] = "refused" /\ q \notin spent /\ cost[q] <= Capacity /\ Present
      => Potential + Rate * Greater(retryAt[q], clock) >= cost[q]

RateInv == RateTypeOK /\ StampsRecent /\ DebtBounded /\ WindowPaid /\ WaitsPaid

-----------------------------------------------------------------------------
(* Arithmetic: the provers are given products with Rate only through these. *)

LEMMA RateMonotone ==
  ASSUME NEW x \in Int, NEW y \in Int, x <= y
  PROVE  Rate * x <= Rate * y
BY RateAssumption

LEMMA RateLinear ==
  ASSUME NEW x \in Int, NEW y \in Int
  PROVE  /\ Rate * x \in Int
         /\ Rate * (x + y) = Rate * x + Rate * y
         /\ Rate * (x - y) = Rate * x - Rate * y
         /\ (x - y) * Rate = Rate * x - Rate * y
BY RateAssumption

\* Replies are rounded down.
LEMMA ReportedBelow ==
  ASSUME NEW t \in Int
  PROVE  Reported(t) \in Int /\ Reported(t) <= t
BY RateAssumption DEF Reported

\* The wait is long enough for the refill of what is missing.
LEMMA WaitSuffices ==
  ASSUME NEW c \in Int, NEW t \in Int
  PROVE  /\ ResetAfter(c, t) \in Int
         /\ Rate * (ResetAfter(c, t) * Second) >= c - t
<1> DEFINE n == Rate * Second
           m == c - Reported(t)
<1>1. n \in Nat \ {0} /\ m \in Int /\ m >= c - t
  BY RateAssumption, ReportedBelow
<1>2. m \div n \in Int /\ n * (m \div n) + n > m
  BY <1>1
<1>3. ResetAfter(c, t) = m \div n + 1
  BY DEF ResetAfter
<1>4. Rate * (ResetAfter(c, t) * Second) = n * (m \div n) + n
  <2>1. ASSUME NEW k \in Int PROVE Rate * ((k + 1) * Second) = (Rate * Second) * k + Rate * Second
    BY RateAssumption
  <2> QED
    BY <1>2, <1>3, <2>1
<1> QED
  BY <1>1, <1>2, <1>3, <1>4, RateAssumption

-----------------------------------------------------------------------------

LEMMA InitRate == Init => RateInv
<1> SUFFICES ASSUME Init PROVE RateInv
  OBVIOUS
<1> USE RateAssumption DEF Init
<1>1. Rate * Delay \in Nat /\ Rate * 0 = 0
  BY RateLinear
<1>2. RateTypeOK
  BY <1>1 DEF RateTypeOK
<1>3. StampsRecent /\ DebtBounded /\ WindowPaid /\ WaitsPaid
  BY <1>1 DEF StampsRecent, DebtBounded, WindowPaid, WaitsPaid, Present
<1> QED
  BY <1>2, <1>3 DEF RateInv

\* What a script with the stamp s finds: at least the debt its age allows, the
\* potential or a full bucket.
LEMMA FillPotential ==
  ASSUME RateInv, NEW s \in (clock - Delay)..clock
  PROVE  /\ Fill(s) \in Int /\ Fill(s) <= Capacity
         /\ Fill(s) - Rate * s + Rate * clock >= 0
         /\ Present /\ Fill(s) # Capacity => Fill(s) - Rate * s = Potential
         /\ Present => Fill(s) - Rate * s <= Potential
         /\ ~Present => Fill(s) = Capacity
<1> USE RateAssumption DEF RateInv, RateTypeOK
<1>1. clock \in Int /\ s \in Int /\ s <= clock /\ deadline - TTL \in Int
  OBVIOUS
<1>2. /\ Rate * s <= Rate * clock
      /\ Rate * s \in Int /\ Rate * clock \in Int /\ Rate * updated \in Int
      /\ (s - updated) * Rate = Rate * s - Rate * updated
  BY <1>1, RateMonotone, RateLinear
<1>3. CASE ~Present
  BY <1>1, <1>2, <1>3 DEF Fill
<1>4. CASE Present
  <2>1. Potential + Rate * (deadline - TTL) >= 0 /\ deadline - TTL <= clock
    BY <1>4 DEF DebtBounded
  <2>2. Rate * (deadline - TTL) <= Rate * clock /\ Rate * (deadline - TTL) \in Int
    BY <1>1, <2>1, RateMonotone, RateLinear
  <2>3. Potential + Rate * clock >= 0
    BY <1>2, <2>1, <2>2 DEF Potential
  <2>4. Fill(s) = Lesser(Capacity, tokens + (Rate * s - Rate * updated))
    BY <1>2, <1>4 DEF Fill
  <2> QED
    BY <1>2, <1>4, <2>3, <2>4 DEF Lesser, Potential
<1> QED
  BY <1>3, <1>4

-----------------------------------------------------------------------------

\* A script leaves the bucket in a bounded debt, if it stores what it found or
\* a part of it that is not negative.
LEMMA ScriptBounded ==
  ASSUME RateInv, NEW q \in Calls, call[q] = "stamped",
         tokens' \in Int, tokens' <= Fill(stamp[q]),
         tokens' >= 0 \/ tokens' = Fill(stamp[q]),
         updated' = stamp[q], deadline' = clock + TTL, clock' = clock
  PROVE  /\ tokens' <= Capacity /\ tokens' >= -(Rate * Delay)
         /\ DebtBounded' /\ Present'
<1> USE RateAssumption DEF RateInv, RateTypeOK
<1> DEFINE s == stamp[q]
<1>1. s \in (clock - Delay)..clock /\ s \in Int /\ clock \in Int /\ clock - Delay \in Int
  BY DEF StampsRecent
<1>2. /\ Rate * (clock - Delay) <= Rate * s /\ Rate * s <= Rate * clock
      /\ Rate * s \in Int /\ Rate * clock \in Int /\ Rate * Delay \in Int
      /\ Rate * (clock - Delay) = Rate * clock - Rate * Delay
  BY <1>1, RateMonotone, RateLinear
<1>3. tokens' - Rate * s + Rate * clock >= 0
  BY <1>1, <1>2, FillPotential
<1>4. tokens' <= Capacity
  BY <1>1, FillPotential
<1>5. deadline' - TTL = clock'
  OBVIOUS
<1>6. DebtBounded'
  BY <1>1, <1>2, <1>3, <1>5 DEF DebtBounded, Potential
<1> QED
  BY <1>2, <1>3, <1>4, <1>6 DEF Present

\* Stamps of the past lie in the window's shadow.
LEMMA WindowStamps ==
  ASSUME RateInv, NEW s \in (clock - Delay)..clock
  PROVE  /\ Rate * (opened - Delay) <= Rate * s
         /\ Rate * (clock - opened) - Rate * s <= -(Rate * (opened - Delay))
         /\ Rate * s \in Int /\ Rate * (opened - Delay) \in Int
<1> USE RateAssumption DEF RateInv, RateTypeOK
<1>1. s \in Int /\ opened - Delay \in Int /\ opened - Delay <= s /\ clock - opened \in Int
      /\ clock - Delay \in Int /\ clock - Delay <= s /\ clock \in Int /\ opened \in Int
  OBVIOUS
<1>2. /\ Rate * (opened - Delay) <= Rate * s /\ Rate * (clock - Delay) <= Rate * s
      /\ Rate * (clock - opened) = Rate * clock - Rate * opened
      /\ Rate * (opened - Delay) = Rate * opened - Rate * Delay
      /\ Rate * (clock - Delay) = Rate * clock - Rate * Delay
      /\ Rate * clock \in Int /\ Rate * opened \in Int /\ Rate * Delay \in Int /\ Rate * s \in Int
  BY <1>1, RateMonotone, RateLinear
<1> QED
  BY <1>2

-----------------------------------------------------------------------------

\* Calls but q are as they were, q is over, and spent only grew.
LEMMA OverKeeps ==
  ASSUME RateInv, NEW q \in Calls, Over(q), clock' = clock
  PROVE  /\ call' \in [Calls -> {"idle", "stamped", "refused"}]
         /\ stamp' \in [Calls -> Int] /\ cost' \in [Calls -> Nat] /\ retryAt' \in [Calls -> Int]
         /\ StampsRecent'
         /\ \A p \in Calls : call'[p] = "refused" =>
              /\ call[p] = "refused" /\ p # q
              /\ cost'[p] = cost[p] /\ retryAt'[p] = retryAt[p]
BY DEF RateInv, RateTypeOK, Over, StampsRecent

LEMMA GrantRate ==
  ASSUME RateInv, NEW q \in Calls, Grant(q)
  PROVE  RateInv'
<1> USE RateAssumption
<1> DEFINE s == stamp[q]
<1>1. /\ s \in (clock - Delay)..clock /\ s \in Int /\ clock \in Int
      /\ tokens' = Fill(s) - cost[q] /\ Fill(s) >= cost[q] /\ cost[q] \in Nat
      /\ updated' = s /\ deadline' = clock + TTL /\ clock' = clock /\ opened' = opened
      /\ granted' = granted + cost[q] /\ granted \in Nat
      /\ Fill(s) \in Int
  <2>1. s \in (clock - Delay)..clock
    BY DEF RateInv, Grant, StampsRecent
  <2> QED
    BY <2>1, FillPotential DEF RateInv, RateTypeOK, Grant
<1>2. /\ tokens' \in Int /\ tokens' <= Capacity /\ tokens' >= -(Rate * Delay)
      /\ DebtBounded' /\ Present'
  BY <1>1, ScriptBounded DEF Grant
<1>3. RateTypeOK'
  BY <1>1, <1>2, OverKeeps DEF RateInv, RateTypeOK, Grant
<1>4. StampsRecent'
  BY <1>1, OverKeeps DEF Grant
<1>5. WindowPaid'
  <2>1. /\ Rate * (opened - Delay) <= Rate * s
        /\ Rate * (clock - opened) - Rate * s <= -(Rate * (opened - Delay))
        /\ Rate * s \in Int /\ Rate * (opened - Delay) \in Int
    BY <1>1, WindowStamps
  <2>2. Potential' = Fill(s) - cost[q] - Rate * s
    BY <1>1, <2>1 DEF Potential
  <2>3. granted + (Fill(s) - Rate * s) <= Capacity - Rate * (opened - Delay)
    <3>1. CASE Present /\ granted > 0
      <4>1. granted + Potential <= Capacity - Rate * (opened - Delay)
        BY <3>1 DEF RateInv, WindowPaid
      <4>2. Fill(s) - Rate * s <= Potential /\ Potential \in Int
        BY <1>1, <3>1, FillPotential, RateLinear DEF Potential, RateInv, RateTypeOK
      <4> QED
        BY <1>1, <2>1, <4>1, <4>2
    <3>2. CASE ~Present
      <4>1. granted <= Rate * (clock - opened) /\ Fill(s) = Capacity
        BY <1>1, <3>2, FillPotential DEF RateInv, WindowPaid
      <4>2. Rate * (clock - opened) \in Int
        BY RateLinear DEF RateInv, RateTypeOK
      <4> QED
        BY <1>1, <2>1, <4>1, <4>2
    <3>3. CASE granted = 0
      BY <1>1, <2>1, <3>3, FillPotential
    <3> QED
      BY <1>1, <3>1, <3>2, <3>3
  <2> QED
    BY <1>1, <1>2, <2>1, <2>2, <2>3 DEF WindowPaid
<1>6. WaitsPaid'
  BY OverKeeps, <1>1 DEF WaitsPaid, Grant
<1> QED
  BY <1>2, <1>3, <1>4, <1>5, <1>6 DEF RateInv

LEMMA RefuseRate ==
  ASSUME RateInv, NEW q \in Calls, Refuse(q)
  PROVE  RateInv'
<1> USE RateAssumption
<1> DEFINE s == stamp[q]
           wait == s + ResetAfter(cost[q], Fill(s)) * Second
<1>1. /\ s \in (clock - Delay)..clock /\ s \in Int /\ clock \in Int
      /\ tokens' = Fill(s) /\ Fill(s) < cost[q] /\ cost[q] \in Nat
      /\ updated' = s /\ deadline' = clock + TTL /\ clock' = clock /\ opened' = opened
      /\ granted' = granted /\ granted \in Nat /\ spent' = spent /\ cost' = cost
      /\ Fill(s) \in Int
      /\ Rate * s \in Int /\ Rate * clock \in Int
  <2>1. s \in (clock - Delay)..clock
    BY DEF RateInv, Refuse, StampsRecent
  <2> QED
    BY <2>1, FillPotential, RateLinear DEF RateInv, RateTypeOK, Refuse, history
<1>2. /\ tokens' \in Int /\ tokens' <= Capacity /\ tokens' >= -(Rate * Delay)
      /\ DebtBounded' /\ Present'
  BY <1>1, ScriptBounded DEF Refuse
<1>3. /\ ResetAfter(cost[q], Fill(s)) \in Int /\ wait \in Int
      /\ Rate * wait \in Int
      /\ Rate * wait >= Rate * s + cost[q] - Fill(s)
  <2>1. /\ ResetAfter(cost[q], Fill(s)) \in Int
        /\ Rate * (ResetAfter(cost[q], Fill(s)) * Second) >= cost[q] - Fill(s)
    <3>1. cost[q] \in Int /\ Fill(s) \in Int
      BY <1>1
    <3> QED
      BY <3>1, WaitSuffices, Zenon
  <2>2. ResetAfter(cost[q], Fill(s)) * Second \in Int
    BY <2>1
  <2>3. /\ wait \in Int /\ Rate * wait \in Int
        /\ Rate * wait = Rate * s + Rate * (ResetAfter(cost[q], Fill(s)) * Second)
        /\ Rate * (ResetAfter(cost[q], Fill(s)) * Second) \in Int
    <3>1. PICK r : r = ResetAfter(cost[q], Fill(s)) * Second
      OBVIOUS
    <3>2. s \in Int /\ r \in Int /\ wait = s + r
      BY <1>1, <2>2, <3>1
    <3> HIDE DEF s, wait
    <3>3. wait \in Int
      BY <3>2, SMT
    <3>4. Rate * r \in Int /\ Rate * wait = Rate * s + Rate * r
      BY <3>2, RateLinear, Zenon
    <3>5. Rate * wait \in Int
      BY <3>3, RateLinear, Zenon
    <3> QED
      BY <3>1, <3>3, <3>4, <3>5, Zenon DEF wait
  <2> QED
    BY <1>1, <2>1, <2>3
<1>4. /\ call' = [call EXCEPT ![q] = "refused"] /\ stamp' = stamp
      /\ retryAt' = [retryAt EXCEPT ![q] = wait]
  BY DEF Refuse
<1>5. RateTypeOK'
  BY <1>1, <1>2, <1>3, <1>4 DEF RateInv, RateTypeOK
<1>6. StampsRecent'
  BY <1>1, <1>4 DEF RateInv, RateTypeOK, StampsRecent
<1>7. Potential' = Fill(s) - Rate * s
  BY <1>1 DEF Potential
<1>8. WindowPaid'
  <2>1. /\ Rate * (opened - Delay) <= Rate * s
        /\ Rate * (clock - opened) - Rate * s <= -(Rate * (opened - Delay))
        /\ Rate * (opened - Delay) \in Int
    BY <1>1, WindowStamps
  <2>2. ASSUME granted > 0
        PROVE  granted + (Fill(s) - Rate * s) <= Capacity - Rate * (opened - Delay)
    <3>1. CASE Present
      <4>1. granted + Potential <= Capacity - Rate * (opened - Delay)
        BY <2>2, <3>1 DEF RateInv, WindowPaid
      <4>2. Fill(s) - Rate * s <= Potential /\ Potential \in Int
        BY <1>1, <3>1, FillPotential, RateLinear DEF Potential, RateInv, RateTypeOK
      <4> QED
        BY <1>1, <2>1, <4>1, <4>2
    <3>2. CASE ~Present
      <4>1. granted <= Rate * (clock - opened) /\ Fill(s) = Capacity
        BY <1>1, <3>2, FillPotential DEF RateInv, WindowPaid
      <4>2. Rate * (clock - opened) \in Int
        BY RateLinear DEF RateInv, RateTypeOK
      <4> QED
        BY <1>1, <2>1, <4>1, <4>2
    <3> QED
      BY <3>1, <3>2
  <2> QED
    BY <1>1, <1>2, <1>7, <2>1, <2>2 DEF WindowPaid
<1>9. WaitsPaid'
  <2> SUFFICES ASSUME NEW p \in Calls, call'[p] = "refused", p \notin spent, cost[p] <= Capacity
               PROVE  Fill(s) - Rate * s + Rate * Greater(retryAt'[p], clock) >= cost[p]
    BY <1>1, <1>7 DEF WaitsPaid
  <2>1. /\ cost[p] \in Nat /\ retryAt'[p] \in Int
        /\ Greater(retryAt'[p], clock) \in Int /\ clock <= Greater(retryAt'[p], clock)
        /\ retryAt'[p] <= Greater(retryAt'[p], clock)
    BY <1>1, <1>5 DEF RateInv, RateTypeOK, Greater
  <2>2. /\ Rate * clock <= Rate * Greater(retryAt'[p], clock)
        /\ Rate * retryAt'[p] <= Rate * Greater(retryAt'[p], clock)
        /\ Rate * Greater(retryAt'[p], clock) \in Int /\ Rate * retryAt'[p] \in Int
    BY <1>1, <2>1, RateMonotone, RateLinear
  <2>3. CASE p = q
    <3>1. retryAt'[p] = wait
      BY <1>4, <2>3 DEF RateInv, RateTypeOK
    <3> QED
      BY <1>1, <1>3, <2>2, <2>3, <3>1
  <2>4. CASE p # q
    <3>1. call[p] = "refused" /\ retryAt'[p] = retryAt[p]
      BY <1>4, <2>4 DEF RateInv, RateTypeOK
    <3>2. CASE Fill(s) = Capacity
      <4>1. Rate * s <= Rate * clock
        BY <1>1, RateMonotone
      <4> QED
        BY <1>1, <2>1, <2>2, <3>2, <4>1
    <3>3. CASE Fill(s) # Capacity
      <4>1. Present /\ Fill(s) - Rate * s = Potential
        BY <1>1, <3>3, FillPotential
      <4>2. Potential + Rate * Greater(retryAt[p], clock) >= cost[p]
        BY <3>1, <4>1 DEF RateInv, WaitsPaid
      <4> QED
        BY <3>1, <4>1, <4>2
    <3> QED
      BY <3>2, <3>3
  <2> QED
    BY <2>3, <2>4
<1> QED
  BY <1>2, <1>5, <1>6, <1>8, <1>9 DEF RateInv

-----------------------------------------------------------------------------

LEMMA StampRate ==
  ASSUME RateInv, NEW q \in Calls, NEW c \in Costs, Stamp(q, c)
  PROVE  RateInv'
<1> USE RateAssumption DEF RateInv, RateTypeOK
<1>1. UNCHANGED <<clock, bucket, history, retryAt>>
  BY DEF Stamp
<1>2. RateTypeOK' /\ StampsRecent'
  BY <1>1 DEF Stamp, StampsRecent, bucket, history
<1>3. DebtBounded' /\ WindowPaid'
  BY <1>1 DEF DebtBounded, WindowPaid, Potential, Present, bucket, history
<1>4. WaitsPaid'
  BY <1>1 DEF Stamp, WaitsPaid, Potential, Present, bucket, history, Greater
<1> QED
  BY <1>2, <1>3, <1>4

LEMMA AnswerRate ==
  ASSUME RateInv, NEW q \in Calls, Answer(q)
  PROVE  RateInv'
<1> USE DEF RateInv
<1>1. /\ Over(q) /\ UNCHANGED <<clock, bucket, opened, granted>>
      /\ spent' = spent \ {q}
  BY DEF Answer
<1>2. RateTypeOK' /\ StampsRecent'
  BY <1>1, OverKeeps DEF RateTypeOK, bucket
<1>3. DebtBounded' /\ WindowPaid'
  BY <1>1 DEF DebtBounded, WindowPaid, Potential, Present, bucket
<1>4. WaitsPaid'
  BY <1>1, OverKeeps DEF WaitsPaid, Potential, Present, bucket, Greater
<1> QED
  BY <1>2, <1>3, <1>4

LEMMA OpenRate ==
  ASSUME RateInv, OpenWindow
  PROVE  RateInv'
<1> USE RateAssumption DEF RateInv
<1>1. UNCHANGED <<clock, bucket, calls, spent>> /\ opened' = clock /\ granted' = 0
  BY DEF OpenWindow
<1>2. RateTypeOK' /\ StampsRecent' /\ DebtBounded' /\ WaitsPaid'
  BY <1>1 DEF RateTypeOK, StampsRecent, DebtBounded, WaitsPaid, Potential, Present, bucket, calls
<1>3. WindowPaid'
  BY <1>1, RateLinear DEF WindowPaid, RateTypeOK
<1> QED
  BY <1>2, <1>3

LEMMA TickRate ==
  ASSUME RateInv, Tick
  PROVE  RateInv'
<1> USE RateAssumption DEF RateInv
<1>1. /\ UNCHANGED <<bucket, calls, history>> /\ clock' = clock + 1 /\ clock \in Nat
      /\ \A q \in Calls : call[q] = "stamped" => clock < stamp[q] + Delay
  BY DEF Tick, RateTypeOK
<1>2. RateTypeOK'
  BY <1>1 DEF RateTypeOK, bucket, calls, history
<1>3. StampsRecent'
  BY <1>1 DEF RateTypeOK, StampsRecent, calls
<1>4. Present' => Present
  BY <1>1 DEF Present, bucket, RateTypeOK
<1>5. DebtBounded'
  BY <1>1, <1>4 DEF DebtBounded, Potential, bucket, RateTypeOK
<1>6. Potential' = Potential /\ Potential \in Int
  BY <1>1, RateLinear DEF Potential, bucket, RateTypeOK
<1>7. WaitsPaid'
  <2> SUFFICES ASSUME NEW q \in Calls, call[q] = "refused", q \notin spent, cost[q] <= Capacity, Present
               PROVE  Potential + Rate * Greater(retryAt[q], clock + 1) >= cost[q]
    BY <1>1, <1>4, <1>6 DEF WaitsPaid, calls, history
  <2>1. /\ Greater(retryAt[q], clock) \in Int /\ Greater(retryAt[q], clock + 1) \in Int
        /\ Greater(retryAt[q], clock) <= Greater(retryAt[q], clock + 1)
        /\ cost[q] \in Nat
    BY <1>1 DEF Greater, RateTypeOK
  <2>2. /\ Rate * Greater(retryAt[q], clock) <= Rate * Greater(retryAt[q], clock + 1)
        /\ Rate * Greater(retryAt[q], clock) \in Int
        /\ Rate * Greater(retryAt[q], clock + 1) \in Int
    BY <2>1, RateMonotone, RateLinear
  <2>3. Potential + Rate * Greater(retryAt[q], clock) >= cost[q]
    BY DEF WaitsPaid
  <2> QED
    BY <1>6, <2>1, <2>2, <2>3
<1>8. WindowPaid'
  <2>1. /\ opened' = opened /\ granted' = granted /\ deadline' = deadline
        /\ opened \in Int /\ granted \in Nat /\ deadline \in Int /\ clock - opened \in Int
    BY <1>1 DEF bucket, history, RateTypeOK
  <2>2. CASE Present'
    BY <1>4, <1>6, <2>1, <2>2 DEF WindowPaid
  <2>3. CASE ~Present' /\ ~Present
    <3>1. Rate * (clock - opened) <= Rate * (clock' - opened)
      BY <1>1, <2>1, RateMonotone
    <3>2. Rate * (clock - opened) \in Int /\ Rate * (clock' - opened) \in Int
      BY <1>1, <2>1, RateLinear
    <3> QED
      BY <2>1, <2>3, <3>1, <3>2 DEF WindowPaid
  \* The bucket is dropped: what was granted is at most the capacity and the
  \* refill up to the last script, and the time to live refills the capacity.
  <2>4. CASE ~Present' /\ Present
    <3>1. deadline = clock'
      BY <1>1, <2>1, <2>4 DEF Present
    <3>2. Potential + Rate * (deadline - TTL) >= 0
      BY <2>4 DEF DebtBounded
    <3>3. granted = 0 \/ granted + Potential <= Capacity - Rate * (opened - Delay)
      BY <2>1, <2>4 DEF WindowPaid
    <3>4. /\ Rate * (deadline - TTL) = Rate * deadline - Rate * TTL
          /\ Rate * (opened - Delay) = Rate * opened - Rate * Delay
          /\ Rate * (deadline - opened) = Rate * deadline - Rate * opened
          /\ Rate * deadline \in Int /\ Rate * TTL \in Int
          /\ Rate * opened \in Int /\ Rate * Delay \in Int
      BY <2>1, RateLinear
    <3>5. Rate * opened <= Rate * deadline
      BY <1>1, <2>1, <3>1, RateMonotone DEF RateTypeOK
    <3>6. Capacity + Rate * Delay <= Rate * TTL /\ Capacity \in Int
      OBVIOUS
    <3>7. granted <= Rate * deadline - Rate * opened
      BY <1>6, <2>1, <3>2, <3>3, <3>4, <3>5, <3>6
    <3>8. granted' <= Rate * (clock' - opened')
      BY <2>1, <3>1, <3>4, <3>7
    <3> QED
      BY <2>4, <3>8 DEF WindowPaid
  <2> QED
    BY <2>2, <2>3, <2>4
<1> QED
  BY <1>2, <1>3, <1>5, <1>7, <1>8

LEMMA NextRate ==
  ASSUME RateInv, [Next]_vars
  PROVE  RateInv'
<1>1. CASE UNCHANGED vars
  BY <1>1 DEF RateInv, RateTypeOK, StampsRecent, DebtBounded, WindowPaid, WaitsPaid, Potential,
     Present, Greater, vars, bucket, calls, history
<1>2. CASE Next
  BY <1>2, StampRate, GrantRate, RefuseRate, AnswerRate, TickRate, OpenRate DEF Next
<1> QED
  BY <1>1, <1>2

LEMMA RateInvariant == Spec => []RateInv
BY InitRate, NextRate, PTL DEF Spec

-----------------------------------------------------------------------------

\* Types, and the bounds of the bucket: never above its capacity, and never
\* deeper in debt than the age of a stamp explains.
THEOREM RateTypeCorrect == Spec => []RateTypeOK
<1>1. RateInv => RateTypeOK
  BY DEF RateInv
<1> QED
  BY <1>1, RateInvariant, PTL

\* No window grants more than the capacity and its refill, however many calls
\* there are and in whatever order their scripts run.
THEOREM GrantedCorrect == Spec => []GrantedBounded
<1>1. ASSUME RateInv PROVE GrantedBounded
  <2> USE RateAssumption
  <2>1. /\ clock \in Nat /\ opened \in Int /\ opened <= clock /\ granted \in Nat /\ deadline - TTL \in Int
        /\ clock - opened \in Int
    BY <1>1 DEF RateInv, RateTypeOK
  <2>2. /\ Rate * (clock - opened + Delay) = Rate * (clock - opened) + Rate * Delay
        /\ Rate * (clock - opened) = Rate * clock - Rate * opened
        /\ Rate * (opened - Delay) = Rate * opened - Rate * Delay
        /\ Rate * clock \in Int /\ Rate * opened \in Int /\ Rate * Delay \in Nat
        /\ Rate * opened <= Rate * clock
    BY <2>1, RateLinear, RateMonotone
  <2>3. CASE Present
    <3>1. granted = 0 \/ granted + Potential <= Capacity - Rate * (opened - Delay)
      BY <1>1, <2>1, <2>3 DEF RateInv, WindowPaid
    <3>2. Potential + Rate * clock >= 0 /\ Potential \in Int
      <4>1. Potential + Rate * (deadline - TTL) >= 0 /\ deadline - TTL <= clock
        BY <1>1, <2>3 DEF RateInv, DebtBounded
      <4>2. Rate * (deadline - TTL) <= Rate * clock /\ Rate * (deadline - TTL) \in Int
        BY <2>1, <4>1, RateMonotone, RateLinear
      <4>3. Potential \in Int
        BY <1>1, RateLinear DEF RateInv, RateTypeOK, Potential
      <4> QED
        BY <2>2, <4>1, <4>2, <4>3
    <3> QED
      BY <2>1, <2>2, <3>1, <3>2 DEF GrantedBounded
  <2>4. CASE ~Present
    BY <1>1, <2>1, <2>2, <2>4 DEF RateInv, WindowPaid, GrantedBounded
  <2> QED
    BY <2>3, <2>4
<1> QED
  BY <1>1, RateInvariant, PTL

\* A refused caller that waits as long as it is told is granted its cost, unless
\* another call was granted in between.
THEOREM RetryAfterCorrect == Spec => []RetryAfterSuffices
<1>1. ASSUME RateInv PROVE RetryAfterSuffices
  <2> USE RateAssumption
  <2> SUFFICES ASSUME NEW q \in Calls, call[q] = "refused", q \notin spent, cost[q] <= Capacity
               PROVE  Fill(Greater(retryAt[q], clock)) >= cost[q]
    BY DEF RetryAfterSuffices
  <2> DEFINE t == Greater(retryAt[q], clock)
  <2>1. t \in Int /\ cost[q] \in Nat /\ updated \in Int /\ tokens \in Int
    BY <1>1 DEF RateInv, RateTypeOK, Greater
  <2>2. CASE ~Present
    BY <2>1, <2>2 DEF Fill
  <2>3. CASE Present
    <3>1. Potential + Rate * t >= cost[q]
      BY <1>1, <2>3 DEF RateInv, WaitsPaid
    <3>2. (t - updated) * Rate = Rate * t - Rate * updated /\ Rate * t \in Int /\ Rate * updated \in Int
      BY <2>1, RateLinear
    <3>3. Fill(t) = Lesser(Capacity, tokens + (Rate * t - Rate * updated))
      BY <2>3, <3>2 DEF Fill
    <3> QED
      BY <2>1, <3>1, <3>2, <3>3 DEF Potential, Lesser
  <2> QED
    BY <2>2, <2>3
<1> QED
  BY <1>1, RateInvariant, PTL
=============================================================================
