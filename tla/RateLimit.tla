----------------------------- MODULE RateLimit -----------------------------
(***************************************************************************)
(* One token bucket in Redis.  A call reads the clock of its API process,  *)
(* and the script runs later: calls may run in another order than they     *)
(* were stamped.  The script itself is atomic.  Amounts are counted in a   *)
(* unit that makes the refill of one clock tick a number, and stay exact   *)
(* where the code rounds floats.                                           *)
(***************************************************************************)
EXTENDS Integers

CONSTANTS
  Calls,     \* calls that may be under way at the same time
  Capacity,  \* of the bucket
  Rate,      \* refill per tick
  Costs,     \* what the endpoints charge
  Grain,     \* units in a hundredth of a token, to which replies are rounded
  Second,    \* ticks in a second
  TTL,       \* EXPIRE of the bucket, in ticks
  Delay,     \* how old a stamp may be when the script runs
  MaxClock   \* bound on the clock

ASSUME RateAssumption ==
  /\ Capacity \in Nat /\ Costs \subseteq Nat
  /\ Rate \in Nat \ {0} /\ Grain \in Nat \ {0} /\ Second \in Nat \ {0}
  /\ TTL \in Nat \ {0} /\ Delay \in Nat /\ MaxClock \in Nat
  /\ Capacity + Rate * Delay <= Rate * TTL

VARIABLES
  clock,
  tokens,    \* the bucket,
  updated,   \* the stamp it was last computed for,
  deadline,  \* and when it expires: from then on it is absent
  call,      \* where a call is
  stamp,     \* its now_ms
  cost,      \* its _cost
  retryAt,   \* the time a refused call is told to come back at
  spent,     \* history: refused calls since which another one was granted
  opened,    \* history: when the present window was opened,
  granted    \* and what was granted since

bucket == <<tokens, updated, deadline>>
calls == <<call, stamp, cost, retryAt>>
history == <<spent, opened, granted>>
vars == <<clock, bucket, calls, history>>

Present == clock < deadline

\* Types; the bucket never holds more than its capacity, and is in debt by at
\* most what a stamp can be behind (the refill of the script may be negative).
RateTypeOK ==
  /\ clock \in Nat /\ deadline \in Nat
  /\ tokens \in Int /\ tokens <= Capacity /\ tokens >= -(Rate * Delay)
  /\ updated \in Int
  /\ call \in [Calls -> {"idle", "stamped", "refused"}]
  /\ stamp \in [Calls -> Int] /\ cost \in [Calls -> Nat] /\ retryAt \in [Calls -> Int]
  /\ spent \subseteq Calls
  /\ opened \in 0..clock /\ granted \in Nat

Init ==
  /\ clock = 0 /\ tokens = 0 /\ updated = 0 /\ deadline = 0
  /\ call = [q \in Calls |-> "idle"]
  /\ stamp = [q \in Calls |-> 0]
  /\ cost = [q \in Calls |-> 0]
  /\ retryAt = [q \in Calls |-> 0]
  /\ spent = {} /\ opened = 0 /\ granted = 0

-----------------------------------------------------------------------------

\* check_rate_limit up to the call of the script.
Stamp(q, c) ==
  /\ call[q] = "idle"
  /\ call' = [call EXCEPT ![q] = "stamped"]
  /\ stamp' = [stamp EXCEPT ![q] = clock]
  /\ cost' = [cost EXCEPT ![q] = c]
  /\ UNCHANGED <<clock, bucket, retryAt, history>>

\* The call is over: it is answered, or fails before the script runs.
Over(q) ==
  /\ call' = [call EXCEPT ![q] = "idle"]
  /\ stamp' = [stamp EXCEPT ![q] = 0]
  /\ cost' = [cost EXCEPT ![q] = 0]
  /\ retryAt' = [retryAt EXCEPT ![q] = 0]

Lesser(x, y) == IF x <= y THEN x ELSE y

Greater(x, y) == IF x <= y THEN y ELSE x

\* What the script finds in the bucket at a time.
Fill(now) ==
  IF Present THEN Lesser(Capacity, tokens + (now - updated) * Rate) ELSE Capacity

Reported(amount) == (amount \div Grain) * Grain

\* Mutant: the wait is rounded down.
ResetAfterFloor(c, left) == (c - Reported(left)) \div (Rate * Second)

\* reset_after_seconds.
ResetAfter(c, left) == (c - Reported(left)) \div (Rate * Second) + 1

Grant(q) ==
  LET left == Fill(stamp[q]) IN
  /\ call[q] = "stamped" /\ left >= cost[q]
  /\ Over(q)
  /\ tokens' = left - cost[q]
  /\ updated' = stamp[q]
  /\ deadline' = clock + TTL
  /\ spent' = spent \cup {p \in Calls : call[p] = "refused"}
  /\ granted' = granted + cost[q]
  /\ UNCHANGED <<clock, opened>>

\* Mutant: the stamp is only stored when the call is granted.
RefuseUnstamped(q) ==
  LET left == Fill(stamp[q]) IN
  /\ call[q] = "stamped" /\ left < cost[q]
  /\ call' = [call EXCEPT ![q] = "refused"]
  /\ tokens' = left
  /\ updated' = IF Present THEN updated ELSE stamp[q]
  /\ deadline' = clock + TTL
  /\ retryAt' = [retryAt EXCEPT ![q] = stamp[q] + ResetAfter(cost[q], left) * Second]
  /\ UNCHANGED <<clock, stamp, cost, history>>

Refuse(q) ==
  LET left == Fill(stamp[q]) IN
  /\ call[q] = "stamped" /\ left < cost[q]
  /\ call' = [call EXCEPT ![q] = "refused"]
  /\ tokens' = left
  /\ updated' = stamp[q]
  /\ deadline' = clock + TTL
  /\ retryAt' = [retryAt EXCEPT ![q] = stamp[q] + ResetAfter(cost[q], left) * Second]
  /\ UNCHANGED <<clock, stamp, cost, history>>

Answer(q) ==
  /\ call[q] # "idle"
  /\ Over(q)
  /\ spent' = spent \ {q}
  /\ UNCHANGED <<clock, bucket, opened, granted>>

\* No stamp gets older than Delay before its script runs.
Tick ==
  /\ clock < MaxClock
  /\ \A q \in Calls : call[q] = "stamped" => clock < stamp[q] + Delay
  /\ clock' = clock + 1
  /\ UNCHANGED <<bucket, calls, history>>

\* Any moment may be the beginning of the window the property speaks of (one
\* in each behaviour).
OpenWindow ==
  /\ opened = 0
  /\ opened' = clock /\ granted' = 0
  /\ UNCHANGED <<clock, bucket, calls, spent>>

-----------------------------------------------------------------------------

Next ==
  \/ \E q \in Calls :
       \/ \E c \in Costs : Stamp(q, c)
       \/ Grant(q) \/ Refuse(q) \/ Answer(q)
  \/ Tick
  \/ OpenWindow

Spec == Init /\ [][Next]_vars

-----------------------------------------------------------------------------
(* Properties. *)

\* In any window no more is granted than the capacity and the refill of the
\* window, give or take the age of a stamp, in whatever order the calls run,
\* and although an idle bucket is dropped and comes back full.
GrantedBounded == granted <= Capacity + Rate * (clock - opened + Delay)

\* A refused call is told the truth: unless another call was granted since,
\* the bucket holds the cost at the time it was told to come back, and later.
\* (A cost above the capacity is never granted.)
RetryAfterSuffices ==
  \A q \in Calls :
    call[q] = "refused" /\ q \notin spent /\ cost[q] <= Capacity
      => Fill(Greater(retryAt[q], clock)) >= cost[q]
=============================================================================
