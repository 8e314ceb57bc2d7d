------------------------------ MODULE RateLimiter ------------------------------
(***************************************************************************)
(* RateLimiter (services/resources/limits.py): a token bucket that never   *)
(* makes anyone retry.  reserve() pays for the request at once, so that    *)
(* the bucket may go into debt, and answers with the moment, the slot, at  *)
(* which the debt is covered.  Slots are moreover kept Interval apart.     *)
(*                                                                         *)
(* The unit of time is any fraction 1/k of the time that refills a token   *)
(* (1 / requests_per_second), and the bucket is counted in such fractions: *)
(* TokenParts = k of them make a token, and a unit of time refills one.    *)
(* The rounding of floating point is abstracted away.                      *)
(***************************************************************************)
EXTENDS Integers, Sequences, FiniteSetsExt

CONSTANTS TokenParts,   \* parts in a token
          Burst,        \* burst: the tokens a full bucket holds
          Interval,     \* min_interval_seconds, in units of time
          MaxUnits,     \* the largest batch_units of a request
          Horizon,      \* bound: the last moment of the model
          MaxRequests   \* bound: reservations made in a behaviour

ASSUME LimiterAssumption ==
    /\ TokenParts \in Nat \ {0}
    /\ Burst \in Nat \ {0}
    /\ Interval \in Nat
    /\ MaxUnits \in Nat \ {0}
    /\ Horizon \in Nat
    /\ MaxRequests \in Nat

VARIABLES now,        \* clock.monotonic()
          tokens,     \* _tokens, in parts
          updatedAt,  \* _updated_at
          lastSlot,   \* _last_slot, or NoSlot
          granted     \* history: every reservation, in the order of the calls

LimiterVars == <<now, tokens, updatedAt, lastSlot, granted>>

NoSlot == -1

Full == Burst * TokenParts

\* A reservation: the call, all that was reserved up to it and with it, its slot.
Reservations == [at : Nat, paid : Nat, slot : Nat]

LimiterTypeOK ==
    /\ now \in Nat
    /\ tokens \in Int
    /\ tokens <= Full
    /\ updatedAt \in Nat
    /\ updatedAt <= now
    /\ lastSlot \in Nat \cup {NoSlot}
    /\ granted \in Seq(Reservations)

LimiterInit ==
    /\ now = 0
    /\ tokens = Full
    /\ updatedAt = 0
    /\ lastSlot = NoSlot
    /\ granted = <<>>

------------------------------------------------------------------------------
AtMost(a, b) == IF a < b THEN a ELSE b
AtLeast(a, b) == IF a < b THEN b ELSE a

\* _refill(): the bucket at this moment.
Refilled == AtMost(Full, tokens + (now - updatedAt))

\* The moment at which a bucket that holds t parts has covered its debt.
Ready(t) == now + AtLeast(0, -t)

\* Mutant of ApplyMinInterval: the pause is counted from the present moment, so
\* that requests which come together get the same slot.
ApplyMinIntervalFromNow(ready) ==
    IF Interval = 0 \/ lastSlot = NoSlot THEN ready
    ELSE AtLeast(ready, now + Interval)

\* _apply_min_interval(): the pause is counted from the slot given out last.
ApplyMinInterval(ready) ==
    IF Interval = 0 \/ lastSlot = NoSlot THEN ready
    ELSE AtLeast(ready, lastSlot + Interval)

\* What was reserved so far.
Paid == IF granted = <<>> THEN 0 ELSE granted[Len(granted)].paid

\* Mutant of Reserve: the moment of the refill is not remembered, so that the same
\* time is credited twice.
ReserveForgetsRefill(units) ==
    LET cost == units * TokenParts
        t    == Refilled - cost
        slot == ApplyMinInterval(Ready(t))
    IN  /\ Len(granted) < MaxRequests
        /\ tokens' = t
        /\ lastSlot' = slot
        /\ granted' = Append(granted, [at |-> now, paid |-> Paid + cost, slot |-> slot])
        /\ UNCHANGED <<now, updatedAt>>

\* reserve(units)
Reserve(units) ==
    LET cost == units * TokenParts
        t    == Refilled - cost
        slot == ApplyMinInterval(Ready(t))
    IN  /\ Len(granted) < MaxRequests
        /\ tokens' = t
        /\ updatedAt' = now
        /\ lastSlot' = slot
        /\ granted' = Append(granted, [at |-> now, paid |-> Paid + cost, slot |-> slot])
        /\ UNCHANGED now

Tick ==
    /\ now < Horizon
    /\ now' = now + 1
    /\ UNCHANGED <<tokens, updatedAt, lastSlot, granted>>

LimiterNext == Tick \/ \E units \in 1..MaxUnits : Reserve(units)

LimiterSpec == LimiterInit /\ [][LimiterNext]_LimiterVars

------------------------------------------------------------------------------
\* The cost of the reservations from the i-th to the j-th.
CostOf(i, j) == granted[j].paid - (IF i = 1 THEN 0 ELSE granted[i - 1].paid)

\* Requests are executed in the order in which they reserved and never closer
\* than the minimal interval, although each of them sleeps on its own
\* ("ожидающие ... соревновались за одни и те же токены, теряя порядок").
SlotsSpaced ==
    \A j \in 2..Len(granted) : granted[j].slot >= granted[j - 1].slot + Interval

\* The slot of a reservation is exactly the first moment at which the bucket
\* could have paid for it and for everything since any earlier reservation,
\* and which keeps the interval: the lazy refill at the calls equals a bucket
\* that is filled all the time, nobody is let through early and nobody waits
\* for a token that is already there.
SlotsExact ==
    \A j \in 1..Len(granted) :
        LET covered(i) == granted[i].at + CostOf(i, j) - Full
            earliest == {granted[j].at} \cup {covered(i) : i \in 1..j}
                            \cup (IF Interval > 0 /\ j > 1
                                  THEN {granted[j - 1].slot + Interval} ELSE {})
        IN  granted[j].slot = Max(earliest)

\* The provider's view: whatever the pattern of calls, what is executed after
\* one slot and up to a later one is paid by one full bucket and the time
\* between them.
WindowsWithinRate ==
    \A i \in 1..Len(granted), j \in 1..Len(granted) : i < j =>
        CostOf(i + 1, j) <= Full + (granted[j].slot - granted[i].slot)

\* The bucket neither lets a burst past the limit of the provider nor makes
\* anyone wait longer than that limit demands.
RateExact == LimiterTypeOK /\ SlotsExact /\ WindowsWithinRate
==============================================================================
