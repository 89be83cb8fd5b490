---------------------------- MODULE RateLimiter ----------------------------
(***************************************************************************)
(* The byte budget of one topic stream: a bucket that refills with time,   *)
(* looked at only when a message comes. A message that does not fit is     *)
(* dropped; one that can never fit passes when the bucket is full.         *)
(***************************************************************************)
EXTENDS Naturals, Sequences

CONSTANTS
    BytesPerSecond,  \* m_bytes_per_second; 0 is no limit
    LeastBurst,      \* 64 KiB in the code
    Size,            \* sizes of messages
    MaxSeconds       \* bound on the clock

ASSUME LimiterAssumption ==
    BytesPerSecond \in Nat /\ LeastBurst \in Nat /\ Size \subseteq Nat \ {0} /\ MaxSeconds \in Nat

VARIABLES
    clock,    \* steady_clock
    tokens,   \* m_tokens
    last,     \* m_last
    passed,   \* history: the messages let through, [at, size]
    refused   \* history: sizes dropped since the clock or "passed" last changed

limiterVars == <<clock, tokens, last, passed, refused>>

Least(a, b) == IF a < b THEN a ELSE b

\* m_burst
Burst == IF BytesPerSecond > LeastBurst THEN BytesPerSecond ELSE LeastBurst

LimiterTypeOK ==
    /\ clock \in 0 .. MaxSeconds /\ last \in 0 .. clock
    /\ tokens \in 0 .. Burst
    /\ passed \in Seq([at : 0 .. MaxSeconds, size : Size])
    /\ refused \subseteq Size

LimiterInit ==
    /\ clock = 0 /\ last = 0
    /\ tokens = Burst
    /\ passed = <<>> /\ refused = {}

\* What the bucket holds now.
Refilled == Least(Burst, tokens + (clock - last) * BytesPerSecond)

\* One over the burst passes when the bucket is full.
FitsIn(size, held) == IF size > Burst THEN held >= Burst ELSE size <= held

\* allow(): the clock is taken whether the message passes or not.
Allow(size) ==
    /\ IF BytesPerSecond = 0
       THEN UNCHANGED <<last, tokens>>
       ELSE /\ last' = clock
            /\ tokens' = IF FitsIn(size, Refilled) THEN Refilled - Least(size, Burst) ELSE Refilled
    /\ IF BytesPerSecond = 0 \/ FitsIn(size, Refilled)
       THEN passed' = Append(passed, [at |-> clock, size |-> size]) /\ refused' = {}
       ELSE refused' = refused \cup {size} /\ UNCHANGED passed
    /\ UNCHANGED clock

Second ==
    /\ clock < MaxSeconds
    /\ clock' = clock + 1
    /\ refused' = {}
    /\ UNCHANGED <<tokens, last, passed>>

LimiterNext == Second \/ \E size \in Size : Allow(size)

LimiterSpec == LimiterInit /\ [][LimiterNext]_limiterVars

-----------------------------------------------------------------------------
(* Properties, against what a rate means.                                  *)

\* What has passed from a message on; one over the burst counts as one burst.
Sent(from) ==
    LET sum[k \in 0 .. Len(passed)] ==
            IF k < from THEN 0 ELSE sum[k - 1] + Least(passed[k].size, Burst)
    IN  sum[Len(passed)]
Allowance(from) == Burst + (clock - passed[from].at) * BytesPerSecond

\* From any message on, a stream with a limit carries no more than one burst and its rate:
\* refills that are late, or between messages that are dropped, add nothing.
PassedWithinRate ==
    BytesPerSecond # 0 => \A from \in DOMAIN passed : Sent(from) <= Allowance(from)

\* A message is dropped only when with it the stream would have carried more: nothing is
\* lost to the bucket's being refilled late, and no size is shut out for good.
RefusedOnlyAboveRate ==
    \A size \in refused : \E from \in DOMAIN passed :
        Sent(from) + Least(size, Burst) > Allowance(from)

\* The limiter lets through exactly what the rate of the stream admits
\* (rate_limiter::allow).
RateKept == LimiterTypeOK /\ PassedWithinRate /\ RefusedOnlyAboveRate
=============================================================================
