--------------------------------- MODULE Time ---------------------------------
(***************************************************************************)
(* time::Duration, Instant and System (src/sfc/time/): seconds, and        *)
(* nanoseconds below a second, that are added and subtracted through their *)
(* total in a u64.                                                         *)
(***************************************************************************)
EXTENDS Integers

CONSTANTS
  NanosPerMilli, MillisPerSec,   \* the units
  U64,        \* one more than the highest u64
  U32Max      \* the highest u32

TimeAssumption == {NanosPerMilli, MillisPerSec, U64, U32Max} \subseteq Nat \ {0}

NanosPerSec == NanosPerMilli * MillisPerSec

FromNanos(n) == [secs |-> n \div NanosPerSec, nanos |-> n % NanosPerSec]
FromSecs(s) == [secs |-> s, nanos |-> 0]
FromMillis(n) == [secs |-> n \div MillisPerSec, nanos |-> (n % MillisPerSec) * NanosPerMilli]

TotalNanos(t) == (t.secs * NanosPerSec + t.nanos) % U64

\* Faulty form of AsMillis: nothing is rounded.
AsMillisDown(d) ==
  IF TotalNanos(d) \div NanosPerMilli < U32Max THEN TotalNanos(d) \div NanosPerMilli ELSE U32Max

\* as_millis_u32 rounds, and stops at the highest u32; the sum may wrap.
AsMillis(d) ==
  LET n == ((TotalNanos(d) + NanosPerMilli \div 2) % U64) \div NanosPerMilli
  IN IF n < U32Max THEN n ELSE U32Max

DurationSince(t, earlier) == FromNanos((TotalNanos(t) - TotalNanos(earlier)) % U64)
Plus(t, d) == FromNanos((TotalNanos(t) + TotalNanos(d)) % U64)
Minus(t, d) == FromNanos((TotalNanos(t) - TotalNanos(d)) % U64)

\* System::operator- is written as its operator+.
SystemMinus(t, d) == FromNanos((TotalNanos(t) + TotalNanos(d)) % U64)
===============================================================================
