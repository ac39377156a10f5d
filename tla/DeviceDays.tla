----------------------------- MODULE DeviceDays -----------------------------
(***************************************************************************)
(* What Rollups and Reports have in common: the devices, the days, and     *)
(* sums. A day is UTC's, a number, as in telemetry_daily.                  *)
(***************************************************************************)
EXTENDS Integers, FiniteSets, FiniteSetsExt

CONSTANTS
  Device,
  MaxDay          \* bound: days

ASSUME DeviceDaysAssumption == MaxDay \in Nat \ {0}

Day == 1..MaxDay

\* The sum of f[x] for x in S, and of all that f has.
SumOver(S, f) == MapThenSumSet(LAMBDA x : f[x], S)

Sum(f) == SumOver(DOMAIN f, f)
=============================================================================
