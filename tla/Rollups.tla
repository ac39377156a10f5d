------------------------------ MODULE Rollups ------------------------------
(***************************************************************************)
(* From readings to a day's energy: the telemetry table, the daily rollup  *)
(* that TimescaleDB keeps of it (telemetry_daily, migrations 0004, 0006    *)
(* and 0018), and the energy internal/registry/analytics.go makes of one   *)
(* device's day with internal/domain/analytics.go.                         *)
(*                                                                         *)
(* Time goes by in days; a reading is of a day and a slot of it, and may   *)
(* come in any later one. Counters are in steps of energy. A glitch is a   *)
(* vendor's lone report of zero; the program does not see that it is one.  *)
(***************************************************************************)
EXTENDS DeviceDays, Sequences

CONSTANTS
  Slot,           \* of a day, a set of numbers
  Counter,        \* what a cumulative counter may show, 0 included
  MaxReadings,    \* bound: readings
  RefreshDays,    \* start_offset: 3 days; TimescaleDB wants two buckets at least
  RetentionDays   \* of telemetry: 2 years

ASSUME RollupsAssumption ==
  /\ Slot \subseteq Nat
  /\ Counter \subseteq Nat /\ 0 \in Counter
  /\ MaxReadings \in Nat
  /\ RefreshDays \in Nat \ {0, 1}
  /\ RetentionDays \in Nat /\ RefreshDays - 1 <= RetentionDays

VARIABLES
  now,            \* today
  telemetry,      \* the readings
  materialized,   \* what telemetry_daily has on disk
  watermark,      \* the first day it has not
  invalid,        \* device-days with readings it has not seen
  arrivals        \* readings so far

rollupsVars == <<now, telemetry, materialized, watermark, invalid, arrivals>>

(***************************************************************************)
(* A device's day from its readings.                                       *)
(***************************************************************************)

Earlier(a, b) == a.day < b.day \/ (a.day = b.day /\ a.slot < b.slot)

ReadingsOf(dev, day) == {r \in telemetry : r.dev = dev /\ r.day = day}

\* A set of numbers in ascending order.
Ascending(S) ==
  CHOOSE s \in [1..Cardinality(S) -> S] : \A i, k \in DOMAIN s : i < k => s[i] < s[k]

\* A device's day in the order of ts; the key of telemetry is device and ts.
Ordered(dev, day) ==
  LET slots == Ascending({r.slot : r \in ReadingsOf(dev, day)})
  IN [i \in DOMAIN slots |-> CHOOSE r \in ReadingsOf(dev, day) : r.slot = slots[i]]

\* GetRawEnergyReadingsForDeviceDay
RawEnergy(dev, day) ==
  LET sorted == Ordered(dev, day)
  IN [i \in DOMAIN sorted |-> sorted[i].kwh]

\* The fractions 0.5 and 0.9 of the code, in whole numbers.
IsDip(prev, cur, next) == 2 * cur < prev /\ 2 * cur < next /\ 10 * next >= 9 * prev

\* Mutant: glitches are summed up like anything else.
filterNoDips(readings) == readings

\* The readings that stay: the first, the last, and those that are no dip.
Kept(readings) ==
  {i \in DOMAIN readings :
     {i - 1, i + 1} \subseteq DOMAIN readings => ~IsDip(readings[i - 1], readings[i], readings[i + 1])}

filterSpuriousDips(readings) ==
  LET order == Ascending(Kept(readings))
  IN [k \in DOMAIN order |-> readings[order[k]]]

DailyEnergyFromReadings(readings) ==
  LET kept == filterSpuriousDips(readings)
      delta == [i \in DOMAIN kept \ {1} |->
                  IF kept[i] > kept[i - 1] THEN kept[i] - kept[i - 1] ELSE 0]
  IN Sum(delta)

\* GROUP BY device_id, site_id, day: a device-day without readings is no group.
Groups(pairs) == {p \in pairs : ReadingsOf(p[1], p[2]) # {}}

SumUp(dev, day, group) ==
  LET energy == {r.kwh : r \in group}
  IN [dev |-> dev, day |-> day, start |-> Min(energy), end |-> Max(energy),
      count |-> Cardinality(group),
      backfilled |-> Cardinality({r \in group : r.backfilled}),
      reset |-> \E r \in group : r.reset]

RollupOf(dev, day) == SumUp(dev, day, ReadingsOf(dev, day))

\* telemetry_daily as a query sees it: what was materialised, and what is not
\* materialised yet from telemetry (materialized_only = false).
DailyRollup(dev, day) ==
  IF day < watermark THEN {row \in materialized : row.dev = dev /\ row.day = day}
  ELSE {RollupOf(p[1], p[2]) : p \in Groups({<<dev, day>>})}

\* deviceDayEnergy
DeviceDayEnergy(row) ==
  IF row.reset THEN DailyEnergyFromReadings(RawEnergy(row.dev, row.day))
  ELSE row.end - row.start

(***************************************************************************)
(* Actions.                                                                *)
(***************************************************************************)

RollupsInit ==
  /\ now = 1
  /\ telemetry = {}
  /\ materialized = {}
  /\ watermark = 1
  /\ invalid = {}
  /\ arrivals = 0

\* PreviousEnergyBeforeTS and DetectEnergyReset: the reading before by ts, of
\* those that are there.
DetectEnergyReset(dev, day, slot, kwh) ==
  LET before == {r \in telemetry : r.dev = dev /\ (r.day < day \/ (r.day = day /\ r.slot < slot))}
  IN \E r \in before : /\ \A other \in before \ {r} : Earlier(other, r)
                       /\ kwh < r.kwh

\* A reading is stored, once for its device and time. (How many of its day
\* arrived before it is for the properties only.)
Store(dev, day, slot, kwh, glitch) ==
  /\ arrivals < MaxReadings
  /\ day <= now
  /\ glitch => kwh = 0
  /\ ~\E r \in ReadingsOf(dev, day) : r.slot = slot
  /\ telemetry' = telemetry \cup
       {[dev |-> dev, day |-> day, slot |-> slot, kwh |-> kwh, glitch |-> glitch,
         reset |-> DetectEnergyReset(dev, day, slot, kwh), backfilled |-> day < now,
         arrived |-> Cardinality(ReadingsOf(dev, day))]}
  /\ invalid' = invalid \cup {<<dev, day>>}
  /\ arrivals' = arrivals + 1
  /\ UNCHANGED <<now, materialized, watermark>>

\* Mutant: start_offset is not given.
RefreshFromTheStart ==
  /\ watermark' = now
  /\ materialized' = {row \in materialized : <<row.dev, row.day>> \notin invalid}
                \cup {RollupOf(p[1], p[2]) : p \in Groups({q \in invalid : q[2] < now})}
  /\ invalid' = {p \in invalid : p[2] >= now}
  /\ UNCHANGED <<now, telemetry, arrivals>>

\* Mutant: the window starts a day late.
RefreshShort ==
  /\ LET due == {p \in invalid : p[2] \in (now - RefreshDays + 2)..(now - 1)}
     IN /\ materialized' = {row \in materialized : <<row.dev, row.day>> \notin due}
                      \cup {RollupOf(p[1], p[2]) : p \in Groups(due)}
        /\ invalid' = invalid \ due
  /\ watermark' = now
  /\ UNCHANGED <<now, telemetry, arrivals>>

\* The refresh policy: the days wholly in its window that have changed are
\* summed up anew. The window starts start_offset ago, at this hour, so that
\* the day it starts in is not one of them.
Refresh ==
  /\ LET due == {p \in invalid : p[2] \in (now - RefreshDays + 1)..(now - 1)}
     IN /\ materialized' = {row \in materialized : <<row.dev, row.day>> \notin due}
                      \cup {RollupOf(p[1], p[2]) : p \in Groups(due)}
        /\ invalid' = invalid \ due
  /\ watermark' = now
  /\ UNCHANGED <<now, telemetry, arrivals>>

\* The retention policy of telemetry; telemetry_daily has none.
Purge ==
  /\ \E r \in telemetry : r.day < now - RetentionDays
  /\ telemetry' = {r \in telemetry : r.day >= now - RetentionDays}
  /\ UNCHANGED <<now, materialized, watermark, invalid, arrivals>>

\* The refresh policy runs every hour: a day does not pass without it.
DayPasses ==
  /\ now < MaxDay
  /\ watermark = now
  /\ now' = now + 1
  /\ UNCHANGED <<telemetry, materialized, watermark, invalid, arrivals>>

RollupsNext ==
  \/ \E dev \in Device, day \in Day, slot \in Slot, kwh \in Counter, glitch \in BOOLEAN :
       Store(dev, day, slot, kwh, glitch)
  \/ Refresh
  \/ Purge
  \/ DayPasses

\* The refresh policy runs again and again.
RollupsSpec == RollupsInit /\ [][RollupsNext]_rollupsVars /\ WF_rollupsVars(Refresh)

(***************************************************************************)
(* Properties.                                                             *)
(***************************************************************************)

\* What telemetry_daily shows of a device-day is what telemetry holds.
Fresh(dev, day) == day >= watermark \/ <<dev, day>> \notin invalid

EnergyOf(dev, day) == Sum([row \in DailyRollup(dev, day) |-> DeviceDayEnergy(row)])

Flagged(dev, day) == \E row \in DailyRollup(dev, day) : row.reset

\* The counter went up all day, but for glitches.
RisingDay(dev, day) ==
  LET readings == Ordered(dev, day)
      good == {i \in DOMAIN readings : ~readings[i].glitch}
  IN /\ good # {}
     /\ \A i, k \in good : i < k => readings[i].kwh <= readings[k].kwh

\* Each glitch is between two good readings, and came after the one before it.
LoneGlitches(dev, day) ==
  LET readings == Ordered(dev, day)
      good == {i \in DOMAIN readings : ~readings[i].glitch}
  IN \A i \in DOMAIN readings \ good :
       {i - 1, i + 1} \subseteq good /\ readings[i - 1].arrived < readings[i].arrived

\* A device's energy of a day its counter went up all of is never less than
\* what it went up by, whatever order the readings came in, wherever glitches
\* fell and whether they were flagged, and whether the rollup is live, has
\* been materialised or refreshed for late readings. It is not more either
\* if a glitch is alone and came in turn, though the rest came in any order.
\* (deviceDayEnergy, filterSpuriousDips, DetectEnergyReset and the refresh.)
DayEnergySound ==
  \A dev \in Device, day \in Day :
    RisingDay(dev, day) /\ Fresh(dev, day) =>
      LET good == {r.kwh : r \in {x \in ReadingsOf(dev, day) : ~x.glitch}}
          rise == Max(good) - Min(good)
      IN /\ EnergyOf(dev, day) >= rise
         /\ LoneGlitches(dev, day) => EnergyOf(dev, day) = rise

\* A report of the past never shrinks: neither the purge of the readings nor
\* a refresh takes anything from a day, as long as no reset is flagged on it.
\* (The order of the retention and refresh windows; migration 0006 keeps
\* telemetry_daily to survive the purge of telemetry.)
PastStands ==
  [][\A dev \in Device, day \in Day :
       ~Flagged(dev, day)' => EnergyOf(dev, day)' >= EnergyOf(dev, day)]_rollupsVars

\* Time and again, telemetry_daily shows what telemetry holds of every day
\* that the refresh window reaches, however late the readings came.
\* (start_offset of migration 0004; yesterday and the day before.)
LateReadingsCount ==
  []<>(\A dev \in Device, day \in Day : day > now - RefreshDays => Fresh(dev, day))

\* "reset detection stays correct under out-of-order/backfilled arrival"
\* (internal/db/telemetry.sql.go:193): a reading below the one before it
\* carries the flag. It need not: the reading before it may come later.
ResetsFlagged ==
  \A r \in telemetry :
    (\E before \in telemetry :
       /\ before.dev = r.dev /\ Earlier(before, r) /\ r.kwh < before.kwh
       /\ ~\E between \in telemetry :
             between.dev = r.dev /\ Earlier(before, between) /\ Earlier(between, r))
    => r.reset
=============================================================================
