------------------------------ MODULE Reports ------------------------------
(***************************************************************************)
(* What the API reports: energy, yield and ratios by site and fleet        *)
(* (internal/registry/analytics.go), comparisons (benchmark.go), avoided   *)
(* emissions (emissions.go) and anomalies (anomaly.go), each worked out    *)
(* from the daily rollup when it is asked for. Rollups says where the      *)
(* energy of a device's day comes from.                                    *)
(*                                                                         *)
(* A series is a function from the starts of its periods to its points. A  *)
(* ratio is left as its two sums. Days are numbers, each for its midnight  *)
(* in UTC, in weeks of WeekDays and months of MonthDays. A range is of the *)
(* days whose midnight lies in it. What a comparison or an anomaly is      *)
(* asked for is a moment: a day, whether it is its midnight, and the       *)
(* Location of the time.Time. The server's own, Local, is taken to be      *)
(* another than UTC that keeps the same hours: the images set no TZ.       *)
(***************************************************************************)
EXTENDS DeviceDays

CONSTANTS
  Site, Country, Cohort, Nil,
  SiteOf,        \* [Device -> Site]
  CountryOf,     \* [Site -> Country]
  CohortOf,      \* [Site -> Cohort \cup {Nil}]
  SizeOf,        \* [Site -> Nat], system_size_kw, 0 when there is none
  Located,       \* sites with coordinates
  CreatedOn,     \* [Site -> Day]
  Irradiance,    \* [Site -> [Day -> Nat]], the weather service; 0 is no data
  Energy,        \* what a device makes on a day
  Factor,        \* kg of CO2 per kWh
  WeekDays, MonthDays,
  WindowDays,    \* of the baseline of an anomaly, 7
  MaxEvents      \* bound: device-days with readings, and factors

ASSUME ReportsAssumption ==
  /\ IsFiniteSet(Site)
  /\ SiteOf \in [Device -> Site]
  /\ CountryOf \in [Site -> Country]
  /\ CohortOf \in [Site -> Cohort \cup {Nil}]
  /\ SizeOf \in [Site -> Nat]
  /\ Located \subseteq Site
  /\ CreatedOn \in [Site -> Day]
  /\ Irradiance \in [Site -> [Day -> Nat]]
  /\ Energy \subseteq Nat
  /\ Factor \subseteq Nat \ {0}
  /\ WeekDays \in Nat \ {0} /\ MonthDays \in Nat \ {0} /\ WindowDays \in Nat \ {0}
  /\ MaxEvents \in Nat
  /\ Nil \notin Cohort

VARIABLES
  today,
  daily,      \* the device-days of telemetry_daily, with their energy
  factors     \* grid_emission_factor, in the order of its ids

reportsVars == <<today, daily, factors>>

DeviceDay == [dev : Device, day : Day, energy : Energy]

EmissionFactor == [id : Nat, country : Country, kg : Factor, from : Day]

Period == {"daily", "weekly", "monthly"}

Moment == [day : Day, midnight : BOOLEAN, zone : {"UTC", "Local"}]

\* parseAsOf, asked for today: now, or at the midnight a bare date stands for.
AsOf(midnight) == [day |-> today, midnight |-> midnight, zone |-> "UTC"]

Events == Cardinality(daily) + Cardinality(factors)

(***************************************************************************)
(* Energy.                                                                 *)
(***************************************************************************)

\* What some of the rows add up to.
rowEnergy == [row \in daily |-> row.energy]

Total(some) == SumOver(some, rowEnergy)

At(series, period) == IF period \in DOMAIN series THEN series[period] ELSE 0

Days(period) ==
  CASE period = "weekly" -> WeekDays
    [] period = "monthly" -> MonthDays
    [] OTHER -> 1

\* Of the midnights rows are of.
PeriodBucket(day, period) == day - ((day - 1) % Days(period))

periodBucketEnd(start, period) == start + Days(period)

ListSiteDailyRollup(site, from, to) ==
  {row \in daily : SiteOf[row.dev] = site /\ row.day \in from..to}

ListFleetDailyRollup(cohort, from, to) ==
  {row \in daily : /\ row.day \in from..to
                   /\ cohort = Nil \/ CohortOf[SiteOf[row.dev]] = cohort}

\* The rows of one day become one, whatever device they are of.
ByDay(some) ==
  [day \in {row.day : row \in some} |-> Total({row \in some : row.day = day})]

loadSiteDailyRows(site, from, to) == ByDay(ListSiteDailyRollup(site, from, to))

loadFleetDailyRows(cohort, from, to) == ByDay(ListFleetDailyRollup(cohort, from, to))

bucketDailyRows(days, period) ==
  [bucket \in {PeriodBucket(day, period) : day \in DOMAIN days} |->
     SumOver({day \in DOMAIN days : PeriodBucket(day, period) = bucket}, days)]

SiteEnergy(site, period, from, to) ==
  bucketDailyRows(loadSiteDailyRows(site, from, to), period)

FleetEnergy(cohort, period, from, to) ==
  bucketDailyRows(loadFleetDailyRows(cohort, from, to), period)

FleetEnergyByCountry(cohort, period, from, to) ==
  LET some == ListFleetDailyRollup(cohort, from, to)
      of(country) == {row \in some : CountryOf[SiteOf[row.dev]] = country}
  IN [country \in {CountryOf[SiteOf[row.dev]] : row \in some} |->
        bucketDailyRows(ByDay(of(country)), period)]

(***************************************************************************)
(* Energy over something else.                                             *)
(***************************************************************************)

\* SiteSpecificYield, or ErrNoSystemSize as Nil.
SiteSpecificYield(site, period, from, to) ==
  IF SizeOf[site] = 0 THEN Nil
  ELSE LET series == SiteEnergy(site, period, from, to)
       IN [p \in DOMAIN series |-> [energy |-> series[p], size |-> SizeOf[site]]]

FleetCapacity(cohort) ==
  SumOver({site \in Site : cohort = Nil \/ CohortOf[site] = cohort}, SizeOf)

FleetSpecificYield(cohort, period, from, to) ==
  IF FleetCapacity(cohort) = 0 THEN Nil
  ELSE LET series == FleetEnergy(cohort, period, from, to)
       IN [p \in DOMAIN series |-> [energy |-> series[p], size |-> FleetCapacity(cohort)]]

SiteCapacityFactor(site, period, from, to) ==
  IF SizeOf[site] = 0 THEN Nil
  ELSE LET days == loadSiteDailyRows(site, from, to)
           of(p) == {day \in DOMAIN days : PeriodBucket(day, period) = p}
       IN [p \in {PeriodBucket(day, period) : day \in DOMAIN days} |->
             [energy |-> SumOver(of(p), days),
              most |-> 24 * SizeOf[site] * Cardinality(of(p))]]

\* A day without irradiance counts on neither side.
bucketPerformanceRatio(days, site, period) ==
  LET sunny == {day \in DOMAIN days : Irradiance[site][day] > 0}
      of(p) == {day \in sunny : PeriodBucket(day, period) = p}
  IN [p \in {PeriodBucket(day, period) : day \in sunny} |->
        [energy |-> SumOver(of(p), days),
         expected |-> Sum([day \in of(p) |-> Irradiance[site][day] * SizeOf[site]])]]

Usable == {site \in Located : SizeOf[site] > 0}

SitePerformanceRatio(site, period, from, to) ==
  IF site \notin Usable THEN Nil
  ELSE bucketPerformanceRatio(SiteEnergy(site, "daily", from, to), site, period)

FleetPerformanceRatio(cohort, period, from, to) ==
  LET sites == {site \in Usable : cohort = Nil \/ CohortOf[site] = cohort}
      series == [site \in sites |-> SitePerformanceRatio(site, period, from, to)]
      with(p) == {site \in sites : p \in DOMAIN series[site]}
  IN IF sites = {} THEN Nil
     ELSE [p \in UNION {DOMAIN series[site] : site \in sites} |->
             [energy |-> Sum([site \in with(p) |-> series[site][p].energy]),
              expected |-> Sum([site \in with(p) |-> series[site][p].expected])]]

(***************************************************************************)
(* Comparisons.                                                            *)
(***************************************************************************)

\* The sites a page of the best shows; the order among equals is not said.
TopSitesToday(limit) ==
  LET kwh(site) == At(SiteEnergy(site, "daily", today, today), today)
  IN {some \in SUBSET Site :
        /\ Cardinality(some) = IF Cardinality(Site) < limit THEN Cardinality(Site) ELSE limit
        /\ \A a \in some, b \in Site \ some : kwh(a) >= kwh(b)}

\* PeriodBucket of a moment: only of a month does it take the hour away.
PeriodStart(asOf, period) ==
  [day |-> PeriodBucket(asOf.day, period), midnight |-> period = "monthly" \/ asOf.midnight]

FirstDay(start) == IF start.midnight THEN start.day ELSE start.day + 1

\* The points are at midnights, and compared by Equal.
PointAt(series, start) == IF start.midnight THEN At(series, start.day) ELSE 0

\* Mutant: whatever the period, the one before it began a day earlier.
PreviousDay(start, period) == [start EXCEPT !.day = @ - 1]

\* periodRangeCovering
PreviousStart(start, period) == [start EXCEPT !.day = @ - Days(period)]

CompareHistory(site, period, asOf) ==
  LET current == PeriodStart(asOf, period)
      previous == PreviousStart(current, period)
      series == SiteEnergy(site, period, FirstDay(previous), asOf.day)
  IN [current |-> PointAt(series, current), previous |-> PointAt(series, previous)]

sitePeriodEnergy(site, period, asOf) ==
  LET start == PeriodStart(asOf, period)
  IN PointAt(SiteEnergy(site, period, FirstDay(start), asOf.day), start)

CompareFleet(site, period, asOf) ==
  LET value == [s \in Site |-> sitePeriodEnergy(s, period, asOf)]
  IN [energy |-> value[site], total |-> Sum(value), siteCount |-> Cardinality(Site),
      belowOrEqual |-> Cardinality({s \in Site : value[s] <= value[site]})]

\* Segments by cohort; a site of none is of no segment.
Segment(period, asOf) ==
  [key \in {CohortOf[site] : site \in Site} \ {Nil} |->
     Sum([site \in {s \in Site : CohortOf[s] = key} |-> sitePeriodEnergy(site, period, asOf)])]

Trends(period, from, to) ==
  LET energy == FleetEnergy(Nil, period, from, to)
      there(p) == {site \in Site : CreatedOn[site] < periodBucketEnd(p, period)}
  IN [p \in DOMAIN energy |->
        [capacity |-> SumOver(there(p), SizeOf),
         sites |-> Cardinality(there(p)),
         energy |-> energy[p]]]

CohortSummary(cohort, period, from, to) ==
  [capacity |-> SumOver({site \in Site : CohortOf[site] = cohort}, SizeOf),
   energy |-> FleetEnergy(cohort, period, from, to)]

(***************************************************************************)
(* Emissions.                                                              *)
(***************************************************************************)

FactorsOf(country) == {f \in factors : f.country = country}

\* ORDER BY effective_from; ties are left to the database, here to the id.
After(a, b) == a.from > b.from \/ (a.from = b.from /\ a.id > b.id)

LastOf(some) == CHOOSE f \in some : \A other \in some \ {f} : After(f, other)

FirstOf(some) == CHOOSE f \in some : \A other \in some \ {f} : After(other, f)

\* Current, or ErrNoEmissionFactor as Nil.
Current(country) == IF FactorsOf(country) = {} THEN Nil ELSE LastOf(FactorsOf(country))

\* Mutant: every period is given the factor of today.
factorNow(country, asOf) == LastOf(FactorsOf(country))

factorAsOf(country, asOf) ==
  LET effective == {f \in FactorsOf(country) : f.from <= asOf}
  IN IF effective = {} THEN FirstOf(FactorsOf(country)) ELSE LastOf(effective)

toSeries(country, energy) == [p \in DOMAIN energy |-> energy[p] * factorAsOf(country, p).kg]

SiteEmissions(site, period, from, to) ==
  IF Current(CountryOf[site]) = Nil THEN Nil
  ELSE toSeries(CountryOf[site], SiteEnergy(site, period, from, to))

\* A country without a factor is left out, and all of them are an error.
FleetEmissions(cohort, period, from, to) ==
  LET byCountry == FleetEnergyByCountry(cohort, period, from, to)
      configured == {c \in DOMAIN byCountry : Current(c) # Nil}
      series == [c \in configured |-> toSeries(c, byCountry[c])]
  IN IF DOMAIN byCountry # {} /\ configured = {} THEN Nil
     ELSE [p \in UNION {DOMAIN series[c] : c \in configured} |->
             Sum([c \in configured |-> At(series[c], p)])]

(***************************************************************************)
(* Anomalies.                                                              *)
(***************************************************************************)

\* The days a key of a zone finds: rows' days are Local as the driver gives
\* them, and Go's == on time.Time, of map keys too, compares the Location.
Found(days, zone) == IF zone = "Local" THEN DOMAIN days ELSE {}

\* Mutant: a day without readings counts as one without energy.
BaselineOfAll(days, asOf) == asOf.day - WindowDays .. asOf.day - 1

Baseline(days, asOf) == (asOf.day - WindowDays .. asOf.day - 1) \cap Found(days, asOf.zone)

\* evaluate: less than half of the average of the window, as two whole numbers.
evaluate(days, asOf) ==
  LET window == Baseline(days, asOf)
      total == Sum([day \in window |-> At(days, day)])
  IN /\ asOf.day \in Found(days, asOf.zone)
     /\ window # {}
     /\ total > 0
     /\ total >= 2 * days[asOf.day] * Cardinality(window)

SiteAnomalies(site, asOf) ==
  evaluate(loadSiteDailyRows(site, asOf.day - WindowDays, asOf.day), asOf)

FleetAnomalies(asOf) == {site \in Site : SiteAnomalies(site, asOf)}

(***************************************************************************)
(* Actions.                                                                *)
(***************************************************************************)

ReportsInit ==
  /\ today = 1
  /\ daily = {}
  /\ factors = {}

\* A device's day has readings: today's, or an earlier one's that come late.
Report(dev, day, energy) ==
  /\ Events < MaxEvents
  /\ day <= today
  /\ ~\E row \in daily : row.dev = dev /\ row.day = day
  /\ daily' = daily \cup {[dev |-> dev, day |-> day, energy |-> energy]}
  /\ UNCHANGED <<today, factors>>

\* Emissions.Set: a row more, effective from whenever the operator says.
SetFactor(country, kg, from) ==
  /\ Events < MaxEvents
  /\ factors' = factors \cup
       {[id |-> Cardinality(factors) + 1, country |-> country, kg |-> kg, from |-> from]}
  /\ UNCHANGED <<today, daily>>

NextDay ==
  /\ today < MaxDay
  /\ today' = today + 1
  /\ UNCHANGED <<daily, factors>>

ReportsNext ==
  \/ \E dev \in Device, day \in Day, energy \in Energy : Report(dev, day, energy)
  \/ \E country \in Country, kg \in Factor, from \in Day : SetFactor(country, kg, from)
  \/ NextDay

ReportsSpec == ReportsInit /\ [][ReportsNext]_reportsVars

(***************************************************************************)
(* Properties.                                                             *)
(***************************************************************************)

Ranges == {range \in Day \X Day : range[1] <= range[2]}

\* However the fleet is cut, by site, country or cohort, the parts add up to
\* it in every period, and the weeks add up to the days.
EnergyAddsUp ==
  \A range \in Ranges, period \in Period :
    LET from == range[1]
        to == range[2]
        fleet == FleetEnergy(Nil, period, from, to)
        site == [s \in Site |-> SiteEnergy(s, period, from, to)]
        country == FleetEnergyByCountry(Nil, period, from, to)
        sum(parts, p) == Sum([x \in DOMAIN parts |-> At(parts[x], p)])
    IN /\ \A p \in DOMAIN fleet : fleet[p] = sum(site, p) /\ fleet[p] = sum(country, p)
       /\ Sum(fleet) = Sum(loadFleetDailyRows(Nil, from, to))
       /\ \A c \in Cohort :
            Sum(CohortSummary(c, period, from, to).energy)
              = Sum([s \in {x \in Site : CohortOf[x] = c} |-> Sum(site[s])])

\* A period's figure is the same in every comparison, and the one before it
\* is all of that period: by months, or asked for as of a midnight.
ComparisonsAgree ==
  \A period \in Period, midnight \in BOOLEAN :
    LET start == PeriodBucket(today, period)
        asOf == AsOf(midnight)
        compared == [s \in Site |-> CompareFleet(s, period, asOf)]
        segments == Segment(period, asOf)
        trends == Trends(period, start, today)
    IN period = "monthly" \/ midnight =>
         /\ \A s \in Site :
              LET history == CompareHistory(s, period, asOf)
              IN /\ history.current = compared[s].energy
                 /\ history.previous = Sum(SiteEnergy(s, "daily", start - Days(period), start - 1))
                 /\ compared[s].total = Sum(FleetEnergy(Nil, period, start, today))
                 /\ start \in DOMAIN trends => trends[start].energy = compared[s].total
         /\ \A c \in DOMAIN segments :
              segments[c] = Sum(FleetEnergy(c, "daily", start, today))
         /\ period = "daily" => \A s \in UNION TopSitesToday(1) :
              compared[s].belowOrEqual = Cardinality(Site)

\* The fleet's avoided emissions are those of its sites, but for countries
\* without a factor; and the fleet's performance lies between its sites'.
FleetIsItsSites ==
  \A range \in Ranges, period \in Period :
    LET from == range[1]
        to == range[2]
        kg == FleetEmissions(Nil, period, from, to)
        site == [s \in {x \in Site : Current(CountryOf[x]) # Nil} |->
                   SiteEmissions(s, period, from, to)]
        ratio == [s \in Usable |-> SitePerformanceRatio(s, period, from, to)]
        fleet == FleetPerformanceRatio(Nil, period, from, to)
    IN /\ kg # Nil => Sum(kg) = Sum([s \in DOMAIN site |-> Sum(site[s])])
       /\ fleet # Nil =>
            \A p \in DOMAIN fleet :
              \E low, high \in {s \in Usable : p \in DOMAIN ratio[s]} :
                /\ ratio[low][p].energy * fleet[p].expected <= fleet[p].energy * ratio[low][p].expected
                /\ ratio[high][p].energy * fleet[p].expected >= fleet[p].energy * ratio[high][p].expected

\* Capacity factor, yield and energy are of the same periods and energies, no
\* capacity factor counts more hours than its period has, and no fleet yields
\* more than its best site, unless a site without a size makes energy.
RatiosAgree ==
  \A range \in Ranges, period \in Period :
    LET from == range[1]
        to == range[2]
        sized == {s \in Site : SizeOf[s] > 0}
        yield == [s \in sized |-> SiteSpecificYield(s, period, from, to)]
        load == [s \in sized |-> SiteCapacityFactor(s, period, from, to)]
        fleet == FleetSpecificYield(Nil, period, from, to)
    IN /\ \A s \in sized :
            /\ DOMAIN load[s] = DOMAIN yield[s]
            /\ \A p \in DOMAIN load[s] :
                 /\ load[s][p].energy = yield[s][p].energy
                 /\ load[s][p].most <= 24 * yield[s][p].size * Days(period)
       /\ (\A s \in Site \ sized : DOMAIN SiteEnergy(s, period, from, to) = {}) /\ fleet # Nil =>
            \A p \in DOMAIN fleet :
              \E best \in sized :
                /\ p \in DOMAIN yield[best]
                /\ fleet[p].energy * yield[best][p].size <= yield[best][p].energy * fleet[p].size

\* The reports agree with one another, whatever they are asked for. (All of
\* analytics.go and benchmark.go, which work the same figures out over ranges,
\* periods and groups of their own.)
ReportsAgree == EnergyAddsUp /\ RatiosAgree /\ ComparisonsAgree /\ FleetIsItsSites

\* A factor that takes effect later leaves the emissions of earlier periods
\* as they were reported. (factorAsOf: "a later revision never silently
\* rewrites CO2 figures for periods before it existed\".)
FactorHistoryStable ==
  [][\A new \in factors' \ factors, p \in Day :
       p < new.from /\ (\E old \in FactorsOf(new.country) : old.from <= p)
         => factorAsOf(new.country, p).kg' = factorAsOf(new.country, p).kg]_reportsVars

\* Whether the day made less than half of every day of its window that has
\* readings.
BelowHalf(site, asOf) ==
  LET days == loadSiteDailyRows(site, asOf.day - WindowDays, asOf.day)
      window == DOMAIN days \ {asOf.day}
  IN asOf.day \in DOMAIN days /\ window # {} /\ \A day \in window : days[day] > 2 * days[asOf.day]

\* A flagged day has a day in its window that made at least twice as much, and
\* asked for in the server's own Location, a day below half of all those of its
\* window is flagged. (evaluate, which takes the window's days as they come.)
AnomalyJustified ==
  \A site \in Site, asOf \in Moment :
    LET days == loadSiteDailyRows(site, 1, MaxDay)
    IN /\ site \in FleetAnomalies(asOf) =>
            \E day \in DOMAIN days :
              day \in (asOf.day - WindowDays)..(asOf.day - 1) /\ days[day] > 0 /\ days[day] >= 2 * days[asOf.day]
       /\ asOf.zone = "Local" /\ BelowHalf(site, asOf) => site \in FleetAnomalies(asOf)
=============================================================================
