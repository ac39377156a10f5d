---------------------------- MODULE OperatorSync ----------------------------
(***************************************************************************)
(* The connectors that poll a vendor account of the operator's own         *)
(* (cmd/pvpro-sync, cmd/solarman-sync). One process runs one cycle after   *)
(* another: it lists the account's plants and their inverters, finds or    *)
(* creates a site for each plant, registers the inverters that are not     *)
(* registered, has a cloud-import token issued for each, and submits a     *)
(* reading of each. What it found out it keeps in memory, never on disk.   *)
(*                                                                         *)
(* The two programs have the same loop and differ in how the vendor's      *)
(* answers are taken: kind says which one runs. Operators and the poller   *)
(* of customers' accounts register devices and have tokens issued          *)
(* meanwhile. Every call may fail, or succeed with its answer lost.        *)
(*                                                                         *)
(* The site that the connector creates for a plant has an id made of the   *)
(* plant's (PVPRO-<id>, SOLARMAN-<id>): it is named by the plant here.     *)
(* What becomes of a reading once it is submitted is Ingestion's.          *)
(***************************************************************************)
EXTENDS Integers, Sequences, SequencesExt

CONSTANTS
  Kinds,      \* the programs looked at: "pvpro", "solarman"
  Plant,
  Device,     \* inverters with a serial number; a device is named by it
  PlantList,  \* the account's plants in the order the vendor lists them
  Inverters,  \* the inverters of each plant in the vendor's order
  Broken,     \* plants for which the vendor always fails
  Located,    \* Solarman stations with a field that stationCoords knows
  Truth,      \* what each inverter really measures, None where it does not
  HandSite,   \* the site under which an operator registers by hand
  MaxFaults,  \* calls that fail, answers lost, restarts, tokens withdrawn
  None        \* nothing: no device, no site, no value

ASSUME OperatorSyncAssumption ==
  /\ Kinds \subseteq {"pvpro", "solarman"}
  /\ PlantList \in Seq(Plant) /\ PlantList # <<>>
  /\ Inverters \in [Plant -> Seq(Device)]
  /\ \A p \in Plant : Inverters[p] # <<>>
  /\ \A p, q \in Plant : \A i \in DOMAIN Inverters[p], k \in DOMAIN Inverters[q] :
       Inverters[p][i] = Inverters[q][k] => p = q
  /\ MaxFaults \in Nat
  /\ HandSite \notin Plant /\ None \notin Plant \cup {HandSite} /\ None \notin Device

ASSUME TruthAssumption ==
  /\ None \notin Int
  /\ \A d \in Device :
       /\ Truth[d].power \in Int \cup {None} /\ Truth[d].energy \in Nat \cup {None}
       /\ Truth[d].import \in Int \cup {None}
       /\ Truth[d].packs \in Seq(Nat) /\ Truth[d].strings \in Seq(Nat)
       /\ Truth[d].phases \in Seq(Nat)

VARIABLES
  kind,     \* which of the two programs
  token,    \* its access token at the vendor: the vendor may have withdrawn it
  job,      \* where its cycle is
  known,    \* the map known: the site cached for each device, None if no entry
  live,     \* devices whose cached cloud-import token is not revoked
  place,    \* the site each device is registered under
  located,  \* the position each plant's own site was created with
  raced,    \* plants of which a device was registered by someone else while
            \* the connector was between looking it up and registering
  fresh,    \* devices with a reading submitted and stored in this cycle
  posted,   \* the reading stored by the latest step, and its device
  faults    \* how many so far

vars == <<kind, token, job, known, live, place, located, raced, fresh, posted, faults>>
platform == <<place, located, raced>>

Site == Plant \cup {HandSite}
InPlant == {"look", "site", "detail", "create_site", "find", "create_device", "issue"}
Idle == [pc |-> "idle", plant |-> 1, inv |-> 1, target |-> None, where |-> "none", queue |-> <<>>]

InvertersOf(p) == ToSet(Inverters[p])
JobPlant == PlantList[job.plant]
JobDevice == Inverters[JobPlant][job.inv]
Working(p) == job.pc \in InPlant /\ JobPlant = p

Init ==
  /\ kind \in Kinds
  /\ token = "none"
  /\ job = Idle
  /\ known = [d \in Device |-> None]
  /\ live = {}
  /\ place = [d \in Device |-> None]
  /\ located = [p \in Plant |-> "absent"]
  /\ raced = {}
  /\ fresh = {}
  /\ posted = None
  /\ faults = 0

(* How a vendor's answer is taken ******************************************)

\* PV Pro reports a battery, a grid meter and a load meter that are not there
\* as 0 and says so in exists*; with several packs the voltage is theirs.
PVProFlow(t) ==
  [existsBattery |-> t.packs # <<>>,
   battV |-> IF Len(t.packs) = 1 THEN t.packs[1] ELSE 0,
   packs |-> IF Len(t.packs) = 1 THEN <<>> ELSE t.packs,
   existsGrid |-> t.import # None,
   gridPower |-> IF t.import = None THEN 0 ELSE t.import]

\* Solarman leaves out what is not there, and counts an export as positive.
SolarmanData(t) ==
  LET point == [T_AC_OP |-> t.power, Et_ge0 |-> t.energy,
                PG_Pt1 |-> IF t.import = None THEN None ELSE 0 - t.import]
  IN Restrict(point, {k \in DOMAIN point : point[k] # None})

Value(data, key) == IF key \in DOMAIN data THEN data[key] ELSE None

\* A number that is not there and whose absence nobody looks at: PV Pro's
\* fields Pac and Etotal, and ac and energy with the ok of value discarded.
OrZero(x) == IF x = None THEN 0 ELSE x

\* The loops of BatteryVoltage, getPVVoltage and getOutputVoltage: the sum of
\* the values that are not silent, and how many they are.
Tally(s, silent) ==
  LET after[i \in 0 .. Len(s)] ==
        IF i = 0 THEN [sum |-> 0, n |-> 0]
        ELSE IF s[i] \in silent THEN after[i - 1]
        ELSE [sum |-> after[i - 1].sum + s[i], n |-> after[i - 1].n + 1]
  IN after[Len(s)]

Mean(s, silent) ==
  LET all == Tally(s, silent) IN IF all.n = 0 THEN None ELSE all.sum \div all.n

\* A pack that reports 0 is taken to report nothing.
BatteryVoltage(flow) == IF flow.battV # 0 THEN flow.battV ELSE Mean(flow.packs, {0})

\* kW(None) stays None: what the vendor left out is left out here.
kW(w) == IF w = None THEN None ELSE w \div 1000

PVProReading(t, pvVoltage, outputVoltage) ==
  LET flow == PVProFlow(t)
  IN [power_kw |-> kW(OrZero(t.power)), energy_kwh_total |-> OrZero(t.energy),
      pv_voltage_v |-> pvVoltage, output_voltage_v |-> outputVoltage,
      battery_voltage_v |-> IF flow.existsBattery THEN BatteryVoltage(flow) ELSE None,
      grid_power_kw |-> IF flow.existsGrid THEN kW(flow.gridPower) ELSE None]

\* Mutant: the vendor's sign is kept.
SolarmanReadingSameSign(t) ==
  LET data == SolarmanData(t)
  IN [power_kw |-> kW(OrZero(Value(data, "T_AC_OP"))),
      energy_kwh_total |-> OrZero(Value(data, "Et_ge0")),
      pv_voltage_v |-> None, output_voltage_v |-> None,
      battery_voltage_v |-> None, grid_power_kw |-> kW(Value(data, "PG_Pt1"))]

SolarmanReading(t) ==
  LET data == SolarmanData(t)
  IN [power_kw |-> kW(OrZero(Value(data, "T_AC_OP"))),
      energy_kwh_total |-> OrZero(Value(data, "Et_ge0")),
      pv_voltage_v |-> None, output_voltage_v |-> None,
      battery_voltage_v |-> None,
      grid_power_kw |-> IF Value(data, "PG_Pt1") = None THEN None
                        ELSE kW(0 - Value(data, "PG_Pt1"))]

\* getPVVoltage: the mean of the strings that report, if any does.
PVVoltage(t) == Mean(t.strings, {})

\* getOutputVoltage: likewise of the phases.
OutputVoltage(t) == Mean(t.phases, {})

\* stationCoords gives 0, 0 and ok = FALSE when it knows no field; ok is logged
\* and the coordinates are sent all the same.
StationCoords(p) == IF p \in Located THEN "exact" ELSE "zero"

(* One cycle ***************************************************************)

NextPlant(j) ==
  IF j.plant < Len(PlantList)
  THEN [j EXCEPT !.pc = "inverters", !.plant = @ + 1, !.inv = 1,
                 !.target = None, !.where = "none"]
  ELSE [j EXCEPT !.pc = "sync", !.inv = 1, !.target = None, !.where = "none"]

\* Mutant: the last inverter is not recognised as the last.
NextInverterOffByOne(j) ==
  IF j.inv <= Len(Inverters[PlantList[j.plant]])
  THEN [j EXCEPT !.pc = "find", !.inv = @ + 1]
  ELSE NextPlant(j)

NextInverter(j) ==
  IF j.inv < Len(Inverters[PlantList[j.plant]])
  THEN [j EXCEPT !.pc = "find", !.inv = @ + 1]
  ELSE NextPlant(j)

Ensure(j, s) == [j EXCEPT !.pc = "find", !.inv = 1, !.target = s]

Tick ==
  /\ job.pc = "idle"
  /\ job' = [Idle EXCEPT !.pc = "plants"]
  /\ fresh' = {}
  /\ posted' = None
  /\ UNCHANGED <<kind, token, known, live, platform, faults>>

\* The token is renewed when none is held or it is past its time; a token that
\* the vendor withdrew before is used as it is.
EnsureToken == token' = IF token = "none" THEN "good" ELSE token
Refused == token = "withdrawn"

Moves(j) ==
  /\ job' = j
  /\ posted' = None
  /\ UNCHANGED <<kind, fresh>>

Fault == faults < MaxFaults /\ faults' = faults + 1
NoFault == faults' = faults

\* A call fails because it must, or as one of the faults.
FailsIf(cause) == IF cause THEN NoFault ELSE Fault

\* PV Pro's refusal decodes as an account without plants: nothing is synced.
GetPlants ==
  /\ kind = "pvpro" /\ job.pc = "plants"
  /\ EnsureToken
  /\ Moves([job EXCEPT !.pc = IF Refused THEN "sync" ELSE "inverters"])
  /\ NoFault
  /\ UNCHANGED <<known, live, platform>>

ListStations ==
  /\ kind = "solarman" /\ job.pc = "plants" /\ ~ Refused
  /\ EnsureToken
  /\ Moves([job EXCEPT !.pc = "inverters"])
  /\ NoFault
  /\ UNCHANGED <<known, live, platform>>

GetPlantsFails ==
  /\ job.pc = "plants"
  /\ Moves(Idle)
  /\ FailsIf(Refused)
  /\ UNCHANGED <<token, known, live, platform>>

\* A refusal again decodes as nothing, here a plant without inverters.
GetInverters ==
  /\ kind = "pvpro" /\ job.pc = "inverters" /\ JobPlant \notin Broken
  /\ EnsureToken
  /\ Moves(IF Refused THEN NextPlant(job) ELSE [job EXCEPT !.pc = "look"])
  /\ NoFault
  /\ UNCHANGED <<known, live, platform>>

ListDevices ==
  /\ kind = "solarman" /\ job.pc = "inverters" /\ ~ Refused /\ JobPlant \notin Broken
  /\ EnsureToken
  /\ Moves([job EXCEPT !.pc = "look"])
  /\ NoFault
  /\ UNCHANGED <<known, live, platform>>

\* Mutant: one plant's failure ends the cycle, return for continue.
GetInvertersFailsReturns ==
  /\ job.pc = "inverters"
  /\ Moves(Idle)
  /\ FailsIf(Refused \/ JobPlant \in Broken)
  /\ UNCHANGED <<token, known, live, platform>>

GetInvertersFails ==
  /\ job.pc = "inverters"
  /\ Moves(NextPlant(job))
  /\ FailsIf(Refused \/ JobPlant \in Broken)
  /\ UNCHANGED <<token, known, live, platform>>

\* Mutant: what is registered is not looked up.
LookUpNothing ==
  /\ job.pc = "look"
  /\ Moves([job EXCEPT !.pc = "site"])
  /\ NoFault
  /\ UNCHANGED <<token, known, live, platform>>

\* reconcileSite, for one inverter: its site if the cache has it, or else if
\* it is registered; after the last one the plant is new.
LookUp ==
  /\ job.pc = "look"
  /\ LET found == IF known[JobDevice] # None THEN known[JobDevice] ELSE place[JobDevice]
     IN Moves(IF found # None THEN Ensure(job, found)
              ELSE IF job.inv < Len(Inverters[JobPlant])
                   THEN [job EXCEPT !.inv = @ + 1]
                   ELSE [job EXCEPT !.pc = "site"])
  /\ NoFault
  /\ UNCHANGED <<token, known, live, platform>>

\* The id is made of the plant's: an earlier cycle may have created the site.
SiteExists ==
  /\ kind = "pvpro" /\ job.pc = "site"
  /\ Moves(IF located[JobPlant] # "absent" THEN Ensure(job, JobPlant)
           ELSE [job EXCEPT !.pc = "detail"])
  /\ NoFault
  /\ UNCHANGED <<token, known, live, platform>>

StationSiteExists ==
  /\ kind = "solarman" /\ job.pc = "site"
  /\ Moves(IF located[JobPlant] # "absent" THEN Ensure(job, JobPlant)
           ELSE [job EXCEPT !.pc = "create_site", !.where = StationCoords(JobPlant)])
  /\ NoFault
  /\ UNCHANGED <<token, known, live, platform>>

\* PV Pro only. A refusal decodes as a plant at 0, 0.
GetPlantDetail ==
  /\ job.pc = "detail"
  /\ EnsureToken
  /\ Moves([job EXCEPT !.pc = "create_site", !.where = IF Refused THEN "zero" ELSE "exact"])
  /\ NoFault
  /\ UNCHANGED <<known, live, platform>>

CreateSite ==
  /\ job.pc = "create_site"
  /\ located[JobPlant] = "absent"
  /\ located' = [located EXCEPT ![JobPlant] = job.where]
  /\ \/ Moves(Ensure(job, JobPlant)) /\ NoFault
     \/ Moves(NextPlant(job)) /\ Fault              \* the answer is lost
  /\ UNCHANGED <<token, known, live, place, raced>>

\* A failure while the plant's site is looked for ends the plant's turn.
ReconcileFails ==
  /\ job.pc \in {"look", "site", "detail", "create_site"}
  /\ job.pc = "look" => known[JobDevice] = None      \* otherwise no call is made
  /\ Moves(NextPlant(job))
  /\ Fault
  /\ UNCHANGED <<token, known, live, platform>>

\* ensureDeviceRegisteredAndTokenCached begins by looking the device up again.
FindDevice ==
  /\ job.pc = "find"
  /\ Moves(IF known[JobDevice] # None
           THEN NextInverter([job EXCEPT !.queue = Append(@, JobDevice)])
           ELSE [job EXCEPT !.pc = IF place[JobDevice] = None THEN "create_device" ELSE "issue"])
  /\ NoFault
  /\ UNCHANGED <<token, known, live, platform>>

CreateDevice ==
  /\ job.pc = "create_device"
  /\ place[JobDevice] = None
  /\ place' = [place EXCEPT ![JobDevice] = job.target]
  /\ \/ Moves([job EXCEPT !.pc = "issue"]) /\ NoFault
     \/ Moves(NextInverter(job)) /\ Fault           \* the answer is lost
  /\ UNCHANGED <<token, known, live, located, raced>>

IssueToken ==
  /\ job.pc = "issue"
  /\ known' = [known EXCEPT ![JobDevice] = job.target]
  /\ live' = live \cup {JobDevice}
  /\ Moves(NextInverter([job EXCEPT !.queue = Append(@, JobDevice)]))
  /\ NoFault
  /\ UNCHANGED <<token, platform>>

\* A failure while a device is made ready leaves that device out of the cycle.
\* A token issued with its answer lost changes nothing the connector holds.
EnsureFails ==
  /\ job.pc \in {"find", "create_device", "issue"}
  /\ job.pc = "find" => known[JobDevice] = None
  /\ Moves(NextInverter(job))
  /\ FailsIf(job.pc = "create_device" /\ place[JobDevice] # None)
  /\ UNCHANGED <<token, known, live, platform>>

Reading(d) ==
  IF kind = "pvpro"
  THEN {PVProReading(Truth[d], v, w) :
          v \in {None, PVVoltage(Truth[d])}, w \in {None, OutputVoltage(Truth[d])}}
  ELSE {SolarmanReading(Truth[d])}

\* A reading is fetched, built and submitted with the cached token. PV Pro's
\* flow call is the one that looks into the answer's body for a refusal.
Submit ==
  /\ job.pc = "sync" /\ job.queue # <<>>
  /\ ~ Refused /\ Head(job.queue) \in live
  /\ EnsureToken
  /\ \E r \in Reading(Head(job.queue)) : posted' = [dev |-> Head(job.queue), reading |-> r]
  /\ fresh' = fresh \cup {Head(job.queue)}
  /\ job' = [job EXCEPT !.queue = Tail(@)]
  /\ UNCHANGED <<kind, known, live, platform, faults>>

\* Any call of it fails, or the platform refuses a token that is revoked: the
\* error is logged and the entry in known stays.
SubmitFails ==
  /\ job.pc = "sync" /\ job.queue # <<>>
  /\ Moves([job EXCEPT !.queue = Tail(@)])
  /\ FailsIf(Refused \/ Head(job.queue) \notin live)
  /\ UNCHANGED <<token, known, live, platform>>

CycleEnds ==
  /\ job.pc = "sync" /\ job.queue = <<>>
  /\ Moves(Idle)
  /\ NoFault
  /\ UNCHANGED <<token, known, live, platform>>

(* What the connector does not do ******************************************)

\* The process dies and starts again, with nothing in memory.
Restart ==
  /\ Fault
  /\ job' = Idle
  /\ token' = "none"
  /\ known' = [d \in Device |-> None]
  /\ live' = {}
  /\ posted' = None
  /\ UNCHANGED <<kind, platform, fresh>>

VendorWithdraws ==
  /\ token = "good"
  /\ Fault
  /\ token' = "withdrawn"
  /\ posted' = None
  /\ UNCHANGED <<kind, job, known, live, platform, fresh>>

\* tokenExpiresAt, or tokenAt + expiresIn, passes.
TokenRunsOut ==
  /\ token # "none"
  /\ token' = "none"
  /\ posted' = None
  /\ UNCHANGED <<kind, job, known, live, platform, fresh, faults>>

\* Anyone else has a token issued for a device: the connector's is revoked.
OthersIssueToken(d) ==
  /\ place[d] # None
  /\ live' = live \ {d}
  /\ posted' = None
  /\ UNCHANGED <<kind, token, job, known, platform, fresh, faults>>

\* An operator, or the poller of customers' accounts, registers an inverter:
\* under any site there is, wherever the plant's others are.
OthersRegister(p, d, s) ==
  /\ d \in InvertersOf(p) /\ place[d] = None
  /\ s \in {HandSite} \cup {q \in Plant : located[q] # "absent"}
  /\ place' = [place EXCEPT ![d] = s]
  /\ raced' = IF Working(p) THEN raced \cup {p} ELSE raced
  /\ posted' = None
  /\ UNCHANGED <<kind, token, job, known, live, located, fresh, faults>>

Cycle ==
  \/ Tick
  \/ GetPlants \/ ListStations \/ GetPlantsFails
  \/ GetInverters \/ ListDevices \/ GetInvertersFails
  \/ LookUp \/ SiteExists \/ StationSiteExists \/ GetPlantDetail \/ CreateSite \/ ReconcileFails
  \/ FindDevice \/ CreateDevice \/ IssueToken \/ EnsureFails
  \/ Submit \/ SubmitFails \/ CycleEnds

Next ==
  \/ Cycle
  \/ Restart \/ VendorWithdraws \/ TokenRunsOut
  \/ \E d \in Device : OthersIssueToken(d)
  \/ \E p \in Plant, d \in Device, s \in Site : OthersRegister(p, d, s)

Safe == Init /\ [][Next]_vars

\* The ticker fires, every call returns, and the token's time passes.
Spec == Safe /\ WF_vars(Cycle) /\ WF_vars(TokenRunsOut)

(* Properties **************************************************************)

TypeOK ==
  /\ kind \in Kinds
  /\ token \in {"none", "good", "withdrawn"}
  /\ job \in [pc : {"idle", "plants", "inverters", "sync"} \cup InPlant,
              plant : 1 .. Len(PlantList), inv : Nat \ {0}, target : Plant \cup {HandSite, None},
              where : {"none", "exact", "zero"}, queue : Seq(Device)]
  /\ job.inv <= Len(Inverters[JobPlant])
  /\ known \in [Device -> Site \cup {None}]
  /\ live \subseteq Device /\ fresh \subseteq Device
  /\ place \in [Device -> Site \cup {None}]
  /\ located \in [Plant -> {"absent", "exact", "zero"}]
  /\ raced \subseteq Plant
  /\ posted = None \/ posted.dev \in Device
  /\ faults \in 0 .. MaxFaults

\* The sites that inverters of a plant are registered under.
Sites(p) == {place[d] : d \in InvertersOf(p)} \ {None}

\* "Never creating a second site for a plant we already know" (reconcileSite):
\* no site is created for a plant with an inverter registered anywhere, and
\* the connector registers its other inverters only where one of them is,
\* through failures, lost answers, restarts, a site found by an earlier cycle,
\* and others who register inverters of one plant under several sites; unless
\* someone registered one of them while the connector was at that plant.
NoSecondSite ==
  [][\A p \in Plant \ raced' :
       /\ located'[p] # located[p] => Sites(p) = {}
       /\ job' # job /\ Sites(p) # {} => Sites(p)' \subseteq Sites(p)]_vars

\* A value that is given lies between two of those that it is made of.
Between(value, parts) == value # None => \E low, high \in parts : value \in low .. high

\* What is stored of a device is what it measures, in our units and with our
\* sign for the grid, or nothing: a meter that is not there never reads 0,
\* and a pack that is silent does not pull the voltage down. Power and energy
\* are the exception: what the vendor leaves out is stored as 0.
\* (buildReading, BatteryVoltage, getPVVoltage and getOutputVoltage.)
ReadingsFaithful ==
  posted # None =>
    LET t == Truth[posted.dev]
    IN /\ posted.reading.power_kw = IF t.power = None THEN 0 ELSE kW(t.power)
       /\ posted.reading.energy_kwh_total = IF t.energy = None THEN 0 ELSE t.energy
       /\ posted.reading.grid_power_kw = kW(t.import)
       /\ Between(posted.reading.battery_voltage_v, ToSet(t.packs) \ {0})
       /\ Between(posted.reading.pv_voltage_v, ToSet(t.strings))
       /\ Between(posted.reading.output_voltage_v, ToSet(t.phases))

\* The token cached for a device was revoked by someone else's.
Superseded(d) == known[d] # None /\ d \notin live

\* Every inverter of a plant that the vendor answers for is read again and
\* again, whatever happens to the others, unless its token was superseded.
KeepsDelivering ==
  \A p \in ToSet(PlantList) \ Broken : \A d \in InvertersOf(p) :
    []<>(d \in fresh \/ Superseded(d))
=============================================================================
