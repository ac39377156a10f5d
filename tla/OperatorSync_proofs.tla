------------------------ MODULE OperatorSync_proofs ------------------------
(***************************************************************************)
(* Proofs about OperatorSync: types, that the connector opens no second    *)
(* site for a plant, and that readings are faithful to what the vendor     *)
(* reports, for any account, either program and any failures.              *)
(***************************************************************************)
EXTENDS OperatorSync, WellFoundedInduction, TLAPS

(***************************************************************************)
(* Types.                                                                  *)
(***************************************************************************)

Stage == {"idle", "plants", "inverters", "sync"} \cup InPlant
JobType ==
  [pc : Stage, plant : 1 .. Len(PlantList), inv : Nat \ {0},
   target : Plant \cup {HandSite, None}, where : {"none", "exact", "zero"}, queue : Seq(Device)]

(* A job is at an inverter its plant has, at the first one until the        *)
(* plant's turn, and has a position for the site it is about to create.    *)
JobOK(j) ==
  /\ j \in JobType /\ j.inv <= Len(Inverters[PlantList[j.plant]])
  /\ j.pc \in {"idle", "plants", "inverters"} => j.inv = 1
  /\ j.pc = "create_site" => j.where # "none"

(* The other variables.                                                    *)
Rest ==
  /\ kind \in Kinds
  /\ token \in {"none", "good", "withdrawn"}
  /\ known \in [Device -> Site \cup {None}]
  /\ live \subseteq Device /\ fresh \subseteq Device
  /\ place \in [Device -> Site \cup {None}]
  /\ located \in [Plant -> {"absent", "exact", "zero"}]
  /\ raced \subseteq Plant
  /\ posted = None \/ posted.dev \in Device
  /\ faults \in 0 .. MaxFaults

(* The two parts together are what TypeOK says, and more.                  *)
LEMMA Types == JobOK(job) /\ Rest => TypeOK
BY DEF TypeOK, JobOK, JobType, Stage, JobPlant, Rest

(* Every plant of the list has an inverter.                                *)
LEMMA PlantAt ==
  ASSUME NEW n \in 1 .. Len(PlantList)
  PROVE  /\ PlantList[n] \in Plant
         /\ Inverters[PlantList[n]] \in Seq(Device)
         /\ Len(Inverters[PlantList[n]]) \in Nat \ {0}
BY OperatorSyncAssumption

(* A job at rest, and one whose cycle begins, are such jobs.               *)
LEMMA IdleOK == JobOK(Idle) /\ JobOK([Idle EXCEPT !.pc = "plants"])
<1>1. 1 \in 1 .. Len(PlantList)
  BY OperatorSyncAssumption
<1>2. 1 <= Len(Inverters[PlantList[1]])
  BY <1>1, PlantAt
<1>3. "idle" \in Stage /\ "plants" \in Stage
  BY DEF Stage
<1>4. <<>> \in Seq(Device)
  OBVIOUS
<1>5. Idle \in JobType
  BY <1>1, <1>3, <1>4 DEF JobType, Idle
<1>6. [Idle EXCEPT !.pc = "plants"] \in JobType
  BY <1>3, <1>5 DEF JobType
<1>. QED
  BY <1>2, <1>5, <1>6 DEF JobOK, Idle

(* Assigning fields within their types keeps the record's.                 *)
LEMMA Assigned ==
  ASSUME NEW j \in JobType, NEW pc \in Stage, NEW p \in 1 .. Len(PlantList), NEW i \in Nat \ {0},
         NEW t \in Plant \cup {HandSite, None}, NEW w \in {"none", "exact", "zero"}
  PROVE  /\ [j EXCEPT !.pc = pc, !.plant = p, !.inv = i, !.target = t, !.where = w] \in JobType
         /\ [j EXCEPT !.pc = pc, !.inv = i, !.target = t, !.where = w] \in JobType
         /\ [j EXCEPT !.pc = pc, !.inv = i, !.target = t] \in JobType
<1>. DEFINE P == 1 .. Len(PlantList)
            I == Nat \ {0}
            T == Plant \cup {HandSite, None}
            W == {"none", "exact", "zero"}
            Q == Seq(Device)
<1>1. JobType = [pc : Stage, plant : P, inv : I, target : T, where : W, queue : Q]
  BY DEF JobType
<1>2. p \in P /\ i \in I /\ t \in T /\ w \in W
  OBVIOUS
<1>. HIDE DEF P, I, T, W, Q
<1>. QED
  BY <1>1, <1>2

(* Going on to the next plant ends at that plant or at the readings.       *)
LEMMA NextPlantOK ==
  ASSUME NEW j, JobOK(j)
  PROVE  JobOK(NextPlant(j)) /\ NextPlant(j).pc \in {"inverters", "sync"}
<1>1. j \in JobType /\ j.plant \in 1 .. Len(PlantList)
  BY DEF JobOK, JobType
<1>2. /\ "inverters" \in Stage /\ "sync" \in Stage
      /\ 1 \in Nat \ {0} /\ None \in Plant \cup {HandSite, None} /\ "none" \in {"none", "exact", "zero"}
  BY DEF Stage
<1>3. CASE j.plant < Len(PlantList)
  <2>1. j.plant + 1 \in 1 .. Len(PlantList)
    BY <1>1, <1>3, OperatorSyncAssumption
  <2>2. 1 <= Len(Inverters[PlantList[j.plant + 1]])
    BY <2>1, PlantAt
  <2>. DEFINE n == [j EXCEPT !.pc = "inverters", !.plant = j.plant + 1, !.inv = 1,
                            !.target = None, !.where = "none"]
  <2>3. n \in JobType
    BY <1>1, <1>2, <2>1, Assigned, Zenon
  <2>4. n.plant = j.plant + 1 /\ n.inv = 1 /\ n.pc = "inverters"
    BY <1>1 DEF JobType
  <2>5. NextPlant(j) = n
    BY <1>3 DEF NextPlant
  <2>. HIDE DEF n
  <2>. QED
    BY <2>2, <2>3, <2>4, <2>5 DEF JobOK
<1>4. CASE ~ j.plant < Len(PlantList)
  <2>1. 1 <= Len(Inverters[PlantList[j.plant]])
    BY <1>1, PlantAt
  <2>. DEFINE n == [j EXCEPT !.pc = "sync", !.inv = 1, !.target = None, !.where = "none"]
  <2>2. n \in JobType
    BY <1>1, <1>2, Assigned, Zenon
  <2>3. n.plant = j.plant /\ n.inv = 1 /\ n.pc = "sync"
    BY <1>1 DEF JobType
  <2>4. NextPlant(j) = n
    BY <1>4 DEF NextPlant
  <2>. HIDE DEF n
  <2>. QED
    BY <2>1, <2>2, <2>3, <2>4 DEF JobOK
<1>. QED
  BY <1>3, <1>4

(* Going on to the next inverter keeps the plant and the site, or ends it. *)
LEMMA NextInverterOK ==
  ASSUME NEW j, JobOK(j)
  PROVE  /\ JobOK(NextInverter(j))
         /\ \/ NextInverter(j).pc \in {"inverters", "sync"}
            \/ /\ NextInverter(j).pc = "find"
               /\ NextInverter(j).plant = j.plant /\ NextInverter(j).target = j.target
<1>1. j \in JobType /\ j.inv \in Nat \ {0} /\ j.plant \in 1 .. Len(PlantList)
  BY DEF JobOK, JobType
<1>2. CASE j.inv < Len(Inverters[PlantList[j.plant]])
  <2>1. j.inv + 1 \in Nat \ {0} /\ j.inv + 1 <= Len(Inverters[PlantList[j.plant]])
    BY <1>1, <1>2, PlantAt
  <2>2. "find" \in Stage
    BY DEF Stage, InPlant
  <2>. DEFINE n == [j EXCEPT !.pc = "find", !.inv = j.inv + 1]
  <2>3. n \in JobType
    BY <1>1, <2>1, <2>2 DEF JobType
  <2>4. n.plant = j.plant /\ n.inv = j.inv + 1 /\ n.pc = "find" /\ n.target = j.target
    BY <1>1 DEF JobType
  <2>5. NextInverter(j) = n
    BY <1>2 DEF NextInverter
  <2>. HIDE DEF n
  <2>. QED
    BY <2>1, <2>3, <2>4, <2>5 DEF JobOK
<1>3. CASE ~ j.inv < Len(Inverters[PlantList[j.plant]])
  BY <1>3, NextPlantOK DEF NextInverter
<1>. QED
  BY <1>2, <1>3

(* With the site found, a job goes back to the plant's first inverter.     *)
LEMMA EnsureOK ==
  ASSUME NEW j, JobOK(j), NEW s \in Site
  PROVE  /\ JobOK(Ensure(j, s))
         /\ Ensure(j, s).pc = "find" /\ Ensure(j, s).plant = j.plant /\ Ensure(j, s).target = s
<1>1. j \in JobType /\ j.plant \in 1 .. Len(PlantList)
  BY DEF JobOK, JobType
<1>2. 1 <= Len(Inverters[PlantList[j.plant]])
  BY <1>1, PlantAt
<1>3. /\ "find" \in Stage /\ s \in Plant \cup {HandSite, None}
      /\ 1 \in Nat \ {0} /\ "none" \in {"none", "exact", "zero"}
  BY DEF Stage, InPlant, Site
<1>4. Ensure(j, s) \in JobType
  BY <1>1, <1>3, Assigned, Zenon DEF Ensure
<1>5. /\ Ensure(j, s).pc = "find" /\ Ensure(j, s).plant = j.plant
      /\ Ensure(j, s).target = s /\ Ensure(j, s).inv = 1
  BY <1>1 DEF JobType, Ensure
<1>. QED
  BY <1>2, <1>4, <1>5 DEF JobOK

(* The device in hand, and the sites.                                      *)
LEMMA InHand ==
  ASSUME JobOK(job)
  PROVE  /\ JobPlant \in Plant /\ JobPlant \in Site
         /\ JobDevice \in Device /\ JobDevice \in InvertersOf(JobPlant)
         /\ job.queue \in Seq(Device)
         /\ job.inv \in Nat \ {0} /\ Len(Inverters[JobPlant]) \in Nat
         /\ job.inv <= Len(Inverters[JobPlant])
         /\ Inverters[JobPlant] \in Seq(Device)
<1>1. job.plant \in 1 .. Len(PlantList) /\ job.inv \in Nat \ {0} /\ job.queue \in Seq(Device)
  BY DEF JobOK, JobType
<1>2. job.inv \in DOMAIN Inverters[JobPlant]
  BY <1>1, PlantAt DEF JobOK, JobPlant
<1>. QED
  BY <1>1, <1>2, PlantAt DEF JobOK, JobPlant, JobDevice, InvertersOf, ToSet, Site

(* Every step leaves the job at a plant and an inverter of that plant.     *)
LEMMA JobStep ==
  ASSUME JobOK(job), Rest, Next
  PROVE  JobOK(job')
<1>. DEFINE To(pc) == [job EXCEPT !.pc = pc]
            Queued == [job EXCEPT !.queue = Append(@, JobDevice)]
            Dequeued == [job EXCEPT !.queue = Tail(@)]
            Later == {"sync", "look", "site", "detail", "create_device", "issue"}
<1>0. JobOK(job) /\ job \in JobType
  BY DEF JobOK
<1>1. /\ \A pc \in Later : JobOK(To(pc))
      /\ job.pc = "plants" => JobOK(To("inverters"))
      /\ \A w \in {"exact", "zero"} :
           JobOK([job EXCEPT !.pc = "create_site", !.where = w])
  <2>1. Later \cup {"inverters", "create_site"} \subseteq Stage
    BY DEF Stage, InPlant
  <2>. QED
    BY <1>0, <2>1 DEF JobOK, JobType
<1>2. JobOK(Queued) /\ (job.queue # <<>> => JobOK(Dequeued))
  <2>1. Append(job.queue, JobDevice) \in Seq(Device) /\ (job.queue # <<>> => Tail(job.queue) \in Seq(Device))
    BY <1>0, InHand
  <2>. QED
    BY <1>0, <2>1 DEF JobOK, JobType
<1>3. CASE Tick \/ CycleEnds \/ Restart \/ GetPlantsFails
  BY <1>3, IdleOK DEF Tick, CycleEnds, Restart, GetPlantsFails, Moves
<1>4. CASE GetPlants \/ ListStations
  <2>1. job.pc = "plants" /\ job' \in {To("sync"), To("inverters")}
    BY <1>4 DEF GetPlants, ListStations, Moves
  <2>. QED
    BY <1>1, <2>1
<1>5. CASE GetInverters \/ ListDevices \/ GetInvertersFails
  <2>1. job' \in {To("look"), NextPlant(job)}
    BY <1>5 DEF GetInverters, ListDevices, GetInvertersFails, Moves
  <2>. QED
    BY <1>0, <1>1, <2>1, NextPlantOK
<1>6. CASE LookUp
  <2>. DEFINE found == IF known[JobDevice] # None THEN known[JobDevice] ELSE place[JobDevice]
  <2>1. found # None => found \in Site
    BY <1>0, InHand DEF Rest
  <2>2. job.inv < Len(Inverters[JobPlant]) /\ job.pc = "look" => JobOK([job EXCEPT !.inv = @ + 1])
    BY <1>0, InHand DEF JobOK, JobType, JobPlant
  <2>3. /\ job.pc = "look"
        /\ \/ found # None /\ job' = Ensure(job, found)
           \/ job.inv < Len(Inverters[JobPlant]) /\ job' = [job EXCEPT !.inv = @ + 1]
           \/ job' = To("site")
    BY <1>6 DEF LookUp, Moves
  <2>. HIDE DEF found
  <2>. QED
    BY <1>0, <1>1, <2>1, <2>2, <2>3, EnsureOK
<1>7. CASE SiteExists \/ StationSiteExists
  <2>1. JobOK(Ensure(job, JobPlant))
    BY <1>0, InHand, EnsureOK
  <2>2. StationCoords(JobPlant) \in {"exact", "zero"}
    BY DEF StationCoords
  <2>3. \/ job' = Ensure(job, JobPlant)
        \/ job' = To("detail")
        \/ job' = [job EXCEPT !.pc = "create_site", !.where = StationCoords(JobPlant)]
    BY <1>7 DEF SiteExists, StationSiteExists, Moves
  <2>. QED
    BY <1>1, <2>1, <2>2, <2>3
<1>8. CASE GetPlantDetail
  <2>. DEFINE w == IF Refused THEN "zero" ELSE "exact"
  <2>1. job' = [job EXCEPT !.pc = "create_site", !.where = w] /\ w \in {"exact", "zero"}
    BY <1>8 DEF GetPlantDetail, Moves
  <2>. HIDE DEF w
  <2>. QED
    BY <1>1, <2>1
<1>9. CASE CreateSite \/ ReconcileFails
  <2>1. job' \in {Ensure(job, JobPlant), NextPlant(job)}
    BY <1>9 DEF CreateSite, ReconcileFails, Moves
  <2>. QED
    BY <1>0, <2>1, InHand, EnsureOK, NextPlantOK
<1>10. CASE FindDevice \/ CreateDevice \/ IssueToken \/ EnsureFails
  <2>1. job' \in {NextInverter(Queued), NextInverter(job), To("create_device"), To("issue")}
    BY <1>10 DEF FindDevice, CreateDevice, IssueToken, EnsureFails, Moves
  <2>. HIDE DEF Queued
  <2>. QED
    BY <1>0, <1>1, <1>2, <2>1, NextInverterOK
<1>11. CASE Submit \/ SubmitFails
  BY <1>2, <1>11 DEF Submit, SubmitFails, Moves
<1>12. CASE UNCHANGED job
  BY <1>0, <1>12 DEF JobOK
<1>13. VendorWithdraws \/ TokenRunsOut \/ (\E d \in Device : OthersIssueToken(d))
         \/ (\E p \in Plant, d \in Device, s \in Site : OthersRegister(p, d, s)) => UNCHANGED job
  BY DEF VendorWithdraws, TokenRunsOut, OthersIssueToken, OthersRegister
<1>. QED
  BY <1>3, <1>4, <1>5, <1>6, <1>7, <1>8, <1>9, <1>10, <1>11, <1>12, <1>13 DEF Next, Cycle

(* Every step keeps the types of the other variables.                      *)
LEMMA RestStep ==
  ASSUME JobOK(job), Rest, Next
  PROVE  Rest'
<1>. DEFINE Counted == faults' \in 0 .. MaxFaults
<1>0. JobOK(job) /\ Rest
  OBVIOUS
<1>1. ASSUME Fault \/ NoFault \/ faults' = faults
      PROVE  Counted
  BY <1>0, <1>1, OperatorSyncAssumption DEF Rest, Fault, NoFault
<1>2. ASSUME EnsureToken PROVE token' \in {"none", "good", "withdrawn"}
  BY <1>0, <1>2 DEF Rest, EnsureToken
<1>3. CASE Tick \/ GetPlants \/ ListStations \/ GetPlantsFails \/ GetInverters \/ ListDevices
           \/ GetInvertersFails \/ LookUp \/ SiteExists \/ StationSiteExists \/ GetPlantDetail
           \/ ReconcileFails \/ FindDevice \/ EnsureFails \/ SubmitFails \/ CycleEnds
  <2>1. UNCHANGED <<kind, known, live, platform>> /\ fresh' \in {{}, fresh} /\ posted' = None
    BY <1>3 DEF Tick, GetPlants, ListStations, GetPlantsFails, GetInverters, ListDevices,
         GetInvertersFails, LookUp, SiteExists, StationSiteExists, GetPlantDetail, ReconcileFails,
         FindDevice, EnsureFails, SubmitFails, CycleEnds, Moves, platform
  <2>2. Fault \/ NoFault \/ faults' = faults
    BY <1>3 DEF Tick, GetPlants, ListStations, GetPlantsFails, GetInverters, ListDevices,
         GetInvertersFails, LookUp, SiteExists, StationSiteExists, GetPlantDetail, ReconcileFails,
         FindDevice, EnsureFails, SubmitFails, CycleEnds, FailsIf
  <2>3. EnsureToken \/ token' = token
    BY <1>3 DEF Tick, GetPlants, ListStations, GetPlantsFails, GetInverters, ListDevices,
         GetInvertersFails, LookUp, SiteExists, StationSiteExists, GetPlantDetail, ReconcileFails,
         FindDevice, EnsureFails, SubmitFails, CycleEnds
  <2>. QED
    BY <1>0, <1>1, <1>2, <2>1, <2>2, <2>3 DEF Rest, platform
<1>4. CASE CreateSite
  <2>1. UNCHANGED <<kind, fresh, token, known, live, place, raced>> /\ posted' = None
    BY <1>4 DEF CreateSite, Moves
  <2>2. located' \in [Plant -> {"absent", "exact", "zero"}]
    <3>1. job.where \in {"exact", "zero"} /\ located' = [located EXCEPT ![JobPlant] = job.where]
      BY <1>0, <1>4 DEF CreateSite, JobOK, JobType
    <3>2. located \in [Plant -> {"absent", "exact", "zero"}]
      BY <1>0 DEF Rest
    <3>. QED
      BY <3>1, <3>2
  <2>3. Fault \/ NoFault
    BY <1>4 DEF CreateSite
  <2>. QED
    BY <1>0, <1>1, <2>1, <2>2, <2>3 DEF Rest
<1>5. CASE CreateDevice
  <2>1. UNCHANGED <<kind, fresh, token, known, live, located, raced>> /\ posted' = None
    BY <1>5 DEF CreateDevice, Moves
  <2>2. place' \in [Device -> Site \cup {None}]
    BY <1>0, <1>5 DEF CreateDevice, Rest, JobOK, JobType, Site
  <2>3. Fault \/ NoFault
    BY <1>5 DEF CreateDevice
  <2>. QED
    BY <1>0, <1>1, <2>1, <2>2, <2>3 DEF Rest
<1>6. CASE IssueToken
  <2>1. UNCHANGED <<kind, fresh, token, platform>> /\ posted' = None /\ NoFault
    BY <1>6 DEF IssueToken, Moves
  <2>2. known' \in [Device -> Site \cup {None}]
    BY <1>0, <1>6 DEF IssueToken, Rest, JobOK, JobType, Site
  <2>3. live' \subseteq Device
    BY <1>0, <1>6, InHand DEF IssueToken, Rest
  <2>. QED
    BY <1>0, <1>1, <2>1, <2>2, <2>3 DEF Rest, platform
<1>7. CASE Submit
  <2>1. Head(job.queue) \in Device
    BY <1>0, <1>7, InHand DEF Submit
  <2>2. UNCHANGED <<kind, known, live, platform, faults>> /\ EnsureToken
        /\ fresh' = fresh \cup {Head(job.queue)} /\ posted'.dev = Head(job.queue)
    BY <1>7 DEF Submit
  <2>. QED
    BY <1>0, <1>1, <1>2, <2>1, <2>2 DEF Rest, platform
<1>8. CASE Restart
  BY <1>0, <1>1, <1>8 DEF Restart, Rest, platform
<1>9. CASE VendorWithdraws \/ TokenRunsOut
  BY <1>0, <1>1, <1>9 DEF VendorWithdraws, TokenRunsOut, Rest, platform
<1>10. ASSUME NEW d \in Device, OthersIssueToken(d) PROVE Rest'
  BY <1>0, <1>10 DEF OthersIssueToken, Rest, platform
<1>11. ASSUME NEW p \in Plant, NEW d \in Device, NEW s \in Site, OthersRegister(p, d, s) PROVE Rest'
  BY <1>0, <1>11 DEF OthersRegister, Rest
<1>. HIDE DEF Counted
<1>. QED
  BY <1>3, <1>4, <1>5, <1>6, <1>7, <1>8, <1>9, <1>10, <1>11 DEF Next, Cycle
(* The connector is always at a plant of the account and an inverter of    *)
(* that plant, and what it keeps and what the platform holds have their    *)
(* types.                                                                  *)
THEOREM ConnectorTypeCorrect == Spec => []TypeOK
<1>1. Init => JobOK(job) /\ Rest
  BY IdleOK, OperatorSyncAssumption DEF Init, Rest
<1>2. JobOK(job) /\ Rest /\ [Next]_vars => (JobOK(job) /\ Rest)'
  <2>1. CASE Next
    BY <2>1, JobStep, RestStep DEF JobOK
  <2>2. CASE UNCHANGED vars
    BY <2>2 DEF vars, Rest, JobOK
  <2>. QED
    BY <2>1, <2>2
<1>. QED
  BY <1>1, <1>2, Types, PTL DEF Spec, Safe

(***************************************************************************)
(* The sites of a plant. That the connector opens no second one follows    *)
(* from what it has found out on its way, as long as nobody registered a   *)
(* device of the plant meanwhile.                                          *)
(***************************************************************************)

(* A device is known by a site of its plant.                               *)
KnownThere(p) == \A d \in InvertersOf(p) : known[d] # None => known[d] \in Sites(p)

(* What a job j has found out of its plant p: sites are those of the       *)
(* plant's inverters, at is where each of them is registered.              *)
FoundOut(j, p, sites, at) ==
  /\ j.pc = "look" => \A i \in 1 .. j.inv - 1 : at[Inverters[p][i]] = None
  /\ j.pc \in {"site", "detail", "create_site"} => sites = {}
  /\ j.pc \in {"find", "create_device", "issue"} =>
       j.target # None /\ (sites = {} \/ j.target \in sites)
  /\ j.pc = "issue" => j.target \in sites

Safely(p) == KnownThere(p) /\ (Working(p) => FoundOut(job, p, Sites(p), place))
SafelyInv == \A p \in Plant \ raced : Safely(p)

(* An inverter is of one plant.                                            *)
LEMMA Apart ==
  ASSUME NEW p \in Plant, NEW q \in Plant, NEW d, d \in InvertersOf(p), d \in InvertersOf(q)
  PROVE  p = q
<1>1. PICK i \in DOMAIN Inverters[p] : d = Inverters[p][i]
  BY DEF InvertersOf, ToSet
<1>2. PICK k \in DOMAIN Inverters[q] : d = Inverters[q][k]
  BY DEF InvertersOf, ToSet
<1>. QED
  BY <1>1, <1>2, OperatorSyncAssumption

(* An inverter is a device and has a place in the vendor's order.          *)
LEMMA InverterAt ==
  ASSUME NEW p \in Plant
  PROVE  /\ InvertersOf(p) \subseteq Device
         /\ \A d \in InvertersOf(p) : \E i \in 1 .. Len(Inverters[p]) : d = Inverters[p][i]
BY OperatorSyncAssumption DEF InvertersOf, ToSet

(* A plant none of whose devices is moved keeps its sites; none of them    *)
(* newly known, they are known there.                                      *)
LEMMA Undisturbed ==
  ASSUME NEW p, \A d \in InvertersOf(p) : place'[d] = place[d]
  PROVE  /\ Sites(p)' = Sites(p)
         /\ KnownThere(p) /\ (\A d \in InvertersOf(p) : known'[d] \in {known[d], None})
              => KnownThere(p)'
<1>1. Sites(p)' = Sites(p)
  BY DEF Sites, InvertersOf
<1>. QED
  BY <1>1 DEF KnownThere, InvertersOf

(* A device that was nowhere is registered: its plant's sites are as many, *)
(* or one more, and no other plant's change.                               *)
LEMMA Placed ==
  ASSUME Rest, NEW q \in Plant, NEW p \in Plant, NEW d \in InvertersOf(q), place[d] = None,
         NEW s \in Site, place' = [place EXCEPT ![d] = s]
  PROVE  /\ p # q => \A e \in InvertersOf(p) : place'[e] = place[e]
         /\ Sites(q)' = Sites(q) \cup {s}
<1>1. /\ InvertersOf(p) \subseteq Device /\ InvertersOf(q) \subseteq Device
      /\ place \in [Device -> Site \cup {None}] /\ s # None
  BY InverterAt, OperatorSyncAssumption DEF Rest, Site
<1>2. p # q => \A e \in InvertersOf(p) : e # d
  BY Apart
<1>3. place'[d] = s /\ (\A e \in Device : e # d => place'[e] = place[e])
  BY <1>1
<1>4. ASSUME NEW x PROVE x \in Sites(q)' <=> x \in Sites(q) \cup {s}
  <2>1. x \in Sites(q)' <=> x # None /\ \E e \in InvertersOf(q) : place'[e] = x
    BY DEF Sites, InvertersOf
  <2>2. x \in Sites(q) <=> x # None /\ \E e \in InvertersOf(q) : place[e] = x
    BY DEF Sites
  <2>. QED
    BY <1>1, <1>3, <2>1, <2>2
<1>5. Sites(q)' = Sites(q) \cup {s}
  BY <1>4
<1>. QED
  BY <1>1, <1>2, <1>3, <1>5

(* What a step of the connector may do to a plant nobody raced at.         *)
OneSite(p) ==
  /\ located'[p] # located[p] => Sites(p) = {}
  /\ job' # job /\ Sites(p) # {} => Sites(p)' \subseteq Sites(p)

(* One step per action: what the connector has found out of a plant nobody *)
(* raced at stays true, and it opens no second site for it.                *)
LEMMA SafelyStep ==
  ASSUME JobOK(job), Rest, SafelyInv, Next
  PROVE  SafelyInv' /\ (\A p \in Plant \ raced' : OneSite(p))
<1>. SUFFICES ASSUME NEW p \in Plant, p \notin raced' PROVE Safely(p)' /\ OneSite(p)
  BY DEF SafelyInv
<1>1. raced \subseteq raced'
  BY DEF Next, Cycle, Tick, GetPlants, ListStations, GetPlantsFails, GetInverters, ListDevices,
    GetInvertersFails, LookUp, SiteExists, StationSiteExists, GetPlantDetail, CreateSite,
    ReconcileFails, FindDevice, CreateDevice, IssueToken, EnsureFails, Submit, SubmitFails,
    CycleEnds, Restart, VendorWithdraws, TokenRunsOut, OthersIssueToken, OthersRegister, platform
<1>2. KnownThere(p) /\ (Working(p) => FoundOut(job, p, Sites(p), place))
  BY <1>1 DEF SafelyInv, Safely
<1>3. \A j : j.pc \in {"idle", "plants", "inverters", "sync"} => j.pc \notin InPlant
  BY DEF InPlant
<1>4. ASSUME job'.pc \notin InPlant PROVE Working(p)' = FALSE
  BY <1>4 DEF Working
<1>5. ASSUME UNCHANGED <<place, known>> PROVE KnownThere(p)' /\ Sites(p)' = Sites(p)
  BY <1>2, <1>5, Undisturbed
<1>6. ASSUME UNCHANGED <<place, located>> PROVE OneSite(p)
  BY <1>6, Undisturbed DEF OneSite
<1>7. job \in JobType
  BY DEF JobOK
<1>8. CASE Tick \/ GetPlants \/ ListStations \/ GetPlantsFails \/ GetInvertersFails \/ ReconcileFails
           \/ Submit \/ SubmitFails \/ CycleEnds
  <2>1. UNCHANGED <<place, known, located>>
    BY <1>8 DEF Tick, GetPlants, ListStations, GetPlantsFails, GetInvertersFails, ReconcileFails,
      Submit, SubmitFails, CycleEnds, Moves, platform
  <2>2. job'.pc \notin InPlant
    <3>1. CASE Tick \/ GetPlants \/ ListStations \/ GetPlantsFails \/ CycleEnds
      BY <1>7, <3>1 DEF Tick, GetPlants, ListStations, GetPlantsFails, CycleEnds, Moves, Idle, InPlant, JobType
    <3>2. CASE GetInvertersFails \/ ReconcileFails
      BY <1>3, <3>2, NextPlantOK DEF GetInvertersFails, ReconcileFails, Moves
    <3>3. CASE Submit \/ SubmitFails
      BY <1>7, <3>3 DEF Submit, SubmitFails, Moves, InPlant, JobType
    <3>. QED
      BY <1>8, <3>1, <3>2, <3>3
  <2>. QED
    BY <1>4, <1>5, <1>6, <2>1, <2>2 DEF Safely
<1>9. CASE GetInverters \/ ListDevices
  <2>1. UNCHANGED <<place, known, located>> /\ job.pc = "inverters"
        /\ job' \in {NextPlant(job), [job EXCEPT !.pc = "look"]}
    BY <1>9 DEF GetInverters, ListDevices, Moves, platform
  <2>2. CASE job' = NextPlant(job)
    <3>1. job'.pc \notin InPlant
      BY <1>3, <2>2, NextPlantOK
    <3>. QED
      BY <1>4, <1>5, <1>6, <2>1, <3>1 DEF Safely
  <2>3. CASE job' = [job EXCEPT !.pc = "look"]
    <3>1. job'.pc = "look" /\ job'.inv = 1
      BY <1>7, <2>1, <2>3 DEF JobOK, JobType
    <3>2. FoundOut(job', p, Sites(p)', place')
      BY <3>1 DEF FoundOut
    <3>. QED
      BY <1>5, <1>6, <2>1, <3>2 DEF Safely
  <2>. QED
    BY <2>1, <2>2, <2>3
<1>10. CASE LookUp
  <2>. DEFINE found == IF known[JobDevice] # None THEN known[JobDevice] ELSE place[JobDevice]
  <2>1. /\ UNCHANGED <<place, known, located>> /\ job.pc = "look"
        /\ \/ found # None /\ job' = Ensure(job, found)
           \/ found = None /\ job.inv < Len(Inverters[JobPlant]) /\ job' = [job EXCEPT !.inv = @ + 1]
           \/ found = None /\ job.inv >= Len(Inverters[JobPlant]) /\ job' = [job EXCEPT !.pc = "site"]
    <3>1. job.inv \in Nat /\ Len(Inverters[JobPlant]) \in Nat
      BY InHand
    <3>. QED
      BY <1>10, <3>1 DEF LookUp, Moves, platform
  <2>2. JobPlant' = JobPlant
    BY <1>7, <2>1 DEF JobPlant, JobType, Ensure
  <2>3. CASE JobPlant # p
    BY <1>5, <1>6, <2>1, <2>2, <2>3 DEF Safely, Working
  <2>4. CASE JobPlant = p
    <3>1. Working(p) /\ JobDevice \in InvertersOf(p)
      BY <2>1, <2>4, InHand DEF Working, InPlant
    <3>2. \A i \in 1 .. job.inv - 1 : place[Inverters[p][i]] = None
      BY <1>2, <2>1, <3>1 DEF FoundOut
    <3>3. found # None => found \in Sites(p)
      BY <1>2, <3>1 DEF KnownThere, Sites
    <3>4. FoundOut(job', p, Sites(p), place)
      <4>1. CASE found # None
        <5>1. job' = Ensure(job, found)
          BY <2>1, <4>1
        <5>2. job'.pc = "find" /\ job'.target = found
          BY <1>7, <5>1 DEF Ensure, JobType
        <5>. HIDE DEF found
        <5>. QED
          BY <3>3, <4>1, <5>2 DEF FoundOut
      <4>2. CASE found = None
        <5>1. place[JobDevice] = None
          BY <4>2
        <5>2. \A i \in 1 .. job.inv : place[Inverters[p][i]] = None
          <6>1. \A i \in 1 .. job.inv : i = job.inv \/ i \in 1 .. job.inv - 1
            BY <1>7 DEF JobType
          <6>. QED
            BY <2>4, <3>2, <5>1, <6>1 DEF JobDevice, JobPlant
        <5>3. CASE job' = [job EXCEPT !.inv = @ + 1]
          <6>1. job'.pc = "look" /\ job'.inv - 1 = job.inv
            BY <1>7, <2>1, <5>3 DEF JobType
          <6>. QED
            BY <5>2, <6>1 DEF FoundOut
        <5>4. CASE job.inv >= Len(Inverters[JobPlant]) /\ job' = [job EXCEPT !.pc = "site"]
          <6>1. job'.pc = "site"
            BY <1>7, <5>4 DEF JobType
          <6>2. \A i \in 1 .. Len(Inverters[p]) : i \in 1 .. job.inv
            BY <1>7, <2>4, <5>4, PlantAt DEF JobType, JobPlant
          <6>3. Sites(p) = {}
            BY <5>2, <6>2, InverterAt DEF Sites
          <6>. QED
            BY <6>1, <6>3 DEF FoundOut
        <5>. HIDE DEF found
        <5>. QED
          BY <2>1, <4>2, <5>3, <5>4
      <4>. QED
        BY <4>1, <4>2
    <3>. QED
      BY <1>5, <1>6, <2>1, <3>4 DEF Safely
  <2>. QED
    BY <2>3, <2>4
<1>11. CASE SiteExists \/ StationSiteExists \/ GetPlantDetail \/ CreateSite
  <2>1. /\ UNCHANGED <<place, known>> /\ job.pc \in {"site", "detail", "create_site"}
        /\ \/ job' \in {Ensure(job, JobPlant), [job EXCEPT !.pc = "detail"], NextPlant(job)}
           \/ \E w : job' = [job EXCEPT !.pc = "create_site", !.where = w]
        /\ JobPlant # p => located'[p] = located[p]
    <3>1. \A q, w : q # p => [located EXCEPT ![q] = w][p] = located[p]
      BY DEF Rest
    <3>. QED
      BY <1>11, <3>1 DEF SiteExists, StationSiteExists, GetPlantDetail, CreateSite, Moves, platform
  <2>2. JobPlant = p => Sites(p) = {}
    BY <1>2, <2>1 DEF FoundOut, Working, InPlant
  <2>3. OneSite(p)
    BY <1>5, <2>1, <2>2 DEF OneSite
  <2>4. CASE job' = NextPlant(job)
    <3>1. job'.pc \notin InPlant
      BY <1>3, <2>4, NextPlantOK
    <3>. QED
      BY <1>4, <1>5, <2>1, <2>3, <3>1 DEF Safely
  <2>5. CASE job' # NextPlant(job)
    <3>1. JobPlant' = JobPlant
      BY <1>7, <2>1, <2>5 DEF JobPlant, JobType, Ensure
    <3>2. /\ job'.pc \in {"find", "detail", "create_site"}
          /\ job'.pc = "find" => job'.target = JobPlant
      BY <1>7, <2>1, <2>5 DEF JobType, Ensure
    <3>3. JobPlant # None
      BY InHand, OperatorSyncAssumption
    <3>4. JobPlant = p => FoundOut(job', p, Sites(p), place)
      BY <2>2, <3>2, <3>3 DEF FoundOut
    <3>. QED
      BY <1>5, <2>1, <2>3, <3>1, <3>4 DEF Safely, Working
  <2>. QED
    BY <2>4, <2>5
<1>. DEFINE Queued == [job EXCEPT !.queue = Append(@, JobDevice)]
<1>12. /\ JobOK(Queued) /\ Queued.plant = job.plant /\ Queued.target = job.target
  <2>1. Append(job.queue, JobDevice) \in Seq(Device)
    BY InHand
  <2>. QED
    BY <2>1 DEF JobOK, JobType
<1>13. ASSUME job' \in {NextInverter(job), NextInverter(Queued)}, KnownThere(p)',
              JobPlant = p => job.target # None /\ (Sites(p)' = {} \/ job.target \in Sites(p)')
       PROVE  Safely(p)'
  <2>. HIDE DEF Queued
  <2>1. \/ job'.pc \in {"inverters", "sync"}
        \/ job'.pc = "find" /\ job'.plant = job.plant /\ job'.target = job.target
    BY <1>12, <1>13, NextInverterOK
  <2>2. CASE job'.pc \in {"inverters", "sync"}
    <3>1. job'.pc \notin InPlant
      BY <1>3, <2>2
    <3>. QED
      BY <1>4, <1>13, <3>1 DEF Safely
  <2>3. CASE job'.pc = "find" /\ job'.plant = job.plant /\ job'.target = job.target
    <3>1. JobPlant' = JobPlant
      BY <2>3 DEF JobPlant
    <3>2. Working(p)' => FoundOut(job', p, Sites(p)', place')
      BY <1>13, <2>3, <3>1 DEF FoundOut, Working
    <3>. QED
      BY <1>13, <3>2 DEF Safely
  <2>. QED
    BY <2>1, <2>2, <2>3
<1>14. job.pc \in {"find", "create_device", "issue"} /\ JobPlant = p
         => job.target # None /\ (Sites(p) = {} \/ job.target \in Sites(p))
  BY <1>2 DEF Working, InPlant, FoundOut
<1>15. CASE FindDevice \/ EnsureFails
  <2>1. /\ UNCHANGED <<place, known, located>> /\ job.pc \in {"find", "create_device", "issue"}
        /\ \/ job' \in {NextInverter(job), NextInverter(Queued)}
           \/ job' = [job EXCEPT !.pc = "create_device"]
           \/ job' = [job EXCEPT !.pc = "issue"] /\ place[JobDevice] # None
    BY <1>15 DEF FindDevice, EnsureFails, Moves, platform
  <2>2. JobPlant = p => job.target # None /\ (Sites(p)' = {} \/ job.target \in Sites(p)')
    BY <1>5, <1>14, <2>1
  <2>3. CASE job' \in {NextInverter(job), NextInverter(Queued)}
    BY <1>5, <1>6, <1>13, <2>1, <2>2, <2>3
  <2>4. CASE job' \notin {NextInverter(job), NextInverter(Queued)}
    <3>1. /\ job'.pc \in {"create_device", "issue"} /\ job'.plant = job.plant
          /\ job'.target = job.target
      BY <1>7, <2>1, <2>4 DEF JobType
    <3>2. JobPlant = p /\ job'.pc = "issue" => Sites(p) # {}
      <4>1. job'.pc = "issue" => place[JobDevice] # None
        BY <1>7, <2>1, <2>4 DEF JobType
      <4>. QED
        BY <4>1, InHand DEF Sites
    <3>3. JobPlant = p => FoundOut(job', p, Sites(p), place)
      BY <1>14, <2>1, <3>1, <3>2 DEF FoundOut
    <3>. QED
      BY <1>5, <1>6, <2>1, <3>1, <3>3 DEF Safely, Working, JobPlant
  <2>. QED
    BY <2>3, <2>4
<1>16. CASE CreateDevice
  <2>1. /\ place[JobDevice] = None /\ place' = [place EXCEPT ![JobDevice] = job.target]
        /\ UNCHANGED <<known, located>> /\ job.pc = "create_device"
        /\ job' \in {[job EXCEPT !.pc = "issue"], NextInverter(job)}
    BY <1>16 DEF CreateDevice, Moves
  <2>2. JobPlant \in Plant /\ JobDevice \in InvertersOf(JobPlant)
    BY InHand
  <2>3. job.target \in Site \cup {None}
    BY <1>7 DEF JobType, Site
  <2>4. CASE JobPlant # p
    <3>1. \A e \in InvertersOf(p) : place'[e] = place[e]
      <4>1. InvertersOf(p) \subseteq Device /\ place \in [Device -> Site \cup {None}]
        BY InverterAt DEF Rest
      <4>2. \A e \in InvertersOf(p) : e # JobDevice
        BY <2>2, <2>4, Apart
      <4>. QED
        BY <2>1, <4>1, <4>2
    <3>2. KnownThere(p)' /\ OneSite(p)
      BY <1>2, <2>1, <3>1, Undisturbed DEF OneSite
    <3>3. ~ Working(p)'
      <4>1. job'.pc \in InPlant => job'.plant = job.plant
        BY <1>3, <1>7, <2>1, NextInverterOK DEF JobType
      <4>. QED
        BY <2>4, <4>1 DEF Working, JobPlant
    <3>. QED
      BY <3>2, <3>3 DEF Safely
  <2>5. CASE JobPlant = p
    <3>1. job.target # None /\ (Sites(p) = {} \/ job.target \in Sites(p))
      BY <1>14, <2>1, <2>5
    <3>2. Sites(p)' = Sites(p) \cup {job.target}
      BY <2>1, <2>2, <2>3, <2>5, <3>1, Placed
    <3>3. OneSite(p) /\ KnownThere(p)'
      BY <1>2, <2>1, <3>1, <3>2 DEF OneSite, KnownThere, InvertersOf
    <3>4. CASE job' = NextInverter(job)
      BY <1>13, <3>1, <3>2, <3>3, <3>4
    <3>5. CASE job' = [job EXCEPT !.pc = "issue"]
      <4>1. job'.pc = "issue" /\ job'.target = job.target
        BY <1>7, <3>5 DEF JobType
      <4>2. FoundOut(job', p, Sites(p)', place')
        BY <3>1, <3>2, <4>1 DEF FoundOut
      <4>. QED
        BY <3>3, <4>2 DEF Safely
    <3>. QED
      BY <2>1, <3>4, <3>5
  <2>. QED
    BY <2>4, <2>5
<1>17. CASE IssueToken
  <2>1. /\ known' = [known EXCEPT ![JobDevice] = job.target] /\ UNCHANGED <<place, located>>
        /\ job.pc = "issue" /\ job' = NextInverter(Queued)
    BY <1>17 DEF IssueToken, Moves, platform
  <2>2. known \in [Device -> Site \cup {None}] /\ JobDevice \in Device
        /\ JobPlant \in Plant /\ JobDevice \in InvertersOf(JobPlant)
    BY InHand DEF Rest
  <2>3. Sites(p)' = Sites(p)
    BY <2>1, Undisturbed
  <2>4. KnownThere(p)'
    <3>1. CASE JobPlant # p
      <4>1. \A d \in InvertersOf(p) : d \in Device /\ d # JobDevice
        BY <2>2, <3>1, Apart, InverterAt
      <4>. QED
        BY <1>2, <2>1, <2>2, <4>1, Undisturbed
    <3>2. CASE JobPlant = p
      <4>1. job.target \in Sites(p)
        BY <1>2, <2>1, <3>2 DEF Working, InPlant, FoundOut
      <4>2. \A d \in InvertersOf(p) : known'[d] # None => known'[d] \in Sites(p)
        BY <1>2, <2>1, <2>2, <4>1, InverterAt DEF KnownThere
      <4>. QED
        BY <2>3, <4>2 DEF KnownThere, InvertersOf
    <3>. QED
      BY <3>1, <3>2
  <2>. HIDE DEF Queued
  <2>. QED
    BY <1>6, <1>13, <1>14, <2>1, <2>3, <2>4
<1>18. CASE Restart
  <2>1. UNCHANGED <<place, located>> /\ known' = [d \in Device |-> None] /\ job'.pc = "idle"
    BY <1>18 DEF Restart, Idle, platform
  <2>2. KnownThere(p)'
    BY <1>2, <2>1, Undisturbed, InverterAt
  <2>3. job'.pc \notin InPlant
    BY <1>3, <2>1
  <2>. QED
    BY <1>4, <1>6, <2>1, <2>2, <2>3 DEF Safely
<1>19. CASE UNCHANGED <<job, place, known, located>>
  <2>1. Working(p)' = Working(p)
    BY <1>19 DEF Working, JobPlant
  <2>. QED
    BY <1>2, <1>5, <1>6, <1>19, <2>1 DEF Safely
<1>20. VendorWithdraws \/ TokenRunsOut \/ (\E d \in Device : OthersIssueToken(d))
         => UNCHANGED <<job, place, known, located>>
  BY DEF VendorWithdraws, TokenRunsOut, OthersIssueToken, platform
<1>21. ASSUME NEW q \in Plant, NEW d \in Device, NEW s \in Site, OthersRegister(q, d, s)
       PROVE  Safely(p)' /\ OneSite(p)
  <2>1. /\ d \in InvertersOf(q) /\ place[d] = None
        /\ place' = [place EXCEPT ![d] = s] /\ UNCHANGED <<job, known, located>>
        /\ Working(q) => q \in raced'
    BY <1>21 DEF OthersRegister
  <2>2. OneSite(p) /\ Working(p)' = Working(p)
    BY <2>1 DEF OneSite, Working, JobPlant
  <2>3. CASE q # p
    <3>1. \A e \in InvertersOf(p) : place'[e] = place[e]
      BY <2>1, <2>3, Placed
    <3>2. KnownThere(p)' /\ Sites(p)' = Sites(p)
      BY <1>2, <2>1, <3>1, Undisturbed
    <3>3. \A i \in 1 .. job.inv - 1 : JobPlant = p => Inverters[p][i] \in InvertersOf(p)
      <4>1. JobPlant = p => job.inv \in Nat /\ job.inv <= Len(Inverters[p]) /\ Inverters[p] \in Seq(Device)
        BY InHand
      <4>. QED
        BY <4>1 DEF InvertersOf, ToSet
    <3>4. Working(p) => FoundOut(job', p, Sites(p)', place')
      BY <1>2, <2>1, <3>1, <3>2, <3>3 DEF FoundOut, Working
    <3>. QED
      BY <2>2, <3>2, <3>4 DEF Safely
  <2>4. CASE q = p
    <3>1. ~ Working(p)'
      BY <2>1, <2>2, <2>4
    <3>2. Sites(p)' = Sites(p) \cup {s}
      BY <2>1, <2>4, Placed
    <3>3. KnownThere(p)'
      BY <1>2, <2>1, <3>2 DEF KnownThere, InvertersOf
    <3>. QED
      BY <2>2, <3>1, <3>3 DEF Safely
  <2>. QED
    BY <2>3, <2>4
<1>. QED
  BY <1>8, <1>9, <1>10, <1>11, <1>15, <1>16, <1>17, <1>18, <1>19, <1>20, <1>21 DEF Next, Cycle

(* Through failed calls, lost answers and restarts, and whatever sites      *)
(* others register its inverters under, the connector opens no second site  *)
(* for a plant with an inverter registered, and registers the others only   *)
(* where one of them is, unless someone registered one of them while the    *)
(* connector was at that plant. (reconcileSite,                             *)
(* ensureDeviceRegisteredAndTokenCached.)                                   *)
THEOREM NoSecondSiteEver == Spec => NoSecondSite
<1>. DEFINE Inv == JobOK(job) /\ Rest /\ SafelyInv
            Step == \A p \in Plant \ raced' : OneSite(p)
<1>1. Init => Inv
  <2>1. Init => SafelyInv
    BY InverterAt DEF Init, Idle, SafelyInv, Safely, KnownThere, Working, InPlant
  <2>. QED
    BY <2>1, IdleOK, OperatorSyncAssumption DEF Init, Rest
<1>2. Inv /\ [Next]_vars => Inv' /\ [Step]_vars
  <2>1. CASE Inv /\ Next
    <3>1. JobOK(job') /\ Rest' /\ SafelyInv' /\ Step
      BY <2>1, JobStep, RestStep, SafelyStep
    <3>. QED
      BY <3>1 DEF JobOK
  <2>2. CASE Inv /\ UNCHANGED vars
    <3>1. JobOK(job') /\ Rest' /\ UNCHANGED <<job, known, place, raced>>
      BY <2>2 DEF vars, Rest
    <3>2. ASSUME NEW p \in Plant PROVE Sites(p)' = Sites(p) /\ (KnownThere(p) => KnownThere(p)')
      BY <3>1, Undisturbed
    <3>3. \A p : Working(p)' = Working(p)
      BY <3>1 DEF Working, JobPlant
    <3>4. SafelyInv'
      BY <2>2, <3>1, <3>2, <3>3 DEF SafelyInv, Safely
    <3>. QED
      BY <2>2, <3>1, <3>4 DEF JobOK
  <2>. QED
    BY <2>1, <2>2
<1>3. [Step]_vars <=> [\A p \in Plant \ raced' :
         /\ located'[p] # located[p] => Sites(p) = {}
         /\ job' # job /\ Sites(p) # {} => Sites(p)' \subseteq Sites(p)]_vars
  BY DEF OneSite
<1>. QED
  BY <1>1, <1>2, <1>3, PTL DEF Spec, Safe, NoSecondSite

(***************************************************************************)
(* Readings. Most of what they say of a device is taken over; the voltages *)
(* are means, worked out in a loop.                                        *)
(***************************************************************************)

(* Induction over the numbers, with a set in place of the property.        *)
LEMMA AllNumbers ==
  ASSUME NEW T, 0 \in T, \A n \in Nat : n \in T => n + 1 \in T
  PROVE  Nat \subseteq T
<1>. SUFFICES ASSUME Nat \ T # {} PROVE FALSE
  OBVIOUS
<1>1. PICK t \in Nat \ T : \A u \in Nat \ T : ~(<<u, t>> \in OpToRel(<, Nat))
  BY WFMin, NatLessThanWellFounded
<1>2. \A u \in Nat \ T : ~(u < t)
  BY <1>1 DEF OpToRel
<1>3. t \in Nat /\ t # 0
  OBVIOUS
<1>4. t - 1 \in Nat /\ t - 1 < t
  BY <1>3
<1>5. t - 1 \in T
  BY <1>2, <1>4
<1>6. (t - 1) + 1 = t
  BY <1>3
<1>. QED
  BY <1>4, <1>5, <1>6

(* How a tally goes on, and one of the first m values.                     *)
Counts(s, silent, i, before) ==
  IF s[i] \in silent THEN before ELSE [sum |-> before.sum + s[i], n |-> before.n + 1]

Tallies(after, s, silent, m) ==
  after = [i \in 0 .. m |-> IF i = 0 THEN [sum |-> 0, n |-> 0]
                            ELSE Counts(s, silent, i, after[i - 1])]

LEMMA TallyExists ==
  ASSUME NEW s, NEW silent, NEW m \in Nat
  PROVE  \E after : Tallies(after, s, silent, m)
<1>. DEFINE N == {n \in Nat : \E after : Tallies(after, s, silent, n)}
            zero == [sum |-> 0, n |-> 0]
<1>1. 0 \in N
  <2>1. Tallies([i \in 0 .. 0 |-> zero], s, silent, 0)
    BY DEF Tallies
  <2>. QED
    BY <2>1
<1>2. ASSUME NEW n \in Nat, n \in N PROVE n + 1 \in N
  <2>1. PICK after : Tallies(after, s, silent, n)
    BY <1>2
  <2>. DEFINE more == [i \in 0 .. n + 1 |-> IF i = 0 THEN zero
                                            ELSE Counts(s, silent, i, after[i - 1])]
  <2>2. \A i \in 0 .. n : more[i] = after[i]
    BY <2>1 DEF Tallies
  <2>3. \A i \in 0 .. n + 1 : i # 0 => i - 1 \in 0 .. n
    OBVIOUS
  <2>4. more = [i \in 0 .. n + 1 |-> IF i = 0 THEN zero ELSE Counts(s, silent, i, more[i - 1])]
    <3>1. \A i \in 0 .. n + 1 : i # 0 => more[i - 1] = after[i - 1]
      BY <2>2, <2>3
    <3>. QED
      BY <3>1
  <2>5. Tallies(more, s, silent, n + 1)
    BY <2>4 DEF Tallies
  <2>. HIDE DEF more
  <2>. QED
    BY <2>5
<1>3. \A n \in Nat : n \in N => n + 1 \in N
  BY <1>2
<1>. HIDE DEF N
<1>4. Nat \subseteq N
  BY <1>1, <1>3, AllNumbers
<1>. QED
  BY <1>4 DEF N

(* A tally lies between the least and the greatest value, as often as it   *)
(* counts.                                                                 *)
Middling(t, parts) ==
  /\ t.n \in Nat /\ t.sum \in Nat
  /\ t.n = 0 => t.sum = 0
  /\ t.n # 0 => \E low, high \in parts : low * t.n <= t.sum /\ t.sum <= high * t.n

LEMMA Counted ==
  ASSUME NEW parts \in SUBSET Nat, NEW t, Middling(t, parts), NEW v \in parts
  PROVE  Middling([sum |-> t.sum + v, n |-> t.n + 1], parts)
<1>1. /\ t.n \in Nat /\ t.sum \in Nat /\ t.n + 1 \in Nat /\ t.sum + v \in Nat
      /\ [sum |-> t.sum + v, n |-> t.n + 1].n = t.n + 1
      /\ [sum |-> t.sum + v, n |-> t.n + 1].sum = t.sum + v
  BY DEF Middling
<1>2. \E low, high \in parts : low * (t.n + 1) <= t.sum + v /\ t.sum + v <= high * (t.n + 1)
  <2>1. CASE t.n = 0
    <3>1. t.sum = 0
      BY <2>1 DEF Middling
    <3>2. v * (t.n + 1) <= t.sum + v /\ t.sum + v <= v * (t.n + 1)
      BY <2>1, <3>1
    <3>. QED
      BY <3>2
  <2>2. CASE t.n # 0
    <3>1. PICK low \in parts, high \in parts : low * t.n <= t.sum /\ t.sum <= high * t.n
      BY <2>2 DEF Middling
    <3>2. \E a \in parts : a * (t.n + 1) <= t.sum + v
      BY <1>1, <3>1
    <3>3. \E b \in parts : t.sum + v <= b * (t.n + 1)
      BY <1>1, <3>1
    <3>. QED
      BY <3>2, <3>3
  <2>. QED
    BY <2>1, <2>2
<1>. QED
  BY <1>1, <1>2 DEF Middling

(* Division keeps to such bounds.                                         *)
LEMMA Quotient ==
  ASSUME NEW sum \in Nat, NEW n \in Nat \ {0}, NEW low \in Nat, NEW high \in Nat,
         low * n <= sum, sum <= high * n
  PROVE  sum \div n \in low .. high
<1>. DEFINE q == sum \div n
<1>1. q \in Nat /\ q * n <= sum /\ sum < (q + 1) * n
  OBVIOUS
<1>. HIDE DEF q
<1>2. low <= q
  <2>. SUFFICES ASSUME q + 1 <= low PROVE FALSE
    BY <1>1
  <2>1. (q + 1) * n <= low * n
    BY <1>1
  <2>. QED
    BY <1>1, <2>1
<1>3. q <= high
  <2>. SUFFICES ASSUME high + 1 <= q PROVE FALSE
    BY <1>1
  <2>1. (high + 1) * n <= q * n
    BY <1>1
  <2>2. (high + 1) * n = high * n + n
    OBVIOUS
  <2>. QED
    BY <1>1, <2>1, <2>2
<1>. QED
  BY <1>1, <1>2, <1>3 DEF q

(* Of any sequence the tally does so, of the values it counts.              *)
LEMMA TallyLies ==
  ASSUME NEW s \in Seq(Nat), NEW silent
  PROVE  Middling(Tally(s, silent), ToSet(s) \ silent)
<1>. DEFINE parts == ToSet(s) \ silent
            after == CHOOSE a : Tallies(a, s, silent, Len(s))
<1>1. Len(s) \in Nat /\ (\A i \in 1 .. Len(s) : s[i] \in Nat /\ s[i] \in ToSet(s))
  BY DEF ToSet
<1>2. parts \in SUBSET Nat
  BY DEF ToSet
<1>3. Tallies(after, s, silent, Len(s))
  <2>1. \E a : Tallies(a, s, silent, Len(s))
    BY <1>1, TallyExists
  <2>. QED
    BY <2>1
<1>4. Tally(s, silent) = after[Len(s)]
  BY DEF Tally, Tallies, Counts
<1>. HIDE DEF after, parts
<1>. DEFINE N == {i \in Nat : i <= Len(s) => Middling(after[i], parts)}
<1>5. after[0] = [sum |-> 0, n |-> 0]
  BY <1>1, <1>3 DEF Tallies
<1>6. 0 \in N
  BY <1>5 DEF Middling
<1>7. ASSUME NEW i \in Nat, i \in N, i + 1 <= Len(s) PROVE Middling(after[i + 1], parts)
  <2>1. i + 1 \in 0 .. Len(s) /\ i + 1 # 0 /\ (i + 1) - 1 = i /\ i <= Len(s)
    BY <1>1, <1>7
  <2>2. Middling(after[i], parts)
    BY <1>7, <2>1
  <2>3. after[i + 1] = Counts(s, silent, i + 1, after[i])
    BY <1>3, <2>1 DEF Tallies
  <2>4. CASE s[i + 1] \in silent
    BY <2>2, <2>3, <2>4 DEF Counts
  <2>5. CASE s[i + 1] \notin silent
    <3>1. s[i + 1] \in parts
      BY <1>1, <2>1, <2>5 DEF parts
    <3>2. after[i + 1] = [sum |-> after[i].sum + s[i + 1], n |-> after[i].n + 1]
      BY <2>3, <2>5 DEF Counts
    <3>. QED
      BY <1>2, <2>2, <3>1, <3>2, Counted
  <2>. QED
    BY <2>4, <2>5
<1>8. \A i \in Nat : i \in N => i + 1 \in N
  BY <1>7
<1>9. Nat \subseteq N
  <2>. HIDE DEF N
  <2>. QED
    BY <1>6, <1>8, AllNumbers
<1>10. Middling(after[Len(s)], parts)
  BY <1>1, <1>9
<1>. QED
  BY <1>4, <1>10 DEF parts

(* A mean lies between two of the values it is of.                         *)
LEMMA MeanLies ==
  ASSUME NEW s \in Seq(Nat), NEW silent
  PROVE  Between(Mean(s, silent), ToSet(s) \ silent)
<1>. DEFINE all == Tally(s, silent)
            parts == ToSet(s) \ silent
<1>1. Middling(all, parts)
  BY TallyLies
<1>2. parts \in SUBSET Nat
  BY DEF ToSet
<1>3. Mean(s, silent) = IF all.n = 0 THEN None ELSE all.sum \div all.n
  BY DEF Mean
<1>. HIDE DEF all, parts
<1>4. ASSUME all.n # 0 PROVE Between(Mean(s, silent), parts)
  <2>1. all.n \in Nat \ {0} /\ all.sum \in Nat
    BY <1>1, <1>4 DEF Middling
  <2>2. PICK low \in parts, high \in parts : low * all.n <= all.sum /\ all.sum <= high * all.n
    BY <1>1, <1>4 DEF Middling
  <2>3. all.sum \div all.n \in low .. high
    BY <1>2, <2>1, <2>2, Quotient
  <2>. QED
    BY <1>3, <1>4, <2>3 DEF Between
<1>5. ASSUME all.n = 0 PROVE Between(Mean(s, silent), parts)
  BY <1>3, <1>5 DEF Between
<1>6. Between(Mean(s, silent), parts)
  BY <1>4, <1>5
<1>. QED
  BY <1>6 DEF parts

(* What a reading r must be to be faithful to measurements t.              *)
Faithful(r, t) ==
  /\ r.power_kw = IF t.power = None THEN 0 ELSE kW(t.power)
  /\ r.energy_kwh_total = IF t.energy = None THEN 0 ELSE t.energy
  /\ r.grid_power_kw = kW(t.import)
  /\ Between(r.battery_voltage_v, ToSet(t.packs) \ {0})
  /\ Between(r.pv_voltage_v, ToSet(t.strings))
  /\ Between(r.output_voltage_v, ToSet(t.phases))

(* One battery pack gives its own voltage, several the mean of those that  *)
(* report, and none none.                                                  *)
LEMMA BatteryLies ==
  ASSUME NEW t, t.packs \in Seq(Nat), t.packs # <<>>
  PROVE  Between(BatteryVoltage(PVProFlow(t)), ToSet(t.packs) \ {0})
<1>. DEFINE flow == PVProFlow(t)
<1>1. /\ flow.battV = IF Len(t.packs) = 1 THEN t.packs[1] ELSE 0
      /\ flow.packs = IF Len(t.packs) = 1 THEN <<>> ELSE t.packs
  BY DEF PVProFlow
<1>2. BatteryVoltage(flow) = IF flow.battV # 0 THEN flow.battV ELSE Mean(flow.packs, {0})
  BY DEF BatteryVoltage
<1>. HIDE DEF flow
<1>3. ASSUME flow.battV # 0 PROVE Between(BatteryVoltage(flow), ToSet(t.packs) \ {0})
  <2>1. Len(t.packs) = 1 /\ flow.battV = t.packs[1]
    BY <1>1, <1>3
  <2>2. t.packs[1] \in ToSet(t.packs) \ {0} /\ t.packs[1] \in Nat
    BY <1>3, <2>1 DEF ToSet
  <2>3. t.packs[1] \in t.packs[1] .. t.packs[1]
    BY <2>2
  <2>. QED
    BY <1>2, <1>3, <2>1, <2>2, <2>3 DEF Between
<1>4. ASSUME flow.battV = 0, Len(t.packs) = 1
      PROVE  Between(BatteryVoltage(flow), ToSet(t.packs) \ {0})
  <2>1. BatteryVoltage(flow) = Mean(<<>>, {0}) /\ <<>> \in Seq(Nat)
    BY <1>1, <1>2, <1>4
  <2>2. Between(Mean(<<>>, {0}), ToSet(<<>>) \ {0})
    BY <2>1, MeanLies
  <2>3. ToSet(<<>>) = {}
    BY DEF ToSet
  <2>. QED
    BY <2>1, <2>2, <2>3 DEF Between
<1>5. ASSUME flow.battV = 0, Len(t.packs) # 1
      PROVE  Between(BatteryVoltage(flow), ToSet(t.packs) \ {0})
  BY <1>1, <1>2, <1>5, MeanLies
<1>6. Between(BatteryVoltage(flow), ToSet(t.packs) \ {0})
  BY <1>3, <1>4, <1>5
<1>. QED
  BY <1>6 DEF flow

(* Both programs read faithfully.                                          *)
LEMMA EachIsFaithful ==
  ASSUME NEW d \in Device, NEW r \in Reading(d)
  PROVE  Faithful(r, Truth[d])
<1>. DEFINE t == Truth[d]
<1>1. /\ t.power \in Int \cup {None} /\ t.energy \in Nat \cup {None} /\ t.import \in Int \cup {None} /\ None \notin Int
      /\ t.packs \in Seq(Nat) /\ t.strings \in Seq(Nat) /\ t.phases \in Seq(Nat)
  BY TruthAssumption
<1>2. \A some : Between(None, some)
  BY DEF Between
<1>5. /\ kW(OrZero(t.power)) = IF t.power = None THEN 0 ELSE kW(t.power)
      /\ OrZero(t.energy) = IF t.energy = None THEN 0 ELSE t.energy
  <2>1. kW(0) = 0
    BY <1>1 DEF kW
  <2>. QED
    BY <2>1 DEF OrZero
<1>3. CASE kind = "pvpro"
  <2>1. PICK v \in {None, PVVoltage(t)}, w \in {None, OutputVoltage(t)} : r = PVProReading(t, v, w)
    BY <1>3 DEF Reading
  <2>. HIDE DEF t
  <2>2. Between(v, ToSet(t.strings)) /\ Between(w, ToSet(t.phases))
    <3>1. ToSet(t.strings) \ {} = ToSet(t.strings) /\ ToSet(t.phases) \ {} = ToSet(t.phases)
      OBVIOUS
    <3>2. Between(PVVoltage(t), ToSet(t.strings)) /\ Between(OutputVoltage(t), ToSet(t.phases))
      BY <1>1, <3>1, MeanLies DEF PVVoltage, OutputVoltage
    <3>. QED
      BY <1>2, <2>1, <3>2
  <2>3. /\ r.power_kw = kW(OrZero(t.power)) /\ r.energy_kwh_total = OrZero(t.energy)
        /\ r.pv_voltage_v = v /\ r.output_voltage_v = w
        /\ r.battery_voltage_v = IF t.packs # <<>> THEN BatteryVoltage(PVProFlow(t)) ELSE None
        /\ r.grid_power_kw = IF t.import # None THEN kW(IF t.import = None THEN 0 ELSE t.import)
                             ELSE None
    BY <2>1 DEF PVProReading, PVProFlow
  <2>4. r.grid_power_kw = kW(t.import)
    BY <2>3 DEF kW
  <2>5. Between(r.battery_voltage_v, ToSet(t.packs) \ {0})
    <3>1. CASE t.packs = <<>>
      BY <1>2, <2>3, <3>1
    <3>2. CASE t.packs # <<>>
      BY <1>1, <2>3, <3>2, BatteryLies
    <3>. QED
      BY <3>1, <3>2
  <2>6. Faithful(r, t)
    BY <1>5, <2>2, <2>3, <2>4, <2>5 DEF Faithful
  <2>. QED
    BY <2>6 DEF t
<1>4. CASE kind # "pvpro"
  <2>1. r = SolarmanReading(t)
    BY <1>4 DEF Reading
  <2>. HIDE DEF t
  <2>. DEFINE data == SolarmanData(t)
  <2>2. /\ Value(data, "T_AC_OP") = t.power /\ Value(data, "Et_ge0") = t.energy
        /\ Value(data, "PG_Pt1") = IF t.import = None THEN None ELSE 0 - t.import
    BY DEF SolarmanData, Value, Restrict
  <2>3. /\ r.power_kw = kW(OrZero(Value(data, "T_AC_OP")))
        /\ r.energy_kwh_total = OrZero(Value(data, "Et_ge0"))
        /\ r.pv_voltage_v = None /\ r.output_voltage_v = None
        /\ r.battery_voltage_v = None
        /\ r.grid_power_kw = IF Value(data, "PG_Pt1") = None THEN None
                             ELSE kW(0 - Value(data, "PG_Pt1"))
    BY <2>1 DEF SolarmanReading
  <2>. HIDE DEF data
  <2>4. r.grid_power_kw = kW(t.import)
    <3>1. CASE t.import = None
      BY <2>2, <2>3, <3>1 DEF kW
    <3>2. CASE t.import # None
      <4>1. t.import \in Int /\ 0 - t.import \in Int /\ 0 - (0 - t.import) = t.import
        BY <1>1, <3>2
      <4>2. Value(data, "PG_Pt1") = 0 - t.import /\ Value(data, "PG_Pt1") # None
        BY <1>1, <2>2, <3>2, <4>1
      <4>. QED
        BY <2>3, <4>1, <4>2
    <3>. QED
      BY <3>1, <3>2
  <2>5. Faithful(r, t)
    BY <1>5, <1>2, <2>2, <2>3, <2>4 DEF Faithful
  <2>. QED
    BY <2>5 DEF t
<1>. QED
  BY <1>3, <1>4

(* Only Submit posts anything.                                             *)
LEMMA PostedBySubmit == Next => posted' = None \/ Submit
<1>. SUFFICES ASSUME Next, ~ Submit PROVE posted' = None
  OBVIOUS
<1>1. CASE Cycle
  BY <1>1 DEF Cycle, Tick, GetPlants, ListStations, GetPlantsFails, GetInverters, ListDevices,
       GetInvertersFails, LookUp, SiteExists, StationSiteExists, GetPlantDetail, CreateSite,
       ReconcileFails, FindDevice, CreateDevice, IssueToken, EnsureFails, SubmitFails, CycleEnds,
       Moves
<1>. QED
  BY <1>1 DEF Next, Restart, VendorWithdraws, TokenRunsOut, OthersIssueToken, OthersRegister

(* What is stored of a device is what its inverter measures, for any        *)
(* measurements: with the platform's sign for the grid, nothing for a meter *)
(* that is not there, a mean voltage that no silent pack pulls down, and 0  *)
(* for a power or an energy only if the vendor leaves it out.               *)
(* (buildReading, BatteryVoltage, getPVVoltage, getOutputVoltage.)          *)
THEOREM ReadingsAreFaithful == Spec => []ReadingsFaithful
<1>. DEFINE Inv == JobOK(job) /\ Rest /\ ReadingsFaithful
<1>1. Init => Inv
  BY IdleOK, OperatorSyncAssumption DEF Init, Rest, ReadingsFaithful
<1>2. Inv /\ [Next]_vars => Inv'
  <2>1. ASSUME Inv, Next PROVE Inv'
    <3>1. JobOK(job') /\ Rest'
      BY <2>1, JobStep, RestStep
    <3>2. CASE posted' = None
      BY <3>1, <3>2 DEF ReadingsFaithful, JobOK
    <3>3. CASE Submit
      <4>1. Head(job.queue) \in Device
        BY <2>1, <3>3, InHand DEF Submit
      <4>2. PICK r \in Reading(Head(job.queue)) :
              posted' = [dev |-> Head(job.queue), reading |-> r]
        BY <3>3 DEF Submit
      <4>3. Faithful(r, Truth[Head(job.queue)])
        BY <4>1, EachIsFaithful
      <4>4. posted'.dev = Head(job.queue) /\ posted'.reading = r
        BY <4>2
      <4>5. ReadingsFaithful'
        BY <4>3, <4>4 DEF ReadingsFaithful, Faithful
      <4>. QED
        BY <3>1, <4>5 DEF JobOK
    <3>. QED
      BY <2>1, <3>2, <3>3, PostedBySubmit
  <2>2. CASE UNCHANGED vars
    BY <2>2 DEF vars, Rest, JobOK, ReadingsFaithful
  <2>. QED
    BY <2>1, <2>2
<1>3. Inv => ReadingsFaithful
  OBVIOUS
<1>. QED
  BY <1>1, <1>2, <1>3, PTL DEF Spec, Safe
=============================================================================
