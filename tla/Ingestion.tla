------------------------------ MODULE Ingestion ------------------------------
(***************************************************************************)
(* The two ways a reading reaches the telemetry table:                     *)
(*   - cmd/ingestor handles one MQTT message at a time (handleMessage);    *)
(*   - the API handles a cloud-import request carrying a batch of readings *)
(*     (registry.CloudImport.SubmitReadings).                              *)
(* Every SQL statement is a transaction of its own, so a handler is a      *)
(* process that interleaves with the other handlers, and with the operator *)
(* who registers and revokes devices, between any two of them. A statement *)
(* may fail (the connection breaks) before or after the database applied   *)
(* it, and a handler may die anywhere; `faults' counts both and MaxFaults  *)
(* bounds it. A step below is one statement and the Go code up to the next.*)
(***************************************************************************)
EXTENDS Naturals, Sequences

CONSTANTS
  Device,       \* device ids
  Timestamp,    \* reading timestamps (payload "ts"), positive
  Energy,       \* energy_kwh_total values
  Payload,      \* the readings that may arrive
  Ingestor,     \* MQTT handlers: one per running ingestor process
  Request,      \* cloud-import requests served concurrently
  MaxBatch,     \* readings in a cloud-import request
  MaxArrivals,  \* readings that arrive in a behaviour
  MaxFaults     \* statements that fail and handlers that die in a behaviour

Handler == Ingestor \cup Request

\* What matters about a payload: "notjson" is text Postgres refuses as jsonb,
\* "mistyped" is JSON that does not unmarshal into TelemetryPayload, and
\* "implausible" is what Validate refuses.
Form == {"fine", "implausible", "mistyped", "notjson"}
Reading == [ts : Timestamp, energy : Energy, form : Form]

ASSUME IngestionAssumption ==
  /\ Timestamp \subseteq Nat \ {0}
  /\ Energy \subseteq Nat
  /\ Payload \subseteq Reading
  /\ Ingestor \cap Request = {}
  /\ MaxBatch \in Nat
  /\ MaxArrivals \in Nat
  /\ MaxFaults \in Nat

\* readings[] is decoded from the request body before SubmitReadings runs.
CloudReading == {r \in Payload : r.form \in {"fine", "implausible"}}

Entry == [dev : Device, reading : Reading, processed : BOOLEAN, error : BOOLEAN]
Row == [dev : Device, ts : Timestamp, energy : Energy, reset : BOOLEAN]
Result == [ts : Timestamp, energy : Energy, duplicate : BOOLEAN]

Step == {"idle", "audit", "contact", "lookup", "previous", "insert", "seen",
         "settle", "reject"}

VARIABLES
  (* the database *)
  status,     \* devices: "unknown" (no row), "active" or "revoked"
  contacted,  \* devices.last_contact_at is not NULL
  lastSeen,   \* devices.last_seen_at, 0 for NULL
  audit,      \* ingestion_audit_log in order of id
  telemetry,  \* the telemetry table: a set of rows
  (* the handlers *)
  pc,         \* the statement the handler runs next
  dev,        \* the device it serves
  todo,       \* readings left, the current one first
  aid,        \* id of the current reading's audit row, 0 for none
  reset,      \* the energy_reset flag it computed
  best,       \* SubmitReadings' maxAcceptedTS, 0 for nil
  reply,      \* the accepted results of the request so far
  (* bookkeeping *)
  unaudited,  \* readings SubmitReadings went on with after their audit INSERT failed
  letIn,      \* of a device, when revoked: readings stored, or in hand past the check
  arrivals,   \* readings that have arrived
  faults      \* failures so far

database == <<status, contacted, lastSeen, audit, telemetry>>
locals == <<dev, todo, aid, reset, best, reply>>
vars == <<status, contacted, lastSeen, audit, telemetry, pc, dev, todo, aid,
          reset, best, reply, unaudited, letIn, arrivals, faults>>

Current(h) == Head(todo[h])

(* A reading for the device and timestamp is in the table.                 *)
HasRow(d, t) == \E row \in telemetry : row.dev = d /\ row.ts = t

\* Mutant: the previous reading is the latest inserted, whatever its timestamp.
EarlierAnyTS(d, t) == {row \in telemetry : row.dev = d /\ row.ts # t}

(* The rows PreviousEnergyBeforeTS ranks by ts DESC.                        *)
Earlier(d, t) == {row \in telemetry : row.dev = d /\ row.ts < t}

(* DetectEnergyReset on the latest of them: lower than the reading          *)
(* immediately before it by timestamp.                                      *)
DetectEnergyReset(d, t, e) ==
  \E row \in Earlier(d, t) :
    /\ \A other \in Earlier(d, t) : other.ts <= row.ts
    /\ e < row.energy

-----------------------------------------------------------------------------

Init ==
  /\ status \in [Device -> {"unknown", "active"}]
  /\ contacted = [d \in Device |-> FALSE]
  /\ lastSeen = [d \in Device |-> 0]
  /\ audit = <<>>
  /\ telemetry = {}
  /\ pc = [h \in Handler |-> "idle"]
  /\ dev \in [Handler -> Device]
  /\ todo = [h \in Handler |-> <<>>]
  /\ aid = [h \in Handler |-> 0]
  /\ reset = [h \in Handler |-> FALSE]
  /\ best = [h \in Handler |-> 0]
  /\ reply = [h \in Handler |-> {}]
  /\ unaudited = {}
  /\ letIn = [d \in Device |-> {}]
  /\ arrivals = 0
  /\ faults = 0

Clean == UNCHANGED faults
Fault == faults < MaxFaults /\ faults' = faults + 1

Goto(h, step) == pc' = [pc EXCEPT ![h] = step]

(* The handler returns and forgets what it held.                            *)
Finish(h) ==
  /\ Goto(h, "idle")
  /\ todo' = [todo EXCEPT ![h] = <<>>]
  /\ aid' = [aid EXCEPT ![h] = 0]
  /\ reset' = [reset EXCEPT ![h] = FALSE]
  /\ best' = [best EXCEPT ![h] = 0]
  /\ reply' = [reply EXCEPT ![h] = {}]
  /\ UNCHANGED dev

(* SubmitReadings' loop goes on to the next reading, or leaves the loop.    *)
NextReading(h) ==
  /\ todo' = [todo EXCEPT ![h] = Tail(@)]
  /\ Goto(h, IF Len(todo[h]) = 1 THEN "contact" ELSE "audit")
  /\ aid' = [aid EXCEPT ![h] = 0]
  /\ reset' = [reset EXCEPT ![h] = FALSE]
  /\ UNCHANGED <<dev, best, reply>>

Start(h, d, readings, step) ==
  /\ pc[h] = "idle"
  /\ arrivals + Len(readings) <= MaxArrivals
  /\ arrivals' = arrivals + Len(readings)
  /\ Goto(h, step)
  /\ dev' = [dev EXCEPT ![h] = d]
  /\ todo' = [todo EXCEPT ![h] = readings]
  /\ UNCHANGED <<database, aid, reset, best, reply, unaudited, letIn, faults>>

(* The broker delivers a message on devices/{d}/telemetry.                  *)
HandleMessage(h, d, r) == h \in Ingestor /\ Start(h, d, <<r>>, "audit")

(* An authenticated cloud-import request: the device is looked up first.    *)
SubmitReadings(h, d, batch) == h \in Request /\ Start(h, d, batch, "lookup")

-----------------------------------------------------------------------------

\* Mutant: a cloud reading is not validated.
AfterAuditUnchecked(h) == IF h \in Ingestor THEN "contact" ELSE "previous"

(* INSERT INTO ingestion_audit_log ... RETURNING id. Postgres refuses text   *)
(* that is not JSON. If the statement fails the ingestor drops the message;  *)
(* SubmitReadings logs and goes on without a row. Validation needs no        *)
(* statement, so there it is part of this step.                              *)
AfterAudit(h) ==
  IF h \in Ingestor THEN "contact"
  ELSE IF Current(h).form = "implausible" THEN "reject" ELSE "previous"

AppendAudit(h) ==
  audit' = Append(audit, [dev |-> dev[h], reading |-> Current(h),
                          processed |-> FALSE, error |-> FALSE])

AuditInserted(h) ==
  /\ Clean
  /\ AppendAudit(h)
  /\ aid' = [aid EXCEPT ![h] = Len(audit) + 1]
  /\ Goto(h, AfterAudit(h))
  /\ UNCHANGED <<dev, todo, reset, best, reply, unaudited>>

\* Mutant: the ingestor too goes on when the audit INSERT fails.
AuditLostIgnored(h) ==
  /\ Fault
  /\ AppendAudit(h) \/ UNCHANGED audit
  /\ Goto(h, AfterAudit(h))
  /\ UNCHANGED <<locals, unaudited>>

AuditLost(h) ==
  /\ Fault
  /\ AppendAudit(h) \/ UNCHANGED audit
  /\ \/ /\ h \in Ingestor
        /\ Finish(h)
        /\ UNCHANGED unaudited
     \/ /\ h \in Request
        /\ unaudited' = unaudited \cup {<<dev[h], Current(h).ts, Current(h).energy>>}
        /\ Goto(h, AfterAudit(h))
        /\ UNCHANGED locals

CreateAuditRow(h) ==
  /\ pc[h] = "audit"
  /\ UNCHANGED <<status, contacted, lastSeen, telemetry, letIn, arrivals>>
  /\ \/ Current(h).form # "notjson" /\ (AuditInserted(h) \/ AuditLost(h))
     \/ /\ Current(h).form = "notjson" /\ Clean
        /\ Finish(h)
        /\ UNCHANGED <<audit, unaudited>>

(* UPDATE devices SET last_contact_at, for an MQTT message before it is     *)
(* parsed, for a request after its last reading. A failure is only logged.  *)
(* Unmarshalling follows; an unparsable payload is rejected.                *)
UpdateLastContact(h) ==
  /\ pc[h] = "contact"
  /\ UNCHANGED <<status, lastSeen, audit, telemetry, unaudited, letIn, arrivals>>
  /\ LET Update == contacted' = [contacted EXCEPT ![dev[h]] = status[dev[h]] # "unknown" \/ @]
     IN \/ Clean /\ Update
        \/ Fault /\ (Update \/ UNCHANGED contacted)
  /\ \/ /\ h \in Ingestor
        /\ Goto(h, IF Current(h).form = "mistyped" THEN "reject" ELSE "lookup")
        /\ UNCHANGED locals
     \/ /\ h \in Request /\ best[h] # 0
        /\ Goto(h, "seen")
        /\ UNCHANGED locals
     \/ /\ h \in Request /\ best[h] = 0
        /\ Finish(h)

\* Mutant: revoked_at is not looked at.
OpenToRevoked(d) == status[d] # "unknown"

(* The device exists and its revoked_at is NULL.                             *)
Open(d) == status[d] = "active"

(* The device row joined with its site. The ingestor looks it up for every  *)
(* message and validates against the site's ceiling; SubmitReadings looks   *)
(* it up once, before its loop.                                             *)
LookupDevice(h) ==
  /\ pc[h] = "lookup"
  /\ UNCHANGED <<database, unaudited, letIn, arrivals>>
  /\ \/ /\ h \in Ingestor /\ Clean
        /\ Goto(h, IF Open(dev[h]) /\ Current(h).form # "implausible"
                   THEN "previous" ELSE "reject")
        /\ UNCHANGED locals
     \/ /\ h \in Ingestor /\ Fault
        /\ Goto(h, "reject")
        /\ UNCHANGED locals
     \/ /\ h \in Request /\ Open(dev[h]) /\ Clean
        /\ Goto(h, "audit")
        /\ UNCHANGED locals
     \/ /\ h \in Request
        /\ (~Open(dev[h]) /\ Clean) \/ Fault
        /\ Finish(h)

(* SELECT energy_kwh_total ... WHERE ts < $2 ORDER BY ts DESC LIMIT 1. If   *)
(* it fails the reading goes in unflagged.                                  *)
PreviousEnergy(h) ==
  /\ pc[h] = "previous"
  /\ LET found == DetectEnergyReset(dev[h], Current(h).ts, Current(h).energy)
     IN \/ Clean /\ reset' = [reset EXCEPT ![h] = found]
        \/ Fault /\ reset' = [reset EXCEPT ![h] = FALSE]
  /\ Goto(h, "insert")
  /\ UNCHANGED <<database, dev, todo, aid, best, reply, unaudited, letIn, arrivals>>

(* INSERT INTO telemetry ... ON CONFLICT (device_id, ts) DO NOTHING.        *)
Upsert(h) ==
  LET r == Current(h) IN
  telemetry' = IF HasRow(dev[h], r.ts) THEN telemetry
               ELSE telemetry \cup {[dev |-> dev[h], ts |-> r.ts,
                                     energy |-> r.energy, reset |-> reset[h]]}

\* Mutant: the row count of the INSERT is not looked at.
AcceptAsNew(h) ==
  [ts |-> Current(h).ts, energy |-> Current(h).energy, duplicate |-> FALSE]

\* The result SubmitReadings adds to its response.
Accept(h) ==
  [ts |-> Current(h).ts, energy |-> Current(h).energy,
   duplicate |-> HasRow(dev[h], Current(h).ts)]

InsertTelemetry(h) ==
  /\ pc[h] = "insert"
  /\ UNCHANGED <<status, contacted, lastSeen, audit, dev, todo, aid, reset,
                 unaudited, letIn, arrivals>>
  /\ \/ /\ h \in Ingestor /\ Clean
        /\ Upsert(h)
        /\ Goto(h, "seen")
        /\ UNCHANGED <<best, reply>>
     \/ /\ h \in Request /\ Clean
        /\ Upsert(h)
        /\ Goto(h, "settle")
        /\ best' = [best EXCEPT ![h] = IF @ < Current(h).ts THEN Current(h).ts ELSE @]
        /\ reply' = [reply EXCEPT ![h] = @ \cup {Accept(h)}]
     \/ /\ Fault
        /\ Upsert(h) \/ UNCHANGED telemetry
        /\ Goto(h, "reject")
        /\ UNCHANGED <<best, reply>>

(* UPDATE devices SET last_seen_at = $1 WHERE last_seen_at IS NULL OR       *)
(* last_seen_at < $1. A failure is only logged.                             *)
SeenTS(h) == IF h \in Ingestor THEN Current(h).ts ELSE best[h]

\* Mutants: the WHERE clause dropped; only a NULL replaced; the arrival instant stored.
MoveAnywhere(h) == lastSeen' = [lastSeen EXCEPT ![dev[h]] = SeenTS(h)]
MoveFromNull(h) ==
  lastSeen' = [lastSeen EXCEPT ![dev[h]] = IF @ = 0 THEN SeenTS(h) ELSE @]

MoveForward(h) ==
  lastSeen' = [lastSeen EXCEPT ![dev[h]] = IF @ < SeenTS(h) THEN SeenTS(h) ELSE @]

AdvanceLastSeen(h) ==
  /\ pc[h] = "seen"
  /\ UNCHANGED <<status, contacted, audit, telemetry, unaudited, letIn, arrivals>>
  /\ \/ Clean /\ MoveForward(h)
     \/ Fault /\ (MoveForward(h) \/ UNCHANGED lastSeen)
  /\ \/ /\ h \in Ingestor
        /\ Goto(h, "settle")
        /\ UNCHANGED locals
     \/ /\ h \in Request
        /\ Finish(h)

(* The last statement on a reading: UPDATE ingestion_audit_log SET          *)
(* processed = true, or SET error. The ingestor then returns, SubmitReadings*)
(* goes on; with no audit row there is nothing to mark.                     *)
Leave(h) == IF h \in Ingestor THEN Finish(h) ELSE NextReading(h)

Processed(e) == [e EXCEPT !.processed = TRUE]
\* Mutant: the error is logged but not recorded.
RejectedUnrecorded(e) == e

Rejected(e) == [e EXCEPT !.error = TRUE]

Mark(h, entry) ==
  /\ UNCHANGED <<status, contacted, lastSeen, telemetry, unaudited, letIn, arrivals>>
  /\ \/ aid[h] # 0 /\ audit' = [audit EXCEPT ![aid[h]] = entry] /\ (Clean \/ Fault)
     \/ aid[h] # 0 /\ UNCHANGED audit /\ Fault
     \/ aid[h] = 0 /\ UNCHANGED audit /\ Clean
  /\ Leave(h)

MarkProcessed(h) == pc[h] = "settle" /\ Mark(h, Processed(audit[aid[h]]))

MarkAuditError(h) == pc[h] = "reject" /\ Mark(h, Rejected(audit[aid[h]]))

-----------------------------------------------------------------------------

(* The process serving the message or request dies between two statements.  *)
Crash(h) ==
  /\ pc[h] # "idle"
  /\ Fault
  /\ Finish(h)
  /\ UNCHANGED <<database, unaudited, letIn, arrivals>>

(* Handlers that have already passed the revoked check of a device.           *)
PastCheck(h) ==
  \/ pc[h] \in {"previous", "insert"}
  \/ h \in Request /\ pc[h] \in {"audit", "settle", "reject"}

(* Readings of the device in the table, and in the hands of such handlers.    *)
Here(d) == {<<row.ts, row.energy>> : row \in {row \in telemetry : row.dev = d}}
InHand(h) == {<<todo[h][i].ts, todo[h][i].energy>> : i \in DOMAIN todo[h]}
Underway(d) == UNION {InHand(h) : h \in {h \in Handler : dev[h] = d /\ PastCheck(h)}}

(* registry.Devices.Register and Revoke, as far as ingestion sees them.     *)
Register(d) ==
  /\ status[d] = "unknown"
  /\ status' = [status EXCEPT ![d] = "active"]
  /\ UNCHANGED <<contacted, lastSeen, audit, telemetry, pc, locals, unaudited, letIn,
                 arrivals, faults>>

Revoke(d) ==
  /\ status[d] = "active"
  /\ status' = [status EXCEPT ![d] = "revoked"]
  /\ letIn' = [letIn EXCEPT ![d] = Here(d) \cup Underway(d)]
  /\ UNCHANGED <<contacted, lastSeen, audit, telemetry, pc, locals, unaudited,
                 arrivals, faults>>

Handle(h) ==
  \/ CreateAuditRow(h)
  \/ UpdateLastContact(h)
  \/ LookupDevice(h)
  \/ PreviousEnergy(h)
  \/ InsertTelemetry(h)
  \/ AdvanceLastSeen(h)
  \/ MarkProcessed(h)
  \/ MarkAuditError(h)

Batch == UNION {[1..n -> CloudReading] : n \in 1..MaxBatch}

Next ==
  \/ \E h \in Ingestor, d \in Device, r \in Payload : HandleMessage(h, d, r)
  \/ \E h \in Request, d \in Device, batch \in Batch : SubmitReadings(h, d, batch)
  \/ \E h \in Handler : Handle(h)
  \/ \E h \in Handler : Crash(h)
  \/ \E d \in Device : Register(d)
  \/ \E d \in Device : Revoke(d)

Spec == Init /\ [][Next]_vars

(* A handler that is running keeps running: its goroutine is scheduled and  *)
(* every statement returns, with an answer or an error. Nothing obliges a   *)
(* message to arrive, a handler to die or an operator to act.               *)
FairSpec == Spec /\ \A h \in Handler : WF_vars(Handle(h))

-----------------------------------------------------------------------------
(* Properties.                                                              *)

(* Types: of the database, of each handler's locals, of the counters.       *)
TypeOK ==
  /\ status \in [Device -> {"unknown", "active", "revoked"}]
  /\ contacted \in [Device -> BOOLEAN]
  /\ lastSeen \in [Device -> Timestamp \cup {0}]
  /\ audit \in Seq(Entry)
  /\ telemetry \in SUBSET Row
  /\ pc \in [Handler -> Step]
  /\ dev \in [Handler -> Device]
  /\ todo \in [Handler -> Seq(Reading)]
  /\ aid \in [Handler -> Nat]
  /\ reset \in [Handler -> BOOLEAN]
  /\ best \in [Handler -> Timestamp \cup {0}]
  /\ reply \in [Handler -> SUBSET Result]
  /\ unaudited \in SUBSET (Device \X Timestamp \X Energy)
  /\ letIn \in [Device -> SUBSET (Timestamp \X Energy)]
  /\ arrivals \in Nat
  /\ faults \in Nat

(* A stored reading was audited first: the log holds a row for that device   *)
(* with that very reading, whatever failed, raced or died since. The one     *)
(* exception the code makes is SubmitReadings going on after its audit       *)
(* INSERT reported an error.                                                 *)
AuditBeforeStore ==
  \A row \in telemetry :
    \/ \E i \in DOMAIN audit : /\ audit[i].dev = row.dev
                               /\ audit[i].reading.ts = row.ts
                               /\ audit[i].reading.energy = row.energy
    \/ <<row.dev, row.ts, row.energy>> \in unaudited

(* An audit row marked processed stands for data that is there: the table    *)
(* has a row for its device and timestamp, its own or the one that came      *)
(* first, and the reading passed validation.                                 *)
ProcessedIsStored ==
  \A i \in DOMAIN audit :
    audit[i].processed => /\ HasRow(audit[i].dev, audit[i].reading.ts)
                          /\ audit[i].reading.form = "fine"

(* last_seen_at keeps up with the table, although the two are written by     *)
(* different statements in an order that handlers interleave: while nothing  *)
(* failed, a stored row newer than its device's last_seen_at has a handler   *)
(* still on its way to advance it at least that far.                         *)
WillAdvance(h, d, t) ==
  /\ dev[h] = d
  /\ \/ h \in Ingestor /\ pc[h] = "seen" /\ t <= Current(h).ts
     \/ h \in Request /\ pc[h] # "idle" /\ t <= best[h]

LastSeenCatchesUp ==
  faults = 0 =>
    \A row \in telemetry :
      \/ row.ts <= lastSeen[row.dev]
      \/ \E h \in Handler : WillAdvance(h, row.dev, row.ts)

(* An energy_reset flag is never a false alarm: the table really holds an     *)
(* earlier reading of the device with a higher counter, however late and in   *)
(* whatever order the readings came.                                          *)
ResetFlagSound ==
  \A row \in telemetry :
    row.reset => \E other \in telemetry : /\ other.dev = row.dev
                                          /\ other.ts < row.ts
                                          /\ row.energy < other.energy

(* What a cloud-import response says is true of the table: an accepted        *)
(* reading's timestamp is stored, with this reading's energy unless it was    *)
(* reported a duplicate, and no two requests are both told that they brought  *)
(* different readings first.                                                  *)
ReplyHonest ==
  \A h \in Request : \A res \in reply[h] :
    \E row \in telemetry :
      /\ row.dev = dev[h] /\ row.ts = res.ts
      /\ res.duplicate \/ row.energy = res.energy

(* A verdict is final: once an audit row is marked processed or in error, no  *)
(* later statement of any handler changes it, so it is never both.            *)
VerdictFinal ==
  [][\A i \in DOMAIN audit :
       audit[i].processed \/ audit[i].error => audit'[i] = audit[i]]_vars

(* A revocation takes hold. The check of revoked_at is several statements    *)
(* before the INSERT (SubmitReadings': before all of a request's), so        *)
(* readings do land after it, but only those in the hands of handlers that   *)
(* were past the check when it came: of what arrives later, or was audited   *)
(* and not yet looked up, nothing is stored by either way in.                *)
RevocationTakesHold ==
  \A d \in Device : status[d] = "revoked" => Here(d) \subseteq letIn[d]

(* The pipeline implements the store of ReadingStore: rows only for           *)
(* registered devices, one per device and timestamp, never rewritten or       *)
(* deleted; last_seen_at only forward and only onto a stored timestamp.       *)
Store == INSTANCE ReadingStore
           WITH admitted <- {d \in Device : status[d] # "unknown"},
                store <- telemetry,
                mark <- lastSeen

ImplementsStore == Store!Spec

(* Nothing audited is left hanging: if no statement fails and no handler      *)
(* dies, every audit row is eventually marked processed or in error.          *)
Settled(i) == i \in DOMAIN audit /\ (audit[i].processed \/ audit[i].error)

EverySettles ==
  \A i \in 1..MaxArrivals : (i \in DOMAIN audit) ~> (faults > 0 \/ Settled(i))

=============================================================================
