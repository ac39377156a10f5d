-------------------------- MODULE Ingestion_proofs --------------------------
(***************************************************************************)
(* Proofs about Ingestion for every number of devices, handlers, readings  *)
(* and failures.                                                           *)
(***************************************************************************)
EXTENDS Ingestion, SequenceTheorems, TLAPS

USE IngestionAssumption

(* Reading and dropping the head of a non-empty list of readings.           *)
LEMMA HeadTail ==
  ASSUME NEW S, NEW s \in Seq(S), s # <<>>
  PROVE  /\ Head(s) \in S
         /\ Tail(s) \in Seq(S)
         /\ Len(s) \in Nat \ {0}
         /\ Len(s) # 1 => Tail(s) # <<>>
  <1>1. Head(s) \in S /\ Tail(s) \in Seq(S) /\ Len(Tail(s)) = Len(s) - 1
    BY HeadTailProperties
  <1>2. Len(s) \in Nat /\ Len(s) # 0
    BY EmptySeq, LenProperties
  <1>3. Len(s) # 1 => Tail(s) # <<>>
    BY <1>1, <1>2, EmptySeq
  <1>. QED
    BY <1>1, <1>2, <1>3

(* A batch is a list of readings.                                           *)
LEMMA BatchIsList ==
  ASSUME NEW batch \in Batch
  PROVE  /\ batch \in Seq(CloudReading)
         /\ batch # <<>>
         /\ Len(batch) \in Nat
  <1>1. PICK n \in 1..MaxBatch : batch \in [1..n -> CloudReading]
    BY DEF Batch
  <1>2. n \in Nat /\ n # 0
    BY <1>1 DEF IngestionAssumption
  <1>3. batch \in Seq(CloudReading)
    BY <1>1, <1>2
  <1>4. Len(batch) = n
    BY <1>1, <1>2, <1>3
  <1>. QED
    BY <1>2, <1>3, <1>4, EmptySeq

-----------------------------------------------------------------------------
(* Type correctness. It needs to know that a handler in the middle of a     *)
(* reading has that reading at the head of its list, and that an audit id   *)
(* it holds is the id of a row.                                             *)

AtReading(h) == h \in Ingestor \/ pc[h] \in {"lookup", "audit", "previous",
                                           "insert", "settle", "reject"}

HasReading ==
  \A h \in Handler : pc[h] # "idle" /\ AtReading(h) => todo[h] # <<>>

RequestReadings == \A h \in Request : todo[h] \in Seq(CloudReading)

HoldsRow == \A h \in Handler : aid[h] # 0 => aid[h] \in DOMAIN audit

TypeInv == TypeOK /\ HasReading /\ RequestReadings /\ HoldsRow

(* The reading being handled is a reading.                                  *)
LEMMA CurrentType ==
  ASSUME TypeInv, NEW h \in Handler, pc[h] # "idle", AtReading(h)
  PROVE  /\ Current(h) \in Reading
         /\ Current(h).ts \in Timestamp
         /\ Current(h).energy \in Energy
         /\ Current(h).form \in Form
         /\ Tail(todo[h]) \in Seq(Reading)
         /\ Len(todo[h]) # 1 => Tail(todo[h]) # <<>>
  <1>1. todo[h] \in Seq(Reading) /\ todo[h] # <<>>
    BY DEF TypeInv, TypeOK, HasReading
  <1>2. Current(h) \in Reading
    BY <1>1, HeadTail DEF Current
  <1>. QED
    BY <1>1, <1>2, HeadTail DEF Reading

(* A handler that returns holds nothing.                                    *)
LEMMA FinishType ==
  ASSUME TypeInv, NEW h \in Handler, Finish(h)
  PROVE  /\ pc' \in [Handler -> Step]
         /\ dev' \in [Handler -> Device]
         /\ todo' \in [Handler -> Seq(Reading)]
         /\ aid' \in [Handler -> Nat]
         /\ reset' \in [Handler -> BOOLEAN]
         /\ best' \in [Handler -> Timestamp \cup {0}]
         /\ reply' \in [Handler -> SUBSET Result]
         /\ HasReading'
         /\ RequestReadings'
         /\ \A k \in Handler : aid'[k] # 0 => aid'[k] = aid[k]
  <1>1. <<>> \in Seq(Reading) /\ <<>> \in Seq(CloudReading)
    BY EmptySeq
  <1>2. /\ pc' \in [Handler -> Step] /\ dev' \in [Handler -> Device]
        /\ todo' \in [Handler -> Seq(Reading)] /\ aid' \in [Handler -> Nat]
        /\ reset' \in [Handler -> BOOLEAN]
    BY <1>1 DEF Finish, Goto, Step, TypeInv, TypeOK
  <1>3. /\ best' \in [Handler -> Timestamp \cup {0}]
        /\ reply' \in [Handler -> SUBSET Result]
    BY DEF Finish, TypeInv, TypeOK
  <1>4. HasReading'
    BY DEF Finish, Goto, HasReading, AtReading, TypeInv, TypeOK
  <1>5. RequestReadings'
    BY <1>1 DEF Finish, RequestReadings, Handler, TypeInv, TypeOK
  <1>6. \A k \in Handler : aid'[k] # 0 => aid'[k] = aid[k]
    BY DEF Finish, TypeInv, TypeOK
  <1>. QED
    BY <1>2, <1>3, <1>4, <1>5, <1>6

(* What is let in of a device is readings.                                  *)
LEMMA LetInType ==
  ASSUME TypeOK, NEW d \in Device
  PROVE  Here(d) \cup Underway(d) \subseteq Timestamp \X Energy
  <1>1. Here(d) \subseteq Timestamp \X Energy
    BY DEF Here, TypeOK, Row
  <1>2. ASSUME NEW h \in Handler PROVE InHand(h) \subseteq Timestamp \X Energy
    <2>1. \A i \in DOMAIN todo[h] : todo[h][i] \in Reading
      BY DEF TypeOK
    <2>. QED
      BY <2>1 DEF InHand, Reading
  <1>. QED
    BY <1>1, <1>2 DEF Underway

LEMMA TypeInit == Init => TypeInv
  <1>. SUFFICES ASSUME Init PROVE TypeInv
    OBVIOUS
  <1>1. <<>> \in Seq(Reading) /\ <<>> \in Seq(CloudReading) /\ <<>> \in Seq(Entry)
    BY EmptySeq
  <1>2. TypeOK
    BY <1>1 DEF Init, TypeOK, Step
  <1>3. HasReading /\ RequestReadings /\ HoldsRow
    BY <1>1 DEF Init, HasReading, RequestReadings, HoldsRow, Handler
  <1>. QED
    BY <1>2, <1>3 DEF TypeInv

LEMMA TypeStep == TypeInv /\ [Next]_vars => TypeInv'
  <1>. SUFFICES ASSUME TypeInv, [Next]_vars PROVE TypeInv'
    OBVIOUS
  <1>. USE DEF TypeInv
  <1>1. ASSUME NEW h \in Ingestor, NEW d \in Device, NEW r \in Payload,
               HandleMessage(h, d, r)
        PROVE  TypeInv'
    <2>1. r \in Reading /\ <<r>> \in Seq(Reading) /\ <<r>> # <<>> /\ Len(<<r>>) = 1
      BY DEF IngestionAssumption
    <2>2. h \in Handler /\ h \notin Request
      BY DEF Handler, IngestionAssumption
    <2>3. TypeOK'
      BY <1>1, <2>1, <2>2 DEF HandleMessage, Start, Goto, Step, TypeOK, database
    <2>4. HasReading'
      BY <1>1, <2>1, <2>2 DEF HandleMessage, Start, Goto, HasReading, AtReading, TypeOK
    <2>5. RequestReadings'
      BY <1>1, <2>2 DEF HandleMessage, Start, RequestReadings, TypeOK
    <2>6. HoldsRow'
      BY <1>1 DEF HandleMessage, Start, HoldsRow, database
    <2>. QED
      BY <2>3, <2>4, <2>5, <2>6
  <1>2. ASSUME NEW h \in Request, NEW d \in Device, NEW batch \in Batch,
               SubmitReadings(h, d, batch)
        PROVE  TypeInv'
    <2>1. /\ batch \in Seq(CloudReading) /\ batch \in Seq(Reading)
          /\ batch # <<>> /\ Len(batch) \in Nat
      <3>1. CloudReading \subseteq Reading
        BY DEF CloudReading, IngestionAssumption
      <3>. QED
        BY <3>1, BatchIsList, SeqMonotonic
    <2>2. h \in Handler /\ h \notin Ingestor
      BY DEF Handler, IngestionAssumption
    <2>3. TypeOK'
      BY <1>2, <2>1, <2>2 DEF SubmitReadings, Start, Goto, Step, TypeOK, database
    <2>4. HasReading'
      BY <1>2, <2>1, <2>2 DEF SubmitReadings, Start, Goto, HasReading, AtReading, TypeOK
    <2>5. RequestReadings'
      BY <1>2, <2>1, <2>2 DEF SubmitReadings, Start, RequestReadings, TypeOK
    <2>6. HoldsRow'
      BY <1>2 DEF SubmitReadings, Start, HoldsRow, database
    <2>. QED
      BY <2>3, <2>4, <2>5, <2>6
  <1>3. ASSUME NEW h \in Handler, CreateAuditRow(h)
        PROVE  TypeInv'
    <2>. USE <1>3
    <2>1. pc[h] = "audit" /\ AtReading(h) /\ pc[h] # "idle"
      BY DEF CreateAuditRow, AtReading
    <2>2. Current(h) \in Reading /\ Current(h).ts \in Timestamp /\ Current(h).energy \in Energy
      BY <2>1, CurrentType
    <2>3. [dev |-> dev[h], reading |-> Current(h), processed |-> FALSE, error |-> FALSE] \in Entry
      BY <2>2 DEF TypeOK, Entry
    <2>4. CASE AuditInserted(h)
      <3>1. audit' \in Seq(Entry) /\ Len(audit') = Len(audit) + 1 /\ Len(audit) \in Nat
        BY <2>3, <2>4, AppendProperties, LenProperties DEF AuditInserted, AppendAudit, TypeOK
      <3>2. AfterAudit(h) \in Step \ {"idle", "lookup"}
        BY DEF AfterAudit, Step
      <3>3. TypeOK'
        BY <2>4, <3>1, <3>2 DEF CreateAuditRow, AuditInserted, Goto, Clean, TypeOK
      <3>4. HasReading' /\ RequestReadings'
        BY <2>1, <2>4, <3>2 DEF AuditInserted, Goto, TypeOK, HasReading, AtReading, RequestReadings
      <3>5. HoldsRow'
        BY <2>4, <3>1, LenProperties DEF AuditInserted, TypeOK, HoldsRow
      <3>. QED
        BY <3>3, <3>4, <3>5
    <2>5. CASE AuditLost(h)
      <3>1. /\ audit' \in Seq(Entry) /\ Len(audit') \in {Len(audit), Len(audit) + 1}
            /\ Len(audit) \in Nat
        <4>1. AppendAudit(h) \/ UNCHANGED audit
          BY <2>5 DEF AuditLost
        <4>2. Len(audit) \in Nat /\ audit \in Seq(Entry)
          BY LenProperties DEF TypeOK
        <4>. QED
          BY <2>3, <4>1, <4>2, AppendProperties DEF AppendAudit
      <3>2. \A i \in DOMAIN audit : i \in DOMAIN audit'
        BY <3>1, LenProperties DEF TypeOK
      <3>3. faults' \in Nat
        BY <2>5 DEF AuditLost, Fault, TypeOK
      <3>4. CASE Finish(h) /\ UNCHANGED unaudited
        BY <3>1, <3>2, <3>3, <3>4, FinishType DEF CreateAuditRow, TypeOK, HoldsRow
      <3>5. CASE ~(Finish(h) /\ UNCHANGED unaudited)
        <4>1. /\ unaudited' = unaudited \cup {<<dev[h], Current(h).ts, Current(h).energy>>}
              /\ Goto(h, AfterAudit(h)) /\ UNCHANGED locals
          BY <2>5, <3>5 DEF AuditLost
        <4>2. AfterAudit(h) \in Step \ {"idle", "lookup"}
          BY DEF AfterAudit, Step
        <4>3. TypeOK'
          BY <2>2, <3>1, <3>3, <4>1, <4>2 DEF CreateAuditRow, Goto, TypeOK, locals
        <4>4. HasReading' /\ RequestReadings' /\ HoldsRow'
          BY <2>1, <3>2, <4>1, <4>2
          DEF Goto, TypeOK, HasReading, AtReading, RequestReadings, HoldsRow, locals
        <4>. QED
          BY <4>3, <4>4
      <3>. QED
        BY <3>4, <3>5
    <2>6. CASE Clean /\ Finish(h) /\ UNCHANGED <<audit, unaudited>>
      BY <2>6, FinishType DEF CreateAuditRow, Clean, TypeOK, HoldsRow
    <2>. QED
      BY <2>4, <2>5, <2>6 DEF CreateAuditRow
  <1>4. ASSUME NEW h \in Handler, UpdateLastContact(h)
        PROVE  TypeInv'
    <2>. USE <1>4
    <2>1. contacted' \in [Device -> BOOLEAN] /\ faults' \in Nat
      <3>1. dev[h] \in Device /\ contacted \in [Device -> BOOLEAN] /\ faults \in Nat
        BY DEF TypeOK
      <3>2. faults' \in Nat
        BY <3>1 DEF UpdateLastContact, Clean, Fault
      <3>3. (status[dev[h]] # "unknown" \/ contacted[dev[h]]) \in BOOLEAN
        OBVIOUS
      <3>. QED
        BY <3>1, <3>2, <3>3 DEF UpdateLastContact
    <2>2. CASE Finish(h)
      BY <2>1, <2>2, FinishType DEF UpdateLastContact, TypeOK, HoldsRow
    <2>3. CASE UNCHANGED locals
      <3>1. ASSUME NEW step \in {"reject", "lookup", "seen"}, Goto(h, step),
                   h \in Request => step = "seen"
            PROVE  TypeInv'
        <4>1. TypeOK'
          BY <2>1, <2>3, <3>1 DEF UpdateLastContact, Goto, Step, TypeOK, locals
        <4>2. HasReading' /\ RequestReadings' /\ HoldsRow'
          BY <2>3, <3>1 DEF UpdateLastContact, Goto, TypeOK, HasReading, AtReading,
                            RequestReadings, HoldsRow, locals, Handler
        <4>. QED
          BY <4>1, <4>2
      <3>2. CASE h \in Ingestor
        <4>1. Goto(h, IF Current(h).form = "mistyped" THEN "reject" ELSE "lookup")
          BY <3>2 DEF UpdateLastContact, IngestionAssumption
        <4>. QED
          BY <3>1, <3>2, <4>1 DEF IngestionAssumption
      <3>3. CASE h \in Request
        <4>1. Goto(h, "seen") \/ Finish(h)
          BY <3>3 DEF UpdateLastContact, IngestionAssumption
        <4>. QED
          BY <2>2, <3>1, <4>1
      <3>. QED
        BY <3>2, <3>3 DEF Handler
    <2>. QED
      BY <2>2, <2>3 DEF UpdateLastContact
  <1>5. ASSUME NEW h \in Handler, LookupDevice(h)
        PROVE  TypeInv'
    <2>. USE <1>5
    <2>1. pc[h] = "lookup" /\ todo[h] # <<>> /\ faults' \in Nat
      BY DEF LookupDevice, HasReading, AtReading, Clean, Fault, TypeOK
    <2>2. CASE Finish(h)
      BY <2>1, <2>2, FinishType DEF LookupDevice, database, TypeOK, HoldsRow
    <2>3. ASSUME NEW step \in {"previous", "reject", "audit"}, Goto(h, step), UNCHANGED locals
          PROVE  TypeInv'
      <3>1. TypeOK'
        BY <2>1, <2>3 DEF LookupDevice, Goto, Step, TypeOK, locals, database
      <3>2. HasReading' /\ RequestReadings' /\ HoldsRow'
        BY <2>1, <2>3 DEF LookupDevice, Goto, TypeOK, HasReading, AtReading,
                          RequestReadings, HoldsRow, locals, database
      <3>. QED
        BY <3>1, <3>2
    <2>4. CASE h \in Ingestor
      BY <2>3, <2>4 DEF LookupDevice, IngestionAssumption
    <2>5. CASE h \in Request
      BY <2>2, <2>3, <2>5 DEF LookupDevice, IngestionAssumption
    <2>. QED
      BY <2>4, <2>5 DEF Handler
  <1>6. ASSUME NEW h \in Handler, PreviousEnergy(h)
        PROVE  TypeInv'
    <2>. USE <1>6
    <2>1. reset' \in [Handler -> BOOLEAN] /\ faults' \in Nat
      <3>1. DetectEnergyReset(dev[h], Current(h).ts, Current(h).energy) \in BOOLEAN
        BY DEF DetectEnergyReset
      <3>2. reset' \in {[reset EXCEPT ![h] = b] : b \in BOOLEAN}
        BY <3>1, Zenon DEF PreviousEnergy
      <3>3. faults' \in Nat
        BY DEF PreviousEnergy, Clean, Fault, TypeOK
      <3>. QED
        BY <3>2, <3>3 DEF TypeOK
    <2>2. TypeOK'
      BY <2>1 DEF PreviousEnergy, Goto, Step, TypeOK, database
    <2>3. HasReading' /\ RequestReadings' /\ HoldsRow'
      BY DEF PreviousEnergy, Goto, TypeOK, HasReading, AtReading, RequestReadings,
             HoldsRow, database
    <2>. QED
      BY <2>2, <2>3
  <1>7. ASSUME NEW h \in Handler, InsertTelemetry(h)
        PROVE  TypeInv'
    <2>. USE <1>7
    <2>1. pc[h] = "insert" /\ todo[h] # <<>> /\ faults' \in Nat
      BY DEF InsertTelemetry, HasReading, AtReading, Clean, Fault, TypeOK
    <2>2. /\ Current(h).ts \in Timestamp /\ Current(h).energy \in Energy
          /\ dev[h] \in Device /\ reset[h] \in BOOLEAN
      BY <2>1, CurrentType DEF AtReading, TypeOK
    <2>3. telemetry' \in SUBSET Row
      BY <2>2 DEF InsertTelemetry, Upsert, TypeOK, Row
    <2>4. best' \in [Handler -> Timestamp \cup {0}]
      BY <2>2 DEF InsertTelemetry, TypeOK
    <2>5. reply' \in [Handler -> SUBSET Result]
      <3>1. HasRow(dev[h], Current(h).ts) \in BOOLEAN
        BY DEF HasRow
      <3>2. Accept(h) \in Result
        BY <2>2, <3>1 DEF Accept, Result
      <3>. QED
        BY <3>2 DEF InsertTelemetry, TypeOK
    <2>6. PICK step \in {"seen", "settle", "reject"} : Goto(h, step)
      BY DEF InsertTelemetry
    <2>7. TypeOK'
      BY <2>1, <2>3, <2>4, <2>5, <2>6 DEF InsertTelemetry, Goto, Step, TypeOK
    <2>8. HasReading' /\ RequestReadings' /\ HoldsRow'
      BY <2>1, <2>6 DEF InsertTelemetry, Goto, TypeOK, HasReading, AtReading,
                        RequestReadings, HoldsRow
    <2>. QED
      BY <2>7, <2>8
  <1>8. ASSUME NEW h \in Handler, AdvanceLastSeen(h)
        PROVE  TypeInv'
    <2>. USE <1>8
    <2>1. pc[h] = "seen" /\ faults' \in Nat
      BY DEF AdvanceLastSeen, Clean, Fault, TypeOK
    <2>2. SeenTS(h) \in Timestamp \cup {0}
      BY <2>1, CurrentType DEF SeenTS, AtReading, TypeOK
    <2>3. lastSeen' \in [Device -> Timestamp \cup {0}]
      BY <2>2 DEF AdvanceLastSeen, MoveForward, TypeOK
    <2>4. CASE h \in Ingestor /\ Goto(h, "settle") /\ UNCHANGED locals
      <3>1. TypeOK'
        BY <2>1, <2>3, <2>4 DEF AdvanceLastSeen, Goto, Step, TypeOK, locals
      <3>2. HasReading' /\ RequestReadings' /\ HoldsRow'
        BY <2>1, <2>4 DEF AdvanceLastSeen, Goto, TypeOK, HasReading, AtReading,
                          RequestReadings, HoldsRow, locals
      <3>. QED
        BY <3>1, <3>2
    <2>5. CASE Finish(h)
      BY <2>1, <2>3, <2>5, FinishType DEF AdvanceLastSeen, TypeOK, HoldsRow
    <2>. QED
      BY <2>4, <2>5 DEF AdvanceLastSeen
  <1>9. ASSUME NEW h \in Handler, NEW entry, Mark(h, entry), aid[h] # 0 => entry \in Entry,
               pc[h] \in {"settle", "reject"}
        PROVE  TypeInv'
    <2>. USE <1>9
    <2>1. /\ audit' \in Seq(Entry)
          /\ \A i \in DOMAIN audit : i \in DOMAIN audit'
          /\ faults' \in Nat
      <3>1. faults' \in Nat
        BY DEF Mark, Clean, Fault, TypeOK
      <3>2. CASE UNCHANGED audit
        BY <3>1, <3>2 DEF TypeOK
      <3>3. CASE aid[h] # 0 /\ audit' = [audit EXCEPT ![aid[h]] = entry]
        <4>1. aid[h] \in 1..Len(audit)
          BY <3>3, LenProperties DEF HoldsRow, TypeOK
        <4>. QED
          BY <3>1, <3>3, <4>1, ExceptSeq DEF TypeOK
      <3>. QED
        BY <3>2, <3>3 DEF Mark
    <2>2. CASE Finish(h)
      BY <2>1, <2>2, FinishType DEF Mark, TypeOK, HoldsRow
    <2>3. CASE h \in Request /\ NextReading(h)
      <3>1. /\ Tail(todo[h]) \in Seq(Reading)
            /\ Len(todo[h]) # 1 => Tail(todo[h]) # <<>>
        BY CurrentType DEF AtReading
      <3>2. Tail(todo[h]) \in Seq(CloudReading)
        BY <2>3, HeadTail DEF RequestReadings, HasReading, AtReading
      <3>3. TypeOK'
        BY <2>1, <2>3, <3>1 DEF Mark, NextReading, Goto, Step, TypeOK
      <3>4. HasReading'
        BY <2>3, <3>1 DEF NextReading, Goto, TypeOK, HasReading, AtReading, IngestionAssumption
      <3>5. RequestReadings'
        BY <2>3, <3>2 DEF NextReading, TypeOK, RequestReadings
      <3>6. HoldsRow'
        BY <2>1, <2>3 DEF NextReading, TypeOK, HoldsRow
      <3>. QED
        BY <3>3, <3>4, <3>5, <3>6
    <2>. QED
      BY <2>2, <2>3 DEF Mark, Leave, Handler
  <1>10. ASSUME NEW h \in Handler PROVE aid[h] # 0 => /\ Processed(audit[aid[h]]) \in Entry
                                                    /\ Rejected(audit[aid[h]]) \in Entry
    <2>1. aid[h] # 0 => audit[aid[h]] \in Entry
      BY LenProperties DEF HoldsRow, TypeOK
    <2>. QED
      BY <2>1 DEF Processed, Rejected, Entry
  <1>11. ASSUME NEW h \in Handler, MarkProcessed(h)
         PROVE  TypeInv'
    BY <1>9, <1>10, <1>11 DEF MarkProcessed
  <1>12. ASSUME NEW h \in Handler, MarkAuditError(h)
         PROVE  TypeInv'
    BY <1>9, <1>10, <1>12 DEF MarkAuditError
  <1>13. ASSUME NEW h \in Handler, Crash(h)
         PROVE  TypeInv'
    BY <1>13, FinishType DEF Crash, Fault, database, TypeOK, HoldsRow
  <1>14. ASSUME NEW d \in Device, Register(d) \/ Revoke(d)
         PROVE  TypeInv'
    <2>1. letIn' \in [Device -> SUBSET (Timestamp \X Energy)]
      <3>1. letIn \in [Device -> SUBSET (Timestamp \X Energy)]
        BY DEF TypeOK
      <3>2. CASE Register(d)
        BY <3>1, <3>2 DEF Register
      <3>3. CASE Revoke(d)
        <4>1. letIn' = [letIn EXCEPT ![d] = Here(d) \cup Underway(d)]
          BY <3>3 DEF Revoke
        <4>2. Here(d) \cup Underway(d) \in SUBSET (Timestamp \X Energy)
          BY LetInType
        <4>. QED
          BY <3>1, <4>1, <4>2
      <3>. QED
        BY <1>14, <3>2, <3>3
    <2>. QED
      BY <1>14, <2>1 DEF Register, Revoke, locals, TypeOK, HasReading, AtReading, RequestReadings, HoldsRow
  <1>15. CASE UNCHANGED vars
    BY <1>15 DEF vars, TypeOK, HasReading, AtReading, RequestReadings, HoldsRow
  <1>. QED
    BY <1>1, <1>2, <1>3, <1>4, <1>5, <1>6, <1>7, <1>8, <1>11, <1>12, <1>13, <1>14, <1>15
    DEF Next, Handle

LEMMA TypeInvariant == Spec => []TypeInv
  BY TypeInit, TypeStep, PTL DEF Spec

(* The database and every handler always have their types.                  *)
THEOREM TypeCorrect == Spec => []TypeOK
  <1>1. TypeInv => TypeOK
    BY DEF TypeInv
  <1>. QED
    BY <1>1, TypeInvariant, PTL

-----------------------------------------------------------------------------
(* The inductive invariant behind the safety theorems. Its parts say, of a  *)
(* handler between two statements, what the statements it has already run   *)
(* left in the database, which no other handler undoes.                     *)

(* An idle handler holds nothing, one that has not audited no audit row.    *)
Idle(h) ==
  /\ pc[h] = "idle" => aid[h] = 0 /\ best[h] = 0 /\ reply[h] = {}
  /\ pc[h] = "audit" \/ (h \in Request /\ pc[h] = "lookup") => aid[h] = 0

(* The audit row a handler holds is the current reading's, and is open.     *)
Linked(h) ==
  aid[h] # 0 => /\ todo[h] # <<>>
                /\ audit[aid[h]].dev = dev[h]
                /\ audit[aid[h]].reading = Current(h)
                /\ ~audit[aid[h]].processed
                /\ ~audit[aid[h]].error

(* A reading on its way into the table was audited, or its loss noted.      *)
Bound(h) ==
  \/ pc[h] \in {"previous", "insert"}
  \/ h \in Ingestor /\ pc[h] \in {"contact", "lookup"}

Vouched(h) ==
  Bound(h) =>
    aid[h] # 0 \/ <<dev[h], Current(h).ts, Current(h).energy>> \in unaudited

(* How far the reading's checks have come.                                  *)
Checked(h) ==
  /\ pc[h] \in {"previous", "insert", "settle"} => Current(h).form = "fine"
  /\ h \in Ingestor /\ pc[h] = "seen" => Current(h).form = "fine"
  /\ h \in Ingestor /\ pc[h] = "lookup" => Current(h).form \in {"fine", "implausible"}
  /\ h \in Ingestor /\ pc[h] = "contact" => Current(h).form # "notjson"

(* What the handler believes stored is stored.                              *)
Landed(h) ==
  /\ pc[h] = "settle" => HasRow(dev[h], Current(h).ts)
  /\ h \in Ingestor /\ pc[h] = "seen" => HasRow(dev[h], Current(h).ts)
  /\ h \in Request /\ pc[h] = "seen" => best[h] # 0
  /\ best[h] # 0 => HasRow(dev[h], best[h])

(* The flag computed from a SELECT still has its witness at the INSERT.     *)
Flagged(h) ==
  pc[h] = "insert" /\ reset[h] =>
    \E row \in telemetry : /\ row.dev = dev[h]
                           /\ row.ts < Current(h).ts
                           /\ Current(h).energy < row.energy

(* Past its check, a device stays in the registry.                          *)
Known(h) == PastCheck(h) => status[dev[h]] # "unknown"

(* The reply is backed by rows.                                             *)
Backed(h) ==
  \A res \in reply[h] :
    \E row \in telemetry : /\ row.dev = dev[h] /\ row.ts = res.ts
                           /\ res.duplicate \/ row.energy = res.energy

HandlerInv(h) ==
  /\ Idle(h) /\ Linked(h) /\ Vouched(h) /\ Checked(h)
  /\ Landed(h) /\ Flagged(h) /\ Known(h) /\ Backed(h)

(* No two handlers hold the same audit row.                                 *)
Apart == \A h, k \in Handler : aid[h] # 0 /\ aid[h] = aid[k] => h = k

LastSeenStored == \A d \in Device : lastSeen[d] # 0 => HasRow(d, lastSeen[d])

RowsKnown == \A row \in telemetry : status[row.dev] # "unknown"

DataInv ==
  /\ AuditBeforeStore
  /\ ProcessedIsStored
  /\ ResetFlagSound
  /\ LastSeenStored
  /\ RowsKnown

IInv == TypeInv /\ Apart /\ DataInv /\ \A h \in Handler : HandlerInv(h)

-----------------------------------------------------------------------------
(* What one step leaves alone.                                              *)

HandlerStep(h) ==
  \/ h \in Ingestor /\ \E d \in Device, r \in Payload : HandleMessage(h, d, r)
  \/ h \in Request /\ \E d \in Device, batch \in Batch : SubmitReadings(h, d, batch)
  \/ Handle(h)
  \/ Crash(h)

OperatorStep == \E d \in Device : Register(d) \/ Revoke(d)

LEMMA StepCases ==
  [Next]_vars => \/ \E h \in Handler : HandlerStep(h)
                 \/ OperatorStep
                 \/ UNCHANGED vars
  BY DEF Next, HandlerStep, OperatorStep, Handler

Kept(k) ==
  /\ pc'[k] = pc[k] /\ dev'[k] = dev[k] /\ todo'[k] = todo[k] /\ aid'[k] = aid[k]
  /\ reset'[k] = reset[k] /\ best'[k] = best[k] /\ reply'[k] = reply[k]

(* A handler's step does not touch another handler.                         *)
LEMMA OthersKept ==
  ASSUME TypeInv, NEW h \in Handler, HandlerStep(h), NEW k \in Handler, k # h
  PROVE  Kept(k)
  <1>. USE DEF Kept
  <1>1. CASE \E d \in Device, r \in Payload : HandleMessage(h, d, r)
    BY <1>1 DEF HandleMessage, Start, Goto, TypeInv, TypeOK
  <1>2. CASE \E d \in Device, batch \in Batch : SubmitReadings(h, d, batch)
    BY <1>2 DEF SubmitReadings, Start, Goto, TypeInv, TypeOK
  <1>3. CASE CreateAuditRow(h)
    BY <1>3 DEF CreateAuditRow, AuditInserted, AuditLost, Finish, Goto, locals, TypeInv, TypeOK
  <1>4. CASE UpdateLastContact(h)
    BY <1>4 DEF UpdateLastContact, Finish, Goto, locals, TypeInv, TypeOK
  <1>5. CASE LookupDevice(h)
    BY <1>5 DEF LookupDevice, Finish, Goto, locals, TypeInv, TypeOK
  <1>6. CASE PreviousEnergy(h)
    BY <1>6 DEF PreviousEnergy, Goto, TypeInv, TypeOK
  <1>7. CASE InsertTelemetry(h)
    BY <1>7 DEF InsertTelemetry, Goto, TypeInv, TypeOK
  <1>8. CASE AdvanceLastSeen(h)
    BY <1>8 DEF AdvanceLastSeen, Finish, Goto, locals, TypeInv, TypeOK
  <1>9. CASE MarkProcessed(h) \/ MarkAuditError(h)
    BY <1>9 DEF MarkProcessed, MarkAuditError, Mark, Leave, Finish, NextReading, Goto,
                TypeInv, TypeOK
  <1>10. CASE Crash(h)
    BY <1>10 DEF Crash, Finish, Goto, TypeInv, TypeOK
  <1>. QED
    BY <1>1, <1>2, <1>3, <1>4, <1>5, <1>6, <1>7, <1>8, <1>9, <1>10 DEF HandlerStep, Handle

(* What a step may do to the audit log: nothing, append the row of the      *)
(* reading at hand, or give a verdict on the row its handler holds.         *)
Appends(h) ==
  /\ pc[h] = "audit" /\ Current(h).form # "notjson"
  /\ AppendAudit(h)

Verdict(h, entry) ==
  /\ aid[h] # 0
  /\ audit' = [audit EXCEPT ![aid[h]] = entry]
  /\ aid'[h] = 0
  /\ \/ pc[h] = "settle" /\ entry = Processed(audit[aid[h]])
     \/ pc[h] = "reject" /\ entry = Rejected(audit[aid[h]])

LEMMA AuditEffect ==
  ASSUME TypeInv, NEW h \in Handler, HandlerStep(h)
  PROVE  \/ UNCHANGED audit
         \/ Appends(h)
         \/ \E entry \in Entry : Verdict(h, entry)
  <1>1. CASE \E d \in Device, r \in Payload : HandleMessage(h, d, r)
    BY <1>1 DEF HandleMessage, Start, database
  <1>2. CASE \E d \in Device, batch \in Batch : SubmitReadings(h, d, batch)
    BY <1>2 DEF SubmitReadings, Start, database
  <1>3. CASE CreateAuditRow(h)
    BY <1>3 DEF CreateAuditRow, AuditInserted, AuditLost, Appends
  <1>4. CASE UpdateLastContact(h)
    BY <1>4 DEF UpdateLastContact
  <1>5. CASE LookupDevice(h) \/ PreviousEnergy(h) \/ InsertTelemetry(h) \/ AdvanceLastSeen(h)
    BY <1>5 DEF LookupDevice, PreviousEnergy, InsertTelemetry, AdvanceLastSeen, database
  <1>6. CASE MarkProcessed(h) \/ MarkAuditError(h)
    <2>1. aid[h] # 0 => /\ Processed(audit[aid[h]]) \in Entry
                        /\ Rejected(audit[aid[h]]) \in Entry
      <3>1. aid[h] # 0 => audit[aid[h]] \in Entry
        BY LenProperties DEF TypeInv, HoldsRow, TypeOK
      <3>. QED
        BY <3>1 DEF Processed, Rejected, Entry
    <2>2. aid'[h] = 0
      BY <1>6 DEF MarkProcessed, MarkAuditError, Mark, Leave, Finish, NextReading, TypeInv, TypeOK
    <2>. QED
      BY <1>6, <2>1, <2>2 DEF MarkProcessed, MarkAuditError, Mark, Verdict
  <1>7. CASE Crash(h)
    BY <1>7 DEF Crash, database
  <1>. QED
    BY <1>1, <1>2, <1>3, <1>4, <1>5, <1>6, <1>7 DEF HandlerStep, Handle

(* What the database holds it keeps, whoever steps.                         *)
Grows ==
  /\ \A i \in DOMAIN audit : /\ i \in DOMAIN audit'
                             /\ audit'[i].dev = audit[i].dev
                             /\ audit'[i].reading = audit[i].reading
  /\ telemetry \subseteq telemetry'
  /\ unaudited \subseteq unaudited'
  /\ \A d \in Device : status[d] # "unknown" => status'[d] # "unknown"

LEMMA StepGrows == TypeInv /\ [Next]_vars => Grows
  <1>. SUFFICES ASSUME TypeInv, [Next]_vars PROVE Grows
    OBVIOUS
  <1>1. ASSUME NEW h \in Handler, HandlerStep(h)
        PROVE  Grows
    <2>1. \A i \in DOMAIN audit : /\ i \in DOMAIN audit'
                                  /\ audit'[i].dev = audit[i].dev
                                  /\ audit'[i].reading = audit[i].reading
      <3>. SUFFICES ASSUME NEW i \in DOMAIN audit
                    PROVE  /\ i \in DOMAIN audit'
                           /\ audit'[i].dev = audit[i].dev
                           /\ audit'[i].reading = audit[i].reading
        OBVIOUS
      <3>1. /\ audit \in Seq(Entry) /\ i \in 1..Len(audit) /\ Len(audit) \in Nat
            /\ audit[i] \in Entry
        BY LenProperties DEF TypeInv, TypeOK
      <3>2. CASE Appends(h)
        <4>1. [dev |-> dev[h], reading |-> Current(h), processed |-> FALSE, error |-> FALSE] \in Entry
          BY <3>2, CurrentType DEF Appends, AtReading, Entry, TypeInv, TypeOK
        <4>2. /\ audit' \in Seq(Entry) /\ Len(audit') = Len(audit) + 1
              /\ audit'[i] = audit[i]
          BY <3>1, <3>2, <4>1, AppendProperties DEF Appends, AppendAudit
        <4>3. DOMAIN audit' = 1..Len(audit')
          BY <4>2, LenProperties
        <4>. QED
          BY <3>1, <4>2, <4>3
      <3>3. ASSUME NEW entry \in Entry, Verdict(h, entry)
            PROVE  /\ i \in DOMAIN audit'
                   /\ audit'[i].dev = audit[i].dev
                   /\ audit'[i].reading = audit[i].reading
        <4>1. /\ i \in DOMAIN audit'
              /\ audit'[i] = IF i = aid[h] THEN entry ELSE audit[i]
          BY <3>3 DEF Verdict
        <4>2. entry.dev = audit[aid[h]].dev /\ entry.reading = audit[aid[h]].reading
          <5>1. audit[aid[h]] \in Entry
            BY <3>3, LenProperties DEF Verdict, HoldsRow, TypeInv, TypeOK
          <5>. QED
            BY <3>3, <5>1 DEF Verdict, Processed, Rejected, Entry
        <4>. QED
          BY <4>1, <4>2
      <3>4. CASE UNCHANGED audit
        BY <3>4
      <3>. QED
        BY <1>1, <3>2, <3>3, <3>4, AuditEffect
    <2>2. telemetry \subseteq telemetry' /\ unaudited \subseteq unaudited' /\ status' = status
      BY <1>1 DEF HandlerStep, Handle, HandleMessage, SubmitReadings, Start, CreateAuditRow,
                  AuditInserted, AuditLost, UpdateLastContact, LookupDevice, PreviousEnergy,
                  InsertTelemetry, Upsert, AdvanceLastSeen, MarkProcessed, MarkAuditError, Mark,
                  Crash, database
    <2>. QED
      BY <2>1, <2>2 DEF Grows
  <1>2. CASE OperatorStep
    BY <1>2 DEF OperatorStep, Register, Revoke, Grows, TypeInv, TypeOK
  <1>3. CASE UNCHANGED vars
    BY <1>3 DEF vars, Grows
  <1>. QED
    BY <1>1, <1>2, <1>3, StepCases

(* A row for a device and a timestamp stays.                                *)
LEMMA HasRowStays ==
  ASSUME Grows, NEW d, NEW t, HasRow(d, t)
  PROVE  HasRow(d, t)'
  BY DEF Grows, HasRow

(* What is true of a handler stays true while others step.                  *)
LEMMA HandlerInvKept ==
  ASSUME TypeInv, Grows, NEW k \in Handler, HandlerInv(k), Kept(k),
         aid[k] # 0 => audit'[aid[k]] = audit[aid[k]]
  PROVE  HandlerInv(k)'
  <1>. USE DEF Kept
  <1>1. Current(k)' = Current(k)
    BY DEF Current
  <1>2. Idle(k)'
    BY DEF HandlerInv, Idle
  <1>3. Linked(k)'
    BY <1>1 DEF HandlerInv, Linked
  <1>4. Vouched(k)'
    BY <1>1 DEF HandlerInv, Vouched, Bound, Grows
  <1>5. Checked(k)'
    BY <1>1 DEF HandlerInv, Checked
  <1>6. Landed(k)'
    BY <1>1, HasRowStays DEF HandlerInv, Landed
  <1>7. Flagged(k)'
    BY <1>1 DEF HandlerInv, Flagged, Grows
  <1>8. Known(k)'
    <2>1. dev[k] \in Device
      BY DEF TypeInv, TypeOK
    <2>. QED
      BY <2>1 DEF HandlerInv, Known, PastCheck, Grows
  <1>9. Backed(k)'
    BY DEF HandlerInv, Backed, Grows
  <1>. QED
    BY <1>2, <1>3, <1>4, <1>5, <1>6, <1>7, <1>8, <1>9 DEF HandlerInv

(* A step disturbs only the row its handler holds.                          *)
LEMMA OtherRowsKept ==
  ASSUME TypeInv, Apart, NEW h \in Handler, HandlerStep(h), NEW k \in Handler, k # h,
         aid[k] # 0
  PROVE  audit'[aid[k]] = audit[aid[k]]
  <1>1. aid[k] \in DOMAIN audit /\ aid[k] # aid[h]
    BY DEF Apart, HoldsRow, TypeInv
  <1>2. CASE Appends(h)
    <2>1. [dev |-> dev[h], reading |-> Current(h), processed |-> FALSE, error |-> FALSE] \in Entry
      BY <1>2, CurrentType DEF Appends, AtReading, Entry, TypeInv, TypeOK
    <2>2. audit \in Seq(Entry) /\ aid[k] \in 1..Len(audit)
      BY <1>1, LenProperties DEF TypeInv, TypeOK
    <2>. QED
      BY <1>2, <2>1, <2>2, AppendProperties DEF Appends, AppendAudit
  <1>3. CASE \E entry \in Entry : Verdict(h, entry)
    BY <1>1, <1>3 DEF Verdict
  <1>. QED
    BY <1>2, <1>3, AuditEffect

(* The stepping handler's audit id: kept, dropped, or the new row's.        *)
LEMMA AidEffect ==
  ASSUME TypeInv, NEW h \in Handler, HandlerStep(h)
  PROVE  aid'[h] \in {0, aid[h], Len(audit) + 1}
  <1>1. CASE \E d \in Device, r \in Payload : HandleMessage(h, d, r)
    BY <1>1 DEF HandleMessage, Start
  <1>2. CASE \E d \in Device, batch \in Batch : SubmitReadings(h, d, batch)
    BY <1>2 DEF SubmitReadings, Start
  <1>3. CASE CreateAuditRow(h)
    BY <1>3 DEF CreateAuditRow, AuditInserted, AuditLost, Finish, locals, TypeInv, TypeOK
  <1>4. CASE UpdateLastContact(h)
    BY <1>4 DEF UpdateLastContact, Finish, locals, TypeInv, TypeOK
  <1>5. CASE LookupDevice(h)
    BY <1>5 DEF LookupDevice, Finish, locals, TypeInv, TypeOK
  <1>6. CASE PreviousEnergy(h) \/ InsertTelemetry(h)
    BY <1>6 DEF PreviousEnergy, InsertTelemetry
  <1>7. CASE AdvanceLastSeen(h)
    BY <1>7 DEF AdvanceLastSeen, Finish, locals, TypeInv, TypeOK
  <1>8. CASE MarkProcessed(h) \/ MarkAuditError(h)
    BY <1>8 DEF MarkProcessed, MarkAuditError, Mark, Leave, Finish, NextReading, TypeInv, TypeOK
  <1>9. CASE Crash(h)
    BY <1>9 DEF Crash, Finish, TypeInv, TypeOK
  <1>. QED
    BY <1>1, <1>2, <1>3, <1>4, <1>5, <1>6, <1>7, <1>8, <1>9 DEF HandlerStep, Handle

LEMMA ApartStep == TypeInv /\ Apart /\ [Next]_vars => Apart'
  <1>. SUFFICES ASSUME TypeInv, Apart, [Next]_vars PROVE Apart'
    OBVIOUS
  <1>1. ASSUME NEW h \in Handler, HandlerStep(h)
        PROVE  Apart'
    <2>1. \A k \in Handler : k # h => aid'[k] = aid[k]
      BY <1>1, OthersKept DEF Kept
    <2>2. \A k \in Handler : aid[k] # Len(audit) + 1
      <3>1. Len(audit) \in Nat /\ DOMAIN audit = 1..Len(audit)
        BY LenProperties DEF TypeInv, TypeOK
      <3>. QED
        BY <3>1 DEF TypeInv, HoldsRow
    <2>. QED
      BY <1>1, <2>1, <2>2, AidEffect DEF Apart
  <1>2. CASE OperatorStep \/ UNCHANGED vars
    BY <1>2 DEF OperatorStep, Register, Revoke, locals, vars, Apart
  <1>. QED
    BY <1>1, <1>2, StepCases

(* A handler that returned holds nothing to be wrong about.                 *)
LEMMA FinishInv ==
  ASSUME TypeInv, NEW h \in Handler, Finish(h)
  PROVE  HandlerInv(h)'
  <1>1. /\ pc'[h] = "idle" /\ aid'[h] = 0 /\ best'[h] = 0 /\ reply'[h] = {}
    BY DEF Finish, Goto, TypeInv, TypeOK
  <1>. QED
    BY <1>1 DEF HandlerInv, Idle, Linked, Vouched, Bound, Checked, Landed, Flagged, Known,
                PastCheck, Backed

(* The row an INSERT would add, and what it does add.                       *)
New(h) == [dev |-> dev[h], ts |-> Current(h).ts, energy |-> Current(h).energy,
           reset |-> reset[h]]

LEMMA UpsertEffect ==
  ASSUME NEW h, Upsert(h)
  PROVE  \/ HasRow(dev[h], Current(h).ts) /\ telemetry' = telemetry
         \/ ~HasRow(dev[h], Current(h).ts) /\ telemetry' = telemetry \cup {New(h)}
  BY DEF Upsert, New

LEMMA NewFields ==
  ASSUME NEW h
  PROVE  /\ New(h).dev = dev[h]
         /\ New(h).ts = Current(h).ts
         /\ New(h).energy = Current(h).energy
         /\ New(h).reset = reset[h]
  BY DEF New

LEMMA AcceptFields ==
  ASSUME NEW h
  PROVE  /\ Accept(h).ts = Current(h).ts
         /\ Accept(h).energy = Current(h).energy
         /\ Accept(h).duplicate = HasRow(dev[h], Current(h).ts)
  BY DEF Accept

(* The acting handler: one step per statement.                              *)
LEMMA HandlerInvStep ==
  ASSUME TypeInv, TypeInv', Grows, NEW h \in Handler, HandlerInv(h), HandlerStep(h)
  PROVE  HandlerInv(h)'
  <1>. USE DEF HandlerInv
  <1>0. h \in Ingestor <=> h \notin Request
    BY DEF Handler, IngestionAssumption
  <1>1. ASSUME NEW d \in Device, NEW r \in Payload, h \in Ingestor, HandleMessage(h, d, r)
        PROVE  HandlerInv(h)'
    <2>1. /\ pc[h] = "idle" /\ pc'[h] = "audit" /\ aid'[h] = 0 /\ best'[h] = 0
          /\ reply'[h] = {} /\ h \notin Request
      BY <1>1 DEF HandleMessage, Start, Goto, Idle, TypeInv, TypeOK, IngestionAssumption
    <2>. QED
      BY <2>1 DEF Idle, Linked, Vouched, Bound, Checked, Landed, Flagged, Known, PastCheck, Backed
  <1>2. ASSUME NEW d \in Device, NEW batch \in Batch, h \in Request, SubmitReadings(h, d, batch)
        PROVE  HandlerInv(h)'
    <2>1. /\ pc[h] = "idle" /\ pc'[h] = "lookup" /\ aid'[h] = 0 /\ best'[h] = 0
          /\ reply'[h] = {} /\ h \notin Ingestor
      BY <1>2 DEF SubmitReadings, Start, Goto, Idle, TypeInv, TypeOK, IngestionAssumption
    <2>. QED
      BY <2>1 DEF Idle, Linked, Vouched, Bound, Checked, Landed, Flagged, Known, PastCheck, Backed
  <1>3. ASSUME CreateAuditRow(h), ~Finish(h)
        PROVE  HandlerInv(h)'
    <2>. USE <1>3
    <2>1. /\ pc[h] = "audit" /\ aid[h] = 0 /\ Current(h).form # "notjson"
          /\ pc'[h] = AfterAudit(h) /\ dev'[h] = dev[h] /\ todo'[h] = todo[h]
          /\ Current(h)' = Current(h) /\ best'[h] = best[h] /\ reply'[h] = reply[h]
      BY DEF CreateAuditRow, AuditInserted, AuditLost, Goto, locals, Idle, Current, TypeInv, TypeOK
    <2>2. /\ todo[h] # <<>> /\ Current(h) \in Reading
          /\ h \in Request => Current(h).form \in {"fine", "implausible"}
      <3>1. todo[h] # <<>> /\ Current(h) \in Reading
        BY <2>1, CurrentType DEF AtReading, HasReading, TypeInv
      <3>2. h \in Request => Current(h) \in CloudReading
        BY <3>1, HeadTail DEF RequestReadings, Current, TypeInv
      <3>. QED
        BY <3>1, <3>2 DEF CloudReading
    <2>3. Linked(h)' /\ Vouched(h)'
      <3>1. CASE AuditInserted(h)
        <4>1. [dev |-> dev[h], reading |-> Current(h), processed |-> FALSE, error |-> FALSE] \in Entry
          BY <2>2 DEF Entry, TypeInv, TypeOK
        <4>2. /\ audit'[Len(audit) + 1] = [dev |-> dev[h], reading |-> Current(h),
                                           processed |-> FALSE, error |-> FALSE]
              /\ Len(audit) + 1 # 0
          BY <3>1, <4>1, AppendProperties, LenProperties
          DEF AuditInserted, AppendAudit, TypeInv, TypeOK
        <4>3. aid'[h] = Len(audit) + 1
          BY <3>1 DEF AuditInserted, TypeInv, TypeOK
        <4>. QED
          BY <2>1, <2>2, <4>2, <4>3 DEF Linked, Vouched
      <3>2. CASE ~AuditInserted(h)
        <4>1. /\ h \in Request /\ aid'[h] = 0
              /\ unaudited' = unaudited \cup {<<dev[h], Current(h).ts, Current(h).energy>>}
          BY <2>1, <3>2 DEF CreateAuditRow, AuditLost, locals
        <4>. QED
          BY <2>1, <4>1 DEF Linked, Vouched
      <3>. QED
        BY <3>1, <3>2
    <2>4. Checked(h)'
      BY <1>0, <2>1, <2>2 DEF Checked, AfterAudit
    <2>5. Landed(h)'
      BY <2>1, <1>0, HasRowStays DEF Landed, AfterAudit
    <2>6. Known(h)'
      <3>1. dev[h] \in Device
        BY DEF TypeInv, TypeOK
      <3>. QED
        BY <1>0, <2>1, <3>1 DEF Known, PastCheck, AfterAudit, Grows
    <2>7. Idle(h)' /\ Flagged(h)' /\ Backed(h)'
      BY <2>1 DEF Idle, Flagged, Backed, AfterAudit, Grows
    <2>. QED
      BY <2>3, <2>4, <2>5, <2>6, <2>7
  <1>4. ASSUME UpdateLastContact(h), ~Finish(h)
        PROVE  HandlerInv(h)'
    <2>. USE <1>4
    <2>1. /\ pc[h] = "contact" /\ UNCHANGED <<locals, audit, unaudited, telemetry, status>>
          /\ \/ h \in Ingestor /\ pc'[h] = "reject"
             \/ h \in Ingestor /\ pc'[h] = "lookup" /\ Current(h).form # "mistyped"
             \/ h \in Request /\ pc'[h] = "seen" /\ best[h] # 0
      BY DEF UpdateLastContact, Goto, TypeInv, TypeOK
    <2>2. h \in Ingestor => Current(h).form \in Form
      BY <2>1, CurrentType DEF AtReading
    <2>3. Checked(h)'
      BY <1>0, <2>1, <2>2 DEF Checked, Form, Current, locals
    <2>4. Idle(h)' /\ Linked(h)' /\ Vouched(h)' /\ Flagged(h)' /\ Backed(h)'
      BY <1>0, <2>1 DEF Idle, Linked, Vouched, Bound, Flagged, Backed, Current, locals
    <2>5. Landed(h)'
      BY <1>0, <2>1 DEF Landed, HasRow, Current, locals
    <2>6. Known(h)'
      BY <1>0, <2>1 DEF Known, PastCheck, locals
    <2>. QED
      BY <2>3, <2>4, <2>5, <2>6
  <1>5. ASSUME LookupDevice(h), ~Finish(h)
        PROVE  HandlerInv(h)'
    <2>. USE <1>5
    <2>1. /\ pc[h] = "lookup" /\ UNCHANGED <<locals, audit, unaudited, telemetry, status>>
          /\ \/ h \in Ingestor /\ pc'[h] = "reject"
             \/ /\ h \in Ingestor /\ pc'[h] = "previous"
                /\ Open(dev[h]) /\ Current(h).form # "implausible"
             \/ h \in Request /\ pc'[h] = "audit" /\ Open(dev[h])
      BY DEF LookupDevice, Goto, database, TypeInv, TypeOK
    <2>2. Idle(h)' /\ Linked(h)' /\ Vouched(h)' /\ Flagged(h)' /\ Backed(h)'
      BY <1>0, <2>1 DEF Idle, Linked, Vouched, Bound, Flagged, Backed, Current, locals
    <2>3. Checked(h)'
      BY <1>0, <2>1 DEF Checked, Current, locals
    <2>4. Landed(h)'
      BY <1>0, <2>1 DEF Landed, HasRow, Current, locals
    <2>5. Known(h)'
      BY <1>0, <2>1 DEF Known, PastCheck, Open, locals
    <2>. QED
      BY <2>2, <2>3, <2>4, <2>5
  <1>6. ASSUME PreviousEnergy(h)
        PROVE  HandlerInv(h)'
    <2>. USE <1>6
    <2>1. /\ pc[h] = "previous" /\ pc'[h] = "insert"
          /\ UNCHANGED <<dev, todo, aid, best, reply, audit, unaudited, telemetry, status>>
      BY DEF PreviousEnergy, Goto, database, TypeInv, TypeOK
    <2>2. reset'[h] => DetectEnergyReset(dev[h], Current(h).ts, Current(h).energy)
      BY DEF PreviousEnergy, TypeInv, TypeOK
    <2>3. Flagged(h)'
      BY <2>1, <2>2 DEF Flagged, DetectEnergyReset, Earlier, Current
    <2>4. Idle(h)' /\ Linked(h)' /\ Vouched(h)' /\ Backed(h)'
      BY <1>0, <2>1 DEF Idle, Linked, Vouched, Bound, Backed, Current
    <2>5. Checked(h)' /\ Landed(h)' /\ Known(h)'
      BY <1>0, <2>1 DEF Checked, Landed, HasRow, Known, PastCheck, Current
    <2>. QED
      BY <2>3, <2>4, <2>5
  <1>7. ASSUME InsertTelemetry(h)
        PROVE  HandlerInv(h)'
    <2>. USE <1>7
    <2>1. /\ pc[h] = "insert" /\ UNCHANGED <<dev, todo, aid, reset, audit, unaudited, status>>
          /\ Current(h)' = Current(h)
          /\ \/ pc'[h] = "reject" /\ best'[h] = best[h] /\ reply'[h] = reply[h]
             \/ /\ h \in Ingestor /\ Upsert(h) /\ pc'[h] = "seen"
                /\ best'[h] = best[h] /\ reply'[h] = reply[h]
             \/ /\ h \in Request /\ Upsert(h) /\ pc'[h] = "settle"
                /\ best'[h] \in {best[h], Current(h).ts}
                /\ reply'[h] = reply[h] \cup {Accept(h)}
      BY DEF InsertTelemetry, Goto, Current, TypeInv, TypeOK
    <2>2. Upsert(h) => HasRow(dev[h], Current(h).ts)'
      <3>1. Upsert(h) => \E row \in telemetry' : row.dev = dev[h] /\ row.ts = Current(h).ts
        BY UpsertEffect, NewFields DEF HasRow
      <3>. QED
        BY <2>1, <3>1 DEF HasRow
    <2>3. Landed(h)'
      BY <1>0, <2>1, <2>2, HasRowStays DEF Landed
    <2>4. Checked(h)'
      BY <1>0, <2>1 DEF Checked
    <2>5. Backed(h)'
      <3>1. Upsert(h) => \E row \in telemetry' :
                            /\ row.dev = dev[h] /\ row.ts = Accept(h).ts
                            /\ Accept(h).duplicate \/ row.energy = Accept(h).energy
        <4>1. CASE HasRow(dev[h], Current(h).ts)
          BY <4>1, UpsertEffect, AcceptFields DEF HasRow
        <4>2. CASE ~HasRow(dev[h], Current(h).ts)
          BY <4>2, UpsertEffect, NewFields, AcceptFields
        <4>. QED
          BY <4>1, <4>2
      <3>. QED
        BY <2>1, <3>1 DEF Backed, Grows
    <2>6. Idle(h)' /\ Linked(h)' /\ Vouched(h)' /\ Flagged(h)'
      BY <1>0, <2>1 DEF Idle, Linked, Vouched, Bound, Flagged
    <2>7. Known(h)'
      BY <1>0, <2>1 DEF Known, PastCheck
    <2>. QED
      BY <2>3, <2>4, <2>5, <2>6, <2>7
  <1>8. ASSUME AdvanceLastSeen(h), ~Finish(h)
        PROVE  HandlerInv(h)'
    <2>. USE <1>8
    <2>1. /\ h \in Ingestor /\ pc[h] = "seen" /\ pc'[h] = "settle"
          /\ UNCHANGED <<locals, audit, unaudited, telemetry, status>>
      BY DEF AdvanceLastSeen, Goto, TypeInv, TypeOK
    <2>2. Idle(h)' /\ Linked(h)' /\ Vouched(h)' /\ Flagged(h)' /\ Backed(h)'
      BY <1>0, <2>1 DEF Idle, Linked, Vouched, Bound, Flagged, Backed, Current, locals
    <2>3. Checked(h)' /\ Landed(h)' /\ Known(h)'
      BY <1>0, <2>1 DEF Checked, Landed, HasRow, Known, PastCheck, Current, locals
    <2>. QED
      BY <2>2, <2>3
  <1>9. ASSUME MarkProcessed(h) \/ MarkAuditError(h), ~Finish(h)
        PROVE  HandlerInv(h)'
    <2>. USE <1>9
    <2>1. /\ h \in Request /\ pc[h] \in {"settle", "reject"}
          /\ pc'[h] \in {"audit", "contact"} /\ aid'[h] = 0
          /\ UNCHANGED <<dev, best, reply, telemetry, status>>
      BY DEF MarkProcessed, MarkAuditError, Mark, Leave, NextReading, Goto, TypeInv, TypeOK, Handler
    <2>2. Idle(h)' /\ Linked(h)' /\ Vouched(h)' /\ Flagged(h)' /\ Backed(h)'
      BY <1>0, <2>1 DEF Idle, Linked, Vouched, Bound, Flagged, Backed
    <2>3. Checked(h)' /\ Landed(h)' /\ Known(h)'
      BY <1>0, <2>1 DEF Checked, Landed, HasRow, Known, PastCheck
    <2>. QED
      BY <2>2, <2>3
  <1>10. CASE Finish(h)
    BY <1>10, FinishInv
  <1>. QED
    BY <1>1, <1>2, <1>3, <1>4, <1>5, <1>6, <1>7, <1>8, <1>9, <1>10
    DEF HandlerStep, Handle, Crash

(* What a step may do to the readings and to last_seen_at.                  *)
Inserts(h) ==
  /\ pc[h] = "insert"
  /\ ~HasRow(dev[h], Current(h).ts)
  /\ telemetry' = telemetry \cup {New(h)}
  /\ UNCHANGED <<status, lastSeen, audit>>

LEMMA TelemetryEffect ==
  ASSUME NEW h \in Handler, HandlerStep(h)
  PROVE  UNCHANGED telemetry \/ Inserts(h)
  <1>1. CASE InsertTelemetry(h)
    <2>1. UNCHANGED telemetry \/ Upsert(h)
      BY <1>1 DEF InsertTelemetry
    <2>. QED
      BY <1>1, <2>1, UpsertEffect DEF InsertTelemetry, Inserts
  <1>2. CASE ~InsertTelemetry(h)
    BY <1>2 DEF HandlerStep, Handle, HandleMessage, SubmitReadings, Start, CreateAuditRow,
                UpdateLastContact, LookupDevice, PreviousEnergy, AdvanceLastSeen,
                MarkProcessed, MarkAuditError, Mark, Crash, database
  <1>. QED
    BY <1>1, <1>2

Advances(h) ==
  /\ pc[h] = "seen"
  /\ lastSeen[dev[h]] < SeenTS(h)
  /\ lastSeen' = [lastSeen EXCEPT ![dev[h]] = SeenTS(h)]
  /\ UNCHANGED <<status, telemetry>>

LEMMA LastSeenEffect ==
  ASSUME TypeInv, NEW h \in Handler, HandlerStep(h)
  PROVE  UNCHANGED lastSeen \/ Advances(h)
  <1>1. CASE AdvanceLastSeen(h)
    <2>1. dev[h] \in Device /\ lastSeen \in [Device -> Timestamp \cup {0}]
      BY DEF TypeInv, TypeOK
    <2>2. UNCHANGED lastSeen \/ MoveForward(h)
      BY <1>1 DEF AdvanceLastSeen
    <2>3. CASE lastSeen[dev[h]] < SeenTS(h)
      BY <1>1, <2>1, <2>2, <2>3 DEF AdvanceLastSeen, MoveForward, Advances
    <2>4. CASE ~(lastSeen[dev[h]] < SeenTS(h))
      BY <2>1, <2>2, <2>4 DEF MoveForward
    <2>. QED
      BY <2>3, <2>4
  <1>2. CASE ~AdvanceLastSeen(h)
    BY <1>2 DEF HandlerStep, Handle, HandleMessage, SubmitReadings, Start, CreateAuditRow,
                UpdateLastContact, LookupDevice, PreviousEnergy, InsertTelemetry,
                MarkProcessed, MarkAuditError, Mark, Crash, database
  <1>. QED
    BY <1>1, <1>2

(* The timestamp last_seen_at moves to is a stored reading's.               *)
LEMMA SeenIsStored ==
  ASSUME NEW h \in Handler, HandlerInv(h), pc[h] = "seen"
  PROVE  HasRow(dev[h], SeenTS(h))
  BY DEF HandlerInv, Landed, SeenTS, Handler, IngestionAssumption

LEMMA DataInvStep ==
  ASSUME TypeInv, Grows, NEW h \in Handler, HandlerInv(h), HandlerStep(h), DataInv
  PROVE  DataInv'
  <1>. USE DEF DataInv
  <1>1. AuditBeforeStore'
    <2>1. ASSUME NEW row \in telemetry
          PROVE  \/ \E i \in DOMAIN audit' : /\ audit'[i].dev = row.dev
                                             /\ audit'[i].reading.ts = row.ts
                                             /\ audit'[i].reading.energy = row.energy
                 \/ <<row.dev, row.ts, row.energy>> \in unaudited'
      BY DEF AuditBeforeStore, Grows
    <2>2. CASE Inserts(h)
      <3>1. CASE aid[h] # 0
        <4>1. /\ aid[h] \in DOMAIN audit' /\ audit'[aid[h]].dev = New(h).dev
              /\ audit'[aid[h]].reading.ts = New(h).ts
              /\ audit'[aid[h]].reading.energy = New(h).energy
          BY <3>1, NewFields DEF HandlerInv, Linked, HoldsRow, TypeInv, Grows
        <4>. QED
          BY <2>1, <2>2, <4>1 DEF Inserts, AuditBeforeStore
      <3>2. CASE aid[h] = 0
        <4>1. <<New(h).dev, New(h).ts, New(h).energy>> \in unaudited'
          BY <2>2, <3>2, NewFields DEF Inserts, HandlerInv, Vouched, Bound, Grows
        <4>. QED
          BY <2>1, <2>2, <4>1 DEF Inserts, AuditBeforeStore
      <3>. QED
        BY <3>1, <3>2
    <2>. QED
      BY <2>1, <2>2, TelemetryEffect DEF AuditBeforeStore
  <1>2. ProcessedIsStored'
    <2>. SUFFICES ASSUME NEW i \in DOMAIN audit', audit'[i].processed
                  PROVE  /\ \E row \in telemetry' : /\ row.dev = audit'[i].dev
                                                   /\ row.ts = audit'[i].reading.ts
                         /\ audit'[i].reading.form = "fine"
      BY DEF ProcessedIsStored, HasRow
    <2>0. /\ audit \in Seq(Entry) /\ Len(audit) \in Nat /\ DOMAIN audit = 1..Len(audit)
          /\ \A j \in DOMAIN audit : audit[j] \in Entry
      BY LenProperties DEF TypeInv, TypeOK
    <2>1. CASE i \in DOMAIN audit /\ audit[i].processed
      BY <2>1 DEF ProcessedIsStored, Grows, HasRow
    <2>2. CASE i \in DOMAIN audit /\ ~audit[i].processed
      <3>1. ASSUME NEW entry \in Entry, Verdict(h, entry)
            PROVE  i = aid[h] /\ pc[h] = "settle"
        <4>1. i = aid[h] /\ entry.processed
          BY <2>2, <3>1 DEF Verdict
        <4>2. Rejected(audit[i]).processed = audit[i].processed
          BY <2>0, <2>2 DEF Rejected, Entry
        <4>. QED
          BY <2>2, <3>1, <4>1, <4>2 DEF Verdict
      <3>2. ASSUME Appends(h) PROVE FALSE
        <4>1. [dev |-> dev[h], reading |-> Current(h), processed |-> FALSE, error |-> FALSE] \in Entry
          BY <3>2, CurrentType DEF Appends, AtReading, Entry, TypeInv, TypeOK
        <4>. QED
          BY <2>0, <2>2, <3>2, <4>1, AppendProperties DEF Appends, AppendAudit
      <3>3. ~UNCHANGED audit
        BY <2>2
      <3>4. i = aid[h] /\ pc[h] = "settle" /\ i # 0
        BY <2>0, <2>2, <3>1, <3>2, <3>3, AuditEffect
      <3>. QED
        BY <2>2, <3>4 DEF HandlerInv, Linked, Landed, Checked, Grows, HasRow
    <2>3. CASE i \notin DOMAIN audit
      <3>1. Appends(h)
        BY <2>3, AuditEffect DEF Verdict
      <3>2. [dev |-> dev[h], reading |-> Current(h), processed |-> FALSE, error |-> FALSE] \in Entry
        BY <3>1, CurrentType DEF Appends, AtReading, Entry, TypeInv, TypeOK
      <3>3. /\ audit' \in Seq(Entry) /\ Len(audit') = Len(audit) + 1
            /\ audit'[Len(audit) + 1].processed = FALSE
        BY <2>0, <3>1, <3>2, AppendProperties DEF Appends, AppendAudit
      <3>4. DOMAIN audit' = 1..Len(audit')
        BY <3>3, LenProperties
      <3>. QED
        BY <2>0, <2>3, <3>3, <3>4
    <2>. QED
      BY <2>1, <2>2, <2>3
  <1>3. ResetFlagSound'
    <2>1. CASE Inserts(h)
      BY <2>1, NewFields DEF Inserts, ResetFlagSound, HandlerInv, Flagged
    <2>. QED
      BY <2>1, TelemetryEffect DEF ResetFlagSound
  <1>4. LastSeenStored'
    <2>1. CASE Advances(h)
      <3>1. HasRow(dev[h], SeenTS(h))
        BY <2>1, SeenIsStored DEF Advances
      <3>. QED
        BY <2>1, <3>1 DEF Advances, LastSeenStored, HasRow, TypeInv, TypeOK
    <2>2. CASE UNCHANGED lastSeen
      BY <2>2, HasRowStays DEF LastSeenStored
    <2>. QED
      BY <2>1, <2>2, LastSeenEffect
  <1>5. RowsKnown'
    <2>1. CASE Inserts(h)
      BY <2>1, NewFields DEF Inserts, RowsKnown, HandlerInv, Known, PastCheck
    <2>2. CASE UNCHANGED telemetry
      BY <2>2 DEF RowsKnown, Grows, TypeInv, TypeOK, Row
    <2>. QED
      BY <2>1, <2>2, TelemetryEffect
  <1>. QED
    BY <1>1, <1>2, <1>3, <1>4, <1>5

LEMMA IInvInit == Init => IInv
  <1>. SUFFICES ASSUME Init PROVE IInv
    OBVIOUS
  <1>1. \A h \in Handler : HandlerInv(h)
    BY DEF Init, HandlerInv, Idle, Linked, Vouched, Bound, Checked, Landed, Flagged, Known,
           PastCheck, Backed
  <1>2. DataInv
    BY DEF Init, DataInv, AuditBeforeStore, ProcessedIsStored, ResetFlagSound, LastSeenStored,
           RowsKnown
  <1>3. Apart
    BY DEF Init, Apart
  <1>. QED
    BY <1>1, <1>2, <1>3, TypeInit DEF IInv

LEMMA IInvStep == IInv /\ [Next]_vars => IInv'
  <1>. SUFFICES ASSUME IInv, [Next]_vars PROVE IInv'
    OBVIOUS
  <1>. USE DEF IInv
  <1>1. TypeInv' /\ Apart' /\ Grows
    BY TypeStep, ApartStep, StepGrows
  <1>2. ASSUME NEW h \in Handler, HandlerStep(h)
        PROVE  DataInv' /\ \A k \in Handler : HandlerInv(k)'
    <2>1. DataInv'
      BY <1>1, <1>2, DataInvStep
    <2>2. HandlerInv(h)'
      BY <1>1, <1>2, HandlerInvStep
    <2>3. ASSUME NEW k \in Handler, k # h PROVE HandlerInv(k)'
      BY <1>1, <1>2, <2>3, OthersKept, OtherRowsKept, HandlerInvKept
    <2>. QED
      BY <2>1, <2>2, <2>3
  <1>3. CASE OperatorStep \/ UNCHANGED vars
    <2>1. UNCHANGED <<lastSeen, audit, telemetry, pc, locals, unaudited>>
      BY <1>3 DEF OperatorStep, Register, Revoke, vars, locals
    <2>2. ASSUME NEW k \in Handler PROVE HandlerInv(k)'
      <3>1. Kept(k)
        BY <2>1 DEF Kept, locals
      <3>. QED
        BY <1>1, <2>1, <3>1, HandlerInvKept
    <2>3. DataInv'
      <3>1. \A row \in telemetry : row.dev \in Device
        BY DEF TypeInv, TypeOK, Row
      <3>2. RowsKnown'
        BY <1>1, <2>1, <3>1 DEF DataInv, RowsKnown, Grows
      <3>3. AuditBeforeStore' /\ ResetFlagSound'
        BY <2>1 DEF DataInv, AuditBeforeStore, ResetFlagSound
      <3>4. ProcessedIsStored' /\ LastSeenStored'
        BY <2>1 DEF DataInv, ProcessedIsStored, LastSeenStored, HasRow
      <3>. QED
        BY <3>2, <3>3, <3>4 DEF DataInv
    <2>. QED
      BY <1>1, <2>2, <2>3
  <1>. QED
    BY <1>1, <1>2, <1>3, StepCases

LEMMA Invariant == Spec => []IInv
  BY IInvInit, IInvStep, PTL DEF Spec

-----------------------------------------------------------------------------
(* The safety theorems.                                                     *)

(* No reading reaches the table without its audit row, but for the cloud    *)
(* readings whose failed audit INSERT SubmitReadings ignored.               *)
THEOREM AuditedBeforeStored == Spec => []AuditBeforeStore
  <1>1. IInv => AuditBeforeStore
    BY DEF IInv, DataInv
  <1>. QED
    BY <1>1, Invariant, PTL

(* A processed audit row's reading was valid and its row is in the table.   *)
THEOREM ProcessedMeansStored == Spec => []ProcessedIsStored
  <1>1. IInv => ProcessedIsStored
    BY DEF IInv, DataInv
  <1>. QED
    BY <1>1, Invariant, PTL

(* An energy_reset flag always has an earlier, higher reading behind it.    *)
THEOREM NoFalseReset == Spec => []ResetFlagSound
  <1>1. IInv => ResetFlagSound
    BY DEF IInv, DataInv
  <1>. QED
    BY <1>1, Invariant, PTL

(* What a cloud-import reply says was stored is in the table.               *)
THEOREM RepliesAreHonest == Spec => []ReplyHonest
  <1>1. IInv => ReplyHonest
    BY DEF IInv, HandlerInv, Backed, ReplyHonest, Handler
  <1>. QED
    BY <1>1, Invariant, PTL

(* A verdict on an audit row is never changed, whichever handlers run.      *)
THEOREM VerdictsAreFinal == Spec => VerdictFinal
  <1>1. IInv /\ [Next]_vars =>
          \A i \in DOMAIN audit : audit[i].processed \/ audit[i].error => audit'[i] = audit[i]
    <2>. SUFFICES ASSUME IInv, [Next]_vars, NEW i \in DOMAIN audit,
                         audit[i].processed \/ audit[i].error
                  PROVE  audit'[i] = audit[i]
      OBVIOUS
    <2>. USE DEF IInv
    <2>0. audit \in Seq(Entry) /\ i \in 1..Len(audit)
      BY LenProperties DEF TypeInv, TypeOK
    <2>1. ASSUME NEW h \in Handler, HandlerStep(h)
          PROVE  audit'[i] = audit[i]
      <3>1. i # aid[h]
        BY <2>0 DEF HandlerInv, Linked
      <3>2. CASE Appends(h)
        <4>1. [dev |-> dev[h], reading |-> Current(h), processed |-> FALSE, error |-> FALSE] \in Entry
          BY <3>2, CurrentType DEF Appends, AtReading, Entry, TypeInv, TypeOK
        <4>. QED
          BY <2>0, <3>2, <4>1, AppendProperties DEF Appends, AppendAudit
      <3>3. CASE \E entry \in Entry : Verdict(h, entry)
        BY <3>1, <3>3 DEF Verdict
      <3>. QED
        BY <2>1, <3>2, <3>3, AuditEffect
    <2>2. CASE OperatorStep \/ UNCHANGED vars
      BY <2>2 DEF OperatorStep, Register, Revoke, vars
    <2>. QED
      BY <2>1, <2>2, StepCases
  <1>. QED
    BY <1>1, Invariant, PTL DEF Spec, VerdictFinal

(* The pipeline implements the abstract store of readings.                  *)
THEOREM IngestionImplementsStore == Spec => ImplementsStore
  <1>1. Init => Store!Init
    BY DEF Init, Store!Init
  <1>2. IInv /\ [Next]_vars => [Store!Next]_(Store!storeVars)
    <2>. SUFFICES ASSUME IInv, [Next]_vars
                  PROVE  Store!Next \/ UNCHANGED Store!storeVars
      BY DEF Store!storeVars
    <2>. USE DEF IInv
    <2>1. ASSUME NEW h \in Handler, HandlerStep(h)
          PROVE  Store!Next \/ UNCHANGED Store!storeVars
      <3>1. UNCHANGED status
        BY <2>1 DEF HandlerStep, Handle, HandleMessage, SubmitReadings, Start, CreateAuditRow,
                    UpdateLastContact, LookupDevice, PreviousEnergy, InsertTelemetry,
                    AdvanceLastSeen, MarkProcessed, MarkAuditError, Mark, Crash, database
      <3>2. CASE Inserts(h)
        <4>1. New(h) \in Store!Stored
          BY <3>2, CurrentType DEF Inserts, AtReading, New, Store!Stored, TypeInv, TypeOK
        <4>2. status[dev[h]] # "unknown" /\ dev[h] \in Device
          BY <3>2 DEF Inserts, HandlerInv, Known, PastCheck, TypeInv, TypeOK
        <4>3. Store!Put(New(h))
          BY <3>1, <3>2, <4>2, NewFields DEF Inserts, HasRow, Store!Put
        <4>. QED
          BY <4>1, <4>3 DEF Store!Next
      <3>3. CASE Advances(h)
        <4>1. HasRow(dev[h], SeenTS(h)) /\ dev[h] \in Device
          BY <3>3, SeenIsStored DEF Advances, TypeInv, TypeOK
        <4>2. SeenTS(h) \in Timestamp
          BY <4>1 DEF HasRow, TypeInv, TypeOK, Row
        <4>3. Store!Advance(dev[h], SeenTS(h))
          BY <3>1, <3>3, <4>1 DEF Advances, HasRow, Store!Advance
        <4>. QED
          BY <4>1, <4>2, <4>3 DEF Store!Next
      <3>4. CASE UNCHANGED telemetry /\ UNCHANGED lastSeen
        BY <3>1, <3>4 DEF Store!storeVars
      <3>. QED
        BY <2>1, <3>2, <3>3, <3>4, TelemetryEffect, LastSeenEffect
    <2>2. ASSUME NEW d \in Device, Register(d)
          PROVE  Store!Next
      <3>1. /\ d \notin {e \in Device : status[e] # "unknown"}
            /\ {e \in Device : status'[e] # "unknown"} =
                 {e \in Device : status[e] # "unknown"} \cup {d}
        BY <2>2 DEF Register, TypeInv, TypeOK
      <3>2. Store!Admit(d)
        BY <2>2, <3>1 DEF Register, Store!Admit
      <3>. QED
        BY <3>2 DEF Store!Next
    <2>3. ASSUME NEW d \in Device, Revoke(d)
          PROVE  UNCHANGED Store!storeVars
      <3>1. {e \in Device : status'[e] # "unknown"} = {e \in Device : status[e] # "unknown"}
        BY <2>3 DEF Revoke, TypeInv, TypeOK
      <3>. QED
        BY <2>3, <3>1 DEF Revoke, Store!storeVars
    <2>4. CASE UNCHANGED vars
      BY <2>4 DEF vars, Store!storeVars
    <2>. QED
      BY <2>1, <2>2, <2>3, <2>4, StepCases DEF OperatorStep
  <1>. QED
    BY <1>1, <1>2, Invariant, PTL DEF Spec, ImplementsStore, Store!Spec

-----------------------------------------------------------------------------
(* last_seen_at catches up. Between the INSERT of a row and the UPDATE that *)
(* is to follow, some handler has the row's timestamp, or a later one, in   *)
(* hand; it lets go of it in that UPDATE only.                              *)

(* SubmitReadings has accepted nothing before its loop.                     *)
Fresh == \A h \in Request : pc[h] = "lookup" => best[h] = 0

CatchUpInv == IInv /\ Fresh /\ LastSeenCatchesUp

LEMMA FreshStep ==
  ASSUME IInv, Fresh, NEW h \in Handler, HandlerStep(h)
  PROVE  Fresh'
  <1>. SUFFICES ASSUME NEW k \in Request, pc'[k] = "lookup" PROVE best'[k] = 0
    BY DEF Fresh
  <1>0. /\ k \in Handler /\ k \notin Ingestor
        /\ pc \in [Handler -> Step] /\ best \in [Handler -> Timestamp \cup {0}]
    BY DEF Handler, IInv, TypeInv, TypeOK
  <1>1. CASE k # h
    <2>1. Kept(k)
      BY <1>0, <1>1, OthersKept DEF IInv
    <2>. QED
      BY <2>1 DEF Kept, Fresh
  <1>2. CASE k = h
    <2>1. CASE \E d \in Device, batch \in Batch : SubmitReadings(h, d, batch)
      BY <1>0, <1>2, <2>1 DEF SubmitReadings, Start, IInv, HandlerInv, Idle
    <2>2. CASE Crash(h)
      BY <1>0, <1>2, <2>2 DEF Crash, Finish, Goto
    <2>3. CASE CreateAuditRow(h)
      BY <1>0, <1>2, <2>3 DEF CreateAuditRow, AuditInserted, AuditLost, AfterAudit, Finish, Goto
    <2>4. CASE UpdateLastContact(h) \/ LookupDevice(h)
      BY <1>0, <1>2, <2>4 DEF UpdateLastContact, LookupDevice, Finish, Goto
    <2>5. CASE PreviousEnergy(h) \/ InsertTelemetry(h) \/ AdvanceLastSeen(h)
      BY <1>0, <1>2, <2>5 DEF PreviousEnergy, InsertTelemetry, AdvanceLastSeen, Finish, Goto
    <2>6. CASE MarkProcessed(h) \/ MarkAuditError(h)
      BY <1>0, <1>2, <2>6 DEF MarkProcessed, MarkAuditError, Mark, Leave, NextReading, Goto
    <2>. QED
      BY <1>0, <1>2, <2>1, <2>2, <2>3, <2>4, <2>5, <2>6 DEF HandlerStep, Handle
  <1>. QED
    BY <1>1, <1>2

(* While nothing fails, a handler lets go of a timestamp in the UPDATE.     *)
LEMMA LettingGo ==
  ASSUME IInv, Fresh, NEW h \in Handler, HandlerStep(h), UNCHANGED faults,
         NEW t \in Timestamp, WillAdvance(h, dev[h], t)
  PROVE  /\ dev'[h] = dev[h]
         /\ t <= lastSeen'[dev[h]] \/ WillAdvance(h, dev[h], t)'
  <1>0. /\ pc \in [Handler -> Step] /\ best \in [Handler -> Timestamp \cup {0}]
        /\ todo \in [Handler -> Seq(Reading)] /\ dev \in [Handler -> Device]
        /\ lastSeen \in [Device -> Timestamp \cup {0}] /\ faults \in Nat
        /\ Timestamp \subseteq Nat \ {0}
    BY DEF IInv, TypeInv, TypeOK
  <1>1. h \in Ingestor \/ h \in Request
    BY DEF Handler
  <1>2. ~ Fault
    BY <1>0 DEF Fault
  <1>5. Timestamp \cup {0} \subseteq Nat
    BY <1>0
  <1>6. dev[h] \in Device /\ best[h] \in Nat /\ lastSeen[dev[h]] \in Nat /\ t \in Nat
    BY <1>0, <1>5
  <1>3. CASE AdvanceLastSeen(h)
    <2>1. MoveForward(h) /\ dev' = dev
      BY <1>2, <1>3 DEF AdvanceLastSeen, Finish, locals
    <2>2. t <= SeenTS(h) /\ SeenTS(h) \in Nat
      <3>1. CASE h \in Ingestor
        <4>1. pc[h] = "seen" /\ t <= Current(h).ts
          BY <3>1 DEF WillAdvance
        <4>2. Current(h).ts \in Timestamp
          BY <3>1, <4>1, CurrentType DEF IInv, AtReading
        <4>. QED
          BY <1>5, <3>1, <4>1, <4>2 DEF SeenTS
      <3>2. CASE h \notin Ingestor
        <4>1. t <= best[h] /\ SeenTS(h) = best[h]
          BY <3>2 DEF WillAdvance, SeenTS
        <4>. QED
          BY <1>6, <4>1
      <3>. QED
        BY <3>1, <3>2
    <2>3. lastSeen'[dev[h]] = IF lastSeen[dev[h]] < SeenTS(h) THEN SeenTS(h) ELSE lastSeen[dev[h]]
      BY <1>0, <1>6, <2>1 DEF MoveForward
    <2>4. t <= lastSeen'[dev[h]]
      <3>1. CASE lastSeen[dev[h]] < SeenTS(h)
        BY <2>2, <2>3, <3>1
      <3>2. CASE ~(lastSeen[dev[h]] < SeenTS(h))
        <4>1. lastSeen'[dev[h]] = lastSeen[dev[h]]
          BY <2>3, <3>2
        <4>. QED
          BY <1>6, <2>2, <3>2, <4>1
      <3>. QED
        BY <3>1, <3>2
    <2>. QED
      BY <2>1, <2>4
  <1>4. CASE ~ AdvanceLastSeen(h)
    <2>1. h \in Request /\ pc[h] # "idle" /\ best[h] # 0 /\ t <= best[h]
      <3>1. CASE h \in Ingestor
        <4>1. pc[h] = "seen"
          BY <3>1 DEF WillAdvance
        <4>. QED
          BY <1>2, <1>4, <4>1 DEF HandlerStep, Handle, HandleMessage, SubmitReadings, Start,
            CreateAuditRow, UpdateLastContact, LookupDevice, PreviousEnergy, InsertTelemetry,
            MarkProcessed, MarkAuditError, Crash
      <3>2. CASE h \notin Ingestor
        BY <1>0, <1>1, <3>2 DEF WillAdvance
      <3>. QED
        BY <3>1, <3>2
    <2>2. h \notin Ingestor /\ pc[h] # "lookup"
      BY <2>1 DEF Fresh
    <2>3. dev' = dev /\ best'[h] \in Nat /\ best'[h] >= best[h] /\ pc'[h] # "idle"
      <3>1. CASE CreateAuditRow(h)
        <4>1. Current(h).form # "notjson"
          <5>1. todo[h] # <<>> /\ todo[h] \in Seq(CloudReading)
            BY <2>1, <3>1 DEF IInv, TypeInv, HasReading, RequestReadings, AtReading, CreateAuditRow
          <5>2. Current(h) \in CloudReading
            BY <5>1, HeadTail DEF Current
          <5>. QED
            BY <5>2 DEF CloudReading
        <4>2. AuditInserted(h)
          BY <1>2, <3>1, <4>1 DEF CreateAuditRow, AuditLost
        <4>. QED
          <5>1. dev' = dev /\ best' = best
            BY <4>2 DEF AuditInserted
          <5>2. pc'[h] = AfterAudit(h)
            BY <1>0, <4>2 DEF AuditInserted, Goto
          <5>3. AfterAudit(h) # "idle"
            BY <2>2 DEF AfterAudit
          <5>. QED
            BY <1>6, <5>1, <5>2, <5>3
      <3>2. CASE UpdateLastContact(h)
        <4>1. Goto(h, "seen") /\ UNCHANGED locals
          BY <2>1, <2>2, <3>2 DEF UpdateLastContact
        <4>2. dev' = dev /\ best' = best
          BY <4>1 DEF locals
        <4>3. pc'[h] = "seen"
          BY <1>0, <4>1 DEF Goto
        <4>. QED
          BY <1>6, <4>2, <4>3
      <3>3. CASE PreviousEnergy(h)
        <4>1. dev' = dev /\ best' = best
          BY <3>3 DEF PreviousEnergy
        <4>2. pc'[h] = "insert"
          BY <1>0, <3>3 DEF PreviousEnergy, Goto
        <4>. QED
          BY <1>6, <4>1, <4>2
      <3>4. CASE InsertTelemetry(h)
        <4>1. Current(h).ts \in Timestamp
          BY <3>4, CurrentType DEF IInv, AtReading, InsertTelemetry
        <4>. QED
          <5>1. dev' = dev
            BY <3>4 DEF InsertTelemetry
          <5>2. /\ Goto(h, "settle")
                /\ best' = [best EXCEPT ![h] = IF @ < Current(h).ts THEN Current(h).ts ELSE @]
            BY <1>2, <2>2, <3>4 DEF InsertTelemetry
          <5>3. pc'[h] = "settle"
            BY <1>0, <5>2 DEF Goto
          <5>4. best'[h] = IF best[h] < Current(h).ts THEN Current(h).ts ELSE best[h]
            BY <1>0, <5>2
          <5>5. Current(h).ts \in Nat
            BY <1>5, <4>1
          <5>6. best'[h] \in Nat /\ best'[h] >= best[h]
            BY <1>6, <5>4, <5>5
          <5>. QED
            BY <5>1, <5>3, <5>6
      <3>5. CASE MarkProcessed(h) \/ MarkAuditError(h)
        <4>1. NextReading(h)
          BY <2>2, <3>5 DEF MarkProcessed, MarkAuditError, Mark, Leave
        <4>2. dev' = dev /\ best' = best
          BY <4>1 DEF NextReading
        <4>3. pc'[h] # "idle"
          BY <1>0, <4>1 DEF NextReading, Goto
        <4>. QED
          BY <1>6, <4>2, <4>3
      <3>. QED
        BY <1>2, <1>4, <2>1, <2>2, <3>1, <3>2, <3>3, <3>4, <3>5
        DEF HandlerStep, Handle, HandleMessage, SubmitReadings, Start, LookupDevice, Crash
    <2>4. t <= best'[h]
      BY <1>6, <2>1, <2>3
    <2>. QED
      BY <2>1, <2>3, <2>4 DEF WillAdvance
  <1>. QED
    BY <1>3, <1>4

LEMMA CatchUpStep ==
  ASSUME IInv, Fresh, LastSeenCatchesUp, NEW h \in Handler, HandlerStep(h)
  PROVE  LastSeenCatchesUp'
  <1>. SUFFICES ASSUME faults' = 0, NEW row \in telemetry'
                PROVE  \/ row.ts <= lastSeen'[row.dev]
                       \/ \E k \in Handler : WillAdvance(k, row.dev, row.ts)'
    BY DEF LastSeenCatchesUp
  <1>0. /\ pc \in [Handler -> Step] /\ best \in [Handler -> Timestamp \cup {0}]
        /\ dev \in [Handler -> Device] /\ telemetry \in SUBSET Row
        /\ lastSeen \in [Device -> Timestamp \cup {0}] /\ faults \in Nat
        /\ Timestamp \subseteq Nat \ {0}
    BY DEF IInv, TypeInv, TypeOK
  <1>1. faults = 0 /\ ~ Fault
    <2>1. faults' \in {faults, faults + 1}
      BY DEF HandlerStep, Handle, HandleMessage, SubmitReadings, Start, CreateAuditRow, AuditInserted,
        AuditLost, UpdateLastContact, LookupDevice, PreviousEnergy, InsertTelemetry, AdvanceLastSeen,
        MarkProcessed, MarkAuditError, Mark, Crash, Clean, Fault
    <2>. QED
      BY <1>0, <2>1 DEF Fault
  <1>4. Timestamp \cup {0} \subseteq Nat
    BY <1>0
  <1>2. CASE row \in telemetry
    <2>1. row.ts \in Timestamp /\ row.dev \in Device
      BY <1>0, <1>2 DEF Row
    <2>2. CASE row.ts <= lastSeen[row.dev]
      <3>1. CASE UNCHANGED lastSeen
        BY <2>2, <3>1
      <3>2. CASE Advances(h)
        <4>1. SeenTS(h) \in Nat
          <5>1. CASE h \in Ingestor
            <6>1. Current(h).ts \in Timestamp
              BY <3>2, <5>1, CurrentType DEF IInv, AtReading, Advances
            <6>. QED
              BY <1>4, <5>1, <6>1 DEF SeenTS
          <5>2. CASE h \notin Ingestor
            BY <1>0, <1>4, <5>2 DEF SeenTS
          <5>. QED
            BY <5>1, <5>2
        <4>2. row.ts \in Nat /\ lastSeen[row.dev] \in Nat
          BY <1>0, <1>4, <2>1
        <4>3. CASE row.dev = dev[h]
          <5>1. lastSeen'[row.dev] = SeenTS(h) /\ lastSeen[row.dev] < SeenTS(h)
            BY <1>0, <2>1, <3>2, <4>3 DEF Advances
          <5>. QED
            BY <2>2, <4>1, <4>2, <5>1
        <4>4. CASE row.dev # dev[h]
          <5>1. lastSeen'[row.dev] = lastSeen[row.dev]
            BY <1>0, <2>1, <3>2, <4>4 DEF Advances
          <5>. QED
            BY <2>2, <5>1
        <4>. QED
          BY <4>3, <4>4
      <3>. QED
        BY <3>1, <3>2, LastSeenEffect DEF IInv
    <2>3. CASE \E k \in Handler : WillAdvance(k, row.dev, row.ts)
      <3>1. PICK k \in Handler : WillAdvance(k, row.dev, row.ts)
        BY <2>3
      <3>2. CASE k = h
        <4>1. row.dev = dev[h]
          BY <3>1, <3>2 DEF WillAdvance
        <4>. QED
          BY <1>1, <2>1, <3>1, <3>2, <4>1, LettingGo
      <3>3. CASE k # h
        <4>1. Kept(k)
          BY <3>3, OthersKept DEF IInv
        <4>2. WillAdvance(k, row.dev, row.ts)'
          BY <3>1, <4>1 DEF Kept, WillAdvance, Current
        <4>. QED
          BY <4>2
      <3>. QED
        BY <3>2, <3>3
    <2>. QED
      BY <1>1, <1>2, <2>2, <2>3 DEF LastSeenCatchesUp
  <1>3. CASE row \notin telemetry
    <2>1. Inserts(h) /\ row = New(h)
      BY <1>3, TelemetryEffect DEF Inserts
    <2>2. row.dev = dev[h] /\ row.ts = Current(h).ts
      BY <2>1, NewFields
    <2>3. InsertTelemetry(h)
      <3>1. telemetry' # telemetry
        BY <1>3
      <3>. QED
        BY <3>1 DEF HandlerStep, Handle, HandleMessage, SubmitReadings, Start, CreateAuditRow,
          UpdateLastContact, LookupDevice, PreviousEnergy, AdvanceLastSeen, MarkProcessed,
          MarkAuditError, Mark, Crash, database
    <2>4. Current(h).ts \in Timestamp
      BY <2>3, CurrentType DEF IInv, AtReading, InsertTelemetry
    <2>5. dev' = dev /\ todo' = todo
      BY <2>3 DEF InsertTelemetry
    <2>6. CASE h \in Ingestor
      <3>1. h \notin Request /\ pc'[h] = "seen"
        BY <1>0, <1>1, <2>3, <2>6 DEF InsertTelemetry, Goto
      <3>2. WillAdvance(h, dev[h], Current(h).ts)'
        <4>1. Current(h).ts <= Current(h).ts
          <5>1. Current(h).ts \in Nat
            BY <1>4, <2>4
          <5>2. \A n \in Nat : n <= n
            OBVIOUS
          <5>. QED
            BY <5>1, <5>2
        <4>. QED
          BY <2>5, <2>6, <3>1, <4>1 DEF WillAdvance, Current
      <3>. QED
        BY <2>2, <2>5, <3>2 DEF WillAdvance, Current
    <2>7. CASE h \notin Ingestor
      <3>1. h \in Request
        BY <2>7 DEF Handler
      <3>2. pc'[h] = "settle" /\ best'[h] = IF best[h] < Current(h).ts THEN Current(h).ts ELSE best[h]
        BY <1>0, <1>1, <2>3, <2>7 DEF InsertTelemetry, Goto
      <3>3. Current(h).ts <= best'[h]
        <4>1. best[h] \in Nat /\ Current(h).ts \in Nat
          BY <1>0, <1>4, <2>4
        <4>. QED
          BY <3>2, <4>1
      <3>. QED
        BY <2>2, <2>5, <3>1, <3>2, <3>3 DEF WillAdvance
    <2>. QED
      BY <2>6, <2>7
  <1>. QED
    BY <1>2, <1>3

(* While nothing fails, a stored row newer than its device's last_seen_at   *)
(* always has a handler that will advance it, for any number of handlers.   *)
THEOREM LastSeenFollows == Spec => []LastSeenCatchesUp
  <1>1. Init => CatchUpInv
    <2>1. Init => Fresh /\ LastSeenCatchesUp
      BY DEF Init, Fresh, LastSeenCatchesUp, Handler
    <2>. QED
      BY <2>1, IInvInit DEF CatchUpInv
  <1>2. CatchUpInv /\ [Next]_vars => CatchUpInv'
    <2>. SUFFICES ASSUME CatchUpInv, [Next]_vars PROVE CatchUpInv'
      OBVIOUS
    <2>. USE DEF CatchUpInv
    <2>1. IInv'
      BY IInvStep
    <2>2. ASSUME NEW h \in Handler, HandlerStep(h)
          PROVE  Fresh' /\ LastSeenCatchesUp'
      BY <2>2, FreshStep, CatchUpStep
    <2>3. CASE OperatorStep \/ UNCHANGED vars
      <3>1. UNCHANGED <<pc, dev, todo, best, lastSeen, telemetry, faults>>
        BY <2>3 DEF OperatorStep, Register, Revoke, vars, locals
      <3>. QED
        BY <2>1, <3>1 DEF Fresh, LastSeenCatchesUp, WillAdvance, Current
    <2>. QED
      BY <2>1, <2>2, <2>3, StepCases
  <1>. QED
    BY <1>1, <1>2, PTL DEF Spec, CatchUpInv

-----------------------------------------------------------------------------
(* Revocation. What is let in when a device is revoked is closed under the  *)
(* steps of the handlers: none that is not past the check gets past it, and *)
(* none that is takes up another reading.                                   *)

LetInInv ==
  \A d \in Device : status[d] = "revoked" => Here(d) \cup Underway(d) \subseteq letIn[d]

(* A list's tail holds nothing the list does not.                           *)
LEMMA TailInHand ==
  ASSUME NEW s \in Seq(Reading), s # <<>>, NEW i \in DOMAIN Tail(s)
  PROVE  i + 1 \in DOMAIN s /\ Tail(s)[i] = s[i + 1]
  OBVIOUS

(* Of a device that is revoked a handler has no more in hand after its step.*)
LEMMA NoneComesIn ==
  ASSUME TypeInv, NEW h \in Handler, HandlerStep(h), NEW d \in Device, status[d] = "revoked",
         dev'[h] = d, PastCheck(h)'
  PROVE  dev[h] = d /\ PastCheck(h) /\ InHand(h)' \subseteq InHand(h)
  <1>0. /\ pc \in [Handler -> Step] /\ dev \in [Handler -> Device]
        /\ todo \in [Handler -> Seq(Reading)]
        /\ h \in Ingestor => h \notin Request
        /\ h \in Ingestor \/ h \in Request
    BY DEF TypeInv, TypeOK, Handler, IngestionAssumption
  <1>1. CASE (\E e \in Device, r \in Payload : HandleMessage(h, e, r))
             \/ (\E e \in Device, batch \in Batch : SubmitReadings(h, e, batch))
    BY <1>0, <1>1 DEF HandleMessage, SubmitReadings, Start, Goto, PastCheck
  <1>2. CASE Crash(h)
    BY <1>0, <1>2 DEF Crash, Finish, Goto, PastCheck
  <1>3. CASE CreateAuditRow(h)
    <2>1. CASE Finish(h)
      BY <1>0, <2>1 DEF Finish, Goto, PastCheck
    <2>2. CASE ~Finish(h)
      <3>1. dev' = dev /\ todo' = todo /\ Goto(h, AfterAudit(h)) /\ pc[h] = "audit"
        BY <1>3, <2>2 DEF CreateAuditRow, AuditInserted, AuditLost, locals
      <3>2. h \in Request
        BY <1>0, <3>1 DEF Goto, AfterAudit, PastCheck
      <3>. QED
        BY <3>1, <3>2 DEF PastCheck, InHand
    <2>. QED
      BY <2>1, <2>2
  <1>4. CASE UpdateLastContact(h)
    BY <1>0, <1>4 DEF UpdateLastContact, Finish, Goto, locals, PastCheck
  <1>5. CASE LookupDevice(h)
    BY <1>0, <1>5 DEF LookupDevice, Open, Finish, Goto, locals, PastCheck
  <1>6. CASE PreviousEnergy(h) \/ InsertTelemetry(h)
    BY <1>0, <1>6 DEF PreviousEnergy, InsertTelemetry, Goto, PastCheck, InHand
  <1>7. CASE AdvanceLastSeen(h)
    BY <1>0, <1>7 DEF AdvanceLastSeen, Finish, Goto, locals, PastCheck
  <1>8. CASE MarkProcessed(h) \/ MarkAuditError(h)
    <2>1. pc[h] \in {"settle", "reject"} /\ (Finish(h) \/ (h \in Request /\ NextReading(h)))
      BY <1>0, <1>8 DEF MarkProcessed, MarkAuditError, Mark, Leave
    <2>2. CASE Finish(h)
      BY <1>0, <2>2 DEF Finish, Goto, PastCheck
    <2>3. CASE h \in Request /\ NextReading(h)
      <3>1. todo[h] # <<>> /\ todo'[h] = Tail(todo[h]) /\ dev' = dev
        BY <1>0, <2>1, <2>3 DEF NextReading, TypeInv, HasReading, AtReading
      <3>2. \A i \in DOMAIN Tail(todo[h]) : i + 1 \in DOMAIN todo[h] /\ Tail(todo[h])[i] = todo[h][i + 1]
        BY <1>0, <3>1, TailInHand
      <3>3. InHand(h)' \subseteq InHand(h)
        BY <3>1, <3>2 DEF InHand
      <3>. QED
        BY <2>1, <2>3, <3>1, <3>3 DEF PastCheck
    <2>. QED
      BY <2>1, <2>2, <2>3
  <1>. QED
    BY <1>1, <1>2, <1>3, <1>4, <1>5, <1>6, <1>7, <1>8 DEF HandlerStep, Handle

LEMMA LetInStep ==
  ASSUME TypeInv, LetInInv, [Next]_vars
  PROVE  LetInInv'
  <1>1. ASSUME NEW h \in Handler, HandlerStep(h)
        PROVE  LetInInv'
    <2>1. UNCHANGED <<status, letIn>>
      BY <1>1 DEF HandlerStep, Handle, HandleMessage, SubmitReadings, Start, CreateAuditRow,
                  UpdateLastContact, LookupDevice, PreviousEnergy, InsertTelemetry,
                  AdvanceLastSeen, MarkProcessed, MarkAuditError, Mark, Crash, database
    <2>. SUFFICES ASSUME NEW d \in Device, status[d] = "revoked"
                  PROVE  Here(d)' \cup Underway(d)' \subseteq letIn[d]
      BY <2>1 DEF LetInInv
    <2>2. Here(d) \subseteq letIn[d] /\ Underway(d) \subseteq letIn[d]
      BY DEF LetInInv
    <2>3. Here(d)' \subseteq Here(d) \cup Underway(d)
      <3>1. CASE UNCHANGED telemetry
        BY <3>1 DEF Here
      <3>2. CASE Inserts(h)
        <4>1. pc[h] = "insert" /\ telemetry' = telemetry \cup {New(h)}
          BY <3>2 DEF Inserts
        <4>2. todo[h] \in Seq(Reading) /\ todo[h] # <<>>
          BY <4>1 DEF TypeInv, TypeOK, HasReading, AtReading
        <4>3. 1 \in DOMAIN todo[h] /\ Current(h) = todo[h][1]
          BY <4>2 DEF Current
        <4>4. dev[h] = d => <<New(h).ts, New(h).energy>> \in Underway(d)
          BY <4>1, <4>3, NewFields DEF Underway, InHand, PastCheck
        <4>. QED
          BY <4>1, <4>4, NewFields DEF Here
      <3>. QED
        BY <1>1, <3>1, <3>2, TelemetryEffect
    <2>4. Underway(d)' \subseteq Underway(d)
      <3>1. ASSUME NEW k \in Handler, dev'[k] = d, PastCheck(k)'
            PROVE  dev[k] = d /\ PastCheck(k) /\ InHand(k)' \subseteq InHand(k)
        <4>1. CASE k = h
          BY <1>1, <3>1, <4>1, NoneComesIn
        <4>2. CASE k # h
          BY <1>1, <3>1, <4>2, OthersKept DEF Kept, PastCheck, InHand
        <4>. QED
          BY <4>1, <4>2
      <3>. QED
        BY <3>1 DEF Underway
    <2>. QED
      BY <2>2, <2>3, <2>4
  <1>2. ASSUME NEW e \in Device, Register(e) \/ Revoke(e)
        PROVE  LetInInv'
    <2>1. UNCHANGED <<telemetry, pc, dev, todo>>
      BY <1>2 DEF Register, Revoke, locals
    <2>2. \A d \in Device : Here(d)' = Here(d) /\ Underway(d)' = Underway(d)
      BY <2>1 DEF Here, Underway, InHand, PastCheck
    <2>3. status \in [Device -> {"unknown", "active", "revoked"}]
          /\ letIn \in [Device -> SUBSET (Timestamp \X Energy)]
      BY DEF TypeInv, TypeOK
    <2>4. CASE Register(e)
      BY <2>2, <2>3, <2>4 DEF Register, LetInInv
    <2>5. CASE Revoke(e)
      <3>1. /\ status' = [status EXCEPT ![e] = "revoked"]
            /\ letIn' = [letIn EXCEPT ![e] = Here(e) \cup Underway(e)]
        BY <2>5 DEF Revoke
      <3>2. \A d \in Device : /\ d = e => letIn'[d] = Here(d) \cup Underway(d)
                              /\ d # e => letIn'[d] = letIn[d] /\ status'[d] = status[d]
        BY <2>3, <3>1
      <3>. QED
        BY <2>2, <3>2 DEF LetInInv
    <2>. QED
      BY <1>2, <2>4, <2>5
  <1>3. CASE UNCHANGED vars
    BY <1>3 DEF vars, LetInInv, Here, Underway, InHand, PastCheck
  <1>. QED
    BY <1>1, <1>2, <1>3, StepCases DEF OperatorStep

(* After a revocation only readings that were stored, or in the hands of a  *)
(* handler past the check, are ever stored of the device, for any number of *)
(* handlers and readings.                                                   *)
THEOREM RevocationsHold == Spec => []RevocationTakesHold
  <1>1. Init => LetInInv
    BY DEF Init, LetInInv
  <1>2. LetInInv => RevocationTakesHold
    BY DEF LetInInv, RevocationTakesHold
  <1>. QED
    BY <1>1, <1>2, LetInStep, TypeInvariant, PTL DEF Spec

=============================================================================
