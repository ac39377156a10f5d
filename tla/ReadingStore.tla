---------------------------- MODULE ReadingStore ----------------------------
(***************************************************************************)
(* What the ingestion pipeline promises, with no mention of handlers,      *)
(* statements or failures: a store of readings that only registered        *)
(* devices appear in, at most one reading for a device and a timestamp,    *)
(* nothing ever rewritten, and per device a high-water mark that only      *)
(* moves forward and only onto the timestamp of a reading already stored.  *)
(* Ingestion.tla is shown to implement it.                                 *)
(***************************************************************************)
EXTENDS Naturals

CONSTANTS Device,      \* devices.device_id
          Timestamp,   \* telemetry.ts, positive; 0 stands for NULL
          Energy       \* telemetry.energy_kwh_total

VARIABLES admitted,    \* devices the registry knows
          store,       \* set of readings
          mark         \* mark[d]: devices.last_seen_at, 0 for NULL

storeVars == <<admitted, store, mark>>

Stored == [dev : Device, ts : Timestamp, energy : Energy, reset : BOOLEAN]

Init ==
  /\ admitted \in SUBSET Device
  /\ store = {}
  /\ mark = [d \in Device |-> 0]

Admit(d) ==
  /\ d \notin admitted
  /\ admitted' = admitted \cup {d}
  /\ UNCHANGED <<store, mark>>

\* The first reading for a device and a timestamp is the one that stays.
Put(r) ==
  /\ r.dev \in admitted
  /\ \A s \in store : s.dev = r.dev => s.ts # r.ts
  /\ store' = store \cup {r}
  /\ UNCHANGED <<admitted, mark>>

Advance(d, t) ==
  /\ \E s \in store : s.dev = d /\ s.ts = t
  /\ mark[d] < t
  /\ mark' = [mark EXCEPT ![d] = t]
  /\ UNCHANGED <<admitted, store>>

Next ==
  \/ \E d \in Device : Admit(d)
  \/ \E r \in Stored : Put(r)
  \/ \E d \in Device, t \in Timestamp : Advance(d, t)

Spec == Init /\ [][Next]_storeVars

=============================================================================
