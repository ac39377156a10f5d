---------------------------- MODULE DeviceAdmin ----------------------------
(***************************************************************************)
(* A device's credential in its two homes: the devices table, which        *)
(* Register, RotateSecret and Revoke (internal/registry/devices.go) write, *)
(* and the dynamic-security plugin of the MQTT broker, which they sync it  *)
(* to afterwards through one admin client (internal/mqttadmin/dynsec.go).  *)
(* The client matches a response to a command by order alone, gives up     *)
(* after 10 seconds or when the HTTP request is cancelled, and keeps one   *)
(* response at most that nobody waits for.                                 *)
(*                                                                         *)
(* A secret is named by the request that generated it. The audit row each  *)
(* operation also writes is AuditChain's. What the broker and the client   *)
(* library do is external: a queue of commands, a queue of responses, and  *)
(* a connection that may be lost. When it is made again the subscription is*)
(* gone, and the library sends again, in no order, every command that the  *)
(* broker has not acknowledged (QoS 1), whether its send waits or has      *)
(* returned.                                                               *)
(***************************************************************************)
EXTENDS Naturals, Sequences, Functions

CONSTANTS
  Device,
  Request,    \* HTTP requests, each served once
  MaxFaults,  \* lost answers, failed publishings, lost connections and restarts
  None        \* no secret, no request

ASSUME DeviceAdminAssumption ==
  /\ MaxFaults \in Nat
  /\ None \notin Request
  /\ None \notin Device

VARIABLES
  secret,      \* devices.secret_hash of each device; None: no row
  revoked,     \* devices.revoked_at is set
  op,          \* what each request does, and to which device
  pc,          \* how far each request is
  reply,       \* what its caller was told
  mu,          \* who holds Client.mu
  respCh,      \* Client.respCh, a channel of capacity 1
  link,        \* the connection: "subscribed" to the response topic, "down", or "deaf"
  sent,        \* requests whose command went out on it and is not acknowledged, in order
  done,        \* how many of these the broker has carried out
  stored,      \* requests whose command the library has yet to send, again or at all
  responses,   \* sent and not yet handed to the client's handler
  broker,      \* the password of each device's dynsec client; None: no such client
  faults,      \* how many so far
  answered,    \* whose response each request took for its own
  executed,    \* requests whose command the broker carried out
  unsynced,    \* requests whose change reached the table and whose command got lost
  overlapped,  \* devices two requests were at work on at the same time
  mixed        \* devices a command of which was to be sent again beside another

admin == <<mu, respCh>>
wire == <<link, sent, done, stored, responses, mixed>>
vars == <<secret, revoked, op, pc, reply, admin, wire, broker, faults,
          answered, executed, unsynced, overlapped>>

Kind == {"register", "rotate", "revoke"}
Response == [of : Request, ok : BOOLEAN]

Init ==
  /\ secret = [d \in Device |-> None]
  /\ revoked = [d \in Device |-> FALSE]
  /\ op = [r \in Request |-> [kind |-> "register", device |-> None]]
  /\ pc = [r \in Request |-> "idle"]
  /\ reply = [r \in Request |-> "none"]
  /\ mu = None
  /\ respCh = <<>>
  /\ link = "subscribed"
  /\ sent = <<>>
  /\ done = 0
  /\ stored = {}
  /\ responses = <<>>
  /\ broker = [d \in Device |-> None]
  /\ faults = 0
  /\ answered = [r \in Request |-> None]
  /\ executed = {}
  /\ unsynced = {}
  /\ overlapped = {}
  /\ mixed = {}

InFlight(r) == pc[r] \in {"stored", "drained", "waiting"}

Return(r, what) ==
  /\ pc' = [pc EXCEPT ![r] = "returned"]
  /\ reply' = [reply EXCEPT ![r] = what]

Fault ==
  /\ faults < MaxFaults
  /\ faults' = faults + 1

-----------------------------------------------------------------------------
(* The devices table.                                                       *)

\* Mutant: INSERT ... ON CONFLICT DO UPDATE.
AcceptedUpsert(kind, d) == kind = "register" \/ secret[d] # None

(* CreateDevice wants no row (the primary key), the two UPDATEs one.         *)
Accepted(kind, d) == (kind = "register") <=> (secret[d] = None)

Row(r, kind, d) ==
  /\ op' = [op EXCEPT ![r] = [kind |-> kind, device |-> d]]
  /\ secret' = IF kind = "revoke" THEN secret ELSE [secret EXCEPT ![d] = r]
  /\ revoked' = CASE kind = "register" -> [revoked EXCEPT ![d] = FALSE]
                  [] kind = "revoke"   -> [revoked EXCEPT ![d] = TRUE]
                  [] kind = "rotate"   -> revoked
  /\ overlapped' = IF \E q \in Request : InFlight(q) /\ op[q].device = d
                   THEN overlapped \cup {d} ELSE overlapped
  /\ UNCHANGED <<admin, wire, broker, answered, executed>>

(* Register, RotateSecret or Revoke up to its statement, which takes effect. *)
Store(r, kind, d) ==
  /\ pc[r] = "idle"
  /\ Accepted(kind, d)
  /\ Row(r, kind, d)
  /\ pc' = [pc EXCEPT ![r] = "stored"]
  /\ UNCHANGED <<reply, faults, unsynced>>

(* The same, but the statement's answer does not reach the caller: an error, *)
(* and no call of the admin client.                                          *)
StoreUnanswered(r, kind, d) ==
  /\ pc[r] = "idle"
  /\ Accepted(kind, d)
  /\ Fault
  /\ Row(r, kind, d)
  /\ Return(r, "error")
  /\ unsynced' = unsynced \cup {r}

(* The statement is refused.                                                 *)
Refuse(r, kind, d) ==
  /\ pc[r] = "idle"
  /\ ~Accepted(kind, d)
  /\ op' = [op EXCEPT ![r] = [kind |-> kind, device |-> d]]
  /\ Return(r, "error")
  /\ UNCHANGED <<secret, revoked, admin, wire, broker, faults, answered, executed,
                 unsynced, overlapped>>

-----------------------------------------------------------------------------
(* Client.send.                                                             *)

\* Mutant: concurrent sends are not serialized.
LockFree(r) ==
  /\ pc[r] = "stored"
  /\ UNCHANGED mu
  /\ respCh' = <<>>
  /\ pc' = [pc EXCEPT ![r] = "drained"]
  /\ UNCHANGED <<secret, revoked, op, reply, wire, broker, faults, answered,
                 executed, unsynced, overlapped>>

(* Take mu, and throw away a response that nobody waited for.                *)
Lock(r) ==
  /\ pc[r] = "stored"
  /\ mu = None
  /\ mu' = r
  /\ respCh' = <<>>
  /\ pc' = [pc EXCEPT ![r] = "drained"]
  /\ UNCHANGED <<secret, revoked, op, reply, wire, broker, faults, answered,
                 executed, unsynced, overlapped>>

(* Devices of which two of these commands are.                               *)
Shared(set) ==
  {d \in Device : \E q, r \in set : q # r /\ op[q].device = d /\ op[r].device = d}

(* The library sends the command if there is a connection, which may bring   *)
(* it before some that are to be sent again.                                 *)
Publish(r) ==
  /\ pc[r] = "drained"
  /\ IF link = "down" THEN stored' = stored \cup {r} /\ UNCHANGED sent
                      ELSE sent' = Append(sent, r) /\ UNCHANGED stored
  /\ mixed' = mixed \cup Shared(stored \cup {r})
  /\ pc' = [pc EXCEPT ![r] = "waiting"]
  /\ UNCHANGED <<secret, revoked, op, reply, admin, link, done, responses, broker,
                 faults, answered, executed, unsynced, overlapped>>

(* The connection is lost: everything that is not acknowledged is to be sent *)
(* again. The broker may still carry out what has reached it; of the         *)
(* responses that reached the client the handler gets the first ones.        *)
Break(new) ==
  /\ link # "down"
  /\ link' = "down"
  /\ stored' = new \cup stored \cup Range(sent)
  /\ mixed' = mixed \cup Shared(stored')
  /\ \E n \in 0..Len(responses) : responses' = SubSeq(responses, 1, n)

(* The token carries an error, which send returns: the library has not taken *)
(* the command, or the connection broke when it was written, and then it may *)
(* have gone out or not.                                                     *)
PublishFails(r) ==
  /\ pc[r] = "drained"
  /\ Fault
  /\ \/ /\ UNCHANGED wire
        /\ unsynced' = unsynced \cup {r}
     \/ /\ Break({r})
        /\ sent' = Append(sent, r) \/ UNCHANGED sent
        /\ UNCHANGED <<done, unsynced>>
  /\ mu' = None
  /\ Return(r, "warned")
  /\ UNCHANGED <<secret, revoked, op, respCh, broker, answered, executed, overlapped>>

(* The next message on the response topic, whosever it is.                   *)
Receive(r) ==
  /\ pc[r] = "waiting"
  /\ respCh # <<>>
  /\ answered' = [answered EXCEPT ![r] = Head(respCh).of]
  /\ respCh' = Tail(respCh)
  /\ mu' = None
  /\ Return(r, IF Head(respCh).ok THEN "ok" ELSE "warned")
  /\ UNCHANGED <<secret, revoked, op, wire, broker, faults, executed, unsynced,
                 overlapped>>

\* Mutants: there is no time.After; a send that timed out is tried again.
GiveUpNever(r) == pc[r] = "waiting" /\ FALSE /\ UNCHANGED vars
GiveUpRetry(r) ==
  /\ pc[r] = "waiting"
  /\ mu' = None
  /\ pc' = [pc EXCEPT ![r] = "stored"]
  /\ UNCHANGED <<secret, revoked, op, reply, respCh, wire, broker, faults, answered,
                 executed, unsynced, overlapped>>

(* The HTTP request is cancelled or the 10 seconds are over. The command     *)
(* stays on its way. Register and RotateSecret return a warning, Revoke logs *)
(* one.                                                                      *)
GiveUp(r) ==
  /\ pc[r] = "waiting"
  /\ mu' = None
  /\ Return(r, "warned")
  /\ UNCHANGED <<secret, revoked, op, respCh, wire, broker, faults, answered,
                 executed, unsynced, overlapped>>

(* The subscription's handler: into respCh, or dropped if that is full.      *)
Deliver ==
  /\ responses # <<>>
  /\ respCh' = IF respCh = <<>> THEN <<Head(responses)>> ELSE respCh
  /\ responses' = Tail(responses)
  /\ UNCHANGED <<secret, revoked, op, pc, reply, mu, link, sent, done, stored,
                 mixed, broker, faults, answered, executed, unsynced, overlapped>>

-----------------------------------------------------------------------------
(* The broker and the connection to it.                                     *)

(* createClient wants no client of that name; setClientPassword and          *)
(* deleteClient want one.                                                    *)
Possible(r) == (op[r].kind = "register") <=> (broker[op[r].device] = None)

Execute ==
  LET r == sent[done + 1] IN
  /\ done < Len(sent)
  /\ done' = done + 1
  /\ IF Possible(r)
     THEN /\ broker' = [broker EXCEPT ![op[r].device] =
                          IF op[r].kind = "revoke" THEN None ELSE r]
          /\ executed' = executed \cup {r}
     ELSE UNCHANGED <<broker, executed>>
  /\ responses' = IF link = "subscribed" THEN Append(responses, [of |-> r, ok |-> Possible(r)])
                                         ELSE responses
  /\ UNCHANGED <<secret, revoked, op, pc, reply, admin, link, sent, stored, mixed, faults,
                 answered, unsynced, overlapped>>

(* PUBACKs come in the order of the commands: the library forgets the first. *)
Acknowledge ==
  /\ link # "down"
  /\ done > 0
  /\ done' = done - 1
  /\ sent' = Tail(sent)
  /\ UNCHANGED <<secret, revoked, op, pc, reply, admin, link, stored, responses, mixed,
                 broker, faults, answered, executed, unsynced, overlapped>>

Disconnect ==
  /\ Fault
  /\ Break({})
  /\ UNCHANGED <<secret, revoked, op, pc, reply, admin, sent, done, broker, answered,
                 executed, unsynced, overlapped>>

(* The session was a clean one, and nothing subscribes again: responses go   *)
(* nowhere from now on. What the broker has not read from the old connection *)
(* is gone.                                                                  *)
Reconnect ==
  /\ link = "down"
  /\ link' = "deaf"
  /\ sent' = <<>>
  /\ done' = 0
  /\ UNCHANGED <<secret, revoked, op, pc, reply, admin, stored, responses, mixed,
                 broker, faults, answered, executed, unsynced, overlapped>>

\* Mutant: what was not acknowledged is not kept.
ResendNever(r) ==
  /\ link # "down"
  /\ r \in stored
  /\ stored' = stored \ {r}
  /\ UNCHANGED <<secret, revoked, op, pc, reply, admin, link, sent, done, responses,
                 mixed, broker, faults, answered, executed, unsynced, overlapped>>

(* The library goes through its store, a map, in no order.                   *)
Resend(r) ==
  /\ link # "down"
  /\ r \in stored
  /\ stored' = stored \ {r}
  /\ sent' = Append(sent, r)
  /\ UNCHANGED <<secret, revoked, op, pc, reply, admin, link, done, responses, mixed,
                 broker, faults, answered, executed, unsynced, overlapped>>

(* The API process dies, its requests and the library's store with it, and a *)
(* new one connects.                                                         *)
Restart ==
  LET dead == {r \in Request : InFlight(r)} IN
  /\ Fault
  /\ unsynced' = unsynced \cup stored \cup {sent[i] : i \in done+1..Len(sent)}
                          \cup {r \in dead : pc[r] # "waiting"}
  /\ pc' = [r \in Request |-> IF r \in dead THEN "returned" ELSE pc[r]]
  /\ reply' = [r \in Request |-> IF r \in dead THEN "error" ELSE reply[r]]
  /\ mu' = None
  /\ respCh' = <<>>
  /\ link' = "subscribed"
  /\ sent' = <<>>
  /\ done' = 0
  /\ stored' = {}
  /\ responses' = <<>>
  /\ UNCHANGED <<secret, revoked, op, broker, answered, executed, overlapped, mixed>>

Next ==
  \/ \E r \in Request, kind \in Kind, d \in Device :
       Store(r, kind, d) \/ StoreUnanswered(r, kind, d) \/ Refuse(r, kind, d)
  \/ \E r \in Request :
       \/ Lock(r) \/ Publish(r) \/ PublishFails(r) \/ Receive(r) \/ GiveUp(r)
       \/ Resend(r)
  \/ Deliver
  \/ Execute
  \/ Acknowledge
  \/ Disconnect
  \/ Reconnect
  \/ Restart

Spec == Init /\ [][Next]_vars

(* Goroutines run, a sync.Mutex that stays free is taken, and a timer fires. *)
(* Nothing is asked of the broker or of the connection.                      *)
Fairness ==
  \A r \in Request : WF_vars(Lock(r) \/ Publish(r) \/ Receive(r) \/ GiveUp(r))

FairSpec == Spec /\ Fairness

-----------------------------------------------------------------------------
(* Properties.                                                              *)

(* Types; respCh holds one response at most.                                *)
TypeOK ==
  /\ secret \in [Device -> Request \cup {None}]
  /\ revoked \in [Device -> BOOLEAN]
  /\ op \in [Request -> [kind : Kind, device : Device \cup {None}]]
  /\ pc \in [Request -> {"idle", "stored", "drained", "waiting", "returned"}]
  /\ reply \in [Request -> {"none", "ok", "warned", "error"}]
  /\ mu \in Request \cup {None}
  /\ respCh \in Seq(Response) /\ Len(respCh) <= 1
  /\ link \in {"subscribed", "down", "deaf"}
  /\ sent \in Seq(Request) /\ done \in 0..Len(sent)
  /\ stored \in SUBSET Request
  /\ responses \in Seq(Response)
  /\ broker \in [Device -> Request \cup {None}]
  /\ faults \in 0..MaxFaults
  /\ answered \in [Request -> Request \cup {None}]
  /\ executed \in SUBSET Request
  /\ unsynced \in SUBSET Request
  /\ overlapped \in SUBSET Device
  /\ mixed \in SUBSET Device

(* send takes another send's response for its own only if that one waits no  *)
(* more, and none serves two sends, though commands may be carried out twice.*)
(* (Its comment promises that the next message is the publish's own response,*)
(* which it is not when a send gave up before.)                              *)
NothingStolen ==
  \A r \in Request :
    LET q == answered[r] IN
    q \notin {None, r} => pc[q] = "returned" /\ \A s \in Request \ {r} : answered[s] # q

AtRest == done = Len(sent) /\ stored = {} /\ \A r \in Request : ~InFlight(r)

(* At rest a device has the same credential in both homes, and none at the   *)
(* broker when it is revoked, unless two requests were at work on it at once,*)
(* the process died with a command of it to be carried out, or one was to be *)
(* sent again beside another: timeouts, cancellations, responses taken for   *)
(* another's, outages and commands carried out twice change nothing about it.*)
CredentialsAgree ==
  AtRest =>
    \A d \in Device \ (overlapped \cup mixed) :
      (\A r \in unsynced : op[r].device # d) =>
        broker[d] = IF revoked[d] THEN None ELSE secret[d]

(* Once the broker has deleted a device's client there is never one again,   *)
(* whatever overlaps, times out or gets lost, unless another of the device's *)
(* commands was to be sent again beside it: then the createClient of its     *)
(* registration may come after the deleteClient. (DeleteDevice promises that *)
(* the identity is gone for good.)                                           *)
DeletedForGood ==
  \A r \in executed :
    op[r].kind = "revoke" /\ op[r].device \notin mixed => broker[op[r].device] = None

(* Whatever waits for the lock or for a response comes to an end, connection *)
(* or not: time and again no request is left that has no reply.              *)
RequestsReturn == []<>(\A r \in Request : ~InFlight(r))

=============================================================================
