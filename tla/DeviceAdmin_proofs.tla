------------------------- MODULE DeviceAdmin_proofs -------------------------
(***************************************************************************)
(* Proofs about DeviceAdmin: types, what the one admin client of the       *)
(* broker owes to its lock, what a deleted client could come back from,    *)
(* and that the table and the broker agree.                                *)
(***************************************************************************)
EXTENDS DeviceAdmin, TLAPS

Tables ==
  /\ secret \in [Device -> Request \cup {None}]
  /\ revoked \in [Device -> BOOLEAN]
  /\ op \in [Request -> [kind : Kind, device : Device \cup {None}]]
  /\ overlapped \in SUBSET Device

Progress ==
  /\ pc \in [Request -> {"idle", "stored", "drained", "waiting", "returned"}]
  /\ reply \in [Request -> {"none", "ok", "warned", "error"}]
  /\ mu \in Request \cup {None}
  /\ answered \in [Request -> Request \cup {None}]

Answers ==
  /\ respCh \in Seq(Response) /\ Len(respCh) <= 1
  /\ responses \in Seq(Response)

Lane ==
  /\ link \in {"subscribed", "down", "deaf"}
  /\ sent \in Seq(Request) /\ done \in 0..Len(sent)
  /\ stored \in SUBSET Request
  /\ mixed \in SUBSET Device

Outcome ==
  /\ broker \in [Device -> Request \cup {None}]
  /\ faults \in 0..MaxFaults
  /\ executed \in SUBSET Request
  /\ unsynced \in SUBSET Request

lane == <<link, sent, done, stored, mixed>>

(* What is at the front of a queue, and what is left without it.           *)
LEMMA Front ==
  ASSUME NEW S, NEW q \in Seq(S), q # <<>>
  PROVE  Head(q) \in S /\ Tail(q) \in Seq(S) /\ Len(Tail(q)) = Len(q) - 1
OBVIOUS

(* What a queue holds with one more at its back, one less at its front, or *)
(* cut.                                                                    *)
LEMMA Queues ==
  ASSUME NEW S, NEW q \in Seq(S), NEW x \in S
  PROVE  /\ Append(q, x) \in Seq(S)
         /\ Len(Append(q, x)) = Len(q) + 1 /\ Append(q, x)[Len(q) + 1] = x
         /\ \A i \in 1..Len(q) : Append(q, x)[i] = q[i]
         /\ q # <<>> => /\ Len(q) \in Nat \ {0} /\ Len(Tail(q)) = Len(q) - 1 /\ Head(q) = q[1]
                        /\ \A i \in 1..Len(q) - 1 : Tail(q)[i] = q[i + 1]
         /\ \A n \in 0..Len(q) :
              /\ SubSeq(q, 1, n) \in Seq(S)
              /\ Len(SubSeq(q, 1, n)) = n /\ \A i \in 1..n : SubSeq(q, 1, n)[i] = q[i]
OBVIOUS

LEMMA Members ==
  ASSUME NEW S, NEW q \in Seq(S)
  PROVE  /\ Len(q) \in Nat
         /\ \A x : x \in Range(q) <=> \E i \in 1..Len(q) : q[i] = x
         /\ Range(q) \subseteq S
<1>1. DOMAIN q = 1..Len(q) /\ Len(q) \in Nat /\ \A i \in 1..Len(q) : q[i] \in S
  OBVIOUS
<1>. QED
  BY <1>1 DEF Range

(***************************************************************************)
(* Types.                                                                  *)
(***************************************************************************)

(* The steps by what they do to the wire: nothing but answers; a command   *)
(* that goes out, or is kept for later; a broken connection; one command   *)
(* carried out, or acknowledged; a new connection; a command sent again;   *)
(* a new process.                                                          *)
Adds(r) ==
  /\ link # "down" /\ sent' = Append(sent, r) /\ mixed' = mixed \cup Shared(stored \cup {r})
  /\ UNCHANGED <<link, done, stored>>

Keeps(r) ==
  /\ link = "down" /\ stored' = stored \cup {r} /\ mixed' = mixed \cup Shared(stored \cup {r})
  /\ UNCHANGED <<link, sent, done>>

Breaks(new) ==
  /\ link # "down" /\ link' = "down" /\ done' = done
  /\ sent' = sent \/ \E r \in new : sent' = Append(sent, r)
  /\ stored' = new \cup stored \cup Range(sent)
  /\ mixed' = mixed \cup Shared(stored')

Carries == done < Len(sent) /\ done' = done + 1 /\ UNCHANGED <<link, sent, stored, mixed>>

Forgets == link # "down" /\ done > 0 /\ done' = done - 1 /\ sent' = Tail(sent) /\ UNCHANGED <<link, stored, mixed>>

Connects == link = "down" /\ link' = "deaf" /\ sent' = <<>> /\ done' = 0 /\ UNCHANGED <<stored, mixed>>

Repeats(r) ==
  /\ link # "down" /\ r \in stored /\ stored' = stored \ {r} /\ sent' = Append(sent, r)
  /\ UNCHANGED <<link, done, mixed>>

Clears == link' = "subscribed" /\ sent' = <<>> /\ done' = 0 /\ stored' = {} /\ mixed' = mixed

LEMMA LaneSteps ==
  ASSUME Next
  PROVE  \/ UNCHANGED lane
         \/ \E r \in Request : /\ Publish(r) /\ pc[r] = "drained" /\ UNCHANGED <<op, broker, executed>>
                               /\ Adds(r) \/ Keeps(r)
         \/ \E r \in Request : /\ PublishFails(r) /\ pc[r] = "drained" /\ UNCHANGED <<op, broker, executed>>
                               /\ Breaks({r})
         \/ Disconnect /\ Breaks({}) /\ UNCHANGED <<op, pc, broker, executed>>
         \/ Execute /\ Carries /\ UNCHANGED <<op, pc>>
         \/ Acknowledge /\ Forgets /\ UNCHANGED <<op, pc, broker, executed>>
         \/ Reconnect /\ Connects /\ UNCHANGED <<op, pc, broker, executed>>
         \/ \E r \in Request : Resend(r) /\ Repeats(r) /\ UNCHANGED <<op, pc, broker, executed>>
         \/ Restart /\ Clears /\ UNCHANGED <<op, broker, executed>>
<1>1. ASSUME NEW r \in Request, NEW kind \in Kind, NEW d \in Device,
             Store(r, kind, d) \/ StoreUnanswered(r, kind, d) \/ Refuse(r, kind, d)
      PROVE  UNCHANGED lane
  BY <1>1 DEF Store, StoreUnanswered, Refuse, Row, wire, lane
<1>2. ASSUME NEW r \in Request, Lock(r) \/ Receive(r) \/ GiveUp(r)
      PROVE  UNCHANGED lane
  BY <1>2 DEF Lock, Receive, GiveUp, wire, lane
<1>3. ASSUME NEW r \in Request, Publish(r)
      PROVE  /\ pc[r] = "drained" /\ UNCHANGED <<op, broker, executed>>
             /\ Adds(r) \/ Keeps(r)
  BY <1>3 DEF Publish, Adds, Keeps
<1>4. ASSUME NEW r \in Request, PublishFails(r)
      PROVE  /\ pc[r] = "drained" /\ UNCHANGED <<op, broker, executed>>
             /\ Breaks({r}) \/ UNCHANGED lane
  BY <1>4 DEF PublishFails, Breaks, Break, wire, lane
<1>5. ASSUME Disconnect
      PROVE  Breaks({}) /\ UNCHANGED <<op, pc, broker, executed>>
  BY <1>5 DEF Disconnect, Breaks, Break
<1>6. ASSUME Execute
      PROVE  Carries /\ UNCHANGED <<op, pc>>
  BY <1>6 DEF Execute, Carries
<1>7. ASSUME Acknowledge
      PROVE  Forgets /\ UNCHANGED <<op, pc, broker, executed>>
  BY <1>7 DEF Acknowledge, Forgets
<1>8. ASSUME Reconnect
      PROVE  Connects /\ UNCHANGED <<op, pc, broker, executed>>
  BY <1>8 DEF Reconnect, Connects
<1>9. ASSUME NEW r \in Request, Resend(r)
      PROVE  Repeats(r) /\ UNCHANGED <<op, pc, broker, executed>>
  BY <1>9 DEF Resend, Repeats
<1>10. ASSUME Restart
       PROVE  Clears /\ UNCHANGED <<op, broker, executed>>
  BY <1>10 DEF Restart, Clears
<1>11. Deliver => UNCHANGED lane
  BY DEF Deliver, lane
<1>. QED
  BY <1>1, <1>2, <1>3, <1>4, <1>5, <1>6, <1>7, <1>8, <1>9, <1>10, <1>11 DEF Next

LEMMA TablesStep ==
  ASSUME TypeOK, Next
  PROVE  Tables'
<1>. USE DEF TypeOK, Tables
<1>1. ASSUME NEW r \in Request, NEW kind \in Kind, NEW d \in Device, Row(r, kind, d)
      PROVE  Tables'
  BY <1>1 DEF Row, Kind
<1>2. ASSUME NEW r \in Request, NEW kind \in Kind, NEW d \in Device, Refuse(r, kind, d)
      PROVE  Tables'
  BY <1>2 DEF Refuse
<1>3. CASE UNCHANGED <<secret, revoked, op, overlapped>>
  BY <1>3
<1>4. ASSUME NEW r \in Request, Lock(r) \/ Publish(r) \/ PublishFails(r) \/ Receive(r) \/ GiveUp(r) \/ Resend(r)
      PROVE  UNCHANGED <<secret, revoked, op, overlapped>>
  BY <1>4 DEF Lock, Publish, PublishFails, Receive, GiveUp, Resend
<1>5. ASSUME Deliver \/ Execute \/ Acknowledge \/ Disconnect \/ Reconnect \/ Restart
      PROVE  UNCHANGED <<secret, revoked, op, overlapped>>
  BY <1>5 DEF Deliver, Execute, Acknowledge, Disconnect, Reconnect, Restart
<1>. HIDE DEF Tables, TypeOK
<1>. QED
  BY <1>1, <1>2, <1>3, <1>4, <1>5 DEF Next, Store, StoreUnanswered

LEMMA ProgressStep ==
  ASSUME TypeOK, Next
  PROVE  Progress'
<1>. USE DEF TypeOK, Progress
<1>1. ASSUME NEW r \in Request, NEW kind \in Kind, NEW d \in Device,
             Store(r, kind, d) \/ StoreUnanswered(r, kind, d) \/ Refuse(r, kind, d)
      PROVE  Progress'
  BY <1>1 DEF Store, StoreUnanswered, Refuse, Row, Return, admin
<1>2. ASSUME NEW r \in Request, Lock(r) \/ Publish(r) \/ PublishFails(r) \/ GiveUp(r) \/ Resend(r)
      PROVE  Progress'
  BY <1>2 DEF Lock, Publish, PublishFails, GiveUp, Resend, Return, admin
<1>3. ASSUME NEW r \in Request, Receive(r)
      PROVE  Progress'
  <2>1. Head(respCh) \in Response
    BY <1>3, Front DEF Receive
  <2>2. Head(respCh).of \in Request
    BY <2>1 DEF Response
  <2>. QED
    BY <1>3, <2>2 DEF Receive, Return
<1>4. ASSUME Deliver \/ Execute \/ Acknowledge \/ Disconnect \/ Reconnect
      PROVE  Progress'
  BY <1>4 DEF Deliver, Execute, Acknowledge, Disconnect, Reconnect, admin
<1>5. CASE Restart
  BY <1>5 DEF Restart
<1>. HIDE DEF Progress, TypeOK
<1>. QED
  BY <1>1, <1>2, <1>3, <1>4, <1>5 DEF Next

LEMMA LaneStep ==
  ASSUME TypeOK, Next
  PROVE  Lane'
<1>0. /\ link \in {"subscribed", "down", "deaf"} /\ sent \in Seq(Request) /\ done \in 0..Len(sent)
      /\ Len(sent) \in Nat /\ stored \in SUBSET Request /\ mixed \in SUBSET Device
  BY DEF TypeOK
<1>1. \A set : Shared(set) \subseteq Device
  BY DEF Shared
<1>2. CASE UNCHANGED lane
  BY <1>0, <1>2 DEF lane, Lane
<1>3. ASSUME NEW r \in Request, Adds(r) \/ Keeps(r)
      PROVE  Lane'
  <2>1. Append(sent, r) \in Seq(Request) /\ Len(Append(sent, r)) = Len(sent) + 1
    BY <1>0, Queues
  <2>. QED
    BY <1>0, <1>1, <1>3, <2>1 DEF Adds, Keeps, Lane
<1>4. ASSUME NEW new \in SUBSET Request, Breaks(new)
      PROVE  Lane'
  <2>1. sent' \in Seq(Request) /\ Len(sent') \in {Len(sent), Len(sent) + 1}
    BY <1>0, <1>4, Queues DEF Breaks
  <2>2. Range(sent) \subseteq Request
    BY <1>0, Members
  <2>. QED
    BY <1>0, <1>1, <1>4, <2>1, <2>2 DEF Breaks, Lane
<1>5. CASE Carries
  BY <1>0, <1>5 DEF Carries, Lane
<1>6. CASE Forgets
  <2>1. sent # <<>>
    BY <1>0, <1>6 DEF Forgets
  <2>2. Tail(sent) \in Seq(Request) /\ Len(Tail(sent)) = Len(sent) - 1
    BY <1>0, <2>1, Front
  <2>. QED
    BY <1>0, <1>6, <2>2 DEF Forgets, Lane
<1>7. CASE Connects \/ Clears
  <2>1. sent' = <<>> /\ done' = 0 /\ mixed' = mixed /\ stored' \in {stored, {}} /\ link' \in {"deaf", "subscribed"}
    BY <1>7 DEF Connects, Clears
  <2>2. sent' \in Seq(Request) /\ done' \in 0..Len(sent')
    BY <2>1
  <2>. QED
    BY <1>0, <2>1, <2>2 DEF Lane
<1>8. ASSUME NEW r \in Request, Repeats(r)
      PROVE  Lane'
  <2>1. Append(sent, r) \in Seq(Request) /\ Len(Append(sent, r)) = Len(sent) + 1
    BY <1>0, Queues
  <2>. QED
    BY <1>0, <1>8, <2>1 DEF Repeats, Lane
<1>. QED
  BY <1>2, <1>3, <1>4, <1>5, <1>6, <1>7, <1>8, LaneSteps

LEMMA AnswersStep ==
  ASSUME TypeOK, Next
  PROVE  Answers'
<1>. USE DEF TypeOK, Answers
<1>1. CASE UNCHANGED <<respCh, responses>>
  BY <1>1
<1>2. ASSUME NEW r \in Request, NEW kind \in Kind, NEW d \in Device,
             Store(r, kind, d) \/ StoreUnanswered(r, kind, d) \/ Refuse(r, kind, d)
      PROVE  UNCHANGED <<respCh, responses>>
  BY <1>2 DEF Store, StoreUnanswered, Refuse, Row, admin, wire
<1>3. ASSUME NEW r \in Request, Lock(r)
      PROVE  Answers'
  BY <1>3 DEF Lock, wire
<1>4. ASSUME NEW r \in Request, Publish(r) \/ GiveUp(r) \/ Resend(r)
      PROVE  UNCHANGED <<respCh, responses>>
  BY <1>4 DEF Publish, GiveUp, Resend, admin, wire
<1>5. ASSUME NEW n \in 0..Len(responses), responses' = SubSeq(responses, 1, n), respCh' = respCh
      PROVE  Answers'
  BY <1>5
<1>6. ASSUME NEW r \in Request, PublishFails(r)
      PROVE  Answers'
  BY <1>1, <1>5, <1>6 DEF PublishFails, Break, wire
<1>7. ASSUME NEW r \in Request, Receive(r)
      PROVE  Answers'
  <2>1. respCh' \in Seq(Response) /\ Len(respCh') <= 1
    BY <1>7, Front DEF Receive
  <2>. QED
    BY <1>7, <2>1 DEF Receive, wire
<1>8. CASE Deliver
  <2>1. Head(responses) \in Response /\ responses' \in Seq(Response)
    BY <1>8, Front DEF Deliver
  <2>2. respCh' \in Seq(Response) /\ Len(respCh') <= 1
    BY <1>8, <2>1 DEF Deliver
  <2>. QED
    BY <1>8, <2>1, <2>2 DEF Deliver
<1>9. CASE Execute
  <2>1. sent[done + 1] \in Request
    BY <1>9 DEF Execute
  <2>2. [of |-> sent[done + 1], ok |-> Possible(sent[done + 1])] \in Response
    BY <2>1 DEF Response, Possible
  <2>3. responses' \in Seq(Response)
    BY <1>9, <2>2 DEF Execute
  <2>. QED
    BY <1>9, <2>3 DEF Execute, admin
<1>10. CASE Acknowledge \/ Reconnect
  BY <1>1, <1>10 DEF Acknowledge, Reconnect, admin
<1>11. CASE Disconnect
  BY <1>5, <1>11 DEF Disconnect, Break, admin
<1>12. CASE Restart
  BY <1>12 DEF Restart
<1>. HIDE DEF Answers, TypeOK
<1>. QED
  BY <1>1, <1>2, <1>3, <1>4, <1>6, <1>7, <1>8, <1>9, <1>10, <1>11, <1>12 DEF Next

LEMMA OutcomeStep ==
  ASSUME TypeOK, Next
  PROVE  Outcome'
<1>. USE DEF TypeOK, Outcome
<1>0. MaxFaults \in Nat
  BY DeviceAdminAssumption
<1>1. ASSUME NEW r \in Request, NEW kind \in Kind, NEW d \in Device,
             Store(r, kind, d) \/ StoreUnanswered(r, kind, d) \/ Refuse(r, kind, d)
      PROVE  Outcome'
  BY <1>0, <1>1 DEF Store, StoreUnanswered, Refuse, Row, Fault
<1>2. ASSUME NEW r \in Request, Lock(r) \/ Publish(r) \/ PublishFails(r) \/ Receive(r) \/ GiveUp(r) \/ Resend(r)
      PROVE  Outcome'
  BY <1>0, <1>2 DEF Lock, Publish, PublishFails, Receive, GiveUp, Resend, Fault
<1>3. CASE Deliver \/ Acknowledge \/ Disconnect \/ Reconnect
  BY <1>0, <1>3 DEF Deliver, Acknowledge, Disconnect, Reconnect, Fault
<1>4. CASE Execute
  <2>1. sent[done + 1] \in Request
    BY <1>4 DEF Execute
  <2>. QED
    BY <1>4, <2>1 DEF Execute
<1>5. CASE Restart
  <2>1. {sent[i] : i \in done+1..Len(sent)} \subseteq Request
    OBVIOUS
  <2>. QED
    BY <1>0, <1>5, <2>1 DEF Restart, Fault
<1>. HIDE DEF Outcome, TypeOK
<1>. QED
  BY <1>1, <1>2, <1>3, <1>4, <1>5 DEF Next

LEMMA TypeStep == TypeOK /\ [Next]_vars => TypeOK'
<1>1. ASSUME TypeOK, UNCHANGED vars PROVE TypeOK'
  BY <1>1 DEF vars, admin, wire, TypeOK
<1>2. ASSUME TypeOK, Next PROVE TypeOK'
  <2>1. Tables' /\ Progress' /\ Answers' /\ Lane' /\ Outcome'
    BY <1>2, TablesStep, ProgressStep, AnswersStep, LaneStep, OutcomeStep
  <2>. QED
    BY <2>1 DEF TypeOK, Tables, Progress, Answers, Lane, Outcome
<1>. QED
  BY <1>1, <1>2

LEMMA TypeInit == Init => TypeOK
<1>1. 0 \in 0..MaxFaults
  BY DeviceAdminAssumption
<1>2. /\ <<>> \in Seq(Response) /\ Len(<<>>) = 0
      /\ <<>> \in Seq(Request)
  OBVIOUS
<1>. QED
  BY <1>1, <1>2 DEF Init, TypeOK, Kind

(* The table, the client, the queues and the broker keep their types, and  *)
(* respCh never holds more than its capacity of one.                       *)
THEOREM AdminTypeCorrect == FairSpec => []TypeOK
BY TypeInit, TypeStep, PTL DEF FairSpec, Spec

(***************************************************************************)
(* The lock, and where a request's command and response can be.            *)
(***************************************************************************)

Sending(r) == pc[r] \in {"drained", "waiting"}

Exclusive == \A r \in Request : Sending(r) => mu = r

Sent(q) == \E i \in 1..Len(sent) : sent[i] = q
Commanded(q) == \E i \in done+1..Len(sent) : sent[i] = q
OnWay(q) == q \in stored \/ Sent(q)
Responded(q) == \E i \in 1..Len(responses) : responses[i].of = q
Kept(q) == respCh # <<>> /\ respCh[1].of = q
Taken(q) == \E s \in Request : answered[s] = q

(* Before its command is published a request is nowhere.                   *)
Nowhere(q) == ~OnWay(q) /\ ~Responded(q) /\ ~Kept(q) /\ ~Taken(q)

NotYet == \A r \in Request : pc[r] \in {"idle", "stored", "drained"} => Nowhere(r)

(* What is to be sent again was sent over a lost connection, and over the  *)
(* present one nothing is sent twice.                                      *)
Lanes ==
  /\ link = "subscribed" => stored = {}
  /\ link = "down" => \A i \in 1..Len(sent) : sent[i] \in stored
  /\ link # "down" => \A i \in 1..Len(sent) : sent[i] \notin stored
  /\ \A i, j \in 1..Len(sent) : sent[i] = sent[j] => i = j

(* There are responses while the client is subscribed, hence only over the *)
(* first connection: a request's is in one place at a time.                *)
Single(q) ==
  /\ \A i, j \in 1..Len(responses) : responses[i].of = q /\ responses[j].of = q => i = j
  /\ link = "subscribed" /\ Commanded(q) => ~Responded(q) /\ ~Kept(q) /\ ~Taken(q)
  /\ Responded(q) => ~Kept(q) /\ ~Taken(q)
  /\ Kept(q) => ~Taken(q)
  /\ \A s, t \in Request : answered[s] = q /\ answered[t] = q => s = t

Once == \A q \in Request : Single(q)

Stale == \A r \in Request : answered[r] \notin {None, r} => pc[answered[r]] = "returned"

IInv == TypeOK /\ Exclusive /\ NotYet /\ Lanes /\ Once /\ Stale

LEMMA ExclusiveStep ==
  ASSUME TypeOK, Exclusive, Next
  PROVE  Exclusive'
<1>. USE DEF TypeOK, Exclusive, Sending
<1>1. ASSUME NEW r \in Request, NEW kind \in Kind, NEW d \in Device,
             Store(r, kind, d) \/ StoreUnanswered(r, kind, d) \/ Refuse(r, kind, d)
      PROVE  Exclusive'
  BY <1>1 DEF Store, StoreUnanswered, Refuse, Row, Return, admin
<1>2. ASSUME NEW r \in Request, Lock(r)
      PROVE  Exclusive'
  BY <1>2, DeviceAdminAssumption DEF Lock
<1>3. ASSUME NEW r \in Request, Publish(r)
      PROVE  Exclusive'
  BY <1>3 DEF Publish, admin
<1>4. ASSUME NEW r \in Request, PublishFails(r) \/ Receive(r) \/ GiveUp(r)
      PROVE  Exclusive'
  BY <1>4 DEF PublishFails, Receive, GiveUp, Return
<1>5. ASSUME Deliver \/ Execute \/ Acknowledge \/ Disconnect \/ Reconnect \/ \E r \in Request : Resend(r)
      PROVE  Exclusive'
  BY <1>5 DEF Deliver, Execute, Acknowledge, Disconnect, Reconnect, Resend, admin
<1>6. CASE Restart
  BY <1>6 DEF Restart, InFlight
<1>. HIDE DEF TypeOK, Exclusive
<1>. QED
  BY <1>1, <1>2, <1>3, <1>4, <1>5, <1>6 DEF Next

(* Who takes a response that is not its own takes it from one that has     *)
(* returned.                                                               *)
LEMMA StaleStep ==
  ASSUME TypeOK, Exclusive, NotYet, Stale, Next
  PROVE  Stale'
<1>. USE DEF TypeOK, Stale
<1>1. ASSUME NEW r \in Request, Receive(r)
      PROVE  Stale'
  <2>. DEFINE q == Head(respCh).of
  <2>1. q \in Request /\ Kept(q)
    <3>1. respCh \in Seq(Response) /\ respCh # <<>>
      BY <1>1 DEF Receive
    <3>2. Head(respCh) \in Response /\ Head(respCh) = respCh[1]
      BY <3>1
    <3>. QED
      BY <3>1, <3>2 DEF Response, Kept
  <2>2. q # r => pc[q] = "returned"
    BY <1>1, <2>1 DEF Receive, NotYet, Nowhere, Exclusive, Sending
  <2>3. answered' = [answered EXCEPT ![r] = q] /\ pc' = [pc EXCEPT ![r] = "returned"]
    BY <1>1 DEF Receive, Return
  <2>. HIDE DEF q
  <2>. QED
    BY <2>1, <2>2, <2>3
<1>2. ASSUME answered' = answered, \A r \in Request : pc[r] = "returned" => pc'[r] = "returned"
      PROVE  Stale'
  BY <1>2
<1>3. ASSUME NEW r \in Request, NEW kind \in Kind, NEW d \in Device,
             Store(r, kind, d) \/ StoreUnanswered(r, kind, d) \/ Refuse(r, kind, d)
      PROVE  answered' = answered /\ \A s \in Request : pc[s] = "returned" => pc'[s] = "returned"
  BY <1>3 DEF Store, StoreUnanswered, Refuse, Row, Return
<1>4. ASSUME NEW r \in Request, Lock(r) \/ Publish(r) \/ PublishFails(r) \/ GiveUp(r) \/ Resend(r)
      PROVE  answered' = answered /\ \A s \in Request : pc[s] = "returned" => pc'[s] = "returned"
  BY <1>4 DEF Lock, Publish, PublishFails, GiveUp, Resend, Return
<1>5. ASSUME Deliver \/ Execute \/ Acknowledge \/ Disconnect \/ Reconnect \/ Restart
      PROVE  answered' = answered /\ \A s \in Request : pc[s] = "returned" => pc'[s] = "returned"
  BY <1>5 DEF Deliver, Execute, Acknowledge, Disconnect, Reconnect, Restart, InFlight
<1>. HIDE DEF TypeOK, Stale
<1>. QED
  BY <1>1, <1>2, <1>3, <1>4, <1>5 DEF Next

(* What is sent after a step: what was, shifted by an acknowledgement, or  *)
(* that and a command at the end.                                          *)
LEMMA SentStep ==
  ASSUME TypeOK
  PROVE  /\ Len(sent) \in Nat /\ done \in 0..Len(sent) /\ \A i \in 1..Len(sent) : sent[i] \in Request
         /\ \A r \in Request : sent' = Append(sent, r) =>
              /\ Len(sent') = Len(sent) + 1 /\ sent'[Len(sent) + 1] = r
              /\ \A i \in 1..Len(sent) : sent'[i] = sent[i]
         /\ Forgets => /\ done \in 1..Len(sent) /\ Len(sent') = Len(sent) - 1
                       /\ \A i \in 1..Len(sent') : i + 1 \in 2..Len(sent) /\ sent'[i] = sent[i + 1]
         /\ Connects \/ Clears => Len(sent') = 0
         /\ \A x : x \in Range(sent) <=> Sent(x)
<1>0. sent \in Seq(Request) /\ done \in 0..Len(sent)
  BY DEF TypeOK
<1>1. Len(sent) \in Nat /\ done \in 0..Len(sent) /\ \A i \in 1..Len(sent) : sent[i] \in Request
  BY <1>0
<1>2. \A r \in Request : sent' = Append(sent, r) =>
        /\ Len(sent') = Len(sent) + 1 /\ sent'[Len(sent) + 1] = r
        /\ \A i \in 1..Len(sent) : sent'[i] = sent[i]
  BY <1>0, Queues
<1>3. ASSUME Forgets
      PROVE  /\ done \in 1..Len(sent) /\ Len(sent') = Len(sent) - 1
             /\ \A i \in 1..Len(sent') : i + 1 \in 2..Len(sent) /\ sent'[i] = sent[i + 1]
  <2>1. sent # <<>> /\ sent' = Tail(sent) /\ done \in 1..Len(sent)
    BY <1>0, <1>3 DEF Forgets
  <2>. QED
    BY <1>0, <2>1
<1>4. Connects \/ Clears => Len(sent') = 0
  BY DEF Connects, Clears
<1>5. \A x : x \in Range(sent) <=> Sent(x)
  BY <1>0, Members DEF Sent
<1>. QED
  BY <1>1, <1>2, <1>3, <1>4, <1>5

(* A command comes on its way by being published.                          *)
LEMMA OnWayStep ==
  ASSUME TypeOK, Next, NEW q \in Request, OnWay(q)'
  PROVE  OnWay(q) \/ (pc[q] = "drained" /\ (Publish(q) \/ PublishFails(q)))
<1>1. \A r \in Request : sent' = Append(sent, r) /\ Sent(q)' => Sent(q) \/ q = r
  BY SentStep DEF Sent
<1>2. CASE UNCHANGED lane
  BY <1>2 DEF lane, OnWay, Sent
<1>3. ASSUME NEW r \in Request, pc[r] = "drained", Publish(r) \/ PublishFails(r), Adds(r) \/ Keeps(r)
      PROVE  OnWay(q) \/ (pc[q] = "drained" /\ (Publish(q) \/ PublishFails(q)))
  BY <1>1, <1>3 DEF Adds, Keeps, OnWay, Sent
<1>4. ASSUME NEW r \in Request, pc[r] = "drained", PublishFails(r), Breaks({r})
      PROVE  OnWay(q) \/ (pc[q] = "drained" /\ (Publish(q) \/ PublishFails(q)))
  <2>1. sent' = sent => (Sent(q)' => Sent(q))
    BY DEF Sent
  <2>2. q \in stored' => OnWay(q) \/ q = r
    BY <1>4, SentStep DEF Breaks, OnWay
  <2>. QED
    BY <1>1, <1>4, <2>1, <2>2 DEF Breaks, OnWay
<1>5. CASE Breaks({})
  BY <1>5, SentStep DEF Breaks, OnWay, Sent
<1>6. CASE Carries
  BY <1>6 DEF Carries, OnWay, Sent
<1>7. CASE Forgets
  <2>1. Sent(q)' => Sent(q)
    <3>1. \A i \in 2..Len(sent) : i \in 1..Len(sent)
      BY SentStep
    <3>. QED
      BY <1>7, <3>1, SentStep DEF Sent
  <2>. QED
    BY <1>7, <2>1 DEF Forgets, OnWay
<1>8. CASE Connects \/ Clears
  <2>1. ~Sent(q)'
    BY <1>8, SentStep DEF Sent
  <2>. QED
    BY <1>8, <2>1 DEF Connects, Clears, OnWay
<1>9. ASSUME NEW r \in Request, Repeats(r)
      PROVE  OnWay(q)
  BY <1>1, <1>9 DEF Repeats, OnWay
<1>. QED
  BY <1>2, <1>3, <1>4, <1>5, <1>6, <1>7, <1>8, <1>9, LaneSteps

LEMMA LanesStep ==
  ASSUME TypeOK, NotYet, Lanes, Next
  PROVE  Lanes'
<1>0. /\ Len(sent) \in Nat /\ done \in 0..Len(sent) /\ \A i \in 1..Len(sent) : sent[i] \in Request
      /\ link \in {"subscribed", "down", "deaf"}
  BY SentStep DEF TypeOK
<1>1. ASSUME NEW r \in Request, sent' = Append(sent, r), ~Sent(r)
      PROVE  \A i, j \in 1..Len(sent') : sent'[i] = sent'[j] => i = j
  <2>1. /\ Len(sent') = Len(sent) + 1 /\ sent'[Len(sent) + 1] = r
        /\ \A i \in 1..Len(sent) : sent'[i] = sent[i] /\ sent[i] # r
    BY <1>1, SentStep DEF Sent
  <2>. QED
    BY <1>0, <2>1 DEF Lanes
<1>2. \A r \in Request : pc[r] = "drained" => ~Sent(r) /\ r \notin stored
  BY DEF NotYet, Nowhere, OnWay
<1>3. CASE UNCHANGED lane
  BY <1>3 DEF lane, Lanes
<1>4. ASSUME NEW r \in Request, pc[r] = "drained", Adds(r)
      PROVE  Lanes'
  <2>1. \A i \in 1..Len(sent') : sent'[i] \notin stored'
    BY <1>0, <1>2, <1>4, SentStep DEF Adds, Lanes
  <2>. QED
    BY <1>1, <1>2, <1>4, <2>1 DEF Adds, Lanes
<1>5. ASSUME NEW r \in Request, Keeps(r)
      PROVE  Lanes'
  BY <1>5 DEF Keeps, Lanes
<1>6. ASSUME NEW new, new = {} \/ \E r \in Request : new = {r} /\ pc[r] = "drained", Breaks(new)
      PROVE  Lanes'
  <2>1. CASE sent' = sent
    BY <1>6, <2>1, SentStep DEF Breaks, Lanes, Sent
  <2>2. CASE sent' # sent
    <3>1. PICK r \in Request : new = {r} /\ pc[r] = "drained" /\ sent' = Append(sent, r)
      BY <1>6, <2>2 DEF Breaks
    <3>2. \A i \in 1..Len(sent') : sent'[i] \in stored'
      BY <1>0, <1>6, <3>1, SentStep DEF Breaks, Sent
    <3>. QED
      BY <1>1, <1>2, <1>6, <3>1, <3>2 DEF Breaks, Lanes
  <2>. QED
    BY <2>1, <2>2
<1>7. CASE Carries
  BY <1>7 DEF Carries, Lanes
<1>8. CASE Forgets
  <2>1. /\ \A i \in 1..Len(sent') : i + 1 \in 1..Len(sent) /\ sent'[i] = sent[i + 1]
        /\ UNCHANGED <<link, stored>> /\ link # "down"
    BY <1>0, <1>8, SentStep DEF Forgets
  <2>2. \A i, j \in 1..Len(sent') : sent'[i] = sent'[j] => i = j
    <3>1. \A i, j \in 1..Len(sent') : sent'[i] = sent'[j] => i + 1 = j + 1
      BY <2>1 DEF Lanes
    <3>. QED
      BY <3>1
  <2>. QED
    BY <2>1, <2>2 DEF Lanes
<1>9. CASE Connects \/ Clears
  <2>1. 1..Len(sent') = {}
    BY <1>9, SentStep
  <2>. QED
    BY <1>9, <2>1 DEF Connects, Clears, Lanes
<1>10. ASSUME NEW r \in Request, Repeats(r)
       PROVE  Lanes'
  <2>1. ~Sent(r)
    BY <1>10 DEF Repeats, Lanes, Sent
  <2>2. \A i \in 1..Len(sent') : sent'[i] \notin stored'
    BY <1>0, <1>10, SentStep DEF Repeats, Lanes
  <2>. QED
    BY <1>1, <1>10, <2>1, <2>2 DEF Repeats, Lanes
<1>. QED
  BY <1>3, <1>4, <1>5, <1>6, <1>7, <1>8, <1>9, <1>10, LaneSteps

(* Over the subscribed connection a command comes by being published.      *)
LEMMA CommandedStep ==
  ASSUME TypeOK, Lanes, Next, NEW q \in Request, link' = "subscribed", Commanded(q)'
  PROVE  (link = "subscribed" /\ Commanded(q)) \/ pc[q] = "drained"
<1>0. /\ Len(sent) \in Nat /\ done \in 0..Len(sent) /\ \A i \in 1..Len(sent) : sent[i] \in Request
  BY SentStep
<1>1. CASE UNCHANGED lane
  BY <1>1 DEF lane, Commanded
<1>2. ASSUME NEW r \in Request, pc[r] = "drained", Adds(r)
      PROVE  (link = "subscribed" /\ Commanded(q)) \/ pc[q] = "drained"
  BY <1>0, <1>2, SentStep DEF Adds, Commanded
<1>3. ASSUME NEW r \in Request, Keeps(r) PROVE FALSE
  BY <1>3 DEF Keeps
<1>4. ASSUME NEW new, Breaks(new) PROVE FALSE
  BY <1>4 DEF Breaks
<1>5. CASE Carries
  <2>1. \A i \in done'+1..Len(sent) : i \in done+1..Len(sent)
    BY <1>0, <1>5 DEF Carries
  <2>. QED
    BY <1>5, <2>1 DEF Carries, Commanded
<1>6. CASE Forgets
  <2>1. \A i \in done'+1..Len(sent') : i + 1 \in done+1..Len(sent) /\ sent'[i] = sent[i + 1]
    BY <1>0, <1>6, SentStep DEF Forgets
  <2>. QED
    BY <1>6, <2>1 DEF Forgets, Commanded
<1>7. CASE Connects
  BY <1>7 DEF Connects
<1>8. CASE Clears
  BY <1>8, SentStep DEF Clears, Commanded
<1>9. ASSUME NEW r \in Request, Repeats(r) PROVE FALSE
  BY <1>9 DEF Repeats, Lanes
<1>. QED
  BY <1>1, <1>2, <1>3, <1>4, <1>5, <1>6, <1>7, <1>8, <1>9, LaneSteps

(* Answers that get lost or stay where they are: nobody's is anywhere new. *)
LEMMA Losing ==
  ASSUME TypeOK, answered' = answered,
         responses' = responses \/ \E n \in 0..Len(responses) : responses' = SubSeq(responses, 1, n),
         respCh' \in {respCh, <<>>},
         NEW q \in Request,
         link' = "subscribed" /\ Commanded(q)' => (link = "subscribed" /\ Commanded(q)) \/ Nowhere(q)
  PROVE  (Nowhere(q) /\ ~OnWay(q)' => Nowhere(q)') /\ (Single(q) => Single(q)')
<1>1. responses \in Seq(Response)
  BY DEF TypeOK
<1>2. /\ Len(responses') \in Nat /\ Len(responses) \in Nat /\ Len(responses') <= Len(responses)
      /\ \A i \in 1..Len(responses') : responses'[i] = responses[i]
  <2>1. CASE responses' = responses
    BY <1>1, <2>1
  <2>2. ASSUME NEW n \in 0..Len(responses), responses' = SubSeq(responses, 1, n)
        PROVE  /\ Len(responses') \in Nat /\ Len(responses) \in Nat /\ Len(responses') <= Len(responses)
               /\ \A i \in 1..Len(responses') : responses'[i] = responses[i]
    BY <1>1, <2>2
  <2>. QED
    BY <2>1, <2>2
<1>3. \A i \in 1..Len(responses') : i \in 1..Len(responses) /\ responses'[i] = responses[i]
  BY <1>2
<1>4. Responded(q)' => Responded(q)
  BY <1>3 DEF Responded
<1>5. Kept(q)' => Kept(q)
  BY DEF Kept
<1>6. Taken(q)' <=> Taken(q)
  BY DEF Taken
<1>. QED
  BY <1>3, <1>4, <1>5, <1>6 DEF Nowhere, Single

(* A command becomes a response, if somebody subscribes to it.             *)
LEMMA Executing ==
  ASSUME TypeOK, Lanes, Execute, NEW q \in Request
  PROVE  (Nowhere(q) => Nowhere(q)') /\ (Single(q) => Single(q)')
<1>0. PICK r \in Request : r = sent[done + 1]
  BY SentStep DEF TypeOK, Execute
<1>. DEFINE resp == [of |-> r, ok |-> Possible(r)]
<1>1. /\ responses \in Seq(Response)
      /\ IF link = "subscribed" THEN responses' = Append(responses, resp) ELSE responses' = responses
      /\ done \in Nat /\ Len(sent) \in Nat /\ done < Len(sent) /\ done' = done + 1
      /\ UNCHANGED <<respCh, answered, link, stored, sent>>
  BY <1>0, SentStep DEF TypeOK, Execute, admin
<1>2. /\ Len(responses) \in Nat
      /\ \/ responses' = responses
         \/ /\ Len(responses') = Len(responses) + 1
            /\ \A i \in 1..Len(responses) : responses'[i] = responses[i]
            /\ responses'[Len(responses) + 1].of = r
  <2>1. resp.of = r /\ resp \in Response
    BY <1>1 DEF Response, Possible
  <2>. HIDE DEF resp
  <2>. QED
    BY <1>1, <2>1, Queues
<1>3. Commanded(r) /\ ~Commanded(r)' /\ Sent(r)
  <2>1. done + 1 \in done+1..Len(sent) /\ done + 1 \in 1..Len(sent)
    BY <1>1
  <2>2. \A i \in done'+1..Len(sent) : i \in 1..Len(sent) /\ i # done + 1
    BY <1>1
  <2>. QED
    BY <1>0, <1>1, <2>1, <2>2 DEF Commanded, Sent, Lanes
<1>. HIDE DEF resp
<1>4. Commanded(q)' => Commanded(q)
  <2>1. \A i \in done'+1..Len(sent) : i \in done+1..Len(sent)
    BY <1>1
  <2>. QED
    BY <1>1, <2>1 DEF Commanded
<1>5. Responded(q)' => Responded(q) \/ (q = r /\ link = "subscribed")
  BY <1>1, <1>2 DEF Responded
<1>6. (Kept(q)' <=> Kept(q)) /\ (Taken(q)' <=> Taken(q)) /\ (OnWay(q)' <=> OnWay(q))
  BY <1>1 DEF Kept, Taken, OnWay, Sent
<1>7. Nowhere(q) => Nowhere(q)'
  BY <1>3, <1>5, <1>6 DEF Nowhere, OnWay
<1>8. ASSUME Single(q)
      PROVE  Single(q)'
  <2>1. q = r /\ link = "subscribed" => ~Responded(q) /\ ~Kept(q) /\ ~Taken(q)
    BY <1>3, <1>8 DEF Single
  <2>2. \A i, j \in 1..Len(responses') : responses'[i].of = q /\ responses'[j].of = q => i = j
    <3>1. CASE responses' = responses
      BY <1>8, <3>1 DEF Single
    <3>2. CASE responses' # responses
      BY <1>1, <1>2, <1>8, <2>1, <3>2 DEF Single, Responded
    <3>. QED
      BY <3>1, <3>2
  <2>3. \A s, t \in Request : answered'[s] = q /\ answered'[t] = q => s = t
    BY <1>1, <1>8 DEF Single
  <2>4. /\ link' = "subscribed" /\ Commanded(q)' => ~Responded(q)' /\ ~Kept(q)' /\ ~Taken(q)'
        /\ Responded(q)' => ~Kept(q)' /\ ~Taken(q)'
        /\ Kept(q)' => ~Taken(q)'
    BY <1>1, <1>3, <1>4, <1>5, <1>6, <1>8, <2>1 DEF Single
  <2>. QED
    BY <2>2, <2>3, <2>4 DEF Single
<1>. QED
  BY <1>7, <1>8

(* A response is kept, or dropped.                                         *)
LEMMA Delivering ==
  ASSUME TypeOK, Deliver, NEW q \in Request
  PROVE  (Nowhere(q) => Nowhere(q)') /\ (Single(q) => Single(q)')
<1>1. /\ responses \in Seq(Response) /\ responses # <<>> /\ responses' = Tail(responses)
      /\ respCh' = <<Head(responses)>> \/ respCh' = respCh
      /\ UNCHANGED <<link, sent, done, stored, answered>>
  BY DEF TypeOK, Deliver
<1>2. /\ Len(responses) \in Nat \ {0} /\ Len(responses') = Len(responses) - 1
      /\ Head(responses) = responses[1]
      /\ \A i \in 1..Len(responses') : i + 1 \in 2..Len(responses) /\ responses'[i] = responses[i + 1]
  BY <1>1
<1>0. PICK r \in Request : r = responses[1].of
  <2>1. responses[1] \in Response
    BY <1>1, <1>2
  <2>. QED
    BY <2>1 DEF Response
<1>3. Responded(q)' => Responded(q)
  BY <1>2 DEF Responded
<1>4. Responded(r)
  <2>1. 1 \in 1..Len(responses)
    BY <1>2
  <2>. QED
    BY <1>0, <2>1 DEF Responded
<1>5. Kept(q)' => Kept(q) \/ q = r
  BY <1>0, <1>1, <1>2 DEF Kept
<1>6. (Commanded(q)' <=> Commanded(q)) /\ (Taken(q)' <=> Taken(q)) /\ (OnWay(q)' <=> OnWay(q))
  BY <1>1 DEF Commanded, Taken, OnWay, Sent
<1>7. Nowhere(q) => Nowhere(q)'
  BY <1>3, <1>4, <1>5, <1>6 DEF Nowhere
<1>8. ASSUME Single(q)
      PROVE  Single(q)'
  <2>1. \A i, j \in 1..Len(responses') : responses'[i].of = q /\ responses'[j].of = q => i = j
    <3>1. SUFFICES ASSUME NEW i \in 1..Len(responses'), NEW j \in 1..Len(responses'),
                          responses'[i].of = q, responses'[j].of = q
                   PROVE  i = j
      OBVIOUS
    <3>2. /\ i + 1 \in 1..Len(responses) /\ j + 1 \in 1..Len(responses)
          /\ responses[i + 1].of = q /\ responses[j + 1].of = q
      BY <1>2, <3>1
    <3>. QED
      BY <1>2, <1>8, <3>2 DEF Single
  <2>2. q = r => ~Responded(q)'
    BY <1>0, <1>2, <1>8 DEF Single, Responded
  <2>3. q = r => ~(link = "subscribed" /\ Commanded(q)) /\ ~Kept(q) /\ ~Taken(q)
    BY <1>4, <1>8 DEF Single
  <2>4. \A s, t \in Request : answered'[s] = q /\ answered'[t] = q => s = t
    BY <1>1, <1>8 DEF Single
  <2>5. /\ link' = "subscribed" /\ Commanded(q)' => ~Responded(q)' /\ ~Kept(q)' /\ ~Taken(q)'
        /\ Responded(q)' => ~Kept(q)' /\ ~Taken(q)'
        /\ Kept(q)' => ~Taken(q)'
    BY <1>1, <1>3, <1>5, <1>6, <1>8, <2>2, <2>3 DEF Single
  <2>. QED
    BY <2>1, <2>4, <2>5 DEF Single
<1>. QED
  BY <1>7, <1>8

(* The response that was kept is taken.                                    *)
LEMMA Receiving ==
  ASSUME TypeOK, NEW r \in Request, Receive(r), NEW q \in Request
  PROVE  (Nowhere(q) => Nowhere(q)') /\ (Single(q) => Single(q)')
<1>1. /\ respCh \in Seq(Response) /\ respCh # <<>> /\ Len(respCh) <= 1 /\ respCh' = Tail(respCh)
      /\ answered' = [answered EXCEPT ![r] = Head(respCh).of]
      /\ UNCHANGED <<link, sent, done, stored, responses>>
      /\ answered \in [Request -> Request \cup {None}]
  BY DEF TypeOK, Receive, wire
<1>. DEFINE x == respCh[1].of
<1>2. Head(respCh) = respCh[1] /\ respCh' = <<>>
  BY <1>1
<1>3. answered' = [answered EXCEPT ![r] = x]
  BY <1>1, <1>2
<1>4. ~Kept(q)' /\ (q = x => Kept(q))
  BY <1>1, <1>2 DEF Kept
<1>. HIDE DEF x
<1>5. Taken(q)' => Taken(q) \/ q = x
  BY <1>1, <1>3 DEF Taken
<1>6. (Commanded(q)' <=> Commanded(q)) /\ (Responded(q)' <=> Responded(q)) /\ (OnWay(q)' <=> OnWay(q))
  BY <1>1 DEF Commanded, Responded, OnWay, Sent
<1>7. Single(q) => \A s, t \in Request : answered'[s] = q /\ answered'[t] = q => s = t
  BY <1>1, <1>3, <1>4 DEF Single, Taken
<1>8. Nowhere(q) => Nowhere(q)'
  BY <1>4, <1>5, <1>6 DEF Nowhere
<1>9. ASSUME Single(q)
      PROVE  Single(q)'
  <2>1. \A i, j \in 1..Len(responses') : responses'[i].of = q /\ responses'[j].of = q => i = j
    BY <1>1, <1>9 DEF Single
  <2>2. q = x => ~(link = "subscribed" /\ Commanded(q)) /\ ~Responded(q)
    BY <1>4, <1>9 DEF Single
  <2>3. /\ link = "subscribed" /\ Commanded(q) => ~Responded(q) /\ ~Taken(q)
        /\ Responded(q) => ~Taken(q)
    BY <1>9 DEF Single
  <2>4. /\ link' = "subscribed" /\ Commanded(q)' => ~Responded(q)' /\ ~Kept(q)' /\ ~Taken(q)'
        /\ Responded(q)' => ~Kept(q)' /\ ~Taken(q)'
        /\ Kept(q)' => ~Taken(q)'
    BY <1>1, <1>4, <1>5, <1>6, <2>2, <2>3
  <2>. QED
    BY <1>7, <1>9, <2>1, <2>4 DEF Single
<1>. QED
  BY <1>8, <1>9

(* Where a step leaves the requests.                                       *)
Fine ==
  \A q \in Request : /\ Nowhere(q) /\ ~OnWay(q)' => Nowhere(q)'
                     /\ Single(q) => Single(q)'

LEMMA PlacesStep ==
  ASSUME TypeOK, NotYet, Lanes, Next
  PROVE  Fine
<1>1. ASSUME answered' = answered, respCh' \in {respCh, <<>>},
             responses' = responses \/ \E n \in 0..Len(responses) : responses' = SubSeq(responses, 1, n)
      PROVE  Fine
  <2>1. \A q \in Request : link' = "subscribed" /\ Commanded(q)' =>
                             (link = "subscribed" /\ Commanded(q)) \/ Nowhere(q)
    BY CommandedStep DEF NotYet
  <2>. QED
    BY <1>1, <2>1, Losing DEF Fine
<1>2. ASSUME NEW r \in Request, NEW kind \in Kind, NEW d \in Device,
             Store(r, kind, d) \/ StoreUnanswered(r, kind, d) \/ Refuse(r, kind, d)
      PROVE  Fine
  <2>1. UNCHANGED <<answered, responses, respCh>>
    BY <1>2 DEF Store, StoreUnanswered, Refuse, Row, admin, wire
  <2>. QED
    BY <1>1, <2>1
<1>3. ASSUME NEW r \in Request, Lock(r) \/ GiveUp(r) \/ Publish(r) \/ Resend(r)
      PROVE  Fine
  <2>1. UNCHANGED <<answered, responses>> /\ respCh' \in {respCh, <<>>}
    BY <1>3 DEF Lock, GiveUp, Publish, Resend, admin, wire
  <2>. QED
    BY <1>1, <2>1
<1>4. ASSUME NEW r \in Request, PublishFails(r)
      PROVE  Fine
  BY <1>1, <1>4 DEF PublishFails, Break, wire
<1>5. ASSUME NEW r \in Request, Receive(r)
      PROVE  Fine
  BY <1>5, Receiving DEF Fine
<1>6. CASE Deliver
  BY <1>6, Delivering DEF Fine
<1>7. CASE Execute
  BY <1>7, Executing DEF Fine
<1>8. CASE Acknowledge \/ Disconnect \/ Reconnect
  BY <1>1, <1>8 DEF Acknowledge, Disconnect, Reconnect, Break, admin
<1>9. CASE Restart
  <2>1. responses' = SubSeq(responses, 1, 0) /\ 0 \in 0..Len(responses) /\ respCh' = <<>> /\ answered' = answered
    BY <1>9 DEF Restart, TypeOK
  <2>. QED
    BY <1>1, <2>1
<1>. QED
  BY <1>2, <1>3, <1>4, <1>5, <1>6, <1>7, <1>8, <1>9 DEF Next

(* No request goes back to before its command.                             *)
LEMMA Forward ==
  ASSUME TypeOK, Next, NEW q \in Request, pc'[q] \in {"idle", "stored", "drained"}
  PROVE  /\ pc[q] \in {"idle", "stored", "drained"}
         /\ ~Publish(q) /\ ~PublishFails(q)
<1>. USE DEF TypeOK
<1>1. ASSUME NEW r \in Request, NEW kind \in Kind, NEW d \in Device,
             Store(r, kind, d) \/ StoreUnanswered(r, kind, d) \/ Refuse(r, kind, d)
      PROVE  pc[q] \in {"idle", "stored", "drained"}
  BY <1>1 DEF Store, StoreUnanswered, Refuse, Return
<1>2. ASSUME NEW r \in Request, Lock(r) \/ Publish(r) \/ PublishFails(r) \/ Receive(r) \/ GiveUp(r) \/ Resend(r)
      PROVE  pc[q] \in {"idle", "stored", "drained"}
  BY <1>2 DEF Lock, Publish, PublishFails, Receive, GiveUp, Resend, Return
<1>3. ASSUME Deliver \/ Execute \/ Acknowledge \/ Disconnect \/ Reconnect \/ Restart
      PROVE  pc[q] \in {"idle", "stored", "drained"}
  BY <1>3 DEF Deliver, Execute, Acknowledge, Disconnect, Reconnect, Restart
<1>4. ~Publish(q) /\ ~PublishFails(q)
  BY DEF Publish, PublishFails, Return
<1>. HIDE DEF TypeOK
<1>. QED
  BY <1>1, <1>2, <1>3, <1>4 DEF Next

LEMMA InvStep == IInv /\ [Next]_vars => IInv'
<1>1. ASSUME IInv, UNCHANGED vars PROVE IInv'
  <2>1. TypeOK'
    BY <1>1, TypeStep DEF IInv
  <2>2. \A q \in Request : (Nowhere(q)' <=> Nowhere(q)) /\ (Single(q)' <=> Single(q))
    BY <1>1 DEF vars, admin, wire, Nowhere, Single, OnWay, Sent, Commanded, Responded, Kept, Taken
  <2>3. (NotYet /\ Once)'
    BY <1>1, <2>2 DEF IInv, vars, NotYet, Once
  <2>4. (Exclusive /\ Lanes /\ Stale)'
    BY <1>1 DEF IInv, vars, admin, wire, Exclusive, Lanes, Stale, Sending
  <2>. QED
    BY <2>1, <2>3, <2>4 DEF IInv
<1>2. ASSUME IInv, Next PROVE IInv'
  <2>1. \A q \in Request : pc'[q] \in {"idle", "stored", "drained"} => Nowhere(q) /\ ~OnWay(q)'
    BY <1>2, Forward, OnWayStep DEF IInv, NotYet, Nowhere
  <2>2. NotYet' /\ Once'
    BY <1>2, <2>1, PlacesStep DEF IInv, NotYet, Once, Fine
  <2>. QED
    BY <1>2, <2>2, TypeStep, ExclusiveStep, LanesStep, StaleStep DEF IInv
<1>. QED
  BY <1>1, <1>2

LEMMA InvInit == Init => IInv
<1>1. ASSUME Init PROVE NotYet /\ Once /\ Lanes
  <2>0. 1..Len(sent) = {} /\ 1..Len(responses) = {} /\ done+1..Len(sent) = {}
    BY <1>1 DEF Init
  <2>1. \A q \in Request : Nowhere(q)
    BY <1>1, <2>0, DeviceAdminAssumption DEF Init, Nowhere, OnWay, Sent, Responded, Kept, Taken
  <2>2. \A q \in Request : Single(q)
    BY <1>1, <2>0, <2>1 DEF Init, Nowhere, Single, Taken
  <2>3. Lanes
    BY <1>1, <2>0 DEF Init, Lanes
  <2>. QED
    BY <2>1, <2>2, <2>3 DEF NotYet, Once
<1>2. ASSUME Init PROVE Exclusive /\ Stale
  BY <1>2 DEF Init, Exclusive, Stale, Sending
<1>. QED
  BY <1>1, <1>2, TypeInit DEF IInv

(* However many requests time out, die or are sent once more, a send takes *)
(* another's response only when that one waits no longer, and no response  *)
(* serves two.                                                             *)
THEOREM ResponsesStayOwn == FairSpec => []NothingStolen
<1>1. IInv => NothingStolen
  <2>1. ASSUME IInv, NEW r \in Request, answered[r] \notin {None, r}
        PROVE  /\ pc[answered[r]] = "returned"
               /\ \A s \in Request \ {r} : answered[s] # answered[r]
    <3>1. answered[r] \in Request
      BY <2>1 DEF IInv, TypeOK
    <3>. QED
      BY <2>1, <3>1 DEF IInv, Stale, Once, Single
  <2>. QED
    BY <2>1 DEF NothingStolen
<1>. QED
  BY <1>1, InvInit, InvStep, PTL DEF FairSpec, Spec

(***************************************************************************)
(* The order of commands, and what a deleted client could come back from.  *)
(* Only a register's command creates a client, and there is one register   *)
(* per device. Unless another command of the device was to be sent again   *)
(* beside it, what is to be sent again is all there is of the device's, and*)
(* goes ahead of all that follows: a deletion then finds the creation done *)
(* with, and what is left of it goes out again only beside the deletion.   *)
(***************************************************************************)

Live(q) == InFlight(q) \/ OnWay(q)
Came(q) == Live(q) \/ q \in executed
Unsent(q) == pc[q] \in {"stored", "drained"}
RegisterOf(q, d) == op[q].kind = "register" /\ op[q].device = d
RevokeOf(q, d) == op[q].kind = "revoke" /\ op[q].device = d

(* Of one device, of which no two commands were to be sent again at once.  *)
Alike(p, q) == op[p].device = op[q].device /\ op[p].device \notin mixed

Before(p, q) == \E i, j \in 1..Len(sent) : i < j /\ sent[i] = p /\ sent[j] = q

HasRow == \A q \in Request : Came(q) => op[q].device \in Device /\ secret[op[q].device] # None

OneRegister ==
  \A d \in Device, p, q \in Request :
    RegisterOf(p, d) /\ Came(p) /\ RegisterOf(q, d) /\ Came(q) => p = q

Begun == \A q \in executed : pc[q] \in {"waiting", "returned"}

(* A client at the broker was created.                                     *)
Created == \A d \in Device : broker[d] # None => \E q \in executed : RegisterOf(q, d)

(* Of a device's commands one at most is to be sent again,                 *)
Apart == \A p, q \in stored : Alike(p, q) => p = q

(* and then none is on the connection;                                     *)
Ahead == link # "down" => \A p \in stored, q \in Request : Sent(q) => ~Alike(p, q)

(* what was executed and will be again comes first.                        *)
First == \A p, q \in Request : Commanded(q) /\ q \in executed /\ Before(p, q) => ~Alike(p, q)

Order == Apart /\ Ahead /\ First

(* Where a client was deleted there is none, and a register's command that *)
(* is not acknowledged has been carried out and has a revoke behind it.    *)
GoneAt(d) ==
  /\ broker[d] = None
  /\ \A q \in Request : RegisterOf(q, d) =>
       /\ ~Unsent(q) /\ q \notin stored
       /\ Sent(q) => ~Commanded(q) /\ \E p \in Request : RevokeOf(p, d) /\ Before(q, p)

Gone == \A d \in Device \ mixed : (\E r \in executed : RevokeOf(r, d)) => GoneAt(d)

GInv == IInv /\ HasRow /\ OneRegister /\ Begun /\ Created /\ Order /\ Gone

(* What is sent has an order.                                              *)
LEMMA Line ==
  ASSUME TypeOK, Lanes, NEW p \in Request, NEW q \in Request
  PROVE  /\ Before(p, q) => Sent(p) /\ Sent(q) /\ p # q /\ ~Before(q, p)
         /\ Sent(p) /\ Sent(q) /\ p # q => Before(p, q) \/ Before(q, p)
         /\ Commanded(p) => Sent(p)
         /\ Commanded(p) /\ Sent(q) /\ ~Commanded(q) => Before(q, p)
<1>1. Len(sent) \in Nat /\ done \in 0..Len(sent)
  BY SentStep
<1>2. \A i, j \in 1..Len(sent) : sent[i] = sent[j] => i = j
  BY DEF Lanes
<1>3. \A i \in done+1..Len(sent) : i \in 1..Len(sent)
  BY <1>1
<1>4. Before(p, q) => Sent(p) /\ Sent(q) /\ p # q /\ ~Before(q, p)
  BY <1>1, <1>2 DEF Before, Sent
<1>5. Sent(p) /\ Sent(q) /\ p # q => Before(p, q) \/ Before(q, p)
  BY <1>1 DEF Before, Sent
<1>6. Commanded(p) => Sent(p)
  BY <1>3 DEF Commanded, Sent
<1>7. ASSUME Commanded(p), Sent(q), ~Commanded(q) PROVE Before(q, p)
  <2>1. PICK i \in done+1..Len(sent) : sent[i] = p
    BY <1>7 DEF Commanded
  <2>2. PICK j \in 1..Len(sent) : sent[j] = q
    BY <1>7 DEF Sent
  <2>3. j \notin done+1..Len(sent)
    BY <1>7, <2>2 DEF Commanded
  <2>4. j < i /\ i \in 1..Len(sent)
    BY <1>1, <2>1, <2>2, <2>3
  <2>. QED
    BY <2>1, <2>2, <2>4 DEF Before
<1>. QED
  BY <1>4, <1>5, <1>6, <1>7

(* A command more at the end.                                              *)
LEMMA LineGrows ==
  ASSUME TypeOK, NEW r \in Request, sent' = Append(sent, r), done' = done,
         NEW p \in Request, NEW q \in Request
  PROVE  /\ Sent(q)' <=> Sent(q) \/ q = r
         /\ Commanded(q)' <=> Commanded(q) \/ q = r
         /\ Before(p, q)' <=> Before(p, q) \/ (Sent(p) /\ q = r)
<1>1. /\ Len(sent) \in Nat /\ done \in 0..Len(sent)
      /\ Len(sent') = Len(sent) + 1 /\ sent'[Len(sent) + 1] = r
      /\ \A i \in 1..Len(sent) : sent'[i] = sent[i]
  BY SentStep
<1>2. 1..Len(sent') = 1..Len(sent) \cup {Len(sent) + 1}
  BY <1>1
<1>3. done+1..Len(sent') = (done+1..Len(sent)) \cup {Len(sent) + 1}
  BY <1>1
<1>4. \A i \in done+1..Len(sent) : i \in 1..Len(sent)
  BY <1>1
<1>5. Sent(q)' <=> Sent(q) \/ q = r
  BY <1>1, <1>2 DEF Sent
<1>6. Commanded(q)' <=> Commanded(q) \/ q = r
  BY <1>1, <1>3, <1>4 DEF Commanded
<1>7. Before(p, q)' => Before(p, q) \/ (Sent(p) /\ q = r)
  <2>1. SUFFICES ASSUME NEW i \in 1..Len(sent'), NEW j \in 1..Len(sent'), i < j,
                        sent'[i] = p, sent'[j] = q
                 PROVE  Before(p, q) \/ (Sent(p) /\ q = r)
    BY DEF Before
  <2>2. i \in 1..Len(sent) /\ sent[i] = p
    BY <1>1, <2>1
  <2>3. j \in 1..Len(sent) => sent[j] = q
    BY <1>1, <2>1
  <2>4. j = Len(sent) + 1 => q = r
    BY <1>1, <2>1
  <2>. QED
    BY <1>2, <2>1, <2>2, <2>3, <2>4 DEF Before, Sent
<1>8. Before(p, q) => Before(p, q)'
  <2>1. SUFFICES ASSUME NEW i \in 1..Len(sent), NEW j \in 1..Len(sent), i < j,
                        sent[i] = p, sent[j] = q
                 PROVE  Before(p, q)'
    BY DEF Before
  <2>. QED
    BY <1>1, <1>2, <2>1 DEF Before
<1>9. Sent(p) /\ q = r => Before(p, q)'
  <2>1. SUFFICES ASSUME NEW i \in 1..Len(sent), sent[i] = p, q = r PROVE Before(p, q)'
    BY DEF Sent
  <2>2. i < Len(sent) + 1
    BY <1>1
  <2>. QED
    BY <1>1, <1>2, <2>1, <2>2 DEF Before
<1>. QED
  BY <1>5, <1>6, <1>7, <1>8, <1>9

(* The front of the line is carried out.                                   *)
LEMMA LineAdvances ==
  ASSUME TypeOK, Lanes, Carries
  PROVE  \E h \in Request :
           /\ h = sent[done + 1] /\ Commanded(h) /\ Sent(h)
           /\ \A q \in Request : /\ Sent(q)' <=> Sent(q)
                                 /\ Commanded(q)' <=> Commanded(q) /\ q # h
                                 /\ Commanded(q)' => Before(h, q)
                                 /\ Before(h, q) => Commanded(q)
           /\ \A p, q \in Request : Before(p, q)' <=> Before(p, q)
<1>1. /\ Len(sent) \in Nat /\ done \in 0..Len(sent) /\ \A i \in 1..Len(sent) : sent[i] \in Request
      /\ done < Len(sent) /\ done' = done + 1 /\ sent' = sent
  BY SentStep DEF Carries
<1>2. \A i, j \in 1..Len(sent) : sent[i] = sent[j] => i = j
  BY DEF Lanes
<1>3. PICK h \in Request : h = sent[done + 1]
  BY <1>1
<1>4. done+1 \in done+1..Len(sent) /\ done+1 \in 1..Len(sent)
  BY <1>1
<1>5. done+1..Len(sent) = (done'+1..Len(sent)) \cup {done+1}
  BY <1>1
<1>6. \A i \in done'+1..Len(sent) : i \in 1..Len(sent) /\ done+1 < i
  BY <1>1
<1>7. ASSUME NEW q \in Request
      PROVE  /\ Commanded(q)' <=> Commanded(q) /\ q # h
             /\ Commanded(q)' => Before(h, q)
             /\ Before(h, q) => Commanded(q)
  <2>1. Commanded(q)' => Commanded(q) /\ q # h
    BY <1>1, <1>2, <1>3, <1>4, <1>5, <1>6 DEF Commanded
  <2>2. Commanded(q) /\ q # h => Commanded(q)'
    BY <1>1, <1>3, <1>5 DEF Commanded
  <2>3. Commanded(q)' => Before(h, q)
    BY <1>1, <1>3, <1>4, <1>6 DEF Commanded, Before
  <2>4. ASSUME NEW i \in 1..Len(sent), NEW j \in 1..Len(sent), i < j, sent[i] = h, sent[j] = q
        PROVE  Commanded(q)
    <3>1. i = done + 1
      BY <1>2, <1>3, <1>4, <2>4
    <3>2. j \in done+1..Len(sent)
      BY <1>1, <2>4, <3>1
    <3>. QED
      BY <2>4, <3>2 DEF Commanded
  <2>. QED
    BY <2>1, <2>2, <2>3, <2>4 DEF Before
<1>. QED
  BY <1>1, <1>3, <1>4, <1>7 DEF Sent, Commanded, Before

(* Its first command is acknowledged.                                      *)
LEMMA LineShrinks ==
  ASSUME TypeOK, Lanes, Forgets
  PROVE  \E h \in Request :
           /\ ~Commanded(h) /\ Sent(h)
           /\ \A q \in Request : /\ Sent(q)' <=> Sent(q) /\ q # h
                                 /\ Commanded(q)' <=> Commanded(q)
                                 /\ ~Before(q, h)
           /\ \A p, q \in Request : Before(p, q)' <=> Before(p, q) /\ p # h
<1>1. /\ Len(sent) \in Nat /\ done \in 1..Len(sent) /\ \A i \in 1..Len(sent) : sent[i] \in Request
      /\ done' = done - 1 /\ Len(sent') = Len(sent) - 1
      /\ \A i \in 1..Len(sent') : i + 1 \in 2..Len(sent) /\ sent'[i] = sent[i + 1]
  BY SentStep DEF Forgets
<1>2. \A i, j \in 1..Len(sent) : sent[i] = sent[j] => i = j
  BY DEF Lanes
<1>3. PICK h \in Request : h = sent[1]
  BY <1>1
<1>4. 1 \in 1..Len(sent) /\ \A i \in 1..Len(sent) : i # 1 => i - 1 \in 1..Len(sent') /\ sent'[i-1] = sent[i]
  <2>1. ASSUME NEW i \in 1..Len(sent), i # 1
        PROVE  i - 1 \in 1..Len(sent') /\ sent'[i-1] = sent[i]
    <3>1. i - 1 \in 1..Len(sent') /\ (i - 1) + 1 = i
      BY <1>1, <2>1
    <3>. QED
      BY <1>1, <3>1
  <2>. QED
    BY <1>1, <2>1
<1>5. \A i \in 2..Len(sent) : i \in 1..Len(sent) /\ i # 1
  BY <1>1
<1>6. \A q \in Request : Sent(q)' <=> Sent(q) /\ q # h
  <2>1. \A q \in Request : Sent(q)' => Sent(q) /\ q # h
    BY <1>1, <1>2, <1>3, <1>4, <1>5 DEF Sent
  <2>2. \A q \in Request : Sent(q) /\ q # h => Sent(q)'
    BY <1>3, <1>4 DEF Sent
  <2>. QED
    BY <2>1, <2>2
<1>7. \A q \in Request : Commanded(q)' <=> Commanded(q)
  <2>1. ASSUME NEW q \in Request, NEW i \in done'+1..Len(sent'), sent'[i] = q PROVE Commanded(q)
    <3>1. i + 1 \in done+1..Len(sent) /\ sent[i + 1] = q
      BY <1>1, <2>1
    <3>. QED
      BY <3>1 DEF Commanded
  <2>2. ASSUME NEW q \in Request, NEW i \in done+1..Len(sent), sent[i] = q PROVE Commanded(q)'
    <3>1. i - 1 \in done'+1..Len(sent') /\ sent'[i - 1] = q
      <4>1. i - 1 \in done'+1..Len(sent') /\ i \in 1..Len(sent) /\ i # 1
        BY <1>1, <2>2
      <4>. QED
        BY <1>4, <2>2, <4>1
    <3>. QED
      BY <3>1 DEF Commanded
  <2>. QED
    BY <2>1, <2>2 DEF Commanded
<1>8. ~Commanded(h) /\ Sent(h)
  <2>1. \A i \in done+1..Len(sent) : i \in 1..Len(sent) /\ i # 1
    BY <1>1
  <2>. QED
    BY <1>2, <1>3, <1>4, <2>1 DEF Commanded, Sent
<1>9. ASSUME NEW q \in Request PROVE ~Before(q, h)
  <2>1. \A i, j \in 1..Len(sent) : i < j => j # 1
    BY <1>1
  <2>. QED
    BY <1>2, <1>3, <1>4, <2>1 DEF Before
<1>10. ASSUME NEW p \in Request, NEW q \in Request
       PROVE  Before(p, q)' <=> Before(p, q) /\ p # h
  <2>1. ASSUME NEW i \in 1..Len(sent'), NEW j \in 1..Len(sent'), i < j, sent'[i] = p, sent'[j] = q
        PROVE  Before(p, q) /\ p # h
    <3>1. /\ i + 1 \in 1..Len(sent) /\ j + 1 \in 1..Len(sent) /\ i + 1 < j + 1 /\ i + 1 # 1
          /\ sent[i + 1] = p /\ sent[j + 1] = q
      BY <1>1, <2>1
    <3>. QED
      BY <1>2, <1>3, <1>4, <3>1 DEF Before
  <2>2. ASSUME NEW i \in 1..Len(sent), NEW j \in 1..Len(sent), i < j, sent[i] = p, sent[j] = q, p # h
        PROVE  Before(p, q)'
    <3>1. i # 1 /\ j # 1 /\ i - 1 < j - 1
      BY <1>1, <1>3, <2>2
    <3>2. /\ i - 1 \in 1..Len(sent') /\ sent'[i - 1] = p
          /\ j - 1 \in 1..Len(sent') /\ sent'[j - 1] = q
      BY <1>4, <2>2, <3>1
    <3>. QED
      BY <3>1, <3>2 DEF Before
  <2>. QED
    BY <2>1, <2>2 DEF Before
<1>. QED
  BY <1>6, <1>7, <1>8, <1>9, <1>10

(* A request comes to be live by storing its row; only the broker carries  *)
(* out commands.                                                           *)
LEMMA LiveStep ==
  ASSUME IInv, Next
  PROVE  /\ \A q \in Request : Live(q)' => Live(q) \/ \E kind \in Kind, d \in Device : Store(q, kind, d)
         /\ Execute \/ UNCHANGED <<broker, executed>>
<1>0. pc \in [Request -> {"idle", "stored", "drained", "waiting", "returned"}]
  BY DEF IInv, TypeOK
<1>1. ASSUME NEW q \in Request, InFlight(q)'
      PROVE  InFlight(q) \/ \E kind \in Kind, d \in Device : Store(q, kind, d)
  <2>1. ASSUME NEW r \in Request, NEW kind \in Kind, NEW d \in Device,
               Store(r, kind, d) \/ StoreUnanswered(r, kind, d) \/ Refuse(r, kind, d)
        PROVE  InFlight(q) \/ \E k \in Kind, e \in Device : Store(q, k, e)
    BY <1>0, <1>1, <2>1 DEF Store, StoreUnanswered, Refuse, Return, InFlight
  <2>2. ASSUME NEW r \in Request, Lock(r) \/ Publish(r) \/ PublishFails(r) \/ Receive(r) \/ GiveUp(r) \/ Resend(r)
        PROVE  InFlight(q)
    BY <1>0, <1>1, <2>2 DEF Lock, Publish, PublishFails, Receive, GiveUp, Resend, Return, InFlight
  <2>3. ASSUME Deliver \/ Execute \/ Acknowledge \/ Disconnect \/ Reconnect \/ Restart
        PROVE  InFlight(q)
    BY <1>0, <1>1, <2>3 DEF Deliver, Execute, Acknowledge, Disconnect, Reconnect, Restart, InFlight
  <2>. QED
    BY <2>1, <2>2, <2>3 DEF Next
<1>2. ASSUME NEW q \in Request, OnWay(q)'
      PROVE  Live(q)
  BY <1>2, OnWayStep DEF IInv, Live, InFlight
<1>3. Execute \/ UNCHANGED <<broker, executed>>
  <2>1. ASSUME NEW r \in Request, NEW kind \in Kind, NEW d \in Device,
               Store(r, kind, d) \/ StoreUnanswered(r, kind, d) \/ Refuse(r, kind, d)
        PROVE  UNCHANGED <<broker, executed>>
    BY <2>1 DEF Store, StoreUnanswered, Refuse, Row
  <2>2. ASSUME NEW r \in Request, Lock(r) \/ Publish(r) \/ PublishFails(r) \/ Receive(r) \/ GiveUp(r) \/ Resend(r)
        PROVE  UNCHANGED <<broker, executed>>
    BY <2>2 DEF Lock, Publish, PublishFails, Receive, GiveUp, Resend
  <2>3. ASSUME Deliver \/ Acknowledge \/ Disconnect \/ Reconnect \/ Restart
        PROVE  UNCHANGED <<broker, executed>>
    BY <2>3 DEF Deliver, Acknowledge, Disconnect, Reconnect, Restart
  <2>. QED
    BY <2>1, <2>2, <2>3 DEF Next
<1>. QED
  BY <1>1, <1>2, <1>3 DEF Live

(* Who is live or was executed has begun.                                  *)
LEMMA CameBegun ==
  ASSUME IInv, Begun, NEW q \in Request, Came(q)
  PROVE  pc[q] \in {"stored", "drained", "waiting", "returned"}
BY DEF IInv, TypeOK, NotYet, Nowhere, Begun, Came, Live, InFlight

(* Only what was published is executed.                                    *)
LEMMA BegunStep ==
  ASSUME IInv, Begun, Next
  PROVE  Begun'
<1>1. pc \in [Request -> {"idle", "stored", "drained", "waiting", "returned"}] /\ executed \subseteq Request
  BY DEF IInv, TypeOK
<1>2. ASSUME Execute
      PROVE  Begun'
  <2>1. PICK h \in Request : h = sent[done + 1] /\ Sent(h)
    BY <1>2, LineAdvances DEF IInv, Execute, Carries
  <2>2. pc[h] \in {"waiting", "returned"}
    BY <1>1, <2>1 DEF IInv, NotYet, Nowhere, OnWay
  <2>3. pc' = pc /\ executed' \subseteq executed \cup {h}
    BY <1>2, <2>1 DEF Execute
  <2>. QED
    BY <2>2, <2>3 DEF Begun
<1>3. ASSUME executed' = executed
      PROVE  Begun'
  <2>1. ASSUME NEW q \in executed
        PROVE  pc'[q] \in {"waiting", "returned"}
    <3>1. q \in Request /\ pc[q] \in {"waiting", "returned"}
      BY <1>1, <2>1 DEF Begun
    <3>2. pc'[q] \notin {"idle", "stored", "drained"}
      BY <3>1, Forward DEF IInv
    <3>3. pc'[q] \in {"idle", "stored", "drained", "waiting", "returned"}
      BY <3>1, ProgressStep DEF IInv, Progress
    <3>. QED
      BY <3>2, <3>3
  <2>. QED
    BY <1>3, <2>1 DEF Begun
<1>. QED
  BY <1>2, <1>3, LiveStep

(* A row that is there stays; what a request does is fixed when it begins; *)
(* and what was mixed stays so.                                            *)
LEMMA RowsStay ==
  ASSUME IInv, Next
  PROVE  /\ \A d \in Device : secret[d] # None => secret'[d] # None
         /\ \A q \in Request : pc[q] # "idle" => op'[q] = op[q]
         /\ mixed \subseteq mixed'
<1>. DEFINE Stay == /\ \A d \in Device : secret[d] # None => secret'[d] # None
                    /\ \A q \in Request : pc[q] # "idle" => op'[q] = op[q]
<1>0. /\ secret \in [Device -> Request \cup {None}]
      /\ op \in [Request -> [kind : Kind, device : Device \cup {None}]]
  BY DEF IInv, TypeOK
<1>1. ASSUME NEW r \in Request, NEW kind \in Kind, NEW d \in Device,
             Store(r, kind, d) \/ StoreUnanswered(r, kind, d) \/ Refuse(r, kind, d)
      PROVE  Stay
  BY <1>0, <1>1, DeviceAdminAssumption DEF Store, StoreUnanswered, Refuse, Row
<1>2. UNCHANGED <<secret, op>> => Stay
  OBVIOUS
<1>3. ASSUME NEW r \in Request, Lock(r) \/ Publish(r) \/ PublishFails(r) \/ Receive(r) \/ GiveUp(r) \/ Resend(r)
      PROVE  UNCHANGED <<secret, op>>
  BY <1>3 DEF Lock, Publish, PublishFails, Receive, GiveUp, Resend
<1>4. ASSUME Deliver \/ Execute \/ Acknowledge \/ Disconnect \/ Reconnect \/ Restart
      PROVE  UNCHANGED <<secret, op>>
  BY <1>4 DEF Deliver, Execute, Acknowledge, Disconnect, Reconnect, Restart
<1>. HIDE DEF Stay
<1>5. Stay
  BY <1>1, <1>2, <1>3, <1>4 DEF Next
<1>6. mixed \subseteq mixed'
  BY LaneSteps DEF lane, Adds, Keeps, Breaks, Carries, Forgets, Connects, Repeats, Clears
<1>. QED
  BY <1>5, <1>6 DEF Stay

(* What it takes to come to be live, or executed.                          *)
LEMMA CameStep ==
  ASSUME IInv, Begun, Next, NEW q \in Request, Came(q)'
  PROVE  \/ Came(q) /\ op'[q] = op[q]
         \/ \E kind \in Kind, d \in Device : Store(q, kind, d)
<1>1. Came(q) => op'[q] = op[q]
  BY CameBegun, RowsStay
<1>2. q \in executed' => Came(q)
  <2>1. CASE UNCHANGED executed
    BY <2>1 DEF Came
  <2>2. CASE Execute
    <3>1. PICK h \in Request : h = sent[done + 1] /\ Sent(h)
      BY <2>2, LineAdvances DEF IInv, Execute, Carries
    <3>. QED
      BY <2>2, <3>1 DEF Execute, Came, Live, OnWay
  <2>. QED
    BY <2>1, <2>2, LiveStep
<1>. QED
  BY <1>1, <1>2, LiveStep DEF Came

(* Who is on its way or executed after a step had come before.             *)
LEMMA CameBefore ==
  ASSUME IInv, Begun, Next, NEW q \in Request, OnWay(q)' \/ q \in executed' \/ OnWay(q) \/ q \in executed
  PROVE  Came(q) /\ op'[q] = op[q]
<1>1. OnWay(q) \/ q \in executed => Came(q)
  BY DEF Came, Live
<1>2. OnWay(q)' => Came(q)
  BY OnWayStep DEF IInv, Came, Live, InFlight
<1>3. q \in executed' => Came(q)
  <2>1. CASE UNCHANGED executed
    BY <2>1 DEF Came
  <2>2. CASE Execute
    <3>1. PICK h \in Request : h = sent[done + 1] /\ Sent(h)
      BY <2>2, LineAdvances DEF IInv, Execute, Carries
    <3>. QED
      BY <2>2, <3>1 DEF Execute, Came, Live, OnWay
  <2>. QED
    BY <2>1, <2>2, LiveStep
<1>. QED
  BY <1>1, <1>2, <1>3, CameBegun, RowsStay

(* Who comes to be live has a row; a register has the only one.            *)
LEMMA RegisterStep ==
  ASSUME GInv, Next
  PROVE  HasRow' /\ OneRegister'
<1>0. /\ secret \in [Device -> Request \cup {None}]
      /\ op \in [Request -> [kind : Kind, device : Device \cup {None}]]
  BY DEF GInv, IInv, TypeOK
<1>1. ASSUME NEW q \in Request, NEW kind \in Kind, NEW d \in Device, Store(q, kind, d)
      PROVE  /\ op'[q].kind = kind /\ op'[q].device = d /\ secret'[d] # None
             /\ kind = "register" => secret[d] = None
             /\ \A r \in Request \ {q} : ~ \E k \in Kind, e \in Device : Store(r, k, e)
  <2>1. /\ op' = [op EXCEPT ![q] = [kind |-> kind, device |-> d]]
        /\ secret' = IF kind = "revoke" THEN secret ELSE [secret EXCEPT ![d] = q]
        /\ (kind = "register") <=> (secret[d] = None)
        /\ pc' = [pc EXCEPT ![q] = "stored"] /\ pc[q] = "idle"
    BY <1>1 DEF Store, Row, Accepted
  <2>2. \A r \in Request \ {q} : ~ \E k \in Kind, e \in Device : Store(r, k, e)
    <3>1. pc \in [Request -> {"idle", "stored", "drained", "waiting", "returned"}]
      BY DEF GInv, IInv, TypeOK
    <3>. QED
      BY <2>1, <3>1 DEF Store
  <2>. QED
    BY <1>0, <2>1, <2>2, DeviceAdminAssumption
<1>2. HasRow'
  <2>1. ASSUME NEW q \in Request, Came(q)'
        PROVE  op'[q].device \in Device /\ secret'[op'[q].device] # None
    <3>1. CASE Came(q) /\ op'[q] = op[q]
      BY <3>1, RowsStay DEF GInv, HasRow
    <3>2. CASE \E kind \in Kind, d \in Device : Store(q, kind, d)
      BY <1>1, <3>2
    <3>. QED
      BY <2>1, <3>1, <3>2, CameStep DEF GInv
  <2>. QED
    BY <2>1 DEF HasRow
<1>3. OneRegister'
  <2>1. ASSUME NEW d \in Device, NEW p \in Request, NEW q \in Request,
               RegisterOf(p, d)', Came(p)', RegisterOf(q, d)', Came(q)'
        PROVE  p = q
    <3>1. ASSUME NEW r \in Request, RegisterOf(r, d)', \E kind \in Kind, e \in Device : Store(r, kind, e)
          PROVE  secret[d] = None
      BY <1>1, <3>1 DEF RegisterOf
    <3>2. ASSUME NEW r \in Request, RegisterOf(r, d)', Came(r), op'[r] = op[r]
          PROVE  RegisterOf(r, d) /\ secret[d] # None
      BY <3>2 DEF RegisterOf, GInv, HasRow
    <3>3. CASE \E kind \in Kind, e \in Device : Store(p, kind, e)
      BY <1>1, <2>1, <3>1, <3>2, <3>3, CameStep DEF GInv
    <3>4. CASE ~ \E kind \in Kind, e \in Device : Store(p, kind, e)
      <4>1. RegisterOf(p, d) /\ Came(p) /\ secret[d] # None
        BY <2>1, <3>2, <3>4, CameStep DEF GInv
      <4>2. RegisterOf(q, d) /\ Came(q)
        BY <2>1, <3>1, <3>2, <4>1, CameStep DEF GInv
      <4>. QED
        BY <4>1, <4>2 DEF GInv, OneRegister
    <3>. QED
      BY <3>3, <3>4
  <2>. QED
    BY <2>1 DEF OneRegister
<1>. QED
  BY <1>2, <1>3

(* Commands of one device that are to be sent again together mix it.       *)
LEMMA Mixes ==
  ASSUME IInv, Begun, HasRow, Next, NEW p \in Request, NEW q \in Request, p # q,
         Came(p), Came(q), op[p].device = op[q].device,
         NEW set, mixed' = mixed \cup Shared(set), p \in set, q \in set
  PROVE  ~Alike(p, q)'
<1>1. op[p].device \in Shared(set)
  BY DEF Shared, HasRow
<1>. QED
  BY <1>1, CameBegun, RowsStay DEF Alike

(* The order of the commands survives every step.                          *)
LEMMA OrderStep ==
  ASSUME IInv, HasRow, Begun, Order, Next
  PROVE  Order'
<1>0. TypeOK /\ Lanes /\ executed \subseteq Request /\ stored \subseteq Request /\ stored' \subseteq Request
  BY LaneStep DEF IInv, TypeOK, Lane
<1>1. \A p, q \in Request : (OnWay(p)' \/ OnWay(p)) /\ (OnWay(q)' \/ OnWay(q)) /\ Alike(p, q)'
        => Came(p) /\ Came(q) /\ Alike(p, q) /\ op[p].device = op[q].device
  BY CameBefore, RowsStay DEF Alike
<1>2. \A q \in Request : q \in executed' => q \in executed \/ Execute
  BY LiveStep
<1>3. ASSUME Apart' , Ahead', First' PROVE Order'
  BY <1>3 DEF Order
<1>4. \A p \in Request : (p \in stored => OnWay(p)) /\ (Sent(p) => OnWay(p)) /\ (Commanded(p) => OnWay(p))
  BY <1>0, Line DEF OnWay
<1>5. \A p \in Request : (p \in stored' => OnWay(p)') /\ (Sent(p)' => OnWay(p)')
  BY DEF OnWay
<1>6. CASE UNCHANGED <<link, sent, stored, done, mixed>> /\ executed' = executed
  <2>1. \A p, q \in Request : /\ Sent(q)' <=> Sent(q)
                              /\ Commanded(q)' <=> Commanded(q)
                              /\ Before(p, q)' <=> Before(p, q)
    BY <1>6 DEF Sent, Commanded, Before
  <2>2. Apart'
    BY <1>0, <1>1, <1>5, <1>6 DEF Order, Apart
  <2>3. Ahead'
    BY <1>0, <1>1, <1>5, <1>6, <2>1 DEF Order, Ahead
  <2>4. First'
    BY <1>0, <1>1, <1>4, <1>6, <2>1, Line DEF Order, First
  <2>. QED
    BY <2>2, <2>3, <2>4, <1>3
<1>7. ASSUME NEW r \in Request, pc[r] = "drained", executed' = executed, Adds(r)
      PROVE  Order'
  <2>0. Came(r) /\ r \notin executed /\ r \notin stored /\ ~Sent(r)
    BY <1>7 DEF Came, Live, InFlight, Begun, IInv, NotYet, Nowhere, OnWay
  <2>1. \A p, q \in Request : /\ Sent(q)' <=> Sent(q) \/ q = r
                              /\ Commanded(q)' <=> Commanded(q) \/ q = r
                              /\ Before(p, q)' <=> Before(p, q) \/ (Sent(p) /\ q = r)
    BY <1>0, <1>7, LineGrows DEF Adds
  <2>2. Apart'
    BY <1>0, <1>1, <1>5, <1>7 DEF Order, Apart, Adds
  <2>3. Ahead'
    <3>1. SUFFICES ASSUME NEW p \in stored, NEW q \in Request, Sent(q)', Alike(p, q)' PROVE FALSE
      BY <1>7 DEF Ahead, Adds
    <3>2. Came(p) /\ Came(q) /\ Alike(p, q) /\ op[p].device = op[q].device /\ p \in Request
      BY <1>0, <1>1, <1>4, <1>5, <3>1
    <3>3. CASE Sent(q)
      BY <1>7, <3>1, <3>2, <3>3 DEF Order, Ahead, Adds
    <3>4. CASE q = r
      <4>1. mixed' = mixed \cup Shared(stored \cup {r})
        BY <1>7 DEF Adds
      <4>. QED
        BY <2>0, <3>1, <3>2, <3>4, <4>1, Mixes
    <3>. QED
      BY <2>1, <3>1, <3>3, <3>4
  <2>4. First'
    <3>1. SUFFICES ASSUME NEW p \in Request, NEW q \in Request, Commanded(q)', q \in executed, Before(p, q)', Alike(p, q)'
                   PROVE  FALSE
      BY <1>7 DEF First
    <3>2. q # r
      BY <2>0, <3>1
    <3>3. Commanded(q) /\ Before(p, q)
      BY <2>1, <3>1, <3>2
    <3>4. Alike(p, q)
      BY <1>0, <1>1, <1>4, <3>1, <3>3, Line
    <3>. QED
      BY <3>1, <3>3, <3>4 DEF Order, First
  <2>. QED
    BY <2>2, <2>3, <2>4, <1>3
<1>8. ASSUME mixed' = mixed \cup Shared(stored'), link' = "down", done' = done,
             \/ sent' = sent
             \/ \E r \in Request : pc[r] = "drained" /\ sent' = Append(sent, r),
             executed' = executed
      PROVE  Order'
  <2>1. Apart'
    <3>1. SUFFICES ASSUME NEW p \in stored', NEW q \in stored', Alike(p, q)', p # q PROVE FALSE
      BY DEF Apart
    <3>2. p \in Request /\ q \in Request /\ Came(p) /\ Came(q) /\ op[p].device = op[q].device
      BY <1>0, <1>1, <1>5, <3>1
    <3>. QED
      BY <1>8, <3>1, <3>2, Mixes
  <2>2. Ahead'
    BY <1>8 DEF Ahead
  <2>3. First'
    <3>1. SUFFICES ASSUME NEW p \in Request, NEW q \in Request, Commanded(q)', q \in executed, Before(p, q)', Alike(p, q)'
                   PROVE  FALSE
      BY <1>8 DEF First
    <3>2. Commanded(q) /\ Before(p, q)
      <4>1. CASE sent' = sent
        BY <1>8, <3>1, <4>1 DEF Commanded, Before
      <4>2. ASSUME NEW r \in Request, pc[r] = "drained", sent' = Append(sent, r)
            PROVE  Commanded(q) /\ Before(p, q)
        <5>1. r # q
          BY <3>1, <4>2 DEF Begun
        <5>. QED
          BY <1>0, <1>8, <3>1, <4>2, <5>1, LineGrows
      <4>. QED
        BY <1>8, <4>1, <4>2
    <3>3. Alike(p, q)
      BY <1>0, <1>1, <1>4, <3>1, <3>2, Line
    <3>. QED
      BY <3>1, <3>2, <3>3 DEF Order, First
  <2>. QED
    BY <2>1, <2>2, <2>3, <1>3
<1>9. ASSUME NEW r \in Request, Keeps(r), executed' = executed
      PROVE  Order'
  <2>1. mixed' = mixed \cup Shared(stored') /\ link' = "down" /\ done' = done /\ sent' = sent
    BY <1>9 DEF Keeps
  <2>. QED
    BY <1>8, <1>9, <2>1
<1>10. ASSUME NEW new, new = {} \/ \E r \in Request : new = {r} /\ pc[r] = "drained",
              Breaks(new), executed' = executed
       PROVE  Order'
  BY <1>8, <1>10 DEF Breaks
<1>11. CASE Execute /\ Carries
  <2>1. PICK h \in Request :
           /\ h = sent[done + 1] /\ Commanded(h) /\ Sent(h)
           /\ \A q \in Request : /\ Sent(q)' <=> Sent(q)
                                 /\ Commanded(q)' <=> Commanded(q) /\ q # h
           /\ \A p, q \in Request : Before(p, q)' <=> Before(p, q)
    BY <1>0, <1>11, LineAdvances
  <2>2. executed' \subseteq executed \cup {h} /\ UNCHANGED <<link, stored, mixed>>
    BY <1>11, <2>1 DEF Execute, Carries
  <2>3. Apart'
    BY <1>0, <1>1, <1>5, <2>2 DEF Order, Apart
  <2>4. Ahead'
    BY <1>0, <1>1, <1>5, <2>1, <2>2 DEF Order, Ahead
  <2>5. First'
    BY <1>0, <1>1, <1>4, <2>1, <2>2, Line DEF Order, First
  <2>. QED
    BY <2>3, <2>4, <2>5, <1>3
<1>12. CASE Forgets /\ executed' = executed
  <2>1. PICK h \in Request :
           /\ \A q \in Request : /\ Sent(q)' <=> Sent(q) /\ q # h
                                 /\ Commanded(q)' <=> Commanded(q)
           /\ \A p, q \in Request : Before(p, q)' <=> Before(p, q) /\ p # h
    BY <1>0, <1>12, LineShrinks
  <2>2. UNCHANGED <<link, stored, mixed>>
    BY <1>12 DEF Forgets
  <2>3. Apart'
    BY <1>0, <1>1, <1>5, <2>2 DEF Order, Apart
  <2>4. Ahead'
    BY <1>0, <1>1, <1>5, <2>1, <2>2 DEF Order, Ahead
  <2>5. First'
    BY <1>0, <1>1, <1>4, <1>12, <2>1, <2>2, Line DEF Order, First
  <2>. QED
    BY <2>3, <2>4, <2>5, <1>3
<1>13. CASE (Connects \/ Clears) /\ executed' = executed
  <2>1. \A q \in Request : ~Sent(q)' /\ ~Commanded(q)'
    <3>1. Len(sent') = 0 /\ done' = 0
      BY <1>0, <1>13, SentStep DEF Connects, Clears
    <3>. QED
      BY <3>1 DEF Sent, Commanded
  <2>2. stored' \subseteq stored
    BY <1>13 DEF Connects, Clears
  <2>3. Apart'
    BY <1>0, <1>1, <1>5, <2>2 DEF Order, Apart
  <2>4. Ahead' /\ First'
    BY <1>0, <2>1 DEF Ahead, First
  <2>. QED
    BY <2>3, <2>4, <1>3
<1>14. ASSUME NEW r \in Request, Repeats(r), executed' = executed
       PROVE  Order'
  <2>0. /\ r \in stored /\ stored' = stored \ {r} /\ sent' = Append(sent, r) /\ done' = done
        /\ link # "down" /\ UNCHANGED <<link, mixed>>
    BY <1>14 DEF Repeats
  <2>1. \A p, q \in Request : /\ Sent(q)' <=> Sent(q) \/ q = r
                              /\ Commanded(q)' <=> Commanded(q) \/ q = r
                              /\ Before(p, q)' <=> Before(p, q) \/ (Sent(p) /\ q = r)
    BY <1>0, <2>0, LineGrows
  <2>2. Apart'
    BY <1>0, <1>1, <1>5, <2>0 DEF Order, Apart
  <2>3. Ahead'
    <3>1. SUFFICES ASSUME NEW p \in stored', NEW q \in Request, Sent(q)', Alike(p, q)' PROVE FALSE
      BY DEF Ahead
    <3>2. Alike(p, q) /\ p \in Request /\ p \in stored /\ p # r
      BY <1>0, <1>1, <1>5, <2>0, <3>1
    <3>. QED
      BY <2>0, <2>1, <3>1, <3>2 DEF Order, Ahead, Apart
  <2>4. First'
    <3>1. SUFFICES ASSUME NEW p \in Request, NEW q \in Request, Commanded(q)', q \in executed, Before(p, q)', Alike(p, q)'
                   PROVE  FALSE
      BY <1>14 DEF First
    <3>2. CASE q = r
      <4>1. Sent(p)
        BY <1>0, <2>1, <3>1, <3>2, Line
      <4>2. Alike(p, r) /\ Alike(r, p)
        BY <1>0, <1>1, <1>4, <2>0, <3>1, <3>2, <4>1 DEF Alike
      <4>. QED
        BY <2>0, <4>1, <4>2 DEF Order, Ahead
    <3>3. CASE q # r
      <4>1. Commanded(q) /\ Before(p, q)
        BY <2>1, <3>1, <3>3
      <4>2. Alike(p, q)
        BY <1>0, <1>1, <1>4, <3>1, <4>1, Line
      <4>. QED
        BY <3>1, <4>1, <4>2 DEF Order, First
    <3>. QED
      BY <3>2, <3>3
  <2>. QED
    BY <2>2, <2>3, <2>4, <1>3
<1>15. UNCHANGED lane => UNCHANGED <<link, sent, stored, done, mixed>>
  BY DEF lane
<1>16. UNCHANGED lane => UNCHANGED executed
  <2>1. Execute => ~ UNCHANGED lane
    <3>1. done \in Nat
      BY <1>0 DEF TypeOK
    <3>. QED
      BY <3>1 DEF Execute, lane
  <2>. QED
    BY <2>1, LiveStep
<1>. QED
  BY <1>6, <1>7, <1>9, <1>10, <1>11, <1>12, <1>13, <1>14, <1>15, <1>16, LaneSteps

(* Where a client was deleted, nothing brings one back.                    *)
LEMMA GoneStays ==
  ASSUME GInv, Next, NEW d \in Device, d \notin mixed', GoneAt(d), secret[d] # None
  PROVE  GoneAt(d)'
<1>0. /\ IInv /\ TypeOK /\ Lanes /\ Begun /\ stored \subseteq Request
      /\ broker \in [Device -> Request \cup {None}]
      /\ op \in [Request -> [kind : Kind, device : Device \cup {None}]]
  BY DEF GInv, IInv, TypeOK
<1>1. ASSUME NEW q \in Request, RegisterOf(q, d)', Came(q)'
      PROVE  Came(q) /\ RegisterOf(q, d)
  <2>1. CASE Came(q) /\ op'[q] = op[q]
    BY <1>1, <2>1 DEF RegisterOf
  <2>2. ASSUME NEW kind \in Kind, NEW e \in Device, Store(q, kind, e)
        PROVE  FALSE
    <3>1. op'[q] = [kind |-> kind, device |-> e] /\ ((kind = "register") <=> (secret[e] = None))
      BY <1>0, <2>2 DEF Store, Row, Accepted
    <3>. QED
      BY <1>1, <3>1 DEF RegisterOf
  <2>. QED
    BY <1>0, <1>1, <2>1, <2>2, CameStep
<1>2. ASSUME NEW q \in Request, RegisterOf(q, d)
      PROVE  /\ pc[q] # "drained" /\ pc[q] # "stored" /\ q \notin stored
             /\ Sent(q) => ~Commanded(q) /\ \E p \in Request : RevokeOf(p, d) /\ Before(q, p)
  BY <1>2 DEF GoneAt, Unsent
<1>3. \A q \in Request : Unsent(q)' \/ q \in stored' \/ Sent(q)' => Came(q)'
  BY DEF Came, Live, InFlight, OnWay, Unsent
<1>4. ASSUME NEW q \in Request, RegisterOf(q, d)'
      PROVE  ~Unsent(q)'
  <2>1. Unsent(q)' => RegisterOf(q, d) /\ pc[q] \in {"idle", "stored", "drained"} /\ Came(q)
    BY <1>0, <1>1, <1>3, <1>4, Forward DEF Unsent
  <2>2. Came(q) => pc[q] # "idle"
    BY <1>0, CameBegun
  <2>. QED
    BY <1>2, <2>1, <2>2
<1>5. \A q \in Request : RevokeOf(q, d) /\ Sent(q) => RevokeOf(q, d)'
  BY <1>0, CameBefore DEF OnWay, RevokeOf
<1>6. ASSUME NEW set, mixed' = mixed \cup Shared(set), NEW p \in Request, NEW q \in Request,
             RegisterOf(p, d), RevokeOf(q, d), p \in set, q \in set
      PROVE  FALSE
  BY <1>6 DEF Shared, RegisterOf, RevokeOf
<1>. DEFINE InFront == \A q \in Request : RegisterOf(q, d) =>
                      /\ q \notin stored'
                      /\ Sent(q)' => ~Commanded(q)' /\ \E p \in Request : Sent(p) /\ RevokeOf(p, d) /\ Before(q, p)'
<1>7. InFront
  <2>1. CASE UNCHANGED lane
    <3>1. \A p, q \in Request : /\ Sent(q)' <=> Sent(q)
                                /\ Commanded(q)' <=> Commanded(q)
                                /\ Before(p, q)' <=> Before(p, q)
      BY <2>1 DEF Sent, Commanded, Before, lane
    <3>. QED
      BY <1>0, <1>2, <2>1, <3>1, Line DEF lane
  <2>2. ASSUME NEW r \in Request, pc[r] = "drained", sent' = Append(sent, r), done' = done,
               NEW q \in Request, RegisterOf(q, d), Sent(q)'
        PROVE  ~Commanded(q)' /\ \E p \in Request : Sent(p) /\ RevokeOf(p, d) /\ Before(q, p)'
    <3>1. q # r /\ Sent(q)
      BY <1>0, <1>2, <2>2, LineGrows
    <3>2. PICK p \in Request : RevokeOf(p, d) /\ Before(q, p)
      BY <1>2, <2>2, <3>1
    <3>. QED
      BY <1>0, <1>2, <2>2, <3>1, <3>2, Line, LineGrows
  <2>3. ASSUME NEW r \in Request, pc[r] = "drained", Adds(r) PROVE InFront
    BY <1>2, <2>2, <2>3 DEF Adds
  <2>4. ASSUME sent' = sent, done' = done, NEW q \in Request, RegisterOf(q, d), Sent(q)'
        PROVE  ~Commanded(q)' /\ \E p \in Request : Sent(p) /\ RevokeOf(p, d) /\ Before(q, p)'
    <3>1. \A p \in Request : /\ Sent(q)' <=> Sent(q)
                             /\ Commanded(q)' <=> Commanded(q)
                             /\ Before(q, p)' <=> Before(q, p)
      BY <2>4 DEF Sent, Commanded, Before
    <3>. QED
      BY <1>0, <1>2, <2>4, <3>1, Line
  <2>5. ASSUME NEW r \in Request, pc[r] = "drained", Keeps(r) PROVE InFront
    BY <1>2, <2>4, <2>5 DEF Keeps
  <2>6. ASSUME NEW new, new = {} \/ \E r \in Request : new = {r} /\ pc[r] = "drained", Breaks(new) PROVE InFront
    <3>1. ASSUME NEW q \in Request, RegisterOf(q, d), q \in stored'
          PROVE  FALSE
      <4>1. Sent(q)
        BY <1>0, <1>2, <2>6, <3>1, SentStep DEF Breaks
      <4>2. PICK p \in Request : RevokeOf(p, d) /\ Before(q, p)
        BY <1>2, <3>1, <4>1
      <4>3. Sent(p)
        BY <1>0, <4>2, Line
      <4>4. p \in stored' /\ mixed' = mixed \cup Shared(stored')
        BY <1>0, <2>6, <4>3, SentStep DEF Breaks
      <4>. QED
        BY <1>6, <3>1, <4>2, <4>4
    <3>. QED
      BY <2>2, <2>4, <2>6, <3>1 DEF Breaks
  <2>7. CASE Carries
    <3>1. /\ \A q \in Request : (Sent(q)' <=> Sent(q)) /\ (Commanded(q)' => Commanded(q))
          /\ \A p, q \in Request : Before(p, q)' <=> Before(p, q)
      BY <1>0, <2>7, LineAdvances
    <3>. QED
      BY <1>0, <1>2, <2>7, <3>1, Line DEF Carries
  <2>8. CASE Forgets
    <3>1. PICK h \in Request :
           /\ \A q \in Request : /\ Sent(q)' <=> Sent(q) /\ q # h
                                 /\ Commanded(q)' <=> Commanded(q)
           /\ \A p, q \in Request : Before(p, q)' <=> Before(p, q) /\ p # h
      BY <1>0, <2>8, LineShrinks
    <3>. QED
      BY <1>0, <1>2, <2>8, <3>1, Line DEF Forgets
  <2>9. CASE Connects \/ Clears
    <3>1. \A q \in Request : ~Sent(q)'
      BY <1>0, <2>9, SentStep DEF Sent
    <3>. QED
      BY <1>2, <2>9, <3>1 DEF Connects, Clears
  <2>10. ASSUME NEW r \in Request, Repeats(r) PROVE InFront
    <3>0. r \in stored /\ stored' = stored \ {r} /\ sent' = Append(sent, r) /\ done' = done
      BY <2>10 DEF Repeats
    <3>1. \A p, q \in Request : /\ Sent(q)' <=> Sent(q) \/ q = r
                                /\ Commanded(q)' <=> Commanded(q) \/ q = r
                                /\ Before(p, q)' <=> Before(p, q) \/ (Sent(p) /\ q = r)
      BY <1>0, <3>0, LineGrows
    <3>. QED
      BY <1>0, <1>2, <3>0, <3>1, Line
  <2>. HIDE DEF InFront
  <2>. QED
    BY <2>1, <2>3, <2>5, <2>6, <2>7, <2>8, <2>9, <2>10, LaneSteps
<1>8. broker'[d] = None
  <2>1. CASE UNCHANGED <<broker, executed>>
    BY <2>1 DEF GoneAt
  <2>2. CASE Execute
    <3>1. PICK h \in Request : h = sent[done + 1] /\ Commanded(h) /\ Sent(h)
      BY <1>0, <2>2, LineAdvances DEF Execute, Carries
    <3>2. ~RegisterOf(h, d)
      BY <1>2, <3>1
    <3>. QED
      BY <1>0, <2>2, <3>1, <3>2 DEF Execute, Possible, GoneAt, RegisterOf
  <2>. QED
    BY <1>0, <2>1, <2>2, LiveStep
<1>. QED
  BY <1>1, <1>3, <1>4, <1>5, <1>7, <1>8 DEF GoneAt

(* A deletion finds the creation carried out, on this connection before it *)
(* or on another, and nothing of it left to be sent.                       *)
LEMMA Deletes ==
  ASSUME GInv, Execute, NEW h \in Request, h = sent[done + 1], NEW d \in Device,
         RevokeOf(h, d), d \notin mixed, Possible(h)
  PROVE  GoneAt(d)'
<1>0. /\ IInv /\ TypeOK /\ Lanes /\ executed \subseteq Request /\ Next
      /\ broker \in [Device -> Request \cup {None}]
  BY DEF GInv, IInv, TypeOK, Next
<1>1. /\ Commanded(h) /\ Sent(h)
      /\ \A q \in Request : /\ Sent(q)' <=> Sent(q)
                            /\ Commanded(q)' <=> Commanded(q) /\ q # h
                            /\ Commanded(q)' => Before(h, q)
      /\ \A p, q \in Request : Before(p, q)' <=> Before(p, q)
  BY <1>0, LineAdvances DEF Execute, Carries
<1>2. broker[d] # None /\ broker'[d] = None /\ UNCHANGED <<op, pc, stored>>
  BY <1>0 DEF Execute, Possible, RevokeOf
<1>3. PICK p \in executed : RegisterOf(p, d)
  BY <1>2 DEF GInv, Created
<1>4. p \in Request /\ p # h /\ Alike(p, h) /\ Alike(h, p)
  BY <1>0, <1>3 DEF RegisterOf, RevokeOf, Alike
<1>5. \A q \in Request : RegisterOf(q, d) /\ Came(q) => q = p
  BY <1>3, <1>4 DEF GInv, OneRegister, Came
<1>6. ~Unsent(p)
  BY <1>3 DEF GInv, Begun, Unsent
<1>7. p \notin stored
  <2>1. CASE link = "down"
    BY <1>0, <1>1, <1>4, <2>1 DEF Lanes, Sent, GInv, Order, Apart
  <2>2. CASE link # "down"
    BY <1>1, <1>4, <2>2 DEF GInv, Order, Ahead
  <2>. QED
    BY <2>1, <2>2
<1>8. Sent(p) => ~Commanded(p) /\ Before(p, h)
  <2>1. ~Commanded(p)
    BY <1>1, <1>3, <1>4 DEF GInv, Order, First
  <2>. QED
    BY <1>0, <1>1, <1>4, <2>1, Line
<1>9. \A q \in Request : Unsent(q)' \/ q \in stored' \/ Sent(q)' => Came(q)
  BY <1>1, <1>2 DEF Came, Live, InFlight, OnWay, Unsent
<1>10. Unsent(p)' <=> Unsent(p)
  BY <1>2 DEF Unsent
<1>11. \A q \in Request : /\ RegisterOf(q, d)' <=> RegisterOf(q, d)
                          /\ RevokeOf(q, d)' <=> RevokeOf(q, d)
  BY <1>2 DEF RegisterOf, RevokeOf
<1>. QED
  BY <1>1, <1>2, <1>4, <1>5, <1>6, <1>7, <1>8, <1>9, <1>10, <1>11 DEF GoneAt

LEMMA GoneStep ==
  ASSUME GInv, Next
  PROVE  Created' /\ Gone'
<1>0. /\ IInv /\ TypeOK /\ Lanes /\ Begun /\ executed \subseteq Request
      /\ broker \in [Device -> Request \cup {None}] /\ mixed \subseteq mixed'
      /\ op \in [Request -> [kind : Kind, device : Device \cup {None}]]
  BY RowsStay DEF GInv, IInv, TypeOK
<1>1. \A q \in executed : op'[q] = op[q] /\ op[q].device \in Device /\ secret[op[q].device] # None
  BY <1>0, CameBefore DEF GInv, HasRow
<1>2. ASSUME NEW d \in Device, NEW r \in executed, RevokeOf(r, d)', d \notin mixed'
      PROVE  GoneAt(d)'
  <2>1. RevokeOf(r, d) /\ d \notin mixed /\ secret[d] # None
    BY <1>0, <1>1, <1>2 DEF RevokeOf
  <2>. QED
    BY <1>2, <2>1, GoneStays DEF GInv, Gone
<1>3. CASE UNCHANGED <<broker, executed>>
  <2>1. Created'
    BY <1>1, <1>3 DEF GInv, Created, RegisterOf
  <2>2. Gone'
    BY <1>2, <1>3 DEF Gone
  <2>. QED
    BY <2>1, <2>2
<1>4. CASE Execute
  <2>1. PICK h \in Request : h = sent[done + 1] /\ Sent(h)
    BY <1>0, <1>4, LineAdvances DEF Execute, Carries
  <2>2. Came(h) /\ op[h].device \in Device
    BY <2>1 DEF Came, Live, OnWay, GInv, HasRow
  <2>3. /\ op' = op /\ executed' \subseteq executed \cup {h} /\ executed \subseteq executed'
        /\ h \in executed' => h \in executed \/ Possible(h)
        /\ mixed' = mixed
    BY <1>4, <2>1 DEF Execute
  <2>4. Created'
    <3>1. ASSUME NEW d \in Device, broker'[d] # None, broker[d] = None
          PROVE  RegisterOf(h, d) /\ h \in executed'
      BY <1>0, <1>4, <2>1, <2>2, <3>1 DEF Execute, Possible, RegisterOf
    <3>. QED
      BY <1>1, <2>3, <3>1 DEF GInv, Created, RegisterOf
  <2>5. ASSUME NEW d \in Device, NEW r \in executed', RevokeOf(r, d)', d \notin mixed'
        PROVE  GoneAt(d)'
    <3>1. CASE r \in executed
      BY <1>2, <2>5, <3>1
    <3>2. CASE r = h /\ r \notin executed
      <4>1. RevokeOf(h, d) /\ Possible(h) /\ d \notin mixed
        BY <2>3, <2>5, <3>2 DEF RevokeOf
      <4>. QED
        BY <1>4, <2>1, <4>1, Deletes
    <3>. QED
      BY <2>3, <2>5, <3>1, <3>2
  <2>. QED
    BY <2>3, <2>4, <2>5 DEF Gone
<1>. QED
  BY <1>0, <1>3, <1>4, LiveStep

LEMMA GInit == Init => GInv
<1>. SUFFICES ASSUME Init PROVE GInv
  OBVIOUS
<1>1. \A q \in Request : ~Sent(q) /\ ~Commanded(q) /\ ~ Came(q)
  BY DEF Init, Came, Live, InFlight, OnWay, Sent, Commanded
<1>2. HasRow /\ OneRegister
  BY <1>1 DEF HasRow, OneRegister
<1>3. Begun /\ Created /\ Order /\ Gone
  BY <1>1 DEF Init, Begun, Created, Order, Apart, Ahead, First, Gone
<1>. QED
  BY <1>2, <1>3, InvInit DEF GInv

LEMMA GStep == GInv /\ [Next]_vars => GInv'
<1>1. ASSUME GInv, Next PROVE GInv'
  <2>1. IInv'
    BY <1>1, InvStep DEF GInv
  <2>. QED
    BY <1>1, <2>1, OrderStep, BegunStep, RegisterStep, GoneStep DEF GInv
<1>2. ASSUME GInv, UNCHANGED vars PROVE GInv'
  <2>1. IInv'
    BY <1>2, InvStep DEF GInv
  <2>2. /\ UNCHANGED <<secret, op, pc, link, sent, done, stored, mixed, broker, executed>>
    BY <1>2 DEF vars, wire
  <2>3. \A p, q \in Request : /\ (InFlight(q)' <=> InFlight(q)) /\ (OnWay(q)' <=> OnWay(q))
                              /\ (Sent(q)' <=> Sent(q)) /\ (Commanded(q)' <=> Commanded(q))
                              /\ (Before(p, q)' <=> Before(p, q)) /\ (Alike(p, q)' <=> Alike(p, q))
                              /\ (Unsent(q)' <=> Unsent(q)) /\ (Came(q)' <=> Came(q))
    BY <2>2 DEF Came, Live, InFlight, OnWay, Sent, Commanded, Before, Alike, Unsent
  <2>4. (HasRow /\ OneRegister)'
    BY <1>2, <2>2, <2>3 DEF GInv, HasRow, OneRegister, RegisterOf
  <2>5. (Begun /\ Created)'
    BY <1>2, <2>2 DEF GInv, Begun, Created, RegisterOf
  <2>6. Order'
    <3>1. stored \subseteq Request
      BY <1>2 DEF GInv, IInv, TypeOK
    <3>. QED
      BY <1>2, <2>2, <2>3, <3>1 DEF GInv, Order, Apart, Ahead, First
  <2>7. \A d \in Device : GoneAt(d)' <=> GoneAt(d)
    BY <2>2, <2>3 DEF GoneAt, RegisterOf, RevokeOf
  <2>8. Gone'
    BY <1>2, <2>2, <2>7 DEF GInv, Gone, RevokeOf
  <2>. QED
    BY <2>1, <2>4, <2>5, <2>6, <2>8 DEF GInv
<1>. QED
  BY <1>1, <1>2

(* A client that the broker has deleted on a revoke never comes back,      *)
(* whatever overlaps, times out, gets lost or is carried out twice, unless *)
(* another command of the device's was to be sent again beside it.         *)
THEOREM DeletedStaysDeleted == Spec => []DeletedForGood
<1>1. GInv => DeletedForGood
  <2>1. ASSUME GInv, NEW r \in executed, op[r].kind = "revoke", op[r].device \notin mixed
        PROVE  broker[op[r].device] = None
    <3>1. op[r].device \in Device
      BY <2>1 DEF GInv, IInv, TypeOK, HasRow, Came
    <3>. QED
      BY <2>1, <3>1 DEF GInv, Gone, GoneAt, RevokeOf
  <2>. QED
    BY <2>1 DEF DeletedForGood
<1>. QED
  BY <1>1, GInit, GStep, PTL DEF Spec

(***************************************************************************)
(* At rest both homes agree. The requests to a device that never overlapped*)
(* publish their commands in the order of their statements, and unless two *)
(* of the commands were to be sent again at once the broker carries them   *)
(* out in that order, the last one perhaps twice.                          *)
(***************************************************************************)

Of(q, d) == op[q].device = d

(* Nothing at the device overlapped, was mixed up or got lost.             *)
Clean(d) == d \notin overlapped /\ d \notin mixed /\ \A q \in unsynced : op[q].device # d

(* What was stored is of who began, what the broker has of who was executed; *)
(* who has not begun is at no device.                                       *)
Known ==
  /\ \A q \in Request : pc[q] = "idle" => op[q].device \notin Device
  /\ \A q \in unsynced : pc[q] # "idle"
  /\ \A d \in Device : secret[d] # None => pc[secret[d]] # "idle"
  /\ \A d \in Device : broker[d] # None =>
       /\ broker[d] \in executed
       /\ op[broker[d]].device = d
       /\ op[broker[d]].kind # "revoke"

(* A row remembers that it was revoked, and that its secret was rotated.   *)
Remembered ==
  \A q \in Request : Came(q) =>
    /\ op[q].kind = "revoke" => revoked[op[q].device]
    /\ op[q].kind = "rotate" => op[secret[op[q].device]].kind # "register"

(* The request in flight is the only one, and it was the last to write.    *)
Alone(d) ==
  /\ \A p, q \in Request : InFlight(p) /\ Of(p, d) /\ InFlight(q) /\ Of(q, d) => p = q
  /\ \A q \in Request : InFlight(q) /\ Of(q, d) =>
       /\ op[q].kind # "revoke" => secret[d] = q
       /\ op[q].kind = "register" => ~revoked[d]

Quiet(d) == \A q \in Request : Unsent(q) => ~Of(q, d)
Nothing(d) == \A q \in Request : q \in stored \/ Commanded(q) => ~Of(q, d)

(* The last command is of the last to write.                               *)
LastWins(d) ==
  ~revoked[d] /\ Quiet(d) =>
    \A q \in Request : Of(q, d) =>
      /\ q \in stored => secret[d] = q
      /\ Sent(q) /\ (\A p \in Request : Before(q, p) => ~Of(p, d)) => secret[d] = q

(* A revoked device's client is gone or will be, and is not created again. *)
WillGo(d) ==
  revoked[d] =>
    \/ \E q \in Request : RevokeOf(q, d) /\ (Unsent(q) \/ q \in stored)
    \/ /\ \A q \in Request : RegisterOf(q, d) =>
            q \notin stored /\ (Sent(q) => \E p \in Request : RevokeOf(p, d) /\ Before(q, p))
       /\ broker[d] = None \/ \E q \in Request : RevokeOf(q, d) /\ Commanded(q)

(* The client of a device in use is there or will be.                      *)
WillCome(d) ==
  ~revoked[d] /\ secret[d] # None =>
    broker[d] # None \/ \E q \in Request : RegisterOf(q, d) /\ (Unsent(q) \/ q \in stored \/ Commanded(q))

Synced(d) == ~revoked[d] /\ Quiet(d) /\ Nothing(d) => broker[d] = secret[d]

InStep(d) == Alone(d) /\ LastWins(d) /\ WillGo(d) /\ WillCome(d) /\ Synced(d)

CInv == GInv /\ Known /\ Remembered /\ \A d \in Device : Clean(d) => InStep(d)

(* Who began does not begin again.                                         *)
LEMMA NeverIdle ==
  ASSUME IInv, Next, NEW q \in Request, pc[q] # "idle"
  PROVE  pc'[q] # "idle" /\ op'[q] = op[q]
<1>0. pc \in [Request -> {"idle", "stored", "drained", "waiting", "returned"}]
  BY DEF IInv, TypeOK
<1>1. ASSUME \E r \in Request, kind \in Kind, d \in Device :
               Store(r, kind, d) \/ StoreUnanswered(r, kind, d) \/ Refuse(r, kind, d)
      PROVE  pc'[q] # "idle"
  BY <1>0, <1>1 DEF Store, StoreUnanswered, Refuse, Return
<1>2. ASSUME \E r \in Request : Lock(r) \/ Publish(r) \/ PublishFails(r) \/ Receive(r) \/ GiveUp(r) \/ Resend(r)
      PROVE  pc'[q] # "idle"
  BY <1>0, <1>2 DEF Lock, Publish, PublishFails, Receive, GiveUp, Resend, Return
<1>3. ASSUME Deliver \/ Execute \/ Acknowledge \/ Disconnect \/ Reconnect \/ Restart
      PROVE  pc'[q] # "idle"
  BY <1>0, <1>3 DEF Deliver, Execute, Acknowledge, Disconnect, Reconnect, Restart
<1>. QED
  BY <1>1, <1>2, <1>3, RowsStay DEF Next

Writes(d) ==
  \E r \in Request, kind \in Kind : Store(r, kind, d) \/ StoreUnanswered(r, kind, d)

(* Only a statement writes a row, its own.                                 *)
LEMMA RowEffect ==
  ASSUME IInv, Next, NEW d \in Device, ~Writes(d)
  PROVE  secret'[d] = secret[d] /\ revoked'[d] = revoked[d]
<1>0. secret \in [Device -> Request \cup {None}] /\ revoked \in [Device -> BOOLEAN]
  BY DEF IInv, TypeOK
<1>1. ASSUME NEW r \in Request, NEW kind \in Kind, NEW e \in Device,
             Store(r, kind, e) \/ StoreUnanswered(r, kind, e)
      PROVE  secret'[d] = secret[d] /\ revoked'[d] = revoked[d]
  <2>1. e # d
    BY <1>1 DEF Writes
  <2>2. Row(r, kind, e)
    BY <1>1 DEF Store, StoreUnanswered
  <2>3. secret'[d] = secret[d]
    BY <1>0, <2>1, <2>2 DEF Row
  <2>4. revoked'[d] = revoked[d]
    BY <1>0, <2>1, <2>2 DEF Row, Kind
  <2>. QED
    BY <2>3, <2>4
<1>2. CASE \E r \in Request, kind \in Kind, e \in Device : Refuse(r, kind, e)
  BY <1>2 DEF Refuse
<1>3. CASE \E r \in Request : Lock(r) \/ Publish(r) \/ PublishFails(r) \/ Receive(r) \/ GiveUp(r) \/ Resend(r)
  BY <1>3 DEF Lock, Publish, PublishFails, Receive, GiveUp, Resend
<1>4. CASE Deliver \/ Execute \/ Acknowledge \/ Disconnect \/ Reconnect \/ Restart
  BY <1>4 DEF Deliver, Execute, Acknowledge, Disconnect, Reconnect, Restart
<1>. QED
  BY <1>1, <1>2, <1>3, <1>4 DEF Next

(* A row that is there stays revoked, and is only rotated.                 *)
LEMMA RowStays ==
  ASSUME IInv, Next, NEW d \in Device, secret[d] # None
  PROVE  /\ revoked[d] => revoked'[d]
         /\ secret'[d] = secret[d] \/ \E r \in Request : secret'[d] = r /\ op'[r].kind = "rotate"
<1>0. /\ secret \in [Device -> Request \cup {None}] /\ revoked \in [Device -> BOOLEAN]
      /\ op \in [Request -> [kind : Kind, device : Device \cup {None}]]
  BY DEF IInv, TypeOK
<1>1. ASSUME NEW r \in Request, NEW kind \in Kind, Store(r, kind, d) \/ StoreUnanswered(r, kind, d)
      PROVE  /\ revoked[d] => revoked'[d]
             /\ secret'[d] = secret[d] \/ \E q \in Request : secret'[d] = q /\ op'[q].kind = "rotate"
  <2>1. kind \in {"rotate", "revoke"} /\ Row(r, kind, d)
    BY <1>1 DEF Store, StoreUnanswered, Accepted, Kind
  <2>2. CASE kind = "rotate"
    BY <1>0, <2>1, <2>2 DEF Row
  <2>3. CASE kind = "revoke"
    BY <1>0, <2>1, <2>3 DEF Row
  <2>. QED
    BY <2>1, <2>2, <2>3
<1>2. CASE ~Writes(d)
  BY <1>2, RowEffect
<1>. QED
  BY <1>1, <1>2 DEF Writes

LEMMA KnownStep ==
  ASSUME GInv, Known, Next
  PROVE  Known'
<1>0. /\ IInv /\ pc \in [Request -> {"idle", "stored", "drained", "waiting", "returned"}]
      /\ secret \in [Device -> Request \cup {None}] /\ unsynced \subseteq Request
      /\ broker \in [Device -> Request \cup {None}] /\ executed \subseteq Request
      /\ TypeOK /\ Lanes /\ Begun
      /\ op \in [Request -> [kind : Kind, device : Device \cup {None}]]
  BY DEF GInv, IInv, TypeOK
<1>1. ASSUME NEW q \in unsynced' PROVE pc'[q] # "idle"
  <2>1. CASE q \in unsynced
    BY <1>0, <2>1, NeverIdle DEF Known
  <2>2. CASE q \notin unsynced
    <3>1. CASE \E r \in Request, kind \in Kind, d \in Device :
                 Store(r, kind, d) \/ StoreUnanswered(r, kind, d) \/ Refuse(r, kind, d)
      BY <1>0, <1>1, <2>2, <3>1 DEF Store, StoreUnanswered, Refuse, Return
    <3>2. CASE \E r \in Request : Lock(r) \/ Publish(r) \/ PublishFails(r) \/ Receive(r) \/ GiveUp(r) \/ Resend(r)
      BY <1>0, <1>1, <2>2, <3>2 DEF Lock, Publish, PublishFails, Receive, GiveUp, Resend, Return
    <3>3. CASE Deliver \/ Execute \/ Acknowledge \/ Disconnect \/ Reconnect
      BY <1>1, <2>2, <3>3 DEF Deliver, Execute, Acknowledge, Disconnect, Reconnect
    <3>4. CASE Restart
      <4>1. q \in Request /\ (OnWay(q) \/ InFlight(q))
        <5>1. q \in stored \/ (\E i \in done+1..Len(sent) : q = sent[i]) \/ (q \in Request /\ InFlight(q))
          BY <1>1, <2>2, <3>4 DEF Restart
        <5>2. \A i \in done+1..Len(sent) : i \in 1..Len(sent) /\ sent[i] \in Request
          BY <1>0, SentStep
        <5>3. stored \subseteq Request
          BY <1>0 DEF TypeOK
        <5>. QED
          BY <5>1, <5>2, <5>3 DEF OnWay, Sent
      <4>2. Came(q)
        BY <4>1 DEF Came, Live
      <4>3. pc[q] # "idle"
        BY <4>1, <4>2, CameBegun DEF GInv
      <4>. QED
        BY <1>0, <4>1, <4>3, NeverIdle
    <3>. QED
      BY <3>1, <3>2, <3>3, <3>4 DEF Next
  <2>. QED
    BY <2>1, <2>2
<1>2. ASSUME NEW d \in Device, secret'[d] # None PROVE pc'[secret'[d]] # "idle"
  <2>1. CASE secret'[d] = secret[d]
    BY <1>0, <1>2, <2>1, NeverIdle DEF Known
  <2>2. CASE secret'[d] # secret[d]
    <3>1. PICK r \in Request, kind \in Kind : Store(r, kind, d) \/ StoreUnanswered(r, kind, d)
      BY <1>0, <2>2, RowEffect DEF Writes
    <3>2. secret'[d] = r /\ pc'[r] # "idle"
      BY <1>0, <2>2, <3>1 DEF Store, StoreUnanswered, Row, Return
    <3>. QED
      BY <3>2
  <2>. QED
    BY <2>1, <2>2
<1>3. ASSUME NEW d \in Device, broker'[d] # None
      PROVE  broker'[d] \in executed' /\ op'[broker'[d]].device = d /\ op'[broker'[d]].kind # "revoke"
  <2>1. CASE UNCHANGED <<broker, executed>>
    <3>1. broker[d] \in executed /\ broker[d] \in Request /\ Came(broker[d])
      BY <1>0, <1>3, <2>1 DEF Known, Came
    <3>2. op'[broker[d]] = op[broker[d]]
      BY <1>0, <3>1, CameBegun, NeverIdle DEF GInv
    <3>. QED
      BY <1>3, <2>1, <3>1, <3>2 DEF Known
  <2>2. CASE Execute
    <3>0. PICK h \in Request : h = sent[done + 1]
      BY <1>0, <2>2, LineAdvances DEF Execute, Carries
    <3>1. op' = op /\ executed \subseteq executed'
      BY <2>2 DEF Execute
    <3>2. CASE broker'[d] = broker[d]
      BY <1>3, <3>1, <3>2 DEF Known
    <3>3. CASE broker'[d] # broker[d]
      <4>2. /\ executed' = executed \cup {h}
            /\ broker' = [broker EXCEPT ![op[h].device] = IF op[h].kind = "revoke" THEN None ELSE h]
        BY <2>2, <3>0, <3>3 DEF Execute
      <4>3. op[h].device = d /\ op[h].kind # "revoke" /\ broker'[d] = h
        BY <1>0, <1>3, <3>3, <4>2
      <4>. QED
        BY <3>1, <4>2, <4>3
    <3>. QED
      BY <3>2, <3>3
  <2>. QED
    BY <1>0, <2>1, <2>2, LiveStep
<1>4. ASSUME NEW q \in Request, pc'[q] = "idle"
      PROVE  op'[q].device \notin Device
  <2>1. pc[q] = "idle" /\ op'[q] = op[q]
    <3>1. CASE \E r \in Request, kind \in Kind, d \in Device :
                 Store(r, kind, d) \/ StoreUnanswered(r, kind, d) \/ Refuse(r, kind, d)
      BY <1>0, <1>4, <3>1 DEF Store, StoreUnanswered, Refuse, Row, Return
    <3>2. CASE \E r \in Request : Lock(r) \/ Publish(r) \/ PublishFails(r) \/ Receive(r) \/ GiveUp(r) \/ Resend(r)
      BY <1>0, <1>4, <3>2 DEF Lock, Publish, PublishFails, Receive, GiveUp, Resend, Return
    <3>3. CASE Deliver \/ Execute \/ Acknowledge \/ Disconnect \/ Reconnect
      BY <1>4, <3>3 DEF Deliver, Execute, Acknowledge, Disconnect, Reconnect
    <3>4. CASE Restart
      BY <1>0, <1>4, <3>4 DEF Restart
    <3>. QED
      BY <3>1, <3>2, <3>3, <3>4 DEF Next
  <2>. QED
    BY <2>1 DEF Known
<1>. QED
  BY <1>1, <1>2, <1>3, <1>4 DEF Known

LEMMA RememberedStep ==
  ASSUME GInv, Known, Remembered, Next
  PROVE  Remembered'
<1>0. /\ IInv
      /\ secret \in [Device -> Request \cup {None}] /\ revoked \in [Device -> BOOLEAN]
      /\ op \in [Request -> [kind : Kind, device : Device \cup {None}]]
  BY DEF GInv, IInv, TypeOK
<1>1. ASSUME NEW q \in Request, Came(q), op'[q] = op[q]
      PROVE  /\ op'[q].kind = "revoke" => revoked'[op'[q].device]
             /\ op'[q].kind = "rotate" => op'[secret'[op'[q].device]].kind # "register"
  <2>1. op[q].device \in Device /\ secret[op[q].device] # None
    BY <1>1 DEF GInv, HasRow
  <2>2. /\ op[q].kind = "revoke" => revoked[op[q].device]
        /\ op[q].kind = "rotate" => op[secret[op[q].device]].kind # "register"
    BY <1>1 DEF Remembered
  <2>3. op'[secret[op[q].device]] = op[secret[op[q].device]]
    BY <1>0, <2>1, NeverIdle DEF Known
  <2>4. /\ revoked[op[q].device] => revoked'[op[q].device]
        /\ \/ secret'[op[q].device] = secret[op[q].device]
           \/ \E r \in Request : secret'[op[q].device] = r /\ op'[r].kind = "rotate"
    BY <1>0, <2>1, RowStays
  <2>. QED
    BY <1>1, <2>2, <2>3, <2>4
<1>2. ASSUME NEW q \in Request, NEW kind \in Kind, NEW d \in Device, Store(q, kind, d)
      PROVE  /\ op'[q].kind = "revoke" => revoked'[op'[q].device]
             /\ op'[q].kind = "rotate" => op'[secret'[op'[q].device]].kind # "register"
  <2>1. Row(q, kind, d) /\ op'[q] = [kind |-> kind, device |-> d]
    BY <1>0, <1>2 DEF Store, Row
  <2>2. kind = "revoke" => revoked'[d]
    BY <1>0, <2>1 DEF Row
  <2>3. kind = "rotate" => secret'[d] = q
    BY <1>0, <2>1 DEF Row
  <2>. QED
    BY <2>1, <2>2, <2>3
<1>. QED
  BY <1>0, <1>1, <1>2, CameStep DEF Remembered, GInv

(* What was not clean stays so.                                            *)
LEMMA CleanStep ==
  ASSUME IInv, Known, Next, NEW d \in Device, Clean(d)'
  PROVE  Clean(d)
<1>0. unsynced \subseteq Request
  BY DEF IInv, TypeOK
<1>1. overlapped \subseteq overlapped' /\ unsynced \subseteq unsynced'
  <2>1. CASE \E r \in Request, kind \in Kind, e \in Device :
               Store(r, kind, e) \/ StoreUnanswered(r, kind, e) \/ Refuse(r, kind, e)
    BY <2>1 DEF Store, StoreUnanswered, Refuse, Row
  <2>2. CASE \E r \in Request : Lock(r) \/ Publish(r) \/ PublishFails(r) \/ Receive(r) \/ GiveUp(r) \/ Resend(r)
    BY <2>2 DEF Lock, Publish, PublishFails, Receive, GiveUp, Resend
  <2>3. CASE Deliver \/ Execute \/ Acknowledge \/ Disconnect \/ Reconnect \/ Restart
    BY <2>3 DEF Deliver, Execute, Acknowledge, Disconnect, Reconnect, Restart
  <2>. QED
    BY <2>1, <2>2, <2>3 DEF Next
<1>2. \A q \in unsynced : op'[q] = op[q]
  BY <1>0, NeverIdle DEF Known
<1>. QED
  BY <1>1, <1>2, RowsStay DEF Clean

(* Of a request that is not in flight no step changes anything.            *)
Passive(q) == ~InFlight(q) /\ ~Unsent(q) /\ q \notin stored /\ ~Sent(q) /\ ~Commanded(q)

(* A step that leaves the device's row, client and commands alone.         *)
LEMMA Steady ==
  ASSUME TypeOK, Lanes, TypeOK', Lanes', NEW d \in Device, InStep(d),
         secret'[d] = secret[d], revoked'[d] = revoked[d], broker'[d] = broker[d],
         \A q \in Request : Of(q, d) \/ Of(q, d)' =>
           \/ Passive(q) /\ Passive(q)'
           \/ /\ op'[q] = op[q] /\ (InFlight(q)' => InFlight(q)) /\ (Unsent(q)' <=> Unsent(q))
              /\ (q \in stored' <=> q \in stored) /\ (Sent(q)' <=> Sent(q)) /\ (Commanded(q)' <=> Commanded(q)),
         \A p, q \in Request : Sent(p) /\ Sent(q) /\ Of(p, d) /\ Of(q, d) => (Before(p, q)' <=> Before(p, q))
  PROVE  InStep(d)'
<1>1. \A p, q \in Request : /\ Before(p, q) => Sent(p) /\ Sent(q)
                            /\ Before(p, q)' => Sent(p)' /\ Sent(q)'
  BY Line DEF Before, Sent
<1>2. \A p, q \in Request : Of(p, d)' /\ Of(q, d)' => (Before(p, q)' => Before(p, q))
  BY <1>1 DEF Passive, Of
<1>3. \A p, q \in Request : Of(p, d) /\ Of(q, d) => (Before(p, q) => Before(p, q)')
  BY <1>1 DEF Passive, Of
<1>4. Alone(d)'
  BY DEF InStep, Alone, Of, Passive
<1>5. Quiet(d)' => Quiet(d)
  BY DEF Quiet, Of, Passive
<1>6. Nothing(d)' => Nothing(d)
  BY DEF Nothing, Of, Passive
<1>7. LastWins(d)'
  <2>1. SUFFICES ASSUME ~revoked[d], Quiet(d), NEW q \in Request, Of(q, d)',
                        \/ q \in stored'
                        \/ Sent(q)' /\ \A p \in Request : Before(q, p)' => ~Of(p, d)'
                 PROVE  secret[d] = q
    BY <1>5 DEF LastWins
  <2>2. Of(q, d) /\ (q \in stored' <=> q \in stored) /\ (Sent(q)' <=> Sent(q))
    BY <2>1 DEF Passive, Of
  <2>3. \A p \in Request : Before(q, p) /\ Of(p, d) => Before(q, p)' /\ Of(p, d)'
    BY <1>1, <1>3, <2>2 DEF Passive, Of
  <2>. QED
    BY <2>1, <2>2, <2>3 DEF InStep, LastWins
<1>8. \A q \in Request : RevokeOf(q, d) /\ (Unsent(q) \/ q \in stored \/ Sent(q) \/ Commanded(q))
        => /\ RevokeOf(q, d)' /\ Of(q, d) /\ (Unsent(q) => Unsent(q)') /\ (q \in stored => q \in stored')
           /\ (Commanded(q) => Commanded(q)')
  BY DEF RevokeOf, Of, Passive
<1>9. \A q \in Request : RegisterOf(q, d)' =>
        \/ q \notin stored' /\ ~Sent(q)'
        \/ RegisterOf(q, d) /\ Of(q, d) /\ (q \in stored' => q \in stored) /\ (Sent(q)' => Sent(q))
  BY DEF RegisterOf, Of, Passive
<1>10. WillGo(d)'
  <2>1. SUFFICES ASSUME revoked[d] PROVE WillGo(d)'
    BY DEF WillGo
  <2>2. CASE \E q \in Request : RevokeOf(q, d) /\ (Unsent(q) \/ q \in stored)
    BY <1>8, <2>2 DEF WillGo
  <2>3. ASSUME \A q \in Request : RegisterOf(q, d) =>
                 q \notin stored /\ (Sent(q) => \E p \in Request : RevokeOf(p, d) /\ Before(q, p)),
               broker[d] = None \/ \E q \in Request : RevokeOf(q, d) /\ Commanded(q)
        PROVE  WillGo(d)'
    <3>1. ASSUME NEW q \in Request, RegisterOf(q, d)'
          PROVE  q \notin stored' /\ (Sent(q)' => \E p \in Request : RevokeOf(p, d)' /\ Before(q, p)')
      <4>1. SUFFICES ASSUME RegisterOf(q, d), Of(q, d), q \in stored' => q \in stored, Sent(q)' => Sent(q)
                     PROVE  q \notin stored' /\ (Sent(q)' => \E p \in Request : RevokeOf(p, d)' /\ Before(q, p)')
        BY <1>9, <3>1
      <4>. QED
        BY <1>1, <1>3, <1>8, <2>3, <4>1
    <3>2. broker'[d] = None \/ \E q \in Request : RevokeOf(q, d)' /\ Commanded(q)'
      BY <1>8, <2>3
    <3>. QED
      BY <3>1, <3>2 DEF WillGo
  <2>. QED
    BY <2>1, <2>2, <2>3 DEF InStep, WillGo
<1>11. WillCome(d)'
  BY DEF InStep, WillCome, RegisterOf, Of, Passive
<1>. QED
  BY <1>4, <1>5, <1>6, <1>7, <1>10, <1>11 DEF InStep, Synced

(* What is left to the steps on the wire: the table and the requests' ops  *)
(* stay, and what was published is a step of the one request in flight.    *)
Wired(d) ==
  /\ GInv /\ Known /\ Remembered /\ Next /\ InStep(d) /\ Clean(d)'
  /\ UNCHANGED <<secret, revoked, op>>

LEMMA WiredFacts ==
  ASSUME NEW d \in Device, Wired(d)
  PROVE  /\ TypeOK /\ Lanes /\ TypeOK' /\ Lanes' /\ d \notin mixed /\ d \notin mixed' /\ Next
         /\ stored \subseteq Request /\ stored' \subseteq Request
         /\ \A q \in Request : /\ Of(q, d)' <=> Of(q, d)
                               /\ RegisterOf(q, d)' <=> RegisterOf(q, d)
                               /\ RevokeOf(q, d)' <=> RevokeOf(q, d)
         /\ \A p, q \in stored : Of(p, d) /\ Of(q, d) => p = q
         /\ link # "down" => \A p \in stored, q \in Request : Sent(q) /\ Of(p, d) => ~Of(q, d)
         /\ link = "down" => \A q \in Request : Sent(q) => q \in stored
         /\ \A q \in Request : Of(q, d) /\ Came(q) /\ op[q].kind = "revoke" => revoked[d]
         /\ \A r \in Request : pc[r] = "drained" => ~OnWay(r) /\ Came(r) /\ Unsent(r)
         /\ \A r, q \in Request : pc[r] = "drained" /\ Of(r, d) /\ Of(q, d) /\ Unsent(q) => q = r
         /\ \A r \in Request : pc[r] = "drained" /\ Of(r, d) =>
              /\ ~revoked[d] => secret[d] = r
              /\ RegisterOf(r, d) => ~revoked[d]
<1>1. /\ TypeOK /\ Lanes /\ TypeOK' /\ Lanes' /\ d \notin mixed /\ d \notin mixed' /\ Next
      /\ stored \subseteq Request /\ stored' \subseteq Request
  <2>1. IInv /\ IInv'
    BY InvStep DEF Wired, GInv
  <2>. QED
    BY <2>1, RowsStay DEF Wired, IInv, Clean, TypeOK
<1>2. \A q \in Request : /\ Of(q, d)' <=> Of(q, d)
                         /\ RegisterOf(q, d)' <=> RegisterOf(q, d)
                         /\ RevokeOf(q, d)' <=> RevokeOf(q, d)
  BY DEF Wired, Of, RegisterOf, RevokeOf
<1>3. \A p, q \in stored : Of(p, d) /\ Of(q, d) => p = q
  BY <1>1 DEF Wired, GInv, Order, Apart, Alike, Of
<1>4. link # "down" => \A p \in stored, q \in Request : Sent(q) /\ Of(p, d) => ~Of(q, d)
  BY <1>1 DEF Wired, GInv, Order, Ahead, Alike, Of
<1>5. link = "down" => \A q \in Request : Sent(q) => q \in stored
  BY <1>1 DEF Lanes, Sent
<1>6. \A q \in Request : Of(q, d) /\ Came(q) /\ op[q].kind = "revoke" => revoked[d]
  BY DEF Wired, Remembered, Of
<1>7. \A r \in Request : pc[r] = "drained" => ~OnWay(r) /\ Came(r) /\ Unsent(r) /\ InFlight(r)
  BY DEF Wired, GInv, IInv, NotYet, Nowhere, Came, Live, InFlight, Unsent
<1>8. \A q \in Request : Unsent(q) => InFlight(q)
  BY DEF Unsent, InFlight
<1>9. \A r, q \in Request : pc[r] = "drained" /\ Of(r, d) /\ Of(q, d) /\ Unsent(q) => q = r
  BY <1>7, <1>8 DEF Wired, InStep, Alone
<1>10. \A r \in Request : pc[r] = "drained" /\ Of(r, d) =>
              /\ ~revoked[d] => secret[d] = r
              /\ RegisterOf(r, d) => ~revoked[d]
  BY <1>6, <1>7 DEF Wired, InStep, Alone, RegisterOf
<1>. QED
  BY <1>1, <1>2, <1>3, <1>4, <1>5, <1>6, <1>7, <1>9, <1>10

(* Nothing but a command's publication changes whom a device waits for.    *)
LEMMA AloneStays ==
  ASSUME NEW d \in Device, InStep(d), UNCHANGED <<secret, revoked, op>>,
         \A q \in Request : InFlight(q)' => InFlight(q)
  PROVE  Alone(d)'
BY DEF InStep, Alone, Of

(* The command of the device's one request in flight goes out, or is kept. *)
LEMMA Publishes ==
  ASSUME NEW d \in Device, Wired(d), broker' = broker, NEW r \in Request, pc[r] = "drained",
         pc' = [pc EXCEPT ![r] = "waiting"], Adds(r) \/ Keeps(r)
  PROVE  InStep(d)'
<1>0. /\ TypeOK /\ Lanes /\ TypeOK' /\ Lanes' /\ d \notin mixed /\ d \notin mixed'
      /\ stored \subseteq Request
      /\ pc \in [Request -> {"idle", "stored", "drained", "waiting", "returned"}]
      /\ UNCHANGED <<secret, revoked, op>>
  BY WiredFacts DEF TypeOK, Wired
<1>1. ~OnWay(r) /\ r \notin stored /\ ~Sent(r)
  BY WiredFacts DEF OnWay
<1>2. \A q \in Request : (InFlight(q)' => InFlight(q)) /\ (Unsent(q)' <=> Unsent(q) /\ q # r)
  BY <1>0 DEF InFlight, Unsent
<1>3. Adds(r) => \A p, q \in Request : /\ Sent(q)' <=> Sent(q) \/ q = r
                                       /\ Commanded(q)' <=> Commanded(q) \/ q = r
                                       /\ Before(p, q)' <=> Before(p, q) \/ (Sent(p) /\ q = r)
  BY <1>0, LineGrows DEF Adds
<1>4. Keeps(r) => \A p, q \in Request : /\ Sent(q)' <=> Sent(q)
                                        /\ Commanded(q)' <=> Commanded(q)
                                        /\ Before(p, q)' <=> Before(p, q)
  BY DEF Keeps, Sent, Commanded, Before
<1>5. Alone(d)'
  BY <1>0, <1>2, AloneStays DEF Wired
<1>6. CASE ~Of(r, d)
  <2>1. \A q \in Request : Of(q, d) => (q \in stored' <=> q \in stored)
    BY <1>6 DEF Adds, Keeps
  <2>2. \A q \in Request : Of(q, d) => (Sent(q)' <=> Sent(q)) /\ (Commanded(q)' <=> Commanded(q))
    BY <1>3, <1>4, <1>6
  <2>3. \A p, q \in Request : Of(q, d) => (Before(p, q)' <=> Before(p, q))
    BY <1>3, <1>4, <1>6
  <2>4. \A q \in Request : (Of(q, d)' <=> Of(q, d)) /\ op'[q] = op[q]
    BY <1>0, WiredFacts
  <2>5. \A q \in Request : Of(q, d) => (Unsent(q)' <=> Unsent(q))
    BY <1>2, <1>6
  <2>6. secret'[d] = secret[d] /\ revoked'[d] = revoked[d] /\ broker'[d] = broker[d] /\ InStep(d)
    BY <1>0 DEF Wired
  <2>. QED
    BY <1>0, <1>2, <2>1, <2>2, <2>3, <2>4, <2>5, <2>6, Steady
<1>7. CASE Of(r, d)
  <2>0. \A q \in stored : ~Of(q, d)
    <3>1. ASSUME NEW q \in stored, Of(q, d) PROVE FALSE
      <4>1. q \in Request /\ q # r /\ mixed' = mixed \cup Shared(stored \cup {r})
        BY <1>0, <1>1, <3>1 DEF Adds, Keeps
      <4>2. d \in Shared(stored \cup {r})
        BY <1>7, <3>1, <4>1 DEF Shared, Of
      <4>. QED
        BY <1>0, <4>1, <4>2
    <3>. QED
      BY <3>1
  <2>1. Keeps(r) => \A q \in Request : Of(q, d) => ~Sent(q) /\ ~Commanded(q)
    BY <1>0, <2>0, WiredFacts, Line DEF Keeps
  <2>2. /\ ~revoked[d] => secret[d] = r
        /\ RegisterOf(r, d) => ~revoked[d]
        /\ \A q \in Request : Of(q, d) /\ Unsent(q) => q = r
    BY <1>7, WiredFacts
  <2>3. /\ Adds(r) => stored' = stored
        /\ Keeps(r) => stored' = stored \cup {r}
        /\ stored' \subseteq stored \cup {r}
    BY DEF Adds, Keeps
  <2>4. \A q \in Request : /\ Of(q, d)' <=> Of(q, d)
                           /\ RegisterOf(q, d)' <=> RegisterOf(q, d)
                           /\ RevokeOf(q, d)' <=> RevokeOf(q, d)
                           /\ RegisterOf(q, d) \/ RevokeOf(q, d) => Of(q, d)
    BY WiredFacts DEF RegisterOf, RevokeOf, Of
  <2>5. r \in stored' \/ Commanded(r)'
    BY <1>3, <2>3
  <2>6. LastWins(d)'
    <3>1. SUFFICES ASSUME ~revoked[d], NEW q \in Request, Of(q, d),
                          \/ q \in stored'
                          \/ Sent(q)' /\ \A p \in Request : Before(q, p)' => ~Of(p, d)
                   PROVE  q = r
      BY <1>0, <2>2, <2>4 DEF LastWins
    <3>2. q \in stored' => q = r
      BY <2>0, <2>3, <3>1
    <3>3. Sent(q)' /\ q # r => Before(q, r)'
      BY <1>3, <1>4, <2>1, <3>1
    <3>. QED
      BY <1>7, <3>1, <3>2, <3>3
  <2>7. WillGo(d)'
    <3>1. SUFFICES ASSUME revoked[d] PROVE WillGo(d)'
      BY <1>0 DEF WillGo
    <3>2. ~RegisterOf(r, d)
      BY <2>2, <3>1
    <3>3. CASE RevokeOf(r, d)
      <4>1. CASE Keeps(r)
        BY <2>3, <2>4, <3>3, <4>1 DEF WillGo
      <4>2. CASE Adds(r)
        <5>1. \A q \in Request : RegisterOf(q, d)' => q \notin stored' /\ (Sent(q)' => RevokeOf(r, d)' /\ Before(q, r)')
          BY <1>3, <2>0, <2>3, <2>4, <3>2, <3>3, <4>2
        <5>2. RevokeOf(r, d)' /\ Commanded(r)'
          BY <1>3, <2>4, <3>3, <4>2
        <5>. QED
          BY <5>1, <5>2 DEF WillGo
      <4>. QED
        BY <4>1, <4>2
    <3>4. CASE ~RevokeOf(r, d)
      <4>1. /\ \A q \in Request : RegisterOf(q, d) =>
                 q \notin stored /\ (Sent(q) => \E p \in Request : RevokeOf(p, d) /\ Before(q, p))
            /\ broker[d] = None \/ \E q \in Request : RevokeOf(q, d) /\ Commanded(q)
        BY <2>0, <2>2, <2>4, <3>1, <3>4 DEF Wired, InStep, WillGo
      <4>2. \A q \in Request : RegisterOf(q, d) => q # r /\ (Sent(q)' => Sent(q)) /\ q \notin stored'
        BY <1>3, <1>4, <2>3, <3>2, <4>1
      <4>3. \A p, q \in Request : Before(p, q) => Before(p, q)'
        BY <1>3, <1>4
      <4>4. \A q \in Request : Commanded(q) => Commanded(q)'
        BY <1>3, <1>4
      <4>5. \A q \in Request : RegisterOf(q, d)' =>
                 q \notin stored' /\ (Sent(q)' => \E p \in Request : RevokeOf(p, d)' /\ Before(q, p)')
        BY <2>4, <4>1, <4>2, <4>3
      <4>6. broker'[d] = None \/ \E q \in Request : RevokeOf(q, d)' /\ Commanded(q)'
        BY <2>4, <4>1, <4>4
      <4>. QED
        BY <4>5, <4>6 DEF WillGo
    <3>. QED
      BY <3>3, <3>4
  <2>8. WillCome(d)'
    <3>1. SUFFICES ASSUME ~revoked[d], secret[d] # None, broker[d] = None PROVE WillCome(d)'
      BY <1>0 DEF WillCome
    <3>2. PICK q \in Request : RegisterOf(q, d) /\ (Unsent(q) \/ q \in stored \/ Commanded(q))
      BY <3>1 DEF Wired, InStep, WillCome
    <3>3. q \in stored' \/ Commanded(q)'
      BY <1>3, <1>4, <2>0, <2>2, <2>4, <2>5, <3>2
    <3>. QED
      BY <2>4, <3>2, <3>3 DEF WillCome
  <2>9. ~Nothing(d)'
    BY <1>7, <2>4, <2>5 DEF Nothing
  <2>. QED
    BY <1>5, <2>6, <2>7, <2>8, <2>9 DEF InStep, Synced
<1>. QED
  BY <1>6, <1>7

(* The connection is lost: what it carried is to be sent again.            *)
LEMMA Loses ==
  ASSUME NEW d \in Device, Wired(d), broker' = broker, NEW new,
         \/ new = {} /\ pc' = pc
         \/ \E r \in Request : new = {r} /\ pc[r] = "drained" /\ pc' = [pc EXCEPT ![r] = "returned"],
         Breaks(new)
  PROVE  InStep(d)'
<1>0. /\ TypeOK /\ Lanes /\ TypeOK' /\ Lanes' /\ d \notin mixed /\ d \notin mixed'
      /\ stored \subseteq Request /\ stored' \subseteq Request
      /\ pc \in [Request -> {"idle", "stored", "drained", "waiting", "returned"}]
      /\ UNCHANGED <<secret, revoked, op>>
  BY WiredFacts DEF TypeOK, Wired
<1>1. new \subseteq Request /\ \A r \in new : pc[r] = "drained"
  OBVIOUS
<1>2. \A q \in Request : (InFlight(q)' => InFlight(q)) /\ (Unsent(q)' <=> Unsent(q) /\ q \notin new)
  BY <1>0 DEF InFlight, Unsent
<1>3. \A q \in Request : q \in stored' <=> q \in new \/ q \in stored \/ Sent(q)
  BY <1>0, SentStep DEF Breaks
<1>4. \A q \in Request : /\ Sent(q)' => Sent(q) \/ q \in new
                         /\ Sent(q)' => q \in stored'
  <2>1. CASE sent' = sent
    BY <1>3, <2>1 DEF Sent
  <2>2. ASSUME NEW r \in new, sent' = Append(sent, r)
        PROVE  \A q \in Request : Sent(q)' => Sent(q) \/ q \in new
    BY <1>0, <1>1, <2>2, LineGrows DEF Breaks
  <2>. QED
    BY <1>3, <2>1, <2>2 DEF Breaks
<1>5. \A p, q \in stored' : Of(p, d) /\ Of(q, d) => p = q
  <2>1. ASSUME NEW p \in stored', NEW q \in stored', Of(p, d), Of(q, d), p # q PROVE FALSE
    <3>1. mixed' = mixed \cup Shared(stored')
      BY DEF Breaks
    <3>2. d \in Shared(stored')
      BY <2>1 DEF Shared, Of
    <3>. QED
      BY <1>0, <3>1, <3>2
  <2>. QED
    BY <2>1
<1>6. \A q \in Request : /\ Of(q, d)' <=> Of(q, d)
                         /\ RegisterOf(q, d)' <=> RegisterOf(q, d)
                         /\ RevokeOf(q, d)' <=> RevokeOf(q, d)
                         /\ RegisterOf(q, d) \/ RevokeOf(q, d) => Of(q, d)
  BY WiredFacts DEF RegisterOf, RevokeOf, Of
<1>7. \A r \in new : Of(r, d) =>
        /\ ~revoked[d] => secret[d] = r
        /\ RegisterOf(r, d) => ~revoked[d]
  BY <1>1, WiredFacts
<1>8. Alone(d)'
  BY <1>0, <1>2, AloneStays DEF Wired
<1>9. LastWins(d)'
  <2>1. SUFFICES ASSUME ~revoked[d], Quiet(d)', NEW q \in Request, Of(q, d), q \in stored'
                 PROVE  secret[d] = q
    BY <1>0, <1>4, <1>6 DEF LastWins
  <2>2. CASE q \in new
    BY <1>7, <2>1, <2>2
  <2>3. CASE q \notin new
    <3>1. Quiet(d)
      <4>1. ASSUME NEW p \in Request, Unsent(p), Of(p, d) PROVE FALSE
        <5>1. p \in new
          BY <1>2, <1>6, <2>1, <4>1 DEF Quiet
        <5>. QED
          BY <1>3, <1>5, <2>1, <2>3, <4>1, <5>1
      <4>. QED
        BY <4>1 DEF Quiet
    <3>2. Sent(q) => \A p \in Request : Before(q, p) => ~Of(p, d)
      <4>1. ASSUME NEW p \in Request, Before(q, p), Of(p, d) PROVE FALSE
        <5>1. Sent(p) /\ p # q
          BY <1>0, <4>1, Line
        <5>. QED
          BY <1>3, <1>5, <2>1, <4>1, <5>1
      <4>. QED
        BY <4>1
    <3>3. q \in stored \/ Sent(q)
      BY <1>3, <2>1, <2>3
    <3>. QED
      BY <2>1, <3>1, <3>2, <3>3 DEF Wired, InStep, LastWins
  <2>. QED
    BY <2>2, <2>3
<1>10. WillGo(d)'
  <2>1. SUFFICES ASSUME revoked[d] PROVE WillGo(d)'
    BY <1>0 DEF WillGo
  <2>2. CASE \E q \in Request : RevokeOf(q, d) /\ (Unsent(q) \/ q \in stored)
    BY <1>2, <1>3, <1>6, <2>2 DEF WillGo
  <2>3. CASE \E p \in Request : RevokeOf(p, d) /\ Sent(p)
    BY <1>3, <1>6, <2>3 DEF WillGo
  <2>4. ASSUME \A p \in Request : RevokeOf(p, d) => ~Sent(p),
               \A q \in Request : RegisterOf(q, d) =>
                 q \notin stored /\ (Sent(q) => \E p \in Request : RevokeOf(p, d) /\ Before(q, p)),
               broker[d] = None \/ \E q \in Request : RevokeOf(q, d) /\ Commanded(q)
        PROVE  WillGo(d)'
    <3>1. broker[d] = None
      BY <1>0, <2>4, Line
    <3>2. \A q \in Request : RegisterOf(q, d) => ~Sent(q)
      BY <1>0, <2>4, Line
    <3>3. \A q \in Request : RegisterOf(q, d) => q \notin new
      BY <1>6, <1>7, <2>1
    <3>4. \A q \in Request : RegisterOf(q, d)' => q \notin stored' /\ ~Sent(q)'
      BY <1>3, <1>4, <1>6, <2>4, <3>2, <3>3
    <3>. QED
      BY <3>1, <3>4 DEF WillGo
  <2>. QED
    BY <2>1, <2>2, <2>3, <2>4 DEF Wired, InStep, WillGo
<1>11. WillCome(d)'
  <2>1. SUFFICES ASSUME ~revoked[d], secret[d] # None, broker[d] = None PROVE WillCome(d)'
    BY <1>0 DEF WillCome
  <2>2. PICK q \in Request : RegisterOf(q, d) /\ (Unsent(q) \/ q \in stored \/ Commanded(q))
    BY <2>1 DEF Wired, InStep, WillCome
  <2>3. Unsent(q)' \/ q \in stored'
    BY <1>0, <1>2, <1>3, <2>2, Line
  <2>. QED
    BY <1>6, <2>2, <2>3 DEF WillCome
<1>12. Synced(d)'
  <2>1. SUFFICES ASSUME ~revoked[d], Quiet(d)', Nothing(d)' PROVE broker[d] = secret[d]
    BY <1>0 DEF Synced
  <2>2. \A q \in Request : Of(q, d) => q \notin new /\ q \notin stored /\ ~Sent(q)
    BY <1>3, <1>6, <2>1 DEF Nothing
  <2>3. Quiet(d)
    BY <1>2, <1>6, <2>1, <2>2 DEF Quiet
  <2>4. Nothing(d)
    BY <1>0, <2>2, Line DEF Nothing
  <2>. QED
    BY <2>1, <2>3, <2>4 DEF Wired, InStep, Synced
<1>. QED
  BY <1>8, <1>9, <1>10, <1>11, <1>12 DEF InStep

(* The broker carries out the first command, as far as it is possible.     *)
LEMMA Executes ==
  ASSUME NEW d \in Device, Wired(d), Execute
  PROVE  InStep(d)'
<1>0. /\ TypeOK /\ Lanes /\ TypeOK' /\ Lanes' /\ executed \subseteq Request
      /\ broker \in [Device -> Request \cup {None}]
      /\ secret \in [Device -> Request \cup {None}]
      /\ op \in [Request -> [kind : Kind, device : Device \cup {None}]]
      /\ UNCHANGED <<secret, revoked, op>>
  BY WiredFacts DEF TypeOK, Wired
<1>1. PICK h \in Request :
        /\ h = sent[done + 1] /\ Commanded(h) /\ Sent(h)
        /\ \A q \in Request : /\ Sent(q)' <=> Sent(q)
                              /\ Commanded(q)' <=> Commanded(q) /\ q # h
                              /\ Commanded(q)' => Before(h, q)
                              /\ Before(h, q) => Commanded(q)
        /\ \A p, q \in Request : Before(p, q)' <=> Before(p, q)
  BY <1>0, LineAdvances DEF Execute, Carries
<1>2. /\ UNCHANGED <<stored, pc>>
      /\ broker' = IF Possible(h)
                   THEN [broker EXCEPT ![op[h].device] = IF op[h].kind = "revoke" THEN None ELSE h]
                   ELSE broker
  BY <1>1 DEF Execute
<1>3. Came(h) /\ h # None /\ op[h].kind \in Kind
  BY <1>0, <1>1, DeviceAdminAssumption DEF Came, Live, OnWay
<1>4. \A q \in Request : /\ Of(q, d)' <=> Of(q, d)
                         /\ RegisterOf(q, d)' <=> RegisterOf(q, d)
                         /\ RevokeOf(q, d)' <=> RevokeOf(q, d)
                         /\ RegisterOf(q, d) \/ RevokeOf(q, d) => Of(q, d)
  BY WiredFacts DEF RegisterOf, RevokeOf, Of
<1>5. \A q \in Request : (InFlight(q)' <=> InFlight(q)) /\ (Unsent(q)' <=> Unsent(q))
  BY <1>2 DEF InFlight, Unsent
<1>6. CASE ~Of(h, d)
  <2>1. broker'[d] = broker[d]
    BY <1>0, <1>2, <1>6 DEF Of
  <2>2. \A q \in Request : Of(q, d) => (Commanded(q)' <=> Commanded(q))
    BY <1>1, <1>6
  <2>3. InStep(d) /\ secret'[d] = secret[d] /\ revoked'[d] = revoked[d] /\ \A q \in Request : op'[q] = op[q]
    BY <1>0 DEF Wired
  <2>. QED
    BY <1>0, <1>1, <1>2, <1>4, <1>5, <2>1, <2>2, <2>3, Steady
<1>7. CASE Of(h, d)
  <2>1. /\ broker'[d] = IF Possible(h) THEN IF op[h].kind = "revoke" THEN None ELSE h ELSE broker[d]
        /\ Possible(h) <=> (op[h].kind = "register" <=> broker[d] = None)
    BY <1>0, <1>2, <1>7 DEF Of, Possible
  <2>2. /\ op[h].kind = "revoke" => revoked[d]
        /\ op[h].kind = "rotate" => op[secret[d]].kind # "register"
    BY <1>3, <1>7 DEF Wired, Remembered, Of
  <2>3. Alone(d)' /\ (Quiet(d)' <=> Quiet(d))
    BY <1>0, <1>4, <1>5, AloneStays DEF Wired, Quiet
  <2>4. LastWins(d)'
    <3>1. \A q \in Request : (q \in stored' <=> q \in stored)
      BY <1>2
    <3>. QED
      BY <1>0, <1>1, <1>4, <2>3, <3>1 DEF Wired, InStep, LastWins
  <2>5. WillGo(d)'
    <3>1. SUFFICES ASSUME revoked[d] PROVE WillGo(d)'
      BY <1>0 DEF WillGo
    <3>2. CASE \E q \in Request : RevokeOf(q, d) /\ (Unsent(q) \/ q \in stored)
      BY <1>2, <1>4, <1>5, <3>2 DEF WillGo
    <3>3. ASSUME \A q \in Request : RegisterOf(q, d) =>
                   q \notin stored /\ (Sent(q) => \E p \in Request : RevokeOf(p, d) /\ Before(q, p)),
                 broker[d] = None \/ \E q \in Request : RevokeOf(q, d) /\ Commanded(q)
          PROVE  WillGo(d)'
      <4>1. \A q \in Request : RegisterOf(q, d)' =>
               q \notin stored' /\ (Sent(q)' => \E p \in Request : RevokeOf(p, d)' /\ Before(q, p)')
        BY <1>1, <1>2, <1>4, <3>3
      <4>2. CASE op[h].kind = "register"
        <5>1. PICK p \in Request : RevokeOf(p, d) /\ Before(h, p)
          BY <1>1, <1>7, <3>3, <4>2 DEF RegisterOf, Of
        <5>2. p # h /\ Commanded(p)
          BY <1>0, <1>1, <5>1, Line
        <5>. QED
          BY <1>1, <1>4, <4>1, <5>1, <5>2 DEF WillGo
      <4>3. CASE op[h].kind = "revoke"
        <5>1. broker'[d] = None
          BY <2>1, <4>3
        <5>. QED
          BY <4>1, <5>1 DEF WillGo
      <4>4. CASE op[h].kind = "rotate"
        <5>1. broker[d] = None => broker'[d] = None
          BY <2>1, <4>4
        <5>2. \A q \in Request : RevokeOf(q, d) /\ Commanded(q) => RevokeOf(q, d)' /\ Commanded(q)'
          BY <1>1, <1>4, <4>4 DEF RevokeOf
        <5>. QED
          BY <3>3, <4>1, <5>1, <5>2 DEF WillGo
      <4>. QED
        BY <1>3, <4>2, <4>3, <4>4 DEF Kind
    <3>. QED
      BY <3>1, <3>2, <3>3 DEF Wired, InStep, WillGo
  <2>6. WillCome(d)'
    <3>1. SUFFICES ASSUME ~revoked[d], secret[d] # None, broker'[d] = None PROVE WillCome(d)'
      BY <1>0 DEF WillCome
    <3>2. op[h].kind # "revoke"
      BY <2>2, <3>1
    <3>3. broker[d] = None /\ op[h].kind # "register"
      BY <1>3, <2>1, <3>1, <3>2
    <3>4. PICK q \in Request : RegisterOf(q, d) /\ (Unsent(q) \/ q \in stored \/ Commanded(q))
      BY <3>1, <3>3 DEF Wired, InStep, WillCome
    <3>5. q # h
      BY <3>3, <3>4 DEF RegisterOf
    <3>. QED
      BY <1>1, <1>2, <1>4, <1>5, <3>4, <3>5 DEF WillCome
  <2>7. Synced(d)'
    <3>1. SUFFICES ASSUME ~revoked[d], Quiet(d), Nothing(d)' PROVE broker'[d] = secret[d]
      BY <1>0, <2>3 DEF Synced
    <3>2. \A q \in Request : Of(q, d) /\ q # h => q \notin stored /\ ~Commanded(q)
      BY <1>1, <1>2, <1>4, <3>1 DEF Nothing
    <3>3. secret[d] = h
      <4>1. \A p \in Request : Before(h, p) => ~Of(p, d)
        BY <1>0, <1>1, <3>2, Line
      <4>. QED
        BY <1>1, <1>7, <3>1, <4>1 DEF Wired, InStep, LastWins
    <3>4. op[h].kind # "revoke"
      BY <2>2, <3>1
    <3>5. CASE op[h].kind = "rotate"
      <4>1. \A q \in Request : RegisterOf(q, d) => q # h /\ ~Unsent(q) /\ ~Commanded(q) /\ q \notin stored
        BY <1>4, <3>1, <3>2, <3>5 DEF Quiet, RegisterOf
      <4>2. broker[d] # None
        BY <1>3, <3>1, <3>3, <4>1 DEF Wired, InStep, WillCome
      <4>. QED
        BY <2>1, <3>3, <3>5, <4>2
    <3>6. CASE op[h].kind = "register"
      <4>1. CASE broker[d] = None
        BY <2>1, <3>3, <3>6, <4>1
      <4>2. CASE broker[d] # None
        <5>1. PICK b \in Request : b = broker[d]
          BY <1>0, <4>2
        <5>2. b \in executed /\ op[b].device = d /\ op[b].kind \in {"register", "rotate"}
          BY <1>0, <4>2, <5>1 DEF Wired, Known, Kind
        <5>3. Came(b)
          BY <5>2 DEF Came
        <5>4. op[b].kind = "register"
          BY <3>3, <3>6, <5>2, <5>3 DEF Wired, Remembered
        <5>5. b = h
          BY <1>3, <1>7, <3>6, <5>2, <5>3, <5>4 DEF Wired, GInv, OneRegister, RegisterOf, Of
        <5>. QED
          BY <2>1, <3>3, <3>6, <4>2, <5>1, <5>5
      <4>. QED
        BY <4>1, <4>2
    <3>. QED
      BY <1>3, <3>4, <3>5, <3>6 DEF Kind
  <2>. QED
    BY <2>3, <2>4, <2>5, <2>6, <2>7 DEF InStep
<1>. QED
  BY <1>6, <1>7

(* A command that was carried out is forgotten.                            *)
LEMMA Acknowledges ==
  ASSUME NEW d \in Device, Wired(d), Forgets, UNCHANGED <<broker, pc>>
  PROVE  InStep(d)'
<1>0. TypeOK /\ Lanes /\ UNCHANGED <<secret, revoked, op, stored>>
  BY WiredFacts DEF Wired, Forgets
<1>1. PICK h \in Request :
        /\ ~Commanded(h)
        /\ \A q \in Request : /\ Sent(q)' <=> Sent(q) /\ q # h
                              /\ Commanded(q)' <=> Commanded(q)
                              /\ ~Before(q, h)
        /\ \A p, q \in Request : Before(p, q)' <=> Before(p, q) /\ p # h
  BY <1>0, LineShrinks
<1>2. \A q \in Request : (InFlight(q)' <=> InFlight(q)) /\ (Unsent(q)' <=> Unsent(q))
  BY DEF InFlight, Unsent
<1>3. \A q \in Request : /\ Of(q, d)' <=> Of(q, d)
                         /\ RegisterOf(q, d)' <=> RegisterOf(q, d)
                         /\ RevokeOf(q, d)' <=> RevokeOf(q, d)
  BY WiredFacts
<1>4. Alone(d)'
  BY <1>0, <1>2, AloneStays DEF Wired
<1>5. (Quiet(d)' <=> Quiet(d)) /\ (Nothing(d)' <=> Nothing(d))
  BY <1>0, <1>1, <1>2, <1>3 DEF Quiet, Nothing
<1>6. LastWins(d)'
  BY <1>0, <1>1, <1>3, <1>5 DEF Wired, InStep, LastWins
<1>7. WillGo(d)'
  <2>1. SUFFICES ASSUME revoked[d] PROVE WillGo(d)'
    BY <1>0 DEF WillGo
  <2>2. CASE \E q \in Request : RevokeOf(q, d) /\ (Unsent(q) \/ q \in stored)
    BY <1>0, <1>2, <1>3, <2>2 DEF WillGo
  <2>3. ASSUME \A q \in Request : RegisterOf(q, d) =>
                 q \notin stored /\ (Sent(q) => \E p \in Request : RevokeOf(p, d) /\ Before(q, p)),
               broker[d] = None \/ \E q \in Request : RevokeOf(q, d) /\ Commanded(q)
        PROVE  WillGo(d)'
    <3>1. \A q \in Request : RegisterOf(q, d)' =>
             q \notin stored' /\ (Sent(q)' => \E p \in Request : RevokeOf(p, d)' /\ Before(q, p)')
      BY <1>0, <1>1, <1>3, <2>3
    <3>2. broker'[d] = None \/ \E q \in Request : RevokeOf(q, d)' /\ Commanded(q)'
      BY <1>1, <1>3, <2>3
    <3>. QED
      BY <3>1, <3>2 DEF WillGo
  <2>. QED
    BY <2>1, <2>2, <2>3 DEF Wired, InStep, WillGo
<1>8. WillCome(d)'
  BY <1>0, <1>1, <1>2, <1>3 DEF Wired, InStep, WillCome
<1>9. Synced(d)'
  BY <1>0, <1>5 DEF Wired, InStep, Synced
<1>. QED
  BY <1>4, <1>6, <1>7, <1>8, <1>9 DEF InStep

(* A new connection: what the old one carried and the broker did not read  *)
(* is to be sent again.                                                    *)
LEMMA Reconnects ==
  ASSUME NEW d \in Device, Wired(d), Connects, UNCHANGED <<broker, pc>>
  PROVE  InStep(d)'
<1>0. TypeOK /\ Lanes /\ UNCHANGED <<secret, revoked, op, stored>> /\ \A q \in Request : Sent(q) => q \in stored
  BY WiredFacts DEF Wired, Connects
<1>1. \A q \in Request : ~Sent(q)' /\ ~Commanded(q)'
  <2>1. Len(sent') = 0 /\ done' = 0
    BY <1>0, SentStep DEF Connects
  <2>. QED
    BY <2>1 DEF Sent, Commanded
<1>2. \A q \in Request : (InFlight(q)' <=> InFlight(q)) /\ (Unsent(q)' <=> Unsent(q))
  BY DEF InFlight, Unsent
<1>3. \A q \in Request : /\ Of(q, d)' <=> Of(q, d)
                         /\ RegisterOf(q, d)' <=> RegisterOf(q, d)
                         /\ RevokeOf(q, d)' <=> RevokeOf(q, d)
  BY WiredFacts
<1>4. \A q \in Request : Commanded(q) => q \in stored
  BY <1>0, Line
<1>5. Alone(d)'
  BY <1>0, <1>2, AloneStays DEF Wired
<1>6. (Quiet(d)' <=> Quiet(d)) /\ (Nothing(d)' => Nothing(d))
  BY <1>0, <1>2, <1>3, <1>4 DEF Quiet, Nothing
<1>7. LastWins(d)'
  BY <1>0, <1>1, <1>3, <1>6 DEF Wired, InStep, LastWins
<1>8. WillGo(d)'
  BY <1>0, <1>1, <1>2, <1>3, <1>4 DEF Wired, InStep, WillGo
<1>9. WillCome(d)'
  BY <1>0, <1>2, <1>3, <1>4 DEF Wired, InStep, WillCome
<1>10. Synced(d)'
  BY <1>0, <1>6 DEF Wired, InStep, Synced
<1>. QED
  BY <1>5, <1>7, <1>8, <1>9, <1>10 DEF InStep

(* A command is sent again, the only one of its device's.                  *)
LEMMA Resends ==
  ASSUME NEW d \in Device, Wired(d), NEW r \in Request, Repeats(r), UNCHANGED <<broker, pc>>
  PROVE  InStep(d)'
<1>0. /\ TypeOK /\ Lanes /\ TypeOK' /\ Lanes' /\ UNCHANGED <<secret, revoked, op>>
      /\ r \in stored /\ stored' = stored \ {r} /\ sent' = Append(sent, r) /\ done' = done /\ link # "down"
  BY WiredFacts DEF Wired, Repeats
<1>1. \A p, q \in Request : /\ Sent(q)' <=> Sent(q) \/ q = r
                            /\ Commanded(q)' <=> Commanded(q) \/ q = r
                            /\ Before(p, q)' <=> Before(p, q) \/ (Sent(p) /\ q = r)
  BY <1>0, LineGrows
<1>2. \A q \in Request : (InFlight(q)' <=> InFlight(q)) /\ (Unsent(q)' <=> Unsent(q))
  BY DEF InFlight, Unsent
<1>3. \A q \in Request : /\ Of(q, d)' <=> Of(q, d)
                         /\ RegisterOf(q, d)' <=> RegisterOf(q, d)
                         /\ RevokeOf(q, d)' <=> RevokeOf(q, d)
                         /\ RegisterOf(q, d) \/ RevokeOf(q, d) => Of(q, d)
  BY WiredFacts DEF RegisterOf, RevokeOf, Of
<1>4. CASE ~Of(r, d)
  <2>1. InStep(d) /\ \A q \in Request : op'[q] = op[q]
    BY <1>0 DEF Wired
  <2>2. \A q \in Request : Of(q, d) => /\ q \in stored' <=> q \in stored
                                       /\ Sent(q)' <=> Sent(q)
                                       /\ Commanded(q)' <=> Commanded(q)
    BY <1>0, <1>1, <1>4
  <2>3. \A p, q \in Request : Of(q, d) => (Before(p, q)' <=> Before(p, q))
    BY <1>1, <1>4
  <2>. QED
    BY <1>0, <1>2, <1>3, <2>1, <2>2, <2>3, Steady
<1>5. CASE Of(r, d)
  <2>1. \A q \in Request : Of(q, d) => ~Sent(q) /\ ~Commanded(q) /\ q \notin stored'
    BY <1>0, <1>5, WiredFacts, Line
  <2>2. \A q \in Request : Of(q, d) /\ q \in stored => q = r
    BY <1>0, <1>5, WiredFacts
  <2>3. Alone(d)' /\ (Quiet(d)' <=> Quiet(d))
    BY <1>0, <1>2, <1>3, AloneStays DEF Wired, Quiet
  <2>4. LastWins(d)'
    BY <1>0, <1>1, <1>3, <1>5, <2>1, <2>3 DEF Wired, InStep, LastWins
  <2>5. WillGo(d)'
    <3>1. SUFFICES ASSUME revoked[d] PROVE WillGo(d)'
      BY <1>0 DEF WillGo
    <3>2. CASE \E q \in Request : RevokeOf(q, d) /\ Unsent(q)
      BY <1>2, <1>3, <3>2 DEF WillGo
    <3>3. CASE RevokeOf(r, d)
      <4>1. Commanded(r)' /\ RevokeOf(r, d)'
        BY <1>1, <1>3, <3>3
      <4>2. \A q \in Request : RegisterOf(q, d)' => q \notin stored' /\ ~Sent(q)'
        BY <1>1, <1>3, <2>1, <3>3 DEF RegisterOf, RevokeOf
      <4>. QED
        BY <4>1, <4>2 DEF WillGo
    <3>4. CASE ~RevokeOf(r, d) /\ \A q \in Request : RevokeOf(q, d) => ~Unsent(q)
      <4>1. ~RegisterOf(r, d) /\ broker[d] = None
        BY <1>0, <1>3, <2>1, <2>2, <3>1, <3>4 DEF Wired, InStep, WillGo
      <4>2. \A q \in Request : RegisterOf(q, d)' => q \notin stored' /\ ~Sent(q)'
        BY <1>1, <1>3, <2>1, <4>1
      <4>. QED
        BY <4>1, <4>2 DEF WillGo
    <3>. QED
      BY <3>2, <3>3, <3>4
  <2>6. WillCome(d)'
    BY <1>0, <1>1, <1>2, <1>3, <2>1, <2>2 DEF Wired, InStep, WillCome
  <2>7. ~Nothing(d)'
    BY <1>1, <1>3, <1>5 DEF Nothing
  <2>. QED
    BY <2>3, <2>4, <2>5, <2>6, <2>7 DEF InStep, Synced
<1>. QED
  BY <1>4, <1>5

(* The process dies, and no command of the device's with it.               *)
LEMMA Restarts ==
  ASSUME NEW d \in Device, Wired(d), Restart
  PROVE  InStep(d)'
<1>0. /\ TypeOK /\ Lanes /\ Len(sent) \in Nat /\ done \in 0..Len(sent)
      /\ UNCHANGED <<secret, revoked, op, broker>>
      /\ pc \in [Request -> {"idle", "stored", "drained", "waiting", "returned"}]
  BY WiredFacts, SentStep DEF Wired, Restart, TypeOK
<1>1. \A q \in Request : ~Sent(q)' /\ ~Commanded(q)' /\ q \notin stored' /\ ~InFlight(q)' /\ ~Unsent(q)'
  <2>1. Len(sent') = 0 /\ done' = 0 /\ stored' = {}
    BY DEF Restart
  <2>2. \A q \in Request : pc'[q] \notin {"stored", "drained", "waiting"}
    BY <1>0 DEF Restart, InFlight
  <2>. QED
    BY <2>1, <2>2 DEF Sent, Commanded, InFlight, Unsent
<1>2. \A q \in Request : q \in stored \/ Commanded(q) \/ Unsent(q) => ~Of(q, d)
  <2>1. \A q \in Request : q \in unsynced' => ~Of(q, d)
    BY <1>0 DEF Wired, Clean, Of
  <2>2. \A q \in Request : Unsent(q) => InFlight(q) /\ pc[q] # "waiting"
    BY DEF Unsent, InFlight
  <2>3. \A q \in Request : q \in stored \/ Commanded(q) \/ Unsent(q) => q \in unsynced'
    BY <2>2 DEF Restart, Commanded
  <2>. QED
    BY <2>1, <2>3
<1>3. \A q \in Request : RegisterOf(q, d) \/ RevokeOf(q, d) => Of(q, d)
  BY DEF RegisterOf, RevokeOf, Of
<1>4. Quiet(d) /\ Nothing(d)
  BY <1>2 DEF Quiet, Nothing
<1>5. Alone(d)' /\ LastWins(d)'
  BY <1>1 DEF Alone, LastWins
<1>6. WillGo(d)'
  BY <1>0, <1>1, <1>2, <1>3 DEF Wired, InStep, WillGo
<1>7. WillCome(d)'
  BY <1>0, <1>2, <1>3 DEF Wired, InStep, WillCome
<1>8. Synced(d)'
  BY <1>0, <1>4 DEF Wired, InStep, Synced
<1>. QED
  BY <1>5, <1>6, <1>7, <1>8 DEF InStep

(* A statement on the device, with no other request in flight there.       *)
LEMMA Stores ==
  ASSUME GInv, Known, Remembered, Next, NEW d \in Device, InStep(d), Clean(d)',
         NEW r \in Request, NEW kind \in Kind, Store(r, kind, d)
  PROVE  InStep(d)'
<1>0. /\ IInv /\ Begun /\ pc \in [Request -> {"idle", "stored", "drained", "waiting", "returned"}]
      /\ secret \in [Device -> Request \cup {None}] /\ revoked \in [Device -> BOOLEAN]
      /\ op \in [Request -> [kind : Kind, device : Device \cup {None}]]
      /\ TypeOK /\ Lanes
  BY DEF GInv, IInv, TypeOK
<1>1. Row(r, kind, d) /\ Accepted(kind, d) /\ pc[r] = "idle" /\ pc' = [pc EXCEPT ![r] = "stored"]
  BY DEF Store
<1>2. /\ op' = [op EXCEPT ![r] = [kind |-> kind, device |-> d]]
      /\ UNCHANGED <<sent, done, stored, broker>>
  BY <1>1 DEF Row, wire
<1>3. \A q \in Request : InFlight(q) => ~Of(q, d)
  BY <1>1 DEF Row, Clean, Of
<1>4. \A q \in Request : InFlight(q)' /\ Of(q, d)' => q = r
  BY <1>0, <1>1, <1>2, <1>3 DEF InFlight, Of
<1>5. Unsent(r)' /\ op'[r] = [kind |-> kind, device |-> d]
  BY <1>0, <1>1, <1>2 DEF Unsent
<1>6. ~Quiet(d)'
  BY <1>5 DEF Quiet, Of
<1>7. Alone(d)'
  <2>1. kind # "revoke" => secret'[d] = r
    BY <1>0, <1>1 DEF Row
  <2>2. kind = "register" => ~revoked'[d]
    BY <1>0, <1>1 DEF Row
  <2>. QED
    BY <1>4, <1>5, <2>1, <2>2 DEF Alone
<1>8. \A p, q \in Request : /\ (Sent(q)' <=> Sent(q)) /\ (Commanded(q)' <=> Commanded(q))
                            /\ (Before(p, q)' <=> Before(p, q)) /\ (q \in stored' <=> q \in stored)
  BY <1>2 DEF Sent, Commanded, Before
<1>9. \A q \in Request : q \in stored \/ Sent(q) \/ Commanded(q) =>
        /\ RegisterOf(q, d)' <=> RegisterOf(q, d)
        /\ RevokeOf(q, d)' <=> RevokeOf(q, d)
  <2>1. \A q \in Request : q \in stored \/ Sent(q) \/ Commanded(q) => OnWay(q)
    BY <1>0, Line DEF OnWay
  <2>. QED
    BY <1>0, <2>1, CameBefore DEF RegisterOf, RevokeOf
<1>10. \A q \in Request : Unsent(q) => ~RegisterOf(q, d) /\ ~RevokeOf(q, d)
  BY <1>3 DEF InFlight, Unsent, RegisterOf, RevokeOf, Of
<1>11. WillGo(d)'
  <2>1. CASE kind = "register"
    BY <1>0, <1>1, <2>1 DEF Row, WillGo
  <2>2. CASE kind = "revoke"
    BY <1>5, <2>2 DEF WillGo, RevokeOf
  <2>3. CASE kind = "rotate"
    <3>1. revoked' = revoked
      BY <1>1, <2>3 DEF Row
    <3>2. SUFFICES ASSUME revoked[d] PROVE WillGo(d)'
      BY <3>1 DEF WillGo
    <3>3. CASE \E q \in Request : RevokeOf(q, d) /\ (Unsent(q) \/ q \in stored)
      BY <1>8, <1>9, <1>10, <3>3 DEF WillGo
    <3>4. ASSUME \A q \in Request : RegisterOf(q, d) =>
                   q \notin stored /\ (Sent(q) => \E p \in Request : RevokeOf(p, d) /\ Before(q, p)),
                 broker[d] = None \/ \E q \in Request : RevokeOf(q, d) /\ Commanded(q)
          PROVE  WillGo(d)'
      <4>1. \A q \in Request : RegisterOf(q, d)' =>
               q \notin stored' /\ (Sent(q)' => \E p \in Request : RevokeOf(p, d)' /\ Before(q, p)')
        BY <1>0, <1>8, <1>9, <3>4, Line
      <4>2. broker'[d] = None \/ \E q \in Request : RevokeOf(q, d)' /\ Commanded(q)'
        BY <1>2, <1>8, <1>9, <3>4
      <4>. QED
        BY <4>1, <4>2 DEF WillGo
    <3>. QED
      BY <3>2, <3>3, <3>4 DEF InStep, WillGo
  <2>. QED
    BY <2>1, <2>2, <2>3 DEF Kind
<1>12. WillCome(d)'
  <2>1. CASE kind = "register"
    BY <1>5, <2>1 DEF WillCome, RegisterOf
  <2>2. CASE kind = "revoke"
    BY <1>0, <1>1, <2>2 DEF Row, WillCome
  <2>3. CASE kind = "rotate"
    <3>1. revoked' = revoked /\ secret[d] # None
      BY <1>1, <2>3 DEF Row, Accepted
    <3>2. ~revoked[d] => \/ broker[d] # None
                         \/ \E q \in Request : RegisterOf(q, d) /\ (q \in stored \/ Commanded(q))
      BY <1>10, <3>1 DEF InStep, WillCome
    <3>. QED
      BY <1>2, <1>8, <1>9, <3>1, <3>2 DEF WillCome
  <2>. QED
    BY <2>1, <2>2, <2>3 DEF Kind
<1>. QED
  BY <1>6, <1>7, <1>11, <1>12 DEF InStep, LastWins, Synced

LEMMA InStepStep ==
  ASSUME GInv, Known, Remembered, Next, NEW d \in Device, InStep(d), Clean(d)'
  PROVE  InStep(d)'
<1>0. /\ IInv /\ TypeOK /\ Lanes /\ TypeOK' /\ Lanes'
      /\ pc \in [Request -> {"idle", "stored", "drained", "waiting", "returned"}]
      /\ op \in [Request -> [kind : Kind, device : Device \cup {None}]]
  BY InvStep DEF GInv, IInv, TypeOK
<1>1. ASSUME UNCHANGED lane
      PROVE  \A p, q \in Request : /\ (Sent(q)' <=> Sent(q)) /\ (Commanded(q)' <=> Commanded(q))
                                   /\ (Before(p, q)' <=> Before(p, q)) /\ (q \in stored' <=> q \in stored)
  BY <1>1 DEF lane, Sent, Commanded, Before
<1>2. ASSUME secret'[d] = secret[d], revoked'[d] = revoked[d], broker' = broker, UNCHANGED lane,
             \A q \in Request : Of(q, d) \/ Of(q, d)' =>
               \/ Passive(q) /\ ~InFlight(q)' /\ ~Unsent(q)'
               \/ /\ op'[q] = op[q] /\ (InFlight(q)' => InFlight(q)) /\ (Unsent(q)' <=> Unsent(q))
      PROVE  InStep(d)'
  <2>1. broker'[d] = broker[d]
    BY <1>2
  <2>2. \A q \in Request : Passive(q) /\ ~InFlight(q)' /\ ~Unsent(q)' => Passive(q)'
    BY <1>1, <1>2 DEF Passive
  <2>. QED
    BY <1>0, <1>1, <1>2, <2>1, <2>2, Steady
<1>3. \A q \in Request : pc[q] = "idle" => Passive(q)
  <2>1. \A q \in Request : pc[q] = "idle" => ~OnWay(q)
    BY <1>0 DEF IInv, NotYet, Nowhere
  <2>. QED
    BY <1>0, <2>1, Line DEF Passive, OnWay, InFlight, Unsent
<1>4. ASSUME NEW r \in Request, NEW kind \in Kind, NEW e \in Device,
             Store(r, kind, e) \/ StoreUnanswered(r, kind, e) \/ Refuse(r, kind, e)
      PROVE  InStep(d)'
  <2>1. CASE Store(r, kind, e) /\ e = d
    BY <2>1, Stores
  <2>2. CASE StoreUnanswered(r, kind, e) /\ e = d
    BY <1>0, <2>2 DEF StoreUnanswered, Row, Clean
  <2>3. CASE Refuse(r, kind, e) \/ ((Store(r, kind, e) \/ StoreUnanswered(r, kind, e)) /\ e # d)
    <3>1. /\ pc[r] = "idle" /\ UNCHANGED <<broker, lane>>
          /\ op' = [op EXCEPT ![r] = [kind |-> kind, device |-> e]]
          /\ pc'[r] \in {"stored", "returned"} /\ (pc'[r] = "returned" \/ e # d)
          /\ \A q \in Request : q # r => pc'[q] = pc[q]
      BY <1>0, <2>3 DEF Store, StoreUnanswered, Refuse, Row, Return, wire, lane
    <3>2. secret'[d] = secret[d] /\ revoked'[d] = revoked[d]
      <4>1. CASE Refuse(r, kind, e)
        BY <4>1 DEF Refuse
      <4>2. CASE Row(r, kind, e) /\ e # d
        BY <1>0, <4>2 DEF TypeOK, Row, Kind
      <4>. QED
        BY <2>3, <4>1, <4>2 DEF Store, StoreUnanswered
    <3>3. ASSUME NEW q \in Request, Of(q, d) \/ Of(q, d)'
          PROVE  \/ Passive(q) /\ ~InFlight(q)' /\ ~Unsent(q)'
                 \/ /\ op'[q] = op[q] /\ (InFlight(q)' => InFlight(q)) /\ (Unsent(q)' <=> Unsent(q))
      <4>1. CASE q # r
        BY <1>0, <3>1, <4>1 DEF InFlight, Unsent
      <4>2. CASE q = r /\ pc'[r] = "returned"
        BY <1>3, <3>1, <4>2 DEF InFlight, Unsent
      <4>3. CASE q = r /\ e # d
        <5>1. ~Of(q, d)
          BY <3>1, <4>3 DEF Known, Of
        <5>2. ~Of(q, d)'
          BY <1>0, <3>1, <4>3 DEF Of
        <5>. QED
          BY <3>3, <5>1, <5>2
      <4>. QED
        BY <3>1, <4>1, <4>2, <4>3
    <3>. QED
      BY <1>2, <3>1, <3>2, <3>3
  <2>. QED
    BY <1>4, <2>1, <2>2, <2>3
<1>5. ASSUME NEW r \in Request, Lock(r) \/ Receive(r) \/ GiveUp(r)
      PROVE  InStep(d)'
  <2>1. /\ UNCHANGED <<secret, revoked, broker, lane, op>>
        /\ \A q \in Request : q # r => pc'[q] = pc[q]
        /\ (pc[r] = "stored" /\ pc'[r] = "drained") \/ (pc[r] = "waiting" /\ pc'[r] = "returned")
    BY <1>0, <1>5 DEF Lock, Receive, GiveUp, Return, wire, lane
  <2>2. \A q \in Request : /\ op'[q] = op[q] /\ (InFlight(q)' => InFlight(q)) /\ (Unsent(q)' <=> Unsent(q))
    BY <1>0, <2>1 DEF InFlight, Unsent
  <2>. QED
    BY <1>2, <2>1, <2>2
<1>6. CASE Deliver
  <2>1. UNCHANGED <<secret, revoked, broker, lane, op, pc>>
    BY <1>6 DEF Deliver, lane
  <2>2. \A q \in Request : /\ op'[q] = op[q] /\ (InFlight(q)' => InFlight(q)) /\ (Unsent(q)' <=> Unsent(q))
    BY <2>1 DEF InFlight, Unsent
  <2>. QED
    BY <1>2, <2>1, <2>2
<1>7. UNCHANGED <<secret, revoked, op>> => Wired(d)
  BY DEF Wired
<1>8. ASSUME NEW r \in Request, Publish(r)
      PROVE  InStep(d)'
  <2>1. /\ UNCHANGED <<secret, revoked, broker, op>> /\ pc[r] = "drained"
        /\ pc' = [pc EXCEPT ![r] = "waiting"] /\ (Adds(r) \/ Keeps(r))
    BY <1>8 DEF Publish, Adds, Keeps
  <2>. QED
    BY <1>7, <2>1, Publishes
<1>9. ASSUME NEW r \in Request, PublishFails(r)
      PROVE  InStep(d)'
  <2>1. /\ UNCHANGED <<secret, revoked, broker, op>> /\ pc[r] = "drained"
        /\ pc' = [pc EXCEPT ![r] = "returned"]
        /\ Breaks({r}) \/ (UNCHANGED lane /\ r \in unsynced')
    BY <1>9 DEF PublishFails, Return, Breaks, Break, wire, lane
  <2>2. CASE Breaks({r})
    BY <1>7, <2>1, <2>2, Loses
  <2>3. CASE UNCHANGED lane /\ r \in unsynced'
    <3>1. ~Of(r, d) /\ ~Of(r, d)'
      BY <2>1, <2>3 DEF Clean, Of
    <3>2. \A q \in Request : q # r => /\ op'[q] = op[q] /\ (InFlight(q)' => InFlight(q))
                                      /\ (Unsent(q)' <=> Unsent(q))
      BY <1>0, <2>1 DEF InFlight, Unsent
    <3>. QED
      BY <1>2, <2>1, <2>3, <3>1, <3>2
  <2>. QED
    BY <2>1, <2>2, <2>3
<1>10. CASE Disconnect
  <2>1. Breaks({}) /\ UNCHANGED <<secret, revoked, op, pc, broker>>
    BY <1>10 DEF Disconnect, Break, Breaks
  <2>. QED
    BY <1>7, <2>1, Loses
<1>11. CASE Execute
  BY <1>7, <1>11, Executes DEF Execute
<1>12. CASE Acknowledge
  BY <1>7, <1>12, Acknowledges DEF Acknowledge, Forgets
<1>13. CASE Reconnect
  BY <1>7, <1>13, Reconnects DEF Reconnect, Connects
<1>14. ASSUME NEW r \in Request, Resend(r)
       PROVE  InStep(d)'
  BY <1>7, <1>14, Resends DEF Resend, Repeats
<1>15. CASE Restart
  BY <1>7, <1>15, Restarts DEF Restart
<1>. QED
  BY <1>4, <1>5, <1>6, <1>8, <1>9, <1>10, <1>11, <1>12, <1>13, <1>14, <1>15 DEF Next

LEMMA CInit == Init => CInv
<1>. SUFFICES ASSUME Init PROVE CInv
  OBVIOUS
<1>1. \A q \in Request : ~InFlight(q) /\ ~Unsent(q) /\ ~Sent(q) /\ ~Commanded(q) /\ q \notin stored /\ ~Came(q)
  BY DEF Init, InFlight, Unsent, Sent, Commanded, Came, Live, OnWay
<1>2. Known /\ Remembered
  <2>1. \A q \in Request : op[q].device \notin Device
    BY DeviceAdminAssumption DEF Init
  <2>. QED
    BY <1>1, <2>1 DEF Init, Known, Remembered
<1>3. ASSUME NEW d \in Device PROVE InStep(d)
  BY <1>1 DEF Init, InStep, Alone, LastWins, WillGo, WillCome, Synced
<1>. QED
  BY <1>2, <1>3, GInit DEF CInv

LEMMA CStep == CInv /\ [Next]_vars => CInv'
<1>1. ASSUME CInv, Next PROVE CInv'
  <2>1. GInv' /\ IInv
    BY <1>1, GStep DEF CInv, GInv
  <2>2. Known' /\ Remembered'
    BY <1>1, KnownStep, RememberedStep DEF CInv
  <2>3. ASSUME NEW d \in Device, Clean(d)' PROVE InStep(d)'
    BY <1>1, <2>1, <2>3, CleanStep, InStepStep DEF CInv
  <2>. QED
    BY <2>1, <2>2, <2>3 DEF CInv
<1>2. ASSUME CInv, UNCHANGED vars PROVE CInv'
  <2>1. GInv'
    BY <1>2, GStep DEF CInv
  <2>2. TypeOK /\ Lanes /\ TypeOK' /\ Lanes'
    BY <1>2, <2>1 DEF CInv, GInv, IInv
  <2>3. UNCHANGED <<secret, revoked, op, pc, sent, done, stored, mixed, broker, executed, unsynced, overlapped>>
    BY <1>2 DEF vars, wire
  <2>4. \A p, q \in Request : /\ (InFlight(q)' <=> InFlight(q)) /\ (Unsent(q)' <=> Unsent(q))
                              /\ (Sent(q)' <=> Sent(q)) /\ (Commanded(q)' <=> Commanded(q))
                              /\ (Before(p, q)' <=> Before(p, q)) /\ (Came(q)' <=> Came(q))
    BY <2>3 DEF InFlight, Unsent, Sent, Commanded, Before, Came, Live, OnWay
  <2>5. Known' /\ Remembered'
    BY <1>2, <2>3, <2>4 DEF CInv, Known, Remembered
  <2>6. ASSUME NEW d \in Device, Clean(d)' PROVE InStep(d)'
    <3>1. InStep(d)
      BY <1>2, <2>3, <2>6 DEF CInv, Clean
    <3>2. /\ secret'[d] = secret[d] /\ revoked'[d] = revoked[d] /\ broker'[d] = broker[d]
          /\ \A q \in Request : op'[q] = op[q] /\ (q \in stored' <=> q \in stored)
      BY <2>3
    <3>. QED
      BY <2>2, <2>4, <3>1, <3>2, Steady
  <2>. QED
    BY <2>1, <2>5, <2>6 DEF CInv
<1>. QED
  BY <1>1, <1>2

(* At rest the table and the broker agree about every device at which no   *)
(* requests overlapped, of which no two commands were to be sent again at  *)
(* once and none got lost, for any number of requests and devices, whatever*)
(* timed out, was carried out twice or misread its answer.                 *)
THEOREM HomesAgree == Spec => []CredentialsAgree
<1>1. CInv => CredentialsAgree
  <2>1. SUFFICES ASSUME CInv, AtRest, NEW d \in Device, Clean(d)
                 PROVE  broker[d] = IF revoked[d] THEN None ELSE secret[d]
    BY DEF CredentialsAgree, Clean
  <2>2. InStep(d) /\ Len(sent) \in Nat /\ done = Len(sent) /\ stored = {} /\ \A q \in Request : ~Unsent(q)
    BY <2>1 DEF CInv, GInv, IInv, TypeOK, AtRest, InFlight, Unsent
  <2>3. \A q \in Request : ~Commanded(q)
    BY <2>2 DEF Commanded
  <2>4. Quiet(d) /\ Nothing(d)
    BY <2>2, <2>3 DEF Quiet, Nothing
  <2>5. revoked[d] \in BOOLEAN
    BY <2>1 DEF CInv, GInv, IInv, TypeOK
  <2>6. CASE revoked[d]
    BY <2>2, <2>3, <2>6 DEF InStep, WillGo
  <2>7. CASE ~revoked[d]
    BY <2>2, <2>4, <2>7 DEF InStep, Synced
  <2>. QED
    BY <2>5, <2>6, <2>7
<1>. QED
  BY <1>1, CInit, CStep, PTL DEF Spec
=============================================================================
