-------------------------- MODULE AuditChain_proofs --------------------------
(***************************************************************************)
(* Proofs about AuditChain for every number of sessions, rows, weeks and   *)
(* tamperings.                                                             *)
(***************************************************************************)
EXTENDS AuditChain, SequenceTheorems, WellFoundedInduction, TLAPS

USE AuditChainAssumption

(* A session inside an INSERT has a row in hand.                            *)
InHand == \A w \in Writer : pc[w] # "idle" => new[w] \in Row

TypeInv == TypeOK /\ InHand

LEMMA LastHashType ==
  ASSUME NEW S \in SUBSET Row
  PROVE  LastHash(S) \in Seq(Body)
  <1>1. CASE Newest(S) = {}
    BY <1>1, EmptySeq DEF LastHash
  <1>2. CASE Newest(S) # {}
    <2>1. (CHOOSE row \in Newest(S) : TRUE) \in Row
      BY <1>2 DEF Newest
    <2>. QED
      BY <1>2, <2>1 DEF LastHash, Row
  <1>. QED
    BY <1>1, <1>2

LEMMA TypeInit == Init => TypeInv
  <1>. SUFFICES ASSUME Init PROVE TypeInv
    OBVIOUS
  <1>1. 1 \in 1..MaxWeek /\ <<>> \in Seq(Nat \X Body)
    BY EmptySeq DEF AuditChainAssumption
  <1>2. TypeOK
    BY <1>1 DEF Init, TypeOK
  <1>3. InHand
    BY DEF Init, InHand
  <1>. QED
    BY <1>2, <1>3 DEF TypeInv

LEMMA TypeStep == TypeInv /\ [Next]_vars => TypeInv'
  <1>. SUFFICES ASSUME TypeInv, [Next]_vars PROVE TypeInv'
    OBVIOUS
  <1>. USE DEF TypeInv
  <1>0. <<>> \in Seq(Body)
    BY EmptySeq
  <1>1. ASSUME NEW w \in Writer, NEW body \in Body, Begin(w, body)
        PROVE  TypeInv'
    BY <1>0, <1>1 DEF Begin, TypeOK, InHand, Row
  <1>2. ASSUME NEW w \in Writer, Allocate(w)
        PROVE  TypeInv'
    <2>1. [new[w] EXCEPT !.id = nextId] \in Row
      BY <1>2 DEF Allocate, TypeOK, InHand, Row
    <2>2. new' = [new EXCEPT ![w] = [new[w] EXCEPT !.id = nextId]]
      BY <1>2 DEF Allocate
    <2>3. TypeOK'
      BY <1>2, <2>1, <2>2 DEF Allocate, TypeOK
    <2>4. InHand'
      BY <1>2, <2>1, <2>2 DEF Allocate, TypeOK, InHand
    <2>. QED
      BY <2>3, <2>4
  <1>3. ASSUME NEW w \in Writer, Link(w)
        PROVE  TypeInv'
    <2>1. LastHash(rows) \in Seq(Body) /\ new[w] \in Row
      BY <1>3, LastHashType DEF Link, TypeOK, InHand
    <2>2. Hash(LastHash(rows), new[w].body) \in Seq(Body)
      BY <2>1, AppendProperties DEF Hash, Row
    <2>3. [new[w] EXCEPT !.prev = LastHash(rows),
                         !.hash = Hash(LastHash(rows), new[w].body)] \in Row
      BY <2>1, <2>2 DEF Row
    <2>. QED
      BY <1>3, <2>3 DEF Link, LinkTo, TypeOK, InHand
  <1>4. ASSUME NEW w \in Writer, Commit(w)
        PROVE  TypeInv'
    <2>1. new[w] \in Row /\ <<new[w].id, new[w].body>> \in Nat \X Body
      BY <1>4 DEF Commit, TypeOK, InHand, Row
    <2>2. order' \in Seq(Nat \X Body)
      BY <1>4, <2>1, AppendProperties DEF Commit, TypeOK
    <2>. QED
      BY <1>4, <2>1, <2>2 DEF Commit, End, Unlock, TypeOK, InHand
  <1>5. ASSUME NEW w \in Writer, Abort(w)
        PROVE  TypeInv'
    BY <1>5 DEF Abort, End, Unlock, TypeOK, InHand
  <1>6. CASE NewWeek
    BY <1>6 DEF NewWeek, TypeOK, InHand, AuditChainAssumption
  <1>7. CASE DropChunks
    BY <1>7 DEF DropChunks, TypeOK, InHand
  <1>8. ASSUME NEW row \in rows, NEW body \in Body, Rewrite(row, body)
        PROVE  TypeInv'
    <2>. DEFINE changed == [row EXCEPT !.body = body]
    <2>1. changed \in Row
      BY DEF TypeOK, Row
    <2>2. rows' = (rows \ {row}) \cup {changed} /\ tampers' = tampers + 1
      BY <1>8 DEF Rewrite
    <2>. HIDE DEF changed
    <2>3. TypeOK'
      BY <1>8, <2>1, <2>2 DEF Rewrite, TypeOK
    <2>4. InHand'
      BY <1>8 DEF Rewrite, InHand
    <2>. QED
      BY <2>3, <2>4
  <1>9. ASSUME NEW row \in rows, Delete(row)
        PROVE  TypeInv'
    <2>1. row.id \in Nat /\ NextIds(row) \subseteq Nat
      BY DEF NextIds, After, TypeOK, Row
    <2>2. deleted' \in SUBSET (Nat \X Nat)
      BY <1>9, <2>1 DEF Delete, TypeOK
    <2>. QED
      BY <1>9, <2>2 DEF Delete, TypeOK, InHand
  <1>10. CASE UNCHANGED vars
    BY <1>10 DEF vars, TypeOK, InHand
  <1>. QED
    BY <1>1, <1>2, <1>3, <1>4, <1>5, <1>6, <1>7, <1>8, <1>9, <1>10 DEF Next

LEMMA TypeInvariant == Spec => []TypeInv
  BY TypeInit, TypeStep, PTL DEF Spec

(* The log, the sessions and the counters always have their types.          *)
THEOREM ChainTypeCorrect == Spec => []TypeOK
  <1>1. TypeInv => TypeOK
    BY DEF TypeInv
  <1>. QED
    BY <1>1, TypeInvariant, PTL

-----------------------------------------------------------------------------
(* Rewriting is evident. A row's stored hash remembers what was committed   *)
(* under its id: whoever rewrites the body cannot also change the order of  *)
(* commits, so the hash no longer fits either its own prev_hash or the      *)
(* hash of the row before it.                                               *)

RowsHashed ==
  \A row \in rows : \E n \in DOMAIN order : /\ order[n][1] = row.id
                                            /\ row.hash = Hash(row.prev, order[n][2])

LinkedHashed ==
  \A w \in Writer : pc[w] = "linked" => new[w].hash = Hash(new[w].prev, new[w].body)

HashInv == TypeInv /\ RowsHashed /\ LinkedHashed

LEMMA HashInit == Init => HashInv
  <1>1. Init => RowsHashed /\ LinkedHashed
    BY DEF Init, RowsHashed, LinkedHashed
  <1>. QED
    BY <1>1, TypeInit DEF HashInv

LEMMA HashStep == HashInv /\ [Next]_vars => HashInv'
  <1>. SUFFICES ASSUME HashInv, [Next]_vars PROVE RowsHashed' /\ LinkedHashed'
    BY TypeStep DEF HashInv
  <1>. USE DEF HashInv, TypeInv
  <1>1. ASSUME NEW w \in Writer,
               (\E body \in Body : Begin(w, body)) \/ Allocate(w) \/ Abort(w)
        PROVE  RowsHashed' /\ LinkedHashed'
    BY <1>1 DEF Begin, Allocate, Abort, End, TypeOK, RowsHashed, LinkedHashed
  <1>2. ASSUME NEW w \in Writer, Link(w)
        PROVE  RowsHashed' /\ LinkedHashed'
    <2>1. RowsHashed'
      BY <1>2 DEF Link, LinkTo, RowsHashed
    <2>2. new[w] \in Row
      BY <1>2 DEF Link, InHand
    <2>3. /\ new'[w].prev = LastHash(rows) /\ new'[w].body = new[w].body
          /\ new'[w].hash = Hash(LastHash(rows), new[w].body)
      BY <1>2, <2>2 DEF Link, LinkTo, TypeOK, Row
    <2>4. LinkedHashed'
      BY <1>2, <2>3 DEF Link, LinkTo, TypeOK, LinkedHashed, Hash
    <2>. QED
      BY <2>1, <2>4
  <1>3. ASSUME NEW w \in Writer, Commit(w)
        PROVE  RowsHashed' /\ LinkedHashed'
    <2>1. LinkedHashed'
      BY <1>3 DEF Commit, End, TypeOK, LinkedHashed
    <2>. DEFINE last == <<new[w].id, new[w].body>>
    <2>2. last \in Nat \X Body
      BY <1>3 DEF Commit, InHand, Row
    <2>3. /\ order' \in Seq(Nat \X Body) /\ Len(order') = Len(order) + 1
          /\ \A n \in 1..Len(order) : order'[n] = order[n]
          /\ order'[Len(order) + 1] = last
      BY <1>3, <2>2, AppendProperties DEF Commit, TypeOK
    <2>4. /\ DOMAIN order = 1..Len(order) /\ DOMAIN order' = 1..Len(order')
          /\ Len(order) \in Nat
      BY <2>3, LenProperties DEF TypeOK
    <2>5. last[1] = new[w].id /\ last[2] = new[w].body
      OBVIOUS
    <2>. HIDE DEF last
    <2>6. ASSUME NEW row \in rows
          PROVE  \E n \in DOMAIN order' : /\ order'[n][1] = row.id
                                          /\ row.hash = Hash(row.prev, order'[n][2])
      <3>1. PICK n \in DOMAIN order : /\ order[n][1] = row.id
                                      /\ row.hash = Hash(row.prev, order[n][2])
        BY DEF RowsHashed
      <3>2. n \in DOMAIN order' /\ order'[n] = order[n]
        BY <2>3, <2>4
      <3>. QED
        BY <3>1, <3>2
    <2>7. /\ Len(order) + 1 \in DOMAIN order'
          /\ order'[Len(order) + 1][1] = new[w].id
          /\ new[w].hash = Hash(new[w].prev, order'[Len(order) + 1][2])
      BY <1>3, <2>3, <2>4, <2>5 DEF Commit, LinkedHashed
    <2>8. rows' = rows \cup {new[w]}
      BY <1>3 DEF Commit
    <2>. QED
      BY <2>1, <2>6, <2>7, <2>8 DEF RowsHashed
  <1>4. ASSUME NEW row \in rows, NEW body \in Body, Rewrite(row, body)
        PROVE  RowsHashed' /\ LinkedHashed'
    <2>. DEFINE changed == [row EXCEPT !.body = body]
    <2>1. changed.id = row.id /\ changed.prev = row.prev /\ changed.hash = row.hash
      BY DEF TypeOK, Row
    <2>2. rows' = (rows \ {row}) \cup {changed}
      BY <1>4 DEF Rewrite
    <2>. HIDE DEF changed
    <2>. QED
      BY <1>4, <2>1, <2>2 DEF Rewrite, RowsHashed, LinkedHashed
  <1>5. CASE NewWeek \/ DropChunks \/ (\E row \in rows : Delete(row)) \/ UNCHANGED vars
    BY <1>5 DEF NewWeek, DropChunks, Delete, vars, RowsHashed, LinkedHashed
  <1>. QED
    BY <1>1, <1>2, <1>3, <1>4, <1>5 DEF Next

LEMMA HashEvident == HashInv => RewriteEvident
  <1>. SUFFICES ASSUME HashInv, NEW row \in rows, Rewritten(row), ~Bad(row)
                PROVE  FALSE
    BY DEF RewriteEvident
  <1>. USE DEF HashInv, TypeInv
  <1>1. PICK n \in DOMAIN order : order[n][1] = row.id /\ row.hash = Hash(row.prev, order[n][2])
    BY DEF RowsHashed
  <1>2. order[n] \in Nat \X Body
    BY LenProperties DEF TypeOK
  <1>3. row.prev \in Seq(Body) /\ row.body \in Body
    BY DEF TypeOK, Row
  <1>4. Hash(row.prev, order[n][2]) = Hash(row.prev, row.body)
    BY <1>1 DEF Bad
  <1>5. order[n][2] = row.body
    BY <1>2, <1>3, <1>4, AppendInjective DEF Hash
  <1>6. order[n] = <<order[n][1], order[n][2]>>
    BY <1>2
  <1>7. order[n] = <<row.id, row.body>>
    BY <1>1, <1>5, <1>6
  <1>. QED
    BY <1>7 DEF Rewritten

(* A rewritten row is reported as long as it is there, whatever raced, was  *)
(* pruned or was deleted, and by however many hands.                        *)
THEOREM RewritesAreEvident == Spec => []RewriteEvident
  <1>1. Spec => []HashInv
    BY HashInit, HashStep, PTL DEF Spec
  <1>. QED
    BY <1>1, HashEvident, PTL

-----------------------------------------------------------------------------
(* Deletion is evident. A row's prev_hash remembers the newest row that was *)
(* there when it was linked: its last element is the body committed under   *)
(* that row's id, and no other row's hash ever ends with it.                *)

(* Ids and bodies are given out once. Only the holder of the lock is linked.*)
Numbered ==
  /\ 0 < nextId
  /\ \A n \in DOMAIN order : 0 < order[n][1] /\ order[n][1] < nextId /\ order[n][2] \in arrived

Distinct ==
  \A m, n \in DOMAIN order :
    order[m][1] = order[n][1] \/ order[m][2] = order[n][2] => m = n

HasId(w) == pc[w] \in {"waiting", "linked"}

Pending ==
  \A w \in Writer :
    /\ pc[w] # "idle" => /\ new[w].body \in arrived
                         /\ \A n \in DOMAIN order : order[n][2] # new[w].body
    /\ HasId(w) => /\ 0 < new[w].id /\ new[w].id < nextId
                   /\ \A n \in DOMAIN order : order[n][1] # new[w].id
    /\ pc[w] = "linked" => lock = w

Separate ==
  \A v, w \in Writer : v # w =>
    /\ pc[v] # "idle" /\ pc[w] # "idle" => new[v].body # new[w].body
    /\ HasId(v) /\ HasId(w) => new[v].id # new[w].id

OneRow == \A p, q \in rows : p.id = q.id => p = q

IdInv == HashInv /\ Numbered /\ Distinct /\ Pending /\ Separate /\ OneRow

EndsWith(s, b) == \E h \in Seq(Body) : s = Hash(h, b)

(* The row a prev_hash is of has an id of i or more.                        *)
AtLeast(prev, i) == \E n \in DOMAIN order : EndsWith(prev, order[n][2]) /\ i <= order[n][1]

LinkedToNewest ==
  \A w \in Writer : pc[w] = "linked" => \A p \in rows : AtLeast(new[w].prev, p.id)

RowsLinked ==
  \A p, row \in rows : CommittedBefore(p.id, row.id) => AtLeast(row.prev, p.id)

(* The row that a deleted row's successor was linked to is gone or later.   *)
Missed ==
  \A d \in deleted, row \in rows :
    row.id = d[2] /\ CommittedBefore(d[1], d[2]) =>
      \E n \in DOMAIN order : /\ EndsWith(row.prev, order[n][2])
                              /\ \A q \in Before(row) : q.id # order[n][1]

Known == \A d \in deleted : d[2] = 0 \/ \E n \in DOMAIN order : order[n][1] = d[2]

DeletionInv == IdInv /\ LinkedToNewest /\ RowsLinked /\ Missed /\ Known

LEMMA OrderType ==
  ASSUME TypeInv
  PROVE  /\ Len(order) \in Nat /\ DOMAIN order = 1..Len(order)
         /\ \A n \in DOMAIN order : n \in Nat /\ order[n][1] \in Nat /\ order[n][2] \in Body
  <1>1. order \in Seq(Nat \X Body)
    BY DEF TypeInv, TypeOK
  <1>2. Len(order) \in Nat /\ DOMAIN order = 1..Len(order)
    BY <1>1, LenProperties
  <1>3. \A n \in DOMAIN order : order[n] \in Nat \X Body
    BY <1>1, <1>2
  <1>. QED
    BY <1>2, <1>3

(* A commit adds the session's row to the log and to the order.             *)
LEMMA CommitEffect ==
  ASSUME TypeInv, NEW w \in Writer, Commit(w)
  PROVE  /\ new[w] \in Row
         /\ rows' = rows \cup {new[w]}
         /\ DOMAIN order' = 1..Len(order) + 1
         /\ \A n \in DOMAIN order : n \in DOMAIN order' /\ order'[n] = order[n]
         /\ order'[Len(order) + 1][1] = new[w].id
         /\ order'[Len(order) + 1][2] = new[w].body
         /\ pc'[w] = "idle"
         /\ \A v \in Writer : v # w => pc'[v] = pc[v] /\ new'[v] = new[v]
         /\ UNCHANGED <<nextId, arrived, deleted, pruned>>
  <1>. DEFINE last == <<new[w].id, new[w].body>>
  <1>1. new[w] \in Row /\ last \in Nat \X Body
    BY DEF Commit, TypeInv, InHand, Row
  <1>2. /\ order' \in Seq(Nat \X Body) /\ Len(order') = Len(order) + 1
        /\ \A n \in 1..Len(order) : order'[n] = order[n]
        /\ order'[Len(order) + 1] = last
    BY <1>1, AppendProperties DEF Commit, TypeInv, TypeOK
  <1>3. DOMAIN order' = 1..Len(order) + 1
    BY <1>2, LenProperties
  <1>4. \A n \in DOMAIN order : n \in DOMAIN order' /\ order'[n] = order[n]
    BY <1>2, <1>3, OrderType
  <1>5. last[1] = new[w].id /\ last[2] = new[w].body
    OBVIOUS
  <1>6. /\ rows' = rows \cup {new[w]} /\ pc'[w] = "idle"
        /\ \A v \in Writer : v # w => pc'[v] = pc[v] /\ new'[v] = new[v]
        /\ UNCHANGED <<nextId, arrived, deleted, pruned>>
    BY DEF Commit, End, TypeInv, TypeOK
  <1>. QED
    BY <1>1, <1>2, <1>3, <1>4, <1>5, <1>6

(* What the other steps leave alone.                                        *)
LEMMA TamperEffect ==
  ASSUME TypeInv,
         NewWeek \/ DropChunks \/ (\E row \in rows, body \in Body : Rewrite(row, body))
           \/ (\E row \in rows : Delete(row)) \/ UNCHANGED vars
  PROVE  /\ UNCHANGED <<nextId, arrived, order, pc, new, lock>>
         /\ \A p \in rows' : \E q \in rows : p.id = q.id /\ p.prev = q.prev /\ p.hash = q.hash
  <1>1. CASE NewWeek \/ DropChunks \/ (\E row \in rows : Delete(row)) \/ UNCHANGED vars
    BY <1>1 DEF NewWeek, DropChunks, Delete, vars
  <1>2. ASSUME NEW row \in rows, NEW body \in Body, Rewrite(row, body)
        PROVE  /\ UNCHANGED <<nextId, arrived, order, pc, new, lock>>
               /\ \A p \in rows' : \E q \in rows : p.id = q.id /\ p.prev = q.prev /\ p.hash = q.hash
    <2>. DEFINE changed == [row EXCEPT !.body = body]
    <2>1. changed.id = row.id /\ changed.prev = row.prev /\ changed.hash = row.hash
      BY DEF TypeInv, TypeOK, Row
    <2>2. rows' = (rows \ {row}) \cup {changed}
      BY <1>2 DEF Rewrite
    <2>. HIDE DEF changed
    <2>. QED
      BY <1>2, <2>1, <2>2 DEF Rewrite
  <1>. QED
    BY <1>1, <1>2

(* Who is where in an INSERT, and with which row.                           *)
LEMMA SessionEffect ==
  ASSUME TypeInv, NEW w \in Writer,
         (\E body \in Body : Begin(w, body)) \/ Allocate(w) \/ Link(w) \/ Abort(w)
  PROVE  /\ UNCHANGED <<rows, order, deleted, pruned>>
         /\ \A v \in Writer : v # w => pc'[v] = pc[v] /\ new'[v] = new[v]
  BY DEF Begin, Allocate, Link, LinkTo, Abort, End, TypeInv, TypeOK

LEMMA IdInit == Init => IdInv
  <1>1. Init => Numbered /\ Distinct /\ Pending /\ Separate /\ OneRow
    BY DEF Init, Numbered, Distinct, Pending, Separate, HasId, OneRow
  <1>. QED
    BY <1>1, HashInit DEF IdInv

LEMMA IdStep == IdInv /\ [Next]_vars => IdInv'
  <1>. SUFFICES ASSUME IdInv, [Next]_vars
                PROVE  (Numbered /\ Distinct /\ Pending /\ Separate /\ OneRow)'
    BY HashStep DEF IdInv
  <1>. USE DEF IdInv, HashInv
  <1>0. TypeInv /\ nextId \in Nat /\ pc \in [Writer -> {"idle", "started", "waiting", "linked"}]
    BY DEF TypeInv, TypeOK
  <1>1. ASSUME NEW w \in Writer, NEW body \in Body, Begin(w, body)
        PROVE  (Numbered /\ Distinct /\ Pending /\ Separate /\ OneRow)'
    <2>1. /\ UNCHANGED <<rows, order, nextId, lock>> /\ arrived' = arrived \cup {body}
          /\ body \notin arrived
      BY <1>1 DEF Begin
    <2>2. pc'[w] = "started" /\ new'[w].body = body
      BY <1>1 DEF Begin, TypeInv, TypeOK
    <2>3. (Numbered /\ Distinct /\ OneRow)'
      BY <2>1 DEF Numbered, Distinct, OneRow
    <2>4. \A n \in DOMAIN order : order[n][2] # body
      BY <2>1 DEF Numbered
    <2>5. Pending'
      BY <1>1, <2>1, <2>2, <2>4, SessionEffect DEF Pending, HasId
    <2>6. Separate'
      BY <1>1, <2>1, <2>2, SessionEffect DEF Separate, Pending, HasId
    <2>. QED
      BY <2>3, <2>5, <2>6
  <1>2. ASSUME NEW w \in Writer, Allocate(w)
        PROVE  (Numbered /\ Distinct /\ Pending /\ Separate /\ OneRow)'
    <2>1. /\ UNCHANGED <<rows, order, arrived, lock>> /\ nextId' = nextId + 1
          /\ pc[w] = "started"
      BY <1>2 DEF Allocate
    <2>2. pc'[w] = "waiting" /\ new'[w].id = nextId /\ new'[w].body = new[w].body
      BY <1>2 DEF Allocate, TypeInv, TypeOK, InHand, Row
    <2>3. \A n \in DOMAIN order : order[n][1] \in Nat /\ order[n][1] # nextId
      BY <1>0, OrderType DEF Numbered
    <2>4. \A v \in Writer : HasId(v) => new[v].id \in Nat /\ new[v].id # nextId
      BY <1>0 DEF Pending, HasId, TypeInv, InHand, Row
    <2>5. (Numbered /\ Distinct /\ OneRow)'
      BY <1>0, <2>1, <2>3 DEF Numbered, Distinct, OneRow
    <2>6. Pending'
      <3>1. SUFFICES ASSUME NEW v \in Writer
            PROVE /\ pc'[v] # "idle" => /\ new'[v].body \in arrived
                                        /\ \A n \in DOMAIN order : order[n][2] # new'[v].body
                  /\ HasId(v)' => /\ 0 < new'[v].id /\ new'[v].id < nextId + 1
                                  /\ \A n \in DOMAIN order : order[n][1] # new'[v].id
                  /\ pc'[v] = "linked" => lock = v
        BY <2>1 DEF Pending, HasId
      <3>2. CASE v = w
        <4>1. 0 < nextId
          BY DEF Numbered
        <4>. QED
          BY <1>0, <2>1, <2>2, <2>3, <3>2, <4>1 DEF Pending, HasId
      <3>3. CASE v # w
        <4>1. pc'[v] = pc[v] /\ new'[v] = new[v]
          BY <1>2, <3>3, SessionEffect
        <4>2. HasId(v) => new[v].id < nextId + 1
          BY <1>0, <2>4 DEF Pending
        <4>. QED
          BY <4>1, <4>2 DEF Pending, HasId
      <3>. QED
        BY <3>2, <3>3
    <2>7. Separate'
      <3>1. \A v \in Writer : v # w => pc'[v] = pc[v] /\ new'[v] = new[v]
        BY <1>2, SessionEffect
      <3>. QED
        BY <2>1, <2>2, <2>4, <3>1 DEF Separate, HasId
    <2>. QED
      BY <2>5, <2>6, <2>7
  <1>3. ASSUME NEW w \in Writer, Link(w) \/ Abort(w)
        PROVE  (Numbered /\ Distinct /\ Pending /\ Separate /\ OneRow)'
    <2>1. UNCHANGED <<rows, order, arrived, nextId>>
      BY <1>3 DEF Link, LinkTo, Abort, End
    <2>2. \A v \in Writer : v # w => pc'[v] = pc[v] /\ new'[v] = new[v]
      BY <1>3, SessionEffect
    <2>3. CASE Link(w)
      <3>1. new[w] \in Row /\ pc[w] = "waiting" /\ lock = NoWriter /\ lock' = w /\ pc'[w] = "linked"
        BY <1>0, <2>3 DEF Link, LinkTo, TypeInv, InHand
      <3>2. new'[w].id = new[w].id /\ new'[w].body = new[w].body
        BY <2>3, <3>1 DEF Link, LinkTo, TypeInv, TypeOK, Row
      <3>3. \A v \in Writer : pc[v] # "linked"
        BY <3>1 DEF Pending, AuditChainAssumption
      <3>4. Pending'
        BY <2>1, <2>2, <3>1, <3>2, <3>3 DEF Pending, HasId
      <3>5. Separate'
        BY <2>2, <3>1, <3>2 DEF Separate, HasId
      <3>. QED
        BY <2>1, <3>4, <3>5 DEF Numbered, Distinct, OneRow
    <2>4. CASE Abort(w)
      <3>1. pc'[w] = "idle" /\ lock' = Unlock(w)
        BY <1>0, <2>4 DEF Abort, End
      <3>2. \A v \in Writer : v # w /\ pc[v] = "linked" => lock' = v
        BY <3>1 DEF Pending, Unlock
      <3>3. Pending'
        BY <2>1, <2>2, <3>1, <3>2 DEF Pending, HasId
      <3>4. Separate'
        BY <2>2, <3>1 DEF Separate, HasId
      <3>. QED
        BY <2>1, <3>3, <3>4 DEF Numbered, Distinct, OneRow
    <2>. QED
      BY <1>3, <2>3, <2>4
  <1>4. ASSUME NEW w \in Writer, Commit(w)
        PROVE  (Numbered /\ Distinct /\ Pending /\ Separate /\ OneRow)'
    <2>. DEFINE last == Len(order) + 1
    <2>1. /\ \A n \in DOMAIN order' : n \in DOMAIN order \/ n = last
          /\ \A n \in DOMAIN order : order'[n] = order[n]
          /\ order'[last][1] = new[w].id /\ order'[last][2] = new[w].body
      BY <1>0, <1>4, CommitEffect, OrderType
    <2>2. /\ pc[w] = "linked" /\ pc'[w] = "idle" /\ HasId(w)
          /\ \A v \in Writer : v # w => pc'[v] = pc[v] /\ new'[v] = new[v]
          /\ UNCHANGED <<nextId, arrived>> /\ rows' = rows \cup {new[w]}
      BY <1>0, <1>4, CommitEffect DEF Commit, HasId
    <2>3. \A v \in Writer : v # w => pc[v] # "linked"
      BY <2>2 DEF Pending
    <2>4. Numbered'
      BY <2>1, <2>2 DEF Numbered, Pending
    <2>5. Distinct'
      BY <2>1, <2>2 DEF Distinct, Pending
    <2>6. Pending'
      BY <2>1, <2>2, <2>3 DEF Pending, Separate, HasId
    <2>7. Separate'
      BY <2>2 DEF Separate, HasId
    <2>8. OneRow'
      BY <2>2 DEF OneRow, RowsHashed, Pending
    <2>. QED
      BY <2>4, <2>5, <2>6, <2>7, <2>8
  <1>5. CASE NewWeek \/ DropChunks \/ (\E row \in rows, body \in Body : Rewrite(row, body))
               \/ (\E row \in rows : Delete(row)) \/ UNCHANGED vars
    <2>1. UNCHANGED <<nextId, arrived, order, pc, new, lock>>
      BY <1>0, <1>5, TamperEffect
    <2>2. OneRow'
      <3>1. CASE NewWeek \/ DropChunks \/ (\E row \in rows : Delete(row)) \/ UNCHANGED vars
        BY <3>1 DEF NewWeek, DropChunks, Delete, vars, OneRow
      <3>2. ASSUME NEW row \in rows, NEW body \in Body, Rewrite(row, body)
            PROVE  OneRow'
        <4>. DEFINE changed == [row EXCEPT !.body = body]
        <4>1. changed.id = row.id
          BY <1>0 DEF TypeInv, TypeOK, Row
        <4>2. rows' = (rows \ {row}) \cup {changed}
          BY <3>2 DEF Rewrite
        <4>. HIDE DEF changed
        <4>. QED
          BY <4>1, <4>2 DEF OneRow
      <3>. QED
        BY <1>5, <3>1, <3>2
    <2>. QED
      BY <2>1, <2>2 DEF Numbered, Distinct, Pending, Separate, HasId
  <1>. QED
    BY <1>1, <1>2, <1>3, <1>4, <1>5 DEF Next

(* A set of numbers below a bound has a greatest one.                       *)
LEMMA Greatest ==
  ASSUME NEW T, T \subseteq Nat, T # {}, NEW b \in Nat, \A t \in T : t < b
  PROVE  \E t \in T : \A u \in T : u <= t
  <1>. DEFINE D == {b - t : t \in T}
  <1>1. D \subseteq Nat /\ D # {}
    <2>1. \A t \in T : b - t \in Nat
      OBVIOUS
    <2>. QED
      BY <2>1
  <1>2. \E d \in D : \A e \in D : ~(<<e, d>> \in OpToRel(<, Nat))
    <2>. HIDE DEF D
    <2>. QED
      BY <1>1, WFMin, NatLessThanWellFounded
  <1>3. PICK d \in D : \A e \in D : ~(<<e, d>> \in OpToRel(<, Nat))
    BY <1>2
  <1>4. \A e \in D : ~(e < d)
    BY <1>1, <1>3 DEF OpToRel
  <1>5. PICK t \in T : d = b - t
    OBVIOUS
  <1>6. \A u \in T : ~(b - u < b - t)
    BY <1>4, <1>5
  <1>. QED
    BY <1>6

(* The newest of some rows exists.                                          *)
LEMMA NewestExists ==
  ASSUME IdInv, NEW S, S \subseteq rows, S # {}
  PROVE  Newest(S) # {}
  <1>1. rows \subseteq Row /\ nextId \in Nat
    BY DEF IdInv, HashInv, TypeInv, TypeOK
  <1>2. \A row \in rows : row.id \in Nat /\ row.id < nextId
    BY <1>1 DEF Row, IdInv, HashInv, RowsHashed, Numbered
  <1>. DEFINE T == {row.id : row \in S}
  <1>3. T \subseteq Nat /\ T # {} /\ \A t \in T : t < nextId
    BY <1>2
  <1>4. \E t \in T : \A u \in T : u <= t
    <2>. HIDE DEF T
    <2>. QED
      BY <1>1, <1>3, Greatest
  <1>. QED
    BY <1>4 DEF Newest

(* LastHash is the hash of a newest row, and ends with what was committed.  *)
LEMMA LastHashIsNewest ==
  ASSUME IdInv, NEW S, S \subseteq rows, S # {}
  PROVE  \E q \in S : /\ LastHash(S) = q.hash
                      /\ \A p \in S : p.id <= q.id
                      /\ \E n \in DOMAIN order : /\ order[n][1] = q.id
                                                 /\ EndsWith(LastHash(S), order[n][2])
  <1>. DEFINE q == CHOOSE row \in Newest(S) : TRUE
  <1>1. q \in Newest(S)
    BY NewestExists
  <1>2. q \in S /\ (\A p \in S : p.id <= q.id) /\ LastHash(S) = q.hash
    BY <1>1 DEF Newest, LastHash
  <1>. HIDE DEF q
  <1>3. PICK n \in DOMAIN order : order[n][1] = q.id /\ q.hash = Hash(q.prev, order[n][2])
    BY <1>2 DEF IdInv, HashInv, RowsHashed
  <1>4. q.prev \in Seq(Body)
    BY <1>2 DEF IdInv, HashInv, TypeInv, TypeOK, Row
  <1>. QED
    BY <1>2, <1>3, <1>4 DEF EndsWith

(* A list ends with one thing.                                              *)
LEMMA OneEnd ==
  ASSUME NEW s, NEW a \in Body, NEW b \in Body, EndsWith(s, a), EndsWith(s, b)
  PROVE  a = b
  <1>1. PICK h \in Seq(Body) : s = Append(h, a)
    BY DEF EndsWith, Hash
  <1>2. PICK i \in Seq(Body) : s = Append(i, b)
    BY DEF EndsWith, Hash
  <1>3. Append(h, a) = Append(i, b) => a = b
    BY AppendInjective
  <1>. QED
    BY <1>1, <1>2, <1>3

LEMMA EmptyEndsNot ==
  ASSUME NEW b \in Body
  PROVE  ~EndsWith(<<>>, b)
  <1>1. SUFFICES ASSUME NEW h \in Seq(Body), <<>> = Append(h, b) PROVE FALSE
    BY DEF EndsWith, Hash
  <1>2. Append(h, b) # <<>>
    BY AppendProperties
  <1>. QED
    BY <1>1, <1>2

LEMMA RowIds ==
  ASSUME IdInv, NEW row \in rows
  PROVE  row.id \in Nat /\ row.id # 0
  <1>1. row.id \in Nat
    BY DEF IdInv, HashInv, TypeInv, TypeOK, Row
  <1>2. PICK n \in DOMAIN order : order[n][1] = row.id
    BY DEF IdInv, HashInv, RowsHashed
  <1>. QED
    BY <1>1, <1>2 DEF IdInv, Numbered

(* Commits in the past stay as they were.                                   *)
LEMMA PastStays ==
  ASSUME IdInv, NEW w \in Writer, Commit(w), NEW i, NEW j, CommittedBefore(i, j)', j # new[w].id
  PROVE  CommittedBefore(i, j)
  <1>1. PICK n \in DOMAIN order' : \E m \in 1..n-1 : order'[m][1] = i /\ order'[n][1] = j
    BY DEF CommittedBefore
  <1>2. PICK m \in 1..n-1 : order'[m][1] = i /\ order'[n][1] = j
    BY <1>1
  <1>3. /\ DOMAIN order' = 1..Len(order) + 1 /\ Len(order) \in Nat /\ DOMAIN order = 1..Len(order)
        /\ \A k \in DOMAIN order : order'[k] = order[k]
        /\ order'[Len(order) + 1][1] = new[w].id
    BY CommitEffect, OrderType DEF IdInv, HashInv
  <1>4. n # Len(order) + 1
    BY <1>2, <1>3
  <1>5. n \in DOMAIN order /\ m \in DOMAIN order
    BY <1>2, <1>3, <1>4
  <1>. QED
    BY <1>2, <1>3, <1>5 DEF CommittedBefore

(* Nothing is committed before what is not.                                 *)
LEMMA NewIsLast ==
  ASSUME IdInv, NEW w \in Writer, Commit(w), NEW i, i = new[w].id, NEW j
  PROVE  ~CommittedBefore(i, j)'
  <1>1. SUFFICES ASSUME NEW n \in DOMAIN order', NEW m \in 1..n-1, order'[m][1] = i
                 PROVE  FALSE
    BY DEF CommittedBefore
  <1>2. /\ DOMAIN order' = 1..Len(order) + 1 /\ Len(order) \in Nat /\ DOMAIN order = 1..Len(order)
        /\ \A k \in DOMAIN order : order'[k] = order[k]
    BY CommitEffect, OrderType DEF IdInv, HashInv
  <1>3. m \in DOMAIN order
    BY <1>1, <1>2
  <1>4. order[m][1] = new[w].id
    BY <1>1, <1>2, <1>3
  <1>5. pc[w] = "linked"
    BY DEF Commit
  <1>. QED
    BY <1>3, <1>4, <1>5 DEF IdInv, Pending, HasId

LEMMA DeletionInit == Init => DeletionInv
  <1>1. Init => LinkedToNewest /\ RowsLinked /\ Missed /\ Known
    BY DEF Init, LinkedToNewest, RowsLinked, Missed, Known
  <1>. QED
    BY <1>1, IdInit DEF DeletionInv

LEMMA DeletionStep == DeletionInv /\ [Next]_vars => DeletionInv'
  <1>. SUFFICES ASSUME DeletionInv, [Next]_vars
                PROVE  (LinkedToNewest /\ RowsLinked /\ Missed /\ Known)'
    BY IdStep DEF DeletionInv
  <1>. USE DEF DeletionInv
  <1>0. TypeInv /\ IdInv /\ HashInv
    BY DEF IdInv, HashInv
  <1>1. ASSUME NEW w \in Writer,
               (\E body \in Body : Begin(w, body)) \/ Allocate(w) \/ Link(w) \/ Abort(w)
        PROVE  (LinkedToNewest /\ RowsLinked /\ Missed /\ Known)'
    <2>1. /\ UNCHANGED <<rows, order, deleted>>
          /\ \A v \in Writer : v # w => pc'[v] = pc[v] /\ new'[v] = new[v]
      BY <1>0, <1>1, SessionEffect
    <2>2. (RowsLinked /\ Missed /\ Known)'
      BY <2>1 DEF RowsLinked, Missed, Known, CommittedBefore, AtLeast, Before
    <2>3. pc'[w] = "linked" => \A p \in rows : AtLeast(new'[w].prev, p.id)
      <3>1. CASE Link(w)
        <4>1. new'[w].prev = LastHash(rows)
          BY <1>0, <3>1 DEF Link, LinkTo, TypeInv, TypeOK, InHand, Row
        <4>. QED
          BY <1>0, <4>1, LastHashIsNewest DEF AtLeast
      <3>2. CASE ~Link(w)
        BY <1>0, <1>1, <3>2 DEF Begin, Allocate, Abort, End, TypeInv, TypeOK
      <3>. QED
        BY <3>1, <3>2
    <2>4. LinkedToNewest'
      BY <2>1, <2>3 DEF LinkedToNewest, AtLeast
    <2>. QED
      BY <2>2, <2>4
  <1>2. ASSUME NEW w \in Writer, Commit(w)
        PROVE  (LinkedToNewest /\ RowsLinked /\ Missed /\ Known)'
    <2>1. /\ \A n \in DOMAIN order : n \in DOMAIN order' /\ order'[n] = order[n]
          /\ rows' = rows \cup {new[w]} /\ pc'[w] = "idle" /\ deleted' = deleted
          /\ \A v \in Writer : v # w => pc'[v] = pc[v]
      BY <1>0, <1>2, CommitEffect
    <2>2. pc[w] = "linked" /\ \A n \in DOMAIN order : order[n][1] # new[w].id
      BY <1>0, <1>2 DEF Commit, IdInv, Pending, HasId
    <2>3. ASSUME NEW s, NEW i, AtLeast(s, i)
          PROVE  \E n \in DOMAIN order' : EndsWith(s, order'[n][2]) /\ i <= order'[n][1]
      BY <2>1, <2>3 DEF AtLeast
    <2>4. LinkedToNewest'
      BY <1>0, <2>1, <2>2 DEF LinkedToNewest, IdInv, Pending
    <2>5. RowsLinked'
      <3>1. SUFFICES ASSUME NEW p \in rows', NEW row \in rows', CommittedBefore(p.id, row.id)'
                     PROVE  AtLeast(row.prev, p.id)
        BY <2>3 DEF RowsLinked, AtLeast
      <3>2. p \in rows
        BY <1>0, <1>2, <2>1, <3>1, NewIsLast
      <3>3. CASE row = new[w]
        BY <2>2, <3>2, <3>3 DEF LinkedToNewest
      <3>4. CASE row # new[w]
        <4>1. row \in rows
          BY <2>1, <3>4
        <4>2. row.id # new[w].id
          BY <1>0, <2>2, <4>1 DEF HashInv, RowsHashed
        <4>3. CommittedBefore(p.id, row.id)
          BY <1>0, <1>2, <3>1, <4>2, PastStays
        <4>. QED
          BY <3>2, <4>1, <4>3 DEF RowsLinked
      <3>. QED
        BY <3>3, <3>4
    <2>6. Missed'
      <3>1. SUFFICES ASSUME NEW d \in deleted, NEW row \in rows', row.id = d[2],
                            CommittedBefore(d[1], d[2])'
                     PROVE  \E n \in DOMAIN order' :
                              /\ EndsWith(row.prev, order'[n][2])
                              /\ \A q \in rows' : q.id < row.id => q.id # order'[n][1]
        BY <2>1 DEF Missed, Before
      <3>2. d[2] # new[w].id
        BY <1>0, <2>2 DEF Known, IdInv, Pending, HasId
      <3>3. row \in rows /\ CommittedBefore(d[1], d[2])
        BY <1>0, <1>2, <2>1, <3>1, <3>2, PastStays
      <3>4. PICK n \in DOMAIN order : /\ EndsWith(row.prev, order[n][2])
                                      /\ \A q \in Before(row) : q.id # order[n][1]
        BY <3>1, <3>3 DEF Missed
      <3>. QED
        BY <2>1, <2>2, <3>4 DEF Before
    <2>7. Known'
      BY <2>1 DEF Known
    <2>. QED
      BY <2>4, <2>5, <2>6, <2>7
  <1>3. CASE NewWeek \/ DropChunks \/ (\E row \in rows, body \in Body : Rewrite(row, body))
               \/ UNCHANGED vars
    <2>1. /\ UNCHANGED <<order, pc, new>>
          /\ \A p \in rows' : \E q \in rows : p.id = q.id /\ p.prev = q.prev
      BY <1>0, <1>3, TamperEffect
    <2>2. UNCHANGED deleted
      BY <1>3 DEF NewWeek, DropChunks, Rewrite, vars
    <2>3. LinkedToNewest' /\ RowsLinked'
      BY <2>1 DEF LinkedToNewest, RowsLinked, AtLeast, CommittedBefore
    <2>4. Missed'
      <3>1. SUFFICES ASSUME NEW d \in deleted, NEW row \in rows', row.id = d[2],
                            CommittedBefore(d[1], d[2])
                     PROVE  \E n \in DOMAIN order :
                              /\ EndsWith(row.prev, order[n][2])
                              /\ \A q \in rows' : q.id < row.id => q.id # order[n][1]
        BY <2>1, <2>2 DEF Missed, Before, CommittedBefore
      <3>2. PICK old \in rows : old.id = row.id /\ old.prev = row.prev
        BY <2>1
      <3>3. PICK n \in DOMAIN order : /\ EndsWith(old.prev, order[n][2])
                                      /\ \A q \in Before(old) : q.id # order[n][1]
        BY <3>1, <3>2 DEF Missed
      <3>. QED
        BY <2>1, <3>2, <3>3 DEF Before
    <2>5. Known'
      BY <2>1, <2>2 DEF Known
    <2>. QED
      BY <2>3, <2>4, <2>5
  <1>4. ASSUME NEW x \in rows, Delete(x)
        PROVE  (LinkedToNewest /\ RowsLinked /\ Missed /\ Known)'
    <2>1. /\ UNCHANGED <<order, pc, new>> /\ rows' = rows \ {x}
          /\ deleted' = deleted \cup ({x.id} \X NextIds(x))
      BY <1>4 DEF Delete
    <2>2. LinkedToNewest' /\ RowsLinked'
      BY <2>1 DEF LinkedToNewest, RowsLinked, AtLeast, CommittedBefore
    <2>3. Missed'
      <3>1. SUFFICES ASSUME NEW d \in deleted', NEW row \in rows, row # x, row.id = d[2],
                            CommittedBefore(d[1], d[2])
                     PROVE  \E n \in DOMAIN order :
                              /\ EndsWith(row.prev, order[n][2])
                              /\ \A q \in rows : q # x /\ q.id < row.id => q.id # order[n][1]
        BY <2>1 DEF Missed, Before, CommittedBefore
      <3>2. CASE d \in deleted
        BY <3>1, <3>2 DEF Missed, Before
      <3>3. CASE d \in {x.id} \X NextIds(x)
        <4>1. d[1] = x.id /\ d[2] \in NextIds(x)
          BY <3>3
        <4>2. PICK n \in DOMAIN order : EndsWith(row.prev, order[n][2]) /\ x.id <= order[n][1]
          BY <3>1, <4>1 DEF RowsLinked, AtLeast
        <4>3. \A q \in rows : q.id \in Nat /\ q.id # 0
          BY <1>0, RowIds
        <4>4. \A other \in After(x) : row.id <= other.id
          BY <3>1, <4>1, <4>3 DEF NextIds, After
        <4>5. ASSUME NEW q \in rows, q # x, q.id < row.id, q.id = order[n][1]
              PROVE  FALSE
          <5>1. q.id # x.id /\ x.id <= q.id
            BY <1>0, <4>2, <4>5 DEF IdInv, OneRow
          <5>2. q \in After(x)
            BY <4>3, <5>1 DEF After
          <5>. QED
            BY <4>3, <4>4, <4>5, <5>2
        <4>. QED
          BY <4>2, <4>5
      <3>. QED
        BY <2>1, <3>2, <3>3
    <2>4. Known'
      <3>1. \A row \in rows : \E n \in DOMAIN order : order[n][1] = row.id
        BY <1>0 DEF HashInv, RowsHashed
      <3>2. \A i \in NextIds(x) : i = 0 \/ \E n \in DOMAIN order : order[n][1] = i
        BY <3>1 DEF NextIds, After
      <3>. QED
        BY <2>1, <3>2 DEF Known
    <2>. QED
      BY <2>2, <2>3, <2>4
  <1>. QED
    BY <1>1, <1>2, <1>3, <1>4 DEF Next

LEMMA MissedIsBad == DeletionInv => DeletionEvident
  <1>. SUFFICES ASSUME DeletionInv, NEW d \in deleted, NEW row \in rows, row.id = d[2],
                       CommittedBefore(d[1], d[2]), ~Bad(row)
                PROVE  FALSE
    BY DEF DeletionEvident
  <1>0. IdInv /\ TypeInv
    BY DEF DeletionInv, IdInv, HashInv
  <1>1. PICK n \in DOMAIN order : /\ EndsWith(row.prev, order[n][2])
                                  /\ \A q \in Before(row) : q.id # order[n][1]
    BY DEF DeletionInv, Missed
  <1>2. row.prev = LastHash(Before(row))
    BY DEF Bad, ExpectedPrev
  <1>3. \A k \in DOMAIN order : order[k][2] \in Body
    BY <1>0, OrderType
  <1>4. CASE Before(row) = {}
    <2>1. LastHash(Before(row)) = <<>>
      BY <1>4 DEF LastHash, Newest
    <2>. QED
      BY <1>1, <1>2, <1>3, <2>1, EmptyEndsNot
  <1>5. CASE Before(row) # {}
    <2>1. Before(row) \subseteq rows
      BY DEF Before
    <2>2. PICK q \in Before(row) : \E k \in DOMAIN order : /\ order[k][1] = q.id
                                          /\ EndsWith(LastHash(Before(row)), order[k][2])
      BY <1>0, <1>5, <2>1, LastHashIsNewest
    <2>3. PICK k \in DOMAIN order : order[k][1] = q.id /\ EndsWith(row.prev, order[k][2])
      BY <1>2, <2>2
    <2>4. order[k][2] = order[n][2]
      BY <1>1, <1>3, <2>3, OneEnd
    <2>5. k = n
      BY <1>0, <2>4 DEF IdInv, Distinct
    <2>. QED
      BY <1>1, <2>3, <2>5
  <1>. QED
    BY <1>4, <1>5

(* A deleted row is missed for as long as the row after it is there, for    *)
(* any number of sessions, of rows pruned and of rows rewritten or deleted. *)
THEOREM DeletionsAreEvident == Spec => []DeletionEvident
  <1>1. Spec => []DeletionInv
    BY DeletionInit, DeletionStep, PTL DEF Spec
  <1>. QED
    BY <1>1, MissedIsBad, PTL

-----------------------------------------------------------------------------
(* While nothing was deleted or dropped, the alarms are exact. Every row    *)
(* committed is there, so a row's prev_hash is the hash of the one with the *)
(* highest id among those committed before it; verification expects the     *)
(* highest below its id.                                                    *)

Complete == ~pruned /\ deleted = {}

Present == \A n \in DOMAIN order : \E row \in rows : row.id = order[n][1]

(* k rows were committed before, and prev is the hash of the newest of them. *)
OfNewest(prev, k) ==
  \/ k = 0 /\ prev = <<>>
  \/ \E q \in rows : \E n \in 1..k : /\ prev = q.hash /\ order[n][1] = q.id
                                     /\ \A m \in 1..k : order[m][1] <= q.id

LinkedExact == \A w \in Writer : pc[w] = "linked" => OfNewest(new[w].prev, Len(order))

RowsExact ==
  \A row \in rows, k \in DOMAIN order : order[k][1] = row.id => OfNewest(row.prev, k - 1)

ExactInv == IdInv /\ (Complete => Present /\ LinkedExact /\ RowsExact)

LEMMA OfNewestStays ==
  ASSUME NEW prev, NEW k, OfNewest(prev, k),
         \A q \in rows : \E r \in rows' : r.id = q.id /\ r.hash = q.hash,
         \A m \in 1..k : order'[m] = order[m]
  PROVE  OfNewest(prev, k)'
  <1>1. CASE k = 0 /\ prev = <<>>
    BY <1>1 DEF OfNewest
  <1>2. CASE ~(k = 0 /\ prev = <<>>)
    <2>1. PICK q \in rows, n \in 1..k : /\ prev = q.hash /\ order[n][1] = q.id
                                        /\ \A m \in 1..k : order[m][1] <= q.id
      BY <1>2 DEF OfNewest
    <2>2. PICK r \in rows' : r.id = q.id /\ r.hash = q.hash
      OBVIOUS
    <2>. QED
      BY <2>1, <2>2 DEF OfNewest
  <1>. QED
    BY <1>1, <1>2

LEMMA ExactInit == Init => ExactInv
  <1>1. Init => Present /\ LinkedExact /\ RowsExact
    BY DEF Init, Present, LinkedExact, RowsExact
  <1>. QED
    BY <1>1, IdInit DEF ExactInv

LEMMA ExactStep == ExactInv /\ [Next]_vars => ExactInv'
  <1>. SUFFICES ASSUME ExactInv, [Next]_vars, Complete'
                PROVE  (Present /\ LinkedExact /\ RowsExact)'
    BY IdStep DEF ExactInv
  <1>0. TypeInv /\ IdInv /\ HashInv
    BY DEF ExactInv, IdInv, HashInv
  <1>a. Len(order) \in Nat /\ DOMAIN order = 1..Len(order)
    BY <1>0, OrderType
  <1>b. \A row \in rows : \E n \in DOMAIN order : order[n][1] = row.id
    BY <1>0 DEF HashInv, RowsHashed
  <1>1. ASSUME NEW w \in Writer,
               (\E body \in Body : Begin(w, body)) \/ Allocate(w) \/ Link(w) \/ Abort(w)
        PROVE  (Present /\ LinkedExact /\ RowsExact)'
    <2>1. /\ UNCHANGED <<rows, order, deleted, pruned>>
          /\ \A v \in Writer : v # w => pc'[v] = pc[v] /\ new'[v] = new[v]
      BY <1>0, <1>1, SessionEffect
    <2>2. Present /\ LinkedExact /\ RowsExact
      BY <2>1 DEF ExactInv, Complete
    <2>3. pc'[w] = "linked" => OfNewest(new'[w].prev, Len(order))
      <3>1. CASE Link(w)
        <4>1. new'[w].prev = LastHash(rows)
          BY <1>0, <3>1 DEF Link, LinkTo, TypeInv, TypeOK, InHand, Row
        <4>2. CASE rows = {}
          <5>1. Len(order) = 0
            BY <1>a, <2>2, <4>2 DEF Present
          <5>2. LastHash(rows) = <<>>
            BY <4>2 DEF LastHash, Newest
          <5>. QED
            BY <4>1, <5>1, <5>2 DEF OfNewest
        <4>3. CASE rows # {}
          <5>1. PICK q \in rows : LastHash(rows) = q.hash /\ \A p \in rows : p.id <= q.id
            BY <1>0, <4>3, LastHashIsNewest
          <5>2. PICK n \in DOMAIN order : order[n][1] = q.id
            BY <1>b
          <5>3. \A m \in 1..Len(order) : order[m][1] <= q.id
            BY <1>a, <2>2, <5>1 DEF Present
          <5>. QED
            BY <1>a, <4>1, <5>1, <5>2, <5>3 DEF OfNewest
        <4>. QED
          BY <4>2, <4>3
      <3>2. CASE ~Link(w)
        BY <1>0, <1>1, <3>2 DEF Begin, Allocate, Abort, End, TypeInv, TypeOK
      <3>. QED
        BY <3>1, <3>2
    <2>4. LinkedExact'
      BY <2>1, <2>2, <2>3 DEF LinkedExact, OfNewest
    <2>5. (Present /\ RowsExact)'
      BY <2>1, <2>2 DEF Present, RowsExact, OfNewest
    <2>. QED
      BY <2>4, <2>5
  <1>2. ASSUME NEW w \in Writer, Commit(w)
        PROVE  (Present /\ LinkedExact /\ RowsExact)'
    <2>. DEFINE last == Len(order) + 1
    <2>1. /\ rows' = rows \cup {new[w]} /\ pc'[w] = "idle" /\ UNCHANGED <<deleted, pruned>>
          /\ DOMAIN order' = 1..last
          /\ \A n \in DOMAIN order : order'[n] = order[n]
          /\ order'[last][1] = new[w].id
          /\ \A v \in Writer : v # w => pc'[v] = pc[v]
      BY <1>0, <1>2, CommitEffect
    <2>2. pc[w] = "linked" /\ \A n \in DOMAIN order : order[n][1] # new[w].id
      BY <1>0, <1>2 DEF Commit, IdInv, Pending, HasId
    <2>3. Present /\ LinkedExact /\ RowsExact
      BY <2>1 DEF ExactInv, Complete
    <2>4. Present'
      BY <1>a, <2>1, <2>3 DEF Present
    <2>5. LinkedExact'
      BY <1>0, <2>1, <2>2 DEF LinkedExact, IdInv, Pending
    <2>6. RowsExact'
      <3>1. SUFFICES ASSUME NEW row \in rows', NEW k \in DOMAIN order', order'[k][1] = row.id
                     PROVE  OfNewest(row.prev, k - 1)'
        BY DEF RowsExact
      <3>2. \A q \in rows : \E r \in rows' : r.id = q.id /\ r.hash = q.hash
        BY <2>1
      <3>3. k \in 1..last /\ \A m \in 1..k-1 : order'[m] = order[m]
        BY <1>a, <2>1
      <3>4. OfNewest(row.prev, k - 1)
        <4>1. CASE k = last
          <5>1. row = new[w]
            <6>1. row.id = new[w].id
              BY <2>1, <3>1, <4>1
            <6>. QED
              BY <1>b, <2>1, <2>2, <6>1
          <5>2. k - 1 = Len(order)
            BY <1>a, <4>1
          <5>. QED
            BY <2>2, <2>3, <5>1, <5>2 DEF LinkedExact
        <4>2. CASE k # last
          <5>1. k \in DOMAIN order
            BY <1>a, <3>3, <4>2
          <5>2. order[k][1] = row.id
            BY <2>1, <3>1, <5>1
          <5>3. row \in rows
            BY <2>1, <2>2, <5>1, <5>2
          <5>. QED
            BY <2>3, <5>1, <5>2, <5>3 DEF RowsExact
        <4>. QED
          BY <4>1, <4>2
      <3>5. ASSUME NEW prev, NEW j, prev = row.prev, j = k - 1
            PROVE  OfNewest(prev, j)'
        BY <3>2, <3>3, <3>4, <3>5, OfNewestStays
      <3>. QED
        BY <3>5
    <2>. QED
      BY <2>4, <2>5, <2>6
  <1>3. CASE NewWeek \/ UNCHANGED vars
    BY <1>3 DEF NewWeek, vars, ExactInv, Complete, Present, LinkedExact, RowsExact, OfNewest
  <1>4. ASSUME NEW old \in rows, NEW body \in Body, Rewrite(old, body)
        PROVE  (Present /\ LinkedExact /\ RowsExact)'
    <2>. DEFINE changed == [old EXCEPT !.body = body]
    <2>1. changed.id = old.id /\ changed.prev = old.prev /\ changed.hash = old.hash
      BY <1>0 DEF TypeInv, TypeOK, Row
    <2>2. rows' = (rows \ {old}) \cup {changed}
      BY <1>4 DEF Rewrite
    <2>. HIDE DEF changed
    <2>3. \A q \in rows : \E r \in rows' : r.id = q.id /\ r.prev = q.prev /\ r.hash = q.hash
      BY <2>1, <2>2
    <2>4. \A r \in rows' : \E q \in rows : r.id = q.id /\ r.prev = q.prev /\ r.hash = q.hash
      BY <2>1, <2>2
    <2>5. UNCHANGED <<order, pc, new, deleted, pruned>>
      BY <1>4 DEF Rewrite
    <2>6. Present /\ LinkedExact /\ RowsExact
      BY <2>5 DEF ExactInv, Complete
    <2>7. ASSUME NEW prev, NEW k, OfNewest(prev, k)
          PROVE  OfNewest(prev, k)'
      BY <2>3, <2>5, <2>7, OfNewestStays
    <2>8. Present'
      BY <2>3, <2>5, <2>6 DEF Present
    <2>9. LinkedExact'
      <3>1. SUFFICES ASSUME NEW w \in Writer, pc[w] = "linked"
                     PROVE  OfNewest(new[w].prev, Len(order))'
        BY <2>5 DEF LinkedExact
      <3>2. ASSUME NEW prev, NEW k, prev = new[w].prev, k = Len(order)
            PROVE  OfNewest(prev, k)'
        BY <2>6, <2>7, <3>1, <3>2 DEF LinkedExact
      <3>. QED
        BY <2>5, <3>2
    <2>10. RowsExact'
      <3>1. SUFFICES ASSUME NEW row \in rows', NEW k \in DOMAIN order, order[k][1] = row.id
                     PROVE  OfNewest(row.prev, k - 1)'
        BY <2>5 DEF RowsExact
      <3>2. PICK q \in rows : row.id = q.id /\ row.prev = q.prev
        BY <2>4
      <3>3. OfNewest(row.prev, k - 1)
        BY <2>6, <3>1, <3>2 DEF RowsExact
      <3>. QED
        BY <2>7, <3>3
    <2>. QED
      BY <2>8, <2>9, <2>10
  <1>5. CASE DropChunks
    BY <1>5 DEF DropChunks, Complete
  <1>6. ASSUME NEW x \in rows, Delete(x)
        PROVE  FALSE
    <2>1. NextIds(x) # {}
      BY DEF NextIds
    <2>2. PICK i \in NextIds(x) : TRUE
      BY <2>1
    <2>3. <<x.id, i>> \in {x.id} \X NextIds(x)
      BY <2>2
    <2>4. <<x.id, i>> \in deleted' /\ deleted' = {}
      BY <1>6, <2>3 DEF Delete, Complete
    <2>. QED
      BY <2>4
  <1>. QED
    BY <1>1, <1>2, <1>3, <1>4, <1>5, <1>6 DEF Next

LEMMA OvertakenAt ==
  ASSUME IdInv, NEW k \in DOMAIN order
  PROVE  Overtaken(order[k][1]) <=> \E m \in 1..k-1 : order[m][1] > order[k][1]
  <1>1. ASSUME Overtaken(order[k][1])
        PROVE  \E m \in 1..k-1 : order[m][1] > order[k][1]
    <2>1. PICK n \in DOMAIN order : \E m \in 1..n-1 : /\ order[m][1] > order[k][1]
                                                      /\ order[n][1] = order[k][1]
      BY <1>1 DEF Overtaken
    <2>2. n = k
      BY <2>1 DEF IdInv, Distinct
    <2>. QED
      BY <2>1, <2>2
  <1>2. ASSUME \E m \in 1..k-1 : order[m][1] > order[k][1]
        PROVE  Overtaken(order[k][1])
    BY <1>2 DEF Overtaken
  <1>. QED
    BY <1>1, <1>2

(* A row's prev_hash is what verification expects unless it, or the row     *)
(* before it, was overtaken.                                                *)
LEMMA LinkExactly ==
  ASSUME ExactInv, Complete, NEW row \in rows
  PROVE  row.prev = ExpectedPrev(row) <=>
           /\ ~Overtaken(row.id)
           /\ \A p \in Newest(Before(row)) : ~Overtaken(p.id)
  <1>0. IdInv /\ HashInv /\ TypeInv /\ RowsExact
    BY DEF ExactInv, IdInv, HashInv
  <1>1. /\ Len(order) \in Nat /\ DOMAIN order = 1..Len(order)
        /\ \A n \in DOMAIN order : n \in Nat /\ order[n][1] \in Nat /\ order[n][2] \in Body
    BY <1>0, OrderType
  <1>2. \A p \in rows : p.id \in Nat /\ \E n \in DOMAIN order : order[n][1] = p.id
    BY <1>0, RowIds DEF HashInv, RowsHashed
  <1>3. PICK k \in DOMAIN order : order[k][1] = row.id
    BY <1>2
  <1>4. Before(row) \subseteq rows /\ \A p \in Before(row) : p.id < row.id
    BY DEF Before
  <1>5. Newest(Before(row)) \subseteq Before(row)
    BY DEF Newest
  <1>6. OfNewest(row.prev, k - 1)
    BY <1>0, <1>3 DEF RowsExact
  <1>7. CASE Before(row) = {}
    <2>1. ExpectedPrev(row) = <<>> /\ Newest(Before(row)) = {}
      BY <1>7 DEF ExpectedPrev, LastHash, Newest
    <2>2. CASE k - 1 = 0 /\ row.prev = <<>>
      <3>1. ~Overtaken(row.id)
        BY <1>0, <1>3, <2>2, OvertakenAt
      <3>. QED
        BY <2>1, <2>2, <3>1
    <2>3. CASE ~(k - 1 = 0 /\ row.prev = <<>>)
      <3>1. PICK q \in rows, n \in 1..k-1 : row.prev = q.hash /\ order[n][1] = q.id
        BY <1>6, <2>3 DEF OfNewest
      <3>2. row.prev # <<>>
        <4>1. PICK j \in DOMAIN order : q.hash = Hash(q.prev, order[j][2])
          BY <1>0 DEF HashInv, RowsHashed
        <4>2. EndsWith(q.hash, order[j][2])
          BY <1>0, <4>1 DEF EndsWith, TypeInv, TypeOK, Row
        <4>. QED
          BY <1>1, <3>1, <4>2, EmptyEndsNot
      <3>3. Overtaken(row.id)
        <4>1. n # k /\ n \in DOMAIN order
          BY <1>1
        <4>2. q.id # row.id
          BY <1>0, <1>3, <3>1, <4>1 DEF IdInv, Distinct
        <4>3. ~(q.id < row.id)
          BY <1>7 DEF Before
        <4>4. order[n][1] > order[k][1]
          BY <1>2, <1>3, <3>1, <4>2, <4>3
        <4>. QED
          BY <1>0, <1>3, <4>4, OvertakenAt
      <3>. QED
        BY <2>1, <3>2, <3>3
    <2>. QED
      BY <2>2, <2>3
  <1>8. CASE Before(row) # {}
    <2>1. PICK z \in Before(row) :
             /\ ExpectedPrev(row) = z.hash
             /\ \A p \in Before(row) : p.id <= z.id
             /\ \E n \in DOMAIN order : /\ order[n][1] = z.id
                                        /\ EndsWith(ExpectedPrev(row), order[n][2])
      BY <1>0, <1>4, <1>8, LastHashIsNewest DEF ExpectedPrev
    <2>2. PICK j \in DOMAIN order : order[j][1] = z.id /\ EndsWith(z.hash, order[j][2])
      BY <2>1
    <2>3. z \in Newest(Before(row)) /\ z \in rows /\ z.id < row.id
      BY <1>4, <2>1 DEF Newest
    <2>4. \A p \in Newest(Before(row)) : p = z
      <3>1. SUFFICES ASSUME NEW p \in Newest(Before(row)) PROVE p = z
        OBVIOUS
      <3>2. p \in rows /\ p.id <= z.id /\ z.id <= p.id
        BY <1>4, <1>5, <2>1 DEF Newest
      <3>3. p.id = z.id
        BY <1>2, <2>3, <3>2
      <3>. QED
        BY <1>0, <2>3, <3>2, <3>3 DEF IdInv, OneRow
    <2>5. (\A p \in Newest(Before(row)) : ~Overtaken(p.id)) <=> ~Overtaken(z.id)
      BY <2>3, <2>4
    <2>6. j # k
      BY <1>2, <1>3, <2>2, <2>3
    <2>7. j > k => Overtaken(z.id)
      <3>1. SUFFICES ASSUME j > k PROVE Overtaken(z.id)
        OBVIOUS
      <3>2. k \in 1..j-1
        BY <1>1, <3>1
      <3>3. order[k][1] > order[j][1]
        BY <1>2, <1>3, <2>2, <2>3
      <3>. QED
        BY <1>0, <2>2, <3>2, <3>3, OvertakenAt
    <2>8. CASE k - 1 = 0 /\ row.prev = <<>>
      <3>1. ExpectedPrev(row) # <<>>
        BY <1>1, <2>1, <2>2, EmptyEndsNot
      <3>2. j > k
        BY <1>1, <2>6, <2>8
      <3>. QED
        BY <2>5, <2>7, <2>8, <3>1, <3>2
    <2>9. CASE ~(k - 1 = 0 /\ row.prev = <<>>)
      <3>1. PICK q \in rows, n \in 1..k-1 : /\ row.prev = q.hash /\ order[n][1] = q.id
                                            /\ \A m \in 1..k-1 : order[m][1] <= q.id
        BY <1>6, <2>9 DEF OfNewest
      <3>2. n # k /\ n \in DOMAIN order /\ q.id # row.id
        <4>1. n # k /\ n \in DOMAIN order
          BY <1>1
        <4>. QED
          BY <1>0, <1>3, <3>1, <4>1 DEF IdInv, Distinct
      <3>3. q.hash = z.hash => q = z
        <4>1. SUFFICES ASSUME q.hash = z.hash PROVE q = z
          OBVIOUS
        <4>2. PICK i \in DOMAIN order : order[i][1] = q.id /\ q.hash = Hash(q.prev, order[i][2])
          BY <1>0 DEF HashInv, RowsHashed
        <4>3. EndsWith(q.hash, order[i][2])
          BY <1>0, <4>2 DEF EndsWith, TypeInv, TypeOK, Row
        <4>4. order[i][2] = order[j][2]
          BY <1>1, <2>2, <4>1, <4>3, OneEnd
        <4>5. i = j
          BY <1>0, <4>4 DEF IdInv, Distinct
        <4>6. q.id = z.id
          BY <2>2, <4>2, <4>5
        <4>. QED
          BY <1>0, <2>3, <4>6 DEF IdInv, OneRow
      <3>4. CASE row.id < q.id
        <4>1. Overtaken(row.id)
          <5>1. order[n][1] > order[k][1]
            BY <1>2, <1>3, <3>1, <3>4
          <5>. QED
            BY <1>0, <1>3, <5>1, OvertakenAt
        <4>2. q # z
          BY <1>2, <2>3, <3>4
        <4>. QED
          BY <2>1, <3>1, <3>3, <4>1, <4>2
      <3>5. CASE ~(row.id < q.id)
        <4>1. q.id < row.id
          BY <1>2, <3>2, <3>5
        <4>2. q \in Before(row) /\ q.id <= z.id
          BY <2>1, <4>1 DEF Before
        <4>3. ~Overtaken(row.id)
          <5>1. ASSUME NEW m \in 1..k-1
                PROVE  ~(order[m][1] > order[k][1])
            <6>1. m \in DOMAIN order /\ order[m][1] <= q.id
              BY <1>1, <3>1
            <6>. QED
              BY <1>1, <1>2, <1>3, <4>1, <6>1
          <5>. QED
            BY <1>0, <1>3, <5>1, OvertakenAt
        <4>4. q = z => ~Overtaken(z.id)
          <5>1. SUFFICES ASSUME q = z PROVE ~Overtaken(order[n][1])
            BY <3>1
          <5>2. ASSUME NEW m \in 1..n-1
                PROVE  ~(order[m][1] > order[n][1])
            <6>1. m \in DOMAIN order /\ m \in 1..k-1
              BY <1>1, <3>2
            <6>2. order[m][1] <= q.id
              BY <3>1, <6>1
            <6>. QED
              BY <1>1, <1>2, <3>1, <6>1, <6>2
          <5>. QED
            BY <1>0, <3>2, <5>2, OvertakenAt
        <4>5. ~Overtaken(z.id) => q = z
          <5>1. SUFFICES ASSUME ~Overtaken(z.id) PROVE q = z
            OBVIOUS
          <5>2. j \in 1..k-1
            BY <1>1, <2>6, <2>7, <5>1
          <5>3. z.id <= q.id
            BY <2>2, <3>1, <5>2
          <5>4. z.id = q.id
            BY <1>2, <2>3, <4>2, <5>3
          <5>. QED
            BY <1>0, <2>3, <5>4 DEF IdInv, OneRow
        <4>. QED
          BY <2>1, <2>5, <3>1, <3>3, <4>3, <4>4, <4>5
      <3>. QED
        BY <3>4, <3>5
    <2>. QED
      BY <2>8, <2>9
  <1>. QED
    BY <1>7, <1>8

LEMMA ExactAlarms == ExactInv => AlarmExact
  <1>. SUFFICES ASSUME ExactInv, Complete, NEW row \in rows
                PROVE  Bad(row) <=> \/ Rewritten(row)
                                    \/ Overtaken(row.id)
                                    \/ \E p \in Newest(Before(row)) : Overtaken(p.id)
    BY DEF AlarmExact, Complete
  <1>0. IdInv /\ HashInv /\ TypeInv
    BY DEF ExactInv, IdInv, HashInv
  <1>1. PICK k \in DOMAIN order : order[k][1] = row.id /\ row.hash = Hash(row.prev, order[k][2])
    BY <1>0 DEF HashInv, RowsHashed
  <1>2. order[k][2] \in Body /\ row.body \in Body /\ row.prev \in Seq(Body)
    BY <1>0, OrderType DEF TypeInv, TypeOK, Row
  <1>3. Rewritten(row) <=> order[k][2] # row.body
    <2>1. \A n \in DOMAIN order : order[n] = <<order[n][1], order[n][2]>>
      <3>1. \A n \in DOMAIN order : order[n] \in Nat \X Body
        BY <1>0, OrderType DEF TypeInv, TypeOK
      <3>. QED
        BY <3>1
    <2>2. ASSUME order[k][2] = row.body
          PROVE  ~Rewritten(row)
      BY <1>1, <2>1, <2>2 DEF Rewritten
    <2>3. ASSUME ~Rewritten(row)
          PROVE  order[k][2] = row.body
      <3>1. PICK n \in DOMAIN order : order[n] = <<row.id, row.body>>
        BY <2>3 DEF Rewritten
      <3>2. order[n][1] = row.id /\ order[n][2] = row.body
        BY <3>1
      <3>. QED
        BY <1>0, <1>1, <3>2 DEF IdInv, Distinct
    <2>. QED
      BY <2>2, <2>3
  <1>4. Hash(row.prev, order[k][2]) = Hash(row.prev, row.body) <=> order[k][2] = row.body
    BY <1>2, AppendInjective DEF Hash
  <1>5. Bad(row) <=> row.prev # ExpectedPrev(row) \/ order[k][2] # row.body
    BY <1>1, <1>4 DEF Bad
  <1>. QED
    BY <1>3, <1>5, LinkExactly

(* The alarms are exact while nothing is deleted or dropped, for any number *)
(* of sessions, interleavings and rows rewritten.                           *)
THEOREM AlarmsAreExact == Spec => []AlarmExact
  <1>1. Spec => []ExactInv
    BY ExactInit, ExactStep, PTL DEF Spec
  <1>. QED
    BY <1>1, ExactAlarms, PTL

=============================================================================
