----------------------------- MODULE AuditChain -----------------------------
(***************************************************************************)
(* The hash chain over ingestion_audit_log (migrations/0013): the BEFORE   *)
(* INSERT trigger that links a new row to the row before it, the insertions*)
(* of several ingestor and API processes racing through it, the retention  *)
(* policy that drops old chunks (0019 to 0021), rewriting and deletion     *)
(* behind the guard triggers' back, and VerifyIngestionAuditChain, which   *)
(* an operator asks whether the log was tampered with. The chain over      *)
(* user_action_audit_log is the same but for retention.                    *)
(*                                                                         *)
(* sha256 is taken to be injective: a hash is the list of everything that  *)
(* went into it, and the empty list is ''. A body stands for a row's       *)
(* device_id, raw_payload and received_at, so no two insertions share one. *)
(***************************************************************************)
EXTENDS Naturals, Sequences

CONSTANTS
  Writer,      \* database sessions that insert audit rows
  Body,        \* what may arrive, each once
  MaxWeek,     \* a chunk of the log spans 7 days; weeks are 1..MaxWeek
  MaxTampers,  \* rewritings and deletions in a behaviour
  NoWriter,    \* the advisory lock while free
  Null         \* SQL's NULL

ASSUME AuditChainAssumption ==
  /\ MaxWeek \in Nat \ {0}
  /\ MaxTampers \in Nat
  /\ NoWriter \notin Writer
  /\ Null \notin [id : Nat, body : Body, week : Nat, prev : Seq(Body), hash : Seq(Body)]

VARIABLES
  rows,     \* ingestion_audit_log, a set of rows
  nextId,   \* the next value of the identity column
  lock,     \* who holds pg_advisory_xact_lock('ingestion_audit_log_chain')
  week,     \* the current week
  pc,       \* where each session's INSERT is
  new,      \* the row each session is inserting
  arrived,  \* bodies that were ever inserted
  order,    \* <<id, body>> of every committed row, in commit order
  deleted,  \* <<x, s>>: row x was deleted by hand while s came right after it, 0 for none
  pruned,   \* retention has dropped a row
  tampers   \* rewritings and deletions so far

vars == <<rows, nextId, lock, week, pc, new, arrived, order, deleted, pruned, tampers>>

Hash(prev, body) == Append(prev, body)

Row == [id : Nat, body : Body, week : 1..MaxWeek, prev : Seq(Body), hash : Seq(Body)]

Init ==
  /\ rows = {}
  /\ nextId = 1
  /\ lock = NoWriter
  /\ week = 1
  /\ pc = [w \in Writer |-> "idle"]
  /\ new = [w \in Writer |-> Null]
  /\ arrived = {}
  /\ order = <<>>
  /\ deleted = {}
  /\ pruned = FALSE
  /\ tampers = 0

-----------------------------------------------------------------------------
(* INSERT INTO ingestion_audit_log (device_id, raw_payload): one statement, *)
(* a transaction of its own, in four steps.                                 *)

(* The transaction starts, and with it received_at = now().                 *)
Begin(w, body) ==
  /\ pc[w] = "idle"
  /\ body \notin arrived
  /\ arrived' = arrived \cup {body}
  /\ new' = [new EXCEPT ![w] = [id |-> 0, body |-> body, week |-> week,
                                prev |-> <<>>, hash |-> <<>>]]
  /\ pc' = [pc EXCEPT ![w] = "started"]
  /\ UNCHANGED <<rows, nextId, lock, week, order, deleted, pruned, tampers>>

(* The identity default is evaluated before the trigger runs, and is never  *)
(* given back.                                                              *)
Allocate(w) ==
  /\ pc[w] = "started"
  /\ new' = [new EXCEPT ![w].id = nextId]
  /\ nextId' = nextId + 1
  /\ pc' = [pc EXCEPT ![w] = "waiting"]
  /\ UNCHANGED <<rows, lock, week, arrived, order, deleted, pruned, tampers>>

Newest(S) == {row \in S : \A other \in S : other.id <= row.id}

(* The entry_hash of the newest row of S, coalesced to ''.                   *)
LastHash(S) == IF Newest(S) = {} THEN <<>> ELSE (CHOOSE row \in Newest(S) : TRUE).hash

LinkTo(w, prev) ==
  /\ new' = [new EXCEPT ![w].prev = prev, ![w].hash = Hash(prev, new[w].body)]
  /\ pc' = [pc EXCEPT ![w] = "linked"]
  /\ UNCHANGED <<rows, nextId, week, arrived, order, deleted, pruned, tampers>>

\* Mutant: the trigger does not take the lock.
LinkUnlocked(w) ==
  /\ pc[w] = "waiting"
  /\ UNCHANGED lock
  /\ LinkTo(w, LastHash(rows))

(* The trigger: take the lock, then SELECT entry_hash FROM                  *)
(* ingestion_audit_log ORDER BY id DESC LIMIT 1.                            *)
Link(w) ==
  /\ pc[w] = "waiting"
  /\ lock = NoWriter
  /\ lock' = w
  /\ LinkTo(w, LastHash(rows))

\* Mutant: a session-level lock, kept after the transaction.
UnlockNever(w) == lock

Unlock(w) == IF lock = w THEN NoWriter ELSE lock

(* The transaction is over; its lock is released last.                      *)
End(w) ==
  /\ lock' = Unlock(w)
  /\ pc' = [pc EXCEPT ![w] = "idle"]
  /\ new' = [new EXCEPT ![w] = Null]
  /\ UNCHANGED <<nextId, week, arrived, deleted, pruned, tampers>>

Commit(w) ==
  /\ pc[w] = "linked"
  /\ rows' = rows \cup {new[w]}
  /\ order' = Append(order, <<new[w].id, new[w].body>>)
  /\ End(w)

(* The statement fails or its session dies: the id is burned.               *)
Abort(w) ==
  /\ pc[w] # "idle"
  /\ UNCHANGED <<rows, order>>
  /\ End(w)

-----------------------------------------------------------------------------
(* Time passes. No INSERT lasts into a second week.                         *)
NewWeek ==
  /\ week < MaxWeek
  /\ \A w \in Writer : pc[w] # "idle" => new[w].week = week
  /\ week' = week + 1
  /\ UNCHANGED <<rows, nextId, lock, pc, new, arrived, order, deleted, pruned, tampers>>

(* The retention policy drops the chunks that ended 7 days ago. Dropping a  *)
(* chunk fires no row trigger.                                              *)
DropChunks ==
  LET old == {row \in rows : row.week + 2 <= week} IN
  /\ old # {}
  /\ rows' = rows \ old
  /\ pruned' = TRUE
  /\ UNCHANGED <<nextId, lock, week, pc, new, arrived, order, deleted, tampers>>

(* Someone disables a guard trigger and rewrites or deletes a row, as       *)
(* audit_chain_test.go does.                                                *)
Rewrite(row, body) ==
  /\ tampers < MaxTampers
  /\ tampers' = tampers + 1
  /\ body # row.body
  /\ rows' = (rows \ {row}) \cup {[row EXCEPT !.body = body]}
  /\ UNCHANGED <<nextId, lock, week, pc, new, arrived, order, deleted, pruned>>

Before(row) == {other \in rows : other.id < row.id}
After(row) == {other \in rows : row.id < other.id}

\* The ids of the rows that come right after: one, or 0 for none.
NextIds(row) ==
  LET next == {s \in After(row) : \A other \in After(row) : s.id <= other.id}
  IN  IF next = {} THEN {0} ELSE {s.id : s \in next}

Delete(row) ==
  /\ tampers < MaxTampers
  /\ tampers' = tampers + 1
  /\ rows' = rows \ {row}
  /\ deleted' = deleted \cup ({row.id} \X NextIds(row))
  /\ UNCHANGED <<nextId, lock, week, pc, new, arrived, order, pruned>>

Next ==
  \/ \E w \in Writer, body \in Body : Begin(w, body)
  \/ \E w \in Writer : Allocate(w)
  \/ \E w \in Writer : Link(w)
  \/ \E w \in Writer : Commit(w)
  \/ \E w \in Writer : Abort(w)
  \/ NewWeek
  \/ DropChunks
  \/ \E row \in rows, body \in Body : Rewrite(row, body)
  \/ \E row \in rows : Delete(row)

Spec == Init /\ [][Next]_vars

(* A statement that is running runs on, and the lock manager serves those   *)
(* that wait in turn. Nothing obliges a statement to fail.                  *)
FairSpec ==
  /\ Spec
  /\ \A w \in Writer : WF_vars(Allocate(w) \/ Commit(w)) /\ SF_vars(Link(w))

-----------------------------------------------------------------------------
(* VerifyIngestionAuditChain.                                               *)

(* coalesce(lag(entry_hash) OVER (ORDER BY id), '')                         *)
ExpectedPrev(row) == LastHash(Before(row))

\* Mutants: only the link is compared; each row is checked against its own prev_hash.
BadLink(row) == row.prev # ExpectedPrev(row)
BadHash(row) == row.hash # Hash(row.prev, row.body)

Bad(row) ==
  \/ row.hash # Hash(ExpectedPrev(row), row.body)
  \/ row.prev # ExpectedPrev(row)

Mismatches == {row \in rows : Bad(row)}

-----------------------------------------------------------------------------
(* Properties.                                                              *)

(* Types.                                                                   *)
TypeOK ==
  /\ rows \in SUBSET Row
  /\ nextId \in Nat
  /\ lock \in Writer \cup {NoWriter}
  /\ week \in 1..MaxWeek
  /\ pc \in [Writer -> {"idle", "started", "waiting", "linked"}]
  /\ new \in [Writer -> Row \cup {Null}]
  /\ arrived \in SUBSET Body
  /\ order \in Seq(Nat \X Body)
  /\ deleted \in SUBSET (Nat \X Nat)
  /\ pruned \in BOOLEAN
  /\ tampers \in Nat

(* Row i committed before row j.                                            *)
CommittedBefore(i, j) ==
  \E n \in DOMAIN order : \E m \in 1..n-1 : order[m][1] = i /\ order[n][1] = j

(* Row i committed after a row with a higher id.                            *)
Overtaken(i) ==
  \E n \in DOMAIN order : \E m \in 1..n-1 : order[m][1] > i /\ order[n][1] = i

(* The row's content is not what was committed under its id.                *)
Rewritten(row) == <<row.id, row.body>> \notin {order[n] : n \in DOMAIN order}

(* While nothing was deleted or pruned, verification raises exactly these   *)
(* alarms: a row that was rewritten, and, tampering or none, a row that     *)
(* committed after one with a higher id and the row that follows such a row.*)
(* In particular the lock does keep two rows that commit in id order from   *)
(* linking to the same row.                                                 *)
AlarmExact ==
  ~pruned /\ deleted = {} =>
    \A row \in rows :
      Bad(row) <=> \/ Rewritten(row)
                   \/ Overtaken(row.id)
                   \/ \E p \in Newest(Before(row)) : Overtaken(p.id)

(* A rewritten row is reported for as long as retention keeps it, whatever  *)
(* order rows committed in and whatever else was dropped or deleted.        *)
RewriteEvident == \A row \in rows : Rewritten(row) => Bad(row)

(* A deleted row is missed: the row that followed it, if it was committed   *)
(* after it, is reported for as long as it is there.                        *)
DeletionEvident ==
  \A d \in deleted : \A row \in rows :
    row.id = d[2] /\ CommittedBefore(d[1], d[2]) => Bad(row)

(* An INSERT never waits for the lock for ever.                             *)
InsertsReturn == \A w \in Writer : (pc[w] # "idle") ~> (pc[w] = "idle")

=============================================================================
