----------------------------- MODULE VendorSync -----------------------------
(***************************************************************************)
(* The poller of customers' vendor accounts (cmd/vendor-sync). Each tick   *)
(* lists the connections that need attention and syncs them, at most       *)
(* maxConcurrent at a time; the next tick waits for all of them. A sync    *)
(* asks the vendor for the account's devices and, for each, registers it   *)
(* if need be, has a cloud-import token issued, fetches a reading and      *)
(* submits it, then records how it went. Customers connect and revoke      *)
(* meanwhile. An operator who has a token issued for a device is to a sync *)
(* of it what another connection with the same device is.                  *)
(*                                                                         *)
(* A connection belongs to a site of its own. A token is named by who had  *)
(* it issued: none of them keeps an older one. What a reading goes through *)
(* once it is submitted is Ingestion's. The vendors are external: they     *)
(* answer, fail, or say that the password is wrong.                        *)
(***************************************************************************)
EXTENDS Naturals

CONSTANTS
  Conn,       \* rows that vendor_connections may come to hold
  Device,
  Account,    \* the devices on each connection's vendor account
  Worker,     \* the slots of the semaphore
  MaxFaults,  \* failures of a vendor, a call or a statement, and crashes
  None        \* no connection, no device

ASSUME VendorSyncAssumption ==
  /\ Account \in [Conn -> (SUBSET Device) \ {{}}]
  /\ MaxFaults \in Nat
  /\ None \notin Conn /\ None \notin Device

VARIABLES
  status,    \* vendor_connections.status; "none": no row yet
  listed,    \* connections of this tick not yet looked at
  worker,    \* what each goroutine is at
  site,      \* the connection for whose site each device was registered
  tokens,    \* the tokens of each device that are not revoked
  faults,    \* how many so far
  excused    \* connections that met a failure, or a rival for a device,
             \* since they were last marked as synced

vars == <<status, listed, worker, site, tokens, faults, excused>>

Polled == {"pending", "active", "error"}
Status == Polled \cup {"none", "invalid_credentials", "revoked"}
Step == {"free", "discover", "find", "create", "revoke", "issue", "fetch", "submit", "mark"}

Free == [pc |-> "free", conn |-> None, left |-> {}, dev |-> None,
         synced |-> FALSE, err |-> "none"]

Goroutine ==
  [pc : Step, conn : Conn \cup {None}, left : SUBSET Device, dev : Device \cup {None},
   synced : BOOLEAN, err : {"none", "transient", "wrong"}]

Init ==
  /\ status = [c \in Conn |-> "none"]
  /\ listed = {}
  /\ worker = [w \in Worker |-> Free]
  /\ site = [d \in Device |-> None]
  /\ tokens = [d \in Device |-> {}]
  /\ faults = 0
  /\ excused = {}

Fault ==
  /\ faults < MaxFaults
  /\ faults' = faults + 1

Becomes(w, g) == worker' = [worker EXCEPT ![w] = g]

-----------------------------------------------------------------------------
(* The customer.                                                            *)

(* VendorConnections.Create, before or after a connection to the same        *)
(* vendor account was revoked or given up: it is a row of its own.           *)
Create(c) ==
  /\ status[c] = "none"
  /\ status' = [status EXCEPT ![c] = "pending"]
  /\ UNCHANGED <<listed, worker, site, tokens, faults, excused>>

(* VendorConnections.Revoke, whatever the status.                            *)
Revoke(c) ==
  /\ status[c] # "none"
  /\ status' = [status EXCEPT ![c] = "revoked"]
  /\ UNCHANGED <<listed, worker, site, tokens, faults, excused>>

-----------------------------------------------------------------------------
(* The ticker loop and runOnce.                                             *)

\* Mutants: without a WHERE; with one that forgets new rows.
ListedAll == {c \in Conn : status[c] # "none"}
ListedOld == {c \in Conn : status[c] \in {"active", "error"}}

(* ListActiveVendorConnections.                                              *)
ListActive == {c \in Conn : status[c] \in Polled}

(* A tick, once the one before is over: wg.Wait.                             *)
Tick ==
  /\ listed = {}
  /\ \A w \in Worker : worker[w].pc = "free"
  /\ listed' = ListActive
  /\ UNCHANGED <<status, worker, site, tokens, faults, excused>>

(* Last synced less than its poll interval ago: a row listed as "active". A  *)
(* new row was never synced, and one in "error" was due when it failed.      *)
Skip(c) ==
  /\ c \in listed
  /\ status[c] \in {"active", "revoked"}
  /\ listed' = listed \ {c}
  /\ UNCHANGED <<status, worker, site, tokens, faults, excused>>

(* The loop got a slot, whichever, and started a goroutine with the row as   *)
(* it was listed.                                                            *)
Launch(c) ==
  /\ c \in listed
  /\ \E w \in Worker : worker[w].pc = "free"
  /\ LET w == CHOOSE v \in Worker : worker[v].pc = "free" IN
     Becomes(w, [Free EXCEPT !.pc = "discover", !.conn = c])
  /\ listed' = listed \ {c}
  /\ UNCHANGED <<status, site, tokens, faults, excused>>

(* vendor-sync is stopped or dies, and starts again: every call under way    *)
(* ends, MarkError included, as they share the cancelled context.            *)
Crash ==
  /\ \E w \in Worker : worker[w].pc # "free"
  /\ Fault
  /\ listed' = {}
  /\ worker' = [w \in Worker |-> Free]
  /\ UNCHANGED <<status, site, tokens, excused>>

-----------------------------------------------------------------------------
(* syncConnection.                                                          *)

(* The goroutine after it is done with one device.                           *)
NextDevice(g) ==
  LET rest == g.left \ {g.dev} IN
  [g EXCEPT !.left = rest, !.dev = None, !.pc = IF rest = {} THEN "mark" ELSE "find"]

\* Mutant: a device's failure ends the sync.
DeviceFailedReturns(w, g, e) ==
  Becomes(w, [g EXCEPT !.err = e, !.left = {}, !.dev = None, !.pc = "mark"])

(* lastErr = err; continue.                                                  *)
DeviceFailed(w, g, e) ==
  Becomes(w, NextDevice([g EXCEPT !.err = e]))

(* Something outside fails, and its connection has an excuse.                *)
Failure(w) ==
  /\ Fault
  /\ excused' = excused \cup {worker[w].conn}

(* provider.Discover: the account's devices, or an error, which may be the    *)
(* vendor's word that the password is wrong. An empty list, which ends in     *)
(* MarkError, counts as a transient error.                                    *)
Discover(w) ==
  /\ worker[w].pc = "discover"
  /\ \/ /\ Becomes(w, [worker[w] EXCEPT !.pc = "find", !.left = Account[worker[w].conn]])
        /\ UNCHANGED <<faults, excused>>
     \/ /\ Failure(w)
        /\ \E e \in {"transient", "wrong"} :
             Becomes(w, [worker[w] EXCEPT !.pc = "mark", !.err = e])
  /\ UNCHANGED <<status, listed, site, tokens>>

(* ensureDeviceRegistered asks for the device; the site it is registered at  *)
(* is not looked at.                                                         *)
Find(w) ==
  /\ worker[w].pc = "find"
  /\ \E d \in worker[w].left :
       LET g == [worker[w] EXCEPT !.dev = d] IN
       \/ /\ Becomes(w, [g EXCEPT !.pc = IF site[d] = None THEN "create" ELSE "revoke"])
          /\ UNCHANGED <<faults, excused>>
       \/ /\ Failure(w)
          /\ DeviceFailed(w, g, "transient")
  /\ UNCHANGED <<status, listed, site, tokens>>

(* POST /v1/devices: refused if another connection was faster.               *)
CreateDevice(w) ==
  LET d == worker[w].dev IN
  /\ worker[w].pc = "create"
  /\ \/ /\ site[d] = None
        /\ site' = [site EXCEPT ![d] = worker[w].conn]
        /\ \/ /\ Becomes(w, [worker[w] EXCEPT !.pc = "revoke"])
              /\ UNCHANGED <<faults, excused>>
           \/ /\ Failure(w)
              /\ DeviceFailed(w, worker[w], "transient")
     \/ /\ site[d] # None
        /\ DeviceFailed(w, worker[w], "transient")
        /\ excused' = excused \cup {worker[w].conn}
        /\ UNCHANGED <<site, faults>>
     \/ /\ Failure(w)
        /\ DeviceFailed(w, worker[w], "transient")
        /\ UNCHANGED site
  /\ UNCHANGED <<status, listed, tokens>>

(* Those who hold a token of the device while another one has it replaced.   *)
Rivals(d, i) ==
  {worker[w].conn : w \in {v \in Worker \ {i} : worker[v].dev = d /\ worker[v].pc \in {"fetch", "submit"}}}

(* IssueToken's first statement: the device's tokens are revoked.            *)
RevokeTokens(w) ==
  LET d == worker[w].dev IN
  /\ worker[w].pc = "revoke"
  /\ \/ /\ tokens' = [tokens EXCEPT ![d] = {}]
        /\ \/ /\ Becomes(w, [worker[w] EXCEPT !.pc = "issue"])
              /\ excused' = excused \cup Rivals(d, w)
              /\ UNCHANGED faults
           \/ /\ Fault
              /\ DeviceFailed(w, worker[w], "transient")
              /\ excused' = excused \cup Rivals(d, w) \cup {worker[w].conn}
     \/ /\ Failure(w)
        /\ DeviceFailed(w, worker[w], "transient")
        /\ UNCHANGED tokens
  /\ UNCHANGED <<status, listed, site>>

\* Mutant: the new token is created first, and revoked with the others.
IssueTokenRevoked(w) ==
  /\ worker[w].pc = "issue"
  /\ tokens' = [tokens EXCEPT ![worker[w].dev] = {}]
  /\ Becomes(w, [worker[w] EXCEPT !.pc = "fetch"])
  /\ UNCHANGED <<status, listed, site, faults, excused>>

(* IssueToken's second statement: a new one is created.                      *)
IssueToken(w) ==
  LET d == worker[w].dev IN
  /\ worker[w].pc = "issue"
  /\ \/ /\ tokens' = [tokens EXCEPT ![d] = @ \cup {w}]
        /\ \/ /\ Becomes(w, [worker[w] EXCEPT !.pc = "fetch"])
              /\ UNCHANGED <<faults, excused>>
           \/ /\ Failure(w)
              /\ DeviceFailed(w, worker[w], "transient")
     \/ /\ Failure(w)
        /\ DeviceFailed(w, worker[w], "transient")
        /\ UNCHANGED tokens
  /\ UNCHANGED <<status, listed, site>>

(* provider.FetchReading.                                                    *)
FetchReading(w) ==
  /\ worker[w].pc = "fetch"
  /\ \/ /\ Becomes(w, [worker[w] EXCEPT !.pc = "submit"])
        /\ UNCHANGED <<faults, excused>>
     \/ /\ Failure(w)
        /\ \E e \in {"transient", "wrong"} : DeviceFailed(w, worker[w], e)
  /\ UNCHANGED <<status, listed, site, tokens>>

(* submitReading: a token that was revoked in the meantime is refused.       *)
SubmitReading(w) ==
  /\ worker[w].pc = "submit"
  /\ \/ /\ w \in tokens[worker[w].dev]
        /\ Becomes(w, NextDevice([worker[w] EXCEPT !.synced = TRUE]))
        /\ UNCHANGED <<faults, excused>>
     \/ /\ w \notin tokens[worker[w].dev]
        /\ DeviceFailed(w, worker[w], "transient")
        /\ UNCHANGED <<faults, excused>>
     \/ /\ Failure(w)
        /\ DeviceFailed(w, worker[w], "transient")
  /\ UNCHANGED <<status, listed, site, tokens>>

(* MarkSynced, or markFailure with the last error.                           *)
Outcome(g) ==
  IF g.synced THEN "active" ELSE IF g.err = "wrong" THEN "invalid_credentials" ELSE "error"

(* One UPDATE by id alone; should it fail, nobody hears of it.               *)
Mark(w) ==
  LET c == worker[w].conn IN
  /\ worker[w].pc = "mark"
  /\ Becomes(w, Free)
  /\ \/ /\ status' = [status EXCEPT ![c] = Outcome(worker[w])]
        /\ excused' = IF worker[w].synced THEN excused \ {c} ELSE excused
        /\ UNCHANGED faults
     \/ /\ Fault
        /\ UNCHANGED <<status, excused>>
  /\ UNCHANGED <<listed, site, tokens>>

-----------------------------------------------------------------------------
Customer == \E c \in Conn : Create(c) \/ Revoke(c)

Poll == Tick \/ \E c \in Conn : Skip(c) \/ Launch(c)

Sync(w) ==
  \/ Discover(w)
  \/ Find(w)
  \/ CreateDevice(w)
  \/ RevokeTokens(w)
  \/ IssueToken(w)
  \/ FetchReading(w)
  \/ SubmitReading(w)
  \/ Mark(w)

Next ==
  \/ Customer
  \/ Poll
  \/ \E w \in Worker : Sync(w)
  \/ Crash

Spec == Init /\ [][Next]_vars

(* The ticker ticks and the loop runs on, and every call of a goroutine has a *)
(* timeout; customers and crashes owe nothing.                    *)
FairSpec ==
  /\ Spec
  /\ WF_vars(Poll)
  /\ \A w \in Worker : WF_vars(Sync(w))

-----------------------------------------------------------------------------
TypeOK ==
  /\ status \in [Conn -> Status]
  /\ listed \in SUBSET Conn
  /\ worker \in [Worker -> Goroutine]
  /\ site \in [Device -> Conn \cup {None}]
  /\ tokens \in [Device -> SUBSET Worker]
  /\ faults \in 0..MaxFaults
  /\ excused \in SUBSET Conn

AtWork(c) == c \in listed \/ \E w \in Worker : worker[w].conn = c

(* A connection that is revoked while the poller is not at it stays revoked  *)
(* and is never listed again. (ListActiveVendorConnections is the only way   *)
(* in, and a goroutine's last statement is the only way out of "revoked".)   *)
RevocationHolds ==
  [][\A c \in Conn : status[c] = "revoked" /\ ~AtWork(c)
       => status'[c] = "revoked" /\ ~AtWork(c)']_vars

(* A connection given up for its password is not tried again: nothing but    *)
(* the customer's own revocation moves it out of 'invalid_credentials'. It   *)
(* takes the barrier between ticks, as Mark writes by id alone: a goroutine  *)
(* left over from an earlier tick would bring it back.                       *)
GivenUpForGood ==
  [][\A c \in Conn : status[c] = "invalid_credentials"
       => status'[c] \in {"invalid_credentials", "revoked"}]_vars

(* One customer's trouble is not another's: a connection is only marked as   *)
(* failing if its own sync met a failure outside since it last succeeded, or  *)
(* shared a device with another one that registered it or had its token      *)
(* replaced meanwhile.                                                       *)
FailuresAreOwn ==
  \A c \in Conn : status[c] \in {"error", "invalid_credentials"} => c \in excused

(* The devices on no other connection's account.                            *)
Exclusive(c) == {d \in Account[c] : \A b \in Conn \ {c} : d \notin Account[b]}

(* A connection just made is polled, however many others there are.          *)
EveryoneIsPolled == \A c \in Conn : (status[c] = "pending") ~> (status[c] # "pending")

(* A connection that failed recovers without help once the failures stop, if *)
(* one of its devices is on no other account; a device that keeps failing    *)
(* does not keep the others from being synced.                               *)
Recovers ==
  \A c \in Conn : Exclusive(c) # {} => ((status[c] = "error") ~> (status[c] # "error"))

(* What cmd/vendor-sync/main.go:14-15 says of the connections polled: never  *)
(* revoked. Mark brings back one that is revoked during its sync.            *)
RevokedStays ==
  [][\A c \in Conn : status[c] = "revoked" => status'[c] = "revoked"]_vars

=============================================================================
