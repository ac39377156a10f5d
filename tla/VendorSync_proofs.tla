-------------------------- MODULE VendorSync_proofs --------------------------
(***************************************************************************)
(* Proofs about VendorSync for every number of connections, devices, slots *)
(* and failures, and whichever accounts share a device.                    *)
(***************************************************************************)
EXTENDS VendorSync, TLAPS

USE VendorSyncAssumption

(* What a goroutine knows: of itself, of why it failed, and of its token.    *)
Shaped(w) ==
  /\ worker[w].pc = "free" => worker[w] = Free
  /\ worker[w].pc # "free" => worker[w].conn \in Conn
  /\ worker[w].pc \in {"create", "revoke", "issue", "fetch", "submit"} => worker[w].dev \in Device

Excused(w) == worker[w].err # "none" => worker[w].conn \in excused

Ended(w) == worker[w].pc = "mark" => worker[w].synced \/ worker[w].err # "none"

Live(w) ==
  worker[w].pc \in {"fetch", "submit"} => w \in tokens[worker[w].dev] \/ worker[w].conn \in excused

HandInv(w) == Shaped(w) /\ Excused(w) /\ Ended(w) /\ Live(w)

(* A connection is listed, or at one goroutine, or neither.                  *)
Apart ==
  \A w \in Worker : worker[w].pc # "free" =>
    /\ worker[w].conn \notin listed
    /\ \A v \in Worker \ {w} : worker[v].conn # worker[w].conn

GivenUp == \A c \in Conn : status[c] = "invalid_credentials" => ~AtWork(c)

IInv ==
  /\ TypeOK
  /\ \A w \in Worker : HandInv(w)
  /\ Apart
  /\ GivenUp
  /\ FailuresAreOwn

LEMMA InvInit == Init => IInv
  <1>. SUFFICES ASSUME Init PROVE IInv
    OBVIOUS
  <1>1. TypeOK
    BY DEF Init, TypeOK, Status, Polled, Goroutine, Free, Step
  <1>2. \A w \in Worker : HandInv(w)
    BY DEF Init, HandInv, Shaped, Excused, Ended, Live, Free
  <1>3. Apart
    BY DEF Init, Apart, Free
  <1>4. GivenUp /\ FailuresAreOwn
    BY DEF Init, GivenUp, FailuresAreOwn
  <1>. QED
    BY <1>1, <1>2, <1>3, <1>4 DEF IInv

-----------------------------------------------------------------------------
(* The steps of a sync but its last: they stay with their connection, excuse *)
(* none, and whoever loses a token to them is excused.                       *)
Steady(w) ==
  /\ UNCHANGED <<status, listed>>
  /\ worker[w].pc # "free"
  /\ Becomes(w, worker'[w])
  /\ worker'[w] \in Goroutine
  /\ worker'[w].pc # "free"
  /\ worker'[w].conn = worker[w].conn
  /\ HandInv(w)'
  /\ site' \in [Device -> Conn \cup {None}]
  /\ tokens' \in [Device -> SUBSET Worker]
  /\ faults' \in 0..MaxFaults
  /\ excused \subseteq excused' /\ excused' \subseteq Conn
  /\ \A v \in Worker \ {w} : Live(v)'

LEMMA SteadyKeeps ==
  ASSUME IInv, NEW w \in Worker, Steady(w)
  PROVE  IInv'
  <1>. USE DEF IInv
  <1>0. \A v \in Worker \ {w} : worker'[v] = worker[v]
    BY DEF Steady, Becomes, TypeOK
  <1>1. TypeOK'
    BY DEF Steady, Becomes, TypeOK
  <1>2. ASSUME NEW v \in Worker PROVE HandInv(v)'
    <2>1. CASE v = w
      BY <2>1 DEF Steady
    <2>2. CASE v # w
      <3>1. Live(v)' /\ excused \subseteq excused' /\ HandInv(v)
        BY <2>2 DEF Steady
      <3>. QED
        BY <1>0, <2>2, <3>1 DEF HandInv, Shaped, Excused, Ended
    <2>. QED
      BY <2>1, <2>2
  <1>3. \A v \in Worker : worker'[v].conn = worker[v].conn /\ (worker'[v].pc = "free" <=> worker[v].pc = "free")
    BY <1>0 DEF Steady
  <1>4. Apart'
    BY <1>3 DEF Apart, Steady
  <1>5. GivenUp'
    BY <1>3 DEF GivenUp, AtWork, Steady
  <1>6. FailuresAreOwn'
    BY DEF FailuresAreOwn, Steady
  <1>. QED
    BY <1>1, <1>2, <1>4, <1>5, <1>6

(* A goroutine that leaves its device, synced or not, for another.           *)
LEMMA NextDeviceType ==
  ASSUME NEW g \in Goroutine, g.conn \in Conn, g.err # "none" \/ g.synced
  PROVE  /\ NextDevice(g) \in Goroutine
         /\ NextDevice(g).pc \in {"find", "mark"}
         /\ NextDevice(g).conn = g.conn
         /\ NextDevice(g).err = g.err
         /\ NextDevice(g).synced = g.synced
  BY DEF NextDevice, Goroutine, Step

(* The last device's failure is excused already, or is now.                  *)
LEMMA FailedKeeps ==
  ASSUME IInv, NEW w \in Worker, NEW g \in Goroutine, NEW e \in {"transient", "wrong"},
         worker[w].pc # "free", g.conn = worker[w].conn,
         UNCHANGED <<status, listed>>,
         site' \in [Device -> Conn \cup {None}],
         tokens' \in [Device -> SUBSET Worker],
         faults' \in 0..MaxFaults,
         excused \subseteq excused', excused' \subseteq Conn,
         g.conn \in excused',
         DeviceFailed(w, g, e),
         \A v \in Worker \ {w} : Live(v)'
  PROVE  Steady(w)
  <1>. DEFINE h == [g EXCEPT !.err = e]
  <1>1. g.conn \in Conn
    BY DEF IInv, HandInv, Shaped
  <1>2. h \in Goroutine /\ h.conn = g.conn /\ h.err = e
    BY DEF Goroutine
  <1>3. worker'[w] = NextDevice(h) /\ Becomes(w, worker'[w])
    BY DEF DeviceFailed, Becomes, IInv, TypeOK
  <1>. HIDE DEF h
  <1>4. /\ worker'[w] \in Goroutine
        /\ worker'[w].pc \in {"find", "mark"}
        /\ worker'[w].conn = g.conn
        /\ worker'[w].err = e
    BY <1>1, <1>2, <1>3, NextDeviceType
  <1>5. HandInv(w)'
    BY <1>1, <1>4 DEF HandInv, Shaped, Excused, Ended, Live
  <1>. QED
    BY <1>3, <1>4, <1>5 DEF Steady

(* A step of w that leaves the tokens as they are, or adds to them.          *)
LEMMA OthersLive ==
  ASSUME IInv, NEW w \in Worker, NEW g, Becomes(w, g),
         excused \subseteq excused',
         \A d \in Device : tokens[d] \subseteq tokens'[d]
  PROVE  \A v \in Worker \ {w} : Live(v)'
  <1>. SUFFICES ASSUME NEW v \in Worker \ {w} PROVE Live(v)'
    OBVIOUS
  <1>1. worker'[v] = worker[v]
    BY DEF Becomes, IInv, TypeOK
  <1>2. Live(v) /\ Shaped(v)
    BY DEF IInv, HandInv
  <1>. QED
    BY <1>1, <1>2 DEF Live, Shaped

(* A goroutine that goes on to a call about a device, with nothing failed.   *)
LEMMA AdvanceKeeps ==
  ASSUME IInv, NEW w \in Worker, NEW g \in Goroutine,
         worker[w].pc # "free",
         UNCHANGED <<status, listed, faults>>,
         Becomes(w, g),
         g.pc \in {"create", "revoke", "issue", "fetch", "submit"},
         g.conn = worker[w].conn, g.err = worker[w].err, g.dev \in Device,
         g.pc \in {"fetch", "submit"} => w \in tokens'[g.dev] \/ g.conn \in excused',
         site' \in [Device -> Conn \cup {None}],
         tokens' \in [Device -> SUBSET Worker],
         excused \subseteq excused', excused' \subseteq Conn,
         \A v \in Worker \ {w} : Live(v)'
  PROVE  Steady(w)
  <1>. USE DEF IInv
  <1>1. worker'[w] = g
    BY DEF Becomes, TypeOK
  <1>2. HandInv(w)'
    BY <1>1 DEF HandInv, Shaped, Excused, Ended, Live
  <1>. QED
    BY <1>1, <1>2 DEF Steady, TypeOK

(* A goroutine that goes on, or ends, after its discovery.                   *)
LEMMA DiscoverSteady ==
  ASSUME IInv, NEW w \in Worker, Discover(w)
  PROVE  Steady(w)
  <1>. USE DEF IInv
  <1>1. worker[w].conn \in Conn /\ worker[w].pc = "discover"
    BY DEF Discover, HandInv, Shaped
  <1>2. UNCHANGED <<status, listed>> /\ site' = site /\ tokens' = tokens
    BY DEF Discover
  <1>3. ASSUME NEW g \in Goroutine, Becomes(w, g), g.pc \in {"find", "mark"},
               g.conn = worker[w].conn,
               \/ g.err = worker[w].err /\ g.pc = "find" /\ excused' = excused
               \/ g.err # "none" /\ g.conn \in excused',
               faults' \in 0..MaxFaults,
               excused \subseteq excused', excused' \subseteq Conn
        PROVE  Steady(w)
    <2>1. worker'[w] = g
      BY <1>3 DEF Becomes, TypeOK
    <2>2. HandInv(w)'
      BY <1>1, <1>3, <2>1 DEF HandInv, Shaped, Excused, Ended, Live
    <2>3. \A v \in Worker \ {w} : Live(v)'
      BY <1>2, <1>3, OthersLive
    <2>. QED
      BY <1>1, <1>2, <1>3, <2>1, <2>2, <2>3 DEF Steady, TypeOK
  <1>4. CASE /\ Becomes(w, [worker[w] EXCEPT !.pc = "find", !.left = Account[worker[w].conn]])
             /\ UNCHANGED <<faults, excused>>
    <2>. DEFINE g == [worker[w] EXCEPT !.pc = "find", !.left = Account[worker[w].conn]]
    <2>1. Account[worker[w].conn] \in SUBSET Device /\ worker[w] \in Goroutine
      BY <1>1 DEF TypeOK
    <2>2. g \in Goroutine /\ g.pc = "find" /\ g.conn = worker[w].conn /\ g.err = worker[w].err
      BY <2>1 DEF Goroutine, Step
    <2>3. Becomes(w, g)
      BY <1>4
    <2>4. /\ faults' \in 0..MaxFaults /\ excused' = excused
          /\ excused \subseteq excused' /\ excused' \subseteq Conn
      BY <1>4 DEF TypeOK
    <2>. HIDE DEF g
    <2>. QED
      BY <1>3, <2>2, <2>3, <2>4
  <1>5. ASSUME Failure(w), NEW e \in {"transient", "wrong"},
               Becomes(w, [worker[w] EXCEPT !.pc = "mark", !.err = e])
        PROVE  Steady(w)
    <2>. DEFINE g == [worker[w] EXCEPT !.pc = "mark", !.err = e]
    <2>0. worker[w] \in Goroutine
      BY DEF TypeOK
    <2>1. g \in Goroutine /\ g.pc = "mark" /\ g.conn = worker[w].conn /\ g.err # "none"
      BY <1>5, <2>0 DEF Goroutine, Step
    <2>2. faults' \in 0..MaxFaults /\ excused' = excused \cup {worker[w].conn}
      BY <1>5 DEF Failure, Fault, TypeOK
    <2>3. Becomes(w, g)
      BY <1>5
    <2>. HIDE DEF g
    <2>4. g.conn \in excused' /\ excused \subseteq excused' /\ excused' \subseteq Conn
      BY <1>1, <2>1, <2>2 DEF TypeOK
    <2>. QED
      BY <1>3, <2>1, <2>2, <2>3, <2>4
  <1>. QED
    BY <1>4, <1>5 DEF Discover

LEMMA FindSteady ==
  ASSUME IInv, NEW w \in Worker, Find(w)
  PROVE  Steady(w)
  <1>. USE DEF IInv
  <1>1. worker[w].conn \in Conn /\ worker[w].pc = "find"
    BY DEF Find, HandInv, Shaped
  <1>2. UNCHANGED <<status, listed>> /\ site' = site /\ tokens' = tokens
    BY DEF Find
  <1>3. PICK d \in worker[w].left :
          LET g == [worker[w] EXCEPT !.dev = d] IN
          \/ /\ Becomes(w, [g EXCEPT !.pc = IF site[d] = None THEN "create" ELSE "revoke"])
             /\ UNCHANGED <<faults, excused>>
          \/ /\ Failure(w)
             /\ DeviceFailed(w, g, "transient")
    BY DEF Find
  <1>. DEFINE g == [worker[w] EXCEPT !.dev = d]
              h == [g EXCEPT !.pc = IF site[d] = None THEN "create" ELSE "revoke"]
  <1>4. d \in Device /\ g \in Goroutine /\ g.conn = worker[w].conn
    BY DEF TypeOK, Goroutine
  <1>5. CASE Becomes(w, h) /\ UNCHANGED <<faults, excused>>
    <2>1. /\ h \in Goroutine /\ h.pc \in {"create", "revoke"} /\ h.dev \in Device
          /\ h.conn = worker[w].conn /\ h.err = worker[w].err
      BY <1>4 DEF TypeOK, Goroutine, Step
    <2>. HIDE DEF h
    <2>2. \A v \in Worker \ {w} : Live(v)'
      BY <1>2, <1>5, OthersLive
    <2>. QED
      BY <1>1, <1>2, <1>5, <2>1, <2>2, AdvanceKeeps DEF TypeOK
  <1>6. CASE Failure(w) /\ DeviceFailed(w, g, "transient")
    <2>. HIDE DEF g
    <2>1. \A v \in Worker \ {w} : Live(v)'
      BY <1>2, <1>6, OthersLive DEF DeviceFailed, Failure
    <2>2. faults' \in 0..MaxFaults /\ excused' = excused \cup {worker[w].conn}
      BY <1>6 DEF Failure, Fault, TypeOK
    <2>. QED
      BY <1>1, <1>2, <1>4, <1>6, <2>1, <2>2, FailedKeeps DEF TypeOK
  <1>. QED
    BY <1>3, <1>5, <1>6

(* The call of w fails, with or without its effect on sites or tokens.       *)
LEMMA CallFailed ==
  ASSUME IInv, NEW w \in Worker, NEW e \in {"transient", "wrong"},
         worker[w].pc # "free",
         DeviceFailed(w, worker[w], e),
         UNCHANGED <<status, listed>>,
         site' \in [Device -> Conn \cup {None}],
         tokens' \in [Device -> SUBSET Worker],
         \A d \in Device : tokens[d] \subseteq tokens'[d],
         \/ Failure(w)
         \/ UNCHANGED faults /\ excused' = excused \cup {worker[w].conn}
  PROVE  Steady(w)
  <1>1. worker[w].conn \in Conn /\ worker[w] \in Goroutine
    BY DEF IInv, HandInv, Shaped, TypeOK
  <1>2. faults' \in 0..MaxFaults /\ excused' = excused \cup {worker[w].conn}
    BY DEF Failure, Fault, IInv, TypeOK
  <1>3. \A v \in Worker \ {w} : Live(v)'
    BY <1>2, OthersLive DEF DeviceFailed
  <1>. QED
    BY <1>1, <1>2, <1>3, FailedKeeps DEF IInv, TypeOK

(* A goroutine that is at a call about a device.                             *)
LEMMA AtDevice ==
  ASSUME IInv, NEW w \in Worker,
         worker[w].pc \in {"create", "revoke", "issue", "fetch", "submit"}
  PROVE  /\ worker[w] \in Goroutine
         /\ worker[w].conn \in Conn
         /\ worker[w].dev \in Device
         /\ worker[w].pc # "free"
  BY DEF IInv, HandInv, Shaped, TypeOK

(* ... and that goes on to the next.                                         *)
LEMMA PcType ==
  ASSUME NEW g \in Goroutine, NEW pc \in Step
  PROVE  /\ [g EXCEPT !.pc = pc] \in Goroutine
         /\ [g EXCEPT !.pc = pc].pc = pc
         /\ [g EXCEPT !.pc = pc].conn = g.conn
         /\ [g EXCEPT !.pc = pc].dev = g.dev
         /\ [g EXCEPT !.pc = pc].err = g.err
  BY DEF Goroutine

LEMMA CreateDeviceSteady ==
  ASSUME IInv, NEW w \in Worker, CreateDevice(w)
  PROVE  Steady(w)
  <1>. USE DEF IInv
  <1>. DEFINE g == [worker[w] EXCEPT !.pc = "revoke"]
  <1>1. /\ worker[w].conn \in Conn /\ worker[w].dev \in Device /\ worker[w].pc # "free"
        /\ worker[w] \in Goroutine
    BY AtDevice DEF CreateDevice
  <1>2. UNCHANGED <<status, listed>> /\ tokens' = tokens
    BY DEF CreateDevice
  <1>3. site' \in [Device -> Conn \cup {None}]
    BY <1>1 DEF CreateDevice, TypeOK
  <1>4. CASE Becomes(w, g) /\ UNCHANGED <<faults, excused>>
    <2>1. /\ g \in Goroutine /\ g.pc = "revoke" /\ g.conn = worker[w].conn
          /\ g.dev \in Device /\ g.err = worker[w].err
      BY <1>1, PcType DEF Step
    <2>. HIDE DEF g
    <2>2. \A v \in Worker \ {w} : Live(v)'
      BY <1>2, <1>4, OthersLive
    <2>. QED
      BY <1>1, <1>2, <1>3, <1>4, <2>1, <2>2, AdvanceKeeps DEF TypeOK
  <1>5. CASE DeviceFailed(w, worker[w], "transient") /\ Failure(w)
    BY <1>1, <1>2, <1>3, <1>5, CallFailed DEF TypeOK
  <1>6. CASE /\ DeviceFailed(w, worker[w], "transient")
             /\ excused' = excused \cup {worker[w].conn} /\ UNCHANGED faults
    BY <1>1, <1>2, <1>3, <1>6, CallFailed DEF TypeOK
  <1>. QED
    BY <1>4, <1>5, <1>6 DEF CreateDevice

(* Whoever held one of the tokens revoked is excused.                        *)
LEMMA RevokeTokensSteady ==
  ASSUME IInv, NEW w \in Worker, RevokeTokens(w)
  PROVE  Steady(w)
  <1>. USE DEF IInv
  <1>. DEFINE g == [worker[w] EXCEPT !.pc = "issue"]
              d == worker[w].dev
  <1>1. worker[w].conn \in Conn /\ d \in Device /\ worker[w].pc # "free" /\ worker[w] \in Goroutine
    BY AtDevice DEF RevokeTokens
  <1>2. UNCHANGED <<status, listed>> /\ site' = site
    BY DEF RevokeTokens
  <1>3. ASSUME tokens' = [tokens EXCEPT ![d] = {}], NEW h, Becomes(w, h),
               excused \cup Rivals(d, w) \subseteq excused'
        PROVE  \A v \in Worker \ {w} : Live(v)'
    <2>. SUFFICES ASSUME NEW v \in Worker \ {w}, worker'[v].pc \in {"fetch", "submit"}
                  PROVE  v \in tokens'[worker'[v].dev] \/ worker'[v].conn \in excused'
      BY DEF Live
    <2>1. worker'[v] = worker[v] /\ Live(v) /\ worker[v].dev \in Device
      BY <1>3 DEF Becomes, TypeOK, HandInv, Shaped
    <2>2. CASE worker[v].dev = d
      <3>1. worker[v].conn \in Rivals(d, w)
        BY <2>1, <2>2 DEF Rivals
      <3>. QED
        BY <1>3, <2>1, <3>1
    <2>3. CASE worker[v].dev # d
      BY <1>3, <2>1, <2>3 DEF Live, TypeOK
    <2>. QED
      BY <2>2, <2>3
  <1>4. Rivals(d, w) \subseteq Conn
    BY DEF Rivals, HandInv, Shaped
  <1>5. CASE /\ tokens' = [tokens EXCEPT ![d] = {}] /\ Becomes(w, g)
             /\ excused' = excused \cup Rivals(d, w) /\ UNCHANGED faults
    <2>1. /\ g \in Goroutine /\ g.pc = "issue" /\ g.conn = worker[w].conn
          /\ g.dev \in Device /\ g.err = worker[w].err
      BY <1>1, PcType DEF Step
    <2>. HIDE DEF g
    <2>2. \A v \in Worker \ {w} : Live(v)'
      BY <1>3, <1>5
    <2>. QED
      BY <1>1, <1>2, <1>4, <1>5, <2>1, <2>2, AdvanceKeeps DEF TypeOK
  <1>6. CASE /\ tokens' = [tokens EXCEPT ![d] = {}] /\ DeviceFailed(w, worker[w], "transient")
             /\ Fault /\ excused' = excused \cup Rivals(d, w) \cup {worker[w].conn}
    <2>1. \A v \in Worker \ {w} : Live(v)'
      BY <1>3, <1>6 DEF DeviceFailed
    <2>2. faults' \in 0..MaxFaults
      BY <1>6 DEF Fault, TypeOK
    <2>. HIDE DEF d
    <2>3. tokens' \in [Device -> SUBSET Worker]
      BY <1>6 DEF TypeOK
    <2>4. excused \subseteq excused' /\ excused' \subseteq Conn /\ worker[w].conn \in excused'
      BY <1>1, <1>4, <1>6 DEF TypeOK
    <2>5. site' \in [Device -> Conn \cup {None}] /\ DeviceFailed(w, worker[w], "transient")
      BY <1>2, <1>6 DEF TypeOK
    <2>. QED
      BY <1>1, <1>2, <2>1, <2>2, <2>3, <2>4, <2>5, FailedKeeps
  <1>7. CASE Failure(w) /\ DeviceFailed(w, worker[w], "transient") /\ UNCHANGED tokens
    BY <1>1, <1>2, <1>7, CallFailed DEF TypeOK
  <1>. QED
    BY <1>5, <1>6, <1>7 DEF RevokeTokens

LEMMA IssueTokenSteady ==
  ASSUME IInv, NEW w \in Worker, IssueToken(w)
  PROVE  Steady(w)
  <1>. USE DEF IInv
  <1>. DEFINE g == [worker[w] EXCEPT !.pc = "fetch"]
              d == worker[w].dev
  <1>1. worker[w].conn \in Conn /\ d \in Device /\ worker[w].pc # "free" /\ worker[w] \in Goroutine
    BY AtDevice DEF IssueToken
  <1>2. UNCHANGED <<status, listed>> /\ site' = site
    BY DEF IssueToken
  <1>3. /\ tokens' \in [Device -> SUBSET Worker]
        /\ \A a \in Device : tokens[a] \subseteq tokens'[a]
    BY <1>1 DEF IssueToken, TypeOK
  <1>4. CASE /\ tokens' = [tokens EXCEPT ![d] = @ \cup {w}]
             /\ Becomes(w, g) /\ UNCHANGED <<faults, excused>>
    <2>1. /\ g \in Goroutine /\ g.pc = "fetch" /\ g.conn = worker[w].conn
          /\ g.dev = d /\ g.err = worker[w].err
      BY <1>1, PcType DEF Step
    <2>2. w \in tokens'[d]
      BY <1>1, <1>4 DEF TypeOK
    <2>. HIDE DEF g, d
    <2>3. \A v \in Worker \ {w} : Live(v)'
      BY <1>3, <1>4, OthersLive
    <2>. QED
      BY <1>1, <1>2, <1>3, <1>4, <2>1, <2>2, <2>3, AdvanceKeeps DEF TypeOK
  <1>5. CASE Failure(w) /\ DeviceFailed(w, worker[w], "transient")
    BY <1>1, <1>2, <1>3, <1>5, CallFailed DEF TypeOK
  <1>. QED
    BY <1>4, <1>5 DEF IssueToken

LEMMA FetchReadingSteady ==
  ASSUME IInv, NEW w \in Worker, FetchReading(w)
  PROVE  Steady(w)
  <1>. USE DEF IInv
  <1>. DEFINE g == [worker[w] EXCEPT !.pc = "submit"]
  <1>1. /\ worker[w].conn \in Conn /\ worker[w].dev \in Device /\ worker[w].pc = "fetch"
        /\ worker[w] \in Goroutine /\ Live(w)
    BY AtDevice DEF FetchReading, HandInv
  <1>2. UNCHANGED <<status, listed>> /\ site' = site /\ tokens' = tokens
    BY DEF FetchReading
  <1>3. CASE Becomes(w, g) /\ UNCHANGED <<faults, excused>>
    <2>1. /\ g \in Goroutine /\ g.pc = "submit" /\ g.conn = worker[w].conn
          /\ g.dev = worker[w].dev /\ g.err = worker[w].err
      BY <1>1, PcType DEF Step
    <2>2. w \in tokens[g.dev] \/ g.conn \in excused
      BY <1>1, <2>1 DEF Live
    <2>. HIDE DEF g
    <2>3. \A v \in Worker \ {w} : Live(v)'
      BY <1>2, <1>3, OthersLive
    <2>. QED
      BY <1>1, <1>2, <1>3, <2>1, <2>2, <2>3, AdvanceKeeps DEF TypeOK
  <1>4. ASSUME Failure(w), NEW e \in {"transient", "wrong"}, DeviceFailed(w, worker[w], e)
        PROVE  Steady(w)
    BY <1>1, <1>2, <1>4, CallFailed DEF TypeOK
  <1>. QED
    BY <1>3, <1>4 DEF FetchReading

(* A token that was refused was lost to another goroutine: it is excused.    *)
LEMMA SubmitReadingSteady ==
  ASSUME IInv, NEW w \in Worker, SubmitReading(w)
  PROVE  Steady(w)
  <1>. USE DEF IInv
  <1>. DEFINE h == [worker[w] EXCEPT !.synced = TRUE]
  <1>1. /\ worker[w].conn \in Conn /\ worker[w].dev \in Device /\ worker[w].pc = "submit"
        /\ worker[w] \in Goroutine /\ Live(w) /\ Excused(w)
    BY AtDevice DEF SubmitReading, HandInv
  <1>2. UNCHANGED <<status, listed>> /\ site' = site /\ tokens' = tokens
    BY DEF SubmitReading
  <1>3. CASE Becomes(w, NextDevice(h)) /\ UNCHANGED <<faults, excused>>
    <2>1. h \in Goroutine /\ h.conn = worker[w].conn /\ h.err = worker[w].err /\ h.synced
      BY <1>1 DEF Goroutine
    <2>. HIDE DEF h
    <2>2. worker'[w] = NextDevice(h)
      BY <1>3 DEF Becomes, TypeOK
    <2>3. /\ worker'[w] \in Goroutine
          /\ worker'[w].pc \in {"find", "mark"}
          /\ worker'[w].conn = worker[w].conn
          /\ worker'[w].err = worker[w].err
          /\ worker'[w].synced
      BY <1>1, <2>1, <2>2, NextDeviceType
    <2>4. HandInv(w)'
      BY <1>1, <1>3, <2>3 DEF HandInv, Shaped, Excused, Ended, Live
    <2>5. \A v \in Worker \ {w} : Live(v)'
      BY <1>2, <1>3, OthersLive
    <2>. QED
      BY <1>1, <1>2, <1>3, <2>2, <2>3, <2>4, <2>5 DEF Steady, TypeOK
  <1>4. CASE /\ w \notin tokens[worker[w].dev]
             /\ DeviceFailed(w, worker[w], "transient") /\ UNCHANGED <<faults, excused>>
    <2>1. excused' = excused \cup {worker[w].conn}
      BY <1>1, <1>4 DEF Live
    <2>. QED
      BY <1>1, <1>2, <1>4, <2>1, CallFailed DEF TypeOK
  <1>5. CASE Failure(w) /\ DeviceFailed(w, worker[w], "transient")
    BY <1>1, <1>2, <1>5, CallFailed DEF TypeOK
  <1>. QED
    BY <1>3, <1>4, <1>5 DEF SubmitReading

-----------------------------------------------------------------------------
(* The last step of a sync, and the steps of others.                         *)

(* The one goroutine at a connection marks it, and lets go of it.            *)
LEMMA MarkKeeps ==
  ASSUME IInv, NEW w \in Worker, Mark(w)
  PROVE  IInv'
  <1>. USE DEF IInv
  <1>. DEFINE c == worker[w].conn
  <1>1. /\ c \in Conn /\ worker[w].pc = "mark" /\ worker[w] \in Goroutine
        /\ worker[w].synced \/ c \in excused
    BY DEF Mark, HandInv, Shaped, Excused, Ended, TypeOK
  <1>2. /\ listed' = listed /\ site' = site /\ tokens' = tokens
        /\ worker'[w] = Free
        /\ \A v \in Worker \ {w} : worker'[v] = worker[v]
    BY DEF Mark, Becomes, TypeOK
  <1>3. Free \in Goroutine /\ Free.pc = "free" /\ Free.conn = None /\ Free.err = "none"
    BY DEF Free, Goroutine, Step
  <1>4. Outcome(worker[w]) \in {"active", "invalid_credentials", "error"}
        /\ (Outcome(worker[w]) = "active" <=> worker[w].synced)
    BY DEF Outcome
  <1>5. \/ /\ status' = [status EXCEPT ![c] = Outcome(worker[w])]
           /\ excused' = IF worker[w].synced THEN excused \ {c} ELSE excused
        \/ UNCHANGED <<status, excused>>
    BY DEF Mark
  <1>. DEFINE o == Outcome(worker[w])
  <1>6. TypeOK'
    <2>1. status' \in [Conn -> Status]
      BY <1>4, <1>5 DEF TypeOK, Status, Polled
    <2>2. worker' \in [Worker -> Goroutine]
      BY <1>3 DEF Mark, Becomes, TypeOK
    <2>3. faults' \in 0..MaxFaults
      BY DEF Mark, Fault, TypeOK
    <2>. QED
      BY <1>2, <1>5, <2>1, <2>2, <2>3 DEF TypeOK
  <1>7. \A b \in Conn \ {c} : status'[b] = status[b] /\ (b \in excused' <=> b \in excused)
    BY <1>5 DEF TypeOK
  <1>8. ASSUME NEW v \in Worker PROVE HandInv(v)'
    <2>1. CASE v = w
      BY <1>2, <1>3, <2>1 DEF HandInv, Shaped, Excused, Ended, Live
    <2>2. CASE v # w /\ worker[v].pc = "free"
      <3>1. worker'[v] = Free
        BY <1>2, <2>2 DEF HandInv, Shaped
      <3>. QED
        BY <1>3, <3>1 DEF HandInv, Shaped, Excused, Ended, Live
    <2>3. CASE v # w /\ worker[v].pc # "free"
      <3>1. worker[v].conn \in Conn \ {c}
        BY <1>1, <2>3 DEF HandInv, Shaped, Apart
      <3>. QED
        BY <1>2, <1>7, <2>3, <3>1 DEF HandInv, Shaped, Excused, Ended, Live
    <2>. QED
      BY <2>1, <2>2, <2>3
  <1>9. Apart'
    <2>. SUFFICES ASSUME NEW v \in Worker, worker'[v].pc # "free"
                  PROVE  /\ worker'[v].conn \notin listed
                         /\ \A u \in Worker \ {v} : worker'[u].conn # worker'[v].conn
      BY <1>2 DEF Apart
    <2>1. v # w /\ worker'[v] = worker[v] /\ worker[v].conn \in Conn
      BY <1>2, <1>3 DEF HandInv, Shaped
    <2>. QED
      BY <1>2, <1>3, <2>1 DEF Apart
  <1>10. GivenUp'
    <2>. SUFFICES ASSUME NEW b \in Conn, status'[b] = "invalid_credentials"
                  PROVE  b \notin listed /\ \A v \in Worker : worker'[v].conn # b
      BY <1>2 DEF GivenUp, AtWork
    <2>1. CASE b = c
      BY <1>1, <1>2, <1>3, <2>1 DEF Apart
    <2>2. CASE b # c
      BY <1>2, <1>3, <1>7, <2>2 DEF GivenUp, AtWork
    <2>. QED
      BY <2>1, <2>2
  <1>11. FailuresAreOwn'
    <2>. SUFFICES ASSUME NEW b \in Conn, status'[b] \in {"error", "invalid_credentials"}
                  PROVE  b \in excused'
      BY DEF FailuresAreOwn
    <2>1. CASE b # c
      BY <1>7, <2>1 DEF FailuresAreOwn
    <2>2. CASE b = c
      BY <1>1, <1>4, <1>5, <2>2 DEF FailuresAreOwn, TypeOK
    <2>. QED
      BY <2>1, <2>2
  <1>. QED
    BY <1>6, <1>8, <1>9, <1>10, <1>11

(* A step that leaves the goroutines and the database's other tables alone.  *)
LEMMA HandsRest ==
  ASSUME IInv, UNCHANGED <<worker, tokens, excused>>
  PROVE  \A w \in Worker : HandInv(w)'
  BY DEF IInv, HandInv, Shaped, Excused, Ended, Live

LEMMA CustomerKeeps ==
  ASSUME IInv, NEW c \in Conn, Create(c) \/ Revoke(c)
  PROVE  IInv'
  <1>. USE DEF IInv
  <1>1. UNCHANGED <<listed, worker, site, tokens, faults, excused>>
    BY DEF Create, Revoke
  <1>2. \E s \in {"pending", "revoked"} : status' = [status EXCEPT ![c] = s]
    BY DEF Create, Revoke
  <1>3. TypeOK'
    BY <1>1, <1>2 DEF TypeOK, Status, Polled
  <1>4. \A w \in Worker : HandInv(w)'
    BY <1>1, HandsRest
  <1>5. Apart'
    BY <1>1 DEF Apart
  <1>6. GivenUp' /\ FailuresAreOwn'
    BY <1>1, <1>2 DEF GivenUp, AtWork, FailuresAreOwn, TypeOK
  <1>. QED
    BY <1>3, <1>4, <1>5, <1>6

(* A tick lists none that was given up, and finds all slots free.            *)
LEMMA TickKeeps ==
  ASSUME IInv, Tick
  PROVE  IInv'
  <1>. USE DEF IInv
  <1>1. listed' = ListActive /\ UNCHANGED <<status, worker, site, tokens, faults, excused>>
    BY DEF Tick
  <1>2. \A w \in Worker : worker[w].pc = "free"
    BY DEF Tick
  <1>3. TypeOK'
    BY <1>1 DEF TypeOK, ListActive
  <1>4. \A w \in Worker : HandInv(w)'
    BY <1>1, HandsRest
  <1>5. Apart'
    BY <1>1, <1>2 DEF Apart
  <1>6. GivenUp'
    BY <1>1, <1>2 DEF GivenUp, AtWork, ListActive, Polled
  <1>7. FailuresAreOwn'
    BY <1>1 DEF FailuresAreOwn
  <1>. QED
    BY <1>3, <1>4, <1>5, <1>6, <1>7

LEMMA SkipKeeps ==
  ASSUME IInv, NEW c \in Conn, Skip(c)
  PROVE  IInv'
  <1>. USE DEF IInv
  <1>1. listed' = listed \ {c} /\ UNCHANGED <<status, worker, site, tokens, faults, excused>>
    BY DEF Skip
  <1>2. TypeOK'
    BY <1>1 DEF TypeOK
  <1>3. \A w \in Worker : HandInv(w)'
    BY <1>1, HandsRest
  <1>4. Apart'
    BY <1>1 DEF Apart
  <1>5. GivenUp' /\ FailuresAreOwn'
    BY <1>1 DEF GivenUp, AtWork, FailuresAreOwn
  <1>. QED
    BY <1>2, <1>3, <1>4, <1>5

(* A goroutine starts for a listed connection, at which nobody else is.      *)
LEMMA LaunchKeeps ==
  ASSUME IInv, NEW c \in Conn, Launch(c)
  PROVE  IInv'
  <1>. USE DEF IInv
  <1>. DEFINE w == CHOOSE v \in Worker : worker[v].pc = "free"
              g == [Free EXCEPT !.pc = "discover", !.conn = c]
  <1>1. w \in Worker /\ worker[w].pc = "free"
    BY DEF Launch
  <1>2. g \in Goroutine /\ g.pc = "discover" /\ g.conn = c /\ g.err = "none"
    BY DEF Free, Goroutine, Step
  <1>3. Becomes(w, g) /\ c \in listed /\ listed' = listed \ {c}
        /\ UNCHANGED <<status, site, tokens, faults, excused>>
    BY DEF Launch
  <1>. HIDE DEF w, g
  <1>4. worker'[w] = g /\ \A v \in Worker \ {w} : worker'[v] = worker[v]
    BY <1>1, <1>3 DEF Becomes, TypeOK
  <1>5. TypeOK'
    BY <1>1, <1>2, <1>3 DEF TypeOK, Becomes
  <1>6. \A v \in Worker : HandInv(v)'
    BY <1>2, <1>3, <1>4 DEF HandInv, Shaped, Excused, Ended, Live
  <1>7. Apart'
    <2>1. ASSUME NEW v \in Worker \ {w}
          PROVE  worker'[v].conn # c
      <3>1. CASE worker[v].pc = "free"
        BY <1>4, <3>1 DEF HandInv, Shaped, Free
      <3>2. CASE worker[v].pc # "free"
        BY <1>3, <1>4, <3>2 DEF Apart
      <3>. QED
        BY <3>1, <3>2
    <2>. QED
      BY <1>2, <1>3, <1>4, <2>1 DEF Apart
  <1>8. GivenUp' /\ FailuresAreOwn'
    BY <1>1, <1>2, <1>3, <1>4 DEF GivenUp, AtWork, FailuresAreOwn
  <1>. QED
    BY <1>5, <1>6, <1>7, <1>8

LEMMA CrashKeeps ==
  ASSUME IInv, Crash
  PROVE  IInv'
  <1>. USE DEF IInv
  <1>1. /\ listed' = {} /\ worker' = [w \in Worker |-> Free]
        /\ UNCHANGED <<status, site, tokens, excused>>
    BY DEF Crash
  <1>2. Free \in Goroutine /\ Free.pc = "free" /\ Free.conn = None /\ Free.err = "none"
    BY DEF Free, Goroutine, Step
  <1>3. TypeOK'
    BY <1>1, <1>2 DEF TypeOK, Crash, Fault
  <1>4. \A w \in Worker : HandInv(w)'
    BY <1>1, <1>2 DEF HandInv, Shaped, Excused, Ended, Live
  <1>5. Apart'
    BY <1>1, <1>2 DEF Apart
  <1>6. GivenUp' /\ FailuresAreOwn'
    BY <1>1, <1>2 DEF GivenUp, AtWork, FailuresAreOwn
  <1>. QED
    BY <1>3, <1>4, <1>5, <1>6

LEMMA InvStep == IInv /\ [Next]_vars => IInv'
  <1>. SUFFICES ASSUME IInv, [Next]_vars PROVE IInv'
    OBVIOUS
  <1>1. CASE Customer
    BY <1>1, CustomerKeeps DEF Customer
  <1>2. CASE Poll
    BY <1>2, TickKeeps, SkipKeeps, LaunchKeeps DEF Poll
  <1>3. ASSUME NEW w \in Worker, Sync(w)
        PROVE  IInv'
    <2>1. CASE Mark(w)
      BY <2>1, MarkKeeps
    <2>2. CASE ~Mark(w)
      <3>1. Steady(w)
        BY <1>3, <2>2, DiscoverSteady, FindSteady, CreateDeviceSteady, RevokeTokensSteady,
           IssueTokenSteady, FetchReadingSteady, SubmitReadingSteady DEF Sync
      <3>. QED
        BY <3>1, SteadyKeeps
    <2>. QED
      BY <2>1, <2>2
  <1>4. CASE Crash
    BY <1>4, CrashKeeps
  <1>5. CASE UNCHANGED vars
    BY <1>5 DEF vars, IInv, TypeOK, HandInv, Shaped, Excused, Ended, Live, Apart, GivenUp,
                AtWork, FailuresAreOwn
  <1>. QED
    BY <1>1, <1>2, <1>3, <1>4, <1>5 DEF Next

THEOREM Invariance == Spec => []IInv
  <1>1. Init => IInv
    BY InvInit
  <1>2. IInv /\ [Next]_vars => IInv'
    BY InvStep
  <1>. QED
    BY <1>1, <1>2, PTL DEF Spec

-----------------------------------------------------------------------------
(* Every variable keeps its type.                                            *)
THEOREM SyncTypeCorrect == Spec => []TypeOK
  <1>1. IInv => TypeOK
    BY DEF IInv
  <1>. QED
    BY <1>1, Invariance, PTL

(* However many customers' accounts fail or share devices, a connection is    *)
(* marked as failing only over its own sync's failures or rivals.            *)
THEOREM FailuresStayOwn == Spec => []FailuresAreOwn
  <1>1. IInv => FailuresAreOwn
    BY DEF IInv
  <1>. QED
    BY <1>1, Invariance, PTL

(* What a sync's steps do to a connection it is not at: nothing.             *)
LEMMA NotAtWork ==
  ASSUME IInv, NEW c \in Conn, ~AtWork(c), NEW w \in Worker, Sync(w)
  PROVE  status'[c] = status[c] /\ ~AtWork(c)'
  <1>. USE DEF IInv
  <1>1. CASE Mark(w)
    <2>1. worker[w].conn # c /\ c \notin listed
      BY DEF AtWork
    <2>2. status'[c] = status[c] /\ listed' = listed
      BY <1>1, <2>1 DEF Mark, TypeOK
    <2>3. worker'[w].conn = None /\ \A v \in Worker \ {w} : worker'[v] = worker[v]
      BY <1>1 DEF Mark, Becomes, TypeOK, Free
    <2>. QED
      BY <2>1, <2>2, <2>3 DEF AtWork
  <1>2. CASE ~Mark(w)
    <2>1. Steady(w)
      BY <1>2, DiscoverSteady, FindSteady, CreateDeviceSteady, RevokeTokensSteady,
         IssueTokenSteady, FetchReadingSteady, SubmitReadingSteady DEF Sync
    <2>2. \A v \in Worker \ {w} : worker'[v] = worker[v]
      BY <2>1 DEF Steady, Becomes, TypeOK
    <2>. QED
      BY <2>1, <2>2 DEF Steady, AtWork
  <1>. QED
    BY <1>1, <1>2

(* One that is not at work stays out of it, if its status keeps it out.       *)
LEMMA StaysOut ==
  ASSUME IInv, [Next]_vars, NEW c \in Conn, ~AtWork(c), status[c] \in {"revoked", "invalid_credentials"}
  PROVE  /\ ~AtWork(c)'
         /\ status'[c] \in {status[c], "revoked"}
  <1>. USE DEF IInv
  <1>1. ASSUME NEW b \in Conn, Create(b) \/ Revoke(b)
        PROVE  status'[c] \in {status[c], "revoked"} /\ ~AtWork(c)'
    BY <1>1 DEF Create, Revoke, AtWork, TypeOK
  <1>2. CASE Tick
    BY <1>2 DEF Tick, ListActive, Polled, AtWork
  <1>3. ASSUME NEW b \in Conn, Skip(b)
        PROVE  status'[c] = status[c] /\ ~AtWork(c)'
    BY <1>3 DEF Skip, AtWork
  <1>4. ASSUME NEW b \in Conn, Launch(b)
        PROVE  status'[c] = status[c] /\ ~AtWork(c)'
    <2>1. b # c /\ status' = status /\ listed' = listed \ {b}
      BY <1>4 DEF Launch, AtWork
    <2>2. \A v \in Worker : worker'[v] = worker[v] \/ worker'[v].conn = b
      BY <1>4 DEF Launch, Becomes, TypeOK, Free
    <2>. QED
      BY <2>1, <2>2 DEF AtWork
  <1>5. ASSUME NEW w \in Worker, Sync(w)
        PROVE  status'[c] = status[c] /\ ~AtWork(c)'
    BY <1>5, NotAtWork
  <1>6. CASE Crash
    BY <1>6 DEF Crash, AtWork, Free
  <1>7. CASE UNCHANGED vars
    BY <1>7 DEF vars, AtWork
  <1>. QED
    BY <1>1, <1>2, <1>3, <1>4, <1>5, <1>6, <1>7 DEF Next, Customer, Poll

(* A connection revoked while no sync is at it is never synced again.        *)
THEOREM RevocationIsFinal == Spec => RevocationHolds
  <1>1. IInv /\ [Next]_vars
          => [\A c \in Conn : status[c] = "revoked" /\ ~AtWork(c)
                => status'[c] = "revoked" /\ ~AtWork(c)']_vars
    BY StaysOut
  <1>. QED
    BY <1>1, Invariance, PTL DEF Spec, RevocationHolds

(* A connection given up for its password is not tried again.                *)
THEOREM GivenUpIsFinal == Spec => GivenUpForGood
  <1>1. IInv /\ [Next]_vars
          => [\A c \in Conn : status[c] = "invalid_credentials"
                => status'[c] \in {"invalid_credentials", "revoked"}]_vars
    <2>1. IInv => \A c \in Conn : status[c] = "invalid_credentials" => ~AtWork(c)
      BY DEF IInv, GivenUp
    <2>. QED
      BY <2>1, StaysOut
  <1>. QED
    BY <1>1, Invariance, PTL DEF Spec, GivenUpForGood

=============================================================================
