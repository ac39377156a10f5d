-------------------------- MODULE Accounts_proofs --------------------------
(***************************************************************************)
(* Proofs about Accounts: types, then what links, passwords, claims, sites *)
(* and the primary flag have to do with one another, each an inductive     *)
(* invariant that uses the ones before it.                                 *)
(***************************************************************************)
EXTENDS Accounts, TLAPS

(***************************************************************************)
(* Types.                                                                  *)
(***************************************************************************)

(* Requests and links are of users that have a row.                        *)
RowsThere ==
  /\ \A t \in DOMAIN links : users[links[t].user] # None
  /\ \A r \in Req : req[r].op = "link" => users[req[r].user] # None

Typed == TypeOK /\ RowsThere

(* What a request's fields are, by its op.                                 *)
LEMMA ReqFields ==
  ASSUME TypeOK, NEW r \in Req
  PROVE  /\ req[r] \in ReqType
         /\ req[r].op = "link" => req[r].kind \in {"invite", "reset"} /\ req[r].user \in Email
         /\ req[r].op = "send" => req[r].token \in DOMAIN links
         /\ req[r].op \in {"password", "mark"} =>
              req[r].row \in DOMAIN links /\ req[r].by \in Email
         /\ req[r].op = "issue" => req[r].claims \in Claims
         /\ req[r].op = "signup" => req[r].user \in Email /\ req[r].site \in Site
         /\ req[r].op = "primary" => req[r].site \in Site
<1>1. req[r] \in ReqType
  BY DEF TypeOK
<1>. QED
  BY <1>1 DEF ReqType, Idle

LEMMA LinkFields ==
  ASSUME TypeOK
  PROVE  \A t \in DOMAIN links :
           /\ t \in Nat \ {0} /\ t <= Len(links)
           /\ links[t].kind \in {"invite", "reset"} /\ links[t].user \in Email
           /\ links[t].live \in BOOLEAN
           /\ links[t] \in [kind : {"invite", "reset"}, user : Email, live : BOOLEAN]
<1>. DEFINE Link == [kind : {"invite", "reset"}, user : Email, live : BOOLEAN]
<1>1. links \in Seq(Link)
  BY DEF TypeOK
<1>. HIDE DEF Link
<1>2. \A t \in DOMAIN links : t \in Nat \ {0} /\ t <= Len(links) /\ links[t] \in Link
  BY <1>1
<1>. USE DEF Link
<1>. QED
  BY <1>2

(* Requests keep their types when links are added.                         *)
LEMMA ReqGrows ==
  ASSUME DOMAIN links \subseteq DOMAIN links'
  PROVE  \A q \in ReqType : q \in ReqType'
BY DEF ReqType, Idle

(* A row is made: no user's row, nor any link's user, goes away.           *)
LEMMA RowsStay ==
  ASSUME Typed, Next
  PROVE  /\ users' \in [Email -> UserRow \cup {None}]
         /\ \A e \in Email : users[e] # None => users'[e] # None
<1>. USE DEF Typed, TypeOK
<1>1. ASSUME NEW e \in Email, NEW role \in Role, NEW s \in Site \cup {None},
             NEW password \in Email \cup {"operator", "nobody"}, CreateUser(e, role, s, password)
      PROVE  /\ users' \in [Email -> UserRow \cup {None}]
             /\ \A x \in Email : users[x] # None => users'[x] # None
  <2>1. [role |-> role, site |-> s, password |-> password, disabled |-> FALSE] \in UserRow
    BY DEF UserRow
  <2>. QED
    BY <1>1, <2>1, NoneIsNoRow DEF CreateUser
<1>2. ASSUME NEW e \in Email, NEW disabled \in BOOLEAN, SetDisabled(e, disabled)
      PROVE  /\ users' \in [Email -> UserRow \cup {None}]
             /\ \A x \in Email : users[x] # None => users'[x] # None
  <2>1. [users[e] EXCEPT !.disabled = disabled] \in UserRow
    BY <1>2 DEF SetDisabled, UserRow
  <2>2. users' = [users EXCEPT ![e] = [users[e] EXCEPT !.disabled = disabled]]
    BY <1>2 DEF SetDisabled
  <2>. QED
    BY <2>1, <2>2, NoneIsNoRow
<1>3. ASSUME NEW r \in Req, UpdateUserPassword(r)
      PROVE  /\ users' \in [Email -> UserRow \cup {None}]
             /\ \A x \in Email : users[x] # None => users'[x] # None
  <2>. DEFINE e == links[req[r].row].user
  <2>1. req[r].row \in DOMAIN links /\ req[r].by \in Email
    BY <1>3, ReqFields DEF UpdateUserPassword
  <2>2. e \in Email /\ users[e] # None
    BY <2>1, LinkFields DEF RowsThere
  <2>3. [users[e] EXCEPT !.password = req[r].by] \in UserRow
    BY <2>1, <2>2 DEF UserRow
  <2>4. users' = [users EXCEPT ![e] = [users[e] EXCEPT !.password = req[r].by]]
    BY <1>3 DEF UpdateUserPassword
  <2>. HIDE DEF e
  <2>. QED
    BY <2>2, <2>3, <2>4, NoneIsNoRow
<1>4. CASE UNCHANGED users
  BY <1>4
<1>5. ASSUME NEW r \in Req, SignupUser(r)
      PROVE  /\ users' \in [Email -> UserRow \cup {None}]
             /\ \A x \in Email : users[x] # None => users'[x] # None
  <2>1. req[r].user \in Email /\ req[r].site \in Site
    BY <1>5, ReqFields DEF SignupUser
  <2>2. CreateUser(req[r].user, "restricted", req[r].site, req[r].user)
    BY <1>5 DEF SignupUser
  <2>. QED
    BY <1>1, <2>1, <2>2 DEF Role
<1>6. ASSUME NEW r \in Req, Statement(r)
      PROVE  UpdateUserPassword(r) \/ SignupUser(r) \/ UNCHANGED users
  BY <1>6 DEF Statement, InsertLink, Send, LinkFails, Mark, UseFails, Issue, SignupFails,
       SetSitePrimary, SetPrimaryFails, accounts
<1>7. ASSUME NEW r \in Req, Arrive(r)
      PROVE  \/ UNCHANGED users
             \/ \E e \in Email, role \in Role, s \in Site \cup {None} : CreateUser(e, role, s, "nobody")
  BY <1>7 DEF Arrive, Invite, RequestReset, Present, Authenticate, SignupSite, BeginSetPrimary, accounts
<1>8. ASSUME NEW e \in Email, NEW role \in Role, NEW s \in Site \cup {None}, Create(e, role, s)
      PROVE  CreateUser(e, role, s, "operator")
  BY <1>8 DEF Create
<1>9. ASSUME \/ \E t \in DOMAIN links : LinkExpires(t)
             \/ \E c \in sessions : SessionExpires(c)
             \/ \E s \in Site : CreateSite(s)
      PROVE  UNCHANGED users
  BY <1>9 DEF LinkExpires, SessionExpires, CreateSite, accounts
<1>. HIDE DEF Typed, TypeOK
<1>. QED
  BY <1>1, <1>2, <1>3, <1>4, <1>5, <1>6, <1>7, <1>8, <1>9 DEF Next

(* Links are appended and struck off; their kind and user never change.     *)
LEMMA LinksStay ==
  ASSUME Typed, Next
  PROVE  /\ links' \in Seq([kind : {"invite", "reset"}, user : Email, live : BOOLEAN])
         /\ Len(links') <= MaxLinks
         /\ DOMAIN links \subseteq DOMAIN links'
         /\ \A t \in DOMAIN links :
              /\ links'[t].kind = links[t].kind /\ links'[t].user = links[t].user
              /\ links'[t].live => links[t].live
         /\ DOMAIN links' # DOMAIN links =>
              \E r \in Req : InsertLink(r)
<1>. USE DEF Typed
<1>1. ASSUME NEW r \in Req, InsertLink(r)
      PROVE  /\ links' \in Seq([kind : {"invite", "reset"}, user : Email, live : BOOLEAN])
             /\ Len(links') <= MaxLinks
             /\ DOMAIN links \subseteq DOMAIN links'
             /\ \A t \in DOMAIN links : links'[t] = links[t]
  <2>. DEFINE new == [kind |-> req[r].kind, user |-> req[r].user, live |-> TRUE]
  <2>1. new \in [kind : {"invite", "reset"}, user : Email, live : BOOLEAN]
    BY <1>1, ReqFields DEF InsertLink
  <2>2. links' = Append(links, new) /\ Len(links) < MaxLinks
    BY <1>1 DEF InsertLink
  <2>. HIDE DEF new
  <2>. QED
    BY <2>1, <2>2, AccountsAssumption DEF TypeOK
<1>2. ASSUME NEW t \in DOMAIN links, links' = [links EXCEPT ![t].live = FALSE]
      PROVE  /\ links' \in Seq([kind : {"invite", "reset"}, user : Email, live : BOOLEAN])
             /\ Len(links') = Len(links)
             /\ DOMAIN links = DOMAIN links'
             /\ \A x \in DOMAIN links :
                  /\ links'[x].kind = links[x].kind /\ links'[x].user = links[x].user
                  /\ links'[x].live => links[x].live
  <2>1. [links[t] EXCEPT !.live = FALSE] \in [kind : {"invite", "reset"}, user : Email, live : BOOLEAN]
    BY LinkFields
  <2>2. links' = [links EXCEPT ![t] = [links[t] EXCEPT !.live = FALSE]]
    BY <1>2
  <2>. QED
    BY <2>1, <2>2, LinkFields DEF TypeOK
<1>3. ASSUME NEW r \in Req, Mark(r)
      PROVE  \E t \in DOMAIN links : links' = [links EXCEPT ![t].live = FALSE]
  BY <1>3, ReqFields DEF Mark
<1>4. ASSUME NEW t \in DOMAIN links, LinkExpires(t)
      PROVE  links' = [links EXCEPT ![t].live = FALSE]
  BY <1>4 DEF LinkExpires
<1>5. CASE UNCHANGED links
  BY <1>5, LinkFields DEF TypeOK
<1>6. ASSUME NEW r \in Req, Statement(r)
      PROVE  InsertLink(r) \/ Mark(r) \/ UNCHANGED links
  BY <1>6 DEF Statement, Send, LinkFails, UpdateUserPassword, UseFails, Issue, SignupUser, SignupFails,
       SetSitePrimary, SetPrimaryFails, accounts
<1>7. ASSUME NEW r \in Req, Arrive(r)
      PROVE  UNCHANGED links
  BY <1>7 DEF Arrive, Invite, RequestReset, Present, Authenticate, SignupSite, BeginSetPrimary, accounts
<1>8. ASSUME \/ \E e \in Email, role \in Role, s \in Site \cup {None} : Create(e, role, s)
             \/ \E e \in Email, disabled \in BOOLEAN : SetDisabled(e, disabled)
             \/ \E c \in sessions : SessionExpires(c)
             \/ \E s \in Site : CreateSite(s)
      PROVE  UNCHANGED links
  BY <1>8 DEF Create, SetDisabled, SessionExpires, CreateSite, accounts
<1>9. \A i \in Nat : Len(links) = i /\ i <= MaxLinks => Len(links) <= MaxLinks
  OBVIOUS
<1>10. Len(links) <= MaxLinks
  BY DEF TypeOK
<1>11. (\E r \in Req : InsertLink(r)) \/ (\E t \in DOMAIN links : links' = [links EXCEPT ![t].live = FALSE]) \/ UNCHANGED links
  BY <1>3, <1>4, <1>6, <1>7, <1>8 DEF Next
<1>. HIDE DEF Typed
<1>. QED
  BY <1>1, <1>2, <1>5, <1>10, <1>11

(* How a step changes the requests under way.                               *)
LEMMA ReqStep ==
  ASSUME Typed, Next
  PROVE  \/ UNCHANGED req
         \/ \E r \in Req, q \in ReqType' : req' = [req EXCEPT ![r] = q]
<1>. USE DEF Typed
<1>0. \A q \in ReqType : q \in ReqType'
  BY LinksStay, ReqGrows
<1>1. Idle \in ReqType'
  BY DEF ReqType
<1>2. ASSUME NEW r \in Req, Statement(r)
      PROVE  \E q \in ReqType' : req' = [req EXCEPT ![r] = q]
  <2>1. CASE InsertLink(r)
    <3>. DEFINE q == [op |-> "send", token |-> Len(links) + 1]
    <3>1. req' = [req EXCEPT ![r] = q]
      BY <2>1 DEF InsertLink, Becomes
    <3>2. Len(links) \in Nat /\ links' = Append(links, [kind |-> req[r].kind, user |-> req[r].user, live |-> TRUE])
      BY <2>1 DEF InsertLink, TypeOK
    <3>3. Len(links) + 1 \in DOMAIN links'
      BY <3>2 DEF TypeOK
    <3>4. q \in ReqType'
      BY <3>3 DEF ReqType
    <3>. QED
      BY <3>1, <3>4
  <2>2. CASE UpdateUserPassword(r)
    <3>. DEFINE q == [req[r] EXCEPT !.op = "mark"]
    <3>1. req' = [req EXCEPT ![r] = q]
      BY <2>2 DEF UpdateUserPassword, Becomes
    <3>2. req[r] \in [op : {"password", "mark"}, row : DOMAIN links, by : Email]
      BY <2>2, ReqFields DEF UpdateUserPassword, ReqType, Idle
    <3>3. q \in ReqType
      BY <3>2 DEF ReqType
    <3>. QED
      BY <1>0, <3>1, <3>3
  <2>3. CASE SignupUser(r)
    <3>. DEFINE q == [op |-> "issue", claims |-> [user |-> req[r].user, role |-> "restricted", site |-> req[r].site]]
    <3>1. req' = [req EXCEPT ![r] = q]
      BY <2>3 DEF SignupUser, Becomes
    <3>2. q \in ReqType
      BY <2>3, ReqFields DEF SignupUser, ReqType, Claims, Role
    <3>. QED
      BY <1>0, <3>1, <3>2
  <2>. QED
    BY <1>1, <1>2, <2>1, <2>2, <2>3 DEF Statement, Send, LinkFails, Mark, UseFails, Issue, SignupFails,
       SetSitePrimary, SetPrimaryFails, Ends, Becomes
<1>3. ASSUME NEW r \in Req, Arrive(r)
      PROVE  \E q \in ReqType : req' = [req EXCEPT ![r] = q]
  <2>1. ASSUME NEW e \in Email, NEW role \in Role, NEW s \in Site \cup {None}, Invite(r, e, role, s)
        PROVE  \E q \in ReqType : req' = [req EXCEPT ![r] = q]
    BY <2>1 DEF Invite, Begins, ReqType
  <2>2. ASSUME NEW e \in Email, RequestReset(r, e)
        PROVE  \E q \in ReqType : req' = [req EXCEPT ![r] = q]
    BY <2>2 DEF RequestReset, Begins, ReqType
  <2>3. ASSUME NEW e \in Email, NEW kind \in {"invite", "reset"}, NEW t \in DOMAIN links, Present(r, e, kind, t)
        PROVE  \E q \in ReqType : req' = [req EXCEPT ![r] = q]
    BY <2>3 DEF Present, Match, Begins, ReqType
  <2>4. ASSUME NEW e \in Email, Authenticate(r, e)
        PROVE  \E q \in ReqType : req' = [req EXCEPT ![r] = q]
    <3>. DEFINE c == [user |-> e, role |-> users[e].role, site |-> users[e].site]
    <3>1. req' = [req EXCEPT ![r] = [op |-> "issue", claims |-> c]]
      BY <2>4 DEF Authenticate, BeginsLogin, Becomes
    <3>2. users[e] \in UserRow
      BY <2>4 DEF Authenticate, TypeOK
    <3>3. c \in Claims
      BY <3>2 DEF Claims, UserRow
    <3>. HIDE DEF c
    <3>. QED
      BY <3>1, <3>3 DEF ReqType
  <2>5. ASSUME NEW e \in Email, NEW s \in Site, SignupSite(r, e, s)
        PROVE  \E q \in ReqType : req' = [req EXCEPT ![r] = q]
    BY <2>5 DEF SignupSite, Begins, ReqType
  <2>6. ASSUME NEW s \in Site, BeginSetPrimary(r, s)
        PROVE  \E q \in ReqType : req' = [req EXCEPT ![r] = q]
    BY <2>6 DEF BeginSetPrimary, Begins, ReqType
  <2>. QED
    BY <1>3, <2>1, <2>2, <2>3, <2>4, <2>5, <2>6 DEF Arrive
<1>4. ASSUME \/ \E e \in Email, role \in Role, s \in Site \cup {None} : Create(e, role, s)
             \/ \E e \in Email, disabled \in BOOLEAN : SetDisabled(e, disabled)
             \/ \E t \in DOMAIN links : LinkExpires(t)
             \/ \E c \in sessions : SessionExpires(c)
             \/ \E s \in Site : CreateSite(s)
      PROVE  UNCHANGED req
  BY <1>4 DEF Create, SetDisabled, LinkExpires, SessionExpires, CreateSite
<1>. HIDE DEF Typed
<1>. QED
  BY <1>0, <1>2, <1>3, <1>4 DEF Next

(* The other variables.                                                     *)
LEMMA OthersStep ==
  ASSUME Typed, Next
  PROVE  /\ sites' \subseteq Site /\ sites \subseteq sites' /\ primary' \subseteq sites'
         /\ chosen' \in Site \cup {None} /\ dropped' \in BOOLEAN
         /\ mailbox' \in [Email -> SUBSET DOMAIN links']
         /\ sessions' \subseteq Claims
         /\ begun' \in 0 .. MaxRequests /\ faults' \in 0 .. MaxFaults
<1>. DEFINE Places == /\ sites' \subseteq Site /\ sites \subseteq sites' /\ primary' \subseteq sites'
                      /\ chosen' \in Site \cup {None} /\ dropped' \in BOOLEAN
            Mail == /\ mailbox' \in [Email -> SUBSET DOMAIN links]
                    /\ sessions' \subseteq Claims
            Counts == begun' \in 0 .. MaxRequests /\ faults' \in 0 .. MaxFaults
            Others == Places /\ Mail /\ Counts
<1>1. /\ sites \subseteq Site /\ primary \subseteq sites
      /\ chosen \in Site \cup {None} /\ dropped \in BOOLEAN
      /\ mailbox \in [Email -> SUBSET DOMAIN links]
      /\ sessions \subseteq Claims
      /\ begun \in 0 .. MaxRequests /\ faults \in 0 .. MaxFaults
      /\ MaxRequests \in Nat /\ MaxFaults \in Nat
  BY AccountsAssumption DEF Typed, TypeOK
<1>2. ASSUME NEW r \in Req, Statement(r)
      PROVE  Others
  <2>1. Counts
    <3>1. begun' = begun
      BY <1>2 DEF Statement, InsertLink, Send, LinkFails, UpdateUserPassword, Mark, UseFails, Issue,
           SignupUser, SignupFails, SetSitePrimary, SetPrimaryFails, Ends, Becomes
    <3>2. faults' = faults \/ (faults < MaxFaults /\ faults' = faults + 1)
      BY <1>2 DEF Statement, InsertLink, Send, LinkFails, UpdateUserPassword, Mark, UseFails, Issue,
           SignupUser, SignupFails, SetSitePrimary, SetPrimaryFails, Fault, NoFault
    <3>. QED
      BY <1>1, <3>1, <3>2
  <2>2. Places
    <3>1. \/ UNCHANGED places
          \/ /\ sites' = sites /\ primary' = {req[r].site} /\ req[r].site \in sites
             /\ chosen' \in {req[r].site, chosen} /\ dropped' \in BOOLEAN
          \/ sites' = sites /\ primary' = primary /\ chosen' = chosen /\ dropped' = TRUE
      BY <1>2 DEF Statement, InsertLink, Send, LinkFails, UpdateUserPassword, Mark, UseFails, Issue,
           SignupUser, SignupFails, SetSitePrimary, SetPrimaryFails, places, accounts
    <3>. QED
      BY <1>1, <3>1 DEF places
  <2>3. Mail
    <3>1. CASE Send(r)
      <4>1. req[r].token \in DOMAIN links
        BY <3>1, ReqFields DEF Send, Typed
      <4>2. links[req[r].token].user \in Email
        BY <4>1, LinkFields DEF Typed
      <4>. QED
        BY <1>1, <3>1, <4>1, <4>2 DEF Send
    <3>2. CASE Mark(r)
      BY <1>1, <3>2 DEF Mark
    <3>3. CASE Issue(r)
      <4>1. req[r].claims \in Claims
        BY <3>3, ReqFields DEF Issue, Typed
      <4>. QED
        BY <1>1, <3>3, <4>1 DEF Issue
    <3>. QED
      BY <1>1, <1>2, <3>1, <3>2, <3>3 DEF Statement, InsertLink, LinkFails, UpdateUserPassword, UseFails,
           SignupUser, SignupFails, SetSitePrimary, SetPrimaryFails, accounts
  <2>. QED
    BY <2>1, <2>2, <2>3
<1>3. ASSUME NEW r \in Req, Arrive(r)
      PROVE  Others
  <2>1. Counts
    <3>1. begun' = begun \/ (begun < MaxRequests /\ begun' = begun + 1)
      BY <1>3 DEF Arrive, Invite, RequestReset, Present, Authenticate, SignupSite, BeginSetPrimary,
           Begins, BeginsLogin, Becomes, Arrives
    <3>2. faults' = faults
      BY <1>3 DEF Arrive, Invite, RequestReset, Present, Authenticate, SignupSite, BeginSetPrimary
    <3>. QED
      BY <1>1, <3>1, <3>2
  <2>2. Places
    BY <1>1, <1>3 DEF Arrive, Invite, RequestReset, Present, Authenticate, SignupSite, BeginSetPrimary, places
  <2>3. Mail
    BY <1>1, <1>3 DEF Arrive, Invite, RequestReset, Present, Authenticate, SignupSite, BeginSetPrimary, accounts
  <2>. QED
    BY <2>1, <2>2, <2>3
<1>4. ASSUME \/ \E e \in Email, role \in Role, s \in Site \cup {None} : Create(e, role, s)
             \/ \E e \in Email, disabled \in BOOLEAN : SetDisabled(e, disabled)
             \/ \E t \in DOMAIN links : LinkExpires(t)
             \/ \E c \in sessions : SessionExpires(c)
             \/ \E s \in Site : CreateSite(s)
      PROVE  Others
  <2>1. Counts
    <3>1. begun' = begun \/ (begun < MaxRequests /\ begun' = begun + 1)
      BY <1>4 DEF Create, SetDisabled, LinkExpires, SessionExpires, CreateSite, Arrives
    <3>2. faults' = faults
      BY <1>4 DEF Create, SetDisabled, LinkExpires, SessionExpires, CreateSite
    <3>. QED
      BY <1>1, <3>1, <3>2
  <2>2. Places
    BY <1>1, <1>4 DEF Create, SetDisabled, LinkExpires, SessionExpires, CreateSite, places
  <2>3. Mail
    BY <1>1, <1>4 DEF Create, SetDisabled, LinkExpires, SessionExpires, CreateSite, accounts
  <2>. QED
    BY <2>1, <2>2, <2>3
<1>5. Others
  BY <1>2, <1>3, <1>4 DEF Next
<1>6. DOMAIN links \subseteq DOMAIN links'
  BY LinksStay
<1>. QED
  BY <1>5, <1>6

(* A link is only ever asked for a user who has a row.                      *)
LEMMA AskedFor ==
  ASSUME Typed, Next, NEW r \in Req, req'[r].op = "link"
  PROVE  req'[r] = req[r] \/ (req'[r].user \in Email /\ users'[req'[r].user] # None)
<1>0. req \in [Req -> ReqType]
  BY DEF Typed, TypeOK
<1>1. ASSUME NEW s \in Req, Statement(s)
      PROVE  req'[r] = req[r]
  <2>1. CASE r # s
    BY <1>0, <1>1, <2>1 DEF Statement, InsertLink, Send, LinkFails, UpdateUserPassword, Mark, UseFails, Issue,
         SignupUser, SignupFails, SetSitePrimary, SetPrimaryFails, Ends, Becomes
  <2>2. CASE r = s
    <3>1. req'[r].op \in {"send", "mark", "issue", "idle"}
      <4>1. CASE UpdateUserPassword(s)
        <5>1. req[r] \in [op : {"password", "mark"}, row : DOMAIN links, by : Email]
          BY <4>1, <2>2, ReqFields DEF Typed, UpdateUserPassword, ReqType, Idle
        <5>. QED
          BY <1>0, <2>2, <4>1, <5>1 DEF UpdateUserPassword, Becomes
      <4>. QED
        BY <1>0, <1>1, <2>2, <4>1 DEF Statement, InsertLink, Send, LinkFails, Mark, UseFails, Issue,
             SignupUser, SignupFails, SetSitePrimary, SetPrimaryFails, Ends, Becomes, Idle
    <3>. QED
      BY <3>1
  <2>. QED
    BY <2>1, <2>2
<1>2. ASSUME NEW s \in Req, Arrive(s)
      PROVE  req'[r] = req[r] \/ (req'[r].user \in Email /\ users'[req'[r].user] # None)
  <2>1. CASE r # s
    BY <1>0, <1>2, <2>1 DEF Arrive, Invite, RequestReset, Present, Authenticate, SignupSite, BeginSetPrimary,
         Begins, BeginsLogin, Becomes
  <2>2. CASE r = s
    <3>1. ASSUME NEW e \in Email, NEW role \in Role, NEW x \in Site \cup {None}, Invite(s, e, role, x)
          PROVE  req'[r].user \in Email /\ users'[req'[r].user] # None
      <4>1. req'[r].user = e
        BY <1>0, <2>2, <3>1 DEF Invite, Begins
      <4>2. [role |-> role, site |-> x, password |-> "nobody", disabled |-> FALSE] \in UserRow
        BY DEF UserRow
      <4>3. users'[e] # None
        BY <3>1, <4>2, NoneIsNoRow DEF Invite, CreateUser, Typed, TypeOK
      <4>. QED
        BY <4>1, <4>3
    <3>2. ASSUME NEW e \in Email, RequestReset(s, e)
          PROVE  req'[r].user \in Email /\ users'[req'[r].user] # None
      BY <1>0, <2>2, <3>2 DEF RequestReset, Begins, accounts
    <3>3. CASE \/ \E e \in Email, kind \in {"invite", "reset"}, t \in DOMAIN links : Present(s, e, kind, t)
               \/ \E e \in Email : Authenticate(s, e)
               \/ \E e \in Email, x \in Site : SignupSite(s, e, x)
               \/ \E x \in Site : BeginSetPrimary(s, x)
      <4>1. req'[r].op \in {"password", "issue", "signup", "primary"}
        BY <1>0, <2>2, <3>3 DEF Present, Authenticate, SignupSite, BeginSetPrimary, Begins, BeginsLogin, Becomes
      <4>. QED
        BY <4>1
    <3>. QED
      BY <1>2, <3>1, <3>2, <3>3 DEF Arrive
  <2>. QED
    BY <2>1, <2>2
<1>3. ASSUME \/ \E e \in Email, role \in Role, s \in Site \cup {None} : Create(e, role, s)
             \/ \E e \in Email, disabled \in BOOLEAN : SetDisabled(e, disabled)
             \/ \E t \in DOMAIN links : LinkExpires(t)
             \/ \E c \in sessions : SessionExpires(c)
             \/ \E s \in Site : CreateSite(s)
      PROVE  req'[r] = req[r]
  BY <1>3 DEF Create, SetDisabled, LinkExpires, SessionExpires, CreateSite
<1>. QED
  BY <1>1, <1>2, <1>3 DEF Next

LEMMA TypedStep ==
  ASSUME Typed, [Next]_vars
  PROVE  Typed'
<1>1. CASE UNCHANGED vars
  BY <1>1 DEF vars, Typed, TypeOK, RowsThere, ReqType
<1>2. CASE Next
  <2>1. TypeOK'
    <3>1. req' \in [Req -> ReqType']
      <4>1. req \in [Req -> ReqType']
        BY <1>2, LinksStay, ReqGrows DEF Typed, TypeOK
      <4>. QED
        BY <1>2, <4>1, ReqStep
    <3>. QED
      BY <1>2, <3>1, RowsStay, LinksStay, OthersStep DEF TypeOK
  <2>2. \A t \in DOMAIN links' : users'[links'[t].user] # None
    <3>1. ASSUME NEW r \in Req, InsertLink(r)
          PROVE  \A t \in DOMAIN links' : users'[links'[t].user] # None
      <4>1. users[req[r].user] # None /\ users' = users
        BY <3>1 DEF InsertLink, Typed, RowsThere
      <4>2. /\ links' = Append(links, [kind |-> req[r].kind, user |-> req[r].user, live |-> TRUE])
            /\ links \in Seq([kind : {"invite", "reset"}, user : Email, live : BOOLEAN])
        BY <3>1 DEF InsertLink, Typed, TypeOK
      <4>3. \A t \in DOMAIN links' :
              (t \in DOMAIN links /\ links'[t] = links[t]) \/ links'[t].user = req[r].user
        BY <4>2
      <4>. QED
        BY <4>1, <4>3 DEF Typed, RowsThere
    <3>2. CASE DOMAIN links' = DOMAIN links
      BY <1>2, <3>2, RowsStay, LinksStay, LinkFields DEF Typed, RowsThere
    <3>. QED
      BY <1>2, <3>1, <3>2, LinksStay
  <2>3. \A r \in Req : req'[r].op = "link" => users'[req'[r].user] # None
    BY <1>2, AskedFor, RowsStay, ReqFields DEF Typed, RowsThere
  <2>. QED
    BY <2>1, <2>2, <2>3 DEF Typed, RowsThere
<1>. QED
  BY <1>1, <1>2

LEMMA TypedInit == Init => Typed
<1>1. ASSUME Init PROVE TypeOK
  <2>1. <<>> \in Seq([kind : {"invite", "reset"}, user : Email, live : BOOLEAN]) /\ DOMAIN <<>> = {}
    OBVIOUS
  <2>2. req \in [Req -> ReqType]
    BY <1>1 DEF Init, ReqType
  <2>3. 0 \in 0 .. MaxRequests /\ 0 \in 0 .. MaxFaults /\ Len(<<>>) <= MaxLinks
    BY AccountsAssumption
  <2>. QED
    BY <1>1, <2>1, <2>2, <2>3, AccountsAssumption DEF Init, TypeOK
<1>2. ASSUME Init PROVE RowsThere
  <2>1. DOMAIN links = {}
    BY <1>2 DEF Init
  <2>2. \A r \in Req : req[r].op = "idle"
    BY <1>2 DEF Init, Idle
  <2>. QED
    BY <2>1, <2>2 DEF RowsThere
<1>. QED
  BY <1>1, <1>2 DEF Typed

(***************************************************************************)
(* Links and passwords.                                                    *)
(***************************************************************************)

(* A link was mailed to its user only, and only who read that mail is      *)
(* using it.                                                               *)
LinksOwn ==
  /\ \A e \in Email : \A t \in mailbox[e] : links[t].user = e
  /\ \A r \in Req : req[r].op \in {"password", "mark"} =>
       links[req[r].row].user = req[r].by

(* How a request gets to use a link.                                       *)
LEMMA Using ==
  ASSUME Typed, Next, NEW r \in Req, req'[r].op \in {"password", "mark"}
  PROVE  \/ req'[r] = req[r]
         \/ req[r].op = "password" /\ req'[r] = [req[r] EXCEPT !.op = "mark"]
         \/ \E e \in Email : \E t \in mailbox[e] :
              req'[r] = [op |-> "password", row |-> t, by |-> e]
<1>0. req \in [Req -> ReqType]
  BY DEF Typed, TypeOK
<1>1. ASSUME NEW s \in Req, Statement(s)
      PROVE  req'[r] = req[r] \/ (req[r].op = "password" /\ req'[r] = [req[r] EXCEPT !.op = "mark"])
  <2>1. CASE UpdateUserPassword(s)
    BY <1>0, <2>1 DEF UpdateUserPassword, Becomes
  <2>2. CASE ~ UpdateUserPassword(s)
    <3>1. r # s \/ req'[r].op \in {"send", "issue", "idle"}
      BY <1>0, <1>1, <2>2 DEF Statement, InsertLink, Send, LinkFails, Mark, UseFails, Issue,
           SignupUser, SignupFails, SetSitePrimary, SetPrimaryFails, Ends, Becomes, Idle
    <3>2. r # s => req'[r] = req[r]
      BY <1>0, <1>1, <2>2 DEF Statement, InsertLink, Send, LinkFails, Mark, UseFails, Issue,
           SignupUser, SignupFails, SetSitePrimary, SetPrimaryFails, Ends, Becomes
    <3>. QED
      BY <3>1, <3>2
  <2>. QED
    BY <2>1, <2>2
<1>2. ASSUME NEW s \in Req, Arrive(s)
      PROVE  \/ req'[r] = req[r]
             \/ \E e \in Email : \E t \in mailbox[e] :
                  req'[r] = [op |-> "password", row |-> t, by |-> e]
  <2>1. CASE r # s
    BY <1>0, <1>2, <2>1 DEF Arrive, Invite, RequestReset, Present, Authenticate, SignupSite, BeginSetPrimary,
         Begins, BeginsLogin, Becomes
  <2>2. CASE r = s
    <3>1. ASSUME NEW e \in Email, NEW kind \in {"invite", "reset"}, NEW t \in DOMAIN links, Present(s, e, kind, t)
          PROVE  t \in mailbox[e] /\ req'[r] = [op |-> "password", row |-> t, by |-> e]
      BY <1>0, <2>2, <3>1 DEF Present, Match, Begins
    <3>2. CASE \/ \E e \in Email, role \in Role, x \in Site \cup {None} : Invite(s, e, role, x)
               \/ \E e \in Email : RequestReset(s, e)
               \/ \E e \in Email : Authenticate(s, e)
               \/ \E e \in Email, x \in Site : SignupSite(s, e, x)
               \/ \E x \in Site : BeginSetPrimary(s, x)
      <4>1. req'[r].op \in {"link", "issue", "signup", "primary"}
        BY <1>0, <2>2, <3>2 DEF Invite, RequestReset, Authenticate, SignupSite, BeginSetPrimary,
             Begins, BeginsLogin, Becomes
      <4>. QED
        BY <4>1
    <3>. QED
      BY <1>2, <3>1, <3>2 DEF Arrive
  <2>. QED
    BY <2>1, <2>2
<1>3. ASSUME \/ \E e \in Email, role \in Role, s \in Site \cup {None} : Create(e, role, s)
             \/ \E e \in Email, disabled \in BOOLEAN : SetDisabled(e, disabled)
             \/ \E t \in DOMAIN links : LinkExpires(t)
             \/ \E c \in sessions : SessionExpires(c)
             \/ \E s \in Site : CreateSite(s)
      PROVE  req'[r] = req[r]
  BY <1>3 DEF Create, SetDisabled, LinkExpires, SessionExpires, CreateSite
<1>. QED
  BY <1>1, <1>2, <1>3 DEF Next

LEMMA LinksOwnStep ==
  ASSUME Typed, LinksOwn, Next
  PROVE  LinksOwn'
<1>1. /\ \A e \in Email : mailbox[e] \subseteq DOMAIN links
      /\ mailbox \in [Email -> SUBSET DOMAIN links]
  BY DEF Typed, TypeOK
<1>3. \A e \in Email : \A t \in mailbox'[e] : links'[t].user = e
  <2>1. ASSUME NEW r \in Req, Send(r)
        PROVE  \A e \in Email : \A t \in mailbox'[e] : t \in DOMAIN links /\ links[t].user = e
    <3>1. req[r].token \in DOMAIN links
      BY <2>1, ReqFields DEF Send, Typed
    <3>2. links[req[r].token].user \in Email
      BY <3>1, LinkFields DEF Typed
    <3>. QED
      BY <1>1, <2>1, <3>1, <3>2 DEF Send, LinksOwn
  <2>2. CASE mailbox' = mailbox
    BY <1>1, <2>2, LinksStay DEF LinksOwn
  <2>3. ASSUME NEW r \in Req, Statement(r)
        PROVE  Send(r) \/ mailbox' = mailbox
    BY <2>3 DEF Statement, InsertLink, Mark, LinkFails, UpdateUserPassword, UseFails, Issue,
         SignupUser, SignupFails, SetSitePrimary, SetPrimaryFails, accounts
  <2>4. (\E r \in Req : Statement(r)) \/ mailbox' = mailbox
    BY DEF Next, Arrive, Invite, RequestReset, Present, Authenticate, SignupSite, BeginSetPrimary, accounts,
         Create, SetDisabled, LinkExpires, SessionExpires, CreateSite
  <2>. QED
    BY <2>1, <2>2, <2>3, <2>4, LinksStay
<1>4. ASSUME NEW r \in Req, req'[r].op \in {"password", "mark"}
      PROVE  links'[req'[r].row].user = req'[r].by
  <2>1. CASE req'[r] = req[r]
    BY <1>4, <2>1, ReqFields, LinksStay DEF LinksOwn, Typed
  <2>2. CASE req[r].op = "password" /\ req'[r] = [req[r] EXCEPT !.op = "mark"]
    <3>1. req[r] \in [op : {"password", "mark"}, row : DOMAIN links, by : Email]
      BY <2>2, ReqFields DEF Typed, ReqType, Idle
    <3>2. req'[r].row = req[r].row /\ req'[r].by = req[r].by
      BY <2>2, <3>1
    <3>. QED
      BY <2>2, <3>1, <3>2, LinksStay DEF LinksOwn
  <2>3. ASSUME NEW e \in Email,
               \E t \in mailbox[e] : req'[r] = [op |-> "password", row |-> t, by |-> e]
        PROVE  links'[req'[r].row].user = req'[r].by
    BY <1>1, <2>3, LinksStay DEF LinksOwn
  <2>. QED
    BY <1>4, <2>1, <2>2, <2>3, Using
<1>. QED
  BY <1>3, <1>4 DEF LinksOwn

(* What can become of a user's row.                                        *)
LEMMA UserStep ==
  ASSUME Typed, LinksOwn, Next, NEW e \in Email
  PROVE  \/ users'[e] = users[e]
         \/ /\ users[e] # None /\ users'[e] # None
            /\ users'[e].role = users[e].role /\ users'[e].site = users[e].site
            /\ users'[e].password \in {users[e].password, e}
         \/ /\ users[e] = None /\ users'[e] # None
            /\ users'[e].site \in sites \cup {None}
            /\ users'[e].role = "restricted" => users'[e].site # None
            /\ users'[e].password \in {e, "operator", "nobody"}
<1>. DEFINE Same == users'[e] = users[e]
            Old == /\ users[e] # None /\ users'[e] # None
                   /\ users'[e].role = users[e].role /\ users'[e].site = users[e].site
                   /\ users'[e].password \in {users[e].password, e}
            New == /\ users[e] = None /\ users'[e] # None
                   /\ users'[e].site \in sites \cup {None}
                   /\ users'[e].role = "restricted" => users'[e].site # None
                   /\ users'[e].password \in {e, "operator", "nobody"}
<1>0. users \in [Email -> UserRow \cup {None}]
  BY DEF Typed, TypeOK
<1>1. ASSUME NEW x \in Email, NEW role \in Role, NEW s \in Site \cup {None},
             NEW password \in {x, "operator", "nobody"}, CreateUser(x, role, s, password)
      PROVE  Same \/ New
  <2>. DEFINE row == [role |-> role, site |-> s, password |-> password, disabled |-> FALSE]
  <2>1. row \in UserRow
    BY DEF UserRow
  <2>2. row # None /\ row.role = role /\ row.site = s /\ row.password = password
    BY <2>1, NoneIsNoRow
  <2>3. users' = [users EXCEPT ![x] = row]
    BY <1>1 DEF CreateUser
  <2>. HIDE DEF row
  <2>. QED
    BY <1>0, <1>1, <2>2, <2>3 DEF CreateUser
<1>2. ASSUME NEW x \in Email, NEW disabled \in BOOLEAN, SetDisabled(x, disabled)
      PROVE  Same \/ Old
  <2>. DEFINE row == [users[x] EXCEPT !.disabled = disabled]
  <2>1. users[x] \in UserRow
    BY <1>0, <1>2 DEF SetDisabled
  <2>2. row \in UserRow /\ row.role = users[x].role /\ row.site = users[x].site /\ row.password = users[x].password
    BY <2>1 DEF UserRow
  <2>3. users' = [users EXCEPT ![x] = row]
    BY <1>2 DEF SetDisabled
  <2>. HIDE DEF row
  <2>. QED
    BY <1>0, <1>2, <2>2, <2>3, NoneIsNoRow DEF SetDisabled
<1>3. ASSUME NEW r \in Req, UpdateUserPassword(r)
      PROVE  Same \/ Old
  <2>. DEFINE x == links[req[r].row].user
              row == [users[x] EXCEPT !.password = x]
  <2>1. req[r].row \in DOMAIN links /\ req[r].by = x
    BY <1>3, ReqFields DEF UpdateUserPassword, Typed, LinksOwn
  <2>2. x \in Email /\ users[x] # None
    BY <2>1, LinkFields DEF Typed, RowsThere
  <2>3. users[x] \in UserRow
    BY <1>0, <2>2
  <2>4. row \in UserRow /\ row.role = users[x].role /\ row.site = users[x].site /\ row.password = x
    BY <2>2, <2>3 DEF UserRow
  <2>5. users' = [users EXCEPT ![x] = row]
    BY <1>3, <2>1 DEF UpdateUserPassword
  <2>. HIDE DEF row, x
  <2>. QED
    BY <1>0, <2>2, <2>3, <2>4, <2>5, NoneIsNoRow
<1>4. ASSUME NEW r \in Req, SignupUser(r)
      PROVE  Same \/ New
  <2>1. req[r].user \in Email /\ req[r].site \in Site
    BY <1>4, ReqFields DEF SignupUser, Typed
  <2>2. CreateUser(req[r].user, "restricted", req[r].site, req[r].user)
    BY <1>4 DEF SignupUser
  <2>. QED
    BY <1>1, <2>1, <2>2 DEF Role
<1>5. ASSUME NEW r \in Req, Statement(r)
      PROVE  UpdateUserPassword(r) \/ SignupUser(r) \/ UNCHANGED users
  BY <1>5 DEF Statement, InsertLink, Send, LinkFails, Mark, UseFails, Issue, SignupFails,
       SetSitePrimary, SetPrimaryFails, accounts
<1>6. ASSUME NEW r \in Req, Arrive(r)
      PROVE  \/ UNCHANGED users
             \/ \E x \in Email, role \in Role, s \in Site \cup {None} : CreateUser(x, role, s, "nobody")
  BY <1>6 DEF Arrive, Invite, RequestReset, Present, Authenticate, SignupSite, BeginSetPrimary, accounts
<1>7. ASSUME NEW x \in Email, NEW role \in Role, NEW s \in Site \cup {None}, Create(x, role, s)
      PROVE  CreateUser(x, role, s, "operator")
  BY <1>7 DEF Create
<1>8. ASSUME \/ \E t \in DOMAIN links : LinkExpires(t)
             \/ \E c \in sessions : SessionExpires(c)
             \/ \E s \in Site : CreateSite(s)
      PROVE  UNCHANGED users
  BY <1>8 DEF LinkExpires, SessionExpires, CreateSite, accounts
<1>9. UNCHANGED users => Same
  OBVIOUS
<1>. HIDE DEF Same, Old, New
<1>10. Same \/ Old \/ New
  BY <1>1, <1>2, <1>3, <1>4, <1>5, <1>6, <1>7, <1>8, <1>9 DEF Next
<1>. QED
  BY <1>10 DEF Same, Old, New

(***************************************************************************)
(* Rows and claims.                                                        *)
(***************************************************************************)

(* What a session token says is what the user's row says, and the user's   *)
(* password is one that somebody knows.                                    *)
Backs(row, c) ==
  /\ row # None /\ row.password # "nobody"
  /\ row.role = c.role /\ row.site = c.site

RowsOwn ==
  \A e \in Email : users[e] # None =>
    /\ users[e].site \in sites \cup {None}
    /\ users[e].role = "restricted" => users[e].site # None
    /\ users[e].password \in {e, "operator", "nobody"}

ClaimsTrue ==
  /\ \A c \in sessions : Backs(users[c.user], c)
  /\ \A r \in Req : req[r].op = "issue" => Backs(users[req[r].claims.user], req[r].claims)

LEMMA RowsOwnStep ==
  ASSUME Typed, LinksOwn, RowsOwn, Next
  PROVE  RowsOwn'
<1>1. sites \subseteq sites'
  BY OthersStep
<1>. QED
  BY <1>1, UserStep DEF RowsOwn

LEMMA StaysTrue ==
  ASSUME Typed, LinksOwn, Next, NEW c \in Claims, Backs(users[c.user], c)
  PROVE  Backs(users'[c.user], c)
<1>1. c.user \in Email /\ c.user # "nobody"
  BY AccountsAssumption DEF Claims
<1>. QED
  BY <1>1, UserStep DEF Backs

(* Who is being let in, and on what.                                       *)
LEMMA Issuing ==
  ASSUME Typed, Next, NEW r \in Req, req'[r].op = "issue"
  PROVE  req'[r] = req[r] \/ (req'[r].claims \in Claims /\ Backs(users'[req'[r].claims.user], req'[r].claims))
<1>0. req \in [Req -> ReqType] /\ users \in [Email -> UserRow \cup {None}]
  BY DEF Typed, TypeOK
<1>1. ASSUME NEW s \in Req, Statement(s)
      PROVE  req'[r] = req[r] \/ (req'[r].claims \in Claims /\ Backs(users'[req'[r].claims.user], req'[r].claims))
  <2>1. CASE r = s /\ SignupUser(s)
    <3>. DEFINE e == req[s].user
                c == [user |-> e, role |-> "restricted", site |-> req[s].site]
                row == [role |-> "restricted", site |-> req[s].site, password |-> e, disabled |-> FALSE]
    <3>1. e \in Email /\ req[s].site \in Site /\ e # "nobody"
      BY <2>1, ReqFields, AccountsAssumption DEF SignupUser, Typed
    <3>2. req'[r] = [op |-> "issue", claims |-> c]
      BY <1>0, <2>1 DEF SignupUser, Becomes
    <3>3. users' = [users EXCEPT ![e] = row]
      BY <2>1 DEF SignupUser, CreateUser
    <3>4. row \in UserRow
      BY <3>1 DEF UserRow, Role
    <3>5. row # None /\ row.role = "restricted" /\ row.site = req[s].site /\ row.password = e
      BY <3>4, NoneIsNoRow
    <3>6. users'[e] = row
      BY <1>0, <3>1, <3>3
    <3>7. c \in Claims /\ c.user = e /\ c.role = "restricted" /\ c.site = req[s].site
      BY <3>1 DEF Claims, Role
    <3>. HIDE DEF row, c
    <3>8. Backs(users'[c.user], c)
      BY <3>1, <3>5, <3>6, <3>7 DEF Backs
    <3>. QED
      BY <3>2, <3>7, <3>8
  <2>2. CASE r # s
    BY <1>0, <1>1, <2>2 DEF Statement, InsertLink, Send, LinkFails, UpdateUserPassword, Mark, UseFails, Issue,
         SignupUser, SignupFails, SetSitePrimary, SetPrimaryFails, Ends, Becomes
  <2>3. CASE r = s /\ ~ SignupUser(s)
    <3>1. req'[r].op \in {"send", "mark", "idle"}
      <4>1. CASE UpdateUserPassword(s)
        <5>1. req[r] \in [op : {"password", "mark"}, row : DOMAIN links, by : Email]
          BY <4>1, <2>3, ReqFields DEF Typed, UpdateUserPassword, ReqType, Idle
        <5>. QED
          BY <1>0, <2>3, <4>1, <5>1 DEF UpdateUserPassword, Becomes
      <4>. QED
        BY <1>0, <1>1, <2>3, <4>1 DEF Statement, InsertLink, Send, LinkFails, Mark, UseFails, Issue,
             SignupFails, SetSitePrimary, SetPrimaryFails, Ends, Becomes, Idle
    <3>. QED
      BY <3>1
  <2>. QED
    BY <2>1, <2>2, <2>3
<1>2. ASSUME NEW s \in Req, Arrive(s)
      PROVE  req'[r] = req[r] \/ (req'[r].claims \in Claims /\ Backs(users'[req'[r].claims.user], req'[r].claims))
  <2>1. CASE r # s
    BY <1>0, <1>2, <2>1 DEF Arrive, Invite, RequestReset, Present, Authenticate, SignupSite, BeginSetPrimary,
         Begins, BeginsLogin, Becomes
  <2>2. CASE r = s
    <3>1. ASSUME NEW e \in Email, Authenticate(s, e)
          PROVE  req'[r].claims \in Claims /\ Backs(users'[req'[r].claims.user], req'[r].claims)
      <4>. DEFINE c == [user |-> e, role |-> users[e].role, site |-> users[e].site]
      <4>1. req'[r] = [op |-> "issue", claims |-> c]
        BY <1>0, <2>2, <3>1 DEF Authenticate, BeginsLogin, Becomes
      <4>2. users[e] \in UserRow /\ users[e].password # "nobody" /\ users' = users /\ users[e] # None
        BY <1>0, <3>1, AccountsAssumption DEF Authenticate, accounts
      <4>3. c \in Claims /\ c.user = e /\ c.role = users[e].role /\ c.site = users[e].site
        BY <4>2 DEF Claims, UserRow
      <4>. HIDE DEF c
      <4>. QED
        BY <4>1, <4>2, <4>3 DEF Backs
    <3>2. CASE \/ \E e \in Email, role \in Role, x \in Site \cup {None} : Invite(s, e, role, x)
               \/ \E e \in Email : RequestReset(s, e)
               \/ \E e \in Email, kind \in {"invite", "reset"}, t \in DOMAIN links : Present(s, e, kind, t)
               \/ \E e \in Email, x \in Site : SignupSite(s, e, x)
               \/ \E x \in Site : BeginSetPrimary(s, x)
      <4>1. req'[r].op \in {"link", "password", "signup", "primary"}
        BY <1>0, <2>2, <3>2 DEF Invite, RequestReset, Present, SignupSite, BeginSetPrimary, Begins
      <4>. QED
        BY <4>1
    <3>. QED
      BY <1>2, <3>1, <3>2 DEF Arrive
  <2>. QED
    BY <2>1, <2>2
<1>3. ASSUME \/ \E e \in Email, role \in Role, s \in Site \cup {None} : Create(e, role, s)
             \/ \E e \in Email, disabled \in BOOLEAN : SetDisabled(e, disabled)
             \/ \E t \in DOMAIN links : LinkExpires(t)
             \/ \E c \in sessions : SessionExpires(c)
             \/ \E s \in Site : CreateSite(s)
      PROVE  req'[r] = req[r]
  BY <1>3 DEF Create, SetDisabled, LinkExpires, SessionExpires, CreateSite
<1>. QED
  BY <1>1, <1>2, <1>3 DEF Next

LEMMA ClaimsTrueStep ==
  ASSUME Typed, LinksOwn, ClaimsTrue, Next
  PROVE  ClaimsTrue'
<1>1. ASSUME NEW r \in Req, req'[r].op = "issue"
      PROVE  Backs(users'[req'[r].claims.user], req'[r].claims)
  <2>1. CASE req'[r] = req[r]
    <3>1. req[r].claims \in Claims /\ Backs(users[req[r].claims.user], req[r].claims)
      BY <1>1, <2>1, ReqFields DEF Typed, ClaimsTrue
    <3>2. \A c \in Claims : Backs(users[c.user], c) => Backs(users'[c.user], c)
      BY StaysTrue
    <3>. QED
      BY <2>1, <3>1, <3>2 DEF Backs
  <2>. QED
    BY <1>1, <2>1, Issuing
<1>2. \A c \in sessions' : c \in Claims /\ Backs(users'[c.user], c)
  <2>1. \A c \in sessions : c \in Claims /\ Backs(users'[c.user], c)
    BY StaysTrue DEF Typed, TypeOK, ClaimsTrue
  <2>2. ASSUME NEW r \in Req, Issue(r)
        PROVE  \A c \in sessions' : c \in Claims /\ Backs(users'[c.user], c)
    <3>1. req[r].claims \in Claims /\ Backs(users[req[r].claims.user], req[r].claims)
      BY <2>2, ReqFields DEF Issue, Typed, ClaimsTrue
    <3>2. Backs(users[req[r].claims.user], req[r].claims) /\ users' = users
      BY <2>2, <3>1 DEF Issue
    <3>. QED
      BY <2>1, <2>2, <3>1, <3>2 DEF Issue, Backs
  <2>3. ASSUME NEW r \in Req, Statement(r)
        PROVE  Issue(r) \/ sessions' \subseteq sessions
    BY <2>3 DEF Statement, InsertLink, Send, Mark, LinkFails, UpdateUserPassword, UseFails,
         SignupUser, SignupFails, SetSitePrimary, SetPrimaryFails, accounts
  <2>4. (\E r \in Req : Statement(r)) \/ sessions' \subseteq sessions
    BY DEF Next, Arrive, Invite, RequestReset, Present, Authenticate, SignupSite, BeginSetPrimary, accounts,
         Create, SetDisabled, LinkExpires, SessionExpires, CreateSite
  <2>. QED
    BY <2>1, <2>2, <2>3, <2>4
<1>. QED
  BY <1>1, <1>2 DEF ClaimsTrue

(***************************************************************************)
(* The primary site.                                                       *)
(***************************************************************************)

LEMMA PrimaryStep ==
  ASSUME Typed, PrimaryAgrees, Next
  PROVE  PrimaryAgrees'
<1>0. req \in [Req -> ReqType]
  BY DEF Typed, TypeOK
<1>1. ASSUME NEW r \in Req, SetSitePrimary(r)
      PROVE  PrimaryAgrees'
  <2>1. req[r].site # None
    BY <1>1, ReqFields, AccountsAssumption DEF SetSitePrimary, Typed
  <2>. QED
    BY <1>1, <2>1 DEF SetSitePrimary, PrimaryAgrees
<1>2. ASSUME NEW r \in Req, SetPrimaryFails(r)
      PROVE  PrimaryAgrees'
  BY <1>2 DEF SetPrimaryFails, PrimaryAgrees
<1>3. ASSUME NEW r \in Req, NEW s \in Site, BeginSetPrimary(r, s)
      PROVE  PrimaryAgrees'
  <2>1. req'[r].op = "primary"
    BY <1>0, <1>3 DEF BeginSetPrimary, Begins
  <2>. QED
    BY <1>3, <2>1 DEF BeginSetPrimary, PrimaryAgrees
<1>4. ASSUME primary' = primary, chosen' = chosen, dropped' = dropped,
             \A r \in Req : req[r].op = "primary" => req'[r].op = "primary"
      PROVE  PrimaryAgrees'
  BY <1>4 DEF PrimaryAgrees
<1>5. ASSUME NEW r \in Req, Statement(r), ~ SetSitePrimary(r), ~ SetPrimaryFails(r)
      PROVE  PrimaryAgrees'
  <2>1. primary' = primary /\ chosen' = chosen /\ dropped' = dropped
    BY <1>5 DEF Statement, InsertLink, Send, LinkFails, UpdateUserPassword, Mark, UseFails, Issue,
         SignupUser, SignupFails, places
  <2>2. req[r].op # "primary"
    BY <1>5 DEF Statement, InsertLink, Send, LinkFails, UpdateUserPassword, Mark, UseFails, Issue,
         SignupUser, SignupFails
  <2>3. \A x \in Req \ {r} : req'[x] = req[x]
    BY <1>0, <1>5 DEF Statement, InsertLink, Send, LinkFails, UpdateUserPassword, Mark, UseFails, Issue,
         SignupUser, SignupFails, Ends, Becomes
  <2>. QED
    BY <1>4, <2>1, <2>2, <2>3
<1>6. ASSUME NEW r \in Req, Arrive(r), \A s \in Site : ~ BeginSetPrimary(r, s)
      PROVE  PrimaryAgrees'
  <2>1. primary' = primary /\ chosen' = chosen /\ dropped' = dropped
    BY <1>6 DEF Arrive, Invite, RequestReset, Present, Authenticate, SignupSite, places
  <2>2. req[r].op # "primary"
    <3>1. req[r] = Idle
      BY <1>6 DEF Arrive, Invite, RequestReset, Present, Authenticate, SignupSite, Begins, BeginsLogin
    <3>. QED
      BY <3>1 DEF Idle
  <2>3. \A x \in Req \ {r} : req'[x] = req[x]
    BY <1>0, <1>6 DEF Arrive, Invite, RequestReset, Present, Authenticate, SignupSite, Begins, BeginsLogin, Becomes
  <2>. QED
    BY <1>4, <2>1, <2>2, <2>3
<1>7. ASSUME \/ \E e \in Email, role \in Role, s \in Site \cup {None} : Create(e, role, s)
             \/ \E e \in Email, disabled \in BOOLEAN : SetDisabled(e, disabled)
             \/ \E t \in DOMAIN links : LinkExpires(t)
             \/ \E c \in sessions : SessionExpires(c)
             \/ \E s \in Site : CreateSite(s)
      PROVE  PrimaryAgrees'
  BY <1>4, <1>7 DEF Create, SetDisabled, LinkExpires, SessionExpires, CreateSite, places
<1>. QED
  BY <1>1, <1>2, <1>3, <1>5, <1>6, <1>7 DEF Next

(***************************************************************************)
(* Theorems.                                                               *)
(***************************************************************************)

IInv == Typed /\ LinksOwn /\ RowsOwn /\ ClaimsTrue /\ PrimaryAgrees

LEMMA InvInit == Init => IInv
<1>1. ASSUME Init PROVE LinksOwn /\ RowsOwn /\ ClaimsTrue /\ PrimaryAgrees
  <2>1. \A r \in Req : req[r].op = "idle"
    BY <1>1 DEF Init, Idle
  <2>. QED
    BY <1>1, <2>1 DEF Init, LinksOwn, RowsOwn, ClaimsTrue, PrimaryAgrees
<1>. QED
  BY <1>1, TypedInit DEF IInv

LEMMA InvStep == IInv /\ [Next]_vars => IInv'
<1>1. ASSUME IInv, UNCHANGED vars PROVE IInv'
  BY <1>1, TypedStep DEF IInv, vars, LinksOwn, RowsOwn, ClaimsTrue, Backs, PrimaryAgrees
<1>2. ASSUME IInv, Next PROVE IInv'
  BY <1>2, TypedStep, LinksOwnStep, RowsOwnStep, ClaimsTrueStep, PrimaryStep DEF IInv
<1>. QED
  BY <1>1, <1>2

THEOREM Invariance == Spec => []IInv
BY InvInit, InvStep, PTL DEF Spec, Safe

(* Users, sites, links and the requests on them are of their types, and    *)
(* whatever is sent by e-mail is about a user who has a row.               *)
THEOREM AccountsTypeCorrect == Spec => [](TypeOK /\ RowsThere)
<1>1. IInv => TypeOK /\ RowsThere
  BY DEF IInv, Typed
<1>. QED
  BY <1>1, Invariance, PTL

(* Nobody but an operator or the reader of a user's address gets to choose *)
(* the password, through any number of links, resets and failures.         *)
THEOREM PasswordsAreOwn == Spec => []PasswordIsOwn
<1>1. IInv => PasswordIsOwn
  BY DEF IInv, RowsOwn, ClaimsTrue, Backs, PasswordIsOwn
<1>. QED
  BY <1>1, Invariance, PTL

(* What the middleware and the handlers make of the claims of a restricted *)
(* user: the routes about the user's site, and nothing about another.      *)
LEMMA ScopedClaims ==
  ASSUME NEW c \in Claims, c.role = "restricted", c.site \in Site
  PROVE  /\ \A route \in SiteRoutes : Admits(route, c, c.site)
         /\ \A route \in Routes, target \in Site \cup {None} :
              Admits(route, c, target) => Reaches(route, c, target) = {c.site}
<1>1. c.site # None
  BY AccountsAssumption
<1>2. \A route \in SiteRoutes :
        route \notin OperatorRoutes /\ route \notin {"listSites", "listDevices", "listIngestionAudit"}
  BY DEF SiteRoutes, OperatorRoutes
<1>3. \A route \in ScopedRoutes : route \notin OperatorRoutes /\ route \notin SiteRoutes
  BY DEF ScopedRoutes, SiteRoutes, OperatorRoutes
<1>4. \A route \in SiteRoutes, target \in Site \cup {None} :
        Admits(route, c, target) <=> target # None /\ RequireSiteAccess(c, target)
  <2>1. \A route \in SiteRoutes : route \notin {"listDevices", "createExportJob", "getExportJob"}
    BY DEF SiteRoutes
  <2>. QED
    BY <1>2, <2>1 DEF Admits
<1>5. ASSUME NEW route \in SiteRoutes
      PROVE  Admits(route, c, c.site)
  BY <1>1, <1>4 DEF RequireSiteAccess, OwnSite
<1>6. ASSUME NEW route \in Routes, NEW target \in Site \cup {None}, Admits(route, c, target)
      PROVE  Reaches(route, c, target) = {c.site}
  <2>1. CASE route \in OperatorRoutes
    <3>1. route \notin SiteRoutes /\ route \notin ScopedRoutes
      BY <1>2, <1>3, <2>1
    <3>2. Admits(route, c, target) = RequireRole(c)
      BY <2>1, <3>1 DEF Admits, ScopedRoutes
    <3>. QED
      BY <1>6, <3>2 DEF RequireRole
  <2>2. CASE route \in SiteRoutes
    <3>1. target = c.site
      BY <1>4, <1>6, <2>2 DEF RequireSiteAccess, OwnSite
    <3>. QED
      BY <1>1, <1>2, <2>2, <3>1 DEF Reaches
  <2>3. CASE route \in ScopedRoutes
    <3>1. CASE route \in {"listSites", "listDevices", "listIngestionAudit"}
      BY <1>1, <3>1 DEF Reaches, SiteFilter
    <3>2. CASE route = "createExportJob"
      <4>1. target = c.site
        BY <1>3, <1>6, <2>3, <3>2 DEF Admits, CreateExportAllowed, OwnSite
      <4>. QED
        BY <1>1, <3>2, <4>1 DEF Reaches
    <3>3. CASE route = "getExportJob"
      <4>1. target = c.site
        BY <1>3, <1>6, <2>3, <3>3 DEF Admits, GetExportAllowed, OwnSite
      <4>. QED
        BY <1>1, <3>3, <4>1 DEF Reaches
    <3>. QED
      BY <2>3, <3>1, <3>2, <3>3 DEF ScopedRoutes
  <2>. QED
    BY <2>1, <2>2, <2>3 DEF Routes
<1>. QED
  BY <1>5, <1>6

(* A restricted user's token opens that user's site and no other, by any   *)
(* route, for as long as it lives.                                         *)
THEOREM RestrictedIsScoped == Spec => []RestrictedSeesOwnSite
<1>1. ASSUME IInv, NEW c \in sessions, users[c.user].role = "restricted"
      PROVE  /\ users[c.user].site \in sites
             /\ \A route \in SiteRoutes : Admits(route, c, users[c.user].site)
             /\ \A route \in Routes, target \in Site \cup {None} :
                  Admits(route, c, target) => Reaches(route, c, target) = {users[c.user].site}
  <2>1. c \in Claims /\ sites \subseteq Site /\ Backs(users[c.user], c)
    BY <1>1 DEF IInv, Typed, TypeOK, ClaimsTrue
  <2>2. c.user \in Email /\ c.role = "restricted" /\ c.site = users[c.user].site /\ c.site \in sites
    BY <1>1, <2>1 DEF Claims, Backs, IInv, RowsOwn
  <2>. QED
    BY <2>1, <2>2, ScopedClaims
<1>2. IInv => RestrictedSeesOwnSite
  BY <1>1 DEF RestrictedSeesOwnSite
<1>. QED
  BY <1>2, Invariance, PTL

(* However many calls race and fail, at most one site is the primary one,  *)
(* and it is the one that the latest successful call chose until one fails. *)
THEOREM OnePrimary == Spec => []PrimaryAgrees
<1>1. IInv => PrimaryAgrees
  BY DEF IInv
<1>. QED
  BY <1>1, Invariance, PTL
=============================================================================
