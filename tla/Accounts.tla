------------------------------ MODULE Accounts ------------------------------
(***************************************************************************)
(* Who can sign in, and as whom (internal/registry users.go, invites.go,   *)
(* password_reset.go, signup.go, sites.go and the handlers that call them).*)
(* A user row is made by an operator with a password, by an invite, or by  *)
(* self-signup with a site of its own; links sent by e-mail let whoever    *)
(* reads that address set the password. A login issues a session token     *)
(* that is never looked up again until its 24 hours are over. The fleet's  *)
(* primary site is a flag on one of the site rows.                         *)
(*                                                                         *)
(* Every request is several statements, each a transaction of its own, and *)
(* any of them may fail. A user is named by the e-mail address, a link and *)
(* its token by the row, a password by who chose it: the reader of an      *)
(* address, an operator, or nobody (the random one of an invited user).    *)
(***************************************************************************)
EXTENDS Access, Naturals, Sequences

CONSTANTS
  Email,
  MaxLinks,   \* links that are ever sent
  Req,        \* requests under way at once
  OldSite,    \* sites there from the start
  MaxRequests, \* requests, logins apart, that come in over a run
  MaxFaults   \* statements and sends that fail

ASSUME AccountsAssumption ==
  /\ OldSite \subseteq Site
  /\ None \notin Site \cup Email
  /\ Email \cap {"operator", "nobody"} = {}
  /\ MaxLinks \in Nat /\ MaxRequests \in Nat /\ MaxFaults \in Nat

VARIABLES
  users,     \* table users: None where there is no row
  sites,     \* table sites
  primary,   \* the sites flagged is_primary
  chosen,    \* the site of the latest SetPrimary answered with success
  dropped,   \* whether a SetPrimary failed since
  links,     \* tables invites and password_reset_tokens, by row
  mailbox,   \* the tokens that have been delivered to each address
  sessions,  \* the claims of the session tokens that have not expired
  req,       \* the requests under way
  begun,     \* how many requests, logins apart, have come in
  faults     \* how many failures there were

vars == <<users, sites, primary, chosen, dropped, links, mailbox, sessions, req, begun, faults>>
accounts == <<users, links, mailbox, sessions>>
places == <<sites, primary, chosen, dropped>>

Role == {"operator", "restricted"}
Claims == [user : Email, role : Role, site : Site \cup {None}]
UserRow == [role : Role, site : Site \cup {None},
            password : Email \cup {"operator", "nobody"}, disabled : BOOLEAN]
Idle == [op |-> "idle"]

ASSUME NoneIsNoRow == None \notin UserRow

Init ==
  /\ users = [e \in Email |-> None]
  /\ sites = OldSite
  /\ primary = {}
  /\ chosen = None
  /\ dropped = FALSE
  /\ links = <<>>
  /\ mailbox = [e \in Email |-> {}]
  /\ sessions = {}
  /\ req = [r \in Req |-> Idle]
  /\ begun = 0
  /\ faults = 0

\* Statements and sends may fail: then the request ends where it is. If only
\* the answer is lost, what was done stays, which is as if the statement after
\* it had failed, but for SetPrimary's last.
Fault == faults < MaxFaults /\ faults' = faults + 1
NoFault == faults' = faults

\* Where request r goes on, where it ends, and how a new one begins; one of
\* a single statement is over at once.
Becomes(r, q) == req' = [req EXCEPT ![r] = q] /\ begun' = begun
Ends(r) == Becomes(r, Idle)
Arrives == begun < MaxRequests /\ begun' = begun + 1
Begins(r, q) ==
  /\ req[r] = Idle
  /\ Arrives
  /\ req' = [req EXCEPT ![r] = q]
\* Logins are not counted: they may go on for ever.
BeginsLogin(r, q) == req[r] = Idle /\ Becomes(r, q)

\* INSERT INTO users: the address is unique, the site must exist, and a
\* restricted user has one (restricted_requires_site); an operator may.
CreateUser(e, role, s, password) ==
  /\ users[e] = None
  /\ s \in sites \cup {None}
  /\ role = "restricted" => s # None
  /\ users' = [users EXCEPT ![e] = [role |-> role, site |-> s, password |-> password,
                                    disabled |-> FALSE]]

\* Users.Create
Create(e, role, s) ==
  /\ CreateUser(e, role, s, "operator")
  /\ Arrives
  /\ UNCHANGED <<places, links, mailbox, sessions, req, faults>>

\* SetDisabled; again what it is already changes nothing.
SetDisabled(e, disabled) ==
  /\ users[e] # None /\ users[e].disabled # disabled
  /\ users' = [users EXCEPT ![e].disabled = disabled]
  /\ Arrives
  /\ UNCHANGED <<places, links, mailbox, sessions, req, faults>>

(* Links *******************************************************************)

\* Invites.Create: the user's row, then the invite's, then the mail.
Invite(r, e, role, s) ==
  /\ CreateUser(e, role, s, "nobody")
  /\ Begins(r, [op |-> "link", kind |-> "invite", user |-> e])
  /\ UNCHANGED <<places, links, mailbox, sessions, faults>>

\* PasswordReset.Request: unknown and disabled users are sent nothing.
RequestReset(r, e) ==
  /\ users[e] # None /\ ~ users[e].disabled
  /\ Begins(r, [op |-> "link", kind |-> "reset", user |-> e])
  /\ UNCHANGED <<places, accounts, faults>>

\* CreateInvite, CreatePasswordResetToken. The token is random, unlike any other.
InsertLink(r) ==
  /\ req[r].op = "link" /\ Len(links) < MaxLinks
  /\ links' = Append(links, [kind |-> req[r].kind, user |-> req[r].user, live |-> TRUE])
  /\ Becomes(r, [op |-> "send", token |-> Len(links) + 1])
  /\ UNCHANGED <<places, users, mailbox, sessions, faults>>

Send(r) ==
  /\ req[r].op = "send"
  /\ LET e == links[req[r].token].user
     IN mailbox' = [mailbox EXCEPT ![e] = @ \cup {req[r].token}]
  /\ Ends(r)
  /\ UNCHANGED <<places, users, links, sessions, faults>>

\* An invite or a reset fails half-way: what was inserted stays. That the mail
\* of a reset failed is not told.
LinkFails(r) ==
  /\ req[r].op \in {"link", "send"}
  /\ Fault
  /\ Ends(r)
  /\ UNCHANGED <<places, accounts>>

\* expires_at passes.
LinkExpires(t) ==
  /\ links[t].live
  /\ links' = [links EXCEPT ![t].live = FALSE]
  /\ UNCHANGED <<places, users, mailbox, sessions, req, begun, faults>>

\* Mutant: the first active row is taken for the match.
MatchFirst(kind, t) == {m \in DOMAIN links : links[m].kind = kind /\ links[m].live}

\* ListActiveInvites, ListActivePasswordResetTokens and the comparison of t
\* with the hash of each row.
Match(kind, t) == {m \in DOMAIN links : links[m].kind = kind /\ links[m].live /\ m = t}

\* Invites.Accept and PasswordReset.Confirm begin: the reader of an address
\* presents a token that was mailed there.
Present(r, e, kind, t) ==
  /\ t \in mailbox[e]
  /\ \E m \in Match(kind, t) :
       Begins(r, [op |-> "password", row |-> m, by |-> e])
  /\ UNCHANGED <<places, accounts, faults>>

UpdateUserPassword(r) ==
  /\ req[r].op = "password"
  /\ users' = [users EXCEPT ![links[req[r].row].user].password = req[r].by]
  /\ Becomes(r, [req[r] EXCEPT !.op = "mark"])
  /\ UNCHANGED <<places, links, mailbox, sessions, faults>>

\* MarkInviteAccepted, MarkPasswordResetTokenUsed. A use that had found the
\* link active before goes on all the same.
Mark(r) ==
  /\ req[r].op = "mark"
  /\ links' = [links EXCEPT ![req[r].row].live = FALSE]
  /\ Ends(r)
  /\ UNCHANGED <<places, users, mailbox, sessions, faults>>

UseFails(r) ==
  /\ req[r].op \in {"password", "mark"}
  /\ Fault
  /\ Ends(r)
  /\ UNCHANGED <<places, accounts>>

(* Sessions ****************************************************************)

\* Mutant: a disabled user may log in.
AuthenticateAnyone(r, e) ==
  /\ users[e] # None
  /\ users[e].password \in {e, "operator"}
  /\ BeginsLogin(r, [op |-> "issue",
                      claims |-> [user |-> e, role |-> users[e].role, site |-> users[e].site]])
  /\ UNCHANGED <<places, accounts, faults>>

\* The reader of an address knows what they or an operator chose for it.
Authenticate(r, e) ==
  /\ users[e] # None /\ ~ users[e].disabled
  /\ users[e].password \in {e, "operator"}
  /\ BeginsLogin(r, [op |-> "issue",
                      claims |-> [user |-> e, role |-> users[e].role, site |-> users[e].site]])
  /\ UNCHANGED <<places, accounts, faults>>

Issue(r) ==
  /\ req[r].op = "issue"
  /\ sessions' = sessions \cup {req[r].claims}
  /\ Ends(r)
  /\ UNCHANGED <<places, users, links, mailbox, faults>>

SessionExpires(c) ==
  /\ sessions' = sessions \ {c}
  /\ UNCHANGED <<places, users, links, mailbox, req, begun, faults>>

\* Sites.Create
CreateSite(s) ==
  /\ s \notin sites
  /\ sites' = sites \cup {s}
  /\ Arrives
  /\ UNCHANGED <<accounts, primary, chosen, dropped, req, faults>>

\* SelfSignup: a site with a new id, then its user.
SignupSite(r, e, s) ==
  /\ s \notin sites
  /\ sites' = sites \cup {s}
  /\ Begins(r, [op |-> "signup", user |-> e, site |-> s])
  /\ UNCHANGED <<accounts, primary, chosen, dropped, faults>>

\* Mutant: the session is issued without the site.
SignupUserNoSite(r) ==
  /\ req[r].op = "signup"
  /\ CreateUser(req[r].user, "restricted", req[r].site, req[r].user)
  /\ Becomes(r, [op |-> "issue",
                 claims |-> [user |-> req[r].user, role |-> "restricted", site |-> None]])
  /\ UNCHANGED <<places, links, mailbox, sessions, faults>>

SignupUser(r) ==
  /\ req[r].op = "signup"
  /\ CreateUser(req[r].user, "restricted", req[r].site, req[r].user)
  /\ Becomes(r, [op |-> "issue",
                 claims |-> [user |-> req[r].user, role |-> "restricted", site |-> req[r].site]])
  /\ UNCHANGED <<places, links, mailbox, sessions, faults>>

\* The address is taken, or the statement fails: the site stays, without a user.
SignupFails(r) ==
  /\ req[r].op = "signup"
  /\ IF users[req[r].user] # None THEN NoFault ELSE Fault
  /\ Ends(r)
  /\ UNCHANGED <<places, accounts>>

(* The primary site ********************************************************)

\* UnsetAllPrimarySites
BeginSetPrimary(r, s) ==
  /\ primary' = {}
  /\ Begins(r, [op |-> "primary", site |-> s])
  /\ UNCHANGED <<accounts, sites, chosen, dropped, faults>>

\* Mutant: without the unique index.
SetSitePrimaryAnyway(r) ==
  /\ req[r].op = "primary"
  /\ req[r].site \in sites
  /\ primary' = primary \cup {req[r].site}
  /\ \/ chosen' = req[r].site /\ dropped' = FALSE /\ NoFault
     \/ chosen' = chosen /\ dropped' = TRUE /\ Fault
  /\ Ends(r)
  /\ UNCHANGED <<accounts, sites>>

\* The unique index lets at most one row have the flag.
SetSitePrimary(r) ==
  /\ req[r].op = "primary"
  /\ req[r].site \in sites /\ primary \subseteq {req[r].site}
  /\ primary' = {req[r].site}
  /\ \/ chosen' = req[r].site /\ dropped' = FALSE /\ NoFault
     \/ chosen' = chosen /\ dropped' = TRUE /\ Fault      \* the answer is lost
  /\ Ends(r)
  /\ UNCHANGED <<accounts, sites>>

\* There is no such site, another call set its own first, or the statement
\* fails: no rollback, the flag that was there stays cleared.
SetPrimaryFails(r) ==
  /\ req[r].op = "primary"
  /\ IF req[r].site \in sites /\ primary \subseteq {req[r].site} THEN Fault ELSE NoFault
  /\ dropped' = TRUE
  /\ Ends(r)
  /\ UNCHANGED <<accounts, sites, primary, chosen>>

Statement(r) ==
  \/ InsertLink(r) \/ Send(r) \/ LinkFails(r)
  \/ UpdateUserPassword(r) \/ Mark(r) \/ UseFails(r)
  \/ Issue(r)
  \/ SignupUser(r) \/ SignupFails(r)
  \/ SetSitePrimary(r) \/ SetPrimaryFails(r)

Arrive(r) ==
  \/ \E e \in Email :
       \/ \E role \in Role, s \in Site \cup {None} : Invite(r, e, role, s)
       \/ RequestReset(r, e)
       \/ \E kind \in {"invite", "reset"}, t \in DOMAIN links : Present(r, e, kind, t)
       \/ Authenticate(r, e)
       \/ \E s \in Site : SignupSite(r, e, s)
  \/ \E s \in Site : BeginSetPrimary(r, s)

Next ==
  \/ \E r \in Req : Statement(r) \/ Arrive(r)
  \/ \E e \in Email, role \in Role, s \in Site \cup {None} : Create(e, role, s)
  \/ \E e \in Email, disabled \in BOOLEAN : SetDisabled(e, disabled)
  \/ \E t \in DOMAIN links : LinkExpires(t)
  \/ \E c \in sessions : SessionExpires(c)
  \/ \E s \in Site : CreateSite(s)

Safe == Init /\ [][Next]_vars

\* Every statement returns, and a session token's 24 hours pass.
Spec ==
  /\ Safe
  /\ \A r \in Req : WF_vars(Statement(r))
  /\ \A e \in Email : WF_vars(\E c \in sessions : c.user = e /\ SessionExpires(c))

(* Properties **************************************************************)

ReqType ==
  {Idle}
  \cup [op : {"link"}, kind : {"invite", "reset"}, user : Email]
  \cup [op : {"send"}, token : DOMAIN links]
  \cup [op : {"password", "mark"}, row : DOMAIN links, by : Email]
  \cup [op : {"issue"}, claims : Claims]
  \cup [op : {"signup"}, user : Email, site : Site]
  \cup [op : {"primary"}, site : Site]

TypeOK ==
  /\ users \in [Email -> UserRow \cup {None}]
  /\ sites \subseteq Site /\ primary \subseteq sites
  /\ chosen \in Site \cup {None} /\ dropped \in BOOLEAN
  /\ links \in Seq([kind : {"invite", "reset"}, user : Email, live : BOOLEAN])
  /\ Len(links) <= MaxLinks
  /\ mailbox \in [Email -> SUBSET DOMAIN links]
  /\ sessions \subseteq Claims
  /\ req \in [Req -> ReqType]
  /\ begun \in 0 .. MaxRequests /\ faults \in 0 .. MaxFaults

\* A user's password is one that an operator gave, or that the reader of the
\* user's own address chose, and nobody gets in on the one nobody knows.
PasswordIsOwn ==
  /\ \A e \in Email : users[e] # None => users[e].password \in {e, "operator", "nobody"}
  /\ \A c \in sessions : users[c.user] # None /\ users[c.user].password # "nobody"

\* A session of a restricted user is admitted to that user's site and to
\* nothing beyond it, by any route.
RestrictedSeesOwnSite ==
  \A c \in sessions : users[c.user].role = "restricted" =>
    /\ users[c.user].site \in sites
    /\ \A route \in SiteRoutes : Admits(route, c, users[c.user].site)
    /\ \A route \in Routes, target \in Site \cup {None} :
         Admits(route, c, target) => Reaches(route, c, target) = {users[c.user].site}

\* At most one site is primary. It is the one of the latest call that was
\* answered with success, unless one has failed since, and it is missing only
\* while another call is under way.
PrimaryAgrees ==
  /\ \A s, t \in primary : s = t
  /\ ~ dropped => primary \subseteq {chosen}
  /\ ~ dropped /\ (\A r \in Req : req[r].op # "primary") => primary = {chosen} \ {None}

\* A user who stays disabled is out in the end, logins under way included.
DisabledRunsOut ==
  \A e \in Email :
    <>[](users[e] # None /\ users[e].disabled) => <>[](\A c \in sessions : c.user # e)
=============================================================================
