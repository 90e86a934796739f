------------------------------ MODULE Accounts ------------------------------
(***************************************************************************)
(* The accounts behind the members of Organizations: the users table, the  *)
(* session cookies that name its rows (server/routes/auth_handlers.go,     *)
(* auth_session.go), and the requests that bring a row up to date before   *)
(* they create, join or extend an organization (auth_user_sync.go,         *)
(* welcome.go, organizations.go).                                          *)
(*                                                                         *)
(* An account is found by its e-mail address; nicknames are unique too,    *)
(* but pass from one person to another at the provider.  A session holds   *)
(* the profile it was started with, for as long as a week, and may outlive *)
(* the database.  A request works on the copy of the session it came with. *)
(* An address the provider hides is one made of the nickname.              *)
(***************************************************************************)
EXTENDS Organizations

CONSTANTS
  Browsers,    \* each of them holds one cookie
  Emails,
  Nicknames,
  Profiles,    \* what the provider may say of whoever signs in
  DevLogins,   \* what may be typed at /auth/dev/login; empty when it is off
  MaxReplaced  \* bound: how often the database is replaced

Profile == [email : Emails, nickname : Nicknames]

ASSUME AccountAssumption ==
  /\ Profiles \cup DevLogins \subseteq Profile
  /\ IsFiniteSet(Emails)
  /\ Users = 1 .. Cardinality(Emails)
  /\ MaxReplaced \in Nat

VARIABLES
  users,     \* the rows of users: [id, profile]
  session,   \* session[b]: the account and the profile in b's cookie
  request,   \* request[c]: the HTTP request that makes the service call c
  replaced   \* how often the database has been replaced

accountVars == <<vars, users, session, request, replaced>>

NoSession == [id |-> 0]

\* asOf, history: the database that gave out or last confirmed the id.
Session == [id : Users, profile : Profile, asOf : 0 .. MaxReplaced]

NoRequest == [at |-> "none"]

\* The welcome page's forms, those of the organizations page, any other page.
Forms == {"create", "join", "new", "add", "page"}

Request ==
  [at : {"sync", "handle", "call"}, browser : Browsers, form : Forms, session : Session,
   saved : BOOLEAN, found : (Orgs \X Users) \cup {<<>>}]

AccountsType ==
  /\ TypeOK
  /\ users \subseteq [id : Users, profile : Profile]
  /\ session \in [Browsers -> Session \cup {NoSession}]
  /\ request \in [Calls -> Request \cup {NoRequest}]
  /\ replaced \in 0 .. MaxReplaced

AccountsInit ==
  /\ Init
  /\ users = {}
  /\ session = [b \in Browsers |-> NoSession]
  /\ request = [c \in Calls |-> NoRequest]
  /\ replaced = 0

-----------------------------------------------------------------------------
(* The users table.                                                        *)

HasEmail(row, email) == row.profile.email = email

\* Mutant: INSERT OR REPLACE drops the row that is in the way.
UpsertUser_Replaces(profile) ==
  users' = {row \in users : /\ ~HasEmail(row, profile.email)
                            /\ row.profile.nickname # profile.nickname}
             \cup {[id |-> Cardinality(users) + 1, profile |-> profile]}

\* UpsertUser updates the row of the address, or inserts one with a new id.  It
\* fails when another row has the nickname.
UpsertUser(profile) ==
  LET mine == {row \in users : HasEmail(row, profile.email)}
      id   == IF mine = {} THEN Cardinality(users) + 1 ELSE (CHOOSE row \in mine : TRUE).id
  IN
  /\ \A row \in users \ mine : row.profile.nickname # profile.nickname
  /\ users' = (users \ mine) \cup {[id |-> id, profile |-> profile]}

\* The row that UpsertUser returns.
Returned(profile) == CHOOSE row \in users' : row.profile = profile

\* The session of the account that UpsertUser has just confirmed.
NewSession(profile) == [id |-> Returned(profile).id, profile |-> profile, asOf |-> replaced]

\* GetUserByEmailOrNickname
Named(name) == {row \in users : HasEmail(row, name) \/ row.profile.nickname = name}

-----------------------------------------------------------------------------
(* Signing in and out.  Neither says anything to the requests under way.   *)

StartSession(b, profile) ==
  /\ UpsertUser(profile)
  /\ session' = [session EXCEPT ![b] = NewSession(profile)]
  /\ UNCHANGED <<vars, request, replaced>>

handleAuthCallback(b) == \E profile \in Profiles : StartSession(b, profile)

handleDevLogin(b) == \E profile \in DevLogins : StartSession(b, profile)

handleLogout(b) ==
  /\ session' = [session EXCEPT ![b] = NoSession]
  /\ UNCHANGED <<vars, users, request, replaced>>

-----------------------------------------------------------------------------
(* A request of somebody who is signed in.                                 *)

\* RequireAuth takes the user out of the cookie.
GetAuthUser(b) == session[b]

\* requireOrganizationMembership asks for an organization of the session's id,
\* which no one has compared with the table yet, and saves the session.
IsMember(id) == \E o \in Enabled : role[o][id] # "none"

Arrive(c, b, form) ==
  LET s == GetAuthUser(b) IN
  /\ request[c] = NoRequest
  /\ s # NoSession
  /\ form \in {"new", "add", "page"} => IsMember(s.id)
  /\ request' = [request EXCEPT ![c] =
       [at |-> IF form = "new" THEN "handle" ELSE "sync", browser |-> b, form |-> form,
        session |-> s, saved |-> form \in {"new", "add", "page"}, found |-> <<>>]]
  /\ UNCHANGED <<vars, users, session, replaced>>

\* The response goes out, with the cookie if the session was saved.
Respond(c, r) ==
  /\ request' = [request EXCEPT ![c] = NoRequest]
  /\ session' = IF r.saved THEN [session EXCEPT ![r.browser] = r.session] ELSE session
  /\ UNCHANGED <<users, replaced>>

\* Mutant: the handlers go on with the id they came with.
ensureAuthUserRecord_Forgets(c) ==
  LET r == request[c] IN
  /\ r.at = "sync"
  /\ UpsertUser(r.session.profile)
  /\ request' = [request EXCEPT ![c].at = "handle"]
  /\ UNCHANGED <<vars, session, replaced>>

\* ensureAuthUserRecord writes the session's profile back, however old it is,
\* and goes on with the id that the table has for it.
ensureAuthUserRecord(c) ==
  LET r == request[c]
      s == NewSession(r.session.profile)
  IN
  /\ r.at = "sync"
  /\ UpsertUser(r.session.profile)
  /\ request' = [request EXCEPT ![c] =
       [r EXCEPT !.at = "handle", !.session = s, !.saved = @ \/ s.id # r.session.id]]
  /\ UNCHANGED <<vars, session, replaced>>

\* The handler goes on with the service call; a failed statement ends it.
Continue(c) == request' = [request EXCEPT ![c].at = "call"]

\* handleWelcomeCreateOrganization, and handleOrganizationCreate, which has not
\* compared the id with the table.
CreateOrganization(c, o) ==
  LET r == request[c] IN
  /\ r.at = "handle"
  /\ r.form \in {"create", "new"}
  /\ InsertOrganization(c, o, r.session.id)
  /\ Continue(c)
  /\ UNCHANGED <<users, session, replaced>>

handleWelcomeJoinOrganization(c, o) ==
  LET r == request[c] IN
  /\ r.at = "handle"
  /\ r.form = "join"
  /\ LookupJoinCode(c, o, r.session.id)
  /\ Continue(c)
  /\ UNCHANGED <<users, session, replaced>>

\* handleOrganizationMemberAdd: an organization of the account is the active
\* one, the name is looked up,
LookupMember(c, o) ==
  LET r == request[c] IN
  /\ r.at = "handle"
  /\ r.form = "add"
  /\ r.found = <<>>
  /\ o \in Enabled
  /\ role[o][r.session.id] # "none"
  /\ \E name \in Emails \cup Nicknames : \E row \in Named(name) :
       request' = [request EXCEPT ![c].found = <<o, row.id>>]
  /\ UNCHANGED <<vars, users, session, replaced>>

\* and the account it belongs to becomes a member.
handleOrganizationMemberAdd(c) ==
  LET r == request[c] IN
  /\ r.at = "handle"
  /\ r.found # <<>>
  /\ \E newRole \in Roles : AddMember(c, r.found[1], r.found[2], newRole)
  /\ Continue(c)
  /\ UNCHANGED <<users, session, replaced>>

\* The statements that follow in the service.
ServiceCall(c) ==
  /\ GrantOwner(c) \/ RequestJoin(c)
  /\ UNCHANGED <<users, session, request, replaced>>

\* The handler returns.  An organization it has created is the active one now.
Answer(c) ==
  LET r == request[c] IN
  /\ r.at = "call"
  /\ Idle(c)
  /\ Respond(c, [r EXCEPT !.saved = @ \/ r.form = "create"])
  /\ UNCHANGED vars

\* A page is shown; or something fails: the upsert, because of a nickname; a
\* lookup; the middleware's organization is not one of the account's.
Leave(c) ==
  LET r == request[c] IN
  /\ r.at \in {"sync", "handle"}
  /\ Respond(c, r)
  /\ UNCHANGED vars

\* A statement fails, or the request is canceled, in the middle of the call.
Break(c) ==
  /\ Abort(c)
  /\ Respond(c, request[c])

\* The server is started over another, empty database file, which it creates;
\* the browsers keep their cookies: the case ensureAuthUserRecord compares the
\* ids for.
ReplaceDatabase ==
  /\ replaced < MaxReplaced
  /\ replaced' = replaced + 1
  /\ users' = {}
  /\ request' = [c \in Calls |-> NoRequest]
  /\ org' = [o \in Orgs |-> "unused"]
  /\ role' = [o \in Orgs |-> [u \in Users |-> "none"]]
  /\ join' = [o \in Orgs |-> [u \in Users |-> "none"]]
  /\ granted' = {}
  /\ call' = [c \in Calls |-> IdleCall]
  /\ UNCHANGED session

AccountsNext ==
  \/ \E b \in Browsers :
       \/ handleAuthCallback(b) \/ handleDevLogin(b) \/ handleLogout(b)
       \/ \E c \in Calls, form \in Forms : Arrive(c, b, form)
  \/ \E c \in Calls :
       \/ ensureAuthUserRecord(c) \/ handleOrganizationMemberAdd(c)
       \/ ServiceCall(c) \/ Answer(c) \/ Leave(c) \/ Break(c)
       \/ \E o \in Orgs :
            \/ CreateOrganization(c, o)
            \/ handleWelcomeJoinOrganization(c, o)
            \/ LookupMember(c, o)
  \/ ReplaceDatabase

AccountsSpec == AccountsInit /\ [][AccountsNext]_accountVars
-----------------------------------------------------------------------------
(* Properties.                                                             *)

Belongs(id, profile) == \E row \in users : row.id = id /\ HasEmail(row, profile.email)

Sessions == ({session[b] : b \in Browsers} \ {NoSession})
              \cup {request[c].session : c \in {d \in Calls : request[d] # NoRequest}}

\* A session names the row of its address for as long as the database is there,
\* whatever nicknames others sign in with, and whichever of a browser's
\* responses arrives last (queries.sql.go:2158, auth_user_sync.go:51).
SessionsNameTheirUser ==
  \A s \in Sessions : s.asOf = replaced => Belongs(s.id, s.profile)

\* Whoever fills in a form of the welcome page acts on the account of the
\* session's address, also when the session is older than the database and
\* somebody else has its id by now (welcome.go:62, :92).
WelcomeActsForItsUser ==
  \A c \in Calls :
    request[c].at = "call" /\ ~Idle(c) /\ request[c].form \in {"create", "join"} =>
      Belongs(call[c].user, request[c].session.profile)
=============================================================================
