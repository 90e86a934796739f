---------------------------- MODULE Accounts_proofs ----------------------------
(***************************************************************************)
(* Theorems about Accounts, for any browsers, addresses, nicknames,        *)
(* requests and organizations.                                             *)
(*                                                                         *)
(* The users table keeps one row for an address and one for an id          *)
(* (UsersAreKeyed): that lets a session go on naming its row however often *)
(* rows are written (Keeps).  The requests need more: a form of the        *)
(* welcome page is handled only after the id was confirmed (SoundRequest). *)
(***************************************************************************)
EXTENDS Accounts, Organizations_proofs

\* The keys of the table, and where the next id comes from.
UsersAreKeyed ==
  /\ IsFiniteSet(users)
  /\ \A x \in users : x.id \in 1 .. Cardinality(users)
  /\ \A x, y \in users : HasEmail(x, y.profile.email) => x = y
  /\ \A x, y \in users : x.id = y.id => x = y

UserTypes == users \subseteq [id : Users, profile : Profile]

\* A session was not given out by a database to come, and one of this database
\* names the row of its address.
Sound(s) ==
  /\ s.asOf <= replaced
  /\ s.asOf = replaced => Belongs(s.id, s.profile)

SoundCookie(b) == session[b] # NoSession => Sound(session[b])

Welcome == {"create", "join"}

\* The handlers of the welcome page go on with an id the table has confirmed,
\* and only a request that has got this far has a call under way.
SoundRequest(c) ==
  /\ request[c] # NoRequest => Sound(request[c].session)
  /\ request[c].at = "handle" /\ request[c].form \in Welcome =>
       request[c].session.asOf = replaced
  /\ ~Idle(c) => request[c].at = "call"
  /\ ~Idle(c) /\ request[c].form \in Welcome =>
       Belongs(call[c].user, request[c].session.profile)

AccountsInv ==
  /\ AccountsType
  /\ UsersAreKeyed
  /\ \A b \in Browsers : SoundCookie(b)
  /\ \A c \in Calls : SoundRequest(c)

-----------------------------------------------------------------------------
(* The users table.                                                        *)

\* There are no more rows than addresses, so every id is in range.
LEMMA FewerUsersThanEmails ==
  ASSUME NEW S, IsFiniteSet(S), \A x \in S : x.profile.email \in Emails,
         \A x, y \in S : x.profile.email = y.profile.email => x = y
  PROVE  Cardinality(S) <= Cardinality(Emails)
<1> DEFINE f == [x \in S |-> x.profile.email]
<1>1. f \in Injection(S, Emails)
  BY DEF Injection, IsInjective
<1>2. IsFiniteSet(Emails)
  BY AccountAssumption
<1> QED BY <1>1, <1>2, FS_Injection

\* What an upsert of a profile leaves behind: a table that is still keyed, with
\* the row it returns, and with every row that was named by id and address.
Keeps(profile) ==
  /\ UsersAreKeyed'
  /\ UserTypes'
  /\ Returned(profile) \in users'
  /\ Returned(profile).profile = profile
  /\ \A i, p : Belongs(i, p) => Belongs(i, p)'

LEMMA UpsertKeeps ==
  ASSUME UserTypes, UsersAreKeyed, NEW profile \in Profile, UpsertUser(profile)
  PROVE  Keeps(profile)
<1> DEFINE mine == {row \in users : HasEmail(row, profile.email)}
           id   == IF mine = {} THEN Cardinality(users) + 1 ELSE (CHOOSE row \in mine : TRUE).id
           new  == [id |-> id, profile |-> profile]
           rest == users \ mine
<1>1. users' = rest \cup {new}
  BY DEF UpsertUser
<1>2. IsFiniteSet(users) /\ Cardinality(users) \in Nat
  BY FS_CardinalityType DEF UsersAreKeyed
<1>3. new.profile = profile /\ new.id = id
  OBVIOUS
<1>4. \A x \in rest : x.profile.email # profile.email
  BY DEF HasEmail
<1>5. /\ IsFiniteSet(users')
      /\ \A x \in users' : x.id \in 1 .. Cardinality(users')
      /\ \A x, y \in users' : x.id = y.id => x = y
      /\ \A i, p : Belongs(i, p) => Belongs(i, p)'
  <2>1. CASE mine = {}
    <3>1. id = Cardinality(users) + 1 /\ rest = users
      BY <2>1
    <3>2. new \notin users
      BY <1>3, <1>4, <3>1
    <3>3. IsFiniteSet(users') /\ Cardinality(users') = Cardinality(users) + 1
      <4>1. users' = users \cup {new}
        BY <1>1, <3>1
      <4> HIDE DEF new
      <4> QED BY <1>2, <3>2, <4>1, FS_AddElement
    <3>4. \A x \in users' : x.id \in 1 .. Cardinality(users')
      BY <1>1, <1>2, <1>3, <3>1, <3>3 DEF UsersAreKeyed
    <3>5. \A x, y \in users' : x.id = y.id => x = y
      <4>1. \A x \in users : x.id # new.id
        BY <1>2, <1>3, <3>1 DEF UsersAreKeyed
      <4> HIDE DEF new
      <4> QED BY <1>1, <3>1, <4>1 DEF UsersAreKeyed
    <3>6. \A i, p : Belongs(i, p) => Belongs(i, p)'
      BY <1>1, <3>1 DEF Belongs, HasEmail
    <3> QED BY <3>3, <3>4, <3>5, <3>6
  <2>2. CASE mine # {}
    <3>1. PICK m \in mine : id = m.id
      BY <2>2
    <3>2. mine = {m}
      BY <3>1 DEF UsersAreKeyed, HasEmail
    <3>3. rest = users \ {m} /\ m \in users
      BY <3>1, <3>2
    <3>4. IsFiniteSet(rest) /\ Cardinality(rest) = Cardinality(users) - 1
      BY <1>2, <3>3, FS_RemoveElement
    <3>5. new \notin rest
      BY <1>3, <1>4
    <3>6. IsFiniteSet(users') /\ Cardinality(users') = Cardinality(users)
      <4> HIDE DEF new, rest
      <4>1. IsFiniteSet(rest \cup {new}) /\ Cardinality(rest \cup {new}) = Cardinality(rest) + 1
        BY <3>4, <3>5, FS_AddElement
      <4> QED BY <1>1, <1>2, <3>4, <4>1
    <3>7. \A x \in users' : x.id \in 1 .. Cardinality(users')
      BY <1>1, <1>3, <3>1, <3>3, <3>6 DEF UsersAreKeyed
    <3>8. \A x, y \in users' : x.id = y.id => x = y
      <4>1. \A x \in rest : x.id # new.id
        BY <1>3, <3>1, <3>3 DEF UsersAreKeyed
      <4>2. \A x, y \in rest : x.id = y.id => x = y
        BY DEF UsersAreKeyed
      <4> HIDE DEF new, rest
      <4> QED BY <1>1, <4>1, <4>2
    <3>9. ASSUME NEW i, NEW p, Belongs(i, p) PROVE Belongs(i, p)'
      <4>1. PICK row \in users : row.id = i /\ HasEmail(row, p.email)
        BY <3>9 DEF Belongs
      <4>2. CASE row \in rest
        BY <1>1, <4>1, <4>2 DEF Belongs, HasEmail
      <4>3. CASE row = m
        <5>1. new.id = i /\ new.profile.email = p.email
          BY <1>3, <3>1, <4>1, <4>3 DEF HasEmail
        <5> HIDE DEF new
        <5> QED BY <1>1, <5>1 DEF Belongs, HasEmail
      <4> QED BY <3>3, <4>1, <4>2, <4>3
    <3> QED BY <3>6, <3>7, <3>8, <3>9
  <2> QED BY <2>1, <2>2
<1>6. \A x, y \in users' : HasEmail(x, y.profile.email) => x = y
  <2>1. \A x, y \in rest : HasEmail(x, y.profile.email) => x = y
    BY DEF UsersAreKeyed
  <2>2. \A x \in rest : ~HasEmail(x, new.profile.email) /\ ~HasEmail(new, x.profile.email)
    BY <1>3, <1>4 DEF HasEmail
  <2> HIDE DEF new, rest
  <2> QED BY <1>1, <2>1, <2>2
<1>7. UsersAreKeyed'
  BY <1>5, <1>6 DEF UsersAreKeyed, HasEmail
<1>8. UserTypes'
  <2>1. \A x \in users' : x.profile \in Profile
    BY <1>1, <1>3 DEF UserTypes
  <2>2. Cardinality(users') <= Cardinality(Emails)
    BY <1>7, <2>1, FewerUsersThanEmails DEF UsersAreKeyed, HasEmail, Profile
  <2>3. Cardinality(users') \in Nat /\ Cardinality(Emails) \in Nat
    BY <1>7, AccountAssumption, FS_CardinalityType DEF UsersAreKeyed
  <2>4. \A x \in users' : x.id \in Users
    BY <1>7, <2>2, <2>3, AccountAssumption DEF UsersAreKeyed
  <2>5. new \in [id : Users, profile : Profile]
    BY <1>1, <2>4
  <2>6. rest \subseteq [id : Users, profile : Profile]
    BY DEF UserTypes
  <2> HIDE DEF new, rest
  <2> QED BY <1>1, <2>5, <2>6 DEF UserTypes
<1>9. Returned(profile) \in users' /\ Returned(profile).profile = profile
  BY <1>1, <1>3 DEF Returned
<1> HIDE DEF mine, id, new, rest
<1> QED BY <1>5, <1>7, <1>8, <1>9 DEF Keeps

LEMMA UsersInit == AccountsInit => UserTypes /\ UsersAreKeyed
BY FS_EmptySet DEF AccountsInit, UserTypes, UsersAreKeyed

\* An empty table is keyed.
LEMMA EmptyTable == users' = {} => UserTypes' /\ UsersAreKeyed'
BY FS_EmptySet DEF UserTypes, UsersAreKeyed, HasEmail

-----------------------------------------------------------------------------
(* Type correctness.                                                       *)

\* What a request under way holds.
LEMMA RequestShape ==
  ASSUME AccountsType, NEW c \in Calls, request[c].at # "none"
  PROVE  /\ request[c] \in Request
         /\ request[c].session \in Session
         /\ request[c].session.id \in Users
         /\ request[c].session.profile \in Profile
         /\ request[c].browser \in Browsers
<1>1. request[c] \in Request
  BY DEF AccountsType, NoRequest
<1> QED BY <1>1 DEF Request, Session

\* The id that the upsert's callers go on with.
LEMMA ReturnedRow ==
  ASSUME NEW profile \in Profile, Keeps(profile)
  PROVE  \E i \in Users : i = Returned(profile).id /\ Belongs(i, profile)'
<1>1. Returned(profile) \in users' /\ Returned(profile).profile = profile
  BY DEF Keeps
<1>2. PICK row \in users' : row = Returned(profile)
  BY <1>1
<1>3. row.id \in Users
  BY <1>2 DEF Keeps, UserTypes
<1>4. Belongs(row.id, profile)'
  BY <1>1, <1>2 DEF Belongs, HasEmail
<1> QED BY <1>2, <1>3, <1>4

\* A session that is given out or confirmed now.
LEMMA FreshSession ==
  ASSUME AccountsType, NEW profile \in Profile, UpsertUser(profile), UsersAreKeyed,
         UNCHANGED replaced
  PROVE  /\ UserTypes' /\ UsersAreKeyed'
         /\ \A i, p : Belongs(i, p) => Belongs(i, p)'
         /\ \E s \in Session :
              /\ s = NewSession(profile)
              /\ Sound(s)'
<1>1. Keeps(profile)
  BY UpsertKeeps DEF AccountsType, UserTypes
<1>2. PICK i \in Users : i = Returned(profile).id /\ Belongs(i, profile)'
  BY <1>1, ReturnedRow
<1>3. PICK s \in Session : s = [id |-> i, profile |-> profile, asOf |-> replaced]
  BY DEF AccountsType, Session
<1>4. Sound(s)'
  BY <1>2, <1>3, AccountAssumption DEF Sound, AccountsType
<1> QED BY <1>1, <1>2, <1>3, <1>4 DEF Keeps, NewSession

\* What a request is while it is under way.
LEMMA RequestUpdate ==
  ASSUME AccountsType, NEW c \in Calls, NEW r \in Request \cup {NoRequest},
         request' = [request EXCEPT ![c] = r]
  PROVE  /\ request' \in [Calls -> Request \cup {NoRequest}]
         /\ request'[c] = r
         /\ \A d \in Calls \ {c} : request'[d] = request[d]
BY DEF AccountsType

\* A call is a step of Organizations or leaves its tables alone.
LEMMA CallsKeepTypes ==
  ASSUME AccountsType, [Next]_vars, users' \subseteq [id : Users, profile : Profile],
         session' \in [Browsers -> Session \cup {NoSession}],
         request' \in [Calls -> Request \cup {NoRequest}],
         replaced' \in 0 .. MaxReplaced
  PROVE  AccountsType'
<1>1. TypeOK'
  BY TypeStep DEF AccountsType
<1> QED BY <1>1 DEF AccountsType, Session, Request

-----------------------------------------------------------------------------
(* What a step leaves alone stays sound.                                   *)

Steady == replaced' = replaced /\ \A i, p : Belongs(i, p) => Belongs(i, p)'

LEMMA SteadyUsers == UNCHANGED <<users, replaced>> => Steady
BY DEF Steady, Belongs

LEMMA CookieStays ==
  ASSUME Steady, NEW b \in Browsers, SoundCookie(b), session'[b] = session[b]
  PROVE  SoundCookie(b)'
BY DEF Steady, SoundCookie, Sound

LEMMA RequestStays ==
  ASSUME Steady, NEW c \in Calls, SoundRequest(c), request'[c] = request[c],
         call'[c] = call[c]
  PROVE  SoundRequest(c)'
BY DEF Steady, SoundRequest, Sound, Idle

-----------------------------------------------------------------------------
(* One lemma for each kind of step.                                        *)

LEMMA SignInKeeps ==
  ASSUME AccountsInv, NEW b \in Browsers, NEW profile \in Profile, StartSession(b, profile)
  PROVE  AccountsInv'
<1>1. PICK s \in Session :
        /\ s = NewSession(profile)
        /\ Sound(s)'
  BY FreshSession DEF StartSession, AccountsInv
<1>2. UserTypes' /\ UsersAreKeyed' /\ Steady
  BY FreshSession DEF StartSession, AccountsInv, Steady
<1>3. session' = [session EXCEPT ![b] = s] /\ UNCHANGED <<vars, request, replaced>>
  BY <1>1 DEF StartSession
<1>4. AccountsType'
  BY <1>2, <1>3, CallsKeepTypes DEF AccountsInv, AccountsType, UserTypes
<1>5. ASSUME NEW a \in Browsers PROVE SoundCookie(a)'
  <2>1. CASE a = b
    BY <1>1, <1>3, <2>1 DEF AccountsInv, AccountsType, SoundCookie
  <2>2. CASE a # b
    BY <1>2, <1>3, <2>2, CookieStays DEF AccountsInv, AccountsType
  <2> QED BY <2>1, <2>2
<1>6. \A c \in Calls : SoundRequest(c)'
  BY <1>2, <1>3, RequestStays DEF AccountsInv, vars
<1> QED BY <1>2, <1>4, <1>5, <1>6 DEF AccountsInv

\* A cookie goes away or comes back from a response.
LEMMA CookieUpdate ==
  ASSUME AccountsInv, UNCHANGED <<users, replaced>>, NEW b \in Browsers,
         NEW s \in Session \cup {NoSession}, s # NoSession => Sound(s),
         session' = session \/ session' = [session EXCEPT ![b] = s]
  PROVE  /\ session' \in [Browsers -> Session \cup {NoSession}]
         /\ \A a \in Browsers : SoundCookie(a)'
<1>1. Steady
  BY SteadyUsers
<1>2. session' \in [Browsers -> Session \cup {NoSession}]
  BY DEF AccountsInv, AccountsType
<1>3. ASSUME NEW a \in Browsers PROVE SoundCookie(a)'
  <2>1. CASE session'[a] = session[a]
    BY <1>1, <2>1, CookieStays DEF AccountsInv
  <2>2. CASE session'[a] = s
    BY <1>1, <2>2 DEF SoundCookie, Sound, Steady
  <2> QED BY <2>1, <2>2 DEF AccountsInv, AccountsType
<1> QED BY <1>2, <1>3

LEMMA LogoutKeeps ==
  ASSUME AccountsInv, NEW b \in Browsers, handleLogout(b)
  PROVE  AccountsInv'
<1>1. /\ session' \in [Browsers -> Session \cup {NoSession}]
      /\ \A a \in Browsers : SoundCookie(a)'
  BY CookieUpdate DEF handleLogout
<1>2. \A c \in Calls : SoundRequest(c)'
  BY SteadyUsers, RequestStays DEF handleLogout, AccountsInv, vars
<1>3. AccountsType'
  BY <1>1, CallsKeepTypes DEF handleLogout, AccountsInv, AccountsType
<1> QED BY <1>1, <1>2, <1>3 DEF handleLogout, AccountsInv, UsersAreKeyed, HasEmail

\* A request goes from one step to the next, or a call of it does.
LEMMA RequestKeeps ==
  ASSUME AccountsInv, NEW c \in Calls, NEW r \in Request \cup {NoRequest},
         request' = [request EXCEPT ![c] = r],
         [Next]_vars, \A d \in Calls \ {c} : call'[d] = call[d],
         UserTypes', UsersAreKeyed', Steady,
         session' \in [Browsers -> Session \cup {NoSession}],
         \A b \in Browsers : SoundCookie(b)',
         SoundRequest(c)'
  PROVE  AccountsInv'
<1>1. /\ request' \in [Calls -> Request \cup {NoRequest}]
      /\ \A d \in Calls \ {c} : request'[d] = request[d]
  BY RequestUpdate DEF AccountsInv
<1>2. \A d \in Calls : SoundRequest(d)'
  BY <1>1, RequestStays DEF AccountsInv
<1>3. AccountsType'
  BY <1>1, CallsKeepTypes DEF AccountsInv, AccountsType, Steady, UserTypes
<1> QED BY <1>2, <1>3 DEF AccountsInv

\* The same when no row of users and no cookie is written.
LEMMA ReadKeeps ==
  ASSUME AccountsInv, NEW c \in Calls, NEW r \in Request \cup {NoRequest},
         request' = [request EXCEPT ![c] = r],
         [Next]_vars, \A d \in Calls \ {c} : call'[d] = call[d],
         UNCHANGED <<users, session, replaced>>,
         SoundRequest(c)'
  PROVE  AccountsInv'
<1>1. UserTypes' /\ UsersAreKeyed'
  BY DEF AccountsInv, AccountsType, UserTypes, UsersAreKeyed, HasEmail
<1>2. Steady
  BY SteadyUsers
<1>3. \A b \in Browsers : SoundCookie(b)'
  BY <1>2, CookieStays DEF AccountsInv
<1> QED BY <1>1, <1>2, <1>3, RequestKeeps DEF AccountsInv, AccountsType

LEMMA ArriveKeeps ==
  ASSUME AccountsInv, NEW c \in Calls, NEW b \in Browsers, NEW form \in Forms,
         Arrive(c, b, form)
  PROVE  AccountsInv'
<1> DEFINE r == [at |-> IF form = "new" THEN "handle" ELSE "sync", browser |-> b,
                 form |-> form, session |-> session[b],
                 saved |-> form \in {"new", "add", "page"}, found |-> <<>>]
<1>1. session[b] \in Session /\ Sound(session[b])
  BY DEF Arrive, GetAuthUser, AccountsInv, AccountsType, SoundCookie
<1>2. r \in Request
  BY <1>1 DEF Request
<1>3. request' = [request EXCEPT ![c] = r] /\ UNCHANGED <<vars, users, session, replaced>>
  BY DEF Arrive, GetAuthUser
<1>4. request'[c] = r
  BY <1>2, <1>3, RequestUpdate DEF AccountsInv
<1>5. Idle(c)'
  BY <1>3 DEF Arrive, AccountsInv, SoundRequest, NoRequest, Idle, vars
<1>6. Sound(session[b])'
  BY <1>1, <1>3, SteadyUsers DEF Sound, Steady
<1>7. SoundRequest(c)'
  BY <1>3, <1>4, <1>5, <1>6 DEF SoundRequest, Welcome
<1> HIDE DEF r
<1> QED BY <1>2, <1>3, <1>7, ReadKeeps DEF vars

LEMMA SyncKeeps ==
  ASSUME AccountsInv, NEW c \in Calls, ensureAuthUserRecord(c)
  PROVE  AccountsInv'
<1> DEFINE profile == request[c].session.profile
<1>1. request[c] \in Request /\ profile \in Profile /\ request[c].session \in Session
  BY RequestShape DEF ensureAuthUserRecord, AccountsInv
<1>2. UpsertUser(profile) /\ UNCHANGED <<vars, session, replaced>>
  BY DEF ensureAuthUserRecord
<1> HIDE DEF profile
<1>3. PICK s \in Session :
        /\ s = NewSession(profile)
        /\ Sound(s)'
  BY <1>1, <1>2, FreshSession DEF AccountsInv
<1>4. UserTypes' /\ UsersAreKeyed' /\ Steady
  BY <1>1, <1>2, FreshSession DEF AccountsInv, Steady
<1> DEFINE r == [request[c] EXCEPT !.at = "handle", !.session = s,
                   !.saved = @ \/ s.id # request[c].session.id]
<1>5. request' = [request EXCEPT ![c] = r]
  BY <1>3 DEF ensureAuthUserRecord, profile
<1>6. r \in Request /\ r.session = s /\ r.at = "handle"
  BY <1>1 DEF Request
<1>7. request'[c] = r
  BY <1>5, <1>6, RequestUpdate DEF AccountsInv
<1>8. Idle(c)'
  BY <1>2 DEF ensureAuthUserRecord, AccountsInv, SoundRequest, Idle, vars
<1>9. SoundRequest(c)'
  <2>1. s.asOf = replaced'
    BY <1>2, <1>3 DEF NewSession
  <2> HIDE DEF r
  <2> QED BY <1>3, <1>6, <1>7, <1>8, <2>1 DEF SoundRequest
<1>10. \A b \in Browsers : SoundCookie(b)'
  BY <1>2, <1>4, CookieStays DEF AccountsInv
<1> HIDE DEF r
<1> QED BY <1>2, <1>4, <1>5, <1>6, <1>9, <1>10, RequestKeeps DEF AccountsInv, AccountsType, vars

\* The handler begins a service call, or has made it in one statement.
LEMMA ContinueKeeps ==
  ASSUME AccountsInv, NEW c \in Calls, request[c].at = "handle", Continue(c),
         [Next]_vars, \A d \in Calls \ {c} : call'[d] = call[d],
         UNCHANGED <<users, session, replaced>>,
         Idle(c)' \/ call'[c].user = request[c].session.id
  PROVE  AccountsInv'
<1>1. request[c] \in Request /\ request[c].session \in Session
  BY RequestShape DEF AccountsInv
<1>2. PICK r \in Request :
        /\ request' = [request EXCEPT ![c] = r]
        /\ r.session = request[c].session /\ r.form = request[c].form /\ r.at = "call"
  <2> DEFINE q == [request[c] EXCEPT !.at = "call"]
  <2>1. /\ q \in Request
        /\ q.session = request[c].session /\ q.form = request[c].form /\ q.at = "call"
    BY <1>1 DEF Request
  <2>2. request' = [request EXCEPT ![c] = q]
    BY DEF Continue
  <2> HIDE DEF q
  <2> QED BY <2>1, <2>2
<1>3. request' = [request EXCEPT ![c] = r]
  BY <1>2
<1>4. request'[c] = r
  BY <1>2, <1>3, RequestUpdate DEF AccountsInv
<1>5. Sound(r.session) /\ (r.form \in Welcome => r.session.asOf = replaced)
  BY <1>1, <1>2 DEF AccountsInv, SoundRequest, NoRequest
<1>6. Sound(r.session)'
  BY <1>5, SteadyUsers DEF Sound, Steady
<1>7. r.form \in Welcome => Belongs(r.session.id, r.session.profile)'
  BY <1>5, <1>6 DEF Sound
<1>8. SoundRequest(c)'
  BY <1>2, <1>4, <1>6, <1>7 DEF SoundRequest
<1> QED BY <1>2, <1>3, <1>8, ReadKeeps

\* Only the call of this request goes on.
LEMMA CallUpdate ==
  ASSUME AccountsInv, NEW c \in Calls
  PROVE  \A new : call' = [call EXCEPT ![c] = new] =>
           call'[c] = new /\ \A d \in Calls \ {c} : call'[d] = call[d]
BY DEF AccountsInv, AccountsType, TypeOK

LEMMA HandlerKeeps ==
  ASSUME AccountsInv, NEW c \in Calls, NEW o \in Orgs,
         \/ CreateOrganization(c, o)
         \/ handleWelcomeJoinOrganization(c, o)
         \/ handleOrganizationMemberAdd(c)
  PROVE  AccountsInv'
<1>1. request[c].at = "handle" /\ Continue(c) /\ UNCHANGED <<users, session, replaced>>
  BY DEF CreateOrganization, handleWelcomeJoinOrganization, handleOrganizationMemberAdd
<1>2. request[c] \in Request /\ request[c].session.id \in Users
  BY <1>1, RequestShape DEF AccountsInv
<1>3. CASE CreateOrganization(c, o)
  <2>1. InsertOrganization(c, o, request[c].session.id)
    BY <1>3 DEF CreateOrganization
  <2>2. Next
    BY <1>2, <2>1 DEF Next
  <2>3. /\ call'[c].user = request[c].session.id
        /\ \A d \in Calls \ {c} : call'[d] = call[d]
    <3> DEFINE new == [at |-> "grant owner", org |-> o, user |-> request[c].session.id,
                       role |-> "owner", seen |-> {}]
    <3>1. call' = [call EXCEPT ![c] = new]
      BY <2>1 DEF InsertOrganization, Goto
    <3>2. new.user = request[c].session.id
      OBVIOUS
    <3> HIDE DEF new
    <3> QED BY <3>1, <3>2, CallUpdate
  <2> QED BY <1>1, <2>2, <2>3, ContinueKeeps
<1>4. CASE handleWelcomeJoinOrganization(c, o)
  <2>1. LookupJoinCode(c, o, request[c].session.id)
    BY <1>4 DEF handleWelcomeJoinOrganization
  <2>2. Next
    BY <1>2, <2>1 DEF Next
  <2>3. /\ call'[c].user = request[c].session.id
        /\ \A d \in Calls \ {c} : call'[d] = call[d]
    <3> DEFINE new == [at |-> "request", org |-> o, user |-> request[c].session.id,
                       role |-> "none", seen |-> {}]
    <3>1. call' = [call EXCEPT ![c] = new]
      BY <2>1 DEF LookupJoinCode, Goto
    <3>2. new.user = request[c].session.id
      OBVIOUS
    <3> HIDE DEF new
    <3> QED BY <3>1, <3>2, CallUpdate
  <2> QED BY <1>1, <2>2, <2>3, ContinueKeeps
<1>5. CASE handleOrganizationMemberAdd(c)
  <2>1. PICK newRole \in Roles : AddMember(c, request[c].found[1], request[c].found[2], newRole)
    BY <1>5 DEF handleOrganizationMemberAdd
  <2>2. request[c].found[1] \in Orgs /\ request[c].found[2] \in Users
    BY <1>2, <1>5 DEF handleOrganizationMemberAdd, Request
  <2>3. Next
    BY <2>1, <2>2 DEF Next
  <2>4. Idle(c)' /\ \A d \in Calls \ {c} : call'[d] = call[d]
    BY <2>1 DEF AddMember, Idle
  <2> QED BY <1>1, <2>3, <2>4, ContinueKeeps
<1> QED BY <1>3, <1>4, <1>5

LEMMA LookupKeeps ==
  ASSUME AccountsInv, NEW c \in Calls, NEW o \in Orgs, LookupMember(c, o)
  PROVE  AccountsInv'
<1>1. request[c] \in Request
  BY RequestShape DEF LookupMember, AccountsInv
<1>2. PICK row \in users : request' = [request EXCEPT ![c].found = <<o, row.id>>]
  BY DEF LookupMember, Named
<1>3. row.id \in Users
  BY DEF AccountsInv, AccountsType
<1>4. PICK r \in Request :
        /\ request' = [request EXCEPT ![c] = r]
        /\ r.session = request[c].session
        /\ r.form = request[c].form /\ r.at = request[c].at
  <2> DEFINE q == [request[c] EXCEPT !.found = <<o, row.id>>]
  <2>1. /\ q \in Request /\ q.session = request[c].session
        /\ q.form = request[c].form /\ q.at = request[c].at
    BY <1>1, <1>3 DEF Request
  <2>2. request' = [request EXCEPT ![c] = q]
    BY <1>2
  <2> HIDE DEF q
  <2> QED BY <2>1, <2>2
<1>5. request' = [request EXCEPT ![c] = r] /\ UNCHANGED <<vars, users, session, replaced>>
  BY <1>4 DEF LookupMember
<1>6. request'[c] = r
  BY <1>4, <1>5, RequestUpdate DEF AccountsInv
<1>7. r.form = "add" /\ Idle(c)' /\ Sound(r.session)
  BY <1>1, <1>4, <1>5 DEF LookupMember, AccountsInv, SoundRequest, Idle, NoRequest, vars
<1>8. Sound(r.session)'
  BY <1>5, <1>7, SteadyUsers DEF Sound, Steady
<1>9. SoundRequest(c)'
  BY <1>6, <1>7, <1>8 DEF SoundRequest, Welcome
<1> QED BY <1>4, <1>5, <1>9, ReadKeeps DEF vars

\* The last statement of a service call.
LEMMA ServiceKeeps ==
  ASSUME AccountsInv, NEW c \in Calls, ServiceCall(c)
  PROVE  AccountsInv'
<1>1. GrantOwner(c) \/ RequestJoin(c)
  BY DEF ServiceCall
<1>2. Next
  BY <1>1 DEF Next
<1>3. call'[c] = IdleCall /\ \A d \in Calls \ {c} : call'[d] = call[d]
  BY <1>1, CallUpdate DEF GrantOwner, RequestJoin, Return
<1>4. Idle(c)'
  BY <1>3 DEF Idle, IdleCall
<1>5. request' = [request EXCEPT ![c] = request[c]] /\ request[c] \in Request \cup {NoRequest}
  BY DEF ServiceCall, AccountsInv, AccountsType
<1>6. ~Idle(c)
  BY <1>1 DEF GrantOwner, RequestJoin, Idle
<1>7. SoundRequest(c)'
  BY <1>4, <1>6, SteadyUsers DEF ServiceCall, AccountsInv, SoundRequest, Sound, Steady
<1> QED BY <1>2, <1>3, <1>5, <1>7, ReadKeeps DEF ServiceCall

\* A response, whether the handler has come to its end or not.
LEMMA ResponseKeeps ==
  ASSUME AccountsInv, NEW c \in Calls, Answer(c) \/ Leave(c) \/ Break(c)
  PROVE  AccountsInv'
<1>1. request[c].at # "none"
  BY DEF Answer, Leave, Break, Abort, AccountsInv, SoundRequest
<1>2. request[c] \in Request /\ request[c].session \in Session /\ request[c].browser \in Browsers
  BY <1>1, RequestShape DEF AccountsInv
<1>3. Sound(request[c].session)
  BY <1>1 DEF AccountsInv, SoundRequest, NoRequest
<1>4. PICK r \in Request :
        /\ Respond(c, r)
        /\ r.session = request[c].session /\ r.browser = request[c].browser
  <2>1. CASE Answer(c)
    <3> DEFINE r == [request[c] EXCEPT !.saved = @ \/ request[c].form = "create"]
    <3>1. /\ r \in Request
          /\ r.session = request[c].session /\ r.browser = request[c].browser
      BY <1>2 DEF Request
    <3>2. Respond(c, r)
      BY <2>1 DEF Answer
    <3> QED BY <3>1, <3>2
  <2>2. CASE Leave(c) \/ Break(c)
    BY <1>2, <2>2 DEF Leave, Break
  <2> QED BY <2>1, <2>2
<1>5. request' = [request EXCEPT ![c] = NoRequest] /\ UNCHANGED <<users, replaced>>
  BY <1>4 DEF Respond
<1>6. /\ session' \in [Browsers -> Session \cup {NoSession}]
      /\ \A b \in Browsers : SoundCookie(b)'
  <2>1. \/ session' = session
        \/ session' = [session EXCEPT ![request[c].browser] = request[c].session]
    BY <1>4 DEF Respond
  <2> QED BY <1>2, <1>3, <1>5, <2>1, CookieUpdate
<1>7. [Next]_vars /\ Idle(c)' /\ \A d \in Calls \ {c} : call'[d] = call[d]
  <2>1. CASE Break(c)
    <3>1. Abort(c)
      BY <2>1 DEF Break
    <3>2. Next
      BY <3>1 DEF Next
    <3>3. call'[c] = IdleCall /\ \A d \in Calls \ {c} : call'[d] = call[d]
      BY <3>1, CallUpdate DEF Abort, Return
    <3> QED BY <3>2, <3>3 DEF Idle, IdleCall
  <2>2. CASE Answer(c) \/ Leave(c)
    BY <2>2 DEF Answer, Leave, AccountsInv, SoundRequest, Idle, vars
  <2> QED BY <2>1, <2>2
<1>8. SoundRequest(c)'
  <2>1. request'[c] = NoRequest
    BY <1>5 DEF AccountsInv, AccountsType
  <2> QED BY <1>7, <2>1 DEF SoundRequest, NoRequest
<1>9. UserTypes' /\ UsersAreKeyed' /\ Steady
  BY <1>5, SteadyUsers DEF AccountsInv, AccountsType, UserTypes, UsersAreKeyed, HasEmail
<1> QED BY <1>5, <1>6, <1>7, <1>8, <1>9, RequestKeeps

\* The cookies that are older than the database claim nothing.
LEMMA ReplaceKeeps ==
  ASSUME AccountsInv, ReplaceDatabase
  PROVE  AccountsInv'
<1>1. /\ users' = {} /\ request' = [c \in Calls |-> NoRequest] /\ session' = session
      /\ call' = [c \in Calls |-> IdleCall] /\ replaced' = replaced + 1
      /\ replaced < MaxReplaced /\ replaced \in 0 .. MaxReplaced
  BY DEF ReplaceDatabase, AccountsInv, AccountsType
<1>2. UsersAreKeyed'
  BY <1>1, EmptyTable
<1>3. TypeOK'
  BY DEF ReplaceDatabase, TypeOK, AnyCall
<1>4. AccountsType'
  BY <1>1, <1>3, AccountAssumption DEF AccountsInv, AccountsType, Session, Request
<1>5. ASSUME NEW b \in Browsers, session[b] # NoSession
      PROVE  Sound(session[b])'
  <2>1. session[b] \in Session /\ session[b].asOf <= replaced
    BY <1>5 DEF AccountsInv, AccountsType, SoundCookie, Sound
  <2>2. session[b].asOf \in 0 .. MaxReplaced
    BY <2>1 DEF Session
  <2>3. session'[b].asOf < replaced'
    BY <1>1, <2>1, <2>2, AccountAssumption
  <2> QED BY <1>1, <2>2, <2>3, AccountAssumption DEF Sound
<1>6. \A b \in Browsers : SoundCookie(b)'
  BY <1>1, <1>5 DEF SoundCookie
<1>7. \A c \in Calls : SoundRequest(c)'
  BY <1>1 DEF SoundRequest, NoRequest, Idle, IdleCall
<1> QED BY <1>2, <1>4, <1>6, <1>7 DEF AccountsInv

-----------------------------------------------------------------------------
(* The theorems.                                                           *)

LEMMA AccountsInvInit == AccountsInit => AccountsInv
<1> SUFFICES ASSUME AccountsInit PROVE AccountsInv
  OBVIOUS
<1>1. TypeOK /\ UserTypes /\ UsersAreKeyed
  BY TypeInit, UsersInit DEF AccountsInit
<1>2. AccountsType
  BY <1>1, AccountAssumption DEF AccountsInit, AccountsType, UserTypes
<1>3. \A b \in Browsers : SoundCookie(b)
  BY DEF AccountsInit, SoundCookie
<1>4. \A c \in Calls : SoundRequest(c)
  BY DEF AccountsInit, Init, SoundRequest, NoRequest, Idle, IdleCall
<1> QED BY <1>1, <1>2, <1>3, <1>4 DEF AccountsInv

LEMMA AccountsInvStep == AccountsInv /\ [AccountsNext]_accountVars => AccountsInv'
<1> SUFFICES ASSUME AccountsInv, [AccountsNext]_accountVars PROVE AccountsInv'
  OBVIOUS
<1>1. CASE UNCHANGED accountVars
  <2>1. UNCHANGED vars /\ UNCHANGED <<users, session, request, replaced>>
    BY <1>1 DEF accountVars
  <2>2. AccountsType'
    BY <2>1, CallsKeepTypes DEF AccountsInv, AccountsType
  <2>3. UsersAreKeyed'
    BY <2>1 DEF AccountsInv, UsersAreKeyed, HasEmail
  <2>4. \A b \in Browsers : SoundCookie(b)'
    BY <2>1, SteadyUsers, CookieStays DEF AccountsInv
  <2>5. \A c \in Calls : SoundRequest(c)'
    BY <2>1, SteadyUsers, RequestStays DEF AccountsInv, vars
  <2> QED BY <2>2, <2>3, <2>4, <2>5 DEF AccountsInv
<1>2. ASSUME NEW b \in Browsers, handleAuthCallback(b) \/ handleDevLogin(b)
      PROVE  AccountsInv'
  <2>1. PICK profile \in Profile : StartSession(b, profile)
    BY <1>2, AccountAssumption DEF handleAuthCallback, handleDevLogin
  <2> QED BY <2>1, SignInKeeps
<1>3. ASSUME NEW b \in Browsers,
             handleLogout(b) \/ \E c \in Calls, form \in Forms : Arrive(c, b, form)
      PROVE  AccountsInv'
  BY <1>3, LogoutKeeps, ArriveKeeps
<1>4. ASSUME NEW c \in Calls,
             ensureAuthUserRecord(c) \/ ServiceCall(c) \/ Answer(c) \/ Leave(c) \/ Break(c)
      PROVE  AccountsInv'
  BY <1>4, SyncKeeps, ServiceKeeps, ResponseKeeps
<1>5. ASSUME NEW c \in Calls, handleOrganizationMemberAdd(c)
      PROVE  AccountsInv'
  <2>1. request[c].at = "handle" /\ request[c].found # <<>>
    BY <1>5 DEF handleOrganizationMemberAdd
  <2>2. request[c].found[1] \in Orgs
    BY <2>1, RequestShape DEF AccountsInv, Request
  <2> QED BY <1>5, <2>2, HandlerKeeps
<1>6. ASSUME NEW c \in Calls, NEW o \in Orgs,
             \/ CreateOrganization(c, o)
             \/ handleWelcomeJoinOrganization(c, o)
             \/ LookupMember(c, o)
      PROVE  AccountsInv'
  BY <1>6, HandlerKeeps, LookupKeeps
<1>7. CASE AccountsNext
  BY <1>2, <1>3, <1>4, <1>5, <1>6, <1>7, ReplaceKeeps, Zenon DEF AccountsNext
<1> QED BY <1>1, <1>7

LEMMA AccountsInvHolds == AccountsSpec => []AccountsInv
BY AccountsInvInit, AccountsInvStep, PTL DEF AccountsSpec

\* Sessions, requests and rows are well formed; ids and organizations are in
\* range however sign-ins, requests and calls interleave.
THEOREM AccountTypes == AccountsSpec => []AccountsType
BY AccountsInvHolds, PTL DEF AccountsInv

\* No two accounts have an address or an id in common, whatever profiles are
\* written back by old sessions (queries.sql.go, UpsertUser).
THEOREM AccountsAreKeyed == AccountsSpec => []UsersAreKeyed
BY AccountsInvHolds, PTL DEF AccountsInv

\* A session goes on naming the row of its address (auth_handlers.go,
\* auth_user_sync.go).
THEOREM SessionsNameUsers == AccountsSpec => []SessionsNameTheirUser
<1>1. AccountsInv => SessionsNameTheirUser
  BY DEF AccountsInv, SoundCookie, SoundRequest, Sound, SessionsNameTheirUser, Sessions
<1> QED BY <1>1, AccountsInvHolds, PTL

\* The welcome page's forms act on the account of the session's address
\* (welcome.go).
THEOREM WelcomeActs == AccountsSpec => []WelcomeActsForItsUser
<1>1. AccountsInv => WelcomeActsForItsUser
  BY DEF AccountsInv, SoundRequest, WelcomeActsForItsUser, Welcome
<1> QED BY <1>1, AccountsInvHolds, PTL
=============================================================================
