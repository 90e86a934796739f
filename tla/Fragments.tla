------------------------------ MODULE Fragments ------------------------------
(***************************************************************************)
(* The fragments htmx asks for while a dashboard is open: the session      *)
(* names the active organization (server/routes/auth_session.go), the      *)
(* membership middleware checks it (view_routes.go), the fragment          *)
(* middleware answers from the cache or has the handler render and keeps   *)
(* what it wrote (htmx_fragment_middleware.go).                            *)
(*                                                                         *)
(* The session is a cookie: a request works on the copy it came with, and  *)
(* its response puts that copy back into the browser.  What a fragment     *)
(* shows is abstracted to its organization and to how long ago something   *)
(* it shows was written over.                                              *)
(***************************************************************************)
EXTENDS FragmentCache, FiniteSets

CONSTANTS
  Orgs,       \* organization ids, in the order of the organizations' names
  Users,      \* users that can log in
  Member,     \* Member[u]: the organizations that u is a member of
  Queries,    \* fragments together with their query strings
  Requests,   \* requests under way at a time, as a set of names
  RenderTime  \* ticks a handler may take; the code sets no limit

ASSUME FragmentAssumption ==
  /\ Orgs \subseteq Nat \ {0}
  /\ IsFiniteSet(Orgs)
  /\ Member \in [Users -> SUBSET Orgs]
  /\ RenderTime \in Nat

VARIABLES
  enabled,  \* the organizations that are enabled
  cookie,   \* cookie[u]: activeOrgID in u's browser, 0 for none
  request   \* request[r]: what r does next and what it has so far

fragmentVars == <<ll, entries, enabled, cookie, request>>

\* fragmentCacheKey: the fragment and its query, and the organization.
Key == [query : Queries, org : Orgs]

\* stale: how many ticks ago the first change came that it does not show, and
\* -1 while it shows everything.
Body == [org : Orgs, stale : {-1} \cup Nat]

NoRequest == [at |-> "idle"]

FragmentRequest ==
  {NoRequest}
    \cup [at : {"look up", "render"}, user : Users, key : Key]
    \cup [at : {"read"}, user : Users, key : Key, org : Orgs]
    \cup [at : {"store"}, user : Users, key : Key, body : Body, age : 0 .. RenderTime]

FragmentsType ==
  /\ ll \in Seq(Key)
  /\ entries \in [DOMAIN entries -> [body : Body, left : -1 .. TTL]]
  /\ enabled \subseteq Orgs
  /\ cookie \in [Users -> Orgs \cup {0}]
  /\ request \in [Requests -> FragmentRequest]

Init ==
  /\ CacheInit
  /\ enabled = Orgs
  /\ cookie = [u \in Users |-> 0]
  /\ request = [r \in Requests |-> NoRequest]

-----------------------------------------------------------------------------
(* The active organization.                                                *)

\* The memberships do not change.
ListOrganizationsByUser(u) == Member[u]

\* GetActiveOrDefaultOrganizationForUser, with the organizations in on enabled:
\* the one of the session if the user still may see it, else the first one of
\* the user's own, and 0 for ErrOrganizationMembershipRequired.
ActiveOrganization(u, active, on) ==
  LET mine == ListOrganizationsByUser(u) \cap on IN
  IF active \in mine THEN active
  ELSE IF mine # {} THEN CHOOSE o \in mine : \A p \in mine : o <= p
  ELSE 0

Active(u) == ActiveOrganization(u, cookie[u], enabled)

\* handleAuthCallback starts a session at the default organization, and
\* handleLogout ends it.
Login(u) ==
  /\ cookie' = [cookie EXCEPT ![u] = ActiveOrganization(u, 0, enabled)]
  /\ UNCHANGED <<cache, enabled, request>>

Logout(u) ==
  /\ cookie' = [cookie EXCEPT ![u] = 0]
  /\ UNCHANGED <<cache, enabled, request>>

\* handleOrganizationSwitch asks for an enabled organization, and for the user
\* to be a member of some organization, not of this one: the next request
\* falls back to the default.
Switch(u, o) ==
  /\ Active(u) # 0
  /\ o \in enabled
  /\ cookie' = [cookie EXCEPT ![u] = o]
  /\ UNCHANGED <<cache, enabled, request>>

\* handleOrganizationToggle: whoever disables the active organization goes on
\* in another one.
Enable(u, o) ==
  /\ Active(u) # 0
  /\ enabled' = enabled \cup {o}
  /\ cookie' = [cookie EXCEPT ![u] = Active(u)]
  /\ UNCHANGED <<cache, request>>

Disable(u, o) ==
  LET next == ActiveOrganization(u, Active(u), enabled \ {o}) IN
  /\ Active(u) # 0
  /\ o \in enabled
  /\ Cardinality(enabled) > 1
  /\ enabled' = enabled \ {o}
  /\ cookie' = [cookie EXCEPT ![u] = IF next # 0 THEN next ELSE Active(u)]
  /\ UNCHANGED <<cache, request>>

\* The settings page saves the active organization's enabled flag, and asks for
\* no other enabled one.
DisableInSettings(u) ==
  /\ Active(u) # 0
  /\ enabled' = enabled \ {Active(u)}
  /\ cookie' = [cookie EXCEPT ![u] = Active(u)]
  /\ UNCHANGED <<cache, request>>

-----------------------------------------------------------------------------
(* A request for a fragment.                                               *)

\* The response is sent: the browser's cookie is the request's again.
Respond(r, org) ==
  /\ cookie' = [cookie EXCEPT ![request[r].user] = org]
  /\ request' = [request EXCEPT ![r] = NoRequest]

Goto(r, next) == request' = [request EXCEPT ![r] = next]

\* requireOrganizationMembership resolves the organization, and the fragment
\* middleware makes the key of it.
Arrive(r, u, q) ==
  /\ request[r] = NoRequest
  /\ Active(u) # 0
  /\ Goto(r, [at |-> "look up", user |-> u, key |-> [query |-> q, org |-> Active(u)]])
  /\ UNCHANGED <<cache, enabled, cookie>>

\* Any other page, and a fragment that htmx did not ask for, bypasses the cache:
\* what stays of it is the organization in the cookie.
Browse(u) ==
  /\ Active(u) # 0
  /\ cookie' = [cookie EXCEPT ![u] = Active(u)]
  /\ UNCHANGED <<cache, enabled, request>>

Serve(r) ==
  /\ request[r].at = "look up"
  /\ Hit(request[r].key)
  /\ Respond(r, request[r].key.org)
  /\ UNCHANGED enabled

LookupFails(r) ==
  /\ request[r].at = "look up"
  /\ Miss(request[r].key)
  /\ Goto(r, [request[r] EXCEPT !.at = "render"])
  /\ UNCHANGED <<enabled, cookie>>

\* The handler asks again for the organization: currentOrganizationID.
ResolveOrganization(r) ==
  LET org == ActiveOrganization(request[r].user, request[r].key.org, enabled) IN
  /\ request[r].at = "render"
  /\ org # 0
  /\ Goto(r, [at |-> "read", user |-> request[r].user, key |-> request[r].key,
              org |-> org])
  /\ UNCHANGED <<cache, enabled, cookie>>

\* The handler reads what it shows.  Its later reads, of the settings, may find
\* newer rows; a fragment is as old as the first of its reads.
Read(r) ==
  /\ request[r].at = "read"
  /\ Goto(r, [at |-> "store", user |-> request[r].user, key |-> request[r].key,
              body |-> [org |-> request[r].org, stale |-> -1], age |-> 0])
  /\ UNCHANGED <<cache, enabled, cookie>>

\* The handler has written its page, and the middleware keeps a copy.
Finish(r) ==
  /\ request[r].at = "store"
  /\ Set(request[r].key, request[r].body)
  /\ Respond(r, request[r].body.org)
  /\ UNCHANGED enabled

\* A handler that fails stores nothing; its error response carries the cookie
\* as it was set last.
Fail(r) ==
  /\ \/ request[r].at = "render" /\ Respond(r, request[r].key.org)
     \/ request[r].at = "read"   /\ Respond(r, request[r].org)
     \/ request[r].at = "store"  /\ Respond(r, request[r].body.org)
  /\ UNCHANGED <<cache, enabled>>

-----------------------------------------------------------------------------
(* The database and the clock.                                             *)

Outdated(o, body) ==
  IF body.org = o /\ body.stale < 0 THEN [body EXCEPT !.stale = 0] ELSE body

Older(body) == IF body.stale < 0 THEN body ELSE [body EXCEPT !.stale = @ + 1]

InStore(r) == request[r].at = "store"

\* An event, settings, metadata: something the fragments of o show is written.
Change(o) ==
  /\ entries' = [k \in DOMAIN entries |->
       IF Expired(k) THEN entries[k] ELSE [entries[k] EXCEPT !.body = Outdated(o, @)]]
  /\ request' = [r \in Requests |->
       IF InStore(r) THEN [request[r] EXCEPT !.body = Outdated(o, @)] ELSE request[r]]
  /\ UNCHANGED <<ll, enabled, cookie>>

\* Time passes, for the entries that have not expired: the others are never
\* served again.
Tick ==
  /\ \A r \in Requests : InStore(r) => request[r].age < RenderTime
  /\ entries' = [k \in DOMAIN entries |->
       IF Expired(k) THEN entries[k]
       ELSE [body |-> Older(entries[k].body), left |-> entries[k].left - 1]]
  /\ request' = [r \in Requests |->
       IF InStore(r)
       THEN [request[r] EXCEPT !.body = Older(@), !.age = @ + 1]
       ELSE request[r]]
  /\ UNCHANGED <<ll, enabled, cookie>>

Next ==
  \/ \E u \in Users :
       \/ Login(u) \/ Logout(u) \/ Browse(u) \/ DisableInSettings(u)
       \/ \E o \in Orgs : Switch(u, o) \/ Enable(u, o) \/ Disable(u, o)
       \/ \E r \in Requests, q \in Queries : Arrive(r, u, q)
  \/ \E r \in Requests :
       \/ Serve(r) \/ LookupFails(r) \/ ResolveOrganization(r)
       \/ Read(r) \/ Finish(r) \/ Fail(r)
  \/ \E o \in Orgs : Change(o)
  \/ Tick

Spec == Init /\ [][Next]_fragmentVars

\* Handlers return, and the clock goes on.
Work(r) == Serve(r) \/ LookupFails(r) \/ ResolveOrganization(r) \/ Read(r) \/ Finish(r) \/ Fail(r)

FairSpec == Spec /\ WF_fragmentVars(Tick) /\ \A r \in Requests : WF_fragmentVars(Work(r))
-----------------------------------------------------------------------------
(* Properties.                                                             *)

\* A fragment from the cache is never behind for longer than the cache keeps an
\* entry and a handler takes to render: a hit does not prolong an entry, and a
\* slow handler that stores an old page over a newer one is bounded too.
FragmentsAreRecent ==
  \A k \in DOMAIN entries :
    ~Expired(k) => entries[k].body.stale <= TTL + RenderTime

\* Between the middleware and the handler an organization may be disabled: the
\* handler shows another one, under the key of the first.  Such a fragment does
\* not stay, nor does an outdated one: once no organization is disabled any more
\* and nothing is written, every fragment a request can find soon shows its own
\* organization as it is.
FragmentsSettle ==
  <>[][enabled \subseteq enabled' /\ \A o \in Orgs : ~Change(o)]_fragmentVars
    => <>[](\A k \in DOMAIN entries :
              Expired(k) \/ entries[k].body = [org |-> k.org, stale |-> -1])
=============================================================================
