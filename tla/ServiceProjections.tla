-------------------------- MODULE ServiceProjections --------------------------
(***************************************************************************)
(* The service projections of ddash: four tables that the append of an     *)
(* event keeps up to date in its own transaction (internal/db/store.go,    *)
(* appendEventWithProjections, and the Upsert statements of queries.sql),  *)
(* and that the projectionsync tool rebuilds from event_store, statement   *)
(* by statement, while the server goes on appending.                       *)
(*                                                                         *)
(* A row of event_store is [seq, event].  The tables service_env_state and *)
(* service_change_links hold columns that are functions of one such row,   *)
(* so they are modelled as the sets of the rows they were filled from.     *)
(***************************************************************************)
EXTENDS Integers, FiniteSets

CONSTANTS
  Orgs,         \* organizations
  Subjects,     \* CDEvents subject ids of services; that of another event is not read
  Names,        \* service names
  Envs,         \* environment ids, "unknown" among them
  Artifacts,    \* artifact ids; NoArtifact stands for the empty one
  NoArtifact,
  NoEnv,        \* the event names no environment
  NoName,       \* a blank service name
  SqlName,      \* SqlName[s]: what follows the first slash of s
  GoName,       \* GoName[s]: what follows the last slash of s
  Events,       \* the events that may be delivered
  DayLength,    \* milliseconds of a day
  Tools,        \* the runs of projectionsync
  ToolsMayDie,  \* may a run be killed, or time out on a lock?
  MaxSeq        \* bound on event_store.seq

\* "upgraded" stands for service.published too: no statement tells them apart.
Kinds == {"deployed", "upgraded", "rolledback", "removed", "other"}

Event == [org : Orgs, subject : Subjects, type : {"service", "change", "other"}, kind : Kinds,
          env : Envs \cup {NoEnv}, ts : Nat, artifact : Artifacts \cup {NoArtifact}]

ASSUME ProjectionAssumption ==
  /\ Events \subseteq Event
  /\ "unknown" \in Envs
  /\ SqlName \in [Subjects -> Names \cup {NoName}]
  /\ GoName \in [Subjects -> Names \cup {NoName}]
  /\ DayLength \in Nat \ {0}
  /\ ToolsMayDie \in BOOLEAN
  /\ MaxSeq \in Nat

VARIABLES
  store,      \* event_store: a set of [seq, event]
  lastSeq,    \* the last seq given out
  envState,   \* service_env_state
  current,    \* service_current_state
  daily,      \* service_delivery_stats_daily, by day key
  links,      \* service_change_links
  at,         \* at[t]: the statement run t executes next; 0 when it does not run
  report      \* report[t]: how the last execution of run t ended

tables == <<envState, current, daily, links>>
tool == <<at, report>>
vars == <<store, lastSeq, tables, tool>>

Row     == [seq : Nat, event : Event]
Current == [latest : Row, drift : Nat, failing : Nat]
DayKey  == [org : Orgs, name : Names \cup {NoName}, day : Nat]
Counts  == [success : Nat, failure : Nat, rollback : Nat]

Statements == 1..8

TypeOK ==
  /\ store \subseteq Row
  /\ lastSeq \in Nat
  /\ envState \subseteq Row
  /\ current \subseteq Current
  /\ DOMAIN daily \subseteq DayKey
  /\ \A k \in DOMAIN daily : daily[k] \in Counts
  /\ links \subseteq Row
  /\ at \in [Tools -> {0} \cup Statements]
  /\ report \in [Tools -> {"none", "done", "failed"}]

-----------------------------------------------------------------------------
(* What the statements compute.                                            *)

\* The subject id is cut at its first slash.
Service(row) == <<row.event.org, SqlName[row.event.subject]>>

\* A missing or blank environment id is stored as 'unknown'.
Environment(row) == IF row.event.env = NoEnv THEN "unknown" ELSE row.event.env

SamePlace(x, y) == Service(x) = Service(y) /\ Environment(x) = Environment(y)

\* The later timestamp wins, and the later sequence number between equals.
Newer(x, y) ==
  \/ x.event.ts > y.event.ts
  \/ x.event.ts = y.event.ts /\ x.seq > y.seq

\* Mutant: the row that arrives last wins.
UpsertEnv_LastWriter(E, row) ==
  {x \in E : ~SamePlace(x, row)} \cup {row}

\* INSERT ... ON CONFLICT DO UPDATE ... WHERE the new row is newer.
UpsertEnv(E, row) ==
  IF \E x \in E : SamePlace(x, row) /\ ~Newer(row, x)
  THEN E
  ELSE {x \in E : ~SamePlace(x, row)} \cup {row}

Failing(row) == row.event.kind \in {"rolledback", "removed"}

\* The row of service_current_state that a service's environments E give, as
\* a set: empty when there is no environment.
CurrentOf(E, service) ==
  LET mine == {x \in E : Service(x) = service}
  IN  {[latest  |-> x,
        drift   |-> Cardinality({y.event.artifact : y \in mine} \ {NoArtifact}),
        failing |-> Cardinality({y \in mine : Failing(y)})] :
         x \in {y \in mine : \A z \in mine : ~Newer(z, y)}}

\* Mutant: the row is replaced only when its latest event changes.
UpsertCurrent_OnlyNewer(C, E, service) ==
  LET new == CurrentOf(E, service)
  IN  IF new = {} \/ \E c \in C, d \in new : c.latest = d.latest THEN C
      ELSE {c \in C : Service(c.latest) # service} \cup new

\* INSERT ... SELECT ... LIMIT 1 ON CONFLICT DO UPDATE: nothing to select,
\* nothing to write.
UpsertCurrent(C, E, service) ==
  LET new == CurrentOf(E, service)
  IN  IF new = {} THEN C
      ELSE {c \in C : Service(c.latest) # service} \cup new

Day(row) ==
  [org |-> row.event.org, name |-> SqlName[row.event.subject],
   day |-> row.event.ts \div DayLength]

One(kind, kinds) == IF kind \in kinds THEN 1 ELSE 0

Tally(row) ==
  [success  |-> One(row.event.kind, {"deployed", "upgraded"}),
   failure  |-> One(row.event.kind, {"removed"}),
   rollback |-> One(row.event.kind, {"rolledback"})]

\* INSERT ... ON CONFLICT DO UPDATE SET count = count + excluded.count.
UpsertDaily(D, row) ==
  [k \in DOMAIN D \cup {Day(row)} |->
     IF k # Day(row) THEN D[k]
     ELSE IF k \notin DOMAIN D THEN Tally(row)
     ELSE [success  |-> D[k].success + Tally(row).success,
           failure  |-> D[k].failure + Tally(row).failure,
           rollback |-> D[k].rollback + Tally(row).rollback]]

\* INSERT ... ON CONFLICT DO NOTHING
UpsertLink(L, row) == L \cup {row}

-----------------------------------------------------------------------------
(* What the tables should hold, from event_store alone: these are also the *)
(* SELECTs of the rebuild.                                                 *)

ServiceRows(S) == {row \in S : row.event.type = "service"}

Latest(S) == {x \in S : \A y \in S : SamePlace(x, y) => ~Newer(y, x)}

CurrentRows(E) == UNION {CurrentOf(E, Service(x)) : x \in E}

DailyRows(S) ==
  [k \in {Day(x) : x \in S} |->
     LET mine == {x \in S : Day(x) = k} IN
     [success  |-> Cardinality({x \in mine : Tally(x).success = 1}),
      failure  |-> Cardinality({x \in mine : Tally(x).failure = 1}),
      rollback |-> Cardinality({x \in mine : Tally(x).rollback = 1})]]

-----------------------------------------------------------------------------

Init ==
  /\ store = {}
  /\ lastSeq = 0
  /\ envState = {}
  /\ current = {}
  /\ daily = [k \in {} |-> 0]
  /\ links = {}
  /\ at = [t \in Tools |-> 0]
  /\ report = [t \in Tools |-> "none"]

Stored(e) == \E row \in store : row.event = e

\* Mutant: the projections are updated before the conflict is noticed.
AppendDuplicate_Counts(e) ==
  /\ Stored(e)
  /\ lastSeq < MaxSeq
  /\ lastSeq' = lastSeq + 1
  /\ daily' = UpsertDaily(daily, [seq |-> lastSeq + 1, event |-> e])
  /\ UNCHANGED <<store, envState, current, links, tool>>

\* ON CONFLICT DO NOTHING returns no row: no projection is touched.
AppendDuplicate(e) ==
  /\ Stored(e)
  /\ lastSeq < MaxSeq
  /\ lastSeq' = lastSeq + 1
  /\ UNCHANGED <<store, tables, tool>>

\* An event that is not about a service goes to the store only.
AppendOther(e) ==
  /\ ~Stored(e)
  /\ e.type # "service"
  /\ lastSeq < MaxSeq
  /\ lastSeq' = lastSeq + 1
  /\ store' = store \cup {[seq |-> lastSeq + 1, event |-> e]}
  /\ UNCHANGED <<tables, tool>>

\* Mutant: the change link is written only when the current state is.
AppendService_LinkLast(e) ==
  LET row  == [seq |-> lastSeq + 1, event |-> e]
      name == GoName[e.subject]
  IN
  /\ ~Stored(e)
  /\ e.type = "service"
  /\ lastSeq < MaxSeq
  /\ lastSeq' = lastSeq + 1
  /\ store' = store \cup {row}
  /\ envState' = UpsertEnv(envState, row)
  /\ daily' = UpsertDaily(daily, row)
  /\ current' = UpsertCurrent(current, envState', <<e.org, name>>)
  /\ links' = IF current' = current THEN links ELSE links \cup {row}
  /\ UNCHANGED tool

\* One transaction stores a service event and updates the four tables; the
\* service whose current state is refreshed is named by the Go code, and a
\* blank name ends the transaction before that statement.
AppendService(e) ==
  LET row  == [seq |-> lastSeq + 1, event |-> e]
      name == GoName[e.subject]
  IN
  /\ ~Stored(e)
  /\ e.type = "service"
  /\ lastSeq < MaxSeq
  /\ lastSeq' = lastSeq + 1
  /\ store' = store \cup {row}
  /\ envState' = UpsertEnv(envState, row)
  /\ daily' = UpsertDaily(daily, row)
  /\ links' = UpsertLink(links, row)
  /\ current' = IF name = NoName THEN current
                ELSE UpsertCurrent(current, envState', <<e.org, name>>)
  /\ UNCHANGED tool

\* Mutant: the change links do not refer to the organization.
DeleteOrganization_KeepsLinks(o) ==
  /\ \E row \in store : row.event.org = o
  /\ store' = {row \in store : row.event.org # o}
  /\ envState' = {row \in envState : row.event.org # o}
  /\ current' = {c \in current : c.latest.event.org # o}
  /\ daily' = [k \in {j \in DOMAIN daily : j.org # o} |-> daily[k]]
  /\ UNCHANGED <<lastSeq, links, tool>>

\* Every table refers to the organization ON DELETE CASCADE.  An organization
\* without events is left alone: deleting it changes none of these tables.
DeleteOrganization(o) ==
  /\ \E row \in store : row.event.org = o
  /\ store' = {row \in store : row.event.org # o}
  /\ envState' = {row \in envState : row.event.org # o}
  /\ current' = {c \in current : c.latest.event.org # o}
  /\ daily' = [k \in {j \in DOMAIN daily : j.org # o} |-> daily[k]]
  /\ links' = {row \in links : row.event.org # o}
  /\ UNCHANGED <<lastSeq, tool>>

-----------------------------------------------------------------------------
(* projectionsync: each statement is a transaction of its own.             *)

StartRebuild(t) ==
  /\ at[t] = 0
  /\ at' = [at EXCEPT ![t] = 1]
  /\ report' = [report EXCEPT ![t] = "none"]
  /\ UNCHANGED <<store, lastSeq, tables>>

\* The four DELETEs.
Clear(t) ==
  /\ at[t] \in 1..4
  /\ current'  = IF at[t] = 1 THEN {} ELSE current
  /\ envState' = IF at[t] = 2 THEN {} ELSE envState
  /\ daily'    = IF at[t] = 3 THEN [k \in {} |-> 0] ELSE daily
  /\ links'    = IF at[t] = 4 THEN {} ELSE links
  /\ at' = [at EXCEPT ![t] = @ + 1]
  /\ UNCHANGED <<store, lastSeq, report>>

\* A plain INSERT fails on a primary key that is there already.
Conflict(n) ==
  CASE n = 5 -> \E x \in envState, y \in ServiceRows(store) : SamePlace(x, y)
    [] n = 6 -> \E c \in current, x \in envState : Service(c.latest) = Service(x)
    [] n = 7 -> \E x \in ServiceRows(store) : Day(x) \in DOMAIN daily
    [] n = 8 -> links \cap ServiceRows(store) # {}

\* Mutant: INSERT OR IGNORE keeps the rows that are there.
Refill_OrIgnore(t) ==
  /\ at[t] \in 5..8
  /\ envState' = IF at[t] = 5
                 THEN envState \cup {x \in Latest(ServiceRows(store)) :
                                       \A y \in envState : ~SamePlace(x, y)}
                 ELSE envState
  /\ current'  = IF at[t] = 6
                 THEN current \cup {c \in CurrentRows(envState) :
                                      \A d \in current : Service(c.latest) # Service(d.latest)}
                 ELSE current
  /\ daily'    = IF at[t] = 7
                 THEN [k \in DOMAIN daily \cup DOMAIN DailyRows(ServiceRows(store)) |->
                         IF k \in DOMAIN daily THEN daily[k]
                         ELSE DailyRows(ServiceRows(store))[k]]
                 ELSE daily
  /\ links'    = IF at[t] = 8 THEN links \cup ServiceRows(store) ELSE links
  /\ at' = [at EXCEPT ![t] = IF @ = 8 THEN 0 ELSE @ + 1]
  /\ report' = [report EXCEPT ![t] = IF at[t] = 8 THEN "done" ELSE @]
  /\ UNCHANGED <<store, lastSeq>>

\* The four INSERT ... SELECTs.
Refill(t) ==
  /\ at[t] \in 5..8
  /\ ~Conflict(at[t])
  /\ envState' = IF at[t] = 5 THEN envState \cup Latest(ServiceRows(store)) ELSE envState
  /\ current'  = IF at[t] = 6 THEN current \cup CurrentRows(envState) ELSE current
  /\ daily'    = IF at[t] = 7
                 THEN [k \in DOMAIN daily \cup DOMAIN DailyRows(ServiceRows(store)) |->
                         IF k \in DOMAIN daily THEN daily[k]
                         ELSE DailyRows(ServiceRows(store))[k]]
                 ELSE daily
  /\ links'    = IF at[t] = 8 THEN links \cup ServiceRows(store) ELSE links
  /\ at' = [at EXCEPT ![t] = IF @ = 8 THEN 0 ELSE @ + 1]
  /\ report' = [report EXCEPT ![t] = IF at[t] = 8 THEN "done" ELSE @]
  /\ UNCHANGED <<store, lastSeq>>

\* An INSERT hits a row that an append or another run has put there: the tool
\* ends with the error, and what it has deleted stays deleted.
RefillFails(t) ==
  /\ at[t] \in 5..8
  /\ Conflict(at[t])
  /\ at' = [at EXCEPT ![t] = 0]
  /\ report' = [report EXCEPT ![t] = "failed"]
  /\ UNCHANGED <<store, lastSeq, tables>>

\* The tool is killed between two statements, or a statement waits longer
\* than busy_timeout for the write lock.
Die(t) ==
  /\ ToolsMayDie
  /\ at[t] \in Statements
  /\ at' = [at EXCEPT ![t] = 0]
  /\ report' = [report EXCEPT ![t] = "failed"]
  /\ UNCHANGED <<store, lastSeq, tables>>

-----------------------------------------------------------------------------

AppendEventStore(e) == AppendDuplicate(e) \/ AppendOther(e) \/ AppendService(e)

Rebuild(t) == StartRebuild(t) \/ Clear(t) \/ Refill(t) \/ RefillFails(t) \/ Die(t)

Next ==
  \/ \E e \in Events : AppendEventStore(e)
  \/ \E o \in Orgs : DeleteOrganization(o)
  \/ \E t \in Tools : Rebuild(t)

Spec == Init /\ [][Next]_vars
-----------------------------------------------------------------------------
(* Properties.                                                             *)

\* The subject of a service has one slash at most and a name after it: the Go
\* code, which names the service whose current state is refreshed, and the SQL,
\* which names that of its environments, cut the same name from it.
PlainNames == \A s \in Subjects : SqlName[s] = GoName[s] /\ GoName[s] # NoName

NoRebuild == \A t \in Tools : at[t] = 0 /\ report[t] = "none"

\* However events are delivered, late, twice or with equal timestamps, each
\* environment of a service shows its latest service event.
EnvStateIsLatest == NoRebuild => envState = Latest(ServiceRows(store))

\* The current state of every service is that of its latest environment, with
\* drift and failures counted over all its environments as they now are.
CurrentStateIsLatest == NoRebuild => current = CurrentRows(envState)

\* The daily counters count every service event of the store once.
DailyCountsEvents == NoRebuild => daily = DailyRows(ServiceRows(store))

\* Every service event has its change link, and nothing else has one.
LinksMatchEvents == NoRebuild => links = ServiceRows(store)

Agree ==
  /\ envState = Latest(ServiceRows(store))
  /\ current = CurrentRows(envState)
  /\ daily = DailyRows(ServiceRows(store))
  /\ links = ServiceRows(store)

Alone(t) == \A u \in Tools \ {t} : at[u] = 0 /\ report[u] = "none"

\* A rebuild that reports "complete" has made the tables agree with the store,
\* whatever was appended or deleted while it ran, unless another run has worked
\* on them: two that overlap may undo each other and still report success.
CompletedRebuildAgrees ==
  [][\A t \in Tools :
       Alone(t) /\ at[t] = 8 /\ report'[t] = "done" => Agree']_vars

\* Whatever runs and fails, a projection never shows an event that is not in
\* the store, nor two rows for one place, service or event.
ProjectionsAreSound ==
  /\ envState \cup links \cup {c.latest : c \in current} \subseteq ServiceRows(store)
  /\ \A x, y \in envState : SamePlace(x, y) => x = y
  /\ \A c, d \in current : Service(c.latest) = Service(d.latest) => c = d
=============================================================================
