---------------------------- MODULE EventBackfill ----------------------------
(***************************************************************************)
(* The eventbackfill tool (apps/eventbackfill/main.go) turns the rows of   *)
(* the old deployments table into events and appends them one by one,      *)
(* while the server appends its own: most of them come late.  It is run by *)
(* hand, again after it was stopped, perhaps twice at a time.              *)
(*                                                                         *)
(* The database has an organization: the tool's creation of one in an      *)
(* empty database is left out, and so is a dry run, which writes nothing.  *)
(* Every run has the same -source.                                         *)
(***************************************************************************)
EXTENDS ServiceProjections, SequencesExt

CONSTANTS
  OrgIds,      \* the organizations in the order of their ids
  Deployments, \* the rows of the old table in the order of their ids:
               \* [subject, env, status, deployedAt, artifact]
  Times,       \* the times at which the tool may be run
  Backfills    \* the runs of the tool

Unparsed == -1 \* deployedAt holds no time

ASSUME BackfillAssumption ==
  /\ OrgIds \in Seq(Orgs) /\ ToSet(OrgIds) = Orgs
  /\ Times \subseteq Nat
  /\ \A i \in DOMAIN Deployments :
       /\ Deployments[i].subject \in Subjects
       /\ Deployments[i].env \in Envs
       /\ Deployments[i].artifact \in Artifacts
       /\ Deployments[i].deployedAt \in Nat \cup {Unparsed}

VARIABLES
  deleted,  \* the organizations that are gone
  backfill  \* backfill[b]: the run's organization, the row that is next, and
            \* the rows it has reported as written

backfillVars == <<vars, deleted, backfill>>

Stopped == [running |-> FALSE]

Present == Orgs \ deleted

BackfillInit ==
  /\ Init
  /\ deleted = {}
  /\ backfill = [b \in Backfills |-> Stopped]

-----------------------------------------------------------------------------
(* The tool.                                                               *)

\* GetDefaultOrganization: the one with the lowest id.
DefaultOrganization ==
  LET first == CHOOSE i \in DOMAIN OrgIds :
                 /\ OrgIds[i] \in Present
                 /\ \A j \in 1 .. i - 1 : OrgIds[j] \notin Present
  IN  OrgIds[first]

\* What the tool goes through: the old tables have no writer any more.
ListLegacyDeploymentsForBackfill == DOMAIN Deployments

\* Whatever was not an error is backfilled as a deployment, one that was still
\* queued or processing too.
serviceEventForStatus(status) == IF status = "error" THEN "rolledback" ELSE "deployed"

\* A time that cannot be parsed is the time of the run.
parseTimestamp(deployedAt) == IF deployedAt = Unparsed THEN Times ELSE {deployedAt}

\* The events that the row may become.
BackfillEvents(o, i) ==
  LET d == Deployments[i] IN
  {[org |-> o, subject |-> d.subject, type |-> "service",
    kind |-> serviceEventForStatus(d.status), env |-> d.env, ts |-> ts,
    artifact |-> d.artifact] : ts \in parseTimestamp(d.deployedAt)}

\* Events have no ids here: what they hold tells them apart.  So a row of the
\* old table gives no event of another row's, and none of the server's.
ASSUME BackfillIdAssumption ==
  \A o \in Orgs : \A i \in DOMAIN Deployments :
    /\ BackfillEvents(o, i) \cap Events = {}
    /\ \A j \in DOMAIN Deployments \ {i} : BackfillEvents(o, i) \cap BackfillEvents(o, j) = {}

\* The rows of the store that have the id backfill-deployment-i.
Backfilled(i) == {row \in store : \E o \in Orgs : row.event \in BackfillEvents(o, i)}

StartBackfill(b) ==
  /\ ~backfill[b].running
  /\ backfill' = [backfill EXCEPT ![b] =
                    [running |-> TRUE, org |-> DefaultOrganization, next |-> 1, written |-> {}]]
  /\ UNCHANGED <<vars, deleted>>

\* Mutant: the id of the event is made from its time.
BackfillDeployment_TimedId(b) ==
  LET r == backfill[b] IN
  /\ r.running
  /\ r.next \in ListLegacyDeploymentsForBackfill
  /\ r.org \in Present
  /\ \E e \in BackfillEvents(r.org, r.next) : AppendDuplicate(e) \/ AppendService(e)
  /\ backfill' = [backfill EXCEPT ![b].next = @ + 1, ![b].written = @ \cup {r.next}]
  /\ UNCHANGED deleted

\* AppendEventStore, the transaction of the server's own appends.  The event's
\* id holds the row's: what another run has stored for the organization stays,
\* and counts as written all the same.
BackfillDeployment(b) ==
  LET r    == backfill[b]
      same == {row \in Backfilled(r.next) : row.event.org = r.org}
  IN
  /\ r.running
  /\ r.next \in ListLegacyDeploymentsForBackfill
  /\ r.org \in Present
  /\ \/ \E row \in same : AppendDuplicate(row.event)
     \/ same = {} /\ \E e \in BackfillEvents(r.org, r.next) : AppendService(e)
  /\ backfill' = [backfill EXCEPT ![b].next = @ + 1, ![b].written = @ \cup {r.next}]
  /\ UNCHANGED deleted

\* The event is not valid, the write lock is not free for too long, or the
\* organization is gone: the row is skipped, and the run goes on.
SkipDeployment(b) ==
  /\ backfill[b].running
  /\ backfill[b].next \in ListLegacyDeploymentsForBackfill
  /\ backfill' = [backfill EXCEPT ![b].next = @ + 1]
  /\ UNCHANGED <<vars, deleted>>

\* All rows are through, or the tool is stopped before.
EndBackfill(b) ==
  /\ backfill[b].running
  /\ backfill' = [backfill EXCEPT ![b] = Stopped]
  /\ UNCHANGED <<vars, deleted>>

-----------------------------------------------------------------------------
(* The server.                                                             *)

ServerAppend(e) ==
  /\ e.org \in Present
  /\ AppendEventStore(e)
  /\ UNCHANGED <<deleted, backfill>>

\* Never the last organization.
DeletePresent(o) ==
  /\ o \in Present
  /\ Present # {o}
  /\ IF \E row \in store : row.event.org = o
     THEN DeleteOrganization(o)
     ELSE UNCHANGED vars
  /\ deleted' = deleted \cup {o}
  /\ UNCHANGED backfill

BackfillNext ==
  \/ \E b \in Backfills :
       \/ StartBackfill(b)
       \/ BackfillDeployment(b)
       \/ SkipDeployment(b)
       \/ EndBackfill(b)
  \/ \E e \in Events : ServerAppend(e)
  \/ \E o \in Orgs : DeletePresent(o)

BackfillSpec == BackfillInit /\ [][BackfillNext]_backfillVars
-----------------------------------------------------------------------------
(* Properties.                                                             *)

\* However often the tool is run, stopped and run again, one run beside another
\* and with the default organization deleted in between, no deployment of the
\* old table is in the store twice (main.go:62, the id of the event); and what a
\* run reports as written is there for as long as its organization is.
BackfilledOnce ==
  /\ \A i \in DOMAIN Deployments : Cardinality(Backfilled(i)) <= 1
  /\ \A b \in Backfills :
       backfill[b].running /\ backfill[b].org \in Present =>
         \A i \in backfill[b].written : \E row \in Backfilled(i) : row.event.org = backfill[b].org
=============================================================================
