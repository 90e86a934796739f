-------------------------- MODULE EventBackfill_proofs --------------------------
(***************************************************************************)
(* The backfill appends by the transaction of the server, so it keeps what *)
(* the appends keep, for any old deployments, organizations and number of  *)
(* runs of the tool.                                                       *)
(*                                                                         *)
(* That no deployment is stored twice rests on the default organization:   *)
(* the id of an event is unique within one organization only, and the runs *)
(* may have been started for different ones.  But an organization that is  *)
(* the default stays so until it is deleted, and its events go with it     *)
(* (OneDefault).                                                           *)
(***************************************************************************)
EXTENDS EventBackfill, ServiceProjections_proofs

\* No row of the store is of an organization that is gone.
StoreOfPresent == \A row \in store : row.event.org \in Present

\* Whoever is at work, and whatever has been backfilled, is of the organization
\* that is the default now, unless the run's own has been deleted.
OneDefault ==
  /\ \A b \in Backfills :
       backfill[b].running /\ backfill[b].org \in Present => backfill[b].org = DefaultOrganization
  /\ \A i \in DOMAIN Deployments : \A row \in Backfilled(i) : row.event.org = DefaultOrganization

StoredOnce == \A i \in DOMAIN Deployments : \A x, y \in Backfilled(i) : x = y

WrittenInTable ==
  \A b \in Backfills : backfill[b].running => backfill[b].written \subseteq DOMAIN Deployments

WrittenIsStored ==
  \A b \in Backfills :
    backfill[b].running /\ backfill[b].org \in Present =>
      \A i \in backfill[b].written : \E row \in Backfilled(i) : row.event.org = backfill[b].org

BackfillInv ==
  /\ ProjectionsInv
  /\ DOMAIN backfill = Backfills
  /\ StoreOfPresent
  /\ OneDefault
  /\ StoredOnce
  /\ WrittenInTable
  /\ WrittenIsStored

-----------------------------------------------------------------------------
(* The default organization.                                               *)

LEMMA LeastNumber ==
  ASSUME NEW S \in SUBSET Nat, S # {}
  PROVE  \E m \in S : \A n \in S : m <= n
<1>1. PICK R : R = OpToRel(<, Nat)
  OBVIOUS
<1>2. PICK m \in S : \A n \in S : ~ (<<n, m>> \in R)
  BY <1>1, NatLessThanWellFounded, WFMin
<1>3. \A x, y \in Nat : x < y => <<x, y>> \in R
  BY <1>1 DEF OpToRel
<1>4. ASSUME NEW n \in S PROVE m <= n
  <2>1. m \in Nat /\ n \in Nat
    OBVIOUS
  <2>2. ~ (n < m)
    BY <1>2, <1>3, <2>1
  <2> QED BY <2>1, <2>2
<1> QED BY <1>4

\* i is the place of the lowest id among the organizations P.
FirstOf(P, i) ==
  /\ i \in DOMAIN OrgIds
  /\ OrgIds[i] \in P
  /\ \A j \in 1 .. i - 1 : OrgIds[j] \notin P

LEMMA FirstExists ==
  ASSUME NEW P \in SUBSET Orgs, P # {}
  PROVE  \E i : FirstOf(P, i)
<1>1. /\ DOMAIN OrgIds \subseteq Nat \ {0}
      /\ \A i \in DOMAIN OrgIds : \A j \in 1 .. i - 1 : j \in DOMAIN OrgIds
      /\ Orgs = {OrgIds[i] : i \in DOMAIN OrgIds}
  <2>1. OrgIds \in Seq(Orgs) /\ DOMAIN OrgIds = 1 .. Len(OrgIds) /\ Len(OrgIds) \in Nat
    BY BackfillAssumption
  <2> QED BY <2>1, BackfillAssumption DEF ToSet
<1> DEFINE places == {i \in DOMAIN OrgIds : OrgIds[i] \in P}
<1>2. places \in SUBSET Nat /\ places # {}
  BY <1>1
<1> HIDE DEF places
<1>3. PICK i \in places : \A j \in places : i <= j
  BY <1>2, LeastNumber
<1>4. i \in DOMAIN OrgIds /\ OrgIds[i] \in P
  BY <1>3 DEF places
<1>5. ASSUME NEW j \in 1 .. i - 1
      PROVE  OrgIds[j] \notin P
  <2>1. j \in DOMAIN OrgIds /\ i \in Nat /\ j \in Nat /\ ~ (i <= j)
    BY <1>1, <1>4
  <2> QED BY <1>3, <2>1 DEF places
<1> QED BY <1>4, <1>5 DEF FirstOf

LEMMA FirstIsOne ==
  ASSUME NEW P, NEW i, NEW j, FirstOf(P, i), FirstOf(P, j)
  PROVE  i = j
<1>1. i \in Nat \ {0} /\ j \in Nat \ {0}
  <2>1. OrgIds \in Seq(Orgs) /\ DOMAIN OrgIds = 1 .. Len(OrgIds) /\ Len(OrgIds) \in Nat
    BY BackfillAssumption
  <2> QED BY <2>1 DEF FirstOf
<1>2. ~ (i < j) /\ ~ (j < i)
  BY <1>1 DEF FirstOf
<1> QED BY <1>1, <1>2

LEMMA DefaultIs ==
  ASSUME NEW P, NEW i, FirstOf(P, i)
  PROVE  i = CHOOSE j \in DOMAIN OrgIds :
               OrgIds[j] \in P /\ \A k \in 1 .. j - 1 : OrgIds[k] \notin P
<1> DEFINE F(j) == OrgIds[j] \in P /\ \A k \in 1 .. j - 1 : OrgIds[k] \notin P
<1>1. i \in DOMAIN OrgIds /\ F(i) /\ \A j \in DOMAIN OrgIds : F(j) => j = i
  BY FirstIsOne DEF FirstOf
<1> HIDE DEF F
<1>2. i = CHOOSE j \in DOMAIN OrgIds : F(j)
  BY <1>1
<1> QED BY <1>2 DEF F

LEMMA DefaultIsPresent ==
  ASSUME Present # {}
  PROVE  DefaultOrganization \in Present
<1>1. PICK i : FirstOf(Present, i)
  BY FirstExists DEF Present
<1> QED BY <1>1, DefaultIs DEF FirstOf, DefaultOrganization

\* The default organization is the default until it is deleted.
LEMMA DefaultStays ==
  ASSUME Present' \subseteq Present, DefaultOrganization \in Present'
  PROVE  DefaultOrganization' = DefaultOrganization
<1>1. PICK i : FirstOf(Present, i)
  BY FirstExists DEF Present
<1>2. DefaultOrganization = OrgIds[i]
  BY <1>1, DefaultIs DEF DefaultOrganization
<1>3. FirstOf(Present', i)
  BY <1>1, <1>2 DEF FirstOf
<1>4. DefaultOrganization' = OrgIds[i]
  BY <1>3, DefaultIs DEF DefaultOrganization
<1> QED BY <1>2, <1>4

-----------------------------------------------------------------------------
(* The steps.                                                              *)

\* The tool writes well-formed events of its run's organization.
LEMMA BackfillEventTypes ==
  ASSUME NEW o \in Orgs, NEW i \in DOMAIN Deployments
  PROVE  BackfillEvents(o, i) \subseteq Event
<1> DEFINE d == Deployments[i]
<1>1. /\ d.subject \in Subjects /\ d.env \in Envs /\ d.artifact \in Artifacts
      /\ d.deployedAt \in Nat \cup {Unparsed}
  BY BackfillAssumption
<1>2. parseTimestamp(d.deployedAt) \subseteq Nat
  BY <1>1, BackfillAssumption DEF parseTimestamp
<1>3. serviceEventForStatus(d.status) \in Kinds
  BY DEF serviceEventForStatus, Kinds
<1> QED BY <1>1, <1>2, <1>3 DEF BackfillEvents, Event

LEMMA BackfillInvStep == ProjectionsInv /\ [BackfillNext]_backfillVars => ProjectionsInv'
<1> SUFFICES ASSUME ProjectionsInv, [BackfillNext]_backfillVars PROVE ProjectionsInv'
  OBVIOUS
<1>1. UNCHANGED vars => ProjectionsInv'
  BY ProjectionsInvStep
<1>2. Present \subseteq Orgs
  BY DEF Present
<1>3. ASSUME NEW b \in Backfills, BackfillDeployment(b)
      PROVE  ProjectionsInv'
  <2> DEFINE r == backfill[b]
  <2>1. r.next \in DOMAIN Deployments /\ r.org \in Orgs
    BY <1>2, <1>3 DEF BackfillDeployment, ListLegacyDeploymentsForBackfill
  <2>2. \E e \in Event : AppendDuplicate(e) \/ AppendService(e)
    <3>1. CASE \E row \in Backfilled(r.next) : AppendDuplicate(row.event)
      <4>1. PICK row \in store : AppendDuplicate(row.event)
        BY <3>1 DEF Backfilled
      <4>2. row.event \in Event
        BY DEF ProjectionsInv, TypeOK, Row
      <4> QED BY <4>1, <4>2
    <3>2. CASE \E e \in BackfillEvents(r.org, r.next) : AppendService(e)
      BY <2>1, <3>2, BackfillEventTypes
    <3>3. \/ \E row \in Backfilled(r.next) : AppendDuplicate(row.event)
          \/ \E e \in BackfillEvents(r.org, r.next) : AppendService(e)
      BY <1>3 DEF BackfillDeployment
    <3> QED BY <3>1, <3>2, <3>3
  <2> QED BY <2>2, AppendKeeps DEF AppendEventStore
<1>4. ASSUME NEW b \in Backfills, StartBackfill(b) \/ SkipDeployment(b) \/ EndBackfill(b)
      PROVE  ProjectionsInv'
  BY <1>1, <1>4 DEF StartBackfill, SkipDeployment, EndBackfill
<1>5. ASSUME NEW e \in Events, ServerAppend(e)
      PROVE  ProjectionsInv'
  BY <1>5, AppendKeeps, ProjectionAssumption DEF ServerAppend
<1>6. ASSUME NEW o \in Orgs, DeletePresent(o)
      PROVE  ProjectionsInv'
  BY <1>1, <1>6, DeleteKeeps DEF DeletePresent
<1>7. CASE BackfillNext
  BY <1>3, <1>4, <1>5, <1>6, <1>7 DEF BackfillNext
<1>8. CASE UNCHANGED backfillVars
  BY <1>1, <1>8 DEF backfillVars
<1> QED BY <1>7, <1>8

\* What another step leaves of the backfill.
LEMMA BackfillStays ==
  ASSUME BackfillInv, StoreOfPresent', UNCHANGED <<deleted, backfill>>, ProjectionsInv',
         \A i \in DOMAIN Deployments : Backfilled(i)' = Backfilled(i)
  PROVE  BackfillInv'
<1>1. Present' = Present /\ DefaultOrganization' = DefaultOrganization
  BY DEF Present, DefaultOrganization
<1>2. OneDefault' /\ StoredOnce'
  BY <1>1 DEF BackfillInv, OneDefault, StoredOnce
<1>3. WrittenIsStored'
  BY <1>1 DEF BackfillInv, WrittenIsStored, WrittenInTable
<1> QED BY <1>2, <1>3 DEF BackfillInv, WrittenInTable

\* Every event is in the store or one row away from it.
LEMMA AppendAddsItsRow ==
  ASSUME NEW e, AppendEventStore(e)
  PROVE  store' = store \/ store' = store \cup {[seq |-> lastSeq + 1, event |-> e]}
BY DEF AppendEventStore, AppendDuplicate, AppendOther, AppendService

LEMMA ServerAppendKeeps ==
  ASSUME BackfillInv, ProjectionsInv', NEW e \in Events, ServerAppend(e)
  PROVE  BackfillInv'
<1> DEFINE row == [seq |-> lastSeq + 1, event |-> e]
<1>1. store' = store \/ store' = store \cup {row}
  BY AppendAddsItsRow DEF ServerAppend
<1>2. row.event = e /\ e.org \in Present
  BY DEF ServerAppend
<1> HIDE DEF row
<1>3. \A i \in DOMAIN Deployments : Backfilled(i)' = Backfilled(i)
  BY <1>1, <1>2, BackfillIdAssumption DEF Backfilled
<1>4. StoreOfPresent'
  BY <1>1, <1>2 DEF BackfillInv, StoreOfPresent, ServerAppend, Present
<1> QED BY <1>3, <1>4, BackfillStays DEF ServerAppend

\* A run's bookkeeping.
LEMMA RunStepKeeps ==
  ASSUME BackfillInv, ProjectionsInv', NEW b \in Backfills,
         StartBackfill(b) \/ SkipDeployment(b) \/ EndBackfill(b)
  PROVE  BackfillInv'
<1>1. /\ store' = store /\ deleted' = deleted
      /\ DOMAIN backfill' = Backfills
      /\ \A c \in Backfills \ {b} : backfill'[c] = backfill[c]
  BY DEF StartBackfill, SkipDeployment, EndBackfill, BackfillInv, vars
<1>2. Present' = Present /\ DefaultOrganization' = DefaultOrganization
  BY <1>1 DEF Present, DefaultOrganization
<1>3. \A i \in DOMAIN Deployments : Backfilled(i)' = Backfilled(i)
  BY <1>1 DEF Backfilled
<1>4. \/ backfill'[b].org = DefaultOrganization /\ backfill'[b].written = {}
      \/ /\ backfill[b].running
         /\ backfill'[b].org = backfill[b].org
         /\ backfill'[b].written = backfill[b].written
      \/ ~backfill'[b].running
  <2>1. CASE StartBackfill(b)
    BY <2>1 DEF StartBackfill, BackfillInv
  <2>2. CASE SkipDeployment(b)
    BY <2>2 DEF SkipDeployment, BackfillInv
  <2>3. CASE EndBackfill(b)
    <3>1. backfill'[b] = Stopped
      BY <2>3 DEF EndBackfill, BackfillInv
    <3>2. ~Stopped.running
      BY DEF Stopped
    <3> QED BY <3>1, <3>2
  <2> QED BY <2>1, <2>2, <2>3
<1>5. OneDefault'
  BY <1>1, <1>2, <1>3, <1>4 DEF BackfillInv, OneDefault
<1>6. WrittenIsStored'
  BY <1>1, <1>2, <1>3, <1>4 DEF BackfillInv, WrittenIsStored, WrittenInTable
<1> QED BY <1>1, <1>2, <1>3, <1>4, <1>5, <1>6
        DEF BackfillInv, StoreOfPresent, StoredOnce, WrittenInTable

\* The rows of an organization go with it, and those of the default one's
\* deployments: then the next default has none yet.
LEMMA DeletePresentKeeps ==
  ASSUME BackfillInv, ProjectionsInv', NEW o \in Orgs, DeletePresent(o)
  PROVE  BackfillInv'
<1>1. /\ Present' = Present \ {o} /\ backfill' = backfill
      /\ store' = {row \in store : row.event.org # o}
  BY DEF DeletePresent, DeleteOrganization, Present, vars
<1>2. \A i \in DOMAIN Deployments :
        Backfilled(i)' = {row \in Backfilled(i) : row.event.org # o}
  BY <1>1 DEF Backfilled
<1>3. DefaultOrganization \in Present' => DefaultOrganization' = DefaultOrganization
  BY <1>1, DefaultStays
<1>4. StoreOfPresent'
  BY <1>1 DEF BackfillInv, StoreOfPresent
<1>5. OneDefault'
  <2>1. ASSUME NEW i \in DOMAIN Deployments, NEW row \in Backfilled(i)'
        PROVE  row.event.org = DefaultOrganization'
    <3>1. row \in Backfilled(i) /\ row.event.org # o /\ row \in store
      BY <1>2, <2>1 DEF Backfilled
    <3>2. row.event.org = DefaultOrganization /\ row.event.org \in Present'
      BY <1>1, <3>1 DEF BackfillInv, OneDefault, StoreOfPresent
    <3> QED BY <1>3, <3>2
  <2>2. ASSUME NEW b \in Backfills, backfill[b].running, backfill[b].org \in Present'
        PROVE  backfill[b].org = DefaultOrganization'
    <3>1. backfill[b].org = DefaultOrganization
      BY <1>1, <2>2 DEF BackfillInv, OneDefault
    <3> QED BY <1>3, <2>2, <3>1
  <2> QED BY <1>1, <2>1, <2>2 DEF OneDefault
<1>6. StoredOnce'
  BY <1>2 DEF BackfillInv, StoredOnce
<1>7. WrittenIsStored'
  <2> SUFFICES ASSUME NEW b \in Backfills, backfill[b].running, backfill[b].org \in Present',
                      NEW i \in backfill[b].written
               PROVE  \E row \in Backfilled(i)' : row.event.org = backfill[b].org
    BY <1>1 DEF WrittenIsStored
  <2>1. PICK row \in Backfilled(i) : row.event.org = backfill[b].org
    BY <1>1 DEF BackfillInv, WrittenIsStored
  <2>2. i \in DOMAIN Deployments /\ row.event.org # o
    BY <1>1, <2>1 DEF BackfillInv, WrittenInTable
  <2> QED BY <1>2, <2>1, <2>2
<1> QED BY <1>1, <1>4, <1>5, <1>6, <1>7 DEF BackfillInv, WrittenInTable

\* What a run writes is the only row of its deployment: another would be of the
\* same organization, and the id would have been met.
LEMMA BackfillDeploymentKeeps ==
  ASSUME BackfillInv, ProjectionsInv', NEW b \in Backfills, BackfillDeployment(b)
  PROVE  BackfillInv'
<1>0. PICK i, o : i = backfill[b].next /\ o = backfill[b].org
  OBVIOUS
<1> DEFINE same == {row \in Backfilled(i) : row.event.org = o}
<1>1. /\ backfill[b].running /\ i \in DOMAIN Deployments /\ o \in Present /\ o \in Orgs
      /\ deleted' = deleted
      /\ Present' = Present /\ DefaultOrganization' = DefaultOrganization
      /\ o = DefaultOrganization
  BY <1>0 DEF BackfillDeployment, ListLegacyDeploymentsForBackfill, Present,
              DefaultOrganization, BackfillInv, OneDefault
<1>2. /\ DOMAIN backfill' = Backfills
      /\ \A c \in Backfills \ {b} : backfill'[c] = backfill[c]
      /\ backfill'[b].org = o /\ backfill'[b].written = backfill[b].written \cup {i}
  BY <1>0 DEF BackfillDeployment, BackfillInv
<1>3. same = Backfilled(i)
  BY <1>1 DEF BackfillInv, OneDefault
<1>4. \/ store' = store /\ Backfilled(i) # {}
      \/ /\ Backfilled(i) = {}
         /\ \E e \in BackfillEvents(o, i) : store' = store \cup {[seq |-> lastSeq + 1, event |-> e]}
  BY <1>0, <1>3 DEF BackfillDeployment, AppendDuplicate, AppendService
<1> HIDE DEF same
<1>5. /\ StoreOfPresent'
      /\ \A j \in DOMAIN Deployments \ {i} : Backfilled(j)' = Backfilled(j)
      /\ Backfilled(i) \subseteq Backfilled(i)' /\ Backfilled(i)' # {}
      /\ \A x \in Backfilled(i)' : x.event.org = o
      /\ \A x, y \in Backfilled(i)' : x = y
  <2>1. CASE store' = store /\ Backfilled(i) # {}
    <3>1. \A j : Backfilled(j)' = Backfilled(j)
      BY <2>1 DEF Backfilled
    <3> QED BY <1>1, <2>1, <3>1 DEF BackfillInv, StoreOfPresent, OneDefault, StoredOnce
  <2>2. CASE Backfilled(i) = {}
    <3>1. PICK e \in BackfillEvents(o, i) : store' = store \cup {[seq |-> lastSeq + 1, event |-> e]}
      BY <1>4, <2>2
    <3> DEFINE row == [seq |-> lastSeq + 1, event |-> e]
    <3>2. row.event = e /\ e.org = o
      BY DEF BackfillEvents
    <3>3. store' = store \cup {row}
      BY <3>1
    <3> HIDE DEF row
    <3>4. ASSUME NEW j \in DOMAIN Deployments \ {i}, NEW p \in Orgs
          PROVE  e \notin BackfillEvents(p, j)
      <4>1. e \in BackfillEvents(p, j) => e.org = p
        BY DEF BackfillEvents
      <4>2. BackfillEvents(o, i) \cap BackfillEvents(o, j) = {}
        BY <1>1, BackfillIdAssumption
      <4> QED BY <3>1, <3>2, <4>1, <4>2
    <3>5. \A j \in DOMAIN Deployments \ {i} : Backfilled(j)' = Backfilled(j)
      BY <3>2, <3>3, <3>4 DEF Backfilled
    <3>6. Backfilled(i)' = {row}
      BY <1>1, <2>2, <3>1, <3>2, <3>3 DEF Backfilled
    <3>7. StoreOfPresent'
      BY <1>1, <3>2, <3>3 DEF BackfillInv, StoreOfPresent
    <3> QED BY <2>2, <3>2, <3>5, <3>6, <3>7
  <2> QED BY <1>4, <2>1, <2>2
<1>6. OneDefault'
  BY <1>1, <1>2, <1>5 DEF BackfillInv, OneDefault
<1>7. StoredOnce'
  BY <1>5 DEF BackfillInv, StoredOnce
<1>8. WrittenInTable'
  BY <1>1, <1>2 DEF BackfillInv, WrittenInTable
<1>9. WrittenIsStored'
  <2> SUFFICES ASSUME NEW c \in Backfills, backfill'[c].running, backfill'[c].org \in Present,
                      NEW j \in backfill'[c].written
               PROVE  \E row \in Backfilled(j)' : row.event.org = backfill'[c].org
    BY <1>1 DEF WrittenIsStored
  <2>1. CASE c = b /\ j = i
    BY <1>2, <1>5, <2>1
  <2>2. CASE c # b \/ j # i
    <3>1. /\ backfill[c].running /\ backfill'[c].org = backfill[c].org
          /\ j \in backfill[c].written
      BY <1>0, <1>1, <1>2, <2>2
    <3>2. j \in DOMAIN Deployments
      BY <3>1 DEF BackfillInv, WrittenInTable
    <3>3. PICK row \in Backfilled(j) : row.event.org = backfill[c].org
      BY <3>1 DEF BackfillInv, WrittenIsStored
    <3>4. row \in Backfilled(j)'
      BY <1>5, <3>2, <3>3
    <3> QED BY <3>1, <3>3, <3>4
  <2> QED BY <2>1, <2>2
<1> QED BY <1>2, <1>5, <1>6, <1>7, <1>8, <1>9 DEF BackfillInv

LEMMA BackfillInvHolds == BackfillSpec => []BackfillInv
<1>1. BackfillInit => BackfillInv
  <2> SUFFICES ASSUME BackfillInit PROVE BackfillInv
    OBVIOUS
  <2>1. /\ store = {} /\ \A i : Backfilled(i) = {}
        /\ DOMAIN backfill = Backfills /\ \A b \in Backfills : backfill[b] = Stopped
    BY DEF BackfillInit, Init, Backfilled
  <2>2. \A b \in Backfills : ~backfill[b].running
    BY <2>1 DEF Stopped
  <2>3. ProjectionsInv
    BY ProjectionsInvInit DEF BackfillInit
  <2> QED BY <2>1, <2>2, <2>3 DEF BackfillInv, StoreOfPresent, OneDefault, StoredOnce,
                                  WrittenInTable, WrittenIsStored
<1>2. BackfillInv /\ [BackfillNext]_backfillVars => BackfillInv'
  <2> SUFFICES ASSUME BackfillInv, [BackfillNext]_backfillVars PROVE BackfillInv'
    OBVIOUS
  <2>1. ProjectionsInv'
    BY BackfillInvStep DEF BackfillInv
  <2>2. CASE BackfillNext
    BY <2>1, <2>2, RunStepKeeps, BackfillDeploymentKeeps, ServerAppendKeeps, DeletePresentKeeps
       DEF BackfillNext
  <2>3. CASE UNCHANGED backfillVars
    <3>1. UNCHANGED <<store, deleted, backfill>>
      BY <2>3 DEF backfillVars, vars
    <3>2. \A i : Backfilled(i)' = Backfilled(i)
      BY <3>1 DEF Backfilled
    <3>3. StoreOfPresent'
      BY <3>1 DEF BackfillInv, StoreOfPresent, Present
    <3> QED BY <2>1, <3>1, <3>2, <3>3, BackfillStays
  <2> QED BY <2>2, <2>3
<1> QED BY <1>1, <1>2, PTL DEF BackfillSpec

-----------------------------------------------------------------------------
(* The theorems.                                                           *)

\* Late events of the old table, written by any number of runs that are stopped
\* and started again beside the server's appends, leave every projection sound,
\* every environment at its latest event, every event counted once and with its
\* one change link (eventbackfill/main.go, store.go).
THEOREM BackfillKeepsProjections ==
  BackfillSpec =>
    [](ProjectionsAreSound /\ EnvStateIsLatest /\ DailyCountsEvents /\ LinksMatchEvents)
<1>1. ProjectionsInv =>
        ProjectionsAreSound /\ EnvStateIsLatest /\ DailyCountsEvents /\ LinksMatchEvents
  BY InvImpliesLatest
     DEF ProjectionsInv, Complete, Counted, Linked, DailyCountsEvents, LinksMatchEvents
<1>2. BackfillInv => ProjectionsInv
  BY DEF BackfillInv
<1> QED BY <1>1, <1>2, BackfillInvHolds, PTL

\* And, where Go and SQL cut the same names, every service at the state of its
\* latest environment.
THEOREM BackfillKeepsCurrentState ==
  ASSUME PlainNames
  PROVE  BackfillSpec => []CurrentStateIsLatest
<1>1. PlainNames
  OBVIOUS
<1>2. BackfillInv => CurrentStateIsLatest
  BY <1>1, InvImpliesCurrent DEF BackfillInv
<1> QED BY <1>2, BackfillInvHolds, PTL

\* No deployment of the old table is stored twice, however often the tool runs
\* and whichever organization was the default, and what a run has reported as
\* written is stored (eventbackfill/main.go:62).
THEOREM DeploymentsAreStoredOnce == BackfillSpec => []BackfilledOnce
<1>1. BackfillInv => BackfilledOnce
  <2> SUFFICES ASSUME BackfillInv PROVE BackfilledOnce
    OBVIOUS
  <2>1. ASSUME NEW i \in DOMAIN Deployments
        PROVE  Cardinality(Backfilled(i)) <= 1
    <3>1. CASE Backfilled(i) = {}
      BY <3>1, FS_EmptySet
    <3>2. CASE Backfilled(i) # {}
      <4>1. PICK x \in Backfilled(i) : TRUE
        BY <3>2
      <4>2. Backfilled(i) = {x}
        BY <4>1 DEF BackfillInv, StoredOnce
      <4>3. Cardinality({x}) = 1
        BY FS_Singleton
      <4> QED BY <4>2, <4>3
    <3> QED BY <3>1, <3>2
  <2> QED BY <2>1 DEF BackfillInv, WrittenIsStored, BackfilledOnce
<1> QED BY <1>1, BackfillInvHolds, PTL
=============================================================================
