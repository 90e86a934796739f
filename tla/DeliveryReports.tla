---------------------------- MODULE DeliveryReports ----------------------------
(***************************************************************************)
(* The delivery metrics of ddash: lead times from a change to the          *)
(* deployments that follow it, their summaries and percentiles             *)
(* (application/servicecatalog/service.go), and the organization-wide      *)
(* summary row (queries_analytics.sql.go).  Lead times are kept in the     *)
(* unit of ts.                                                             *)
(*                                                                         *)
(* The tables of pipelines, throughput, deployment durations, drift,       *)
(* redeployments and incidents have no writer in this repository; what the *)
(* reports take from them is always zero and is left out.                  *)
(***************************************************************************)
EXTENDS ServiceQueries

CONSTANT ArtifactService  \* the name in an artifact pkg:generic/<name>@..., or NoName

ASSUME ReportAssumption == ArtifactService \in [Artifacts \cup {NoArtifact} -> Names \cup {NoName}]

\* The window of a report, in milliseconds before now.
ReportDays(days) == IF days <= 0 THEN WindowDays ELSE IF days > 365 THEN 365 ELSE days
Since(days) == Now - ReportDays(days) * DayLength

Deploys(org, since) ==
  {x \in RowsOf(org) : x.event.kind = "deployed" /\ x.event.ts >= since /\ ServiceName(x) # NoName}

\* A change names its service in its artifact, not in its subject.
Changes(org, name, since) ==
  {x \in store : /\ x.event.org = org
                 /\ x.event.type = "change"
                 /\ x.event.ts >= since
                 /\ ArtifactService[x.event.artifact] = name}

\* Mutant: the deployment is matched with the first change of the window.
ListServiceLeadTimeSamples_FirstChange(org, since) ==
  LET before(d) == {c \in Changes(org, ServiceName(d), since) : c.event.ts <= d.event.ts}
  IN  {[deploy |-> d, lead |-> d.event.ts - Min({c.event.ts : c \in before(d)})] :
         d \in {x \in Deploys(org, since) : before(x) # {}}}

\* One sample for each deployment that a change of its service came before.
ListServiceLeadTimeSamples(org, since) ==
  LET before(d) == {c \in Changes(org, ServiceName(d), since) : c.event.ts <= d.event.ts}
  IN  {[deploy |-> d, lead |-> d.event.ts - Max({c.event.ts : c \in before(d)})] :
         d \in {x \in Deploys(org, since) : before(x) # {}}}

\* The lead times of a set of samples, in ascending order.
Ordered(samples) ==
  [i \in 1..Cardinality(samples) |->
     CHOOSE v \in {s.lead : s \in samples} :
       /\ Cardinality({s \in samples : s.lead < v}) < i
       /\ i <= Cardinality({s \in samples : s.lead <= v})]

\* Mutant: the rank is rounded down.
Percentile_Floor(sorted, n, p) ==
  LET rank == (p * n) \div 100 IN
  IF n = 0 THEN 0 ELSE sorted[IF rank < 1 THEN 1 ELSE IF rank > n THEN n ELSE rank]

\* The value at rank ceil(p/100 * n) of n, counted from one.
Percentile(sorted, n, p) ==
  LET rank == (p * n + 99) \div 100 IN
  IF n = 0 THEN 0 ELSE sorted[IF rank < 1 THEN 1 ELSE IF rank > n THEN n ELSE rank]

SummarizeLeadTimes(samples) ==
  LET n      == Cardinality(samples)
      sorted == Ordered(samples)
  IN  [samples |-> n,
       average |-> IF n = 0 THEN 0 ELSE SumFunction([s \in samples |-> s.lead]) \div n,
       p50     |-> Percentile(sorted, n, 50),
       p95     |-> Percentile(sorted, n, 95)]

ByDay == [x \in store |-> x.event.ts \div DayLength]

SummarizeEach(samples, part) ==
  [k \in {part[s.deploy] : s \in samples} |->
     SummarizeLeadTimes({s \in samples : part[s.deploy] = k})]

BuildLeadTimeReport(org, days) ==
  LET samples == ListServiceLeadTimeSamples(org, Since(days))
  IN  [overall   |-> SummarizeLeadTimes(samples),
       byService |-> SummarizeEach(samples, ByService),
       byDay     |-> SummarizeEach(samples, ByDay)]

\* The organization's counters of the last days.
Window(org) == {k \in DOMAIN daily : k.org = org /\ InWindow(k)}

\* The change failure rate here is (failures + rollbacks) over (successes +
\* failures), a real number that the row declares as an integer: scanning one
\* with a fraction is an error.
GetComprehensiveDeliveryMetrics(org, since) ==
  LET samples         == ListServiceLeadTimeSamples(org, since)
      days            == Window(org)
  IN  [leadTotal  |-> SumFunction([s \in samples |-> s.lead]),
       leadCount  |-> Cardinality(samples),
       frequency  |-> SumFunction([k \in days |-> daily[k].success]),
       failed     |-> SumFunction([k \in days |-> daily[k].failure + daily[k].rollback]),
       ended      |-> SumFunction([k \in days |-> daily[k].success + daily[k].failure]),
       activeDays |-> Cardinality({k.day : k \in {j \in days : daily[j].success > 0}})]

Scans(row) == row.ended = 0 \/ row.failed % row.ended = 0

\* A service's metrics are an error when that row is.
GetServiceMetrics(org, name, days) ==
  LET row == GetComprehensiveDeliveryMetrics(org, Since(days)) IN
  IF Scans(row)
  THEN [ok |-> TRUE, ages |-> GetArtifactAgeByEnvironment(org, name), comprehensive |-> row]
  ELSE [ok |-> FALSE]

\* The organization's metrics leave that part at its zero values instead.
GetOrgMetrics(org, days) ==
  LET row == GetComprehensiveDeliveryMetrics(org, Since(days)) IN
  [services      |-> Cardinality({s.title : s \in ListServiceInstances(org, "")} \ {NoName}),
   comprehensive |-> IF Scans(row) THEN {row} ELSE {},
   leadTime      |-> BuildLeadTimeReport(org, days)]

-----------------------------------------------------------------------------
(* Properties.                                                             *)

\* The windows of reports that are compared.
Windows == 0..2

\* Changes and deployments arrive late and in any order: what arrives later may
\* move a deployment's change closer to it, but never makes the lead time
\* longer and never takes a sample away that is still stored.
LeadTimesOnlyShrink ==
  [][\A o \in Orgs, days \in Windows :
       \A s \in ListServiceLeadTimeSamples(o, Since(days)) :
         s.deploy \in store' =>
           \E t \in ListServiceLeadTimeSamples(o, Since(days))' :
             t.deploy = s.deploy /\ t.lead <= s.lead]_vars

\* p/100 of the samples are no greater than v, and fewer are smaller.
IsPercentile(v, p, samples) ==
  LET n == Cardinality(samples) IN
  /\ 100 * Cardinality({s \in samples : s.lead <= v}) >= p * n
  /\ 100 * Cardinality({s \in samples : s.lead < v}) < p * n

\* The three reports agree: every lead time is summarized once by service and
\* once by day, the summary row has the same average, the percentiles are
\* those of the samples, no deployment of the window is missing from the
\* counters, which are kept by another path, and the services and artifacts
\* reported are those with a current state and those that the lists show.
ReportsAgree ==
  NoRebuild =>
    \A o \in Orgs, days \in Windows :
      LET samples == ListServiceLeadTimeSamples(o, Since(days))
          leads   == BuildLeadTimeReport(o, days)
          metrics == GetComprehensiveDeliveryMetrics(o, Since(days))
          count(part) == SumFunction([k \in DOMAIN part |-> part[k].samples])
      IN
      /\ count(leads.byService) = Cardinality(samples)
      /\ count(leads.byDay) = Cardinality(samples)
      /\ metrics.leadCount = leads.overall.samples
      /\ samples # {} =>
           /\ leads.overall.average = metrics.leadTotal \div metrics.leadCount
           /\ IsPercentile(leads.overall.p50, 50, samples)
           /\ IsPercentile(leads.overall.p95, 95, samples)
      /\ ReportDays(days) <= WindowDays => Cardinality(Deploys(o, Since(days))) <= metrics.frequency
      /\ GetOrgMetrics(o, days).services = Cardinality({c \in current : c.latest.event.org = o})
      /\ \A name \in Names : LET m == GetServiceMetrics(o, name, days) IN
           m.ok => \A a \in m.ages : \E s \in ListServiceInstances(o, a.environment) :
                     s.title = name /\ s.revision = a.artifact
=============================================================================
