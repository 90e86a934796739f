----------------------- MODULE ServiceProjections_proofs -----------------------
(***************************************************************************)
(* Theorems about ServiceProjections, for any events, names, number of     *)
(* rebuilds and length of a day.                                           *)
(*                                                                         *)
(* What never fails, whatever runs, is that the tables show events of the  *)
(* store, one row for a place: it rests on sequence numbers being unique   *)
(* (Numbered).  That a table shows all it should (Complete) is proved of   *)
(* the appends for as long as nothing has been rebuilt, and, table by      *)
(* table, of a rebuild that no other meets (Refilled): its INSERT goes     *)
(* through only where the table is empty, and what is appended afterwards  *)
(* keeps it.  The environments' rows need to beat, in the order of Newer,  *)
(* every event of their place (Covered).                                   *)
(***************************************************************************)
EXTENDS ServiceProjections, FiniteSetTheorems, WellFoundedInduction, TLAPS

\* AUTOINCREMENT gives every row of event_store its own, growing number.
Numbered ==
  /\ \A x \in store : x.seq <= lastSeq
  /\ \A x, y \in store : x.seq = y.seq => x = y

\* The row of a place is not older than any event of the place.
Covered ==
  \A y \in ServiceRows(store) : \E x \in envState : SamePlace(x, y) /\ ~Newer(y, x)

Linked == links = ServiceRows(store)

Counted == daily = DailyRows(ServiceRows(store))

Refreshed == PlainNames => current = CurrentRows(envState)

Complete == Covered /\ Linked /\ Counted /\ Refreshed

\* The statements of run t before at[t] have filled their tables.
Refilled(t) ==
  /\ at[t] \in 6..8 => Covered
  /\ at[t] \in 7..8 => Refreshed
  /\ at[t] = 8 => Counted

\* A run reports when it ends.
Unreported == \A t \in Tools : at[t] # 0 => report[t] = "none"

\* No day is counted but one of a service event in the store.
DaysAreOfEvents == DOMAIN daily \subseteq {Day(x) : x \in ServiceRows(store)}

ProjectionsInv ==
  /\ TypeOK
  /\ IsFiniteSet(store)
  /\ Numbered
  /\ ProjectionsAreSound
  /\ Unreported
  /\ DaysAreOfEvents
  /\ NoRebuild => Complete
  /\ \A t \in Tools : Alone(t) => Refilled(t)

-----------------------------------------------------------------------------
(* Places, services and the order of rows.                                 *)

\* Newer is a strict order, total on rows with different numbers.
LEMMA NewerOrder ==
  ASSUME NEW x \in Row, NEW y \in Row, NEW z \in Row
  PROVE  /\ Newer(x, y) => ~Newer(y, x)
         /\ ~Newer(x, y) /\ ~Newer(y, x) => x.seq = y.seq
         /\ ~Newer(x, y) /\ ~Newer(y, z) => ~Newer(x, z)
<1>1. \A r \in Row : r.seq \in Nat /\ r.event.ts \in Nat
  BY DEF Row, Event
<1> QED BY <1>1 DEF Newer

LEMMA PlaceOrder ==
  /\ \A x : SamePlace(x, x)
  /\ \A x, y : SamePlace(x, y) => SamePlace(y, x)
  /\ \A x, y, z : SamePlace(x, y) /\ SamePlace(y, z) => SamePlace(x, z)
BY DEF SamePlace

LEMMA RowsAreTyped ==
  ASSUME TypeOK
  PROVE  /\ ServiceRows(store) \subseteq Row
         /\ \A c \in current : c.latest \in Row /\ c.drift \in Nat /\ c.failing \in Nat
BY DEF TypeOK, ServiceRows, Current

\* Two rows of one service that nothing is newer than are the same.
LEMMA CurrentIsOneRow ==
  ASSUME NEW E \in SUBSET Row, \A x, y \in E : x.seq = y.seq => x = y, NEW service,
         NEW c \in CurrentOf(E, service)
  PROVE  /\ c.latest \in E
         /\ Service(c.latest) = service
         /\ \A d \in CurrentOf(E, service) : c = d
<1> DEFINE mine == {x \in E : Service(x) = service}
           drift == Cardinality({y.event.artifact : y \in mine} \ {NoArtifact})
           failing == Cardinality({y \in mine : Failing(y)})
<1>1. CurrentOf(E, service) =
        {[latest |-> x, drift |-> drift, failing |-> failing] :
           x \in {y \in mine : \A z \in mine : ~Newer(z, y)}}
  BY DEF CurrentOf
<1> HIDE DEF drift, failing
<1>2. ASSUME NEW d \in CurrentOf(E, service)
      PROVE  /\ d = [latest |-> d.latest, drift |-> drift, failing |-> failing]
             /\ d.latest \in mine /\ \A z \in mine : ~Newer(z, d.latest)
  BY <1>1
<1>3. ASSUME NEW d \in CurrentOf(E, service)
      PROVE  c = d
  <2>1. c.latest \in Row /\ d.latest \in Row /\ c.latest \in E /\ d.latest \in E
    BY <1>2
  <2>2. ~Newer(c.latest, d.latest) /\ ~Newer(d.latest, c.latest)
    BY <1>2
  <2>3. c.latest = d.latest
    BY <2>1, <2>2, NewerOrder
  <2> QED BY <1>2, <2>3
<1> QED BY <1>2, <1>3

\* The types of a row of service_current_state, whose counts are of finite sets.
LEMMA CurrentTypes ==
  ASSUME NEW E \in SUBSET Row, IsFiniteSet(E), NEW service
  PROVE  CurrentOf(E, service) \subseteq Current
<1> DEFINE mine == {x \in E : Service(x) = service}
<1>1. IsFiniteSet(mine)
  BY FS_Subset
<1>2. IsFiniteSet({y.event.artifact : y \in mine})
  <2> DEFINE f == [y \in mine |-> y.event.artifact]
  <2>1. f \in Surjection(mine, {y.event.artifact : y \in mine})
    BY DEF Surjection
  <2> QED BY <1>1, <2>1, FS_Surjection
<1>3. IsFiniteSet({y.event.artifact : y \in mine} \ {NoArtifact})
  BY <1>2, FS_Subset
<1>4. IsFiniteSet({y \in mine : Failing(y)})
  BY <1>1, FS_Subset
<1>5. /\ Cardinality({y.event.artifact : y \in mine} \ {NoArtifact}) \in Nat
      /\ Cardinality({y \in mine : Failing(y)}) \in Nat
  BY <1>3, <1>4, FS_CardinalityType
<1> QED BY <1>5 DEF CurrentOf, Current

\* Of some subsets of a finite set, one contains none of the others.
LEMMA LeastSubset ==
  ASSUME NEW S, IsFiniteSet(S), NEW C \in SUBSET SUBSET S, C # {}
  PROVE  \E A \in C : \A B \in C : B \subseteq A => B = A
<1>1. C \in SUBSET FiniteSubsetsOf(S)
  BY FS_FiniteSubsetsOfFinite
<1>2. PICK A \in C : \A B \in C : ~ (<<B, A>> \in StrictSubsetOrdering(S))
  BY <1>1, FS_StrictSubsetOrderingWellFounded, WFMin
<1> QED BY <1>2 DEF StrictSubsetOrdering

\* Some row of finitely many is the newest.
LEMMA NewestExists ==
  ASSUME NEW S \in SUBSET Row, IsFiniteSet(S), S # {}
  PROVE  \E x \in S : \A z \in S : ~Newer(z, x)
<1> DEFINE Closed(T) == T # {} /\ \A x \in T, z \in S : Newer(z, x) => z \in T
           C == {T \in SUBSET S : Closed(T)}
<1>1. C \in SUBSET SUBSET S /\ S \in C
  OBVIOUS
<1>2. PICK A \in C : \A B \in C : B \subseteq A => B = A
  <2> HIDE DEF C
  <2> QED BY <1>1, LeastSubset
<1>3. A \in SUBSET S /\ Closed(A)
  BY <1>2
<1>4. PICK x \in A : TRUE
  BY <1>3
<1> DEFINE above == {z \in S : Newer(z, x)}
<1>5. \A y, z \in S : Newer(y, z) /\ Newer(z, x) => Newer(y, x)
  <2>1. \A r \in S : r.seq \in Nat /\ r.event.ts \in Nat
    BY DEF Row, Event
  <2> QED BY <1>3, <1>4, <2>1 DEF Newer
<1>6. ~Newer(x, x)
  BY <1>3, <1>4, NewerOrder
<1>7. above \in SUBSET S /\ above \subseteq A /\ x \notin above
  BY <1>3, <1>4, <1>6
<1>8. above # {} => Closed(above)
  BY <1>5
<1>9. above = {}
  <2>1. above \in C => above = A
    BY <1>2, <1>7
  <2> HIDE DEF above, Closed
  <2> QED BY <1>4, <1>7, <1>8, <2>1
<1> QED BY <1>3, <1>4, <1>9

\* A service with an environment has a current state.
LEMMA CurrentExists ==
  ASSUME NEW E \in SUBSET Row, IsFiniteSet(E), NEW service,
         \E x \in E : Service(x) = service
  PROVE  CurrentOf(E, service) # {}
<1> DEFINE mine == {x \in E : Service(x) = service}
<1>1. mine \in SUBSET Row /\ IsFiniteSet(mine) /\ mine # {}
  BY FS_Subset
<1> HIDE DEF mine
<1>2. \E x \in mine : \A z \in mine : ~Newer(z, x)
  BY <1>1, NewestExists
<1> QED BY <1>2 DEF CurrentOf, mine

\* The current state of a service depends on its own environments only.
LEMMA CurrentDepends ==
  ASSUME NEW E, NEW F, NEW service,
         \A x : Service(x) = service => (x \in E <=> x \in F)
  PROVE  CurrentOf(E, service) = CurrentOf(F, service)
<1>1. {x \in E : Service(x) = service} = {x \in F : Service(x) = service}
  OBVIOUS
<1> QED BY <1>1 DEF CurrentOf

LEMMA CurrentIsOfService ==
  ASSUME NEW E, NEW s, NEW c \in CurrentOf(E, s)
  PROVE  c.latest \in E /\ Service(c.latest) = s
<1> DEFINE mine == {x \in E : Service(x) = s}
           drift == Cardinality({y.event.artifact : y \in mine} \ {NoArtifact})
           failing == Cardinality({y \in mine : Failing(y)})
<1>1. c \in {[latest |-> x, drift |-> drift, failing |-> failing] :
               x \in {y \in mine : \A z \in mine : ~Newer(z, y)}}
  BY DEF CurrentOf
<1> HIDE DEF drift, failing
<1>2. PICK x \in mine : c = [latest |-> x, drift |-> drift, failing |-> failing]
  BY <1>1
<1> QED BY <1>2

LEMMA CurrentRowsAre ==
  ASSUME NEW E, NEW c
  PROVE  c \in CurrentRows(E) <=> c \in CurrentOf(E, Service(c.latest))
<1>1. \A s : c \in CurrentOf(E, s) => c.latest \in E /\ Service(c.latest) = s
  BY CurrentIsOfService
<1>2. c \in CurrentRows(E) <=> \E x \in E : c \in CurrentOf(E, Service(x))
  BY DEF CurrentRows
<1> QED BY <1>1, <1>2

-----------------------------------------------------------------------------
(* The upserts.                                                            *)

\* The upsert of a row that is numbered after all others keeps one row for a
\* place, and one that beats every event of it.
LEMMA UpsertEnvKeeps ==
  ASSUME NEW S \in SUBSET Row, NEW E \in SUBSET S, NEW row \in Row,
         \A x, y \in E : SamePlace(x, y) => x = y
  PROVE  /\ UpsertEnv(E, row) \subseteq E \cup {row}
         /\ \A x, y \in UpsertEnv(E, row) : SamePlace(x, y) => x = y
         /\ (\A y \in S : \E x \in E : SamePlace(x, y) /\ ~Newer(y, x)) =>
              \A y \in S \cup {row} :
                \E x \in UpsertEnv(E, row) : SamePlace(x, y) /\ ~Newer(y, x)
<1>1. CASE \E x \in E : SamePlace(x, row) /\ ~Newer(row, x)
  BY <1>1 DEF UpsertEnv
<1>2. CASE ~\E x \in E : SamePlace(x, row) /\ ~Newer(row, x)
  <2> DEFINE new == {x \in E : ~SamePlace(x, row)} \cup {row}
  <2>1. UpsertEnv(E, row) = new
    BY <1>2 DEF UpsertEnv
  <2>2. \A x, y \in new : SamePlace(x, y) => x = y
    BY PlaceOrder
  <2>3. ASSUME \A y \in S : \E x \in E : SamePlace(x, y) /\ ~Newer(y, x),
               NEW y \in S \cup {row}
        PROVE  \E x \in new : SamePlace(x, y) /\ ~Newer(y, x)
    <3>1. CASE y = row
      BY <3>1, NewerOrder, PlaceOrder
    <3>2. CASE y # row
      <4>1. y \in S /\ y \in Row
        BY <3>2
      <4>2. PICK x \in E : SamePlace(x, y) /\ ~Newer(y, x)
        BY <2>3, <4>1
      <4>3. CASE ~SamePlace(x, row)
        BY <4>2, <4>3
      <4>4. CASE SamePlace(x, row)
        <5>1. Newer(row, x)
          BY <1>2, <4>4
        <5>2. ~Newer(y, row)
          BY <4>1, <4>2, <5>1, NewerOrder
        <5> QED BY <4>2, <4>4, <5>2, PlaceOrder
      <4> QED BY <4>3, <4>4
    <3> QED BY <3>1, <3>2
  <2> HIDE DEF new
  <2>4. new \subseteq E \cup {row}
    BY DEF new
  <2> QED BY <2>1, <2>2, <2>3, <2>4
<1> QED BY <1>1, <1>2

\* The refreshed current state: one row for a service, of its environments.
LEMMA UpsertCurrentKeeps ==
  ASSUME NEW C \in SUBSET Current, NEW E \in SUBSET Row, NEW service,
         IsFiniteSet(E), \A x, y \in E : x.seq = y.seq => x = y,
         \A c, d \in C : Service(c.latest) = Service(d.latest) => c = d
  PROVE  /\ UpsertCurrent(C, E, service) \subseteq Current
         /\ \A c \in UpsertCurrent(C, E, service) : c \in C \/ c.latest \in E
         /\ \A c, d \in UpsertCurrent(C, E, service) :
              Service(c.latest) = Service(d.latest) => c = d
<1> DEFINE new == CurrentOf(E, service)
           kept == {c \in C : Service(c.latest) # service}
<1>1. new \subseteq Current
  BY CurrentTypes
<1>2. \A c \in new : c.latest \in E /\ Service(c.latest) = service
  BY CurrentIsOneRow
<1>3. \A c, d \in new : c = d
  BY CurrentIsOneRow
<1>4. CASE new = {}
  BY <1>4 DEF UpsertCurrent
<1>5. CASE new # {}
  <2>1. UpsertCurrent(C, E, service) = kept \cup new
    BY <1>5 DEF UpsertCurrent
  <2> HIDE DEF new
  <2>2. \A c, d \in kept \cup new : Service(c.latest) = Service(d.latest) => c = d
    BY <1>2, <1>3
  <2> HIDE DEF kept
  <2>3. kept \subseteq C
    BY DEF kept
  <2> QED BY <1>1, <1>2, <2>1, <2>2, <2>3
<1> QED BY <1>4, <1>5

\* The current states stay those of the environments when the service of the
\* new row is the one that is refreshed.
LEMMA RefreshFollows ==
  ASSUME NEW E \in SUBSET Row, IsFiniteSet(E), NEW row \in Row
  PROVE  UpsertCurrent(CurrentRows(E), UpsertEnv(E, row), Service(row))
           = CurrentRows(UpsertEnv(E, row))
<1> DEFINE F == UpsertEnv(E, row)
           C == CurrentRows(E)
           service == Service(row)
           new == CurrentOf(F, service)
<1>1. F \subseteq E \cup {row} /\ \A x : Service(x) # service => (x \in E <=> x \in F)
  BY DEF UpsertEnv, SamePlace
<1>2. F \in SUBSET Row /\ IsFiniteSet(F)
  <2>1. IsFiniteSet(E \cup {row})
    BY FS_AddElement
  <2> QED BY <1>1, <2>1, FS_Subset
<1>3. \E x \in F : Service(x) = service
  BY DEF UpsertEnv, SamePlace
<1>4. new # {}
  BY <1>2, <1>3, CurrentExists
<1>5. \A s : s # service => CurrentOf(E, s) = CurrentOf(F, s)
  BY <1>1, CurrentDepends
<1>6. UpsertCurrent(C, F, service) = {c \in C : Service(c.latest) # service} \cup new
  BY <1>4 DEF UpsertCurrent
<1>7. \A c \in new : Service(c.latest) = service
  BY CurrentIsOfService
<1> HIDE DEF F, service
<1>8. ASSUME NEW c
      PROVE  c \in CurrentRows(F) <=> c \in UpsertCurrent(C, F, service)
  <2>1. /\ c \in CurrentRows(F) <=> c \in CurrentOf(F, Service(c.latest))
        /\ c \in C <=> c \in CurrentOf(E, Service(c.latest))
    BY CurrentRowsAre
  <2> HIDE DEF C
  <2> QED BY <1>5, <1>6, <1>7, <2>1
<1> HIDE DEF C
<1> QED BY <1>8 DEF C, F, service

\* The organization's rows go, and its services' current states with them.
LEMMA CurrentRowsCut ==
  ASSUME NEW E, NEW o
  PROVE  CurrentRows({x \in E : x.event.org # o})
           = {c \in CurrentRows(E) : c.latest.event.org # o}
<1> DEFINE F == {x \in E : x.event.org # o}
<1>1. ASSUME NEW c
      PROVE  c \in CurrentRows(F) <=> c \in CurrentRows(E) /\ c.latest.event.org # o
  <2> DEFINE s == Service(c.latest)
  <2>1. /\ c \in CurrentRows(F) <=> c \in CurrentOf(F, s)
        /\ c \in CurrentRows(E) <=> c \in CurrentOf(E, s)
    BY CurrentRowsAre
  <2>2. CASE c.latest.event.org = o
    <3>1. c \notin CurrentOf(F, s)
      BY <2>2, CurrentIsOfService
    <3> QED BY <2>1, <2>2, <3>1
  <2>3. CASE c.latest.event.org # o
    <3>1. \A x : Service(x) = s => (x \in E <=> x \in F)
      BY <2>3 DEF Service
    <3>2. CurrentOf(E, s) = CurrentOf(F, s)
      BY <3>1, CurrentDepends
    <3> QED BY <2>1, <2>3, <3>2
  <2> QED BY <2>2, <2>3
<1> HIDE DEF F
<1> QED BY <1>1 DEF F

\* What a set gains when an element may come to it.
LEMMA OneMore ==
  ASSUME NEW A, IsFiniteSet(A), NEW row, row \notin A, NEW n \in {0, 1}, NEW B,
         B = IF n = 1 THEN A \cup {row} ELSE A
  PROVE  Cardinality(B) = Cardinality(A) + n /\ Cardinality(A) \in Nat
<1>1. Cardinality(A) \in Nat
  BY FS_CardinalityType
<1>2. CASE n = 1
  BY <1>1, <1>2, FS_AddElement
<1>3. CASE n = 0
  BY <1>1, <1>3
<1> QED BY <1>2, <1>3, <1>1

LEMMA TallyCounts ==
  ASSUME NEW row
  PROVE  /\ Tally(row) = [success |-> Tally(row).success, failure |-> Tally(row).failure,
                          rollback |-> Tally(row).rollback]
         /\ Tally(row).success \in {0, 1}
         /\ Tally(row).failure \in {0, 1}
         /\ Tally(row).rollback \in {0, 1}
BY DEF Tally, One

\* The counters of the days, as the upsert keeps them and the rebuild counts them.
Successes(S, k) == {x \in {y \in S : Day(y) = k} : Tally(x).success = 1}
Failures(S, k) == {x \in {y \in S : Day(y) = k} : Tally(x).failure = 1}
Rollbacks(S, k) == {x \in {y \in S : Day(y) = k} : Tally(x).rollback = 1}

LEMMA DailyRowsAre ==
  ASSUME NEW S
  PROVE  DailyRows(S) =
           [k \in {Day(x) : x \in S} |->
              [success |-> Cardinality(Successes(S, k)), failure |-> Cardinality(Failures(S, k)),
               rollback |-> Cardinality(Rollbacks(S, k))]]
BY DEF DailyRows, Successes, Failures, Rollbacks

LEMMA DailyUpsertCounts ==
  ASSUME NEW S, IsFiniteSet(S), NEW row, row \notin S
  PROVE  UpsertDaily(DailyRows(S), row) = DailyRows(S \cup {row})
<1> DEFINE T == S \cup {row}
           D == DailyRows(S)
<1>1. DOMAIN D = {Day(x) : x \in S}
  BY DEF DailyRows
<1>2. {Day(x) : x \in T} = DOMAIN D \cup {Day(row)}
  BY <1>1
<1>3. ASSUME NEW k
      PROVE  /\ IsFiniteSet(Successes(S, k)) /\ IsFiniteSet(Failures(S, k))
             /\ IsFiniteSet(Rollbacks(S, k))
             /\ row \notin Successes(S, k) \cup Failures(S, k) \cup Rollbacks(S, k)
  <2>1. /\ Successes(S, k) \subseteq S /\ Failures(S, k) \subseteq S
        /\ Rollbacks(S, k) \subseteq S
    BY DEF Successes, Failures, Rollbacks
  <2> QED BY <2>1, FS_Subset
<1>4. ASSUME NEW k, k # Day(row)
      PROVE  /\ Successes(T, k) = Successes(S, k)
             /\ Failures(T, k) = Failures(S, k)
             /\ Rollbacks(T, k) = Rollbacks(S, k)
  BY <1>4 DEF Successes, Failures, Rollbacks
<1> DEFINE k == Day(row)
           t == Tally(row)
<1>5. /\ Successes(T, k) = IF t.success = 1 THEN Successes(S, k) \cup {row} ELSE Successes(S, k)
      /\ Failures(T, k) = IF t.failure = 1 THEN Failures(S, k) \cup {row} ELSE Failures(S, k)
      /\ Rollbacks(T, k) =
           IF t.rollback = 1 THEN Rollbacks(S, k) \cup {row} ELSE Rollbacks(S, k)
  BY DEF Successes, Failures, Rollbacks
<1>6. /\ t = [success |-> t.success, failure |-> t.failure, rollback |-> t.rollback]
      /\ t.success \in {0, 1} /\ t.failure \in {0, 1} /\ t.rollback \in {0, 1}
  BY TallyCounts
<1> HIDE DEF t, k, T
<1>7. /\ Cardinality(Successes(T, k)) = Cardinality(Successes(S, k)) + t.success
      /\ Cardinality(Failures(T, k)) = Cardinality(Failures(S, k)) + t.failure
      /\ Cardinality(Rollbacks(T, k)) = Cardinality(Rollbacks(S, k)) + t.rollback
  BY <1>3, <1>5, <1>6, OneMore
<1>8. k \notin DOMAIN D =>
        /\ Cardinality(Successes(T, k)) = t.success
        /\ Cardinality(Failures(T, k)) = t.failure
        /\ Cardinality(Rollbacks(T, k)) = t.rollback
  <2> SUFFICES ASSUME k \notin DOMAIN D
               PROVE  /\ Cardinality(Successes(T, k)) = t.success
                      /\ Cardinality(Failures(T, k)) = t.failure
                      /\ Cardinality(Rollbacks(T, k)) = t.rollback
    OBVIOUS
  <2>1. Successes(S, k) = {} /\ Failures(S, k) = {} /\ Rollbacks(S, k) = {}
    BY <1>1 DEF Successes, Failures, Rollbacks
  <2> QED BY <1>6, <1>7, <2>1, FS_EmptySet
<1>9. DailyRows(T) =
        [j \in DOMAIN D \cup {k} |->
           [success |-> Cardinality(Successes(T, j)), failure |-> Cardinality(Failures(T, j)),
            rollback |-> Cardinality(Rollbacks(T, j))]]
  BY <1>2, DailyRowsAre DEF k
<1>10. \A j \in DOMAIN D :
         D[j] = [success |-> Cardinality(Successes(S, j)), failure |-> Cardinality(Failures(S, j)),
                 rollback |-> Cardinality(Rollbacks(S, j))]
  BY <1>1, DailyRowsAre
<1> HIDE DEF D
<1>11. UpsertDaily(D, row) =
         [j \in DOMAIN D \cup {k} |->
            IF j # k THEN D[j]
            ELSE IF j \notin DOMAIN D THEN t
            ELSE [success  |-> D[j].success + t.success,
                  failure  |-> D[j].failure + t.failure,
                  rollback |-> D[j].rollback + t.rollback]]
  BY DEF UpsertDaily, k, t
<1>12. ASSUME NEW j \in DOMAIN D \cup {k}
       PROVE  UpsertDaily(D, row)[j] = DailyRows(T)[j]
  <2>1. CASE j # k
    <3>1. UpsertDaily(D, row)[j] = D[j]
      BY <1>11, <2>1
    <3> QED BY <1>4, <1>9, <1>10, <2>1, <3>1 DEF k
  <2>2. CASE j = k /\ k \notin DOMAIN D
    <3>1. UpsertDaily(D, row)[j] = t
      BY <1>11, <2>2
    <3> QED BY <1>6, <1>8, <1>9, <2>2, <3>1
  <2>3. CASE j = k /\ k \in DOMAIN D
    <3>1. UpsertDaily(D, row)[j] =
            [success  |-> D[j].success + t.success, failure  |-> D[j].failure + t.failure,
             rollback |-> D[j].rollback + t.rollback]
      BY <1>11, <2>3
    <3> QED BY <1>7, <1>9, <1>10, <2>3, <3>1
  <2> QED BY <2>1, <2>2, <2>3
<1>13. UpsertDaily(D, row) = DailyRows(T)
  BY <1>9, <1>11, <1>12
<1> QED BY <1>13 DEF D, T

LEMMA DayTypes ==
  ASSUME NEW row \in Row
  PROVE  Day(row) \in DayKey
<1>1. row.event.ts \in Nat /\ row.event.org \in Orgs /\ row.event.subject \in Subjects
  BY DEF Row, Event
<1>2. row.event.ts \div DayLength \in Nat
  BY <1>1, ProjectionAssumption
<1> QED BY <1>1, <1>2, ProjectionAssumption DEF Day, DayKey

LEMMA DailyTypes ==
  ASSUME NEW S \in SUBSET Row, IsFiniteSet(S)
  PROVE  /\ DOMAIN DailyRows(S) \subseteq DayKey
         /\ \A k \in DOMAIN DailyRows(S) : DailyRows(S)[k] \in Counts
<1>1. DOMAIN DailyRows(S) = {Day(x) : x \in S}
  BY DEF DailyRows
<1>2. ASSUME NEW k
      PROVE  /\ Cardinality(Successes(S, k)) \in Nat
             /\ Cardinality(Failures(S, k)) \in Nat
             /\ Cardinality(Rollbacks(S, k)) \in Nat
  <2>1. /\ Successes(S, k) \subseteq S /\ Failures(S, k) \subseteq S
        /\ Rollbacks(S, k) \subseteq S
    BY DEF Successes, Failures, Rollbacks
  <2> QED BY <2>1, FS_Subset, FS_CardinalityType
<1> QED BY <1>1, <1>2, DailyRowsAre, DayTypes DEF Counts

-----------------------------------------------------------------------------
(* The steps.                                                              *)

LEMMA ShownAreTyped ==
  ASSUME ProjectionsInv
  PROVE  /\ ServiceRows(store) \subseteq store /\ store \subseteq Row
         /\ envState \subseteq ServiceRows(store) /\ links \subseteq ServiceRows(store)
         /\ \A c \in current : c.latest \in ServiceRows(store)
         /\ IsFiniteSet(ServiceRows(store)) /\ IsFiniteSet(envState)
<1>1. /\ ServiceRows(store) \subseteq store /\ store \subseteq Row
      /\ envState \subseteq ServiceRows(store) /\ links \subseteq ServiceRows(store)
      /\ \A c \in current : c.latest \in ServiceRows(store)
  BY DEF ProjectionsInv, ProjectionsAreSound, TypeOK, ServiceRows
<1> QED BY <1>1, FS_Subset DEF ProjectionsInv

\* A step of the server keeps what the runs have made of the tables.
LEMMA RefilledStays ==
  ASSUME ProjectionsInv, UNCHANGED tool,
         Covered => Covered', Linked => Linked', Counted => Counted', Refreshed => Refreshed'
  PROVE  /\ Unreported'
         /\ NoRebuild' => Complete'
         /\ \A t \in Tools : Alone(t)' => Refilled(t)'
<1>1. (NoRebuild' <=> NoRebuild) /\ \A t \in Tools : Alone(t)' <=> Alone(t)
  BY DEF tool, NoRebuild, Alone
<1>2. NoRebuild' => Complete'
  BY <1>1 DEF ProjectionsInv, Complete
<1>3. ASSUME NEW t \in Tools, Alone(t)
      PROVE  Refilled(t)'
  <2>1. Refilled(t) /\ at' = at
    BY <1>3 DEF ProjectionsInv, tool
  <2> QED BY <2>1 DEF Refilled
<1>4. Unreported'
  BY DEF ProjectionsInv, Unreported, tool
<1> QED BY <1>1, <1>2, <1>3, <1>4

\* The row of an append has a number of its own.
LEMMA NewRow ==
  ASSUME ProjectionsInv, NEW e \in Event, NEW row, row = [seq |-> lastSeq + 1, event |-> e],
         lastSeq' = lastSeq + 1, store' = store \cup {row}
  PROVE  /\ row \in Row /\ row \notin store
         /\ store' \subseteq Row /\ lastSeq' \in Nat /\ IsFiniteSet(store') /\ Numbered'
         /\ ServiceRows(store') = IF e.type = "service" THEN ServiceRows(store) \cup {row}
                                  ELSE ServiceRows(store)
<1>1. lastSeq \in Nat /\ \A x \in store : x.seq \in Nat /\ x.seq <= lastSeq
  BY DEF ProjectionsInv, TypeOK, Numbered, Row
<1>2. row \in Row /\ row.seq = lastSeq + 1 /\ row.event = e
  BY <1>1 DEF Row
<1>3. row \notin store
  BY <1>1, <1>2
<1>4. store' \subseteq Row /\ lastSeq' \in Nat
  BY <1>1, <1>2 DEF ProjectionsInv, TypeOK
<1>5. IsFiniteSet(store')
  BY FS_AddElement DEF ProjectionsInv
<1>6. Numbered'
  BY <1>1, <1>2 DEF ProjectionsInv, Numbered
<1>7. ServiceRows(store') = IF e.type = "service" THEN ServiceRows(store) \cup {row}
                            ELSE ServiceRows(store)
  BY <1>2 DEF ServiceRows
<1> QED BY <1>2, <1>3, <1>4, <1>5, <1>6, <1>7

LEMMA AppendServiceKeeps ==
  ASSUME ProjectionsInv, NEW e \in Event, AppendService(e)
  PROVE  ProjectionsInv'
<1>1. PICK row : row = [seq |-> lastSeq + 1, event |-> e]
  OBVIOUS
<1> DEFINE S == ServiceRows(store)
           service == <<e.org, GoName[e.subject]>>
<1>2. /\ e.type = "service" /\ lastSeq' = lastSeq + 1 /\ store' = store \cup {row}
      /\ envState' = UpsertEnv(envState, row) /\ daily' = UpsertDaily(daily, row)
      /\ links' = links \cup {row} /\ UNCHANGED tool
      /\ current' = IF GoName[e.subject] = NoName THEN current
                    ELSE UpsertCurrent(current, envState', service)
  BY <1>1 DEF AppendService, UpsertLink
<1>3. /\ row \in Row /\ row \notin store
      /\ store' \subseteq Row /\ lastSeq' \in Nat /\ IsFiniteSet(store') /\ Numbered'
      /\ ServiceRows(store') = S \cup {row}
  BY <1>1, <1>2, NewRow
<1>4. /\ S \subseteq store /\ store \subseteq Row /\ envState \subseteq S /\ links \subseteq S
      /\ \A c \in current : c.latest \in S
      /\ IsFiniteSet(S) /\ IsFiniteSet(envState)
  BY ShownAreTyped
<1>5. \A x, y \in envState : SamePlace(x, y) => x = y
  BY DEF ProjectionsInv, ProjectionsAreSound
<1> HIDE DEF S, service
<1>6. /\ envState' \subseteq envState \cup {row}
      /\ \A x, y \in envState' : SamePlace(x, y) => x = y
      /\ (\A y \in S : \E x \in envState : SamePlace(x, y) /\ ~Newer(y, x)) =>
           \A y \in S \cup {row} : \E x \in envState' : SamePlace(x, y) /\ ~Newer(y, x)
  <2>1. S \in SUBSET Row /\ envState \in SUBSET S
    BY <1>4
  <2> DEFINE new == UpsertEnv(envState, row)
  <2>2. /\ new \subseteq envState \cup {row}
        /\ \A x, y \in new : SamePlace(x, y) => x = y
        /\ (\A y \in S : \E x \in envState : SamePlace(x, y) /\ ~Newer(y, x)) =>
             \A y \in S \cup {row} : \E x \in new : SamePlace(x, y) /\ ~Newer(y, x)
    BY <1>3, <1>5, <2>1, UpsertEnvKeeps
  <2>3. envState' = new
    BY <1>2
  <2> HIDE DEF new
  <2> QED BY <2>2, <2>3
<1>7. /\ current' \subseteq Current
      /\ \A c \in current' : c.latest \in S \cup {row}
      /\ \A c, d \in current' : Service(c.latest) = Service(d.latest) => c = d
  <2>1. /\ current \in SUBSET Current
        /\ \A c, d \in current : Service(c.latest) = Service(d.latest) => c = d
    BY DEF ProjectionsInv, ProjectionsAreSound, TypeOK
  <2>2. CASE GoName[e.subject] = NoName
    BY <1>2, <1>4, <2>1, <2>2
  <2>3. CASE GoName[e.subject] # NoName
    <3>1. envState' \subseteq S \cup {row} /\ envState' \in SUBSET Row
          /\ envState' \subseteq store'
      BY <1>2, <1>3, <1>4, <1>6
    <3>2. \A x, y \in envState' : x.seq = y.seq => x = y
      BY <1>3, <3>1 DEF Numbered
    <3>3. IsFiniteSet(envState')
      BY <1>3, <3>1, FS_Subset
    <3>4. current' = UpsertCurrent(current, envState', service)
      BY <1>2, <2>3
    <3>5. /\ current' \subseteq Current
          /\ \A c \in current' : c \in current \/ c.latest \in envState'
          /\ \A c, d \in current' : Service(c.latest) = Service(d.latest) => c = d
      BY <2>1, <3>1, <3>2, <3>3, <3>4, UpsertCurrentKeeps
    <3> QED BY <1>4, <3>1, <3>5
  <2> QED BY <2>2, <2>3
<1>8. /\ DOMAIN daily' \subseteq DayKey
      /\ \A k \in DOMAIN daily' : daily'[k] \in Counts
  <2>1. /\ DOMAIN daily \subseteq DayKey /\ \A k \in DOMAIN daily : daily[k] \in Counts
    BY DEF ProjectionsInv, TypeOK
  <2>2. Day(row) \in DayKey
    BY <1>3, DayTypes
  <2>3. /\ Tally(row) \in Counts /\ Tally(row).success \in Nat /\ Tally(row).failure \in Nat
        /\ Tally(row).rollback \in Nat
    BY DEF Tally, Counts, One
  <2>4. /\ DOMAIN daily' = DOMAIN daily \cup {Day(row)}
        /\ \A k \in DOMAIN daily' :
             daily'[k] = IF k # Day(row) THEN daily[k]
                         ELSE IF k \notin DOMAIN daily THEN Tally(row)
                         ELSE [success  |-> daily[k].success + Tally(row).success,
                               failure  |-> daily[k].failure + Tally(row).failure,
                               rollback |-> daily[k].rollback + Tally(row).rollback]
    BY <1>2 DEF UpsertDaily
  <2>5. ASSUME NEW k \in DOMAIN daily'
        PROVE  daily'[k] \in Counts
    <3>1. CASE k # Day(row) \/ k \notin DOMAIN daily
      BY <2>1, <2>3, <2>4, <3>1
    <3>2. CASE k = Day(row) /\ k \in DOMAIN daily
      <4>1. /\ daily[k].success \in Nat /\ daily[k].failure \in Nat /\ daily[k].rollback \in Nat
        BY <2>1, <3>2 DEF Counts
      <4> DEFINE t == Tally(row)
      <4>2. t.success \in Nat /\ t.failure \in Nat /\ t.rollback \in Nat
        BY <2>3
      <4>3. daily'[k] = [success  |-> daily[k].success + t.success,
                         failure  |-> daily[k].failure + t.failure,
                         rollback |-> daily[k].rollback + t.rollback]
        BY <2>4, <3>2
      <4> HIDE DEF t
      <4>4. /\ daily[k].success + t.success \in Nat /\ daily[k].failure + t.failure \in Nat
            /\ daily[k].rollback + t.rollback \in Nat
        BY <4>1, <4>2
      <4> QED BY <4>3, <4>4 DEF Counts
    <3> QED BY <3>1, <3>2
  <2> QED BY <2>1, <2>2, <2>4, <2>5
<1>9. TypeOK'
  BY <1>2, <1>3, <1>4, <1>6, <1>7, <1>8 DEF ProjectionsInv, TypeOK, tool
<1>10. ProjectionsAreSound'
  <2>1. envState' \subseteq ServiceRows(store') /\ links' \subseteq ServiceRows(store')
    BY <1>2, <1>3, <1>4, <1>6
  <2>2. \A c \in current' : c.latest \in ServiceRows(store')
    BY <1>3, <1>7
  <2> QED BY <1>6, <1>7, <2>1, <2>2 DEF ProjectionsAreSound
<1>11. DaysAreOfEvents'
  <2>1. DOMAIN daily' = DOMAIN daily \cup {Day(row)}
    BY <1>2 DEF UpsertDaily
  <2>2. DOMAIN daily \subseteq {Day(x) : x \in S}
    BY DEF ProjectionsInv, DaysAreOfEvents, S
  <2>3. DOMAIN daily' \subseteq {Day(x) : x \in S \cup {row}}
    BY <2>1, <2>2
  <2> QED BY <1>3, <2>3 DEF DaysAreOfEvents
<1>12. Covered => Covered'
  BY <1>3, <1>6 DEF Covered, S
<1>13. Linked => Linked'
  BY <1>2, <1>3 DEF Linked, S
<1>14. Counted => Counted'
  BY <1>2, <1>3, <1>4, DailyUpsertCounts DEF Counted, S
<1>15. Refreshed => Refreshed'
  <2> SUFFICES ASSUME PlainNames, current = CurrentRows(envState)
               PROVE  current' = CurrentRows(envState')
    BY DEF Refreshed
  <2>1. GoName[e.subject] # NoName /\ service = Service(row)
    BY <1>1 DEF PlainNames, Event, Service, service
  <2>2. current' = UpsertCurrent(CurrentRows(envState), UpsertEnv(envState, row), Service(row))
    BY <1>2, <2>1
  <2>3. envState \in SUBSET Row /\ IsFiniteSet(envState) /\ row \in Row
    BY <1>3, <1>4
  <2>4. current' = CurrentRows(UpsertEnv(envState, row))
    BY <2>2, <2>3, RefreshFollows
  <2> QED BY <1>2, <2>4
<1>16. /\ Unreported'
       /\ NoRebuild' => Complete'
       /\ \A t \in Tools : Alone(t)' => Refilled(t)'
  BY <1>2, <1>12, <1>13, <1>14, <1>15, RefilledStays
<1> QED BY <1>3, <1>9, <1>10, <1>11, <1>16 DEF ProjectionsInv

\* The tables are as they were, and so are the service events of the store.
LEMMA TablesStay ==
  ASSUME ProjectionsInv, UNCHANGED <<tables, tool>>, ServiceRows(store') = ServiceRows(store),
         store' \subseteq Row, lastSeq' \in Nat, IsFiniteSet(store'), Numbered'
  PROVE  ProjectionsInv'
<1>1. TypeOK'
  BY DEF ProjectionsInv, TypeOK, tables, tool
<1>2. ProjectionsAreSound'
  BY DEF ProjectionsInv, ProjectionsAreSound, tables
<1>3. DaysAreOfEvents'
  BY DEF ProjectionsInv, DaysAreOfEvents, tables
<1>4. /\ Covered => Covered'
      /\ Linked => Linked'
      /\ Counted => Counted'
      /\ Refreshed => Refreshed'
  BY DEF Covered, Linked, Counted, Refreshed, tables
<1>5. /\ Unreported'
      /\ NoRebuild' => Complete'
      /\ \A t \in Tools : Alone(t)' => Refilled(t)'
  BY <1>4, RefilledStays
<1> QED BY <1>1, <1>2, <1>3, <1>5 DEF ProjectionsInv

LEMMA AppendKeeps ==
  ASSUME ProjectionsInv, NEW e \in Event, AppendEventStore(e)
  PROVE  ProjectionsInv'
<1>1. CASE AppendDuplicate(e)
  <2>1. lastSeq \in Nat /\ lastSeq' = lastSeq + 1 /\ store' = store
        /\ \A x \in store : x.seq \in Nat
    BY <1>1 DEF AppendDuplicate, ProjectionsInv, TypeOK, Row
  <2>2. Numbered'
    BY <2>1 DEF ProjectionsInv, Numbered
  <2> QED BY <1>1, <2>1, <2>2, TablesStay DEF AppendDuplicate, ProjectionsInv, TypeOK
<1>2. CASE AppendOther(e)
  BY <1>2, NewRow, TablesStay DEF AppendOther
<1> QED BY <1>1, <1>2, AppendServiceKeeps DEF AppendEventStore

\* What goes with an organization goes from every table.
LEMMA DeleteKeeps ==
  ASSUME ProjectionsInv, NEW o \in Orgs, DeleteOrganization(o)
  PROVE  ProjectionsInv'
<1> DEFINE S == ServiceRows(store)
           left == {row \in S : row.event.org # o}
<1>1. /\ store' = {row \in store : row.event.org # o}
      /\ envState' = {row \in envState : row.event.org # o}
      /\ current' = {c \in current : c.latest.event.org # o}
      /\ daily' = [k \in {j \in DOMAIN daily : j.org # o} |-> daily[k]]
      /\ links' = {row \in links : row.event.org # o}
      /\ UNCHANGED <<lastSeq, tool>>
  BY DEF DeleteOrganization
<1>2. ServiceRows(store') = left
  BY <1>1 DEF ServiceRows
<1>3. IsFiniteSet(store') /\ Numbered'
  BY <1>1, FS_Subset DEF ProjectionsInv, Numbered
<1>4. TypeOK'
  BY <1>1 DEF ProjectionsInv, TypeOK, tool
<1>5. ProjectionsAreSound'
  BY <1>1, <1>2 DEF ProjectionsInv, ProjectionsAreSound
<1>6. Covered => Covered'
  <2> SUFFICES ASSUME Covered, NEW y \in left
               PROVE  \E x \in envState' : SamePlace(x, y) /\ ~Newer(y, x)
    BY <1>2 DEF Covered
  <2>1. PICK x \in envState : SamePlace(x, y) /\ ~Newer(y, x)
    BY DEF Covered
  <2>2. x.event.org = y.event.org
    BY <2>1 DEF SamePlace, Service
  <2> QED BY <1>1, <2>1, <2>2
<1>7. Linked => Linked'
  BY <1>1, <1>2 DEF Linked
<1>8. Counted => Counted'
  <2> SUFFICES ASSUME Counted PROVE Counted'
    OBVIOUS
  <2>1. daily' = DailyRows(left)
    <3>1. daily = DailyRows(S)
      BY DEF Counted
    <3>2. \A x : Day(x).org = x.event.org
      BY DEF Day
    <3>3. {j \in DOMAIN daily : j.org # o} = {Day(x) : x \in left}
      BY <3>1, <3>2 DEF DailyRows
    <3>4. ASSUME NEW k, k.org # o
          PROVE  /\ Successes(left, k) = Successes(S, k)
                 /\ Failures(left, k) = Failures(S, k)
                 /\ Rollbacks(left, k) = Rollbacks(S, k)
      BY <3>2, <3>4 DEF Successes, Failures, Rollbacks
    <3>5. ASSUME NEW k \in {Day(x) : x \in left}
          PROVE  daily'[k] = DailyRows(left)[k]
      <4>1. k.org # o /\ k \in {Day(x) : x \in S}
        BY <3>2
      <4>2. daily'[k] = DailyRows(S)[k]
        BY <1>1, <3>1, <3>3
      <4> DEFINE At(T) == [success |-> Cardinality(Successes(T, k)),
                           failure |-> Cardinality(Failures(T, k)),
                           rollback |-> Cardinality(Rollbacks(T, k))]
      <4>3. DailyRows(S)[k] = At(S)
        BY <4>1, DailyRowsAre
      <4>4. DailyRows(left)[k] = At(left)
        BY DailyRowsAre
      <4>5. At(left) = At(S)
        BY <3>4, <4>1
      <4> QED BY <4>2, <4>3, <4>4, <4>5
    <3>6. DOMAIN daily' = {Day(x) : x \in left} /\ DOMAIN DailyRows(left) = {Day(x) : x \in left}
      BY <1>1, <3>3 DEF DailyRows
    <3>7. /\ daily' = [k \in DOMAIN daily' |-> daily'[k]]
          /\ DailyRows(left) = [k \in DOMAIN DailyRows(left) |-> DailyRows(left)[k]]
      BY <1>1 DEF DailyRows
    <3> QED BY <3>5, <3>6, <3>7
  <2> QED BY <1>2, <2>1 DEF Counted
<1>9. Refreshed => Refreshed'
  <2>1. CurrentRows(envState') = {c \in CurrentRows(envState) : c.latest.event.org # o}
    BY <1>1, CurrentRowsCut
  <2> QED BY <1>1, <2>1 DEF Refreshed, PlainNames
<1>10. DaysAreOfEvents'
  <2>1. \A x : Day(x).org = x.event.org
    BY DEF Day
  <2>2. DOMAIN daily' = {j \in DOMAIN daily : j.org # o}
    BY <1>1
  <2> QED BY <1>2, <2>1, <2>2 DEF ProjectionsInv, DaysAreOfEvents
<1>11. /\ Unreported'
       /\ NoRebuild' => Complete'
       /\ \A t \in Tools : Alone(t)' => Refilled(t)'
  BY <1>1, <1>6, <1>7, <1>8, <1>9, RefilledStays
<1> QED BY <1>3, <1>4, <1>5, <1>10, <1>11 DEF ProjectionsInv

\* A run of the tool, once started, shows in its statement or its report.
LEMMA RebuildShows ==
  ASSUME ProjectionsInv, NEW t \in Tools, Rebuild(t)
  PROVE  /\ ~(at'[t] = 0 /\ report'[t] = "none")
         /\ \A u \in Tools \ {t} : at'[u] = at[u] /\ report'[u] = report[u]
         /\ at' \in [Tools -> {0} \cup Statements]
         /\ report' \in [Tools -> {"none", "done", "failed"}]
<1>1. /\ at \in [Tools -> {0} \cup Statements]
      /\ report \in [Tools -> {"none", "done", "failed"}]
  BY DEF ProjectionsInv, TypeOK
<1>2. CASE StartRebuild(t)
  BY <1>1, <1>2 DEF StartRebuild, Statements
<1>3. CASE Clear(t)
  BY <1>1, <1>3 DEF Clear, Statements
<1>4. CASE Refill(t)
  BY <1>1, <1>4 DEF Refill, Statements
<1>5. CASE RefillFails(t)
  BY <1>1, <1>5 DEF RefillFails, Statements
<1>6. CASE Die(t)
  BY <1>1, <1>6 DEF Die, Statements
<1> QED BY <1>2, <1>3, <1>4, <1>5, <1>6 DEF Rebuild

\* The INSERT of the environments finds none of their places taken.
LEMMA RefillEnv ==
  ASSUME ProjectionsInv, NEW new, new = envState \cup Latest(ServiceRows(store)), ~Conflict(5)
  PROVE  /\ new \subseteq ServiceRows(store)
         /\ \A x, y \in new : SamePlace(x, y) => x = y
<1> DEFINE S == ServiceRows(store)
<1>1. /\ S \subseteq store /\ S \subseteq Row /\ envState \subseteq S
      /\ \A x, y \in envState : SamePlace(x, y) => x = y
  BY ShownAreTyped DEF ProjectionsInv, ProjectionsAreSound
<1>2. Latest(S) \subseteq S
  BY DEF Latest
<1>3. ASSUME NEW x \in Latest(S), NEW y \in Latest(S), SamePlace(x, y)
      PROVE  x = y
  <2>1. ~Newer(x, y) /\ ~Newer(y, x)
    BY <1>2, <1>3, PlaceOrder DEF Latest
  <2>2. x.seq = y.seq
    BY <1>1, <1>2, <2>1, NewerOrder
  <2> QED BY <1>1, <1>2, <2>2 DEF ProjectionsInv, Numbered
<1>4. \A x \in envState, y \in Latest(S) : ~SamePlace(x, y)
  BY <1>2 DEF Conflict
<1> HIDE DEF S
<1> QED BY <1>1, <1>2, <1>3, <1>4, PlaceOrder DEF S

\* The INSERT of the current states finds none of their services there.
LEMMA RefillCurrent ==
  ASSUME ProjectionsInv, NEW new, new = current \cup CurrentRows(envState), ~Conflict(6)
  PROVE  /\ new \subseteq Current
         /\ \A c \in new : c.latest \in ServiceRows(store)
         /\ \A c, d \in new : Service(c.latest) = Service(d.latest) => c = d
<1>1. /\ envState \subseteq ServiceRows(store) /\ envState \in SUBSET Row
      /\ envState \subseteq store /\ IsFiniteSet(envState)
      /\ current \subseteq Current /\ \A c \in current : c.latest \in ServiceRows(store)
      /\ \A c, d \in current : Service(c.latest) = Service(d.latest) => c = d
  BY ShownAreTyped DEF ProjectionsInv, ProjectionsAreSound, TypeOK
<1>2. \A x, y \in envState : x.seq = y.seq => x = y
  BY <1>1 DEF ProjectionsInv, Numbered
<1>3. ASSUME NEW c \in CurrentRows(envState)
      PROVE  /\ c \in Current /\ c.latest \in envState
             /\ c \in CurrentOf(envState, Service(c.latest))
  <2>1. PICK x \in envState : c \in CurrentOf(envState, Service(x))
    BY DEF CurrentRows
  <2>2. c \in Current
    BY <1>1, <2>1, CurrentTypes
  <2>3. c.latest \in envState /\ Service(c.latest) = Service(x)
    BY <1>1, <1>2, <2>1, CurrentIsOneRow
  <2> QED BY <2>1, <2>2, <2>3
<1>4. ASSUME NEW c \in CurrentRows(envState), NEW d \in CurrentRows(envState),
             Service(c.latest) = Service(d.latest)
      PROVE  c = d
  <2>1. /\ c \in CurrentOf(envState, Service(c.latest))
        /\ d \in CurrentOf(envState, Service(c.latest))
    BY <1>3, <1>4
  <2> QED BY <1>1, <1>2, <2>1, CurrentIsOneRow
<1>5. \A c \in current, x \in envState : Service(c.latest) # Service(x)
  BY DEF Conflict
<1> DEFINE rows == CurrentRows(envState)
<1> HIDE DEF rows
<1>6. /\ \A c \in rows : c \in Current /\ c.latest \in envState
      /\ \A c, d \in rows : Service(c.latest) = Service(d.latest) => c = d
  BY <1>3, <1>4 DEF rows
<1>7. new = current \cup rows
  BY DEF rows
<1> QED BY <1>1, <1>5, <1>6, <1>7

\* An INSERT of a run that no other meets finds its table empty, or fails: what
\* the table holds is of events that the INSERT would write too.
LEMMA RefillCompletes ==
  ASSUME ProjectionsInv, NEW t \in Tools, Alone(t), Refill(t)
  PROVE  /\ at[t] \in 5..8 => Covered'
         /\ at[t] \in 6..8 => Refreshed'
         /\ at[t] \in 7..8 => Counted'
         /\ at[t] = 8 => Linked'
<1> DEFINE S == ServiceRows(store)
<1>1. /\ S \subseteq Row /\ IsFiniteSet(S) /\ envState \subseteq S /\ links \subseteq S
      /\ \A c \in current : c.latest \in S
      /\ DOMAIN daily \subseteq {Day(x) : x \in S}
      /\ Refilled(t)
  BY ShownAreTyped DEF ProjectionsInv, DaysAreOfEvents
<1>2. /\ at[t] \in 5..8 /\ ~Conflict(at[t]) /\ UNCHANGED store
      /\ envState' = IF at[t] = 5 THEN envState \cup Latest(S) ELSE envState
      /\ current'  = IF at[t] = 6 THEN current \cup CurrentRows(envState) ELSE current
      /\ daily'    = IF at[t] = 7
                     THEN [k \in DOMAIN daily \cup DOMAIN DailyRows(S) |->
                             IF k \in DOMAIN daily THEN daily[k] ELSE DailyRows(S)[k]]
                     ELSE daily
      /\ links'    = IF at[t] = 8 THEN links \cup S ELSE links
  BY DEF Refill
<1>3. Covered'
  <2>1. CASE at[t] = 5
    <3> SUFFICES ASSUME NEW y \in S PROVE \E x \in Latest(S) : SamePlace(x, y) /\ ~Newer(y, x)
      BY <1>2, <2>1 DEF Covered
    <3> DEFINE mine == {x \in S : SamePlace(x, y)}
    <3>1. mine \in SUBSET Row /\ IsFiniteSet(mine) /\ mine # {}
      BY <1>1, FS_Subset, PlaceOrder
    <3> HIDE DEF mine
    <3>2. PICK x \in mine : \A z \in mine : ~Newer(z, x)
      BY <3>1, NewestExists
    <3> QED BY <3>2, PlaceOrder DEF Latest, mine
  <2>2. CASE at[t] \in 6..8
    BY <1>1, <1>2, <2>2 DEF Refilled, Covered
  <2> QED BY <1>2, <2>1, <2>2
<1>4. at[t] \in 6..8 => Refreshed'
  <2>1. CASE at[t] = 6
    <3>1. \A y \in S : \E x \in envState : SamePlace(x, y)
      BY <1>1, <2>1 DEF Refilled, Covered
    <3>2. ~ \E c \in current, x \in envState : Service(c.latest) = Service(x)
      BY <1>2, <2>1 DEF Conflict
    <3>3. current = {}
      BY <1>1, <3>1, <3>2 DEF SamePlace
    <3> QED BY <1>2, <2>1, <3>3 DEF Refreshed
  <2>2. CASE at[t] \in 7..8
    BY <1>1, <1>2, <2>2 DEF Refilled, Refreshed, PlainNames
  <2> QED BY <2>1, <2>2
<1>5. at[t] \in 7..8 => Counted'
  <2>1. CASE at[t] = 7
    <3>1. ~ \E x \in S : Day(x) \in DOMAIN daily
      BY <1>2, <2>1 DEF Conflict
    <3>2. DOMAIN daily = {}
      BY <1>1, <3>1
    <3> DEFINE D == DailyRows(S)
    <3>3. daily' = [k \in DOMAIN daily \cup DOMAIN D |->
                      IF k \in DOMAIN daily THEN daily[k] ELSE D[k]]
      BY <1>2, <2>1
    <3>4. D = [k \in DOMAIN D |-> D[k]]
      BY DEF DailyRows
    <3> HIDE DEF D
    <3>5. daily' = D
      BY <3>2, <3>3, <3>4
    <3> QED BY <1>2, <3>5 DEF Counted, D
  <2>2. CASE at[t] = 8
    BY <1>1, <1>2, <2>2 DEF Refilled, Counted
  <2> QED BY <2>1, <2>2
<1>6. at[t] = 8 => Linked'
  BY <1>1, <1>2 DEF Linked
<1> QED BY <1>3, <1>4, <1>5, <1>6

\* A run's step keeps what it, alone, has made of the tables.
LEMMA RefilledKeeps ==
  ASSUME ProjectionsInv, NEW t \in Tools, Rebuild(t), NEW u \in Tools, Alone(u)'
  PROVE  Refilled(u)'
<1>1. /\ ~(at'[t] = 0 /\ report'[t] = "none")
      /\ \A v \in Tools \ {t} : at'[v] = at[v] /\ report'[v] = report[v]
  BY RebuildShows
<1>2. u = t /\ Alone(t)
  BY <1>1 DEF Alone
<1>3. at \in [Tools -> {0} \cup Statements]
  BY DEF ProjectionsInv, TypeOK
<1>4. CASE Refill(t)
  <2>1. /\ at[t] \in 5..8 => Covered'
        /\ at[t] \in 6..8 => Refreshed'
        /\ at[t] \in 7..8 => Counted'
    BY <1>2, <1>4, RefillCompletes
  <2>2. at'[t] = IF at[t] = 8 THEN 0 ELSE at[t] + 1
    BY <1>3, <1>4 DEF Refill
  <2> QED BY <1>2, <1>3, <2>1, <2>2 DEF Refilled, Statements
<1>5. CASE ~Refill(t)
  <2>1. at'[t] \notin 6..8
    BY <1>3, <1>5 DEF Rebuild, StartRebuild, Clear, RefillFails, Die
  <2> QED BY <1>2, <2>1 DEF Refilled
<1> QED BY <1>4, <1>5

LEMMA RebuildKeeps ==
  ASSUME ProjectionsInv, NEW t \in Tools, Rebuild(t)
  PROVE  ProjectionsInv'
<1>1. /\ ~NoRebuild'
      /\ at' \in [Tools -> {0} \cup Statements]
      /\ report' \in [Tools -> {"none", "done", "failed"}]
  BY RebuildShows DEF NoRebuild
<1>2. UNCHANGED <<store, lastSeq>>
  BY DEF Rebuild, StartRebuild, Clear, Refill, RefillFails, Die
<1>3. /\ IsFiniteSet(store') /\ Numbered' /\ store' \subseteq Row /\ lastSeq' \in Nat
      /\ ServiceRows(store') = ServiceRows(store)
  BY <1>2 DEF ProjectionsInv, Numbered, TypeOK
<1> DEFINE S == ServiceRows(store)
<1>4. /\ S \subseteq Row /\ IsFiniteSet(S)
      /\ envState \subseteq S /\ links \subseteq S /\ \A c \in current : c.latest \in S
      /\ \A x, y \in envState : SamePlace(x, y) => x = y
      /\ \A c, d \in current : Service(c.latest) = Service(d.latest) => c = d
      /\ current \subseteq Current
      /\ DOMAIN daily \subseteq DayKey /\ \A k \in DOMAIN daily : daily[k] \in Counts
  BY ShownAreTyped DEF ProjectionsInv, ProjectionsAreSound, TypeOK
<1> HIDE DEF S
<1>5. envState' \subseteq S /\ \A x, y \in envState' : SamePlace(x, y) => x = y
  <2>1. CASE Refill(t) /\ at[t] = 5
    BY <2>1, RefillEnv DEF Refill, S
  <2>2. CASE envState' = envState \/ envState' = {}
    BY <1>4, <2>2
  <2>3. envState' = envState \/ envState' = {} \/ (Refill(t) /\ at[t] = 5)
    BY DEF Rebuild, StartRebuild, Clear, Refill, RefillFails, Die, tables
  <2> QED BY <2>1, <2>2, <2>3
<1>6. /\ current' \subseteq Current /\ \A c \in current' : c.latest \in S
      /\ \A c, d \in current' : Service(c.latest) = Service(d.latest) => c = d
  <2>1. CASE Refill(t) /\ at[t] = 6
    BY <2>1, RefillCurrent DEF Refill, S
  <2>2. CASE current' = current \/ current' = {}
    BY <1>4, <2>2
  <2>3. current' = current \/ current' = {} \/ (Refill(t) /\ at[t] = 6)
    BY DEF Rebuild, StartRebuild, Clear, Refill, RefillFails, Die, tables
  <2> QED BY <2>1, <2>2, <2>3
<1>7. DOMAIN daily' \subseteq DayKey /\ \A k \in DOMAIN daily' : daily'[k] \in Counts
  <2>1. CASE Refill(t) /\ at[t] = 7
    <3> DEFINE D == DailyRows(S)
    <3>1. DOMAIN D \subseteq DayKey /\ \A k \in DOMAIN D : D[k] \in Counts
      BY <1>4, DailyTypes
    <3>2. daily' = [k \in DOMAIN daily \cup DOMAIN D |->
                      IF k \in DOMAIN daily THEN daily[k] ELSE D[k]]
      BY <2>1 DEF Refill, S
    <3> HIDE DEF D
    <3> QED BY <1>4, <3>1, <3>2
  <2>2. CASE daily' = daily \/ DOMAIN daily' = {}
    BY <1>4, <2>2
  <2>3. daily' = daily \/ DOMAIN daily' = {} \/ (Refill(t) /\ at[t] = 7)
    BY DEF Rebuild, StartRebuild, Clear, Refill, RefillFails, Die, tables
  <2> QED BY <2>1, <2>2, <2>3
<1>8. links' \subseteq S
  BY <1>4 DEF Rebuild, StartRebuild, Clear, Refill, RefillFails, Die, tables, S
<1>9. TypeOK'
  BY <1>1, <1>3, <1>4, <1>5, <1>6, <1>7, <1>8 DEF TypeOK
<1>10. ProjectionsAreSound'
  <2>1. envState' \cup links' \cup {c.latest : c \in current'} \subseteq S
    BY <1>5, <1>6, <1>8
  <2> QED BY <1>3, <1>5, <1>6, <2>1 DEF ProjectionsAreSound, S
<1>11. DaysAreOfEvents'
  <2>1. DOMAIN daily \subseteq {Day(x) : x \in S}
    BY DEF ProjectionsInv, DaysAreOfEvents, S
  <2>2. CASE Refill(t) /\ at[t] = 7
    <3>1. DOMAIN daily' = DOMAIN daily \cup DOMAIN DailyRows(S)
      BY <2>2 DEF Refill, S
    <3>2. DOMAIN DailyRows(S) = {Day(x) : x \in S}
      BY DEF DailyRows
    <3> QED BY <1>3, <2>1, <3>1, <3>2 DEF DaysAreOfEvents, S
  <2>3. CASE daily' = daily \/ DOMAIN daily' = {}
    BY <1>3, <2>1, <2>3 DEF DaysAreOfEvents, S
  <2>4. daily' = daily \/ DOMAIN daily' = {} \/ (Refill(t) /\ at[t] = 7)
    BY DEF Rebuild, StartRebuild, Clear, Refill, RefillFails, Die, tables
  <2> QED BY <2>2, <2>3, <2>4
<1>12. Unreported'
  <2>1. /\ \A u \in Tools \ {t} : at'[u] = at[u] /\ report'[u] = report[u]
        /\ at \in [Tools -> {0} \cup Statements]
        /\ report \in [Tools -> {"none", "done", "failed"}]
    BY RebuildShows DEF ProjectionsInv, TypeOK
  <2>2. at'[t] # 0 => report'[t] = "none"
    BY <2>1 DEF Rebuild, StartRebuild, Clear, Refill, RefillFails, Die, ProjectionsInv,
                Unreported
  <2> QED BY <2>1, <2>2 DEF ProjectionsInv, Unreported
<1> QED BY <1>1, <1>3, <1>9, <1>10, <1>11, <1>12, RefilledKeeps DEF ProjectionsInv

-----------------------------------------------------------------------------
(* The invariant holds, and what it gives.                                 *)

LEMMA ProjectionsInvInit == Init => ProjectionsInv
<1> SUFFICES ASSUME Init PROVE ProjectionsInv
  OBVIOUS
<1>1. TypeOK
  BY DEF Init, TypeOK
<1>2. ServiceRows(store) = {} /\ IsFiniteSet(store) /\ Numbered
  BY FS_EmptySet DEF Init, ServiceRows, Numbered
<1>3. ProjectionsAreSound
  BY <1>2 DEF Init, ProjectionsAreSound
<1>4. daily = DailyRows({})
  BY DEF Init, DailyRows
<1>5. Complete /\ DaysAreOfEvents /\ Unreported
  BY <1>2, <1>4 DEF Init, Complete, Covered, Linked, Counted, Refreshed, CurrentRows,
                    DaysAreOfEvents, Unreported
<1>6. \A t \in Tools : Refilled(t)
  BY DEF Init, Refilled
<1> QED BY <1>1, <1>2, <1>3, <1>5, <1>6 DEF ProjectionsInv

LEMMA ProjectionsInvStep == ProjectionsInv /\ [Next]_vars => ProjectionsInv'
<1> SUFFICES ASSUME ProjectionsInv, [Next]_vars PROVE ProjectionsInv'
  OBVIOUS
<1>1. CASE UNCHANGED vars
  <2>1. UNCHANGED <<tables, tool>> /\ UNCHANGED <<store, lastSeq>>
    BY <1>1 DEF vars
  <2> QED BY <2>1, TablesStay DEF ProjectionsInv, TypeOK, Numbered
<1>2. CASE Next
  BY <1>2, AppendKeeps, DeleteKeeps, RebuildKeeps, ProjectionAssumption DEF Next
<1> QED BY <1>1, <1>2

\* A row that beats every event of its place is the latest of them.
LEMMA CoveredIsLatest == ProjectionsInv /\ Covered => envState = Latest(ServiceRows(store))
<1> SUFFICES ASSUME ProjectionsInv, Covered PROVE envState = Latest(ServiceRows(store))
  OBVIOUS
<1> DEFINE S == ServiceRows(store)
<1>1. /\ S \subseteq Row /\ S \subseteq store /\ envState \subseteq S
      /\ \A x, y \in envState : SamePlace(x, y) => x = y
  BY ShownAreTyped DEF ProjectionsInv, ProjectionsAreSound
<1>2. \A y \in S : \E x \in envState : SamePlace(x, y) /\ ~Newer(y, x)
  BY DEF Covered
<1> HIDE DEF S
<1>3. ASSUME NEW x \in envState
      PROVE  x \in Latest(S)
  <2> SUFFICES ASSUME NEW y \in S, SamePlace(x, y) PROVE ~Newer(y, x)
    BY <1>1 DEF Latest
  <2>1. PICK z \in envState : SamePlace(z, y) /\ ~Newer(y, z)
    BY <1>2
  <2>2. SamePlace(z, x)
    BY <2>1, PlaceOrder
  <2> QED BY <1>1, <2>1, <2>2
<1>4. ASSUME NEW y \in Latest(S)
      PROVE  y \in envState
  <2>1. y \in S
    BY DEF Latest
  <2>2. PICK x \in envState : SamePlace(x, y) /\ ~Newer(y, x)
    BY <1>2, <2>1
  <2>3. ~Newer(x, y)
    BY <1>1, <2>2, PlaceOrder DEF Latest
  <2>4. x.seq = y.seq
    BY <1>1, <2>1, <2>2, <2>3, NewerOrder
  <2>5. x = y
    BY <1>1, <2>1, <2>4 DEF ProjectionsInv, Numbered
  <2> QED BY <2>5
<1> QED BY <1>3, <1>4 DEF S

LEMMA InvImpliesLatest == ProjectionsInv => EnvStateIsLatest
BY CoveredIsLatest DEF ProjectionsInv, Complete, EnvStateIsLatest

LEMMA InvImpliesCurrent == ProjectionsInv /\ PlainNames => CurrentStateIsLatest
BY DEF ProjectionsInv, Complete, Refreshed, CurrentStateIsLatest

LEMMA CompleteAgrees == ProjectionsInv /\ PlainNames /\ Complete => Agree
BY CoveredIsLatest DEF Complete, Linked, Counted, Refreshed, Agree

LEMMA CompleteAgreesNext == ProjectionsInv' /\ PlainNames /\ Complete' => Agree'
<1>1. (ProjectionsInv /\ PlainNames /\ Complete => Agree)'
  BY CompleteAgrees, PTL
<1> QED BY <1>1 DEF PlainNames

\* The last statement of a run that no other has met completes the tables.
LEMMA CompletedRun ==
  ProjectionsInv /\ ProjectionsInv' /\ [Next]_vars /\ PlainNames =>
    [\A t \in Tools : Alone(t) /\ at[t] = 8 /\ report'[t] = "done" => Agree']_vars
<1> SUFFICES ASSUME ProjectionsInv, ProjectionsInv', Next, PlainNames,
                    NEW t \in Tools, Alone(t), at[t] = 8, report'[t] = "done"
             PROVE  Agree'
  OBVIOUS
<1>1. report[t] = "none"
  BY DEF ProjectionsInv, Unreported
<1>2. PICK u \in Tools : Rebuild(u)
  BY <1>1 DEF Next, AppendEventStore, AppendDuplicate, AppendOther, AppendService,
              DeleteOrganization, tool
<1>3. u = t
  BY <1>1, <1>2, RebuildShows
<1>4. Refill(t)
  <2>1. report \in [Tools -> {"none", "done", "failed"}]
    BY DEF ProjectionsInv, TypeOK
  <2> QED BY <1>1, <1>2, <1>3, <2>1 DEF Rebuild, StartRebuild, Clear, RefillFails, Die
<1>5. Complete'
  BY <1>4, RefillCompletes DEF Complete
<1> QED BY <1>5, CompleteAgreesNext

LEMMA ProjectionsInvHolds == Spec => []ProjectionsInv
BY ProjectionsInvInit, ProjectionsInvStep, PTL DEF Spec

\* The store, the tables and the runs of the tool are well formed.
THEOREM ProjectionTypes == Spec => []TypeOK
BY ProjectionsInvHolds, PTL DEF ProjectionsInv

\* Whatever is appended, deleted, rebuilt and killed, a projection shows events
\* of the store only, one row for a place, a service or an event (store.go,
\* projectionsync/main.go).
THEOREM ProjectionsStaySound == Spec => []ProjectionsAreSound
BY ProjectionsInvHolds, PTL DEF ProjectionsInv

\* The appends alone keep, for each environment of a service, its latest event
\* (queries.sql.go, UpsertServiceEnvStateFromEvent).
THEOREM EnvStateStaysLatest == Spec => []EnvStateIsLatest
BY InvImpliesLatest, ProjectionsInvHolds, PTL

\* The appends alone count every service event of the store once in the day's
\* counters (queries.sql.go, UpsertServiceDeliveryStatsDailyFromEvent).
THEOREM DailyStaysCounted == Spec => []DailyCountsEvents
<1>1. ProjectionsInv => DailyCountsEvents
  BY DEF ProjectionsInv, Complete, Counted, DailyCountsEvents
<1> QED BY <1>1, ProjectionsInvHolds, PTL

\* Where the Go code and the SQL cut the same name from every subject, the appends
\* alone keep the current state of every service: that of its latest environment,
\* with drift and failures over all of them (queries.sql.go,
\* UpsertServiceCurrentStateFromEnv).
THEOREM CurrentStateStaysLatest ==
  ASSUME PlainNames
  PROVE  Spec => []CurrentStateIsLatest
<1>1. PlainNames
  OBVIOUS
<1>2. ProjectionsInv => CurrentStateIsLatest
  BY <1>1, InvImpliesCurrent
<1> QED BY <1>2, ProjectionsInvHolds, PTL

\* With such names, a rebuild that no other run has met and that reports its end
\* has made every table what the store says, whatever was appended and deleted
\* between its statements: no INSERT goes through beside a row that is not its
\* own (projectionsync/main.go).
THEOREM RebuildsComplete ==
  ASSUME PlainNames
  PROVE  Spec => CompletedRebuildAgrees
<1>1. PlainNames
  OBVIOUS
<1>2. ProjectionsInv /\ ProjectionsInv' /\ [Next]_vars =>
        [\A t \in Tools : Alone(t) /\ at[t] = 8 /\ report'[t] = "done" => Agree']_vars
  BY <1>1, CompletedRun
<1> QED BY <1>2, ProjectionsInvHolds, PTL DEF Spec, CompletedRebuildAgrees

\* The appends alone give every service event its change link, and no other row.
THEOREM LinksStayMatched == Spec => []LinksMatchEvents
<1>1. ProjectionsInv => LinksMatchEvents
  BY DEF ProjectionsInv, Complete, Linked, LinksMatchEvents
<1> QED BY <1>1, ProjectionsInvHolds, PTL
=============================================================================
