-------------------------- MODULE Integrations_proofs --------------------------
(***************************************************************************)
(* What holds of settings, metadata, installations and webhooks for any    *)
(* number of organizations, pages and deliveries.                          *)
(*                                                                         *)
(* The library's induction over finite sets cannot be instantiated by the  *)
(* provers; LeastSubset says the same of sets: of some finite sets one     *)
(* contains none of the others.                                            *)
(***************************************************************************)
EXTENDS Integrations, FiniteSetTheorems, WellFoundedInduction, TLAPS

Minimal(A, C) == A \in C /\ \A B \in C : B \subseteq A => B = A

LEMMA LeastSubset ==
  ASSUME NEW S, IsFiniteSet(S), NEW C, C \subseteq SUBSET S, C # {}
  PROVE  \E A : Minimal(A, C)
<1>1. C \in SUBSET FiniteSubsetsOf(S)
  BY FS_FiniteSubsetsOfFinite
<1>2. PICK A \in C : \A B \in C : ~ (<<B, A>> \in StrictSubsetOrdering(S))
  BY <1>1, FS_StrictSubsetOrderingWellFounded, WFMin
<1> QED BY <1>2 DEF StrictSubsetOrdering, Minimal

LEMMA FiniteSubset ==
  ASSUME NEW S, IsFiniteSet(S), NEW T \in SUBSET S
  PROVE  IsFiniteSet(T)
BY FS_Subset

-----------------------------------------------------------------------------
(* The order of environments.                                              *)

LEMMA GreatestNumber ==
  ASSUME NEW S \in SUBSET Nat, IsFiniteSet(S), S # {}
  PROVE  \E m \in S : \A n \in S : n <= m
<1> DEFINE Bounded(T) == \E m \in T : \A n \in T : n <= m
<1> SUFFICES ASSUME ~Bounded(S) PROVE FALSE
  OBVIOUS
<1>0. PICK C \in SUBSET SUBSET S : \A T \in SUBSET S : T \in C <=> T # {} /\ ~Bounded(T)
  <2> WITNESS {T \in SUBSET S : T # {} /\ ~Bounded(T)} \in SUBSET SUBSET S
  <2> QED OBVIOUS
<1>1. PICK A \in C : \A B \in C : B \subseteq A => B = A
  <2>1. S \in C
    <3> HIDE DEF Bounded
    <3> QED BY <1>0
  <2>2. C \subseteq SUBSET S /\ C # {}
    BY <2>1
  <2>3. PICK A : Minimal(A, C)
    BY <2>2, LeastSubset
  <2> QED BY <2>3 DEF Minimal
<1>2. PICK x \in A : TRUE
  <2> HIDE DEF Bounded
  <2> QED BY <1>0, <1>1
<1>3. CASE A \ {x} = {}
  <2>1. \A n \in A : n <= x
    BY <1>2, <1>3
  <2> QED BY <1>0, <1>1, <1>2, <2>1
<1>4. CASE A \ {x} # {}
  <2>1. Bounded(A \ {x})
    <3> DEFINE B == A \ {x}
    <3>1. B \in SUBSET S /\ B # {} /\ B \subseteq A /\ B # A
      BY <1>1, <1>2, <1>4
    <3> HIDE DEF B, Bounded
    <3>2. Bounded(B)
      BY <1>0, <1>1, <3>1
    <3> QED BY <3>2 DEF B
  <2>2. PICK m \in A \ {x} : \A n \in A \ {x} : n <= m
    BY <2>1
  <2>3. m \in Nat /\ x \in Nat
    BY <1>1, <1>2, <2>2
  <2>4. CASE x <= m
    <3>1. \A n \in A : n <= m
      BY <2>2, <2>4
    <3> QED BY <1>0, <1>1, <2>2, <3>1
  <2>5. CASE m <= x
    <3>1. \A n \in A : n \in Nat
      BY <1>1
    <3>2. \A n \in A : n <= x
      BY <2>2, <2>3, <2>5, <3>1
    <3> QED BY <1>0, <1>1, <1>2, <3>2
  <2> QED BY <2>3, <2>4, <2>5
<1> QED BY <1>3, <1>4

Increasing(s, n) == \A i, j \in 1 .. n : i < j => s[i] < s[j]

LEMMA SortedExists ==
  ASSUME NEW S \in SUBSET Nat, IsFiniteSet(S)
  PROVE  \E s \in [1 .. Cardinality(S) -> S] : Increasing(s, Cardinality(S))
<1> DEFINE Sortable(T) == \E s \in [1 .. Cardinality(T) -> T] : Increasing(s, Cardinality(T))
<1> SUFFICES ASSUME ~Sortable(S) PROVE FALSE
  OBVIOUS
<1>0. PICK C \in SUBSET SUBSET S : \A T \in SUBSET S : T \in C <=> ~Sortable(T)
  <2> WITNESS {T \in SUBSET S : ~Sortable(T)} \in SUBSET SUBSET S
  <2> QED OBVIOUS
<1>1. PICK A \in C : \A B \in C : B \subseteq A => B = A
  <2>1. S \in C
    <3> HIDE DEF Sortable
    <3> QED BY <1>0
  <2>2. C \subseteq SUBSET S /\ C # {}
    BY <2>1
  <2>3. PICK A : Minimal(A, C)
    BY <2>2, LeastSubset
  <2> QED BY <2>3 DEF Minimal
<1>2. IsFiniteSet(A)
  BY <1>1, FiniteSubset
<1>3. CASE A = {}
  <2>1. Cardinality(A) = 0
    BY <1>3, FS_EmptySet
  <2> DEFINE s == [i \in 1 .. 0 |-> 0]
  <2>2. s \in [1 .. Cardinality(A) -> A] /\ Increasing(s, Cardinality(A))
    BY <2>1 DEF Increasing
  <2> QED BY <1>0, <1>1, <2>2
<1>4. CASE A # {}
  <2>1. PICK m \in A : \A n \in A : n <= m
    BY <1>1, <1>2, <1>4, GreatestNumber
  <2> DEFINE B == A \ {m}
             n == Cardinality(A)
  <2>2. /\ n \in Nat \ {0}
        /\ Cardinality(B) = n - 1
    BY <1>2, <1>4, FS_CardinalityType, FS_RemoveElement, FS_EmptySet
  <2>3. Sortable(B)
    <3>1. B \in SUBSET S /\ B \subseteq A /\ B # A
      BY <1>1, <2>1
    <3> HIDE DEF B, Sortable
    <3> QED BY <1>0, <1>1, <3>1
  <2>4. PICK s \in [1 .. n - 1 -> B] : Increasing(s, n - 1)
    BY <2>2, <2>3
  <2> DEFINE t == [i \in 1 .. n |-> IF i = n THEN m ELSE s[i]]
  <2> HIDE DEF n
  <2>5. \A i \in 1 .. n : i # n => s[i] \in B /\ s[i] \in Nat /\ s[i] < m
    <3> SUFFICES ASSUME NEW i \in 1 .. n, i # n
                 PROVE  s[i] \in B /\ s[i] \in Nat /\ s[i] < m
      OBVIOUS
    <3>1. i \in 1 .. n - 1
      BY <2>2
    <3>2. s[i] \in B
      BY <2>4, <3>1
    <3>3. s[i] \in Nat /\ m \in Nat /\ s[i] <= m /\ s[i] # m
      BY <1>1, <2>1, <3>2
    <3> QED BY <3>2, <3>3
  <2>6. t \in [1 .. n -> A]
    BY <2>1, <2>5
  <2>7. Increasing(t, n)
    <3> SUFFICES ASSUME NEW i \in 1 .. n, NEW j \in 1 .. n, i < j
                 PROVE  t[i] < t[j]
      BY DEF Increasing
    <3>1. i \in 1 .. n - 1 /\ i # n
      BY <2>2
    <3>2. CASE j = n
      BY <2>5, <3>1, <3>2
    <3>3. CASE j # n
      <4>1. j \in 1 .. n - 1
        BY <2>2, <3>3
      <4> QED BY <2>4, <3>1, <3>3, <4>1 DEF Increasing
    <3> QED BY <3>2, <3>3
  <2> QED BY <1>0, <1>1, <2>6, <2>7 DEF n
<1> QED BY <1>3, <1>4

\* ByName lists the members of S, each once.
LEMMA ByNameSorts ==
  ASSUME NEW S \in SUBSET Nat, IsFiniteSet(S)
  PROVE  /\ ByName(S) \in [1 .. Cardinality(S) -> S]
         /\ \A i, j \in 1 .. Cardinality(S) : i < j => ByName(S)[i] < ByName(S)[j]
         /\ Cardinality(S) \in Nat
         /\ \A x \in S : \E i \in 1 .. Cardinality(S) : ByName(S)[i] = x
<1> DEFINE n == Cardinality(S)
           s == ByName(S)
<1>1. n \in Nat
  BY FS_CardinalityType
<1>2. \E f \in [1 .. n -> S] : \A i, j \in 1 .. n : i < j => f[i] < f[j]
  BY SortedExists DEF Increasing
<1>3. s \in [1 .. n -> S] /\ \A i, j \in 1 .. n : i < j => s[i] < s[j]
  BY <1>2 DEF ByName
<1> HIDE DEF n, s
<1>4. s \in Injection(1 .. n, S)
  <2> SUFFICES ASSUME NEW i \in 1 .. n, NEW j \in 1 .. n, s[i] = s[j]
               PROVE  i = j
    BY <1>3 DEF Injection, IsInjective
  <2>1. s[i] \in Nat /\ s[j] \in Nat
    BY <1>3
  <2> QED BY <1>1, <1>3, <2>1
<1>5. Cardinality(1 .. n) = Cardinality(S)
  BY <1>1, FS_Interval DEF n
<1>6. s \in Surjection(1 .. n, S)
  BY <1>4, <1>5, FS_Injection
<1> QED BY <1>1, <1>3, <1>6 DEF n, s, Surjection

LEMMA MergedOrder ==
  ASSUME NEW order \in Seq(Envs), NEW D \in SUBSET Envs
  PROVE  mergeEnvironmentOrder(order, D) \in Seq(Envs)
<1> DEFINE G == D \ ToSet(order)
<1>1. G \in SUBSET Envs /\ G \in SUBSET Nat /\ IsFiniteSet(G)
  BY SettingsAssumption, FiniteSubset DEF SettingsAssumption
<1> HIDE DEF G
<1>2. ByName(G) \in [1 .. Cardinality(G) -> G] /\ Cardinality(G) \in Nat
  BY <1>1, ByNameSorts
<1>3. PICK n \in Nat : ByName(G) \in [1 .. n -> G]
  BY <1>2
<1>4. ByName(G) \in [1 .. n -> Envs]
  BY <1>1, <1>3
<1>5. ByName(G) \in Seq(Envs)
  BY <1>4
<1> QED BY <1>5 DEF G, mergeEnvironmentOrder

-----------------------------------------------------------------------------
(* Types.  Which call has which fields is known from where it is.          *)

AnyCall == SettingsCall \cup IntegrationCall

PageStages == {"row", "required", "order", "discovered", "flags", "settings page"}

HasPage(k) == k.at \in PageStages \cup {"save"}

TableTypes ==
  /\ SettingsType
  /\ \A o \in Orgs : IsFiniteSet(settings[o].required)

CallTypes ==
  /\ call \in [Calls -> AnyCall]
  /\ \A c \in Calls : HasPage(call[c]) => IsFiniteSet(call[c].page.required)

IntegrationTypes ==
  /\ intent \in [States -> Intent]
  /\ mapping \in [Installations -> Orgs \cup {0}]
  /\ attempt \in [Attempts -> Attempt]
  /\ rows \subseteq [attempt : Attempts, org : Orgs]

Types == TableTypes /\ CallTypes /\ IntegrationTypes

PageCall == [at : PageStages, org : Orgs, fresh : BOOLEAN, enabled : BOOLEAN, page : Setting]
SaveCall == [at : {"save"}, org : Orgs, of : Orgs, fresh : BOOLEAN, enabled : BOOLEAN,
             page : Setting, edit : Parts]
ValuesCall  == [at : {"values"}, org : Orgs, service : Services, shown : SUBSET Labels]
ShownCall   == [at : {"mask", "service page"}, org : Orgs, service : Services, shown : Form]
LabelsCall  == [at : {"labels"}, org : Orgs, fresh : BOOLEAN, service : Services,
                form : Form, strict : BOOLEAN]
ReplaceCall == [at : {"replace"}, org : Orgs, fresh : BOOLEAN, service : Services, form : Fields]
MapCall     == [at : {"map"}, state : States, installation : Installations, org : Orgs]
DropCall    == [at : {"drop intent"}, state : States]

LEMMA CallKinds ==
  /\ AnyCall = {NoCall} \cup PageCall \cup SaveCall \cup ValuesCall \cup ShownCall
                 \cup LabelsCall \cup ReplaceCall \cup MapCall \cup DropCall
  /\ \A k \in AnyCall :
       /\ HasPage(k) => k \in PageCall \cup SaveCall
       /\ k.at \in PageStages => k \in PageCall
       /\ k.at = "save" => k \in SaveCall
       /\ k.at = "values" => k \in ValuesCall
       /\ k.at \in {"mask", "service page"} => k \in ShownCall
       /\ k.at = "labels" => k \in LabelsCall
       /\ k.at = "replace" => k \in ReplaceCall
       /\ k.at = "map" => k \in MapCall
       /\ k.at = "drop intent" => k \in DropCall
<1>1. AnyCall = {NoCall} \cup PageCall \cup SaveCall \cup ValuesCall \cup ShownCall
                  \cup LabelsCall \cup ReplaceCall \cup MapCall \cup DropCall
  BY DEF AnyCall, SettingsCall, IntegrationCall, PageCall, SaveCall, ValuesCall, ShownCall,
         LabelsCall, ReplaceCall, MapCall, DropCall, PageStages
<1>2. ASSUME NEW k \in AnyCall
      PROVE  /\ HasPage(k) => k \in PageCall \cup SaveCall
             /\ k.at \in PageStages => k \in PageCall
             /\ k.at = "save" => k \in SaveCall
             /\ k.at = "values" => k \in ValuesCall
             /\ k.at \in {"mask", "service page"} => k \in ShownCall
             /\ k.at = "labels" => k \in LabelsCall
             /\ k.at = "replace" => k \in ReplaceCall
             /\ k.at = "map" => k \in MapCall
             /\ k.at = "drop intent" => k \in DropCall
  <2>1. CASE k = NoCall
    BY <2>1 DEF NoCall, PageStages, HasPage
  <2>2. CASE k \in PageCall \cup SaveCall \cup ValuesCall \cup ShownCall
    BY <2>2 DEF PageCall, SaveCall, ValuesCall, ShownCall, PageStages, HasPage
  <2>3. CASE k \in LabelsCall \cup ReplaceCall \cup MapCall \cup DropCall
    BY <2>3 DEF LabelsCall, ReplaceCall, MapCall, DropCall, PageStages, HasPage
  <2> QED BY <1>1, <1>2, <2>1, <2>2, <2>3
<1> QED BY <1>1, <1>2

\* The calls that hold a page of settings, and those that can be outdated.
LEMMA CallFields ==
  ASSUME NEW k \in AnyCall
  PROVE  /\ "page" \in DOMAIN k <=> HasPage(k)
         /\ "fresh" \in DOMAIN k => k \in PageCall \cup SaveCall \cup LabelsCall \cup ReplaceCall
<1>1. CASE k = NoCall
  BY <1>1 DEF NoCall, HasPage, PageStages
<1>2. CASE k \in ValuesCall \cup ShownCall
  BY <1>2 DEF ValuesCall, ShownCall, HasPage, PageStages
<1>3. CASE k \in MapCall \cup DropCall
  BY <1>3 DEF MapCall, DropCall, HasPage, PageStages
<1>4. CASE k \in LabelsCall \cup ReplaceCall
  BY <1>4 DEF LabelsCall, ReplaceCall, HasPage, PageStages
<1>5. CASE k \in PageCall \cup SaveCall
  BY <1>5 DEF PageCall, SaveCall, HasPage, PageStages
<1> QED BY CallKinds, <1>1, <1>2, <1>3, <1>4, <1>5

-----------------------------------------------------------------------------
(* The form of a settings page.                                            *)

\* Two tokens for each organization, one for each call and one more are more
\* than the organizations and the pages have.
LEMMA NewTokenType ==
  NewToken \in Tokens
<1> DEFINE Shown == {c \in Calls : "page" \in DOMAIN call[c]}
           Kept  == {settings[o].token : o \in Orgs}
           Posted == {call[c].page.token : c \in Shown}
<1>1. IsFiniteSet(Orgs) /\ Cardinality(Orgs) \in Nat
  BY SettingsAssumption, FS_CardinalityType DEF SettingsAssumption
<1>2. IsFiniteSet(Calls) /\ Cardinality(Calls) \in Nat
  BY SettingsAssumption, FS_CardinalityType DEF SettingsAssumption
<1>3. IsFiniteSet(Kept) /\ Cardinality(Kept) <= Cardinality(Orgs)
  <2>1. [o \in Orgs |-> settings[o].token] \in Surjection(Orgs, Kept)
    BY DEF Surjection
  <2> HIDE DEF Kept
  <2> QED BY <1>1, <2>1, FS_Surjection
<1>4. IsFiniteSet(Shown) /\ Cardinality(Shown) <= Cardinality(Calls)
  BY <1>2, FS_Subset
<1>5. IsFiniteSet(Posted) /\ Cardinality(Posted) <= Cardinality(Shown)
  <2>1. [c \in Shown |-> call[c].page.token] \in Surjection(Shown, Posted)
    BY DEF Surjection
  <2> HIDE DEF Shown, Posted
  <2> QED BY <1>4, <2>1, FS_Surjection
<1> HIDE DEF Shown, Kept, Posted
<1>6. /\ IsFiniteSet(Kept \cup Posted)
      /\ Cardinality(Kept \cup Posted) <= Cardinality(Orgs) + Cardinality(Calls)
  <2>1. IsFiniteSet(Kept \cup Posted)
    BY <1>3, <1>5, FS_Union
  <2>2. Cardinality(Kept \cup Posted)
          = Cardinality(Kept) + Cardinality(Posted) - Cardinality(Kept \cap Posted)
    BY <1>3, <1>5, FS_Union
  <2>3. Cardinality(Kept \cap Posted) \in Nat
    BY <1>3, FS_Intersection, FS_CardinalityType
  <2>4. Cardinality(Kept) \in Nat /\ Cardinality(Posted) \in Nat /\ Cardinality(Shown) \in Nat
    BY <1>3, <1>4, <1>5, FS_CardinalityType
  <2> QED BY <1>1, <1>2, <1>3, <1>4, <1>5, <2>1, <2>2, <2>3, <2>4
<1>7. /\ IsFiniteSet(Tokens)
      /\ Cardinality(Tokens) = 2 * Cardinality(Orgs) + Cardinality(Calls) + 1
  <2> DEFINE n == 2 * Cardinality(Orgs) + Cardinality(Calls) + 1
  <2>1. n \in Nat \ {0}
    BY <1>1, <1>2
  <2> HIDE DEF n
  <2>2. Tokens = 1 .. n
    BY DEF Tokens, n
  <2>3. IsFiniteSet(1 .. n) /\ Cardinality(1 .. n) = n
    BY <2>1, FS_Interval
  <2> QED BY <2>2, <2>3 DEF n
<1>8. PICK t \in Tokens : t \notin Kept \cup Posted
  <2> SUFFICES ASSUME Tokens \subseteq Kept \cup Posted PROVE FALSE
    OBVIOUS
  <2>1. Cardinality(Tokens) <= Cardinality(Kept \cup Posted)
    BY <1>6, FS_Subset
  <2>2. Cardinality(Kept \cup Posted) \in Nat
    BY <1>6, FS_CardinalityType
  <2> QED BY <1>1, <1>2, <1>6, <1>7, <2>1, <2>2
<1>9. \A o \in Orgs : \A c \in Calls :
        /\ t # settings[o].token
        /\ "page" \in DOMAIN call[c] => t # call[c].page.token
  BY <1>8 DEF Kept, Posted, Shown
<1>10. \E u \in Tokens : \A o \in Orgs, c \in Calls :
         /\ u # settings[o].token
         /\ "page" \in DOMAIN call[c] => u # call[c].page.token
  BY <1>9
<1> QED BY <1>10 DEF NewToken

LEMMA EditedType ==
  ASSUME NEW page \in Setting, NEW edit \in Parts, NEW p \in Edited(page, edit)
  PROVE  /\ p \in Setting
         /\ IsFiniteSet(page.required) => IsFiniteSet(p.required)
<1>1. CASE edit = "enabled"
  BY <1>1 DEF Edited
<1>2. CASE edit = "token"
  BY <1>2, NewTokenType DEF Edited, Setting
<1>3. CASE edit = "required"
  <2>1. PICK l \in Labels : p = [page EXCEPT !.required = Toggle(@, l)]
    BY <1>3 DEF Edited
  <2>2. p.required = page.required \ {l} \/ p.required = page.required \cup {l}
    BY <2>1 DEF Setting, Toggle
  <2>3. IsFiniteSet(page.required) => IsFiniteSet(p.required)
    BY <2>2, FS_AddElement, FS_RemoveElement
  <2> QED BY <2>1, <2>2, <2>3 DEF Setting
<1>4. CASE edit = "order"
  <2>1. p = [page EXCEPT !.order = Reverse(@)]
    BY <1>4 DEF Edited
  <2>2. Reverse(page.order) \in Seq(Envs)
    BY DEF Reverse, Setting
  <2> QED BY <2>1, <2>2 DEF Setting
<1>5. CASE edit = "flags"
  <2>1. PICK f \in Features : p = [page EXCEPT !.flags = Toggle(@, f)]
    BY <1>5 DEF Edited
  <2> QED BY <2>1 DEF Setting, Toggle
<1> QED BY <1>1, <1>2, <1>3, <1>4, <1>5 DEF Parts

\* A call goes on, ends or is outdated.
LEMMA GotoTypes ==
  ASSUME CallTypes, NEW c \in Calls, NEW r \in AnyCall, Goto(c, r),
         HasPage(r) => IsFiniteSet(r.page.required)
  PROVE  CallTypes'
<1> USE DEF HasPage
<1>1. call' \in [Calls -> AnyCall]
  BY DEF CallTypes, Goto
<1>2. ASSUME NEW d \in Calls, HasPage(call'[d])
      PROVE  IsFiniteSet(call'[d].page.required)
  <2>1. call'[d] = IF d = c THEN r ELSE call[d]
    BY DEF CallTypes, Goto
  <2> QED BY <1>2, <2>1 DEF CallTypes
<1> QED BY <1>1, <1>2 DEF CallTypes

LEMMA ReturnTypes ==
  ASSUME CallTypes, NEW c \in Calls, Return(c)
  PROVE  CallTypes'
<1>1. NoCall \in AnyCall /\ ~HasPage(NoCall)
  BY DEF AnyCall, SettingsCall, NoCall, HasPage, PageStages
<1> QED BY <1>1, GotoTypes DEF Return

LEMMA OutdateTypes ==
  ASSUME CallTypes, NEW o \in Orgs
  PROVE  /\ Outdate(o, call) \in [Calls -> AnyCall]
         /\ \A c \in Calls :
              /\ Outdate(o, call)[c].at = call[c].at
              /\ HasPage(call[c]) => /\ HasPage(Outdate(o, call)[c])
                                     /\ Outdate(o, call)[c].page = call[c].page
                                     /\ Outdate(o, call)[c].org = call[c].org
<1> SUFFICES ASSUME NEW c \in Calls
             PROVE  /\ Outdate(o, call)[c] \in AnyCall
                    /\ Outdate(o, call)[c].at = call[c].at
                    /\ HasPage(call[c]) => /\ Outdate(o, call)[c].page = call[c].page
                                           /\ Outdate(o, call)[c].org = call[c].org
  BY DEF Outdate, HasPage
<1> DEFINE k == call[c]
           r == Outdate(o, call)[c]
<1>1. k \in AnyCall
  BY DEF CallTypes
<1>2. r = IF "fresh" \in DOMAIN k /\ k.org = o THEN [k EXCEPT !.fresh = FALSE] ELSE k
  BY DEF Outdate
<1> HIDE DEF k, r
<1>3. CASE ~("fresh" \in DOMAIN k /\ k.org = o)
  BY <1>1, <1>2, <1>3 DEF k, r
<1>4. CASE "fresh" \in DOMAIN k /\ k.org = o
  <2>1. r = [k EXCEPT !.fresh = FALSE]
    BY <1>2, <1>4
  <2>2. k \in PageCall \cup SaveCall \cup LabelsCall \cup ReplaceCall
    BY <1>1, <1>4, CallFields
  <2>3. CASE k \in PageCall
    <3>1. r \in PageCall /\ r.at = k.at /\ r.page = k.page /\ r.org = k.org
      BY <2>1, <2>3 DEF PageCall
    <3> QED BY <3>1, CallKinds DEF k, r
  <2>4. CASE k \in SaveCall
    <3>1. r \in SaveCall /\ r.at = k.at /\ r.page = k.page /\ r.org = k.org
      BY <2>1, <2>4 DEF SaveCall
    <3> QED BY <3>1, CallKinds DEF k, r
  <2>5. CASE k \in LabelsCall
    <3>1. r \in LabelsCall /\ r.at = k.at /\ r.org = k.org
      BY <2>1, <2>5 DEF LabelsCall
    <3>2. ~HasPage(k)
      BY <2>5 DEF LabelsCall, HasPage, PageStages
    <3> QED BY <3>1, <3>2, CallKinds DEF k, r
  <2>6. CASE k \in ReplaceCall
    <3>1. r \in ReplaceCall /\ r.at = k.at /\ r.org = k.org
      BY <2>1, <2>6 DEF ReplaceCall
    <3>2. ~HasPage(k)
      BY <2>6 DEF ReplaceCall, HasPage, PageStages
    <3> QED BY <3>1, <3>2, CallKinds DEF k, r
  <2> QED BY <2>2, <2>3, <2>4, <2>5, <2>6
<1> QED BY <1>3, <1>4 DEF k, r

LEMMA OutdatedCallTypes ==
  ASSUME CallTypes, NEW o \in Orgs, call' = Outdate(o, call)
  PROVE  CallTypes'
BY OutdateTypes DEF CallTypes, HasPage

\* Every step keeps the types: first the calls on their own, then the tables.
LEMMA PageCallsTypes ==
  ASSUME Types, NEW c \in Calls
  PROVE  /\ \A o \in Orgs : OpenSettings(c, o) => CallTypes'
         /\ ReadSettings(c) => CallTypes'
         /\ \A o \in Orgs : \A edit \in Parts : PostSettings(c, o, edit) => CallTypes'
         /\ CloseSettings(c) => CallTypes'
<1> DEFINE k == call[c]
<1>1. k \in AnyCall
  BY DEF Types, CallTypes
<1>2. k.at \in PageStages => k \in PageCall /\ IsFiniteSet(k.page.required)
  BY <1>1, CallKinds DEF Types, CallTypes, HasPage
<1>3. PageCall \subseteq AnyCall /\ SaveCall \subseteq AnyCall
  BY CallKinds
<1>4. ASSUME NEW r \in PageCall, Goto(c, r), IsFiniteSet(r.page.required)
      PROVE  CallTypes'
  BY <1>3, <1>4, GotoTypes DEF Types
<1> HIDE DEF k
<1>5. ASSUME NEW o \in Orgs, OpenSettings(c, o) PROVE CallTypes'
  <2> DEFINE r == [at |-> "row", org |-> o, fresh |-> TRUE, enabled |-> TRUE, page |-> NoRows]
  <2>1. Goto(c, r)
    BY <1>5 DEF OpenSettings
  <2>2. NoRows \in Setting
    BY DEF NoRows, Setting, Defaults
  <2>3. r \in PageCall /\ r.page.required = {}
    BY <2>2 DEF PageCall, PageStages, NoRows
  <2> HIDE DEF r
  <2> QED BY <1>4, <2>1, <2>3, FS_EmptySet
<1>6. ASSUME ReadSettings(c) PROVE CallTypes'
  <2>1. CASE ReadOrganization(c)
    <3>1. CASE k.org \in Existing
      <4> DEFINE e == k.org \in Enabled
                 r == [k EXCEPT !.at = "required", !.enabled = e,
                                !.page.token = settings[k.org].token]
      <4>1. Goto(c, r)
        BY <2>1, <3>1 DEF ReadOrganization, k
      <4>2. k \in PageCall /\ IsFiniteSet(k.page.required)
        BY <1>2, <2>1 DEF ReadOrganization, PageStages, k
      <4>3. settings[k.org].token \in Tokens \cup {0}
        BY <4>2 DEF PageCall, Types, TableTypes, SettingsType, Setting
      <4>4. e \in BOOLEAN
        OBVIOUS
      <4> HIDE DEF e
      <4>5. r \in PageCall /\ r.page.required = k.page.required
        BY <4>2, <4>3, <4>4 DEF PageCall, PageStages, Setting
      <4> HIDE DEF r
      <4> QED BY <1>4, <4>1, <4>2, <4>5
    <3>2. CASE k.org \notin Existing
      BY <2>1, <3>2, ReturnTypes DEF ReadOrganization, Types, k
    <3> QED BY <3>1, <3>2
  <2>2. CASE ReadRequiredFields(c)
    <3> DEFINE r == [k EXCEPT !.at = "order", !.page.required = settings[k.org].required]
    <3>1. Goto(c, r)
      BY <2>2 DEF ReadRequiredFields, k
    <3>2. k \in PageCall
      BY <1>2, <2>2 DEF ReadRequiredFields, PageStages, k
    <3>3. settings[k.org].required \in SUBSET Labels /\ IsFiniteSet(settings[k.org].required)
      BY <3>2 DEF PageCall, Types, TableTypes, SettingsType, Setting
    <3>4. r \in PageCall /\ r.page.required = settings[k.org].required
      BY <3>2, <3>3 DEF PageCall, PageStages, Setting
    <3> HIDE DEF r
    <3> QED BY <1>4, <3>1, <3>3, <3>4
  <2>3. CASE ReadEnvironmentPriorities(c)
    <3> DEFINE r == [k EXCEPT !.at = "discovered", !.page.order = settings[k.org].order]
    <3>1. Goto(c, r)
      BY <2>3 DEF ReadEnvironmentPriorities, k
    <3>2. k \in PageCall /\ IsFiniteSet(k.page.required)
      BY <1>2, <2>3 DEF ReadEnvironmentPriorities, PageStages, k
    <3>3. settings[k.org].order \in Seq(Envs)
      BY <3>2 DEF PageCall, Types, TableTypes, SettingsType, Setting
    <3>4. r \in PageCall /\ r.page.required = k.page.required
      BY <3>2, <3>3 DEF PageCall, PageStages, Setting
    <3> HIDE DEF r
    <3> QED BY <1>4, <3>1, <3>2, <3>4
  <2>4. CASE ReadDistinctEnvironments(c)
    <3> DEFINE merged == mergeEnvironmentOrder(k.page.order, found[k.org])
               r == [k EXCEPT !.at = "flags", !.page.order = merged]
    <3>1. k \in PageCall /\ IsFiniteSet(k.page.required)
      BY <1>2, <2>4 DEF ReadDistinctEnvironments, PageStages, k
    <3>2. Goto(c, r)
      BY <2>4, <3>1 DEF ReadDistinctEnvironments, k, PageCall, Setting
    <3>3. merged \in Seq(Envs)
      BY <3>1, MergedOrder DEF PageCall, Types, TableTypes, SettingsType, Setting
    <3> HIDE DEF merged
    <3>4. r \in PageCall /\ r.page.required = k.page.required
      BY <3>1, <3>3 DEF PageCall, PageStages, Setting
    <3> HIDE DEF r
    <3> QED BY <1>4, <3>1, <3>2, <3>4
  <2>5. CASE ReadFeatures(c)
    <3> DEFINE r == [k EXCEPT !.at = "settings page", !.page.flags = settings[k.org].flags]
    <3>1. Goto(c, r)
      BY <2>5 DEF ReadFeatures, k
    <3>2. k \in PageCall /\ IsFiniteSet(k.page.required)
      BY <1>2, <2>5 DEF ReadFeatures, PageStages, k
    <3>3. settings[k.org].flags \in SUBSET Features
      BY <3>2 DEF PageCall, Types, TableTypes, SettingsType, Setting
    <3>4. r \in PageCall /\ r.page.required = k.page.required
      BY <3>2, <3>3 DEF PageCall, PageStages, Setting
    <3> HIDE DEF r
    <3> QED BY <1>4, <3>1, <3>2, <3>4
  <2> QED BY <1>6, <2>1, <2>2, <2>3, <2>4, <2>5 DEF ReadSettings
<1>7. ASSUME NEW o \in Orgs, NEW edit \in Parts, PostSettings(c, o, edit) PROVE CallTypes'
  <2>1. k \in PageCall /\ IsFiniteSet(k.page.required)
    BY <1>2, <1>7 DEF PostSettings, PageStages, k
  <2>2. PICK p \in Edited(k.page, edit) :
          Goto(c, [at |-> "save", org |-> o, of |-> k.org, fresh |-> k.fresh, page |-> p,
                   enabled |-> (k.enabled # (edit = "enabled")), edit |-> edit])
    BY <1>7 DEF PostSettings, k
  <2> DEFINE r == [at |-> "save", org |-> o, of |-> k.org, fresh |-> k.fresh, page |-> p,
                   enabled |-> (k.enabled # (edit = "enabled")), edit |-> edit]
  <2>3. p \in Setting /\ IsFiniteSet(p.required)
    <3>1. k.page \in Setting
      BY <2>1 DEF PageCall
    <3> QED BY <2>1, <3>1, EditedType
  <2>4. r \in SaveCall /\ r.page = p
    BY <2>1, <2>3 DEF SaveCall, PageCall
  <2>5. Goto(c, r)
    BY <2>2
  <2> HIDE DEF r
  <2> QED BY <1>3, <2>3, <2>4, <2>5, GotoTypes DEF Types
<1>8. ASSUME CloseSettings(c) PROVE CallTypes'
  BY <1>8, ReturnTypes DEF CloseSettings, Types
<1> QED BY <1>5, <1>6, <1>7, <1>8

LEMMA FieldsAreFunctions ==
  /\ \A f : f \in Fields <=> DOMAIN f \in SUBSET Labels /\ f \in [DOMAIN f -> Field]
  /\ \A f : f \in Form <=> DOMAIN f \in SUBSET Labels /\ f \in [DOMAIN f -> Field \cup {""}]
BY DEF Fields, Form

LEMMA ServiceCallsTypes ==
  ASSUME Types, NEW c \in Calls
  PROVE  /\ \A o \in Orgs : \A s \in Services : OpenService(c, o, s) => CallTypes'
         /\ ReadMetadata(c) => CallTypes'
         /\ ShowService(c) => CallTypes'
         /\ CloseService(c) => CallTypes'
         /\ \A o \in Orgs : PostMetadata(c, o) => CallTypes'
         /\ CheckMetadata(c) => CallTypes'
         /\ ReplaceServiceMetadata(c) => CallTypes'
<1> DEFINE k == call[c]
<1>1. k \in AnyCall
  BY DEF Types, CallTypes
<1>2. /\ k.at = "values" => k \in ValuesCall
      /\ k.at \in {"mask", "service page"} => k \in ShownCall
      /\ k.at = "labels" => k \in LabelsCall
  BY <1>1, CallKinds
<1>3. ASSUME NEW r \in ValuesCall \cup ShownCall \cup LabelsCall \cup ReplaceCall, Goto(c, r)
      PROVE  CallTypes'
  <2>1. r \in AnyCall
    BY <1>3, CallKinds
  <2>2. ~HasPage(r)
    BY <1>3 DEF ValuesCall, ShownCall, LabelsCall, ReplaceCall, HasPage, PageStages
  <2> QED BY <1>3, <2>1, <2>2, GotoTypes DEF Types
<1>4. Return(c) => CallTypes'
  BY ReturnTypes DEF Types
<1> HIDE DEF k
<1>5. ASSUME NEW o \in Orgs, NEW s \in Services, OpenService(c, o, s) PROVE CallTypes'
  <2> DEFINE r == [at |-> "values", org |-> o, service |-> s, shown |-> settings[o].required]
  <2>1. Goto(c, r)
    BY <1>5 DEF OpenService
  <2>2. r \in ValuesCall
    BY DEF ValuesCall, Types, TableTypes, SettingsType, Setting
  <2> HIDE DEF r
  <2> QED BY <1>3, <2>1, <2>2
<1>6. ASSUME ReadMetadata(c) PROVE CallTypes'
  <2> DEFINE fields == buildServiceMetadataFields(k.shown, metadata[k.org][k.service])
             r == [k EXCEPT !.at = "mask", !.shown = fields]
  <2>1. k \in ValuesCall
    BY <1>2, <1>6 DEF ReadMetadata, k
  <2>2. Goto(c, r)
    BY <1>6, <2>1 DEF ReadMetadata, k, ValuesCall
  <2>3. fields \in Form
    <3>1. metadata[k.org][k.service] \in Fields
      BY <2>1 DEF ValuesCall, Types, TableTypes, SettingsType
    <3>2. DOMAIN fields = k.shown /\ fields \in [k.shown -> Field \cup {""}]
      BY <2>1, <3>1, FieldsAreFunctions DEF buildServiceMetadataFields, ValuesCall
    <3> QED BY <2>1, <3>2 DEF Form, ValuesCall
  <2> HIDE DEF fields
  <2>4. r \in ShownCall
    BY <2>1, <2>3 DEF ValuesCall, ShownCall
  <2> HIDE DEF r
  <2> QED BY <1>3, <2>2, <2>4
<1>7. ASSUME ShowService(c) PROVE CallTypes'
  <2>1. CASE k.org \in Existing
    <3> DEFINE fields == IF "mask" \in settings[k.org].flags
                         THEN maskSensitiveFields(k.shown) ELSE k.shown
               r == [k EXCEPT !.at = "service page", !.shown = fields]
    <3>1. k \in ShownCall
      BY <1>2, <1>7 DEF ShowService, k
    <3>2. Goto(c, r)
      BY <1>7, <2>1, <3>1 DEF ShowService, k, ShownCall
    <3>3. fields \in Form
      <4>1. k.shown \in Form
        BY <3>1 DEF ShownCall
      <4>2. maskSensitiveFields(k.shown) \in Form
        BY <4>1, FieldsAreFunctions DEF maskSensitiveFields, Field
      <4> QED BY <4>1, <4>2
    <3> HIDE DEF fields
    <3>4. r \in ShownCall
      BY <3>1, <3>3 DEF ShownCall
    <3> HIDE DEF r
    <3> QED BY <1>3, <3>2, <3>4
  <2>2. CASE k.org \notin Existing
    BY <1>4, <1>7, <2>2 DEF ShowService, k
  <2> QED BY <2>1, <2>2
<1>8. ASSUME CloseService(c) PROVE CallTypes'
  BY <1>4, <1>8 DEF CloseService
<1>9. ASSUME NEW o \in Orgs, PostMetadata(c, o) PROVE CallTypes'
  <2>1. CASE "editing" \in settings[o].flags
    <3> DEFINE strict == "strict" \in settings[o].flags
    <3>1. strict \in BOOLEAN
      OBVIOUS
    <3>2. k \in ShownCall
      BY <1>2, <1>9 DEF PostMetadata, k
    <3>3. PICK form \in {k.shown} \cup UNION {{[k.shown EXCEPT ![l] = v] : v \in Values \cup {""}} :
                                                  l \in DOMAIN k.shown} :
            Goto(c, [at |-> "labels", org |-> o, fresh |-> TRUE, service |-> k.service,
                     form |-> form, strict |-> strict])
      BY <1>9, <2>1 DEF PostMetadata, k
    <3> HIDE DEF strict
    <3>4. form \in Form
      <4>1. k.shown \in Form
        BY <3>2 DEF ShownCall
      <4>2. CASE form = k.shown
        BY <4>1, <4>2
      <4>3. ASSUME NEW l \in DOMAIN k.shown, NEW v \in Values \cup {""},
                   form = [k.shown EXCEPT ![l] = v]
            PROVE  form \in Form
        BY <4>1, <4>3, FieldsAreFunctions DEF Field
      <4> QED BY <3>3, <4>2, <4>3
    <3> DEFINE r == [at |-> "labels", org |-> o, fresh |-> TRUE, service |-> k.service,
                     form |-> form, strict |-> strict]
    <3>5. Goto(c, r)
      BY <3>3
    <3>6. r \in LabelsCall
      BY <3>1, <3>2, <3>4 DEF LabelsCall, ShownCall
    <3> HIDE DEF r
    <3> QED BY <1>3, <3>5, <3>6
  <2>2. CASE "editing" \notin settings[o].flags
    BY <1>4, <1>9, <2>2 DEF PostMetadata
  <2> QED BY <2>1, <2>2
<1>10. ASSUME CheckMetadata(c) PROVE CallTypes'
  <2> DEFINE filled == {l \in DOMAIN k.form \cap settings[k.org].required : k.form[l] # ""}
             form == [l \in filled |-> k.form[l]]
             r == [at |-> "replace", org |-> k.org, fresh |-> k.fresh, service |-> k.service,
                   form |-> form]
  <2>1. Return(c) \/ Goto(c, r)
    BY <1>10 DEF CheckMetadata, k
  <2>2. k \in LabelsCall
    BY <1>2, <1>10 DEF CheckMetadata, k
  <2>3. form \in Fields
    <3>1. k.form \in Form
      BY <2>2 DEF LabelsCall
    <3>2. DOMAIN form \in SUBSET Labels /\ \A l \in DOMAIN form : form[l] \in Field
      BY <3>1, FieldsAreFunctions
    <3>3. form \in [DOMAIN form -> Field]
      BY <3>2
    <3> QED BY <3>2, <3>3 DEF Fields
  <2> HIDE DEF form
  <2>4. r \in ReplaceCall
    BY <2>2, <2>3 DEF LabelsCall, ReplaceCall
  <2> HIDE DEF r
  <2> QED BY <1>3, <1>4, <2>1, <2>4
<1>11. ASSUME ReplaceServiceMetadata(c) PROVE CallTypes'
  BY <1>4, <1>11 DEF ReplaceServiceMetadata
<1> QED BY <1>5, <1>6, <1>7, <1>8, <1>9, <1>10, <1>11

LEMMA SaveTypes ==
  ASSUME Types, NEW c \in Calls, SaveSettings(c)
  PROVE  TableTypes' /\ CallTypes'
<1> DEFINE k == call[c]
           page == k.page
<1>1. k \in SaveCall /\ IsFiniteSet(page.required)
  BY CallKinds DEF SaveSettings, Types, CallTypes, HasPage
<1>2. k.org \in Orgs /\ page \in Setting
  BY <1>1 DEF SaveCall
<1>3. CASE Return(c) /\ UNCHANGED <<org, settings, checked>>
  <2>1. UNCHANGED <<org, settings, metadata, found, checked, begun>>
    BY <1>3 DEF SaveSettings
  <2>2. TableTypes'
    BY <2>1 DEF Types, TableTypes, SettingsType
  <2> QED BY <1>3, <2>2, ReturnTypes DEF Types
<1>4. CASE ~(Return(c) /\ UNCHANGED <<org, settings, checked>>)
  <2> DEFINE flags == (page.flags \ {"delivery metrics"})
                         \cup (settings[k.org].flags \cap {"delivery metrics"})
             new == [page EXCEPT !.flags = flags]
  <2>1. /\ org' = [org EXCEPT ![k.org] = IF k.enabled THEN "enabled" ELSE "disabled"]
        /\ settings' = [settings EXCEPT ![k.org] = new]
        /\ checked' = [checked EXCEPT ![k.org] = {}]
        /\ call' = [Outdate(k.org, call) EXCEPT ![c] = NoCall]
        /\ UNCHANGED <<metadata, found, begun>>
    BY <1>2, <1>4 DEF SaveSettings, Setting
  <2> HIDE DEF k
  <2>2. flags \in SUBSET Features
    BY <1>2 DEF Types, TableTypes, SettingsType, Setting
  <2> HIDE DEF flags
  <2>3. new \in Setting /\ new.required = page.required
    BY <1>2, <2>2 DEF Setting
  <2> HIDE DEF new
  <2>4. TableTypes'
    <3>1. SettingsType'
      BY <1>2, <2>1, <2>3 DEF Types, TableTypes, SettingsType
    <3>2. \A o \in Orgs : IsFiniteSet(settings'[o].required)
      BY <1>1, <1>2, <2>1, <2>3 DEF Types, TableTypes, SettingsType
    <3> QED BY <3>1, <3>2 DEF TableTypes
  <2>5. CallTypes'
    <3>1. NoCall \in AnyCall /\ ~HasPage(NoCall)
      BY DEF AnyCall, SettingsCall, NoCall, HasPage, PageStages
    <3>2. CallTypes
      BY DEF Types
    <3>3. call' \in [Calls -> AnyCall]
      BY <1>2, <2>1, <3>1, <3>2, OutdateTypes
    <3>4. \A d \in Calls : call'[d] = IF d = c THEN NoCall ELSE Outdate(k.org, call)[d]
      BY <1>2, <2>1, <3>2, OutdateTypes
    <3>5. ASSUME NEW d \in Calls, HasPage(call'[d]), d # c
          PROVE  IsFiniteSet(call'[d].page.required)
      <4>1. HasPage(call[d]) /\ call'[d].page = call[d].page
        BY <1>2, <3>2, <3>4, <3>5, OutdateTypes DEF HasPage
      <4> QED BY <4>1, <3>2 DEF CallTypes
    <3> QED BY <3>1, <3>3, <3>4, <3>5 DEF CallTypes, HasPage
  <2> QED BY <2>4, <2>5
<1> QED BY <1>3, <1>4


LEMMA TypesInit == Init => Types
<1> SUFFICES ASSUME Init PROVE Types
  OBVIOUS
<1> DEFINE rank(o) == Cardinality({p \in Orgs : p <= o})
<1>1. NoRows \in Setting /\ NoRows.required = {} /\ NoRows.order = <<>> /\ NoRows.flags = Defaults
  BY DEF NoRows, Setting, Defaults
<1>2. ASSUME NEW o \in Orgs PROVE rank(o) \in Tokens
  <2> DEFINE S == {p \in Orgs : p <= o}
  <2>1. IsFiniteSet(Orgs) /\ IsFiniteSet(Calls)
    BY SettingsAssumption DEF SettingsAssumption
  <2>2. Cardinality(Orgs) \in Nat /\ Cardinality(Calls) \in Nat
    BY <2>1, FS_CardinalityType
  <2>3. S \subseteq Orgs /\ o \in S
    BY SettingsAssumption DEF SettingsAssumption
  <2> HIDE DEF S
  <2>4. IsFiniteSet(S) /\ Cardinality(S) \in Nat /\ Cardinality(S) <= Cardinality(Orgs)
    BY <2>1, <2>3, FS_Subset, FS_CardinalityType
  <2>5. Cardinality(S) # 0
    BY <2>3, <2>4, FS_EmptySet
  <2>6. Cardinality(S) \in Tokens
    BY <2>2, <2>4, <2>5 DEF Tokens
  <2> QED BY <2>6 DEF S
<1>3. settings = [o \in Orgs |-> [NoRows EXCEPT !.token = rank(o)]]
  BY DEF Init, SettingsInit
<1> HIDE DEF rank
<1>4. /\ settings \in [Orgs -> Setting]
      /\ \A o \in Orgs : settings[o].required = {}
  BY <1>1, <1>2, <1>3 DEF Setting
<1>5. TableTypes
  <2>1. \A o \in Orgs : IsFiniteSet(settings[o].required)
    BY <1>4, FS_EmptySet
  <2>2. <<>> \in Fields
    BY DEF Fields
  <2>3. begun \in 0 .. MaxCalls
    BY SettingsAssumption DEF SettingsAssumption, Init, SettingsInit
  <2> QED BY <1>4, <2>1, <2>2, <2>3 DEF Init, SettingsInit, TableTypes, SettingsType
<1>6. CallTypes
  BY DEF Init, SettingsInit, CallTypes, AnyCall, SettingsCall, NoCall, HasPage, PageStages
<1>7. IntegrationTypes
  BY DEF Init, IntegrationTypes, Unused, Intent, Attempt
<1> QED BY <1>5, <1>6, <1>7 DEF Types

LEMMA TypesNext == Types /\ [Next]_vars => Types'
<1> SUFFICES ASSUME Types, [Next]_vars PROVE Types'
  OBVIOUS
<1> DEFINE SameTables == UNCHANGED <<org, settings, metadata, found, checked>>
<1>1. ASSUME SameTables, begun' \in 0 .. MaxCalls PROVE TableTypes'
  BY <1>1 DEF Types, TableTypes, SettingsType
<1>2. begun \in 0 .. MaxCalls /\ begun + 1 \in Nat
  BY DEF Types, TableTypes, SettingsType
<1>3. begun' = begun => begun' \in 0 .. MaxCalls
  BY <1>2
<1>4. Begin => begun' \in 0 .. MaxCalls
  BY <1>2, SettingsAssumption DEF Begin, SettingsAssumption
<1>5. UNCHANGED call => CallTypes'
  BY DEF Types, CallTypes, HasPage
<1>6. UNCHANGED integrationVars => IntegrationTypes'
  BY DEF Types, IntegrationTypes, integrationVars
<1>7. UNCHANGED settingsVars => TableTypes' /\ CallTypes'
  BY <1>1, <1>3, <1>5 DEF settingsVars, tables
<1>8. ASSUME SettingsNext, UNCHANGED integrationVars PROVE Types'
  <2>1. ASSUME NEW c \in Calls, NEW o \in Orgs, OpenSettings(c, o) PROVE Types'
    BY <1>1, <1>4, <1>6, <1>8, <2>1, PageCallsTypes DEF OpenSettings, tables, Types
  <2>2. ASSUME NEW c \in Calls, NEW o \in Orgs, NEW edit \in Parts, PostSettings(c, o, edit)
        PROVE  Types'
    BY <1>1, <1>3, <1>6, <1>8, <2>2, PageCallsTypes DEF PostSettings, tables, Types
  <2>3. ASSUME NEW c \in Calls, NEW o \in Orgs, NEW s \in Services, OpenService(c, o, s)
        PROVE  Types'
    BY <1>1, <1>4, <1>6, <1>8, <2>3, ServiceCallsTypes DEF OpenService, tables, Types
  <2>4. ASSUME NEW c \in Calls, NEW o \in Orgs, PostMetadata(c, o) PROVE Types'
    <3>1. CallTypes'
      BY <2>4, ServiceCallsTypes
    <3>2. UNCHANGED <<tables, begun, checked>>
      BY <2>4 DEF PostMetadata
    <3> QED BY <1>1, <1>3, <1>6, <1>8, <3>1, <3>2 DEF tables, Types
  <2>5. ASSUME NEW c \in Calls, ReadSettings(c) PROVE Types'
    BY <1>1, <1>3, <1>6, <1>8, <2>5, PageCallsTypes DEF ReadSettings, tables, Types
  <2>6. ASSUME NEW c \in Calls, CloseSettings(c) PROVE Types'
    BY <1>1, <1>3, <1>6, <1>8, <2>6, PageCallsTypes DEF CloseSettings, tables, Types
  <2>7. ASSUME NEW c \in Calls, SaveSettings(c) PROVE Types'
    BY <1>6, <1>8, <2>7, SaveTypes DEF Types
  <2>8. ASSUME NEW c \in Calls, ReadMetadata(c) \/ ShowService(c) \/ CloseService(c) \/ CheckMetadata(c)
        PROVE  Types'
    <3>1. CallTypes'
      BY <2>8, ServiceCallsTypes
    <3>2. UNCHANGED <<tables, begun, checked>>
      BY <2>8 DEF ReadMetadata, ShowService, CloseService, CheckMetadata
    <3> QED BY <1>1, <1>3, <1>6, <1>8, <3>1, <3>2 DEF tables, Types
  <2>9. ASSUME NEW c \in Calls, ReplaceServiceMetadata(c) PROVE Types'
    <3> DEFINE k == call[c]
    <3>1. k \in ReplaceCall
      BY <2>9, CallKinds DEF ReplaceServiceMetadata, Types, CallTypes
    <3>2. \/ metadata' = [metadata EXCEPT ![k.org][k.service] = k.form]
          \/ metadata' = metadata
      BY <2>9 DEF ReplaceServiceMetadata
    <3>3. k.org \in Orgs /\ k.service \in Services /\ k.form \in Fields
      BY <3>1 DEF ReplaceCall
    <3>4. \/ \E T \in {checked[k.org] \cup {k.service}, checked[k.org] \ {k.service}} :
               checked' = [checked EXCEPT ![k.org] = T]
          \/ checked' = checked
      BY <2>9, <3>3 DEF ReplaceServiceMetadata, Types, TableTypes, SettingsType
    <3>5. UNCHANGED <<org, settings, found, begun>>
      BY <2>9 DEF ReplaceServiceMetadata
    <3> HIDE DEF k
    <3>6. metadata' \in [Orgs -> [Services -> Fields]]
      <4> DEFINE new == [metadata[k.org] EXCEPT ![k.service] = k.form]
      <4>1. metadata \in [Orgs -> [Services -> Fields]]
        BY DEF Types, TableTypes, SettingsType
      <4>2. metadata' = [metadata EXCEPT ![k.org] = new] \/ metadata' = metadata
        BY <3>2
      <4>3. new \in [Services -> Fields]
        BY <3>3, <4>1
      <4> HIDE DEF new
      <4> QED BY <3>3, <4>1, <4>2, <4>3
    <3>7. checked' \in [Orgs -> SUBSET Services]
      BY <3>3, <3>4 DEF Types, TableTypes, SettingsType
    <3>8. TableTypes'
      BY <1>3, <3>5, <3>6, <3>7 DEF Types, TableTypes, SettingsType
    <3> QED BY <1>6, <1>8, <2>9, <3>8, ServiceCallsTypes DEF Types
  <2>10. ASSUME NEW o \in Orgs, NEW status \in {"enabled", "disabled"}, SetOrganizationEnabled(o, status)
         PROVE  Types'
    <3>1. TableTypes'
      BY <1>4, <2>10 DEF SetOrganizationEnabled, Types, TableTypes, SettingsType
    <3>2. CallTypes'
      BY <2>10, OutdatedCallTypes DEF SetOrganizationEnabled, Types
    <3> QED BY <1>6, <1>8, <3>1, <3>2 DEF Types
  <2>11. ASSUME NEW o \in Orgs, NEW e \in Envs, AppendEvent(o, e) PROVE Types'
    <3>1. TableTypes'
      BY <1>4, <2>11 DEF AppendEvent, Types, TableTypes, SettingsType
    <3> QED BY <1>5, <1>6, <1>8, <2>11, <3>1 DEF AppendEvent, Types
  <2> QED BY <1>8, <2>1, <2>2, <2>3, <2>4, <2>5, <2>6, <2>7, <2>8, <2>9, <2>10, <2>11 DEF SettingsNext
<1>9. ASSUME NEW o \in Orgs, Delete(o) PROVE Types'
  <2>1. TableTypes'
    <3>1. NoRows \in Setting /\ NoRows.required = {}
      BY DEF NoRows, Setting, Defaults
    <3>2. <<>> \in Fields
      BY DEF Fields
    <3>3. settings' \in [Orgs -> Setting] /\ \A p \in Orgs : IsFiniteSet(settings'[p].required)
      BY <1>9, <3>1, FS_EmptySet DEF Delete, DeleteOrganization, Types, TableTypes, SettingsType
    <3>4. SettingsType'
      BY <1>4, <1>9, <3>2, <3>3 DEF Delete, DeleteOrganization, Types, TableTypes, SettingsType
    <3> QED BY <3>3, <3>4 DEF TableTypes
  <2>2. CallTypes'
    BY <1>9, OutdatedCallTypes DEF Delete, DeleteOrganization, Types
  <2>3. IntegrationTypes'
    BY <1>9 DEF Delete, Types, IntegrationTypes, Gone, Intent
  <2> QED BY <2>1, <2>2, <2>3 DEF Types
<1>10. ASSUME NEW o \in Orgs, NEW s \in States, StartInstall(o, s) PROVE Types'
  <2>1. IntegrationTypes'
    BY <1>10 DEF StartInstall, Types, IntegrationTypes, Intent
  <2> QED BY <1>1, <1>4, <1>5, <1>10, <2>1 DEF StartInstall, tables, Types
<1>11. ASSUME NEW o \in Orgs, NEW i \in Installations, DeleteMapping(o, i) PROVE Types'
  <2>1. IntegrationTypes'
    BY <1>11 DEF DeleteMapping, Types, IntegrationTypes
  <2> QED BY <1>1, <1>4, <1>5, <1>11, <2>1 DEF DeleteMapping, tables, Types
<1>12. ASSUME NEW s \in States, Expire(s) PROVE Types'
  <2>1. IntegrationTypes'
    BY <1>12 DEF Expire, Types, IntegrationTypes, Intent
  <2> QED BY <1>7, <1>12, <2>1 DEF Expire, Types
<1>13. ASSUME NEW c \in Calls, NEW r \in MapCall \cup DropCall, Goto(c, r) PROVE CallTypes'
  <2>1. r \in AnyCall
    BY <1>13, CallKinds
  <2>2. ~HasPage(r)
    BY <1>13 DEF MapCall, DropCall, HasPage, PageStages
  <2> QED BY <1>13, <2>1, <2>2, GotoTypes DEF Types
<1>14. ASSUME NEW c \in Calls, NEW s \in States, NEW i \in Installations, CompleteInstall(c, s, i)
       PROVE  Types'
  <2> DEFINE r == IF intent[s].expired
                  THEN [at |-> "drop intent", state |-> s]
                  ELSE [at |-> "map", state |-> s, installation |-> i, org |-> intent[s].org]
  <2>1. Goto(c, r)
    BY <1>14 DEF CompleteInstall
  <2>2. intent[s].org \in Orgs
    BY <1>14 DEF CompleteInstall, Live, Types, IntegrationTypes, Intent
  <2>3. r \in MapCall \cup DropCall
    BY <2>2 DEF MapCall, DropCall
  <2> HIDE DEF r
  <2>4. CallTypes'
    BY <1>13, <2>1, <2>3
  <2> QED BY <1>1, <1>4, <1>6, <1>14, <2>4 DEF CompleteInstall, tables, Types
<1>15. ASSUME NEW c \in Calls, UpsertGitHubInstallationMapping(c) PROVE Types'
  <2> DEFINE k == call[c]
  <2>1. k \in MapCall
    BY <1>15, CallKinds DEF UpsertGitHubInstallationMapping, Types, CallTypes
  <2>2. k.org \in Orgs /\ k.installation \in Installations /\ [at |-> "drop intent", state |-> k.state] \in DropCall
    BY <2>1 DEF MapCall, DropCall
  <2>3. CASE k.org \in Existing
    <3>1. CallTypes'
      BY <1>13, <1>15, <2>2, <2>3 DEF UpsertGitHubInstallationMapping
    <3>2. IntegrationTypes'
      BY <1>15, <2>2, <2>3 DEF UpsertGitHubInstallationMapping, Types, IntegrationTypes
    <3> QED BY <1>1, <1>3, <1>15, <3>1, <3>2 DEF UpsertGitHubInstallationMapping, tables, Types
  <2>4. CASE k.org \notin Existing
    <3>1. CallTypes' /\ UNCHANGED integrationVars
      BY <1>15, <2>4, ReturnTypes DEF UpsertGitHubInstallationMapping, integrationVars, Types
    <3> QED BY <1>1, <1>3, <1>6, <1>15, <3>1 DEF UpsertGitHubInstallationMapping, tables, Types
  <2> QED BY <2>3, <2>4
<1>16. ASSUME NEW c \in Calls, DeleteGitHubSetupIntent(c) PROVE Types'
  <2>1. call[c].state \in States
    BY <1>16, CallKinds DEF DeleteGitHubSetupIntent, DropCall, Types, CallTypes
  <2>2. IntegrationTypes'
    BY <1>16, <2>1 DEF DeleteGitHubSetupIntent, Types, IntegrationTypes, Gone, Intent
  <2>3. CallTypes'
    BY <1>16, ReturnTypes DEF DeleteGitHubSetupIntent, Types
  <2> QED BY <1>1, <1>3, <1>16, <2>2, <2>3 DEF DeleteGitHubSetupIntent, tables, Types
<1>17. ASSUME NEW a \in Attempts, NEW r \in Attempt, Set(a, r), UNCHANGED <<intent, mapping, rows>>
       PROVE  IntegrationTypes'
  BY <1>17 DEF Set, Types, IntegrationTypes
<1>18. \A a \in Attempts : attempt[a] \in Attempt
  BY DEF Types, IntegrationTypes
<1>19. ASSUME NEW d \in Deliveries, NEW n \in 1 .. MaxAttempts, Send(d, n) PROVE Types'
  <2> DEFINE a == <<d, n>>
             r == IF Convert(d.hook, d.state) = "none"
                  THEN [attempt[a] EXCEPT !.bridge = "ignored"]
                  ELSE [attempt[a] EXCEPT !.bridge = "publishing", !.ddash = "resolve"]
  <2>1. a \in Attempts /\ Set(a, r)
    BY <1>19 DEF Send, Attempts
  <2>2. r \in Attempt
    BY <1>18, <2>1 DEF Attempt
  <2> HIDE DEF a, r
  <2> QED BY <1>7, <1>17, <1>19, <2>1, <2>2 DEF Send, Types
<1>20. ASSUME NEW a \in Attempts, ResolveOrganization(a) PROVE Types'
  <2>1. PICK o \in OrganizationOf(a[1].from) :
          Set(a, [attempt[a] EXCEPT !.ddash = "ingest", !.org = o])
    BY <1>20 DEF ResolveOrganization
  <2>2. [attempt[a] EXCEPT !.ddash = "ingest", !.org = o] \in Attempt
    BY <1>18, <2>1 DEF Attempt, OrganizationOf, Enabled
  <2> QED BY <1>7, <1>17, <1>20, <2>1, <2>2 DEF ResolveOrganization, Types
<1>21. ASSUME NEW a \in Attempts, Store(a) PROVE Types'
  <2> DEFINE o == attempt[a].org
  <2>1. o \in Orgs
    BY <1>21 DEF Store, Existing
  <2>2. a[1].env \in Envs
    BY IntegrationAssumption DEF IntegrationAssumption, Attempts
  <2>3. \/ found' = [found EXCEPT ![o] = @ \cup {a[1].env}]
        \/ found' = found
    BY <1>21 DEF Store
  <2>4. TableTypes'
    BY <1>21, <2>1, <2>2, <2>3 DEF Store, Types, TableTypes, SettingsType
  <2>5. [attempt[a] EXCEPT !.ddash = "stored"] \in Attempt
    BY <1>18 DEF Attempt
  <2>6. IntegrationTypes'
    BY <1>21, <2>1, <2>5 DEF Store, Set, Types, IntegrationTypes
  <2> QED BY <1>5, <1>21, <2>4, <2>6 DEF Store, Types
<1>22. ASSUME NEW a \in Attempts, Refuse(a) \/ Answer(a) \/ GiveUp(a) PROVE Types'
  <2>1. /\ [attempt[a] EXCEPT !.ddash = "refused"] \in Attempt
        /\ [attempt[a] EXCEPT !.bridge = "published"] \in Attempt
        /\ [attempt[a] EXCEPT !.bridge = "failed"] \in Attempt
    BY <1>18 DEF Attempt
  <2> QED BY <1>7, <1>17, <1>22, <2>1 DEF Refuse, Answer, GiveUp, Types
<1>23. CASE UNCHANGED vars
  BY <1>6, <1>7, <1>23 DEF vars, Types
<1> QED BY <1>8, <1>9, <1>10, <1>11, <1>12, <1>14, <1>15, <1>16, <1>19, <1>20, <1>21, <1>22, <1>23 DEF Next

LEMMA TypesAlways == Spec => []Types
<1>1. Init => Types
  BY TypesInit
<1>2. Types /\ [Next]_vars => Types'
  BY TypesNext
<1> QED BY <1>1, <1>2, PTL DEF Spec

\* Every variable has its type, whatever the calls, deliveries and callbacks do.
THEOREM AdministrationTypeCorrect == Spec => []AdministrationType
<1>1. Types => AdministrationType
  BY DEF Types, TableTypes, CallTypes, IntegrationTypes, AdministrationType, AnyCall
<1> QED BY <1>1, TypesAlways, PTL

-----------------------------------------------------------------------------
(* Deleted organizations.                                                  *)

\* The calls of Settings neither delete nor restore an organization, and write
\* for those that exist only.
LEMMA SettingsSteps ==
  ASSUME Types, SettingsNext
  PROVE  /\ Existing' = Existing
         /\ \A o \in Orgs \ Existing : settings'[o] = settings[o] /\ metadata'[o] = metadata[o]
<1> USE DEF Types, TableTypes, SettingsType
<1>1. ASSUME UNCHANGED <<org, settings, metadata>>
      PROVE  /\ Existing' = Existing
             /\ \A o \in Orgs \ Existing : settings'[o] = settings[o] /\ metadata'[o] = metadata[o]
  BY <1>1 DEF Existing
<1>2. ASSUME NEW c \in Calls, NEW o \in Orgs,
             \/ OpenSettings(c, o) \/ \E edit \in Parts : PostSettings(c, o, edit)
             \/ \E s \in Services : OpenService(c, o, s)
      PROVE  UNCHANGED <<org, settings, metadata>>
  BY <1>2 DEF OpenSettings, PostSettings, OpenService, tables
<1>3. ASSUME NEW c \in Calls, NEW o \in Orgs, PostMetadata(c, o)
      PROVE  UNCHANGED <<org, settings, metadata>>
  BY <1>3 DEF PostMetadata, tables
<1>4. ASSUME NEW c \in Calls,
             \/ ReadSettings(c) \/ CloseSettings(c) \/ ReadMetadata(c) \/ ShowService(c)
             \/ CloseService(c) \/ CheckMetadata(c)
      PROVE  UNCHANGED <<org, settings, metadata>>
  BY <1>4 DEF ReadSettings, CloseSettings, ReadMetadata, ShowService, CloseService, CheckMetadata, tables
<1>5. ASSUME NEW c \in Calls, SaveSettings(c)
      PROVE  /\ Existing' = Existing
             /\ \A o \in Orgs \ Existing : settings'[o] = settings[o] /\ metadata'[o] = metadata[o]
  <2>1. CASE UNCHANGED <<org, settings, checked>>
    BY <1>1, <1>5, <2>1 DEF SaveSettings
  <2>2. CASE ~UNCHANGED <<org, settings, checked>>
    <3> DEFINE k == call[c]
    <3>1. /\ k.org \in Existing
          /\ org' = [org EXCEPT ![k.org] = IF k.enabled THEN "enabled" ELSE "disabled"]
          /\ \A o \in Orgs \ {k.org} : settings'[o] = settings[o]
          /\ metadata' = metadata
      BY <1>5, <2>2 DEF SaveSettings
    <3> HIDE DEF k
    <3>2. Existing' = Existing
      BY <3>1 DEF Existing
    <3> QED BY <3>1, <3>2 DEF Existing
  <2> QED BY <2>1, <2>2
<1>6. ASSUME NEW c \in Calls, ReplaceServiceMetadata(c)
      PROVE  /\ Existing' = Existing
             /\ \A o \in Orgs \ Existing : settings'[o] = settings[o] /\ metadata'[o] = metadata[o]
  <2>1. \/ metadata' = metadata
        \/ /\ call[c].org \in Existing
           /\ metadata' = [metadata EXCEPT ![call[c].org][call[c].service] = call[c].form]
    BY <1>6 DEF ReplaceServiceMetadata
  <2>2. UNCHANGED <<org, settings>>
    BY <1>6 DEF ReplaceServiceMetadata
  <2> QED BY <2>1, <2>2 DEF Existing
<1>7. ASSUME NEW o \in Orgs, NEW status \in {"enabled", "disabled"}, SetOrganizationEnabled(o, status)
      PROVE  /\ Existing' = Existing
             /\ UNCHANGED <<settings, metadata>>
  BY <1>7 DEF SetOrganizationEnabled, Existing
<1>8. ASSUME NEW o \in Orgs, NEW e \in Envs, AppendEvent(o, e)
      PROVE  UNCHANGED <<org, settings, metadata>>
  BY <1>8 DEF AppendEvent
<1> HIDE DEF Types, TableTypes, SettingsType
<1> QED BY <1>1, <1>2, <1>3, <1>4, <1>5, <1>6, <1>7, <1>8 DEF SettingsNext

\* A deleted organization stays deleted.
LEMMA DeletedForGood ==
  ASSUME Types, [Next]_vars, NEW o \in Orgs \ Existing
  PROVE  o \in Orgs \ Existing'
<1>1. CASE SettingsNext
  BY <1>1, SettingsSteps
<1>2. ASSUME NEW p \in Orgs, Delete(p) PROVE o \notin Existing'
  BY <1>2 DEF Delete, DeleteOrganization, Existing, Types, TableTypes, SettingsType
<1>3. CASE UNCHANGED org
  BY <1>3 DEF Existing
<1>4. \/ SettingsNext
      \/ \E p \in Orgs : Delete(p)
      \/ UNCHANGED org
  BY DEF Next, StartInstall, DeleteMapping, Expire, CompleteInstall, UpsertGitHubInstallationMapping,
         DeleteGitHubSetupIntent, Send, ResolveOrganization, Store, Refuse, Answer, GiveUp,
         vars, settingsVars, tables
<1> QED BY <1>1, <1>2, <1>3, <1>4

LEMMA NothingOutlivesInit == Init => NothingOutlivesItsOrganization
<1> SUFFICES ASSUME Init PROVE Orgs \ Existing = {}
  BY DEF NothingOutlivesItsOrganization
<1> QED BY DEF Init, SettingsInit, Existing

LEMMA NothingOutlivesNext ==
  Types /\ NothingOutlivesItsOrganization /\ [Next]_vars => NothingOutlivesItsOrganization'
<1> SUFFICES ASSUME Types, NothingOutlivesItsOrganization, [Next]_vars,
                    NEW o \in Orgs, o \notin Existing'
             PROVE  /\ settings'[o] = NoRows
                    /\ \A s \in Services : metadata'[o][s] = <<>>
                    /\ \A s \in States : intent'[s].org # o
                    /\ \A i \in Installations : mapping'[i] # o
                    /\ \A r \in rows' : r.org # o
  BY DEF NothingOutlivesItsOrganization
<1> DEFINE Settled == /\ settings[o] = NoRows
                      /\ \A s \in Services : metadata[o][s] = <<>>
           Unnamed == /\ \A s \in States : intent[s].org # o
                      /\ \A i \in Installations : mapping[i] # o
                      /\ \A r \in rows : r.org # o
<1>1. o \notin Existing => Settled /\ Unnamed
  BY DEF NothingOutlivesItsOrganization
<1>2. o # 0
  BY SettingsAssumption DEF SettingsAssumption
<1>3. IntegrationTypes
  BY DEF Types
<1> HIDE DEF Settled, Unnamed
<1> SUFFICES Settled' /\ Unnamed'
  BY DEF Settled, Unnamed
<1>4. ASSUME NEW p \in Orgs, Delete(p) PROVE Settled' /\ Unnamed'
  <2>1. CASE o = p
    <3>1. Settled'
      BY <1>4, <2>1 DEF Delete, DeleteOrganization, Settled, Types, TableTypes, SettingsType
    <3>2. Unnamed'
      BY <1>2, <1>3, <1>4, <2>1 DEF Delete, Unnamed, Gone, IntegrationTypes
    <3> QED BY <3>1, <3>2
  <2>2. CASE o # p
    <3>1. o \notin Existing
      BY <1>4, <2>2 DEF Delete, DeleteOrganization, Existing, Types, TableTypes, SettingsType
    <3>2. Settled'
      BY <1>1, <1>4, <2>2, <3>1 DEF Delete, DeleteOrganization, Settled, Types, TableTypes, SettingsType
    <3>3. Unnamed'
      BY <1>1, <1>2, <1>3, <1>4, <3>1 DEF Delete, Unnamed, Gone, IntegrationTypes
    <3> QED BY <3>2, <3>3
  <2> QED BY <2>1, <2>2
<1>5. CASE SettingsNext /\ UNCHANGED integrationVars
  <2>1. o \notin Existing
    BY <1>5, SettingsSteps
  <2>2. settings'[o] = settings[o] /\ metadata'[o] = metadata[o]
    BY <1>5, <2>1, SettingsSteps
  <2>3. UNCHANGED <<intent, mapping, rows>>
    BY <1>5 DEF integrationVars
  <2> QED BY <1>1, <2>1, <2>2, <2>3 DEF Settled, Unnamed
<1>6. ASSUME UNCHANGED <<org, settings, metadata>> PROVE o \notin Existing /\ Settled'
  BY <1>1, <1>6 DEF Existing, Settled
<1>7. ASSUME UNCHANGED <<org, settings, metadata, intent, mapping, rows>> PROVE Settled' /\ Unnamed'
  BY <1>1, <1>6, <1>7 DEF Unnamed
<1>8. ASSUME NEW p \in Orgs, NEW s \in States, StartInstall(p, s) PROVE Settled' /\ Unnamed'
  <2>1. o \notin Existing /\ Settled' /\ p # o
    BY <1>6, <1>8 DEF StartInstall, tables, Enabled, Existing
  <2> QED BY <1>1, <1>3, <1>8, <2>1 DEF StartInstall, Unnamed, IntegrationTypes
<1>9. ASSUME NEW p \in Orgs, NEW i \in Installations, DeleteMapping(p, i) PROVE Settled' /\ Unnamed'
  <2>1. o \notin Existing /\ Settled'
    BY <1>6, <1>9 DEF DeleteMapping, tables
  <2> QED BY <1>1, <1>2, <1>3, <1>9, <2>1 DEF DeleteMapping, Unnamed, IntegrationTypes
<1>10. ASSUME NEW s \in States, Expire(s) PROVE Settled' /\ Unnamed'
  <2>1. o \notin Existing /\ Settled'
    BY <1>6, <1>10 DEF Expire, settingsVars, tables
  <2>2. \A t \in States : intent'[t].org = intent[t].org
    BY <1>3, <1>10 DEF Expire, IntegrationTypes, Intent
  <2> QED BY <1>1, <1>10, <2>1, <2>2 DEF Expire, Unnamed
<1>11. ASSUME NEW c \in Calls, NEW s \in States, NEW i \in Installations, CompleteInstall(c, s, i)
       PROVE  Settled' /\ Unnamed'
  BY <1>7, <1>11 DEF CompleteInstall, tables, integrationVars
<1>12. ASSUME NEW c \in Calls, UpsertGitHubInstallationMapping(c) PROVE Settled' /\ Unnamed'
  <2>1. o \notin Existing /\ Settled'
    BY <1>6, <1>12 DEF UpsertGitHubInstallationMapping, tables
  <2>2. CASE call[c].org \in Existing
    <3>1. mapping' = [mapping EXCEPT ![call[c].installation] = call[c].org]
      BY <1>12, <2>2 DEF UpsertGitHubInstallationMapping
    <3>2. \A i \in Installations : mapping'[i] \in {mapping[i], call[c].org}
      BY <1>3, <3>1 DEF IntegrationTypes
    <3> QED BY <1>1, <1>12, <2>1, <2>2, <3>2 DEF UpsertGitHubInstallationMapping, Unnamed
  <2>3. CASE call[c].org \notin Existing
    BY <1>1, <1>12, <2>1, <2>3 DEF UpsertGitHubInstallationMapping, Unnamed
  <2> QED BY <2>2, <2>3
<1>13. ASSUME NEW c \in Calls, DeleteGitHubSetupIntent(c) PROVE Settled' /\ Unnamed'
  <2>1. o \notin Existing /\ Settled'
    BY <1>6, <1>13 DEF DeleteGitHubSetupIntent, tables
  <2> QED BY <1>1, <1>2, <1>3, <1>13, <2>1 DEF DeleteGitHubSetupIntent, Unnamed, Gone, IntegrationTypes
<1>14. ASSUME NEW a \in Attempts, Store(a) PROVE Settled' /\ Unnamed'
  <2>1. o \notin Existing /\ Settled'
    BY <1>6, <1>14 DEF Store
  <2> QED BY <1>1, <1>14, <2>1 DEF Store, Unnamed
<1>15. ASSUME NEW d \in Deliveries, NEW n \in 1 .. MaxAttempts, Send(d, n) PROVE Settled' /\ Unnamed'
  BY <1>7, <1>15 DEF Send, settingsVars, tables
<1>16. ASSUME NEW a \in Attempts, ResolveOrganization(a) \/ Refuse(a) \/ Answer(a) \/ GiveUp(a)
       PROVE  Settled' /\ Unnamed'
  BY <1>7, <1>16 DEF ResolveOrganization, Refuse, Answer, GiveUp, settingsVars, tables
<1>17. CASE UNCHANGED vars
  BY <1>7, <1>17 DEF vars, settingsVars, tables, integrationVars
<1> QED BY <1>4, <1>5, <1>8, <1>9, <1>10, <1>11, <1>12, <1>13, <1>14, <1>15, <1>16, <1>17 DEF Next

\* Nothing that refers to a deleted organization is left or comes back, whatever
\* calls, callbacks and webhooks were under way when it was deleted.
THEOREM NothingOutlives == Spec => []NothingOutlivesItsOrganization
<1>1. Init => NothingOutlivesItsOrganization
  BY NothingOutlivesInit
<1>2. Types /\ NothingOutlivesItsOrganization /\ [Next]_vars => NothingOutlivesItsOrganization'
  BY NothingOutlivesNext
<1> QED BY <1>1, <1>2, TypesAlways, PTL DEF Spec

-----------------------------------------------------------------------------
(* Deliveries.  The bridge tells the provider that it published an event    *)
(* only when ddash told the bridge that it stored it, and a stored event    *)
(* stays for as long as its organization does.                              *)

DeliveryInv ==
  \A a \in Attempts :
    /\ attempt[a].bridge = "published" => attempt[a].ddash = "stored"
    /\ attempt[a].ddash = "stored" =>
         \/ [attempt |-> a, org |-> attempt[a].org] \in rows
         \/ attempt[a].org \in Orgs \ Existing

LEMMA DeliveryInit == Init => DeliveryInv
BY DEF Init, DeliveryInv

LEMMA DeliveryNext == Types /\ DeliveryInv /\ [Next]_vars => DeliveryInv'
<1> DEFINE Row(b) == [attempt |-> b, org |-> attempt[b].org]
           Good(b) == /\ attempt[b].bridge = "published" => attempt[b].ddash = "stored"
                      /\ attempt[b].ddash = "stored" =>
                           Row(b) \in rows \/ attempt[b].org \in Orgs \ Existing
<1> SUFFICES ASSUME Types, DeliveryInv, [Next]_vars, NEW b \in Attempts
             PROVE  Good(b)'
  BY DEF DeliveryInv
<1>1. Good(b)
  BY DEF DeliveryInv
<1>2. attempt \in [Attempts -> Attempt]
  BY DEF Types, IntegrationTypes
<1>3. \A o \in Orgs \ Existing : o \in Orgs \ Existing'
  BY DeletedForGood
<1>4. ASSUME attempt'[b] = attempt[b], rows \subseteq rows' PROVE Good(b)'
  BY <1>1, <1>3, <1>4
<1>5. ASSUME NEW a \in Attempts, NEW r \in Attempt, Set(a, r), rows \subseteq rows',
             a = b => /\ r.bridge = "published" => r.ddash = "stored"
                      /\ r.ddash = "stored" => \/ attempt[b].ddash = "stored" /\ r.org = attempt[b].org
                                               \/ [attempt |-> b, org |-> r.org] \in rows'
      PROVE  Good(b)'
  <2>1. CASE a # b
    BY <1>2, <1>4, <1>5, <2>1 DEF Set
  <2>2. CASE a = b
    <3>1. attempt'[b] = r
      BY <1>2, <1>5, <2>2 DEF Set
    <3> QED BY <1>1, <1>3, <1>5, <2>2, <3>1
  <2> QED BY <2>1, <2>2
<1> HIDE DEF Good
<1>6. CASE SettingsNext /\ UNCHANGED integrationVars
  BY <1>4, <1>6 DEF integrationVars
<1>7. ASSUME NEW o \in Orgs, Delete(o) PROVE Good(b)'
  <2>1. attempt' = attempt /\ rows' = {r \in rows : r.org # o}
    BY <1>7 DEF Delete
  <2>2. Row(b) \in rows => Row(b) \in rows' \/ attempt[b].org \in Orgs \ Existing'
    <3>1. Row(b).org = attempt[b].org
      OBVIOUS
    <3>2. attempt[b].org = o => attempt[b].org \in Orgs \ Existing'
      BY <1>7 DEF Delete, DeleteOrganization, Existing, Types, TableTypes, SettingsType
    <3> QED BY <2>1, <3>1, <3>2
  <2> QED BY <1>1, <1>3, <2>1, <2>2 DEF Good
<1>8. CASE UNCHANGED <<attempt, rows>>
  BY <1>4, <1>8
<1>9. ASSUME NEW d \in Deliveries, NEW n \in 1 .. MaxAttempts, Send(d, n) PROVE Good(b)'
  <2> DEFINE a == <<d, n>>
             ignored == [attempt[a] EXCEPT !.bridge = "ignored"]
             sent == [attempt[a] EXCEPT !.bridge = "publishing", !.ddash = "resolve"]
  <2>1. a \in Attempts
    BY DEF Attempts
  <2>2. /\ ignored \in Attempt /\ ignored.bridge = "ignored" /\ ignored.ddash = attempt[a].ddash
        /\ ignored.org = attempt[a].org
        /\ sent \in Attempt /\ sent.bridge = "publishing" /\ sent.ddash = "resolve"
    BY <1>2, <2>1 DEF Attempt
  <2>3. (Set(a, ignored) \/ Set(a, sent)) /\ rows' = rows
    BY <1>9 DEF Send
  <2> HIDE DEF a, ignored, sent
  <2> QED BY <1>5, <2>1, <2>2, <2>3
<1>10. ASSUME NEW a \in Attempts, ResolveOrganization(a) PROVE Good(b)'
  <2>1. PICK o \in OrganizationOf(a[1].from) :
          Set(a, [attempt[a] EXCEPT !.ddash = "ingest", !.org = o])
    BY <1>10 DEF ResolveOrganization
  <2> DEFINE r == [attempt[a] EXCEPT !.ddash = "ingest", !.org = o]
  <2>2. r \in Attempt /\ r.ddash = "ingest" /\ r.bridge = attempt[a].bridge
    BY <1>2, <2>1 DEF Attempt, OrganizationOf, Enabled
  <2>3. Set(a, r) /\ rows' = rows /\ attempt[a].ddash = "resolve"
    BY <1>10, <2>1 DEF ResolveOrganization
  <2> HIDE DEF r
  <2>4. r.bridge # "published" \/ a # b
    BY <1>1, <2>2, <2>3 DEF Good
  <2> QED BY <1>5, <2>2, <2>3, <2>4
<1>11. ASSUME NEW a \in Attempts, Store(a) PROVE Good(b)'
  <2> DEFINE r == [attempt[a] EXCEPT !.ddash = "stored"]
  <2>1. r \in Attempt /\ r.ddash = "stored" /\ r.org = attempt[a].org
    BY <1>2 DEF Attempt
  <2>2. Set(a, r) /\ rows' = rows \cup {[attempt |-> a, org |-> attempt[a].org]}
    BY <1>11 DEF Store
  <2> HIDE DEF r
  <2> QED BY <1>5, <2>1, <2>2
<1>12. ASSUME NEW a \in Attempts, Refuse(a) PROVE Good(b)'
  <2> DEFINE r == [attempt[a] EXCEPT !.ddash = "refused"]
  <2>1. r \in Attempt /\ r.ddash = "refused" /\ r.bridge = attempt[a].bridge
    BY <1>2 DEF Attempt
  <2>2. Set(a, r) /\ rows' = rows /\ attempt[a].ddash \in {"resolve", "ingest"}
    BY <1>12 DEF Refuse
  <2> HIDE DEF r
  <2>3. r.bridge # "published" \/ a # b
    BY <1>1, <2>1, <2>2 DEF Good
  <2> QED BY <1>5, <2>1, <2>2, <2>3
<1>13. ASSUME NEW a \in Attempts, Answer(a) \/ GiveUp(a) PROVE Good(b)'
  <2> DEFINE published == [attempt[a] EXCEPT !.bridge = "published"]
             failed == [attempt[a] EXCEPT !.bridge = "failed"]
  <2>1. /\ published \in Attempt /\ published.ddash = attempt[a].ddash
        /\ published.org = attempt[a].org
        /\ failed \in Attempt /\ failed.ddash = attempt[a].ddash
        /\ failed.org = attempt[a].org /\ failed.bridge = "failed"
    BY <1>2 DEF Attempt
  <2>2. /\ (Set(a, published) /\ attempt[a].ddash = "stored") \/ Set(a, failed)
        /\ rows' = rows
    BY <1>13 DEF Answer, GiveUp
  <2> HIDE DEF published, failed
  <2> QED BY <1>5, <2>1, <2>2
<1>14. ASSUME NEW o \in Orgs,
              \/ \E s \in States : StartInstall(o, s)
              \/ \E i \in Installations : DeleteMapping(o, i)
       PROVE  UNCHANGED <<attempt, rows>>
  BY <1>14 DEF StartInstall, DeleteMapping
<1>15. ASSUME NEW s \in States, Expire(s) PROVE UNCHANGED <<attempt, rows>>
  BY <1>15 DEF Expire
<1>16. ASSUME NEW c \in Calls,
              \/ \E s \in States, i \in Installations : CompleteInstall(c, s, i)
              \/ UpsertGitHubInstallationMapping(c) \/ DeleteGitHubSetupIntent(c)
       PROVE  UNCHANGED <<attempt, rows>>
  BY <1>16 DEF CompleteInstall, UpsertGitHubInstallationMapping, DeleteGitHubSetupIntent, integrationVars
<1>17. CASE UNCHANGED vars
  BY <1>8, <1>17 DEF vars, integrationVars
<1> QED BY <1>6, <1>7, <1>8, <1>9, <1>10, <1>11, <1>12, <1>13, <1>14, <1>15, <1>16, <1>17 DEF Next

\* What the bridge told the provider it published is stored under the
\* organization that its installation belonged to, as long as that exists.
THEOREM AcknowledgedDeliveries == Spec => []AcknowledgedDeliveryIsStored
<1>1. Init => DeliveryInv
  BY DeliveryInit
<1>2. Types /\ DeliveryInv /\ [Next]_vars => DeliveryInv'
  BY DeliveryNext
<1>3. DeliveryInv => AcknowledgedDeliveryIsStored
  BY DEF DeliveryInv, AcknowledgedDeliveryIsStored
<1> QED BY <1>1, <1>2, <1>3, TypesAlways, PTL DEF Spec

-----------------------------------------------------------------------------
(* Lists and pages.                                                        *)

PageFields(o, s) == buildServiceMetadataFields(settings[o].required, metadata[o][s])

FilledFields(o, s) == {l \in DOMAIN PageFields(o, s) : PageFields(o, s)[l] # ""}

ListedRows(o, s) ==
  {row \in ListServiceMetadataByOrganization(o) :
     row.label \in settings[o].required /\ row.value # "" /\ row.service = s}

\* The rows that a list of services counts for a service are the fields that
\* the service's page shows filled in.
LEMMA ListedAsShown ==
  ASSUME NEW o \in Orgs, NEW s \in Services
  PROVE  /\ DOMAIN PageFields(o, s) = settings[o].required
         /\ \A l \in FilledFields(o, s) :
              [service |-> s, label |-> l, value |-> PageFields(o, s)[l]] \in ListedRows(o, s)
         /\ \A row \in ListedRows(o, s) :
              row.label \in FilledFields(o, s) /\ row.value = PageFields(o, s)[row.label]
<1> DEFINE m == metadata[o][s]
<1>1. /\ DOMAIN PageFields(o, s) = settings[o].required
      /\ \A l \in settings[o].required : PageFields(o, s)[l] = IF l \in DOMAIN m THEN m[l] ELSE ""
  BY DEF PageFields, buildServiceMetadataFields
<1> DEFINE Rows(t) == {[service |-> t, label |-> l, value |-> metadata[o][t][l]] : l \in DOMAIN metadata[o][t]}
<1>2. ListServiceMetadataByOrganization(o) = UNION {Rows(t) : t \in Services}
  BY DEF ListServiceMetadataByOrganization
<1>3. \A l \in DOMAIN m :
        [service |-> s, label |-> l, value |-> m[l]] \in ListServiceMetadataByOrganization(o)
  <2>1. \A l \in DOMAIN m : [service |-> s, label |-> l, value |-> m[l]] \in Rows(s)
    OBVIOUS
  <2> HIDE DEF Rows
  <2> QED BY <1>2, <2>1
<1>4. \A row \in ListServiceMetadataByOrganization(o) :
        row.service = s => row.label \in DOMAIN m /\ row.value = m[row.label]
  <2> SUFFICES ASSUME NEW t \in Services, NEW row \in Rows(t), row.service = s
               PROVE  row.label \in DOMAIN m /\ row.value = m[row.label]
    BY <1>2
  <2>1. PICK l \in DOMAIN metadata[o][t] : row = [service |-> t, label |-> l, value |-> metadata[o][t][l]]
    OBVIOUS
  <2> QED BY <2>1
<1> HIDE DEF m
<1> QED BY <1>1, <1>3, <1>4 DEF FilledFields, ListedRows

LEMMA ListsAgree == Types => ListsAgreeWithPages
<1> SUFFICES ASSUME Types, NEW o \in Orgs, NEW s \in Services
             PROVE  LET shown  == buildServiceMetadataFields(settings[o].required, metadata[o][s])
                        filled == {l \in DOMAIN shown : shown[l] # ""}
                        badge  == applyMetadataToServices(s, loadMetadataFilterData(o))
                    IN
                    /\ badge.tags = {<<l, shown[l]>> : l \in filled \cap Filterable}
                    /\ badge.missing = IF filled = {} THEN 0 ELSE Cardinality(DOMAIN shown \ filled)
  BY DEF ListsAgreeWithPages
<1> DEFINE required == settings[o].required
           shown == buildServiceMetadataFields(required, metadata[o][s])
           filled == {l \in DOMAIN shown : shown[l] # ""}
           badge == applyMetadataToServices(s, loadMetadataFilterData(o))
           all == {row \in ListServiceMetadataByOrganization(o) :
                     row.label \in required /\ row.value # ""}
           of == {row \in all : row.service = s}
           tagged == {row \in of : row.label \in Filterable}
<1>1. /\ DOMAIN shown = required
      /\ \A l \in filled : [service |-> s, label |-> l, value |-> shown[l]] \in of
      /\ \A row \in of : row.label \in filled /\ row.value = shown[row.label]
  <2>1. of = ListedRows(o, s)
    BY DEF ListedRows
  <2>2. shown = PageFields(o, s) /\ filled = FilledFields(o, s)
    BY DEF PageFields, FilledFields
  <2> HIDE DEF shown, filled, of
  <2> QED BY <2>1, <2>2, ListedAsShown
<1>2. badge = IF s \in {row.service : row \in all}
              THEN [missing |-> Cardinality(required) - Cardinality({row.label : row \in of}),
                    tags    |-> {<<row.label, row.value>> : row \in tagged}]
              ELSE [missing |-> 0, tags |-> {}]
  BY DEF applyMetadataToServices, loadMetadataFilterData
<1>3. s \in {row.service : row \in all} <=> of # {}
  OBVIOUS
<1> HIDE DEF shown, badge, all, of
<1>4. of # {} <=> filled # {}
  BY <1>1
<1>5. {row.label : row \in of} = filled
  <2>1. \A l \in filled : \E row \in of : row.label = l
    <3> TAKE l \in filled
    <3> DEFINE r == [service |-> s, label |-> l, value |-> shown[l]]
    <3>1. r \in of /\ r.label = l
      BY <1>1
    <3> QED BY <3>1
  <2> HIDE DEF filled
  <2> QED BY <1>1, <2>1
<1>6. {<<row.label, row.value>> : row \in tagged} = {<<l, shown[l]>> : l \in filled \cap Filterable}
  <2>1. \A l \in filled \cap Filterable : \E row \in tagged : row.label = l /\ row.value = shown[l]
    <3> TAKE l \in filled \cap Filterable
    <3> DEFINE r == [service |-> s, label |-> l, value |-> shown[l]]
    <3>1. r \in of /\ r.label = l /\ r.value = shown[l]
      BY <1>1
    <3> HIDE DEF r
    <3>2. r \in tagged
      BY <3>1
    <3> QED BY <3>1, <3>2
  <2>2. \A row \in tagged : row.label \in filled \cap Filterable /\ row.value = shown[row.label]
    BY <1>1
  <2> HIDE DEF filled, tagged
  <2> QED BY <2>1, <2>2
<1>7. Cardinality(required \ filled) = Cardinality(required) - Cardinality(filled)
  <2>1. IsFiniteSet(required)
    BY DEF Types, TableTypes
  <2>2. required \cap filled = filled
    BY <1>1
  <2> HIDE DEF required, filled
  <2> QED BY <2>1, <2>2, FS_Difference
<1>8. filled = {} => {<<l, shown[l]>> : l \in filled \cap Filterable} = {}
  OBVIOUS
<1> HIDE DEF required, filled, tagged
<1>9. /\ badge.tags = {<<l, shown[l]>> : l \in filled \cap Filterable}
       /\ badge.missing = IF filled = {} THEN 0 ELSE Cardinality(DOMAIN shown \ filled)
  <2>1. CASE filled = {}
    <3>1. badge = [missing |-> 0, tags |-> {}]
      BY <1>2, <1>3, <1>4, <2>1
    <3> QED BY <1>8, <2>1, <3>1
  <2>2. CASE filled # {}
    <3>1. badge = [missing |-> Cardinality(required \ filled),
                   tags |-> {<<l, shown[l]>> : l \in filled \cap Filterable}]
      BY <1>2, <1>3, <1>4, <1>5, <1>6, <1>7, <2>2
    <3> QED BY <1>1, <2>2, <3>1
  <2> QED BY <2>1, <2>2
<1> QED BY <1>9 DEF badge, shown, filled, required

\* A list of services counts and tags what the services' own pages show.
THEOREM ListsAlwaysAgree == Spec => []ListsAgreeWithPages
BY ListsAgree, TypesAlways, PTL

-----------------------------------------------------------------------------
(* Strict enforcement.  A call that is still fresh has read what the        *)
(* settings say now.                                                       *)

FreshCalls == {"labels", "replace", "save"} \cup PageStages

LEMMA StillFresh ==
  ASSUME CallTypes, NEW o \in Orgs, NEW c \in Calls,
         Outdate(o, call)[c].at \in FreshCalls, Outdate(o, call)[c].fresh
  PROVE  call[c].org # o /\ Outdate(o, call)[c] = call[c]
<1> DEFINE k == call[c]
<1>1. k \in AnyCall /\ k.at \in FreshCalls
  BY OutdateTypes DEF CallTypes
<1>2. k \in PageCall \cup SaveCall \cup LabelsCall \cup ReplaceCall
  BY <1>1, CallKinds DEF FreshCalls
<1>3. "fresh" \in DOMAIN k
  BY <1>2 DEF PageCall, SaveCall, LabelsCall, ReplaceCall
<1>4. Outdate(o, call)[c] = IF k.org = o THEN [k EXCEPT !.fresh = FALSE] ELSE k
  BY <1>3 DEF Outdate
<1>5. [k EXCEPT !.fresh = FALSE].fresh = FALSE
  BY <1>3
<1> QED BY <1>4, <1>5

\* What a strict update under way has still to find, or has found.
Enforces(k) ==
  (k.fresh /\ "strict" \in settings[k.org].flags) =>
    /\ k.at = "labels" => k.strict
    /\ k.at = "replace" => settings[k.org].required \subseteq DOMAIN k.form

StrictInv ==
  /\ StrictMetadataIsComplete
  /\ \A c \in Calls : call[c].at \in {"labels", "replace"} => Enforces(call[c])

LEMMA StrictInit == Init => StrictInv
BY DEF Init, SettingsInit, StrictInv, StrictMetadataIsComplete, NoCall

\* Steps that write neither settings nor metadata, and check nothing.
LEMMA StrictElsewhere ==
  ASSUME Types, StrictInv, UNCHANGED <<settings, metadata, checked>>,
         \A c \in Calls : call'[c] = call[c] \/ call'[c].at \notin {"labels", "replace"}
                          \/ Enforces(call'[c])
  PROVE  StrictInv'
<1>1. StrictMetadataIsComplete'
  BY DEF StrictInv, StrictMetadataIsComplete
<1>2. ASSUME NEW c \in Calls, call'[c].at \in {"labels", "replace"}
      PROVE  Enforces(call[c])'
  <2>1. Enforces(call'[c])
    BY <1>2 DEF StrictInv
  <2> QED BY <2>1 DEF Enforces
<1> QED BY <1>1, <1>2 DEF StrictInv

LEMMA StrictGoto ==
  ASSUME Types, StrictInv, UNCHANGED <<settings, metadata, checked>>,
         NEW c \in Calls, NEW r, Goto(c, r), r.at \in {"labels", "replace"} => Enforces(r)
  PROVE  StrictInv'
<1>1. \A d \in Calls : call'[d] = call[d] \/ call'[d].at \notin {"labels", "replace"}
                       \/ Enforces(call'[d])
  BY DEF Goto, Types, CallTypes
<1> QED BY <1>1, StrictElsewhere

LEMMA StrictReturn ==
  ASSUME Types, StrictInv, UNCHANGED <<settings, metadata, checked>>, NEW c \in Calls, Return(c)
  PROVE  StrictInv'
BY StrictGoto DEF Return, NoCall

\* The settings of one organization are written, and every call is outdated.
LEMMA StrictOutdated ==
  ASSUME Types, StrictInv, NEW o \in Orgs,
         \A p \in Orgs \ {o} : /\ settings'[p] = settings[p]
                               /\ metadata'[p] = metadata[p]
                               /\ checked'[p] = checked[p],
         \/ checked'[o] = {}
         \/ settings'[o] = settings[o] /\ metadata'[o] = metadata[o] /\ checked'[o] = checked[o],
         \A c \in Calls : call'[c] = Outdate(o, call)[c] \/ call'[c] = NoCall
  PROVE  StrictInv'
<1>1. StrictMetadataIsComplete'
  BY DEF StrictInv, StrictMetadataIsComplete
<1>2. ASSUME NEW c \in Calls, call'[c].at \in {"labels", "replace"}, call'[c].fresh
      PROVE  Enforces(call[c])'
  <2>1. call'[c] # NoCall
    BY <1>2 DEF NoCall
  <2>2. call[c].org # o /\ call'[c] = call[c]
    BY <1>2, <2>1, StillFresh DEF FreshCalls, Types
  <2>3. call[c] \in LabelsCall \cup ReplaceCall
    BY <1>2, <2>2, CallKinds DEF Types, CallTypes
  <2>4. call[c].org \in Orgs
    BY <2>3 DEF LabelsCall, ReplaceCall
  <2>5. settings'[call'[c].org] = settings[call[c].org]
    BY <2>2, <2>4
  <2>6. Enforces(call[c])
    BY <1>2, <2>2 DEF StrictInv
  <2> QED BY <2>2, <2>5, <2>6 DEF Enforces
<1>3. \A c \in Calls : call'[c].at \in {"labels", "replace"} => Enforces(call[c])'
  <2> TAKE c \in Calls
  <2>1. CASE ~call'[c].fresh
    BY <2>1 DEF Enforces
  <2> QED BY <1>2, <2>1
<1> QED BY <1>1, <1>3 DEF StrictInv

LEMMA StrictNext == Types /\ StrictInv /\ [Next]_vars => StrictInv'
<1> SUFFICES ASSUME Types, StrictInv, [Next]_vars PROVE StrictInv'
  OBVIOUS
<1>1. CASE UNCHANGED <<settings, metadata, checked, call>>
  BY <1>1, StrictElsewhere
<1>2. ASSUME SettingsNext PROVE StrictInv'
  <2>1. ASSUME NEW c \in Calls, NEW o \in Orgs, OpenSettings(c, o) PROVE StrictInv'
    BY <2>1, StrictGoto DEF OpenSettings, tables
  <2>2. ASSUME NEW c \in Calls, NEW o \in Orgs, NEW edit \in Parts, PostSettings(c, o, edit)
        PROVE  StrictInv'
    BY <2>2, StrictGoto DEF PostSettings, tables
  <2>3. ASSUME NEW c \in Calls, NEW o \in Orgs, NEW s \in Services, OpenService(c, o, s)
        PROVE  StrictInv'
    BY <2>3, StrictGoto DEF OpenService, tables
  <2>4. ASSUME NEW c \in Calls, NEW o \in Orgs, PostMetadata(c, o) PROVE StrictInv'
    <3>1. UNCHANGED <<settings, metadata, checked>>
      BY <2>4 DEF PostMetadata, tables
    <3>2. CASE "editing" \in settings[o].flags
      <4>1. PICK form :
              Goto(c, [at |-> "labels", org |-> o, fresh |-> TRUE, service |-> call[c].service,
                       form |-> form, strict |-> "strict" \in settings[o].flags])
        BY <2>4, <3>2 DEF PostMetadata
      <4> DEFINE r == [at |-> "labels", org |-> o, fresh |-> TRUE, service |-> call[c].service,
                       form |-> form, strict |-> "strict" \in settings[o].flags]
      <4>2. Goto(c, r) /\ Enforces(r)
        BY <4>1 DEF Enforces
      <4> HIDE DEF r
      <4> QED BY <3>1, <4>2, StrictGoto
    <3>3. CASE "editing" \notin settings[o].flags
      BY <2>4, <3>1, <3>3, StrictReturn DEF PostMetadata
    <3> QED BY <3>2, <3>3
  <2>5. ASSUME NEW c \in Calls, ReadSettings(c) PROVE StrictInv'
    <3>1. UNCHANGED <<settings, metadata, checked>>
      BY <2>5 DEF ReadSettings, tables
    <3>2. \/ Return(c)
          \/ \E r : Goto(c, r) /\ r.at \in PageStages
      <4> DEFINE k == call[c]
      <4>1. k.at \in PageStages => k \in PageCall
        BY CallKinds DEF Types, CallTypes
      <4>2. CASE ReadOrganization(c)
        <5> DEFINE r == [k EXCEPT !.at = "required", !.enabled = k.org \in Enabled,
                                  !.page.token = settings[k.org].token]
        <5>1. Return(c) \/ Goto(c, r)
          BY <4>2 DEF ReadOrganization
        <5>2. r.at = "required"
          BY <4>1, <4>2 DEF ReadOrganization, PageCall, PageStages
        <5> QED BY <5>1, <5>2 DEF PageStages
      <4>3. CASE ReadRequiredFields(c)
        <5> DEFINE r == [k EXCEPT !.at = "order", !.page.required = settings[k.org].required]
        <5>1. Goto(c, r) /\ r.at = "order"
          BY <4>1, <4>3 DEF ReadRequiredFields, PageCall, PageStages
        <5> QED BY <5>1 DEF PageStages
      <4>4. CASE ReadEnvironmentPriorities(c)
        <5> DEFINE r == [k EXCEPT !.at = "discovered", !.page.order = settings[k.org].order]
        <5>1. Goto(c, r) /\ r.at = "discovered"
          BY <4>1, <4>4 DEF ReadEnvironmentPriorities, PageCall, PageStages
        <5> QED BY <5>1 DEF PageStages
      <4>5. CASE ReadDistinctEnvironments(c)
        <5> DEFINE r == [k EXCEPT !.at = "flags", !.page.order = mergeEnvironmentOrder(@, found[k.org])]
        <5>1. Goto(c, r) /\ r.at = "flags"
          BY <4>1, <4>5 DEF ReadDistinctEnvironments, PageCall, PageStages
        <5> QED BY <5>1 DEF PageStages
      <4>6. CASE ReadFeatures(c)
        <5> DEFINE r == [k EXCEPT !.at = "settings page", !.page.flags = settings[k.org].flags]
        <5>1. Goto(c, r) /\ r.at = "settings page"
          BY <4>1, <4>6 DEF ReadFeatures, PageCall, PageStages
        <5> QED BY <5>1 DEF PageStages
      <4> QED BY <2>5, <4>2, <4>3, <4>4, <4>5, <4>6 DEF ReadSettings
    <3> QED BY <3>1, <3>2, StrictReturn, StrictGoto DEF PageStages
  <2>6. ASSUME NEW c \in Calls, CloseSettings(c) \/ CloseService(c) PROVE StrictInv'
    BY <2>6, StrictReturn DEF CloseSettings, CloseService, tables
  <2>7. ASSUME NEW c \in Calls, SaveSettings(c) PROVE StrictInv'
    <3> DEFINE k == call[c]
    <3>1. k.org \in Orgs
      <4>1. k \in SaveCall
        BY <2>7, CallKinds DEF SaveSettings, Types, CallTypes
      <4> QED BY <4>1 DEF SaveCall
    <3>2. CASE UNCHANGED <<org, settings, checked>> /\ Return(c)
      BY <2>7, <3>2, StrictReturn DEF SaveSettings
    <3>3. CASE ~(UNCHANGED <<org, settings, checked>> /\ Return(c))
      <4>1. /\ \E new : settings' = [settings EXCEPT ![k.org] = new]
            /\ checked' = [checked EXCEPT ![k.org] = {}]
            /\ call' = [Outdate(k.org, call) EXCEPT ![c] = NoCall]
            /\ UNCHANGED metadata
        BY <2>7, <3>3 DEF SaveSettings
      <4> HIDE DEF k
      <4>2. checked'[k.org] = {}
        BY <3>1, <4>1 DEF Types, TableTypes, SettingsType
      <4>3. \A p \in Orgs \ {k.org} : /\ settings'[p] = settings[p]
                                      /\ metadata'[p] = metadata[p]
                                      /\ checked'[p] = checked[p]
        BY <4>1 DEF Types, TableTypes, SettingsType
      <4>4. \A d \in Calls : call'[d] = Outdate(k.org, call)[d] \/ call'[d] = NoCall
        BY <4>1 DEF Outdate
      <4> QED BY <3>1, <4>2, <4>3, <4>4, StrictOutdated
    <3> QED BY <3>2, <3>3
  <2>8. ASSUME NEW c \in Calls, ReadMetadata(c) PROVE StrictInv'
    <3> DEFINE k == call[c]
               r == [k EXCEPT !.at = "mask",
                              !.shown = buildServiceMetadataFields(@, metadata[k.org][k.service])]
    <3>1. k \in ValuesCall
      BY <2>8, CallKinds DEF ReadMetadata, Types, CallTypes
    <3>2. Goto(c, r) /\ r.at = "mask"
      BY <2>8, <3>1 DEF ReadMetadata, ValuesCall
    <3>3. UNCHANGED <<settings, metadata, checked>>
      BY <2>8 DEF ReadMetadata, tables
    <3> HIDE DEF r
    <3> QED BY <3>2, <3>3, StrictGoto
  <2>9. ASSUME NEW c \in Calls, ShowService(c) PROVE StrictInv'
    <3> DEFINE k == call[c]
               r == [k EXCEPT !.at = "service page",
                              !.shown = IF "mask" \in settings[k.org].flags
                                        THEN maskSensitiveFields(@) ELSE @]
    <3>1. k \in ShownCall
      BY <2>9, CallKinds DEF ShowService, Types, CallTypes
    <3>2. Return(c) \/ Goto(c, r)
      BY <2>9 DEF ShowService
    <3>3. r.at = "service page"
      BY <3>1 DEF ShownCall
    <3>4. UNCHANGED <<settings, metadata, checked>>
      BY <2>9 DEF ShowService, tables
    <3> HIDE DEF r
    <3> QED BY <3>2, <3>3, <3>4, StrictGoto, StrictReturn
  <2>10. ASSUME NEW c \in Calls, CheckMetadata(c) PROVE StrictInv'
    <3> DEFINE k == call[c]
               required == settings[k.org].required
               filled == {l \in DOMAIN k.form \cap required : k.form[l] # ""}
               r == [at |-> "replace", org |-> k.org, fresh |-> k.fresh, service |-> k.service,
                     form |-> [l \in filled |-> k.form[l]]]
    <3>1. UNCHANGED <<settings, metadata, checked>>
      BY <2>10 DEF CheckMetadata, tables
    <3>2. \/ Return(c)
          \/ ~(k.strict /\ ~(required \subseteq filled)) /\ Goto(c, r)
      BY <2>10 DEF CheckMetadata
    <3>3. Enforces(k) /\ k.at = "labels"
      BY <2>10 DEF CheckMetadata, StrictInv
    <3>4. DOMAIN r.form = filled /\ r.org = k.org /\ r.fresh = k.fresh /\ r.at = "replace"
      OBVIOUS
    <3> HIDE DEF filled, r
    <3>5. CASE ~(k.strict /\ ~(required \subseteq filled)) /\ Goto(c, r)
      <4>1. Enforces(r)
        BY <3>3, <3>4, <3>5 DEF Enforces
      <4> QED BY <3>1, <3>5, <4>1, StrictGoto
    <3> QED BY <3>1, <3>2, <3>5, StrictReturn
  <2>11. ASSUME NEW c \in Calls, ReplaceServiceMetadata(c) PROVE StrictInv'
    <3> DEFINE k == call[c]
    <3>1. k \in ReplaceCall /\ Enforces(k) /\ k.at = "replace"
      BY <2>11, CallKinds DEF ReplaceServiceMetadata, Types, CallTypes, StrictInv
    <3>2. CASE k.org \notin Existing
      BY <2>11, <3>2, StrictReturn DEF ReplaceServiceMetadata
    <3>3. CASE k.org \in Existing
      <4>1. /\ metadata' = [metadata EXCEPT ![k.org][k.service] = k.form]
            /\ checked' = [checked EXCEPT ![k.org] =
                             IF k.fresh THEN @ \cup {k.service} ELSE @ \ {k.service}]
            /\ Return(c)
            /\ UNCHANGED settings
        BY <2>11, <3>3 DEF ReplaceServiceMetadata
      <4>2. k.org \in Orgs /\ k.service \in Services
        BY <3>1 DEF ReplaceCall
      <4>3. ASSUME NEW o \in Orgs, NEW s \in checked'[o], "strict" \in settings[o].flags
            PROVE  settings[o].required \subseteq DOMAIN metadata'[o][s]
        <5> HIDE DEF k
        <5>1. s \in Services
          BY <4>1, <4>2, <4>3 DEF Types, TableTypes, SettingsType
        <5>2. CASE o = k.org /\ s = k.service
          <6>1. metadata'[o][s] = k.form
            BY <4>1, <4>2, <5>2 DEF Types, TableTypes, SettingsType
          <6>2. k.fresh
            BY <4>1, <4>2, <4>3, <5>2 DEF Types, TableTypes, SettingsType
          <6> QED BY <3>1, <4>3, <5>2, <6>1, <6>2 DEF Enforces
        <5>3. CASE ~(o = k.org /\ s = k.service)
          <6>1. metadata'[o][s] = metadata[o][s]
            BY <4>1, <4>2, <5>1, <5>3 DEF Types, TableTypes, SettingsType
          <6>2. s \in checked[o]
            BY <4>1, <4>2, <4>3, <5>3 DEF Types, TableTypes, SettingsType
          <6> QED BY <4>3, <6>1, <6>2 DEF StrictInv, StrictMetadataIsComplete
        <5> QED BY <5>2, <5>3
      <4>4. StrictMetadataIsComplete'
        BY <4>1, <4>3 DEF StrictMetadataIsComplete
      <4>5. ASSUME NEW d \in Calls, call'[d].at \in {"labels", "replace"} PROVE Enforces(call[d])'
        <5>1. call'[d] = call[d]
          BY <4>1, <4>5 DEF Return, Goto, NoCall, Types, CallTypes
        <5>2. Enforces(call[d])
          BY <4>5, <5>1 DEF StrictInv
        <5> QED BY <4>1, <5>1, <5>2 DEF Enforces
      <4> QED BY <4>4, <4>5 DEF StrictInv
    <3> QED BY <3>2, <3>3
  <2>12. ASSUME NEW o \in Orgs, NEW status \in {"enabled", "disabled"}, SetOrganizationEnabled(o, status)
         PROVE  StrictInv'
    <3>1. UNCHANGED <<settings, metadata, checked>> /\ call' = Outdate(o, call)
      BY <2>12 DEF SetOrganizationEnabled
    <3> QED BY <3>1, StrictOutdated
  <2>13. ASSUME NEW o \in Orgs, NEW e \in Envs, AppendEvent(o, e) PROVE StrictInv'
    BY <1>1, <2>13 DEF AppendEvent
  <2> QED BY <1>2, <2>1, <2>2, <2>3, <2>4, <2>5, <2>6, <2>7, <2>8, <2>9, <2>10, <2>11, <2>12, <2>13
          DEF SettingsNext
<1>3. ASSUME NEW o \in Orgs, Delete(o) PROVE StrictInv'
  <2>1. /\ \A p \in Orgs \ {o} : /\ settings'[p] = settings[p]
                                 /\ metadata'[p] = metadata[p]
                                 /\ checked'[p] = checked[p]
        /\ checked'[o] = {}
        /\ call' = Outdate(o, call)
    BY <1>3 DEF Delete, DeleteOrganization, Types, TableTypes, SettingsType
  <2> QED BY <2>1, StrictOutdated
<1>4. ASSUME NEW c \in Calls, NEW s \in States, NEW i \in Installations, CompleteInstall(c, s, i)
      PROVE  StrictInv'
  <2> DEFINE r == IF intent[s].expired
                  THEN [at |-> "drop intent", state |-> s]
                  ELSE [at |-> "map", state |-> s, installation |-> i, org |-> intent[s].org]
  <2>1. Goto(c, r) /\ UNCHANGED <<settings, metadata, checked>>
    BY <1>4 DEF CompleteInstall, tables
  <2>2. r.at \notin {"labels", "replace"}
    OBVIOUS
  <2> HIDE DEF r
  <2> QED BY <2>1, <2>2, StrictGoto
<1>5. ASSUME NEW c \in Calls, UpsertGitHubInstallationMapping(c) PROVE StrictInv'
  <2>1. UNCHANGED <<settings, metadata, checked>>
    BY <1>5 DEF UpsertGitHubInstallationMapping, tables
  <2>2. Return(c) \/ Goto(c, [at |-> "drop intent", state |-> call[c].state])
    BY <1>5 DEF UpsertGitHubInstallationMapping
  <2> QED BY <2>1, <2>2, StrictGoto, StrictReturn
<1>6. ASSUME NEW c \in Calls, DeleteGitHubSetupIntent(c) PROVE StrictInv'
  BY <1>6, StrictReturn DEF DeleteGitHubSetupIntent, tables
<1>7. ASSUME NEW o \in Orgs,
             \/ \E s \in States : StartInstall(o, s)
             \/ \E i \in Installations : DeleteMapping(o, i)
      PROVE  StrictInv'
  BY <1>1, <1>7 DEF StartInstall, DeleteMapping, tables
<1>8. ASSUME NEW s \in States, Expire(s) PROVE StrictInv'
  BY <1>1, <1>8 DEF Expire, settingsVars, tables
<1>9. ASSUME NEW d \in Deliveries, NEW n \in 1 .. MaxAttempts, Send(d, n) PROVE StrictInv'
  BY <1>1, <1>9 DEF Send, settingsVars, tables
<1>10. ASSUME NEW a \in Attempts,
              ResolveOrganization(a) \/ Store(a) \/ Refuse(a) \/ Answer(a) \/ GiveUp(a)
       PROVE  StrictInv'
  BY <1>1, <1>10 DEF ResolveOrganization, Store, Refuse, Answer, GiveUp, settingsVars, tables
<1>11. CASE UNCHANGED vars
  BY <1>1, <1>11 DEF vars, settingsVars, tables
<1> QED BY <1>2, <1>3, <1>4, <1>5, <1>6, <1>7, <1>8, <1>9, <1>10, <1>11 DEF Next

\* Metadata written by a strict update that began after the last save of the
\* settings has every required field, in whatever order the statements ran.
THEOREM StrictMetadata == Spec => []StrictMetadataIsComplete
<1>1. Init => StrictInv
  BY StrictInit
<1>2. Types /\ StrictInv /\ [Next]_vars => StrictInv'
  BY StrictNext
<1>3. StrictInv => StrictMetadataIsComplete
  BY DEF StrictInv
<1> QED BY <1>1, <1>2, <1>3, TypesAlways, PTL DEF Spec

-----------------------------------------------------------------------------
(* Saves.  A page that is still fresh shows what the tables hold, part by   *)
(* part as it is read; only its order may lack environments that events     *)
(* have brought since.                                                     *)

LEMMA PrecedesConcat ==
  ASSUME NEW S, NEW s \in Seq(S), NEW t \in Seq(S), NEW x, NEW y
  PROVE  Precedes(s \o t, x, y) <=> \/ Precedes(s, x, y)
                                    \/ x \in ToSet(s) /\ y \in ToSet(t)
                                    \/ Precedes(t, x, y)
<1> DEFINE m == Len(s)
           n == Len(t)
           u == s \o t
<1>1. /\ m \in Nat /\ n \in Nat
      /\ DOMAIN s = 1 .. m /\ DOMAIN t = 1 .. n /\ DOMAIN u = 1 .. m + n
      /\ \A i \in 1 .. m : u[i] = s[i]
      /\ \A i \in 1 .. n : u[m + i] = t[i]
  OBVIOUS
<1>2. /\ \A z : z \in ToSet(s) <=> \E i \in 1 .. m : s[i] = z
      /\ \A z : z \in ToSet(t) <=> \E i \in 1 .. n : t[i] = z
  BY <1>1 DEF ToSet
<1> HIDE DEF m, n, u
<1>3. \A i \in 1 .. m + n : i \in 1 .. m \/ (i - m \in 1 .. n /\ i = m + (i - m) /\ i > m)
  BY <1>1
<1>4. ASSUME Precedes(u, x, y)
      PROVE  Precedes(s, x, y) \/ (x \in ToSet(s) /\ y \in ToSet(t)) \/ Precedes(t, x, y)
  <2>1. PICK i \in 1 .. m + n, j \in 1 .. m + n : i <= j /\ u[i] = x /\ u[j] = y
    BY <1>1, <1>4 DEF Precedes
  <2>2. CASE i \in 1 .. m /\ j \in 1 .. m
    BY <1>1, <2>1, <2>2 DEF Precedes
  <2>3. CASE i \in 1 .. m /\ j \notin 1 .. m
    <3>1. j - m \in 1 .. n /\ u[j] = t[j - m]
      BY <1>1, <1>3, <2>3
    <3> QED BY <1>1, <1>2, <2>1, <2>3, <3>1
  <2>4. CASE i \notin 1 .. m
    <3>1. j \notin 1 .. m
      BY <1>1, <2>1, <2>4
    <3>2. i - m \in 1 .. n /\ u[i] = t[i - m]
      BY <1>1, <1>3, <2>4
    <3>3. j - m \in 1 .. n /\ u[j] = t[j - m]
      BY <1>1, <1>3, <3>1
    <3>4. i - m <= j - m
      BY <1>1, <2>1
    <3> QED BY <1>1, <2>1, <3>2, <3>3, <3>4 DEF Precedes
  <2> QED BY <2>2, <2>3, <2>4
<1>5. ASSUME Precedes(s, x, y) PROVE Precedes(u, x, y)
  <2>1. PICK i \in 1 .. m, j \in 1 .. m : i <= j /\ s[i] = x /\ s[j] = y
    BY <1>1, <1>5 DEF Precedes
  <2>2. i \in 1 .. m + n /\ j \in 1 .. m + n
    BY <1>1
  <2> QED BY <1>1, <2>1, <2>2 DEF Precedes
<1>6. ASSUME x \in ToSet(s), y \in ToSet(t) PROVE Precedes(u, x, y)
  <2>1. PICK i \in 1 .. m, j \in 1 .. n : s[i] = x /\ t[j] = y
    BY <1>2, <1>6
  <2>2. i \in 1 .. m + n /\ m + j \in 1 .. m + n /\ i <= m + j
    BY <1>1
  <2> QED BY <1>1, <2>1, <2>2 DEF Precedes
<1>7. ASSUME Precedes(t, x, y) PROVE Precedes(u, x, y)
  <2>1. PICK i \in 1 .. n, j \in 1 .. n : i <= j /\ t[i] = x /\ t[j] = y
    BY <1>1, <1>7 DEF Precedes
  <2>2. m + i \in 1 .. m + n /\ m + j \in 1 .. m + n /\ m + i <= m + j
    BY <1>1, <2>1
  <2> QED BY <1>1, <2>1, <2>2 DEF Precedes
<1> QED BY <1>4, <1>5, <1>6, <1>7 DEF u

LEMMA PrecedesByName ==
  ASSUME NEW S \in SUBSET Nat, IsFiniteSet(S), NEW x, NEW y
  PROVE  /\ ByName(S) \in Seq(Nat)
         /\ ToSet(ByName(S)) = S
         /\ Precedes(ByName(S), x, y) <=> x \in S /\ y \in S /\ x <= y
<1> DEFINE s == ByName(S)
           n == Cardinality(S)
<1>1. /\ s \in [1 .. n -> S]
      /\ \A i, j \in 1 .. n : i < j => s[i] < s[j]
      /\ n \in Nat
      /\ \A z \in S : \E i \in 1 .. n : s[i] = z
  BY ByNameSorts
<1> HIDE DEF s, n
<1>2. s \in Seq(Nat)
  <2>1. s \in [1 .. n -> Nat]
    BY <1>1
  <2> QED BY <1>1, <2>1
<1>3. DOMAIN s = 1 .. n
  BY <1>1
<1>4. ToSet(s) = S
  BY <1>1, <1>3 DEF ToSet
<1>5. ASSUME Precedes(s, x, y) PROVE x \in S /\ y \in S /\ x <= y
  <2>1. PICK i \in 1 .. n, j \in 1 .. n : i <= j /\ s[i] = x /\ s[j] = y
    BY <1>3, <1>5 DEF Precedes
  <2>2. x \in Nat /\ y \in Nat /\ x \in S /\ y \in S
    BY <1>1, <2>1
  <2>3. CASE i = j
    BY <2>1, <2>2, <2>3
  <2>4. CASE i < j
    BY <1>1, <2>1, <2>2, <2>4
  <2> QED BY <1>1, <2>1, <2>3, <2>4
<1>6. ASSUME x \in S, y \in S, x <= y PROVE Precedes(s, x, y)
  <2>1. PICK i \in 1 .. n : s[i] = x
    BY <1>1, <1>6
  <2>2. PICK j \in 1 .. n : s[j] = y
    BY <1>1, <1>6
  <2>3. ~ (j < i)
    BY <1>1, <1>6, <2>1, <2>2
  <2>4. i <= j
    BY <1>1, <2>3
  <2> QED BY <1>3, <2>1, <2>2, <2>4 DEF Precedes
<1> QED BY <1>2, <1>4, <1>5, <1>6 DEF s

\* Saving the order of a page, which lists some of the discovered environments
\* behind the stored ones, changes nothing about the order of those it lists.
LEMMA SavedOrder ==
  ASSUME NEW stored \in Seq(Envs), NEW F \in SUBSET Envs, NEW D \in SUBSET F, NEW posted,
         posted = mergeEnvironmentOrder(stored, D),
         NEW x \in ToSet(posted), NEW y \in ToSet(posted)
  PROVE  Precedes(mergeEnvironmentOrder(stored, F), x, y)
           <=> Precedes(mergeEnvironmentOrder(posted, F), x, y)
<1> DEFINE G == D \ ToSet(stored)
           New == F \ ToSet(stored)
           Rest == F \ ToSet(posted)
<1>1. \A T \in SUBSET Envs : T \in SUBSET Nat /\ IsFiniteSet(T)
  BY SettingsAssumption, FiniteSubset DEF SettingsAssumption
<1>2. stored \in Seq(Nat)
  <2>1. Envs \subseteq Nat
    BY SettingsAssumption DEF SettingsAssumption
  <2>2. Len(stored) \in Nat /\ stored \in [1 .. Len(stored) -> Envs]
    OBVIOUS
  <2>3. stored \in [1 .. Len(stored) -> Nat]
    BY <2>1, <2>2
  <2> QED BY <2>2, <2>3
<1>3. posted = stored \o ByName(G)
  BY DEF mergeEnvironmentOrder
<1>4. /\ mergeEnvironmentOrder(stored, F) = stored \o ByName(New)
      /\ mergeEnvironmentOrder(posted, F) = posted \o ByName(Rest)
  BY DEF mergeEnvironmentOrder
<1>5. G \in SUBSET Envs /\ New \in SUBSET Envs /\ Rest \in SUBSET Envs
  OBVIOUS
<1>6. \A T \in {G, New, Rest} :
        /\ ByName(T) \in Seq(Nat)
        /\ ToSet(ByName(T)) = T
        /\ Precedes(ByName(T), x, y) <=> x \in T /\ y \in T /\ x <= y
  <2> HIDE DEF G, New, Rest
  <2> QED BY <1>1, <1>5, PrecedesByName
<1>7. posted \in Seq(Nat)
  <2> HIDE DEF G
  <2> QED BY <1>2, <1>3, <1>6
<1>8. \A z : z \in ToSet(posted) <=> z \in ToSet(stored) \/ z \in G
  <2>1. \A z : Precedes(posted, z, z) <=> z \in ToSet(posted)
    <3>1. \A i \in DOMAIN posted : i <= i
      BY <1>7
    <3> QED BY <3>1 DEF Precedes, ToSet
  <2>2. \A z : Precedes(stored, z, z) <=> z \in ToSet(stored)
    <3>1. \A i \in DOMAIN stored : i <= i
      BY <1>2
    <3> QED BY <3>1 DEF Precedes, ToSet
  <2>3. \A z : Precedes(ByName(G), z, z) <=> z \in ToSet(ByName(G))
    <3>1. \A i \in DOMAIN ByName(G) : i <= i
      BY <1>6
    <3> QED BY <3>1 DEF Precedes, ToSet
  <2> HIDE DEF G
  <2>4. TAKE z
  <2>5. Precedes(posted, z, z) <=> \/ Precedes(stored, z, z)
                                   \/ z \in ToSet(stored) /\ z \in ToSet(ByName(G))
                                   \/ Precedes(ByName(G), z, z)
    BY <1>2, <1>3, <1>6, PrecedesConcat
  <2> QED BY <1>6, <2>1, <2>2, <2>3, <2>5
<1>9. /\ Rest \cap ToSet(posted) = {}
      /\ \A z \in ToSet(posted) : z \in New <=> z \in G
  BY <1>8
<1> HIDE DEF G, New, Rest
<1>10. Precedes(stored \o ByName(New), x, y) <=> \/ Precedes(stored, x, y)
                                                 \/ x \in ToSet(stored) /\ y \in New
                                                 \/ x \in New /\ y \in New /\ x <= y
  BY <1>2, <1>6, PrecedesConcat
<1>11. Precedes(posted \o ByName(Rest), x, y) <=> \/ Precedes(posted, x, y)
                                                  \/ x \in ToSet(posted) /\ y \in Rest
                                                  \/ x \in Rest /\ y \in Rest /\ x <= y
  BY <1>6, <1>7, PrecedesConcat
<1>12. Precedes(posted, x, y) <=> \/ Precedes(stored, x, y)
                                  \/ x \in ToSet(stored) /\ y \in G
                                  \/ x \in G /\ y \in G /\ x <= y
  BY <1>2, <1>3, <1>6, PrecedesConcat
<1> QED BY <1>4, <1>9, <1>10, <1>11, <1>12

\* What a fresh call has read, and what is left of it in the form it posts.
EnabledRead(k)  == k.enabled <=> k.org \in Enabled
TokenRead(k)    == k.page.token = settings[k.org].token
RequiredRead(k) == k.page.required = settings[k.org].required
FlagsRead(k)    == k.page.flags = settings[k.org].flags
OrderRead(k)    ==
  \E D \in SUBSET found[k.org] : k.page.order = mergeEnvironmentOrder(settings[k.org].order, D)

ReadSoFar(k) ==
  /\ k.at \in PageStages \ {"row"} => EnabledRead(k) /\ TokenRead(k)
  /\ k.at \in PageStages \ {"row", "required"} => RequiredRead(k)
  /\ k.at = "discovered" => k.page.order = settings[k.org].order
  /\ k.at \in {"flags", "settings page"} => OrderRead(k)
  /\ k.at = "settings page" => FlagsRead(k)

PostedAsRead(k) ==
  (k.at = "save" /\ k.of = k.org) =>
    /\ k.edit # "enabled" => EnabledRead(k)
    /\ k.edit # "token" => TokenRead(k)
    /\ k.edit # "required" => RequiredRead(k)
    /\ k.edit # "order" => OrderRead(k)
    /\ k.edit # "flags" => FlagsRead(k)

UpToDate(k) == k.fresh => ReadSoFar(k) /\ PostedAsRead(k)

PagesInv == \A c \in Calls : HasPage(call[c]) => UpToDate(call[c])

LEMMA PagesInit == Init => PagesInv
<1>1. ~HasPage(NoCall)
  BY DEF NoCall, HasPage, PageStages
<1> QED BY <1>1 DEF Init, SettingsInit, PagesInv

\* Steps that write no settings.
LEMMA PagesElsewhere ==
  ASSUME Types, PagesInv, UNCHANGED <<org, settings>>,
         \A o \in Orgs : found[o] \subseteq found'[o],
         CallTypes',
         \A c \in Calls : call'[c] = call[c] \/ ~HasPage(call'[c]) \/ UpToDate(call'[c])
  PROVE  PagesInv'
<1> SUFFICES ASSUME NEW c \in Calls, HasPage(call'[c]), call'[c].fresh
             PROVE  ReadSoFar(call[c])' /\ PostedAsRead(call[c])'
  BY DEF PagesInv, UpToDate, HasPage
<1>1. ReadSoFar(call'[c]) /\ PostedAsRead(call'[c])
  BY DEF PagesInv, UpToDate
<1>2. call'[c].org \in Orgs
  <2>1. call'[c] \in PageCall \cup SaveCall
    BY CallKinds DEF CallTypes
  <2> QED BY <2>1 DEF PageCall, SaveCall
<1>3. OrderRead(call'[c]) => OrderRead(call[c])'
  <2> SUFFICES ASSUME NEW D \in SUBSET found[call'[c].org],
                      call'[c].page.order = mergeEnvironmentOrder(settings[call'[c].org].order, D)
               PROVE  \E E \in SUBSET found'[call'[c].org] :
                        call'[c].page.order = mergeEnvironmentOrder(settings'[call'[c].org].order, E)
    BY DEF OrderRead
  <2>1. D \in SUBSET found'[call'[c].org]
    BY <1>2
  <2> QED BY <2>1
<1>4. /\ EnabledRead(call'[c]) <=> EnabledRead(call[c])'
      /\ TokenRead(call'[c]) <=> TokenRead(call[c])'
      /\ RequiredRead(call'[c]) <=> RequiredRead(call[c])'
      /\ FlagsRead(call'[c]) <=> FlagsRead(call[c])'
  BY DEF EnabledRead, TokenRead, RequiredRead, FlagsRead, Enabled
<1> QED BY <1>1, <1>3, <1>4 DEF ReadSoFar, PostedAsRead

LEMMA PagesGoto ==
  ASSUME Types, PagesInv, UNCHANGED <<org, settings, found>>, NEW c \in Calls, NEW r, Goto(c, r),
         CallTypes', HasPage(r) => UpToDate(r)
  PROVE  PagesInv'
<1>1. \A d \in Calls : call'[d] = call[d] \/ ~HasPage(call'[d]) \/ UpToDate(call'[d])
  BY DEF Goto, Types, CallTypes
<1> QED BY <1>1, PagesElsewhere

LEMMA PagesReturn ==
  ASSUME Types, PagesInv, UNCHANGED <<org, settings, found>>, NEW c \in Calls, Return(c)
  PROVE  PagesInv'
<1>1. ~HasPage(NoCall)
  BY DEF NoCall, HasPage, PageStages
<1> QED BY <1>1, ReturnTypes, PagesGoto DEF Return, Types

\* The settings of one organization are written, and every call is outdated.
LEMMA PagesOutdated ==
  ASSUME Types, PagesInv, NEW o \in Orgs,
         \A p \in Orgs \ {o} : org'[p] = org[p] /\ settings'[p] = settings[p] /\ found'[p] = found[p],
         \A c \in Calls : call'[c] = Outdate(o, call)[c] \/ call'[c] = NoCall
  PROVE  PagesInv'
<1> SUFFICES ASSUME NEW c \in Calls, HasPage(call'[c]), call'[c].fresh
             PROVE  ReadSoFar(call[c])' /\ PostedAsRead(call[c])'
  BY DEF PagesInv, UpToDate, HasPage
<1>1. call'[c] # NoCall
  <2>1. ~HasPage(NoCall)
    BY DEF NoCall, HasPage, PageStages
  <2> QED BY <2>1
<1>2. call[c].org # o /\ call'[c] = call[c]
  BY <1>1, StillFresh DEF FreshCalls, HasPage, Types
<1>3. call[c].org \in Orgs
  <2>1. call[c] \in PageCall \cup SaveCall
    BY <1>2, CallKinds DEF Types, CallTypes
  <2> QED BY <2>1 DEF PageCall, SaveCall
<1> DEFINE p == call[c].org
<1>4. org'[p] = org[p] /\ settings'[p] = settings[p] /\ found'[p] = found[p]
  BY <1>2, <1>3
<1>5. ReadSoFar(call[c]) /\ PostedAsRead(call[c])
  BY <1>2 DEF PagesInv, UpToDate
<1>6. /\ EnabledRead(call[c]) <=> EnabledRead(call[c])'
      /\ TokenRead(call[c]) <=> TokenRead(call[c])'
      /\ RequiredRead(call[c]) <=> RequiredRead(call[c])'
      /\ FlagsRead(call[c]) <=> FlagsRead(call[c])'
      /\ OrderRead(call[c]) <=> OrderRead(call[c])'
  BY <1>2, <1>3, <1>4 DEF EnabledRead, TokenRead, RequiredRead, FlagsRead, OrderRead, Enabled
<1>7. settings'[call'[c].org].order = settings[call[c].org].order
  BY <1>2, <1>4
<1> QED BY <1>2, <1>5, <1>6, <1>7 DEF ReadSoFar, PostedAsRead

\* Each read makes one part of the page agree with the tables.
LEMMA PageReads ==
  ASSUME Types, PagesInv, NEW c \in Calls, ReadSettings(c)
  PROVE  \/ Return(c)
         \/ \E r : Goto(c, r) /\ UpToDate(r)
<1> DEFINE k == call[c]
<1> USE DEF PageStages
<1>1. k.at \in PageStages => k \in PageCall
  BY CallKinds DEF Types, CallTypes
<1>2. k.at \in PageStages /\ k.fresh => ReadSoFar(k)
  BY DEF PagesInv, UpToDate, HasPage
<1>3. CASE ReadOrganization(c)
  <2> DEFINE e == k.org \in Enabled
             r == [k EXCEPT !.at = "required", !.enabled = e,
                            !.page.token = settings[k.org].token]
  <2>1. Return(c) \/ Goto(c, r)
    BY <1>3 DEF ReadOrganization
  <2>2. k \in PageCall
    BY <1>1, <1>3 DEF ReadOrganization
  <2>3. r.at = "required" /\ r.org = k.org /\ r.page.token = settings[k.org].token
    BY <2>2 DEF PageCall, Setting
  <2>4. r.enabled = e
    BY <2>2 DEF PageCall
  <2>5. ReadSoFar(r)
    <3> HIDE DEF r
    <3>1. EnabledRead(r)
      BY <2>3, <2>4 DEF EnabledRead
    <3> QED BY <2>3, <3>1 DEF ReadSoFar, TokenRead
  <2> HIDE DEF r
  <2> QED BY <2>1, <2>3, <2>5 DEF UpToDate, PostedAsRead
<1>4. CASE ReadRequiredFields(c)
  <2> DEFINE r == [k EXCEPT !.at = "order", !.page.required = settings[k.org].required]
  <2>1. Goto(c, r) /\ k.at = "required"
    BY <1>4 DEF ReadRequiredFields
  <2>2. k \in PageCall
    BY <1>1, <2>1
  <2>3. /\ r.at = "order" /\ r.org = k.org /\ r.fresh = k.fresh /\ r.enabled = k.enabled
        /\ r.page.token = k.page.token /\ r.page.required = settings[k.org].required
    BY <2>2 DEF PageCall, Setting
  <2> HIDE DEF r
  <2>4. UpToDate(r)
    BY <1>2, <2>1, <2>3 DEF UpToDate, PostedAsRead, ReadSoFar, EnabledRead, TokenRead, RequiredRead
  <2> QED BY <2>1, <2>4
<1>5. CASE ReadEnvironmentPriorities(c)
  <2> DEFINE r == [k EXCEPT !.at = "discovered", !.page.order = settings[k.org].order]
  <2>1. Goto(c, r) /\ k.at = "order"
    BY <1>5 DEF ReadEnvironmentPriorities
  <2>2. k \in PageCall
    BY <1>1, <2>1
  <2>3. /\ r.at = "discovered" /\ r.org = k.org /\ r.fresh = k.fresh /\ r.enabled = k.enabled
        /\ r.page.token = k.page.token /\ r.page.required = k.page.required
        /\ r.page.order = settings[k.org].order
    BY <2>2 DEF PageCall, Setting
  <2> HIDE DEF r
  <2>4. UpToDate(r)
    BY <1>2, <2>1, <2>3 DEF UpToDate, PostedAsRead, ReadSoFar, EnabledRead, TokenRead, RequiredRead
  <2> QED BY <2>1, <2>4
<1>6. CASE ReadDistinctEnvironments(c)
  <2> DEFINE merged == mergeEnvironmentOrder(k.page.order, found[k.org])
             r == [k EXCEPT !.at = "flags", !.page.order = merged]
  <2>1. k \in PageCall /\ k.at = "discovered"
    BY <1>1, <1>6 DEF ReadDistinctEnvironments
  <2>2. Goto(c, r)
    BY <1>6, <2>1 DEF ReadDistinctEnvironments, PageCall, Setting
  <2>3. /\ r.at = "flags" /\ r.org = k.org /\ r.fresh = k.fresh /\ r.enabled = k.enabled
        /\ r.page.token = k.page.token /\ r.page.required = k.page.required
        /\ r.page.order = merged
    BY <2>1 DEF PageCall, Setting
  <2> HIDE DEF r
  <2>4. ASSUME r.fresh PROVE OrderRead(r)
    <3>1. merged = mergeEnvironmentOrder(settings[k.org].order, found[k.org])
      BY <1>2, <2>1, <2>3, <2>4 DEF ReadSoFar
    <3> HIDE DEF merged
    <3> QED BY <2>3, <3>1 DEF OrderRead
  <2>5. UpToDate(r)
    BY <1>2, <2>1, <2>3, <2>4 DEF UpToDate, PostedAsRead, ReadSoFar, EnabledRead, TokenRead, RequiredRead
  <2> QED BY <2>2, <2>5
<1>7. CASE ReadFeatures(c)
  <2> DEFINE r == [k EXCEPT !.at = "settings page", !.page.flags = settings[k.org].flags]
  <2>1. Goto(c, r) /\ k.at = "flags"
    BY <1>7 DEF ReadFeatures
  <2>2. k \in PageCall
    BY <1>1, <2>1
  <2>3. /\ r.at = "settings page" /\ r.org = k.org /\ r.fresh = k.fresh /\ r.enabled = k.enabled
        /\ r.page.token = k.page.token /\ r.page.required = k.page.required
        /\ r.page.order = k.page.order /\ r.page.flags = settings[k.org].flags
    BY <2>2 DEF PageCall, Setting
  <2> HIDE DEF r
  <2>4. UpToDate(r)
    BY <1>2, <2>1, <2>3
       DEF UpToDate, PostedAsRead, ReadSoFar, EnabledRead, TokenRead, RequiredRead, OrderRead, FlagsRead
  <2> QED BY <2>1, <2>4
<1> QED BY <1>3, <1>4, <1>5, <1>6, <1>7 DEF ReadSettings

\* The form differs from the page in the edited part only.
LEMMA EditedKeeps ==
  ASSUME NEW page \in Setting, NEW edit \in Parts, NEW p \in Edited(page, edit)
  PROVE  /\ edit # "token" => p.token = page.token
         /\ edit # "required" => p.required = page.required
         /\ edit # "order" => p.order = page.order
         /\ edit # "flags" => p.flags = page.flags
<1>1. CASE edit = "enabled"
  BY <1>1 DEF Edited
<1>2. CASE edit = "token"
  BY <1>2 DEF Edited, Setting
<1>3. CASE edit = "required"
  BY <1>3 DEF Edited, Setting
<1>4. CASE edit = "order"
  BY <1>4 DEF Edited, Setting
<1>5. CASE edit = "flags"
  BY <1>5 DEF Edited, Setting
<1> QED BY <1>1, <1>2, <1>3, <1>4, <1>5 DEF Parts

LEMMA PagePosted ==
  ASSUME Types, PagesInv, NEW c \in Calls, NEW o \in Orgs, NEW edit \in Parts, PostSettings(c, o, edit)
  PROVE  \E r : Goto(c, r) /\ UpToDate(r)
<1> DEFINE k == call[c]
<1>1. k \in PageCall /\ k.at = "settings page"
  BY CallKinds DEF PostSettings, Types, CallTypes, PageStages
<1>2. k.fresh => ReadSoFar(k)
  BY <1>1 DEF PagesInv, UpToDate, HasPage, PageStages
<1>3. k.page \in Setting
  BY <1>1 DEF PageCall
<1>4. PICK p \in Edited(k.page, edit) :
        Goto(c, [at |-> "save", org |-> o, of |-> k.org, fresh |-> k.fresh, page |-> p,
                 enabled |-> (k.enabled # (edit = "enabled")), edit |-> edit])
  BY DEF PostSettings
<1> DEFINE r == [at |-> "save", org |-> o, of |-> k.org, fresh |-> k.fresh, page |-> p,
                 enabled |-> (k.enabled # (edit = "enabled")), edit |-> edit]
<1>5. Goto(c, r)
  BY <1>4
<1>6. /\ r.at = "save" /\ r.org = o /\ r.of = k.org /\ r.fresh = k.fresh /\ r.page = p
      /\ r.edit = edit
  OBVIOUS
<1>7. edit # "enabled" => (r.enabled <=> k.enabled)
  <2>1. k.enabled \in BOOLEAN
    BY <1>1 DEF PageCall
  <2>2. r.enabled = (k.enabled # (edit = "enabled"))
    OBVIOUS
  <2> HIDE DEF r, k
  <2> QED BY <2>1, <2>2
<1>8. /\ edit # "token" => p.token = k.page.token
      /\ edit # "required" => p.required = k.page.required
      /\ edit # "order" => p.order = k.page.order
      /\ edit # "flags" => p.flags = k.page.flags
  BY <1>3, EditedKeeps
<1> HIDE DEF r
<1>9. ASSUME r.fresh PROVE PostedAsRead(r)
  BY <1>1, <1>2, <1>6, <1>7, <1>8, <1>9
     DEF PostedAsRead, ReadSoFar, EnabledRead, TokenRead, RequiredRead, OrderRead, FlagsRead, PageStages
<1>10. ReadSoFar(r)
  BY <1>6 DEF ReadSoFar, PageStages
<1> QED BY <1>5, <1>9, <1>10 DEF UpToDate

LEMMA PagesNext == Types /\ PagesInv /\ [Next]_vars => PagesInv'
<1> SUFFICES ASSUME Types, PagesInv, [Next]_vars PROVE PagesInv'
  OBVIOUS
<1>1. CallTypes'
  BY TypesNext DEF Types
<1>2. CASE UNCHANGED <<org, settings, call>> /\ \A o \in Orgs : found[o] \subseteq found'[o]
  BY <1>1, <1>2, PagesElsewhere
<1>3. ASSUME NEW c \in Calls, NEW r, Goto(c, r), ~HasPage(r), UNCHANGED <<org, settings, found>>
      PROVE  PagesInv'
  BY <1>1, <1>3, PagesGoto
<1>4. ASSUME SettingsNext PROVE PagesInv'
  <2>1. ASSUME NEW c \in Calls, NEW o \in Orgs, OpenSettings(c, o) PROVE PagesInv'
    <3> DEFINE r == [at |-> "row", org |-> o, fresh |-> TRUE, enabled |-> TRUE, page |-> NoRows]
    <3>1. Goto(c, r) /\ UNCHANGED <<org, settings, found>>
      BY <2>1 DEF OpenSettings, tables
    <3>2. r.at = "row"
      OBVIOUS
    <3> HIDE DEF r
    <3>3. UpToDate(r)
      BY <3>2 DEF UpToDate, ReadSoFar, PostedAsRead
    <3> QED BY <1>1, <3>1, <3>3, PagesGoto
  <2>2. ASSUME NEW c \in Calls, NEW o \in Orgs, NEW edit \in Parts, PostSettings(c, o, edit)
        PROVE  PagesInv'
    <3>1. UNCHANGED <<org, settings, found>>
      BY <2>2 DEF PostSettings, tables
    <3> QED BY <1>1, <2>2, <3>1, PagePosted, PagesGoto
  <2>3. ASSUME NEW c \in Calls, NEW o \in Orgs, NEW s \in Services, OpenService(c, o, s)
        PROVE  PagesInv'
    <3> DEFINE r == [at |-> "values", org |-> o, service |-> s, shown |-> settings[o].required]
    <3>1. Goto(c, r) /\ UNCHANGED <<org, settings, found>>
      BY <2>3 DEF OpenService, tables
    <3>2. ~HasPage(r)
      BY DEF HasPage, PageStages
    <3> HIDE DEF r
    <3> QED BY <1>3, <3>1, <3>2
  <2>4. ASSUME NEW c \in Calls, NEW o \in Orgs, PostMetadata(c, o) PROVE PagesInv'
    <3>1. UNCHANGED <<org, settings, found>>
      BY <2>4 DEF PostMetadata, tables
    <3>2. CASE "editing" \in settings[o].flags
      <4>1. PICK form :
              Goto(c, [at |-> "labels", org |-> o, fresh |-> TRUE, service |-> call[c].service,
                       form |-> form, strict |-> "strict" \in settings[o].flags])
        BY <2>4, <3>2 DEF PostMetadata
      <4> DEFINE r == [at |-> "labels", org |-> o, fresh |-> TRUE, service |-> call[c].service,
                       form |-> form, strict |-> "strict" \in settings[o].flags]
      <4>2. Goto(c, r) /\ r.at = "labels"
        BY <4>1
      <4> HIDE DEF r
      <4>3. ~HasPage(r)
        BY <4>2 DEF HasPage, PageStages
      <4> QED BY <1>3, <3>1, <4>2, <4>3
    <3>3. CASE "editing" \notin settings[o].flags
      BY <2>4, <3>1, <3>3, PagesReturn DEF PostMetadata
    <3> QED BY <3>2, <3>3
  <2>5. ASSUME NEW c \in Calls, ReadSettings(c) PROVE PagesInv'
    <3>1. UNCHANGED <<org, settings, found>>
      BY <2>5 DEF ReadSettings, tables
    <3> QED BY <1>1, <2>5, <3>1, PageReads, PagesReturn, PagesGoto
  <2>6. ASSUME NEW c \in Calls, CloseSettings(c) \/ CloseService(c) PROVE PagesInv'
    BY <2>6, PagesReturn DEF CloseSettings, CloseService, tables
  <2>7. ASSUME NEW c \in Calls, SaveSettings(c) PROVE PagesInv'
    <3> DEFINE k == call[c]
    <3>1. k.org \in Orgs
      <4>1. k \in SaveCall
        BY <2>7, CallKinds DEF SaveSettings, Types, CallTypes
      <4> QED BY <4>1 DEF SaveCall
    <3>2. CASE UNCHANGED <<org, settings, checked>> /\ Return(c)
      BY <2>7, <3>2, PagesReturn DEF SaveSettings
    <3>3. CASE ~(UNCHANGED <<org, settings, checked>> /\ Return(c))
      <4>1. /\ \E new : settings' = [settings EXCEPT ![k.org] = new]
            /\ \E new : org' = [org EXCEPT ![k.org] = new]
            /\ call' = [Outdate(k.org, call) EXCEPT ![c] = NoCall]
            /\ UNCHANGED found
        BY <2>7, <3>3 DEF SaveSettings
      <4> HIDE DEF k
      <4>2. \A p \in Orgs \ {k.org} : /\ org'[p] = org[p]
                                      /\ settings'[p] = settings[p]
                                      /\ found'[p] = found[p]
        BY <4>1 DEF Types, TableTypes, SettingsType
      <4>3. \A d \in Calls : call'[d] = Outdate(k.org, call)[d] \/ call'[d] = NoCall
        BY <4>1 DEF Outdate
      <4> QED BY <3>1, <4>2, <4>3, PagesOutdated
    <3> QED BY <3>2, <3>3
  <2>8. ASSUME NEW c \in Calls, ReadMetadata(c) PROVE PagesInv'
    <3> DEFINE k == call[c]
               r == [k EXCEPT !.at = "mask",
                              !.shown = buildServiceMetadataFields(@, metadata[k.org][k.service])]
    <3>1. k \in ValuesCall
      BY <2>8, CallKinds DEF ReadMetadata, Types, CallTypes
    <3>2. Goto(c, r) /\ r.at = "mask" /\ UNCHANGED <<org, settings, found>>
      BY <2>8, <3>1 DEF ReadMetadata, ValuesCall, tables
    <3> HIDE DEF r
    <3>3. ~HasPage(r)
      BY <3>2 DEF HasPage, PageStages
    <3> QED BY <1>3, <3>2, <3>3
  <2>9. ASSUME NEW c \in Calls, ShowService(c) PROVE PagesInv'
    <3> DEFINE k == call[c]
               r == [k EXCEPT !.at = "service page",
                              !.shown = IF "mask" \in settings[k.org].flags
                                        THEN maskSensitiveFields(@) ELSE @]
    <3>1. k \in ShownCall
      BY <2>9, CallKinds DEF ShowService, Types, CallTypes
    <3>2. /\ Return(c) \/ Goto(c, r)
          /\ UNCHANGED <<org, settings, found>>
      BY <2>9 DEF ShowService, tables
    <3>3. r.at = "service page"
      BY <3>1 DEF ShownCall
    <3> HIDE DEF r
    <3>4. ~HasPage(r)
      BY <3>3 DEF HasPage, PageStages
    <3> QED BY <1>3, <3>2, <3>4, PagesReturn
  <2>10. ASSUME NEW c \in Calls, CheckMetadata(c) PROVE PagesInv'
    <3> DEFINE k == call[c]
               filled == {l \in DOMAIN k.form \cap settings[k.org].required : k.form[l] # ""}
               r == [at |-> "replace", org |-> k.org, fresh |-> k.fresh, service |-> k.service,
                     form |-> [l \in filled |-> k.form[l]]]
    <3>1. /\ Return(c) \/ Goto(c, r)
          /\ UNCHANGED <<org, settings, found>>
      BY <2>10 DEF CheckMetadata, tables
    <3>2. r.at = "replace"
      OBVIOUS
    <3> HIDE DEF r
    <3>3. ~HasPage(r)
      BY <3>2 DEF HasPage, PageStages
    <3> QED BY <1>3, <3>1, <3>3, PagesReturn
  <2>11. ASSUME NEW c \in Calls, ReplaceServiceMetadata(c) PROVE PagesInv'
    BY <2>11, PagesReturn DEF ReplaceServiceMetadata
  <2>12. ASSUME NEW o \in Orgs, NEW status \in {"enabled", "disabled"}, SetOrganizationEnabled(o, status)
         PROVE  PagesInv'
    <3>1. \A p \in Orgs \ {o} : org'[p] = org[p] /\ settings'[p] = settings[p] /\ found'[p] = found[p]
      BY <2>12 DEF SetOrganizationEnabled, Types, TableTypes, SettingsType
    <3>2. call' = Outdate(o, call)
      BY <2>12 DEF SetOrganizationEnabled
    <3> QED BY <3>1, <3>2, PagesOutdated
  <2>13. ASSUME NEW o \in Orgs, NEW e \in Envs, AppendEvent(o, e) PROVE PagesInv'
    <3>1. \A p \in Orgs : found[p] \subseteq found'[p]
      BY <2>13 DEF AppendEvent, Types, TableTypes, SettingsType
    <3> QED BY <1>2, <2>13, <3>1 DEF AppendEvent
  <2> QED BY <1>4, <2>1, <2>2, <2>3, <2>4, <2>5, <2>6, <2>7, <2>8, <2>9, <2>10, <2>11, <2>12, <2>13
          DEF SettingsNext
<1>5. ASSUME NEW o \in Orgs, Delete(o) PROVE PagesInv'
  <2>1. /\ \A p \in Orgs \ {o} : org'[p] = org[p] /\ settings'[p] = settings[p] /\ found'[p] = found[p]
        /\ call' = Outdate(o, call)
    BY <1>5 DEF Delete, DeleteOrganization, Types, TableTypes, SettingsType
  <2> QED BY <2>1, PagesOutdated
<1>6. ASSUME NEW c \in Calls, NEW s \in States, NEW i \in Installations, CompleteInstall(c, s, i)
      PROVE  PagesInv'
  <2> DEFINE r == IF intent[s].expired
                  THEN [at |-> "drop intent", state |-> s]
                  ELSE [at |-> "map", state |-> s, installation |-> i, org |-> intent[s].org]
  <2>1. Goto(c, r) /\ UNCHANGED <<org, settings, found>>
    BY <1>6 DEF CompleteInstall, tables
  <2>2. ~HasPage(r)
    BY DEF HasPage, PageStages
  <2> HIDE DEF r
  <2> QED BY <1>3, <2>1, <2>2
<1>7. ASSUME NEW c \in Calls, UpsertGitHubInstallationMapping(c) PROVE PagesInv'
  <2> DEFINE r == [at |-> "drop intent", state |-> call[c].state]
  <2>1. /\ Return(c) \/ Goto(c, r)
        /\ UNCHANGED <<org, settings, found>>
    BY <1>7 DEF UpsertGitHubInstallationMapping, tables
  <2>2. ~HasPage(r)
    BY DEF HasPage, PageStages
  <2> HIDE DEF r
  <2> QED BY <1>3, <2>1, <2>2, PagesReturn
<1>8. ASSUME NEW c \in Calls, DeleteGitHubSetupIntent(c) PROVE PagesInv'
  BY <1>8, PagesReturn DEF DeleteGitHubSetupIntent, tables
<1>9. CASE UNCHANGED <<org, settings, found, call>>
  BY <1>2, <1>9
<1>10. ASSUME NEW o \in Orgs,
              \/ \E s \in States : StartInstall(o, s)
              \/ \E i \in Installations : DeleteMapping(o, i)
       PROVE  PagesInv'
  BY <1>9, <1>10 DEF StartInstall, DeleteMapping, tables
<1>11. ASSUME NEW s \in States, Expire(s) PROVE PagesInv'
  BY <1>9, <1>11 DEF Expire, settingsVars, tables
<1>12. ASSUME NEW d \in Deliveries, NEW n \in 1 .. MaxAttempts, Send(d, n) PROVE PagesInv'
  BY <1>9, <1>12 DEF Send, settingsVars, tables
<1>13. ASSUME NEW a \in Attempts, ResolveOrganization(a) \/ Refuse(a) \/ Answer(a) \/ GiveUp(a)
       PROVE  PagesInv'
  BY <1>9, <1>13 DEF ResolveOrganization, Refuse, Answer, GiveUp, settingsVars, tables
<1>14. ASSUME NEW a \in Attempts, Store(a) PROVE PagesInv'
  <2>1. \A o \in Orgs : found[o] \subseteq found'[o]
    BY <1>14 DEF Store, Types, TableTypes, SettingsType
  <2> QED BY <1>2, <1>14, <2>1 DEF Store
<1>15. CASE UNCHANGED vars
  BY <1>9, <1>15 DEF vars, settingsVars, tables
<1> QED BY <1>4, <1>5, <1>6, <1>7, <1>8, <1>10, <1>11, <1>12, <1>13, <1>14, <1>15 DEF Next

\* Only a save and a deletion write settings.
LEMMA WhoWritesSettings ==
  ASSUME [Next]_vars, settings' # settings
  PROVE  (\E c \in Calls : SaveSettings(c)) \/ (\E o \in Orgs : Delete(o))
<1>1. CASE SettingsNext
  BY <1>1 DEF SettingsNext, OpenSettings, PostSettings, OpenService, PostMetadata, ReadSettings,
              CloseSettings, ReadMetadata, ShowService, CloseService, CheckMetadata,
              ReplaceServiceMetadata, SetOrganizationEnabled, AppendEvent, tables
<1>2. CASE ~SettingsNext
  BY <1>2 DEF Next, StartInstall, DeleteMapping, Expire, CompleteInstall,
              UpsertGitHubInstallationMapping, DeleteGitHubSetupIntent, Send, ResolveOrganization,
              Store, Refuse, Answer, GiveUp, vars, settingsVars, tables
<1> QED BY <1>1, <1>2

\* What one save writes.
LEMMA SaveKeeps ==
  ASSUME Types, PagesInv, NEW c \in Calls, SaveSettings(c), settings'[call[c].org] # settings[call[c].org]
  PROVE  LET k == call[c] IN
         IF k.of = k.org
         THEN k.fresh => KeepsTheRest(k.org, k.edit, ToSet(k.page.order))
         ELSE settings[k.of].token # k.page.token
<1> DEFINE k == call[c]
           o == k.org
           flags == (k.page.flags \ {"delivery metrics"})
                       \cup (settings[o].flags \cap {"delivery metrics"})
           new == [k.page EXCEPT !.flags = flags]
<1>1. k \in SaveCall /\ k.at = "save"
  BY CallKinds DEF SaveSettings, Types, CallTypes
<1>2. o \in Orgs /\ k.of \in Orgs /\ k.page \in Setting
  BY <1>1 DEF SaveCall
<1>3. /\ o \in Existing
      /\ \A p \in Orgs \ {o} : settings[p].token # k.page.token
      /\ org' = [org EXCEPT ![o] = IF k.enabled THEN "enabled" ELSE "disabled"]
      /\ settings' = [settings EXCEPT ![o] = new]
  BY <1>2 DEF SaveSettings, Setting
<1>4. CASE k.of # o
  BY <1>2, <1>3, <1>4
<1>5. ASSUME k.of = o, k.fresh PROVE KeepsTheRest(o, k.edit, ToSet(k.page.order))
  <2>1. PostedAsRead(k)
    BY <1>1, <1>5 DEF PagesInv, UpToDate, HasPage
  <2>2. /\ k.edit # "enabled" => EnabledRead(k)
        /\ k.edit # "token" => k.page.token = settings[o].token
        /\ k.edit # "required" => k.page.required = settings[o].required
        /\ k.edit # "order" => OrderRead(k)
        /\ k.edit # "flags" => k.page.flags = settings[o].flags
    BY <1>1, <1>5, <2>1 DEF PostedAsRead, TokenRead, RequiredRead, FlagsRead
  <2>3. /\ settings \in [Orgs -> Setting] /\ org \in [Orgs -> {"enabled", "disabled", "deleted"}]
        /\ found \in [Orgs -> SUBSET Envs]
    BY DEF Types, TableTypes, SettingsType
  <2> HIDE DEF k, o
  <2>4. settings'[o] = new
    BY <1>2, <1>3, <2>3
  <2>5. /\ new.token = k.page.token /\ new.required = k.page.required
        /\ new.order = k.page.order /\ new.flags = flags
    BY <1>2 DEF Setting
  <2>6. k.edit # "enabled" => org'[o] = org[o]
    BY <1>2, <1>3, <2>2, <2>3 DEF EnabledRead, Enabled, Existing, o
  <2>7. k.edit # "flags" => flags = settings[o].flags
    BY <2>2
  <2> HIDE DEF flags, new
  <2>8. ASSUME k.edit # "order"
        PROVE  \A x \in ToSet(k.page.order), y \in ToSet(k.page.order) :
                 Precedes(mergeEnvironmentOrder(settings[o].order, found[o]), x, y)
                   <=> Precedes(mergeEnvironmentOrder(k.page.order, found[o]), x, y)
    <3>1. PICK D \in SUBSET found[o] : k.page.order = mergeEnvironmentOrder(settings[o].order, D)
      BY <2>2, <2>8 DEF OrderRead, o
    <3>2. settings[o].order \in Seq(Envs) /\ found[o] \in SUBSET Envs
      BY <1>2, <2>3 DEF Setting
    <3> QED BY <3>1, <3>2, SavedOrder
  <2>9. ASSUME k.edit # "order"
        PROVE  {p \in ToSet(k.page.order) \X ToSet(k.page.order) :
                  Precedes(mergeEnvironmentOrder(settings'[o].order, found[o]), p[1], p[2])}
                 = {p \in ToSet(k.page.order) \X ToSet(k.page.order) :
                      Precedes(mergeEnvironmentOrder(settings[o].order, found[o]), p[1], p[2])}
    <3>1. settings'[o].order = k.page.order
      BY <2>4, <2>5
    <3>2. \A p \in ToSet(k.page.order) \X ToSet(k.page.order) :
            Precedes(mergeEnvironmentOrder(settings[o].order, found[o]), p[1], p[2])
              <=> Precedes(mergeEnvironmentOrder(k.page.order, found[o]), p[1], p[2])
      BY <2>8, <2>9
    <3> QED BY <3>1, <3>2
  <2> QED BY <2>2, <2>4, <2>5, <2>6, <2>7, <2>9 DEF KeepsTheRest
<1> QED BY <1>4, <1>5

\* A save of a page that nobody's write has made old changes the edited part
\* only, and reaches another organization only with a token that is free.
THEOREM SavesStayOnTheirPage == Spec => SavesKeepToTheirPage
<1> DEFINE Kept(c) ==
             LET k == call[c] IN
             k.at = "save" /\ call'[c].at = "idle" /\ settings'[k.org] # settings[k.org] =>
               IF k.of = k.org
               THEN k.fresh => KeepsTheRest(k.org, k.edit, ToSet(k.page.order))
               ELSE k.edit = "token" \/ settings[k.of].token # k.page.token
<1>1. ASSUME Types, PagesInv, [Next]_vars PROVE [\A c \in Calls : Kept(c)]_settingsVars
  <2> SUFFICES ASSUME NEW c \in Calls, call[c].at = "save", call'[c].at = "idle",
                      settings'[call[c].org] # settings[call[c].org]
               PROVE  LET k == call[c] IN
                      IF k.of = k.org
                      THEN k.fresh => KeepsTheRest(k.org, k.edit, ToSet(k.page.order))
                      ELSE settings[k.of].token # k.page.token
    OBVIOUS
  <2>1. SaveSettings(c)
    <3>1. CASE \E o \in Orgs : Delete(o)
      <4>1. PICK o \in Orgs : call' = Outdate(o, call)
        BY <3>1 DEF Delete, DeleteOrganization
      <4>2. call'[c].at = call[c].at
        BY <1>1, <4>1, OutdateTypes DEF Types
      <4> QED BY <4>2
    <3>2. ASSUME NEW d \in Calls, SaveSettings(d), d # c PROVE FALSE
      <4>1. call[d].org \in Orgs
        <5>1. call[d] \in SaveCall
          BY <1>1, <3>2, CallKinds DEF SaveSettings, Types, CallTypes
        <5> QED BY <5>1 DEF SaveCall
      <4>2. \/ call'[c] = call[c]
            \/ call'[c] = Outdate(call[d].org, call)[c]
        BY <1>1, <3>2, <4>1, OutdateTypes DEF SaveSettings, Return, Goto, Types, CallTypes
      <4>3. call'[c].at = call[c].at
        BY <1>1, <4>1, <4>2, OutdateTypes DEF Types
      <4> QED BY <4>3
    <3> QED BY <1>1, <3>1, <3>2, WhoWritesSettings
  <2> QED BY <1>1, <2>1, SaveKeeps
<1>2. Init => PagesInv
  BY PagesInit
<1>3. Types /\ PagesInv /\ [Next]_vars => PagesInv'
  BY PagesNext
<1>4. Spec => []PagesInv
  BY <1>2, <1>3, TypesAlways, PTL DEF Spec
<1> QED BY <1>1, <1>4, TypesAlways, PTL DEF Spec, SavesKeepToTheirPage

=============================================================================
