--------------------------- MODULE Fragments_proofs ---------------------------
(***************************************************************************)
(* Theorems about Fragments, for any organizations, users, requests,       *)
(* capacity, time to live and rendering time.                              *)
(***************************************************************************)
EXTENDS Fragments, SequenceTheorems, WellFoundedInduction, TLAPS

-----------------------------------------------------------------------------
(* Lists without repetitions.                                              *)

Elements(s) == {s[i] : i \in DOMAIN s}
Distinct(s) == \A i, j \in DOMAIN s : s[i] = s[j] => i = j

\* What a segment of a list holds.
LEMMA Segment ==
  ASSUME NEW K, NEW s \in Seq(K), NEW m \in 1 .. Len(s) + 1, NEW n \in (m - 1) .. Len(s)
  PROVE  /\ SubSeq(s, m, n) \in Seq(K)
         /\ Len(SubSeq(s, m, n)) = n - m + 1
         /\ \A i \in 1 .. n - m + 1 : SubSeq(s, m, n)[i] = s[m + i - 1]
<1>1. m \in Int /\ n \in Int /\ \A i \in m .. n : s[i] \in K
  OBVIOUS
<1>2. /\ SubSeq(s, m, n) \in Seq(K)
      /\ Len(SubSeq(s, m, n)) = IF m <= n THEN n - m + 1 ELSE 0
      /\ \A i \in 1 .. n - m + 1 : SubSeq(s, m, n)[i] = s[m + i - 1]
  BY <1>1, SubSeqProperties
<1> QED BY <1>2

\* Taking an element out of a list moves those behind it one place forward.
LEMMA WithoutMoves ==
  ASSUME NEW K, NEW s \in Seq(K), NEW k \in Elements(s)
  PROVE  \E i \in 1 .. Len(s) :
           /\ s[i] = k
           /\ Without(s, k) \in Seq(K)
           /\ Len(Without(s, k)) = Len(s) - 1
           /\ \A j \in 1 .. Len(s) - 1 :
                Without(s, k)[j] = IF j < i THEN s[j] ELSE s[j + 1]
<1> DEFINE i == CHOOSE i \in DOMAIN s : s[i] = k
           front == SubSeq(s, 1, i - 1)
           back == SubSeq(s, i + 1, Len(s))
<1>1. i \in 1 .. Len(s) /\ s[i] = k
  BY DEF Elements
<1> HIDE DEF i
<1>2. /\ front \in Seq(K) /\ Len(front) = i - 1
      /\ \A j \in 1 .. i - 1 : front[j] = s[j]
  <2>1. 1 \in 1 .. Len(s) + 1 /\ i - 1 \in (1 - 1) .. Len(s)
    BY <1>1
  <2>2. /\ front \in Seq(K) /\ Len(front) = (i - 1) - 1 + 1
        /\ \A j \in 1 .. (i - 1) - 1 + 1 : front[j] = s[1 + j - 1]
    BY <2>1, Segment, Zenon
  <2> HIDE DEF front
  <2> QED BY <1>1, <2>2
<1>3. /\ back \in Seq(K) /\ Len(back) = Len(s) - i
      /\ \A j \in 1 .. Len(s) - i : back[j] = s[j + i]
  <2>1. i + 1 \in 1 .. Len(s) + 1 /\ Len(s) \in (i + 1 - 1) .. Len(s)
    BY <1>1
  <2>2. /\ back \in Seq(K) /\ Len(back) = Len(s) - (i + 1) + 1
        /\ \A j \in 1 .. Len(s) - (i + 1) + 1 : back[j] = s[i + 1 + j - 1]
    BY <2>1, Segment
  <2> HIDE DEF back
  <2>3. ASSUME NEW j \in 1 .. Len(s) - i
        PROVE  back[j] = s[j + i]
    BY <1>1, <2>2
  <2> QED BY <1>1, <2>2, <2>3
<1>4. Without(s, k) = front \o back
  BY DEF Without, i
<1> HIDE DEF front, back
<1>5. /\ front \o back \in Seq(K)
      /\ Len(front \o back) = Len(s) - 1
      /\ \A j \in 1 .. Len(s) - 1 :
           (front \o back)[j] = IF j < i THEN s[j] ELSE s[j + 1]
  <2>1. /\ front \o back \in Seq(K)
        /\ Len(front \o back) = Len(front) + Len(back)
        /\ \A j \in 1 .. Len(front) + Len(back) : (front \o back)[j] =
             IF j <= Len(front) THEN front[j] ELSE back[j - Len(front)]
    BY <1>2, <1>3, ConcatProperties
  <2> QED BY <1>1, <1>2, <1>3, <2>1, SMTT(20)
<1> QED BY <1>1, <1>4, <1>5

\* so it stays without repetitions and loses just that element.
LEMMA WithoutLoses ==
  ASSUME NEW K, NEW s \in Seq(K), Distinct(s), NEW k \in Elements(s)
  PROVE  /\ Without(s, k) \in Seq(K)
         /\ Len(Without(s, k)) = Len(s) - 1
         /\ Distinct(Without(s, k))
         /\ Elements(Without(s, k)) = Elements(s) \ {k}
<1> DEFINE w == Without(s, k)
<1>1. PICK i \in 1 .. Len(s) :
        /\ s[i] = k
        /\ w \in Seq(K)
        /\ Len(w) = Len(s) - 1
        /\ \A j \in 1 .. Len(s) - 1 : w[j] = IF j < i THEN s[j] ELSE s[j + 1]
  BY WithoutMoves
<1> HIDE DEF w
<1>2. DOMAIN s = 1 .. Len(s) /\ DOMAIN w = 1 .. Len(s) - 1 /\ Len(s) \in Nat
  BY <1>1
<1>3. Distinct(w)
  BY <1>1, <1>2, SMTT(30) DEF Distinct
<1>4. Elements(w) \subseteq Elements(s) \ {k}
  BY <1>1, <1>2, SMTT(30) DEF Distinct, Elements
<1>5. ASSUME NEW x \in Elements(s) \ {k}
      PROVE  x \in Elements(w)
  <2>1. PICK j \in 1 .. Len(s) : s[j] = x
    BY <1>2 DEF Elements
  <2>2. CASE j < i
    BY <1>1, <1>2, <2>1, <2>2 DEF Elements
  <2>3. CASE j > i
    <3>1. j - 1 \in 1 .. Len(s) - 1 /\ w[j - 1] = s[j]
      BY <1>1, <1>2, <2>1, <2>3
    <3> QED BY <1>2, <2>1, <3>1 DEF Elements
  <2> QED BY <1>1, <2>1, <2>2, <2>3
<1> QED BY <1>1, <1>3, <1>4, <1>5 DEF w

\* The front of a list of distinct elements may take a new one.
LEMMA PushedInFront ==
  ASSUME NEW K, NEW s \in Seq(K), Distinct(s), NEW k \in K, k \notin Elements(s)
  PROVE  /\ <<k>> \o s \in Seq(K)
         /\ Len(<<k>> \o s) = Len(s) + 1
         /\ Distinct(<<k>> \o s)
         /\ Elements(<<k>> \o s) = Elements(s) \cup {k}
<1> DEFINE w == <<k>> \o s
<1>1. /\ w \in Seq(K) /\ Len(w) = Len(s) + 1
      /\ w[1] = k
      /\ \A j \in 1 .. Len(s) : w[j + 1] = s[j]
      /\ \A j \in 2 .. Len(s) + 1 : w[j] = s[j - 1]
  BY SMTT(20)
<1> HIDE DEF w
<1>2. DOMAIN s = 1 .. Len(s) /\ DOMAIN w = 1 .. Len(s) + 1 /\ Len(s) \in Nat
  BY <1>1
<1>3. Distinct(w)
  <2> SUFFICES ASSUME NEW a \in 1 .. Len(s) + 1, NEW b \in 1 .. Len(s) + 1, w[a] = w[b]
               PROVE  a = b
    BY <1>2 DEF Distinct
  <2>1. \A j \in 2 .. Len(s) + 1 : w[j] \in Elements(s) /\ j - 1 \in DOMAIN s
    BY <1>1, <1>2 DEF Elements
  <2>2. CASE a = 1 \/ b = 1
    BY <1>1, <1>2, <2>1, <2>2
  <2>3. CASE a # 1 /\ b # 1
    <3>1. s[a - 1] = s[b - 1] /\ a - 1 \in DOMAIN s /\ b - 1 \in DOMAIN s
      BY <1>1, <1>2, <2>3
    <3> QED BY <1>2, <3>1 DEF Distinct
  <2> QED BY <2>2, <2>3
<1>4. Elements(w) \subseteq Elements(s) \cup {k}
  BY <1>1, <1>2, SMTT(20) DEF Elements
<1>5. Elements(s) \cup {k} \subseteq Elements(w)
  <2>1. k \in Elements(w)
    BY <1>1, <1>2 DEF Elements
  <2>2. ASSUME NEW j \in 1 .. Len(s)
        PROVE  s[j] \in Elements(w)
    <3>1. j + 1 \in DOMAIN w /\ w[j + 1] = s[j]
      BY <1>1, <1>2
    <3> QED BY <3>1 DEF Elements
  <2> QED BY <1>2, <2>1, <2>2 DEF Elements
<1> QED BY <1>1, <1>3, <1>4, <1>5 DEF w

\* The last of distinct elements goes alone.
LEMMA DroppedAtTheEnd ==
  ASSUME NEW K, NEW s \in Seq(K), Distinct(s), Len(s) > 0
  PROVE  LET w == SubSeq(s, 1, Len(s) - 1) IN
         /\ w \in Seq(K)
         /\ Len(w) = Len(s) - 1
         /\ Distinct(w)
         /\ Elements(w) = Elements(s) \ {s[Len(s)]}
<1> DEFINE w == SubSeq(s, 1, Len(s) - 1)
<1>1. /\ w \in Seq(K) /\ Len(w) = Len(s) - 1
      /\ \A j \in 1 .. Len(s) - 1 : w[j] = s[j]
  <2>1. 1 \in 1 .. Len(s) + 1 /\ Len(s) - 1 \in (1 - 1) .. Len(s)
    OBVIOUS
  <2>2. /\ w \in Seq(K) /\ Len(w) = Len(s) - 1 - 1 + 1
        /\ \A j \in 1 .. Len(s) - 1 - 1 + 1 : w[j] = s[1 + j - 1]
    BY <2>1, Segment, Zenon
  <2> HIDE DEF w
  <2> QED BY <2>2
<1> HIDE DEF w
<1>2. DOMAIN s = 1 .. Len(s) /\ DOMAIN w = 1 .. Len(s) - 1 /\ Len(s) \in Nat
  BY <1>1
<1>3. Distinct(w)
  BY <1>1, <1>2, SMTT(20) DEF Distinct
<1>4. Elements(w) = Elements(s) \ {s[Len(s)]}
  BY <1>1, <1>2, SMTT(20) DEF Distinct, Elements
<1> QED BY <1>1, <1>3, <1>4 DEF w

-----------------------------------------------------------------------------
(* What a step of the cache does to its list and its map.                  *)

LEMMA AgreesAsLists ==
  CacheAgrees <=> Len(ll) <= Capacity /\ DOMAIN entries = Elements(ll) /\ Distinct(ll)
BY DEF CacheAgrees, Elements, Distinct

LEMMA AgreesAsListsNext ==
  CacheAgrees' <=> Len(ll') <= Capacity /\ DOMAIN entries' = Elements(ll') /\ Distinct(ll')
BY DEF CacheAgrees, Elements, Distinct

\* get moves what it finds to the front, or takes it out.
LEMMA GetKeepsAgreement ==
  ASSUME ll \in Seq(Key), CacheAgrees, NEW k \in Key, Hit(k) \/ Miss(k)
  PROVE  ll' \in Seq(Key) /\ CacheAgrees'
<1>1. CASE Hit(k)
  <2> DEFINE rest == Without(ll, k)
  <2>1. k \in Elements(ll)
    BY <1>1, AgreesAsLists DEF Hit
  <2>2. /\ rest \in Seq(Key)
        /\ Len(rest) = Len(ll) - 1
        /\ Distinct(rest)
        /\ Elements(rest) = Elements(ll) \ {k}
    BY <2>1, AgreesAsLists, WithoutLoses
  <2>3. ll' = <<k>> \o rest /\ entries' = entries
    BY <1>1 DEF Hit
  <2> HIDE DEF rest
  <2>4. /\ ll' \in Seq(Key)
        /\ Len(ll') = Len(rest) + 1
        /\ Distinct(ll')
        /\ Elements(ll') = Elements(rest) \cup {k}
    BY <2>2, <2>3, PushedInFront
  <2>5. Elements(ll') = Elements(ll)
    BY <2>1, <2>2, <2>4
  <2>6. Len(ll') <= Capacity
    BY <2>2, <2>4, AgreesAsLists, CacheAssumption
  <2> QED BY <2>3, <2>4, <2>5, <2>6, AgreesAsLists, AgreesAsListsNext
<1>2. CASE k \notin DOMAIN entries /\ UNCHANGED cache
  BY <1>2, AgreesAsLists, AgreesAsListsNext DEF cache
<1>3. CASE k \in DOMAIN entries /\ ll' = Without(ll, k) /\ entries' = Forget(entries, k)
  <2>1. k \in Elements(ll)
    BY <1>3, AgreesAsLists
  <2>2. /\ ll' \in Seq(Key)
        /\ Len(ll') = Len(ll) - 1
        /\ Distinct(ll')
        /\ Elements(ll') = Elements(ll) \ {k}
    BY <1>3, <2>1, AgreesAsLists, WithoutLoses
  <2>3. DOMAIN entries' = DOMAIN entries \ {k}
    BY <1>3 DEF Forget
  <2>4. Len(ll) \in Nat /\ Capacity \in Nat
    BY CacheAssumption
  <2> QED BY <2>2, <2>3, <2>4, AgreesAsLists, AgreesAsListsNext
<1> QED BY <1>1, <1>2, <1>3 DEF Miss

\* set renews an entry, or pushes a new one in and the last one out.
LEMMA SetKeepsAgreement ==
  ASSUME ll \in Seq(Key), CacheAgrees, NEW k \in Key, NEW body, Set(k, body)
  PROVE  ll' \in Seq(Key) /\ CacheAgrees'
<1>1. Len(ll) \in Nat /\ Capacity \in Nat \ {0}
  BY CacheAssumption
<1>2. DOMAIN Stored(k, body) = DOMAIN entries \cup {k}
  BY DEF Stored
<1>3. CASE k \in DOMAIN entries /\ entries' = Stored(k, body) /\ ll' = <<k>> \o Without(ll, k)
  <2>1. k \in Elements(ll)
    BY <1>3, AgreesAsLists
  <2>2. /\ Without(ll, k) \in Seq(Key)
        /\ Len(Without(ll, k)) = Len(ll) - 1
        /\ Distinct(Without(ll, k))
        /\ Elements(Without(ll, k)) = Elements(ll) \ {k}
    BY <2>1, AgreesAsLists, WithoutLoses
  <2>3. /\ ll' \in Seq(Key)
        /\ Len(ll') = Len(Without(ll, k)) + 1
        /\ Distinct(ll')
        /\ Elements(ll') = Elements(Without(ll, k)) \cup {k}
    BY <1>3, <2>2, PushedInFront
  <2> QED BY <1>1, <1>2, <1>3, <2>1, <2>2, <2>3, AgreesAsLists, AgreesAsListsNext
<1>4. CASE /\ k \notin DOMAIN entries /\ Len(ll) < Capacity
           /\ entries' = Stored(k, body) /\ ll' = <<k>> \o ll
  <2>1. /\ ll' \in Seq(Key)
        /\ Len(ll') = Len(ll) + 1
        /\ Distinct(ll')
        /\ Elements(ll') = Elements(ll) \cup {k}
    BY <1>4, AgreesAsLists, PushedInFront
  <2> QED BY <1>1, <1>2, <1>4, <2>1, AgreesAsLists, AgreesAsListsNext
<1>5. CASE /\ k \notin DOMAIN entries /\ Len(ll) >= Capacity
           /\ entries' = Forget(Stored(k, body), ll[Len(ll)])
           /\ ll' = <<k>> \o SubSeq(ll, 1, Len(ll) - 1)
  <2> DEFINE rest == SubSeq(ll, 1, Len(ll) - 1)
             last == ll[Len(ll)]
  <2>1. Len(ll) > 0
    BY <1>1, <1>5
  <2>2. /\ rest \in Seq(Key)
        /\ Len(rest) = Len(ll) - 1
        /\ Distinct(rest)
        /\ Elements(rest) = Elements(ll) \ {last}
    BY <2>1, AgreesAsLists, DroppedAtTheEnd
  <2>3. last \in Elements(ll)
    BY <1>1, <2>1 DEF Elements
  <2>4. k # last /\ k \notin Elements(rest)
    BY <1>5, <2>2, <2>3, AgreesAsLists
  <2> HIDE DEF rest
  <2>5. ll' = <<k>> \o rest
    BY <1>5 DEF rest
  <2>6. /\ ll' \in Seq(Key)
        /\ Len(ll') = Len(rest) + 1
        /\ Distinct(ll')
        /\ Elements(ll') = Elements(rest) \cup {k}
    BY <2>2, <2>4, <2>5, PushedInFront
  <2>7. DOMAIN entries' = (DOMAIN entries \cup {k}) \ {last}
    BY <1>2, <1>5 DEF Forget
  <2> HIDE DEF last
  <2> QED BY <1>1, <2>2, <2>4, <2>6, <2>7, AgreesAsLists, AgreesAsListsNext
<1> QED BY <1>3, <1>4, <1>5 DEF Set

-----------------------------------------------------------------------------
(* What a step does to the fragments' types and ages.                      *)

LEMMA FirstOrganization ==
  ASSUME NEW S \in SUBSET Orgs, S # {}
  PROVE  \E o \in S : \A p \in S : o <= p
<1>1. IsWellFoundedOn(OpToRel(<, Nat), Nat)
  BY NatLessThanWellFounded
<1>2. S \subseteq Nat
  BY FragmentAssumption
<1>3. PICK o \in S : \A p \in S : <<p, o>> \notin OpToRel(<, Nat)
  BY <1>1, <1>2, WFMin
<1>4. \A p \in S : ~(p < o)
  BY <1>2, <1>3 DEF OpToRel
<1> QED BY <1>2, <1>4

\* The active organization is one of the user's enabled ones, if there is any.
LEMMA ActiveIsAnOrganization ==
  ASSUME NEW u \in Users, NEW active, NEW on \in SUBSET Orgs
  PROVE  ActiveOrganization(u, active, on) \in Orgs \cup {0}
<1> DEFINE mine == ListOrganizationsByUser(u) \cap on
<1>1. mine \in SUBSET Orgs
  OBVIOUS
<1>2. CASE active \in mine
  BY <1>1, <1>2 DEF ActiveOrganization
<1>3. CASE active \notin mine /\ mine # {}
  <2> DEFINE first == CHOOSE o \in mine : \A p \in mine : o <= p
  <2>1. first \in mine
    BY <1>1, <1>3, FirstOrganization
  <2> QED BY <1>1, <1>3, <2>1 DEF ActiveOrganization
<1>4. CASE active \notin mine /\ mine = {}
  BY <1>4 DEF ActiveOrganization
<1> QED BY <1>2, <1>3, <1>4

\* What a request has, by where it is.
LEMMA RequestShape ==
  ASSUME NEW q \in FragmentRequest
  PROVE  /\ q.at \in {"look up", "render"} => q \in [at : {"look up", "render"}, user : Users, key : Key]
         /\ q.at = "read" => q \in [at : {"read"}, user : Users, key : Key, org : Orgs]
         /\ q.at = "store" =>
              q \in [at : {"store"}, user : Users, key : Key, body : Body, age : 0 .. RenderTime]
<1>1. CASE q = NoRequest
  <2>1. q.at = "idle"
    BY <1>1 DEF NoRequest
  <2> QED BY <2>1
<1>2. CASE q \in [at : {"look up", "render"}, user : Users, key : Key]
  <2>1. q.at \in {"look up", "render"}
    BY <1>2
  <2> QED BY <1>2, <2>1
<1>3. CASE q \in [at : {"read"}, user : Users, key : Key, org : Orgs]
  <2>1. q.at = "read"
    BY <1>3
  <2> QED BY <1>3, <2>1
<1>4. CASE q \in [at : {"store"}, user : Users, key : Key, body : Body, age : 0 .. RenderTime]
  <2>1. q.at = "store"
    BY <1>4
  <2> QED BY <1>4, <2>1
<1> QED BY <1>1, <1>2, <1>3, <1>4 DEF FragmentRequest

\* Nothing shown is behind for longer than its age explains.
EntriesAged ==
  \A k \in DOMAIN entries :
    ~Expired(k) => entries[k].body.stale <= TTL - entries[k].left + RenderTime

RequestsAged == \A r \in Requests : InStore(r) => request[r].body.stale <= request[r].age

FragmentsInvariant == FragmentsType /\ CacheAgrees /\ EntriesAged /\ RequestsAged

Entry == [body : Body, left : -1 .. TTL]

\* get leaves the entries as they are, those that stay.
LEMMA GetKeepsEntries ==
  ASSUME FragmentsInvariant, NEW k \in Key, Hit(k) \/ Miss(k)
  PROVE  /\ ll' \in Seq(Key)
         /\ entries' \in [DOMAIN entries' -> Entry]
         /\ CacheAgrees'
         /\ EntriesAged'
<1>1. ll' \in Seq(Key) /\ CacheAgrees'
  BY GetKeepsAgreement DEF FragmentsInvariant, FragmentsType
<1>2. entries \in [DOMAIN entries -> Entry]
  BY DEF FragmentsInvariant, FragmentsType, Entry
<1>3. /\ entries' = [j \in DOMAIN entries' |-> entries'[j]]
      /\ \A j \in DOMAIN entries' : j \in DOMAIN entries /\ entries'[j] = entries[j]
  BY <1>2 DEF Hit, Miss, Forget, cache
<1>4. entries' \in [DOMAIN entries' -> Entry]
  BY <1>2, <1>3
<1>5. EntriesAged'
  BY <1>3 DEF FragmentsInvariant, EntriesAged, Expired
<1> QED BY <1>1, <1>4, <1>5

\* set adds an entry no older than the request that rendered it.
LEMMA SetKeepsEntries ==
  ASSUME FragmentsInvariant, NEW k \in Key, NEW body \in Body,
         body.stale <= RenderTime, Set(k, body)
  PROVE  /\ ll' \in Seq(Key)
         /\ entries' \in [DOMAIN entries' -> Entry]
         /\ CacheAgrees'
         /\ EntriesAged'
<1> DEFINE new == [body |-> body, left |-> TTL]
<1>1. ll' \in Seq(Key) /\ CacheAgrees'
  BY SetKeepsAgreement DEF FragmentsInvariant, FragmentsType
<1>2. entries \in [DOMAIN entries -> Entry]
  BY DEF FragmentsInvariant, FragmentsType, Entry
<1>3. /\ entries' = [j \in DOMAIN entries' |-> entries'[j]]
      /\ \A j \in DOMAIN entries' :
           \/ entries'[j] = new
           \/ j \in DOMAIN entries /\ entries'[j] = entries[j]
  BY <1>2 DEF Set, Stored, Forget
<1>4. new \in Entry
  BY CacheAssumption DEF Entry
<1>5. entries' \in [DOMAIN entries' -> Entry]
  BY <1>2, <1>3, <1>4
<1>6. EntriesAged'
  <2> SUFFICES ASSUME NEW j \in DOMAIN entries', ~Expired(j)'
               PROVE  entries'[j].body.stale <= TTL - entries'[j].left + RenderTime
    BY DEF EntriesAged
  <2>1. CASE entries'[j] = new
    <3>1. entries'[j].body.stale = body.stale /\ entries'[j].left = TTL
      BY <2>1
    <3> QED BY <3>1, CacheAssumption, FragmentAssumption
  <2>2. CASE j \in DOMAIN entries /\ entries'[j] = entries[j]
    BY <2>2 DEF FragmentsInvariant, EntriesAged, Expired
  <2> QED BY <1>3, <2>1, <2>2
<1> QED BY <1>1, <1>5, <1>6

\* Where the requests and the cookies go.
LEMMA GotoKeepsRequests ==
  ASSUME FragmentsInvariant, NEW r \in Requests, NEW next \in FragmentRequest,
         next.at = "store" => next.body.stale <= next.age,
         Goto(r, next)
  PROVE  request' \in [Requests -> FragmentRequest] /\ RequestsAged'
<1>1. request' \in [Requests -> FragmentRequest]
  BY DEF FragmentsInvariant, FragmentsType, Goto
<1>2. \A s \in Requests : request'[s] = IF s = r THEN next ELSE request[s]
  BY DEF FragmentsInvariant, FragmentsType, Goto
<1>3. RequestsAged'
  BY <1>2 DEF FragmentsInvariant, RequestsAged, InStore
<1> QED BY <1>1, <1>3

LEMMA RespondKeepsRequests ==
  ASSUME FragmentsInvariant, NEW r \in Requests, NEW org \in Orgs, Respond(r, org),
         request[r].user \in Users
  PROVE  /\ request' \in [Requests -> FragmentRequest]
         /\ cookie' \in [Users -> Orgs \cup {0}]
         /\ RequestsAged'
<1>1. NoRequest \in FragmentRequest /\ NoRequest.at = "idle"
  BY DEF FragmentRequest, NoRequest
<1>2. Goto(r, NoRequest)
  BY DEF Respond, Goto
<1>3. request' \in [Requests -> FragmentRequest] /\ RequestsAged'
  BY <1>1, <1>2, GotoKeepsRequests
<1>4. cookie' \in [Users -> Orgs \cup {0}]
  BY DEF FragmentsInvariant, FragmentsType, Respond
<1> QED BY <1>3, <1>4

\* What the parts say together.
LEMMA PartsMakeInvariant ==
  ASSUME ll' \in Seq(Key), entries' \in [DOMAIN entries' -> Entry], CacheAgrees',
         EntriesAged', RequestsAged', enabled' \subseteq Orgs,
         cookie' \in [Users -> Orgs \cup {0}], request' \in [Requests -> FragmentRequest]
  PROVE  FragmentsInvariant'
BY DEF FragmentsInvariant, FragmentsType, Entry

LEMMA InvariantHasParts ==
  ASSUME FragmentsInvariant
  PROVE  /\ ll \in Seq(Key)
         /\ entries \in [DOMAIN entries -> Entry]
         /\ CacheAgrees
         /\ EntriesAged
         /\ RequestsAged
         /\ enabled \subseteq Orgs
         /\ cookie \in [Users -> Orgs \cup {0}]
         /\ request \in [Requests -> FragmentRequest]
BY DEF FragmentsInvariant, FragmentsType, Entry

LEMMA CacheUnchanged ==
  ASSUME FragmentsInvariant, UNCHANGED cache
  PROVE  /\ ll' \in Seq(Key)
         /\ entries' \in [DOMAIN entries' -> Entry]
         /\ CacheAgrees'
         /\ EntriesAged'
<1>1. ll' = ll /\ entries' = entries
  BY DEF cache
<1>2. CacheAgrees'
  BY <1>1, InvariantHasParts DEF CacheAgrees
<1>3. EntriesAged'
  BY <1>1, InvariantHasParts DEF EntriesAged, Expired
<1> QED BY <1>1, <1>2, <1>3, InvariantHasParts

LEMMA RequestsUnchanged ==
  ASSUME FragmentsInvariant, UNCHANGED request
  PROVE  request' \in [Requests -> FragmentRequest] /\ RequestsAged'
BY InvariantHasParts DEF RequestsAged, InStore

\* The organization of a session.
LEMMA SessionKeepsInvariant ==
  ASSUME FragmentsInvariant, NEW u \in Users,
         \/ Login(u) \/ Logout(u) \/ Browse(u) \/ DisableInSettings(u)
         \/ \E o \in Orgs : Switch(u, o) \/ Enable(u, o) \/ Disable(u, o)
  PROVE  FragmentsInvariant'
<1>1. UNCHANGED cache /\ UNCHANGED request
  BY DEF Login, Logout, Browse, DisableInSettings, Switch, Enable, Disable, cache
<1>2. enabled \in SUBSET Orgs
  BY InvariantHasParts
<1>3. enabled' \subseteq Orgs
  BY <1>2 DEF Login, Logout, Browse, DisableInSettings, Switch, Enable, Disable
<1>4. \A active, on : on \in SUBSET Orgs => ActiveOrganization(u, active, on) \in Orgs \cup {0}
  BY ActiveIsAnOrganization
<1>5. Active(u) \in Orgs \cup {0}
  BY <1>2, <1>4 DEF Active
<1>6. \E c \in Orgs \cup {0} : cookie' = [cookie EXCEPT ![u] = c]
  <2>1. CASE Login(u)
    BY <1>2, <1>4, <2>1 DEF Login
  <2>2. CASE Logout(u)
    BY <2>2 DEF Logout
  <2>3. CASE Browse(u) \/ DisableInSettings(u) \/ \E o \in Orgs : Enable(u, o)
    BY <1>5, <2>3 DEF Browse, DisableInSettings, Enable
  <2>4. CASE \E o \in Orgs : Switch(u, o)
    BY <2>4 DEF Switch
  <2>5. ASSUME NEW o \in Orgs, Disable(u, o)
        PROVE  \E c \in Orgs \cup {0} : cookie' = [cookie EXCEPT ![u] = c]
    <3> DEFINE next == ActiveOrganization(u, Active(u), enabled \ {o})
    <3>1. next \in Orgs \cup {0}
      BY <1>2, <1>4
    <3>2. cookie' = [cookie EXCEPT ![u] = IF next # 0 THEN next ELSE Active(u)]
      BY <2>5 DEF Disable
    <3> HIDE DEF next
    <3> QED BY <1>5, <3>1, <3>2
  <2> QED BY <2>1, <2>2, <2>3, <2>4, <2>5
<1>7. cookie' \in [Users -> Orgs \cup {0}]
  BY <1>6, InvariantHasParts
<1> QED BY <1>1, <1>3, <1>7, CacheUnchanged, RequestsUnchanged, PartsMakeInvariant

\* A request on its way.
LEMMA RequestKeepsInvariant ==
  ASSUME FragmentsInvariant, NEW r \in Requests,
         \/ \E u \in Users, q \in Queries : Arrive(r, u, q)
         \/ Work(r)
  PROVE  FragmentsInvariant'
<1> DEFINE q == request[r]
<1>1. q \in FragmentRequest
  BY InvariantHasParts
<1>2. /\ enabled \in SUBSET Orgs
      /\ \A u \in Users : \A active : ActiveOrganization(u, active, enabled) \in Orgs \cup {0}
  BY InvariantHasParts, ActiveIsAnOrganization
<1>3. ASSUME NEW u \in Users, NEW query \in Queries, Arrive(r, u, query)
      PROVE  FragmentsInvariant'
  <2> DEFINE next == [at |-> "look up", user |-> u, key |-> [query |-> query, org |-> Active(u)]]
  <2>1. Active(u) \in Orgs
    BY <1>2, <1>3 DEF Arrive, Active
  <2>2. [query |-> query, org |-> Active(u)] \in Key
    BY <2>1 DEF Key
  <2>3. next \in FragmentRequest /\ next.at = "look up"
    BY <2>2 DEF FragmentRequest
  <2>4. Goto(r, next) /\ UNCHANGED <<cache, enabled, cookie>>
    BY <1>3 DEF Arrive
  <2> HIDE DEF next
  <2>5. request' \in [Requests -> FragmentRequest] /\ RequestsAged'
    BY <2>3, <2>4, GotoKeepsRequests
  <2> QED BY <2>4, <2>5, CacheUnchanged, InvariantHasParts, PartsMakeInvariant
<1>4. ASSUME Serve(r)
      PROVE  FragmentsInvariant'
  <2>1. q.user \in Users /\ q.key \in Key /\ q.key.org \in Orgs
    BY <1>1, <1>4, RequestShape DEF Serve, Key
  <2>2. Hit(q.key) /\ Respond(r, q.key.org) /\ UNCHANGED enabled
    BY <1>4 DEF Serve
  <2> HIDE DEF q
  <2>3. /\ ll' \in Seq(Key) /\ entries' \in [DOMAIN entries' -> Entry]
        /\ CacheAgrees' /\ EntriesAged'
    BY <2>1, <2>2, GetKeepsEntries
  <2>4. /\ request' \in [Requests -> FragmentRequest]
        /\ cookie' \in [Users -> Orgs \cup {0}]
        /\ RequestsAged'
    BY <2>1, <2>2, RespondKeepsRequests DEF q
  <2> QED BY <2>2, <2>3, <2>4, InvariantHasParts, PartsMakeInvariant
<1>5. ASSUME LookupFails(r)
      PROVE  FragmentsInvariant'
  <2> DEFINE next == [q EXCEPT !.at = "render"]
  <2>1. q \in [at : {"look up", "render"}, user : Users, key : Key]
    BY <1>1, <1>5, RequestShape DEF LookupFails
  <2>2. next \in FragmentRequest /\ next.at = "render" /\ q.key \in Key
    BY <2>1 DEF FragmentRequest
  <2>3. Miss(q.key) /\ Goto(r, next) /\ UNCHANGED <<enabled, cookie>>
    BY <1>5 DEF LookupFails
  <2> HIDE DEF q, next
  <2>4. /\ ll' \in Seq(Key) /\ entries' \in [DOMAIN entries' -> Entry]
        /\ CacheAgrees' /\ EntriesAged'
    BY <2>2, <2>3, GetKeepsEntries
  <2>5. request' \in [Requests -> FragmentRequest] /\ RequestsAged'
    BY <2>2, <2>3, GotoKeepsRequests
  <2> QED BY <2>3, <2>4, <2>5, InvariantHasParts, PartsMakeInvariant
<1>6. ASSUME ResolveOrganization(r)
      PROVE  FragmentsInvariant'
  <2> DEFINE org == ActiveOrganization(q.user, q.key.org, enabled)
             next == [at |-> "read", user |-> q.user, key |-> q.key, org |-> org]
  <2>1. q.user \in Users /\ q.key \in Key
    BY <1>1, <1>6, RequestShape DEF ResolveOrganization
  <2>2. org \in Orgs
    BY <1>2, <1>6, <2>1 DEF ResolveOrganization
  <2>3. Goto(r, next) /\ UNCHANGED <<cache, enabled, cookie>>
    BY <1>6 DEF ResolveOrganization
  <2> HIDE DEF org
  <2>4. next \in FragmentRequest /\ next.at = "read"
    BY <2>1, <2>2 DEF FragmentRequest
  <2> HIDE DEF q, next
  <2>5. request' \in [Requests -> FragmentRequest] /\ RequestsAged'
    BY <2>3, <2>4, GotoKeepsRequests
  <2> QED BY <2>3, <2>5, CacheUnchanged, InvariantHasParts, PartsMakeInvariant
<1>7. ASSUME Read(r)
      PROVE  FragmentsInvariant'
  <2> DEFINE body == [org |-> q.org, stale |-> -1]
             next == [at |-> "store", user |-> q.user, key |-> q.key, body |-> body, age |-> 0]
  <2>1. q.user \in Users /\ q.key \in Key /\ q.org \in Orgs
    BY <1>1, <1>7, RequestShape DEF Read
  <2>2. Goto(r, next) /\ UNCHANGED <<cache, enabled, cookie>>
    BY <1>7 DEF Read
  <2>3. body \in Body /\ body.stale = -1
    BY <2>1 DEF Body
  <2> HIDE DEF body
  <2>4. 0 \in 0 .. RenderTime
    BY FragmentAssumption
  <2>5. /\ next \in FragmentRequest
        /\ next.body = body /\ next.age = 0
    BY <2>1, <2>3, <2>4 DEF FragmentRequest
  <2> HIDE DEF q, next
  <2>6. request' \in [Requests -> FragmentRequest] /\ RequestsAged'
    BY <2>2, <2>3, <2>5, GotoKeepsRequests
  <2> QED BY <2>2, <2>6, CacheUnchanged, InvariantHasParts, PartsMakeInvariant
<1>8. ASSUME Finish(r)
      PROVE  FragmentsInvariant'
  <2>1. /\ q.user \in Users /\ q.key \in Key /\ q.body \in Body
        /\ q.body.org \in Orgs /\ q.body.stale \in Int /\ q.age \in 0 .. RenderTime
    <3>1. q \in [at : {"store"}, user : Users, key : Key, body : Body, age : 0 .. RenderTime]
      BY <1>1, <1>8, RequestShape DEF Finish
    <3>2. \A body \in Body : body.org \in Orgs /\ body.stale \in Int
      BY DEF Body
    <3> HIDE DEF q
    <3> QED BY <3>1, <3>2
  <2>2. q.body.stale <= q.age
    BY <1>8, InvariantHasParts DEF Finish, RequestsAged, InStore
  <2>3. q.body.stale <= RenderTime
    BY <2>1, <2>2, FragmentAssumption
  <2>4. Set(q.key, q.body) /\ Respond(r, q.body.org) /\ UNCHANGED enabled
    BY <1>8 DEF Finish
  <2> HIDE DEF q
  <2>5. /\ ll' \in Seq(Key) /\ entries' \in [DOMAIN entries' -> Entry]
        /\ CacheAgrees' /\ EntriesAged'
    BY <2>1, <2>3, <2>4, SetKeepsEntries
  <2>6. /\ request' \in [Requests -> FragmentRequest]
        /\ cookie' \in [Users -> Orgs \cup {0}]
        /\ RequestsAged'
    BY <2>1, <2>4, RespondKeepsRequests DEF q
  <2> QED BY <2>4, <2>5, <2>6, InvariantHasParts, PartsMakeInvariant
<1>9. ASSUME Fail(r)
      PROVE  FragmentsInvariant'
  <2>1. \E org \in Orgs : Respond(r, org)
    BY <1>1, <1>9, RequestShape DEF Fail, Key, Body
  <2>2. q.user \in Users
    BY <1>1, <1>9, RequestShape DEF Fail
  <2>3. UNCHANGED cache /\ UNCHANGED enabled
    BY <1>9 DEF Fail
  <2>4. /\ request' \in [Requests -> FragmentRequest]
        /\ cookie' \in [Users -> Orgs \cup {0}]
        /\ RequestsAged'
    BY <2>1, <2>2, RespondKeepsRequests
  <2> QED BY <2>3, <2>4, CacheUnchanged, InvariantHasParts, PartsMakeInvariant
<1> QED BY <1>3, <1>4, <1>5, <1>6, <1>7, <1>8, <1>9 DEF Work

\* A write: what was up to date begins to be behind.
LEMMA ChangeKeepsInvariant ==
  ASSUME FragmentsInvariant, NEW o \in Orgs, Change(o)
  PROVE  FragmentsInvariant'
<1>1. \A body \in Body : /\ Outdated(o, body) \in Body
                         /\ \/ Outdated(o, body) = body
                            \/ Outdated(o, body).stale = 0
  BY DEF Outdated, Body
<1>2. /\ ll' = ll /\ DOMAIN entries' = DOMAIN entries /\ UNCHANGED <<enabled, cookie>>
      /\ entries' = [k \in DOMAIN entries' |-> entries'[k]]
  BY DEF Change
<1>3. ASSUME NEW k \in DOMAIN entries
      PROVE  /\ entries'[k] \in Entry
             /\ entries'[k].left = entries[k].left
             /\ \/ entries'[k].body = entries[k].body
                \/ entries'[k].body.stale = 0
  <2>1. entries[k] \in Entry
    BY InvariantHasParts
  <2>2. entries'[k] = IF Expired(k) THEN entries[k]
                      ELSE [entries[k] EXCEPT !.body = Outdated(o, @)]
    BY DEF Change
  <2>3. CASE Expired(k)
    BY <2>1, <2>2, <2>3
  <2>4. CASE ~Expired(k)
    BY <1>1, <2>1, <2>2, <2>4 DEF Entry
  <2> QED BY <2>3, <2>4
<1>4. entries' \in [DOMAIN entries' -> Entry]
  BY <1>2, <1>3
<1>5. CacheAgrees'
  BY <1>2, InvariantHasParts DEF CacheAgrees
<1>6. EntriesAged'
  <2> SUFFICES ASSUME NEW k \in DOMAIN entries, ~Expired(k)'
               PROVE  entries'[k].body.stale <= TTL - entries'[k].left + RenderTime
    BY <1>2 DEF EntriesAged
  <2>1. entries'[k].left \in -1 .. TTL
    BY <1>3 DEF Entry
  <2>2. entries[k].body.stale <= TTL - entries[k].left + RenderTime
    BY <1>3, InvariantHasParts DEF EntriesAged, Expired
  <2> QED BY <1>3, <2>1, <2>2, CacheAssumption, FragmentAssumption
<1>7. ASSUME NEW r \in Requests
      PROVE  /\ request'[r] \in FragmentRequest
             /\ InStore(r)' => request'[r].body.stale <= request'[r].age
  <2>1. request[r] \in FragmentRequest
    BY InvariantHasParts
  <2>2. request'[r] = IF InStore(r) THEN [request[r] EXCEPT !.body = Outdated(o, @)]
                      ELSE request[r]
    BY DEF Change
  <2>3. CASE InStore(r)
    <3> DEFINE body == Outdated(o, request[r].body)
    <3>1. /\ request[r] \in [at : {"store"}, user : Users, key : Key, body : Body,
                             age : 0 .. RenderTime]
          /\ request[r].body.stale <= request[r].age
      BY <2>1, <2>3, RequestShape, InvariantHasParts DEF RequestsAged, InStore
    <3>2. body \in Body /\ (body = request[r].body \/ body.stale = 0)
      BY <1>1, <3>1
    <3>3. request'[r] = [request[r] EXCEPT !.body = body]
      BY <2>2, <2>3
    <3> HIDE DEF body
    <3>4. request'[r] \in FragmentRequest
      BY <3>1, <3>2, <3>3 DEF FragmentRequest
    <3>5. request'[r].body = body /\ request'[r].age = request[r].age
      BY <3>1, <3>3
    <3> QED BY <3>1, <3>2, <3>4, <3>5, FragmentAssumption
  <2>4. CASE ~InStore(r)
    BY <2>1, <2>2, <2>4 DEF InStore
  <2> QED BY <2>3, <2>4
<1>8. request' \in [Requests -> FragmentRequest] /\ RequestsAged'
  BY <1>7 DEF Change, RequestsAged
<1> QED BY <1>2, <1>4, <1>5, <1>6, <1>8, InvariantHasParts, PartsMakeInvariant

\* A tick: what is behind is so for longer, and entries come closer to expiring.
LEMMA TickKeepsInvariant ==
  ASSUME FragmentsInvariant, Tick
  PROVE  FragmentsInvariant'
<1>1. \A body \in Body : /\ Older(body) \in Body
                         /\ Older(body).stale <= body.stale + 1
  BY DEF Older, Body
<1>2. /\ ll' = ll /\ DOMAIN entries' = DOMAIN entries /\ UNCHANGED <<enabled, cookie>>
      /\ entries' = [k \in DOMAIN entries' |-> entries'[k]]
  BY DEF Tick
<1>3. ASSUME NEW k \in DOMAIN entries
      PROVE  /\ entries'[k] \in Entry
             /\ entries'[k].left >= 0 =>
                  entries'[k].body.stale <= TTL - entries'[k].left + RenderTime
  <2>1. entries[k] \in Entry
    BY InvariantHasParts
  <2>2. entries'[k] = IF Expired(k) THEN entries[k]
                      ELSE [body |-> Older(entries[k].body), left |-> entries[k].left - 1]
    BY DEF Tick
  <2>3. CASE Expired(k)
    <3>1. entries[k].left \in -1 .. TTL /\ entries[k].left < 0
      BY <2>1, <2>3 DEF Entry, Expired
    <3> QED BY <2>1, <2>2, <2>3, <3>1
  <2>4. CASE ~Expired(k)
    <3> DEFINE body == entries[k].body
    <3>1. body \in Body /\ entries[k].left \in -1 .. TTL
      BY <2>1 DEF Entry
    <3>2. ~(entries[k].left < 0) /\ body.stale <= TTL - entries[k].left + RenderTime
      BY <2>4, InvariantHasParts DEF EntriesAged, Expired
    <3>3. body.stale \in Int /\ Older(body).stale \in Int
      BY <1>1, <3>1 DEF Body
    <3>4. entries'[k].body = Older(body) /\ entries'[k].left = entries[k].left - 1
      BY <2>2, <2>4
    <3>5. entries'[k] \in Entry
      BY <1>1, <2>2, <2>4, <3>1, <3>2, CacheAssumption DEF Entry
    <3>6. Older(body) \in Body /\ Older(body).stale <= body.stale + 1
      BY <1>1, <3>1
    <3> HIDE DEF body
    <3> QED BY <3>1, <3>2, <3>3, <3>4, <3>5, <3>6, CacheAssumption, FragmentAssumption
  <2> QED BY <2>3, <2>4
<1>4. entries' \in [DOMAIN entries' -> Entry]
  BY <1>2, <1>3
<1>5. CacheAgrees'
  BY <1>2, InvariantHasParts DEF CacheAgrees
<1>6. EntriesAged'
  <2> SUFFICES ASSUME NEW k \in DOMAIN entries, ~Expired(k)'
               PROVE  entries'[k].body.stale <= TTL - entries'[k].left + RenderTime
    BY <1>2 DEF EntriesAged
  <2>1. entries'[k].left \in -1 .. TTL
    BY <1>3 DEF Entry
  <2> QED BY <1>3, <2>1, CacheAssumption DEF Expired
<1>7. ASSUME NEW r \in Requests
      PROVE  /\ request'[r] \in FragmentRequest
             /\ InStore(r)' => request'[r].body.stale <= request'[r].age
  <2>1. request[r] \in FragmentRequest
    BY InvariantHasParts
  <2>2. request'[r] = IF InStore(r)
                      THEN [request[r] EXCEPT !.body = Older(@), !.age = @ + 1]
                      ELSE request[r]
    BY DEF Tick
  <2>3. CASE InStore(r)
    <3> DEFINE body == request[r].body
               age == request[r].age
    <3>1. /\ request[r] \in [at : {"store"}, user : Users, key : Key, body : Body,
                             age : 0 .. RenderTime]
          /\ body.stale <= age
      BY <2>1, <2>3, RequestShape, InvariantHasParts DEF RequestsAged, InStore
    <3>2. age < RenderTime
      BY <2>3 DEF Tick
    <3>3. /\ body \in Body /\ age \in 0 .. RenderTime
      BY <3>1
    <3>4. /\ Older(body) \in Body /\ Older(body).stale <= body.stale + 1
          /\ body.stale \in Int /\ Older(body).stale \in Int
      BY <1>1, <3>3 DEF Body
    <3>5. age + 1 \in 0 .. RenderTime
      BY <3>2, <3>3, FragmentAssumption
    <3>6. request'[r] = [request[r] EXCEPT !.body = Older(body), !.age = age + 1]
      BY <2>2, <2>3
    <3>7. /\ request'[r] \in [at : {"store"}, user : Users, key : Key, body : Body,
                              age : 0 .. RenderTime]
          /\ request'[r].body = Older(body) /\ request'[r].age = age + 1
      BY <3>1, <3>4, <3>5, <3>6
    <3>8. request'[r] \in FragmentRequest
      BY <3>7 DEF FragmentRequest
    <3> HIDE DEF body, age
    <3> QED BY <3>1, <3>3, <3>4, <3>7, <3>8, FragmentAssumption
  <2>4. CASE ~InStore(r)
    BY <2>1, <2>2, <2>4 DEF InStore
  <2> QED BY <2>3, <2>4
<1>8. request' \in [Requests -> FragmentRequest] /\ RequestsAged'
  BY <1>7 DEF Tick, RequestsAged
<1> QED BY <1>2, <1>4, <1>5, <1>6, <1>8, InvariantHasParts, PartsMakeInvariant

-----------------------------------------------------------------------------
(* The theorems.                                                           *)

LEMMA InvariantAtFirst == Init => FragmentsInvariant
<1> SUFFICES ASSUME Init PROVE FragmentsInvariant
  OBVIOUS
<1>1. ll = <<>> /\ entries = <<>> /\ DOMAIN entries = {} /\ Len(ll) = 0
  BY DEF Init, CacheInit
<1>2. NoRequest \in FragmentRequest /\ NoRequest.at = "idle"
  BY DEF FragmentRequest, NoRequest
<1>3. FragmentsType
  <2>1. entries \in [DOMAIN entries -> [body : Body, left : -1 .. TTL]]
    BY <1>1
  <2> QED BY <1>1, <1>2, <2>1 DEF Init, FragmentsType
<1>4. CacheAgrees
  BY <1>1, CacheAssumption DEF CacheAgrees
<1>5. EntriesAged
  BY <1>1 DEF EntriesAged
<1>6. RequestsAged
  BY <1>2 DEF Init, RequestsAged, InStore
<1> QED BY <1>3, <1>4, <1>5, <1>6 DEF FragmentsInvariant

LEMMA StepKeepsInvariant ==
  FragmentsInvariant /\ [Next]_fragmentVars => FragmentsInvariant'
<1> SUFFICES ASSUME FragmentsInvariant, [Next]_fragmentVars
             PROVE  FragmentsInvariant'
  OBVIOUS
<1>1. CASE UNCHANGED fragmentVars
  <2>1. UNCHANGED cache /\ UNCHANGED <<enabled, cookie, request>>
    BY <1>1 DEF fragmentVars, cache
  <2> QED BY <2>1, CacheUnchanged, RequestsUnchanged, InvariantHasParts, PartsMakeInvariant
<1>2. CASE \E u \in Users :
             \/ Login(u) \/ Logout(u) \/ Browse(u) \/ DisableInSettings(u)
             \/ \E o \in Orgs : Switch(u, o) \/ Enable(u, o) \/ Disable(u, o)
  BY <1>2, SessionKeepsInvariant
<1>3. CASE \E r \in Requests :
             (\E u \in Users, q \in Queries : Arrive(r, u, q)) \/ Work(r)
  BY <1>3, RequestKeepsInvariant
<1>4. CASE \E o \in Orgs : Change(o)
  BY <1>4, ChangeKeepsInvariant
<1>5. CASE Tick
  BY <1>5, TickKeepsInvariant
<1> QED BY <1>1, <1>2, <1>3, <1>4, <1>5 DEF Next, Work

LEMMA InvariantHolds == Spec => []FragmentsInvariant
BY InvariantAtFirst, StepKeepsInvariant, PTL DEF Spec

\* The state of the sessions, of the requests and of the cache is well formed:
\* no request goes on without an organization its user may see.
THEOREM FragmentsTypeHolds == Spec => []FragmentsType
BY InvariantHolds, PTL DEF FragmentsInvariant

\* The list and the map of the cache (fragment_renderer.go get, set, remove)
\* never disagree, and never grow past the capacity.
THEOREM CacheAgreesHolds == Spec => []CacheAgrees
BY InvariantHolds, PTL DEF FragmentsInvariant

\* No fragment is served that is behind for longer than an entry lives and a
\* handler renders.
THEOREM FragmentsAreRecentHolds == Spec => []FragmentsAreRecent
<1>1. FragmentsInvariant => FragmentsAreRecent
  <2> SUFFICES ASSUME FragmentsInvariant, NEW k \in DOMAIN entries, ~Expired(k)
               PROVE  entries[k].body.stale <= TTL + RenderTime
    BY DEF FragmentsAreRecent
  <2>1. entries[k] \in Entry
    BY InvariantHasParts
  <2>2. entries[k].left \in -1 .. TTL /\ entries[k].body \in Body /\ ~(entries[k].left < 0)
    BY <2>1 DEF Entry, Expired
  <2>3. entries[k].body.stale \in Int
    BY <2>2 DEF Body
  <2>4. entries[k].body.stale <= TTL - entries[k].left + RenderTime
    BY InvariantHasParts DEF EntriesAged
  <2> QED BY <2>2, <2>3, <2>4, CacheAssumption, FragmentAssumption
<1> QED BY <1>1, InvariantHolds, PTL

=============================================================================
