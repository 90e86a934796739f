---------------------------- MODULE FragmentCache ----------------------------
(***************************************************************************)
(* The cache of rendered fragments (internal/renderer/fragment_renderer.go)*)
(* keeps its entries in a list, the most recently used one in front, and   *)
(* finds them by key in a map.  An entry is served for a while after it    *)
(* was stored; nothing else makes it go but the capacity.  get and set run *)
(* under the mutex, so each is one step.                                   *)
(***************************************************************************)
EXTENDS Integers, Sequences

CONSTANTS
  Capacity,  \* how many entries are kept: 512 in the code
  TTL        \* how many ticks an entry is served: five seconds in the code

ASSUME CacheAssumption ==
  /\ Capacity \in Nat \ {0}
  /\ TTL \in Nat

VARIABLES
  ll,      \* the list, of keys
  entries  \* the map, to [body, left]; left: the ticks to expiresAt, -1 once it has passed

cache == <<ll, entries>>

CacheInit ==
  /\ ll = <<>>
  /\ entries = <<>>

\* list.Remove: the element of this key leaves the list s.
Without(s, k) ==
  LET i == CHOOSE i \in DOMAIN s : s[i] = k
  IN  SubSeq(s, 1, i - 1) \o SubSeq(s, i + 1, Len(s))

\* delete(m, k)
Forget(m, k) == [j \in DOMAIN m \ {k} |-> m[j]]

Expired(k) == entries[k].left < 0

\* Mutant: an entry lives on for as long as it is asked for.
Hit_Prolongs(k) ==
  /\ k \in DOMAIN entries
  /\ ~Expired(k)
  /\ ll' = <<k>> \o Without(ll, k)
  /\ entries' = [entries EXCEPT ![k].left = TTL]

\* get finds the entry: it is the most recently used one now.
Hit(k) ==
  /\ k \in DOMAIN entries
  /\ ~Expired(k)
  /\ ll' = <<k>> \o Without(ll, k)
  /\ UNCHANGED entries

\* Mutant: the expired element stays in the list.
Miss_ForgetsOnly(k) ==
  \/ /\ k \notin DOMAIN entries
     /\ UNCHANGED cache
  \/ /\ k \in DOMAIN entries
     /\ Expired(k)
     /\ UNCHANGED ll
     /\ entries' = Forget(entries, k)

\* get finds none, or one that has expired and goes.
Miss(k) ==
  \/ /\ k \notin DOMAIN entries
     /\ UNCHANGED cache
  \/ /\ k \in DOMAIN entries
     /\ Expired(k)
     /\ ll' = Without(ll, k)
     /\ entries' = Forget(entries, k)

Stored(k, body) ==
  [j \in DOMAIN entries \cup {k} |->
     IF j = k THEN [body |-> body, left |-> TTL] ELSE entries[j]]

\* set: an entry the cache has is renewed; a new one may push out the one that
\* was used least recently.
Set(k, body) ==
  \/ /\ k \in DOMAIN entries
     /\ entries' = Stored(k, body)
     /\ ll' = <<k>> \o Without(ll, k)
  \/ /\ k \notin DOMAIN entries
     /\ Len(ll) < Capacity
     /\ entries' = Stored(k, body)
     /\ ll' = <<k>> \o ll
  \/ /\ k \notin DOMAIN entries
     /\ Len(ll) >= Capacity
     /\ entries' = Forget(Stored(k, body), ll[Len(ll)])
     /\ ll' = <<k>> \o SubSeq(ll, 1, Len(ll) - 1)

\* The list and the map hold the same entries, each of them once, and no more
\* of them than the capacity: an element that outlived its entry, or the other
\* way round, would never be evicted.
CacheAgrees ==
  /\ Len(ll) <= Capacity
  /\ DOMAIN entries = {ll[i] : i \in DOMAIN ll}
  /\ \A i, j \in DOMAIN ll : ll[i] = ll[j] => i = j
=============================================================================
