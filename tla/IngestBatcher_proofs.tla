------------------------ MODULE IngestBatcher_proofs ------------------------
(***************************************************************************)
(* Proofs about IngestBatcher, for any number of requests, organizations,  *)
(* endpoints and any batch size.                                           *)
(***************************************************************************)
EXTENDS IngestInvariant, SequenceTheorems, WellFoundedInduction, TLAPS

-----------------------------------------------------------------------------
(* Sequences without repetition, as queues and batches are.                *)

\* Taking the head off leaves a sequence without repetition, whose elements
\* are the others.
LEMMA TailLemma ==
  ASSUME NEW S, NEW s \in Seq(S), s # <<>>, IsInjective(s)
  PROVE  /\ Head(s) \in S
         /\ Head(s) \in Range(s)
         /\ Tail(s) \in Seq(S)
         /\ Len(s) \in Nat \ {0}
         /\ Len(Tail(s)) = Len(s) - 1
         /\ IsInjective(Tail(s))
         /\ Range(Tail(s)) = Range(s) \ {Head(s)}
<1>1. /\ Len(s) \in Nat \ {0} /\ DOMAIN s = 1..Len(s)
      /\ Tail(s) \in Seq(S) /\ Len(Tail(s)) = Len(s) - 1
      /\ DOMAIN Tail(s) = 1..(Len(s) - 1)
      /\ \A i \in 1..(Len(s) - 1) : Tail(s)[i] = s[i + 1]
      /\ Head(s) = s[1]
  OBVIOUS
<1>2. Head(s) \in S /\ Head(s) \in Range(s)
  BY <1>1 DEF Range
<1>3. IsInjective(Tail(s))
  BY <1>1 DEF IsInjective
<1>4. ASSUME NEW x \in Range(Tail(s)) PROVE x \in Range(s) \ {Head(s)}
  BY <1>1, <1>4 DEF Range, IsInjective
<1>5. ASSUME NEW x \in Range(s) \ {Head(s)} PROVE x \in Range(Tail(s))
  <2>1. PICK i \in 1..Len(s) : s[i] = x /\ i # 1
    BY <1>1, <1>5 DEF Range
  <2>2. i - 1 \in 1..(Len(s) - 1) /\ Tail(s)[i - 1] = x
    BY <1>1, <2>1
  <2>3. QED BY <1>1, <2>2 DEF Range
<1>6. QED BY <1>1, <1>2, <1>3, <1>4, <1>5

\* Appending an element that does not occur keeps a sequence free of repetition.
LEMMA AppendLemma ==
  ASSUME NEW S, NEW s \in Seq(S), NEW x \in S, x \notin Range(s), IsInjective(s)
  PROVE  /\ Append(s, x) \in Seq(S)
         /\ Append(s, x) # <<>>
         /\ Len(s) \in Nat
         /\ Len(Append(s, x)) = Len(s) + 1
         /\ IsInjective(Append(s, x))
         /\ Range(Append(s, x)) = Range(s) \cup {x}
<1> DEFINE t == Append(s, x)
<1>1. /\ Len(s) \in Nat /\ DOMAIN s = 1..Len(s)
      /\ t \in Seq(S) /\ Len(t) = Len(s) + 1 /\ DOMAIN t = 1..(Len(s) + 1)
      /\ \A i \in 1..Len(s) : t[i] = s[i]
      /\ t[Len(s) + 1] = x
  OBVIOUS
<1>2. t # <<>>
  BY <1>1
<1> HIDE DEF t
<1>3. \A i \in 1..Len(s) : t[i] # x
  BY <1>1 DEF Range
<1>4. IsInjective(t)
  BY <1>1, <1>3 DEF IsInjective
<1>5. Range(t) = Range(s) \cup {x}
  <2>1. ASSUME NEW y \in Range(t) PROVE y \in Range(s) \cup {x}
    BY <1>1, <2>1 DEF Range
  <2>2. ASSUME NEW y \in Range(s) \cup {x} PROVE y \in Range(t)
    BY <1>1, <2>2 DEF Range
  <2>3. QED BY <2>1, <2>2
<1>6. QED BY <1>1, <1>2, <1>4, <1>5 DEF t

\* The empty sequence has no elements.
LEMMA EmptyLemma ==
  ASSUME NEW S
  PROVE  <<>> \in Seq(S) /\ Len(<<>>) = 0 /\ IsInjective(<<>>) /\ Range(<<>>) = {}
  BY DEF IsInjective, Range

\* A non-empty set of natural numbers has a least element.
LEMMA LeastLemma ==
  ASSUME NEW T \in SUBSET Nat, T # {}
  PROVE  \E n \in T : \A m \in T : n <= m
<1>1. PICK x \in T : \A y \in T : ~ (<<y, x>> \in OpToRel(<, Nat))
  BY NatLessThanWellFounded, WFMin, Zenon
<1>2. ASSUME NEW y \in T PROVE ~(y < x)
  BY <1>1, Zenon DEF OpToRel
<1>3. x \in Nat /\ \A y \in T : y \in Nat
  OBVIOUS
<1>4. QED BY <1>2, <1>3

-----------------------------------------------------------------------------
(* The invariant holds initially and is kept by every step.                *)

LEMMA CapIsNat == QueueCap \in Nat
  BY IngestAssumption DEF IngestAssumption, QueueCap

LEMMA InitInv == Init => IInv
<1> SUFFICES ASSUME Init PROVE IInv
  OBVIOUS
<1>1. TypeOK
  <2>1. /\ queue \in [Batchers -> Seq(Requests)] /\ batch \in [Batchers -> Seq(Requests)]
        /\ \A b \in Batchers : Len(queue[b]) = 0 /\ Len(batch[b]) = 0
    BY EmptyLemma DEF Init
  <2>2. \A b \in Batchers : Len(queue[b]) <= QueueCap /\ Len(batch[b]) <= BatchSize
    BY <2>1, CapIsNat, IngestAssumption DEF IngestAssumption
  <2>3. QED BY <2>1, <2>2 DEF Init, TypeOK, PcValues
<1>2. \A b \in Batchers : InBatch(b) = {} /\ InQueue(b) = {}
  BY DEF Init, InBatch, InQueue, Range
<1>3. CallerAgrees
  BY DEF Init, CallerAgrees
<1>4. Placement
  BY <1>2 DEF Init, Placement, IsInjective
<1>5. Waiting
  BY DEF Init, Waiting
<1>6. LoopAgrees
  BY <1>2, IngestAssumption DEF Init, LoopAgrees, IngestAssumption
<1>7. StoreAgrees
  BY DEF Init, StoreAgrees, OneRowPerEvent
<1>8. QED BY <1>1, <1>3, <1>4, <1>5, <1>6, <1>7 DEF IInv

\* A step that leaves queues and batches alone leaves their contents alone.
LEMMA SamePlaces ==
  ASSUME UNCHANGED <<queue, batch>>
  PROVE  \A b \in Batchers : InBatch(b)' = InBatch(b) /\ InQueue(b)' = InQueue(b)
  BY DEF InBatch, InQueue

\* What stands in a batcher are requests.
LEMMA PlacesHoldRequests ==
  ASSUME TypeOK, NEW b \in Batchers
  PROVE  InBatch(b) \subseteq Requests /\ InQueue(b) \subseteq Requests
<1>1. batch[b] \in Seq(Requests) /\ queue[b] \in Seq(Requests)
  BY DEF TypeOK
<1>2. ASSUME NEW q \in Seq(Requests) PROVE Range(q) \subseteq Requests
  BY DEF Range
<1>3. QED BY <1>1, <1>2 DEF InBatch, InQueue

\* A request that has not been enqueued is in no batcher.
LEMMA NotEnqueued ==
  ASSUME IInv, NEW r \in Requests, pc[r] \in {"new", "admitted"}
  PROVE  \A b \in Batchers : r \notin InBatch(b) \cup InQueue(b)
  BY DEF IInv, Placement

\* A lookup that succeeds changes the goroutine only.
LEMMA AdmitInv ==
  ASSUME IInv, NEW r \in Requests, Admit(r)
  PROVE  IInv'
<1> USE DEF IInv, Admit, dbVars, callerVars, loopVars, history
<1>1. \A c \in Batchers : InBatch(c)' = InBatch(c) /\ InQueue(c)' = InQueue(c)
  BY SamePlaces
<1>2. TypeOK'
  BY DEF TypeOK, PcValues
<1>3. CallerAgrees'
  BY DEF TypeOK, CallerAgrees
<1>4. Placement'
  BY <1>1, NotEnqueued DEF TypeOK, Placement
<1>5. Waiting'
  BY <1>1 DEF TypeOK, Waiting
<1>6. LoopAgrees'
  BY <1>1 DEF LoopAgrees
<1>7. StoreAgrees'
  BY DEF StoreAgrees, OneRowPerEvent, Stored, OrgPresent
<1>8. QED BY <1>2, <1>3, <1>4, <1>5, <1>6, <1>7

\* A request that is refused before it is enqueued was in no batcher.
LEMMA RefuseInv ==
  ASSUME IInv, NEW r \in Requests, pc[r] \in {"new", "admitted"},
         NEW answer \in {"rejected", "busy", "failed"}, Reply(r, answer),
         fate' = [fate EXCEPT ![r] = "refused"],
         UNCHANGED <<batching, dbVars, cancelled, queue, loopVars, result, ticket, tickets>>
  PROVE  IInv'
<1> USE DEF IInv, Reply, dbVars, loopVars
<1>1. \A c \in Batchers : InBatch(c)' = InBatch(c) /\ InQueue(c)' = InQueue(c)
  BY SamePlaces
<1>2. TypeOK'
  BY DEF TypeOK, Answers, PcValues
<1>3. CallerAgrees'
  BY DEF TypeOK, CallerAgrees
<1>4. Placement'
  BY <1>1, NotEnqueued DEF TypeOK, Placement
<1>5. Waiting'
  BY <1>1 DEF TypeOK, Waiting
<1>6. LoopAgrees'
  BY <1>1, NotEnqueued DEF TypeOK, LoopAgrees
<1>7. StoreAgrees'
  <2>1. fate[r] # "stored"
    BY DEF CallerAgrees
  <2>2. \A q \in Requests : fate'[q] = "stored" <=> fate[q] = "stored"
    BY <2>1 DEF TypeOK
  <2>3. \A row \in store : row.by \in Requests
    BY DEF TypeOK, Row
  <2>4. QED BY <2>2, <2>3 DEF StoreAgrees, OneRowPerEvent, Stored, OrgPresent
<1>8. QED BY <1>2, <1>3, <1>4, <1>5, <1>6, <1>7

\* The reply that r takes agrees with its fate.
LEMMA ReceiveInv ==
  ASSUME IInv, NEW r \in Requests, Receive(r)
  PROVE  IInv'
<1> USE DEF IInv, Receive, Reply, dbVars, loopVars, history
<1>1. \A c \in Batchers : InBatch(c)' = InBatch(c) /\ InQueue(c)' = InQueue(c)
  BY SamePlaces
<1>2. TypeOK'
  BY DEF TypeOK, Answers, PcValues
<1>3. CallerAgrees'
  BY DEF TypeOK, CallerAgrees
<1>4. Placement'
  BY <1>1 DEF TypeOK, Placement
<1>5. Waiting'
  BY <1>1 DEF TypeOK, Waiting
<1>6. LoopAgrees'
  BY <1>1 DEF LoopAgrees
<1>7. StoreAgrees'
  BY DEF StoreAgrees, OneRowPerEvent, Stored, OrgPresent
<1>8. QED BY <1>2, <1>3, <1>4, <1>5, <1>6, <1>7

\* A goroutine that gives up leaves its request where it stands.
LEMMA GiveUpInv ==
  ASSUME IInv, NEW r \in Requests, GiveUp(r)
  PROVE  IInv'
<1> USE DEF IInv, GiveUp, Reply, dbVars, loopVars, history
<1>1. \A c \in Batchers : InBatch(c)' = InBatch(c) /\ InQueue(c)' = InQueue(c)
  BY SamePlaces
<1>2. TypeOK'
  BY DEF TypeOK, Answers, PcValues
<1>3. CallerAgrees'
  BY DEF TypeOK, CallerAgrees
<1>4. Placement'
  BY <1>1 DEF TypeOK, Placement
<1>5. Waiting'
  BY <1>1 DEF TypeOK, Waiting
<1>6. LoopAgrees'
  BY <1>1 DEF LoopAgrees
<1>7. StoreAgrees'
  BY DEF StoreAgrees, OneRowPerEvent, Stored, OrgPresent
<1>8. QED BY <1>2, <1>3, <1>4, <1>5, <1>6, <1>7

\* Hanging up marks the context, switching an organization on or off its row:
\* neither disturbs the invariant, which speaks of deleted organizations only.
LEMMA QuietInv ==
  ASSUME IInv, cancelled' \subseteq Requests,
         org' \in [Orgs -> {"enabled", "disabled", "deleted"}],
         \A o \in Orgs : org'[o] = "deleted" <=> org[o] = "deleted",
         UNCHANGED <<batching, store, lastSeq, pc, told, queue, loopVars, result, history>>
  PROVE  IInv'
<1> USE DEF IInv, loopVars, history
<1>1. \A c \in Batchers : InBatch(c)' = InBatch(c) /\ InQueue(c)' = InQueue(c)
  BY SamePlaces
<1>2. TypeOK'
  BY DEF TypeOK
<1>3. CallerAgrees'
  BY DEF CallerAgrees
<1>4. Placement'
  BY <1>1 DEF Placement
<1>5. Waiting'
  BY <1>1 DEF Waiting
<1>6. LoopAgrees'
  BY <1>1 DEF LoopAgrees
<1>7. StoreAgrees'
  <2>1. \A q \in Requests : EventOf[q].org \in Orgs
    BY IngestAssumption DEF IngestAssumption, Event
  <2>2. QED BY <2>1 DEF StoreAgrees, OneRowPerEvent, Stored, OrgPresent
<1>8. QED BY <1>2, <1>3, <1>4, <1>5, <1>6, <1>7

\* A new item of the queue was in no batcher before.
LEMMA EnqueueInv ==
  ASSUME IInv, NEW r \in Requests, Enqueue(r)
  PROVE  IInv'
<1> DEFINE b == EndpointOf[r]
<1> USE DEF IInv, dbVars, loopVars
<1>1. b \in Batchers /\ r \notin InBatch(b) \cup InQueue(b)
  BY NotEnqueued, IngestAssumption DEF Enqueue, IngestAssumption
<1>2. /\ Append(queue[b], r) \in Seq(Requests)
      /\ Len(queue[b]) \in Nat
      /\ Len(Append(queue[b], r)) = Len(queue[b]) + 1
      /\ IsInjective(Append(queue[b], r))
      /\ Range(Append(queue[b], r)) = Range(queue[b]) \cup {r}
  BY <1>1, AppendLemma DEF TypeOK, Placement, InQueue
<1>3. /\ queue' = [queue EXCEPT ![b] = Append(queue[b], r)]
      /\ pc[r] = "admitted" /\ pc' = [pc EXCEPT ![r] = "awaiting"]
      /\ Len(queue[b]) < QueueCap
      /\ tickets' = tickets + 1 /\ ticket' = [ticket EXCEPT ![r] = tickets + 1]
      /\ UNCHANGED <<batching, org, store, lastSeq, cancelled, told, batch, loop, outcome, result, fate>>
  BY DEF Enqueue
<1>4. \A c \in Batchers :
        /\ InBatch(c)' = InBatch(c)
        /\ InQueue(c)' = IF c = b THEN InQueue(c) \cup {r} ELSE InQueue(c)
  BY <1>2, <1>3 DEF TypeOK, InBatch, InQueue
<1> HIDE DEF b
<1>5. TypeOK'
  <2>1. queue' \in [Batchers -> Seq(Requests)]
    BY <1>1, <1>2, <1>3 DEF TypeOK
  <2>2. \A c \in Batchers : Len(queue'[c]) <= QueueCap
    BY <1>1, <1>2, <1>3, CapIsNat DEF TypeOK
  <2>3. QED BY <1>3, <2>1, <2>2 DEF TypeOK, PcValues
<1>6. CallerAgrees'
  BY <1>3 DEF TypeOK, CallerAgrees
<1>7. Placement'
  <2>1. \A c \in Batchers : IsInjective(queue'[c])
    BY <1>1, <1>2, <1>3 DEF TypeOK, Placement
  <2>2. result[r] = "empty"
    BY <1>3 DEF CallerAgrees
  <2>3. QED BY <1>1, <1>3, <1>4, <2>1, <2>2 DEF TypeOK, Placement, b
<1>8. Waiting'
  BY <1>3, <1>4 DEF TypeOK, Waiting, b
<1>9. LoopAgrees'
  <2>1. fate[r] = "open"
    BY <1>3 DEF CallerAgrees
  <2>2. QED BY <1>3, <1>4, <2>1 DEF LoopAgrees
<1>10. StoreAgrees'
  BY <1>3 DEF StoreAgrees, OneRowPerEvent, Stored, OrgPresent
<1>11. QED BY <1>5, <1>6, <1>7, <1>8, <1>9, <1>10

\* The head of the queue becomes the last item of the batch.
LEMMA TakeInv ==
  ASSUME IInv, NEW b \in Batchers, Take(b)
  PROVE  IInv'
<1> DEFINE h == Head(queue[b])
<1> USE DEF IInv, dbVars, callerVars, history
<1>1. /\ h \in Requests /\ h \in InQueue(b)
      /\ Tail(queue[b]) \in Seq(Requests)
      /\ Len(queue[b]) \in Nat \ {0} /\ Len(Tail(queue[b])) = Len(queue[b]) - 1
      /\ IsInjective(Tail(queue[b]))
      /\ Range(Tail(queue[b])) = Range(queue[b]) \ {h}
  BY TailLemma DEF TypeOK, Placement, InQueue, Take
<1>2. h \notin Range(batch[b])
  BY <1>1 DEF Placement, InBatch
<1>3. /\ Append(batch[b], h) \in Seq(Requests) /\ Append(batch[b], h) # <<>>
      /\ Len(batch[b]) \in Nat
      /\ Len(Append(batch[b], h)) = Len(batch[b]) + 1
      /\ IsInjective(Append(batch[b], h))
      /\ Range(Append(batch[b], h)) = Range(batch[b]) \cup {h}
  <2>1. batch[b] \in Seq(Requests) /\ IsInjective(batch[b])
    BY DEF TypeOK, Placement
  <2>2. h \in Requests
    BY <1>1
  <2> HIDE DEF h
  <2>3. QED BY <1>2, <2>1, <2>2, AppendLemma
<1>4. /\ queue' = [queue EXCEPT ![b] = Tail(queue[b])]
      /\ batch' = [batch EXCEPT ![b] = Append(batch[b], h)]
      /\ loop[b] = "select"
      /\ loop' = [loop EXCEPT ![b] =
                    IF Len(batch[b]) + 1 >= BatchSize THEN "flush" ELSE "select"]
      /\ UNCHANGED <<batching, org, store, lastSeq, pc, cancelled, told, outcome, result,
                     fate, ticket, tickets>>
  BY DEF Take
<1> HIDE DEF h
<1>5. \A c \in Batchers :
        /\ InBatch(c)' = IF c = b THEN InBatch(c) \cup {h} ELSE InBatch(c)
        /\ InQueue(c)' = IF c = b THEN InQueue(c) \ {h} ELSE InQueue(c)
  BY <1>1, <1>3, <1>4 DEF TypeOK, InBatch, InQueue
<1>6. TypeOK'
  <2>1. Len(batch[b]) < BatchSize
    BY <1>4 DEF LoopAgrees
  <2>2. queue' \in [Batchers -> Seq(Requests)] /\ batch' \in [Batchers -> Seq(Requests)]
    BY <1>1, <1>3, <1>4 DEF TypeOK
  <2>3. \A c \in Batchers : Len(queue'[c]) <= QueueCap /\ Len(batch'[c]) <= BatchSize
    BY <1>1, <1>3, <1>4, <2>1, CapIsNat, IngestAssumption DEF TypeOK, IngestAssumption
  <2>4. loop' \in [Batchers -> {"select", "flush", "answer"}]
    BY <1>4 DEF TypeOK
  <2>5. QED BY <1>4, <2>2, <2>3, <2>4 DEF TypeOK
<1>7. CallerAgrees'
  BY <1>4 DEF CallerAgrees
<1>8. Placement'
  <2>1. \A c \in Batchers : IsInjective(queue'[c]) /\ IsInjective(batch'[c])
    BY <1>1, <1>3, <1>4 DEF TypeOK, Placement
  <2>2. QED BY <1>1, <1>4, <1>5, <2>1 DEF Placement
<1>9. Waiting'
  BY <1>4, <1>5 DEF Waiting
<1>10. LoopAgrees'
  <2>1. ASSUME NEW c \in Batchers
        PROVE  /\ loop'[c] \in {"flush", "answer"} => batch'[c] # <<>>
               /\ loop'[c] = "select" => Len(batch'[c]) < BatchSize
    BY <1>3, <1>4, IngestAssumption DEF TypeOK, LoopAgrees, IngestAssumption
  <2>2. \A c \in Batchers : \A r \in InQueue(c)' : fate'[r] = "open"
    BY <1>4, <1>5 DEF LoopAgrees
  <2>3. ASSUME NEW c \in Batchers, NEW r \in InBatch(c)'
        PROVE  fate'[r] = IF loop'[c] # "answer" THEN "open"
                          ELSE IF outcome'[c] = "ok" THEN "stored" ELSE "refused"
    <3>1. CASE c = b
      <4>1. loop'[c] # "answer"
        BY <1>4, <3>1 DEF TypeOK
      <4>2. r \in InBatch(b) \cup InQueue(b)
        BY <1>1, <1>5, <3>1
      <4>3. fate[r] = "open"
        BY <1>4, <4>2 DEF LoopAgrees
      <4>4. QED BY <1>4, <4>1, <4>3
    <3>2. CASE c # b
      BY <1>4, <1>5, <3>2 DEF TypeOK, LoopAgrees
    <3>3. QED BY <3>1, <3>2
  <2>4. QED BY <2>1, <2>2, <2>3 DEF LoopAgrees
<1>11. StoreAgrees'
  BY <1>4 DEF StoreAgrees, OneRowPerEvent, Stored, OrgPresent
<1>12. QED BY <1>6, <1>7, <1>8, <1>9, <1>10, <1>11

\* The ticker starts a flush of what is there.
LEMMA TickInv ==
  ASSUME IInv, NEW b \in Batchers, Tick(b)
  PROVE  IInv'
<1> USE DEF IInv, Tick, dbVars, callerVars, history
<1>1. \A c \in Batchers : InBatch(c)' = InBatch(c) /\ InQueue(c)' = InQueue(c)
  BY SamePlaces
<1>2. TypeOK'
  BY DEF TypeOK
<1>3. CallerAgrees'
  BY DEF CallerAgrees
<1>4. Placement'
  BY <1>1 DEF Placement
<1>5. Waiting'
  BY <1>1 DEF Waiting
<1>6. LoopAgrees'
  BY <1>1 DEF TypeOK, LoopAgrees
<1>7. StoreAgrees'
  BY DEF StoreAgrees, OneRowPerEvent, Stored, OrgPresent
<1>8. QED BY <1>2, <1>3, <1>4, <1>5, <1>6, <1>7

\* The next item is answered and leaves the batch.
LEMMA AnswerInv ==
  ASSUME IInv, NEW b \in Batchers, Answer(b)
  PROVE  IInv'
<1> DEFINE h == Head(batch[b])
<1> USE DEF IInv, dbVars, callerVars, history
<1>1. batch[b] # <<>>
  BY DEF Answer, LoopAgrees
<1>2. /\ h \in Requests /\ h \in InBatch(b)
      /\ Tail(batch[b]) \in Seq(Requests)
      /\ Len(batch[b]) \in Nat \ {0} /\ Len(Tail(batch[b])) = Len(batch[b]) - 1
      /\ IsInjective(Tail(batch[b]))
      /\ Range(Tail(batch[b])) = Range(batch[b]) \ {h}
  BY <1>1, TailLemma DEF TypeOK, Placement, InBatch
<1>3. /\ loop[b] = "answer" /\ result[h] = "empty"
      /\ result' = [result EXCEPT ![h] = outcome[b]]
      /\ batch' = [batch EXCEPT ![b] = Tail(batch[b])]
      /\ loop' = [loop EXCEPT ![b] = IF Len(batch[b]) = 1 THEN "select" ELSE "answer"]
      /\ UNCHANGED <<batching, org, store, lastSeq, pc, cancelled, told, queue, outcome,
                     fate, ticket, tickets>>
  BY DEF Answer
<1> HIDE DEF h
<1>4. \A c \in Batchers :
        /\ InBatch(c)' = IF c = b THEN InBatch(c) \ {h} ELSE InBatch(c)
        /\ InQueue(c)' = InQueue(c)
  BY <1>2, <1>3 DEF TypeOK, InBatch, InQueue
<1>5. /\ pc[h] \in {"awaiting", "replied"} /\ EndpointOf[h] = b
      /\ fate[h] = IF outcome[b] = "ok" THEN "stored" ELSE "refused"
  BY <1>2, <1>3 DEF Placement, LoopAgrees
<1>6. TypeOK'
  <2>1. batch' \in [Batchers -> Seq(Requests)]
    BY <1>2, <1>3 DEF TypeOK
  <2>2. \A c \in Batchers : Len(batch'[c]) <= BatchSize
    BY <1>2, <1>3, IngestAssumption DEF TypeOK, IngestAssumption
  <2>3. loop' \in [Batchers -> {"select", "flush", "answer"}]
    BY <1>3 DEF TypeOK
  <2>4. QED BY <1>2, <1>3, <2>1, <2>2, <2>3 DEF TypeOK
<1>7. CallerAgrees'
  BY <1>2, <1>3, <1>5 DEF TypeOK, CallerAgrees
<1>8. Placement'
  <2>1. \A c \in Batchers : IsInjective(queue'[c]) /\ IsInjective(batch'[c])
    BY <1>2, <1>3 DEF TypeOK, Placement
  <2>2. \A c \in Batchers : h \notin InBatch(c)' \cup InQueue(c)'
    BY <1>2, <1>4, <1>5 DEF Placement
  <2>3. \A c \in Batchers : \A r \in InBatch(c)' \cup InQueue(c)' : result'[r] = "empty"
    <3>1. ASSUME NEW c \in Batchers, NEW r \in InBatch(c)' \cup InQueue(c)'
          PROVE  result'[r] = "empty"
      <4>1. r \in InBatch(c) \cup InQueue(c) /\ r # h
        BY <1>4, <2>2
      <4>2. r \in Requests /\ result[r] = "empty"
        BY <4>1, PlacesHoldRequests DEF Placement
      <4>3. QED BY <1>3, <4>1, <4>2 DEF TypeOK
    <3>2. QED BY <3>1
  <2>4. QED BY <1>3, <1>4, <2>1, <2>3 DEF Placement
<1>9. Waiting'
  <2>1. result'[h] # "empty"
    BY <1>2, <1>3 DEF TypeOK
  <2>2. \A r \in Requests : r # h => result'[r] = result[r]
    BY <1>3 DEF TypeOK
  <2>3. QED BY <1>3, <1>4, <2>1, <2>2 DEF Waiting
<1>10. LoopAgrees'
  <2>1. ASSUME NEW c \in Batchers
        PROVE  /\ loop'[c] \in {"flush", "answer"} => batch'[c] # <<>>
               /\ loop'[c] = "select" => Len(batch'[c]) < BatchSize
    <3>1. CASE c = b /\ Len(batch[b]) = 1
      BY <1>2, <1>3, <3>1, IngestAssumption DEF TypeOK, IngestAssumption
    <3>2. CASE c = b /\ Len(batch[b]) # 1
      <4>1. Len(Tail(batch[b])) # 0
        BY <1>2, <3>2
      <4>2. Tail(batch[b]) # <<>>
        BY <4>1, EmptyLemma
      <4>3. loop'[c] = "answer" /\ batch'[c] = Tail(batch[b])
        BY <1>3, <3>2 DEF TypeOK
      <4>4. QED BY <4>2, <4>3
    <3>3. CASE c # b
      BY <1>3, <3>3 DEF TypeOK, LoopAgrees
    <3>4. QED BY <3>1, <3>2, <3>3
  <2>2. \A c \in Batchers : \A r \in InQueue(c)' : fate'[r] = "open"
    BY <1>3, <1>4 DEF LoopAgrees
  <2>3. ASSUME NEW c \in Batchers, NEW r \in InBatch(c)'
        PROVE  fate'[r] = IF loop'[c] # "answer" THEN "open"
                          ELSE IF outcome'[c] = "ok" THEN "stored" ELSE "refused"
    <3>1. CASE c = b
      <4>1. batch'[b] # <<>>
        BY <3>1, <2>3, EmptyLemma DEF InBatch
      <4>2. Len(batch[b]) # 1
        <5>1. Tail(batch[b]) # <<>>
          BY <1>3, <4>1 DEF TypeOK
        <5>2. Len(Tail(batch[b])) # 0
          BY <1>2, <5>1, EmptySeq
        <5>3. QED BY <1>2, <5>2
      <4>3. loop'[b] = "answer"
        BY <1>3, <4>2 DEF TypeOK
      <4>4. QED BY <1>3, <1>4, <3>1, <4>3 DEF LoopAgrees
    <3>2. CASE c # b
      BY <1>3, <1>4, <3>2 DEF TypeOK, LoopAgrees
    <3>3. QED BY <3>1, <3>2
  <2>4. QED BY <2>1, <2>2, <2>3 DEF LoopAgrees
<1>11. StoreAgrees'
  BY <1>3 DEF StoreAgrees, OneRowPerEvent, Stored, OrgPresent
<1>12. QED BY <1>6, <1>7, <1>8, <1>9, <1>10, <1>11

\* What the placement of requests becomes when the batch b is decided: only
\* the fate of its items changes, from open to the outcome of the flush.
LEMMA SettleInv ==
  ASSUME IInv, NEW b \in Batchers, loop[b] = "flush",
         NEW o \in {"ok", "failed"}, NEW f \in {"stored", "refused"},
         f = (IF o = "ok" THEN "stored" ELSE "refused"),
         Settle(b, f), outcome' = [outcome EXCEPT ![b] = o],
         loop' = [loop EXCEPT ![b] = "answer"],
         store' \subseteq Row, lastSeq' \in Nat,
         UNCHANGED <<batching, org, callerVars, queue, batch, result, ticket, tickets>>
  PROVE  /\ TypeOK' /\ CallerAgrees' /\ Placement' /\ Waiting' /\ LoopAgrees'
         /\ \A r \in InBatch(b) : r \in Requests /\ fate[r] = "open" /\ fate'[r] = f
         /\ \A r \in Requests \ InBatch(b) : fate'[r] = fate[r]
<1> USE DEF IInv, callerVars
<1>1. \A c \in Batchers : InBatch(c)' = InBatch(c) /\ InQueue(c)' = InQueue(c)
  BY SamePlaces
<1>2. \A r \in InBatch(b) : r \in Requests /\ fate[r] = "open" /\ result[r] = "empty"
  BY PlacesHoldRequests DEF LoopAgrees, Placement
<1>3. fate' = [r \in Requests |-> IF r \in InBatch(b) THEN f ELSE fate[r]]
  BY DEF Settle, InBatch
<1>4. TypeOK'
  BY <1>3 DEF TypeOK
<1>5. \A r \in InBatch(b) : pc[r] \in {"awaiting", "replied"} /\ fate'[r] = f
  BY <1>2, <1>3 DEF Placement
<1>6. CallerAgrees'
  <2>1. \A r \in InBatch(b) : told[r] \notin {"accepted", "rejected", "busy", "failed"}
    BY <1>2 DEF CallerAgrees
  <2>2. QED BY <1>2, <1>3, <1>5, <2>1 DEF CallerAgrees
<1>7. Placement'
  BY <1>1 DEF Placement
<1>8. Waiting'
  BY <1>1 DEF Waiting
<1>9. LoopAgrees'
  <2>1. ASSUME NEW c \in Batchers
        PROVE  /\ loop'[c] \in {"flush", "answer"} => batch'[c] # <<>>
               /\ loop'[c] = "select" => Len(batch'[c]) < BatchSize
    BY DEF TypeOK, LoopAgrees
  <2>2. ASSUME NEW c \in Batchers, NEW r \in InQueue(c) PROVE fate'[r] = "open"
    <3>1. r \in Requests /\ r \notin InBatch(b)
      BY <2>2, PlacesHoldRequests DEF Placement
    <3>2. QED BY <1>3, <2>2, <3>1 DEF LoopAgrees
  <2>3. ASSUME NEW c \in Batchers, NEW r \in InBatch(c)
        PROVE  fate'[r] = IF loop'[c] # "answer" THEN "open"
                          ELSE IF outcome'[c] = "ok" THEN "stored" ELSE "refused"
    <3>1. CASE c = b
      BY <1>5, <2>3, <3>1 DEF TypeOK
    <3>2. CASE c # b
      <4>1. r \in Requests /\ r \notin InBatch(b)
        BY <2>3, <3>2, PlacesHoldRequests DEF Placement
      <4>2. QED BY <1>3, <2>3, <3>2, <4>1 DEF TypeOK, LoopAgrees
    <3>3. QED BY <3>1, <3>2
  <2>4. QED BY <1>1, <2>1, <2>2, <2>3 DEF LoopAgrees
<1>10. QED BY <1>2, <1>3, <1>4, <1>5, <1>6, <1>7, <1>8, <1>9

\* A failed transaction refuses the whole batch and leaves no row.
LEMMA FlushFailInv ==
  ASSUME IInv, NEW b \in Batchers, FlushFail(b)
  PROVE  IInv'
<1>1. /\ TypeOK' /\ CallerAgrees' /\ Placement' /\ Waiting' /\ LoopAgrees'
      /\ \A r \in InBatch(b) : r \in Requests /\ fate[r] = "open" /\ fate'[r] = "refused"
      /\ \A r \in Requests \ InBatch(b) : fate'[r] = fate[r]
  <2>1. store' \subseteq Row /\ lastSeq' \in Nat
    BY DEF IInv, TypeOK, FlushFail, dbVars
  <2>2. QED BY <2>1, SettleInv DEF FlushFail, dbVars
<1>2. \A r \in Requests : fate'[r] = "stored" <=> fate[r] = "stored"
  BY <1>1
<1>3. \A row \in store : row.by \in Requests
  BY DEF IInv, TypeOK, Row
<1>4. StoreAgrees'
  BY <1>2, <1>3
  DEF IInv, StoreAgrees, OneRowPerEvent, Stored, OrgPresent, FlushFail, dbVars
<1>5. QED BY <1>1, <1>4 DEF IInv

\* The rows of a batch: one for each event of it that was not stored before.
LEMMA NewRowsLemma ==
  ASSUME IInv, NEW b \in Batchers
  PROVE  /\ NewRows(b) \subseteq Row
         /\ \A row \in NewRows(b) :
              /\ row.by \in InBatch(b) /\ row.event = EventOf[row.by]
              /\ lastSeq < row.seq /\ row.seq <= lastSeq + Len(batch[b])
              /\ ~Stored(row.event)
         /\ \A x, y \in NewRows(b) : x.event = y.event \/ x.seq = y.seq => x = y
         /\ \A r \in InBatch(b) :
              Stored(EventOf[r]) \/ \E row \in NewRows(b) : row.event = EventOf[r]
<1> DEFINE B == batch[b]
<1> USE DEF IInv
<1>1. /\ B \in Seq(Requests) /\ Len(B) \in Nat /\ DOMAIN B = 1..Len(B)
      /\ \A i \in 1..Len(B) : B[i] \in Requests
      /\ lastSeq \in Nat
  BY DEF TypeOK
<1>2. \A r \in Requests : EventOf[r] \in Event
  BY IngestAssumption DEF IngestAssumption
<1>3. ASSUME NEW row \in NewRows(b)
      PROVE  \E i \in 1..Len(B) :
               /\ i \in Fresh(b)
               /\ row = [seq |-> lastSeq + i, event |-> EventOf[B[i]], by |-> B[i]]
  BY <1>1, <1>3 DEF NewRows, Fresh
<1>4. NewRows(b) \subseteq Row
  BY <1>1, <1>2, <1>3 DEF Row
<1>5. ASSUME NEW row \in NewRows(b)
      PROVE  /\ row.by \in InBatch(b) /\ row.event = EventOf[row.by]
             /\ lastSeq < row.seq /\ row.seq <= lastSeq + Len(batch[b])
             /\ ~Stored(row.event)
  BY <1>1, <1>3, <1>5 DEF InBatch, Range, Fresh
<1>6. ASSUME NEW x \in NewRows(b), NEW y \in NewRows(b), x.event = y.event \/ x.seq = y.seq
      PROVE  x = y
  <2>1. PICK i \in 1..Len(B) :
          /\ i \in Fresh(b)
          /\ x = [seq |-> lastSeq + i, event |-> EventOf[B[i]], by |-> B[i]]
    BY <1>3
  <2>2. PICK j \in 1..Len(B) :
          /\ j \in Fresh(b)
          /\ y = [seq |-> lastSeq + j, event |-> EventOf[B[j]], by |-> B[j]]
    BY <1>3
  <2>3. CASE x.seq = y.seq
    <3>1. lastSeq + i = lastSeq + j
      BY <2>1, <2>2, <2>3
    <3>2. i = j
      BY <1>1, <3>1
    <3>3. B[i] = B[j] /\ EventOf[B[i]] = EventOf[B[j]] /\ lastSeq + i = lastSeq + j
      BY <3>2
    <3>4. QED BY <2>1, <2>2, <3>3
  <2>4. CASE x.event = y.event
    <3>1. EventOf[B[i]] = EventOf[B[j]]
      BY <2>1, <2>2, <2>4
    <3>2. ~(i < j)
      <4>1. \A k \in 1..(j - 1) : EventOf[B[k]] # EventOf[B[j]]
        BY <2>2 DEF Fresh
      <4>2. QED BY <1>1, <3>1, <4>1
    <3>3. ~(j < i)
      <4>1. \A k \in 1..(i - 1) : EventOf[B[k]] # EventOf[B[i]]
        BY <2>1 DEF Fresh
      <4>2. QED BY <1>1, <3>1, <4>1
    <3>4. i = j
      BY <1>1, <3>2, <3>3
    <3>5. QED BY <2>1, <2>2, <3>4
  <2>5. QED BY <1>6, <2>3, <2>4
<1>7. ASSUME NEW r \in InBatch(b), ~Stored(EventOf[r])
      PROVE  \E row \in NewRows(b) : row.event = EventOf[r]
  <2> DEFINE T == {i \in 1..Len(B) : EventOf[B[i]] = EventOf[r]}
  <2>1. T \in SUBSET Nat /\ T # {}
    BY <1>1, <1>7 DEF InBatch, Range
  <2>2. PICK i \in T : \A j \in T : i <= j
    BY <2>1, LeastLemma
  <2>3. i \in 1..Len(B) /\ EventOf[B[i]] = EventOf[r]
    BY <2>2
  <2>4. ASSUME NEW j \in 1..(i - 1) PROVE EventOf[B[j]] # EventOf[r]
    BY <1>1, <2>2, <2>3
  <2>5. i \in Fresh(b)
    BY <1>1, <1>7, <2>3, <2>4 DEF Fresh
  <2> DEFINE row == [seq |-> lastSeq + i, event |-> EventOf[B[i]], by |-> B[i]]
  <2>6. row \in NewRows(b)
    BY <2>5 DEF NewRows
  <2>7. row.event = EventOf[r]
    BY <2>3
  <2>8. QED BY <2>6, <2>7
<1>8. QED BY <1>4, <1>5, <1>6, <1>7

\* A committed batch stores every event of it once.
LEMMA FlushCommitInv ==
  ASSUME IInv, NEW b \in Batchers, FlushCommit(b)
  PROVE  IInv'
<1>1. /\ store' = store \cup NewRows(b) /\ lastSeq' = lastSeq + Len(batch[b])
      /\ org' = org /\ OrgsPresent(b)
  BY DEF FlushCommit
<1>2. /\ lastSeq \in Nat /\ Len(batch[b]) \in Nat /\ store \subseteq Row
      /\ \A row \in store : row.seq \in Nat /\ row.by \in Requests
      /\ \A row \in NewRows(b) : row.seq \in Nat /\ row.by \in Requests
  <2>1. lastSeq \in Nat /\ Len(batch[b]) \in Nat /\ store \subseteq Row
    BY DEF IInv, TypeOK
  <2>2. NewRows(b) \subseteq Row
    BY NewRowsLemma
  <2>3. QED BY <2>1, <2>2 DEF Row
<1>3. /\ TypeOK' /\ CallerAgrees' /\ Placement' /\ Waiting' /\ LoopAgrees'
      /\ \A r \in InBatch(b) : r \in Requests /\ fate[r] = "open" /\ fate'[r] = "stored"
      /\ \A r \in Requests \ InBatch(b) : fate'[r] = fate[r]
  <2>1. store' \subseteq Row /\ lastSeq' \in Nat
    BY <1>1, <1>2, NewRowsLemma
  <2>2. QED BY <2>1, SettleInv DEF FlushCommit
<1>4. StoreAgrees'
  <2>1. ASSUME NEW row \in store'
        PROVE  row.event = EventOf[row.by] /\ fate'[row.by] = "stored" /\ row.seq <= lastSeq'
    <3>1. CASE row \in store
      BY <1>1, <1>2, <1>3, <3>1 DEF IInv, StoreAgrees
    <3>2. CASE row \in NewRows(b)
      BY <1>1, <1>2, <1>3, <3>2, NewRowsLemma
    <3>3. QED BY <1>1, <2>1, <3>1, <3>2
  <2>2. ASSUME NEW x \in store', NEW y \in store', x.event = y.event \/ x.seq = y.seq
        PROVE  x = y
    <3>1. CASE x \in store /\ y \in store
      BY <2>2, <3>1 DEF IInv, StoreAgrees, OneRowPerEvent
    <3>2. CASE x \in NewRows(b) /\ y \in NewRows(b)
      BY <2>2, <3>2, NewRowsLemma
    <3>3. ASSUME NEW u \in store, NEW v \in NewRows(b) PROVE u.event # v.event /\ u.seq # v.seq
      <4>1. u.seq <= lastSeq /\ lastSeq < v.seq /\ ~Stored(v.event)
        BY NewRowsLemma DEF IInv, StoreAgrees
      <4>2. QED BY <1>2, <4>1 DEF Stored
    <3>4. QED BY <1>1, <2>2, <3>1, <3>2, <3>3
  <2>3. ASSUME NEW r \in Requests, fate'[r] = "stored"
        PROVE  Stored(EventOf[r])' \/ ~OrgPresent(r)'
    <3>1. CASE r \in InBatch(b)
      BY <1>1, <3>1, NewRowsLemma DEF Stored
    <3>2. CASE r \notin InBatch(b)
      BY <1>1, <1>3, <2>3, <3>2 DEF IInv, StoreAgrees, Stored, OrgPresent
    <3>3. QED BY <3>1, <3>2
  <2>4. QED BY <2>1, <2>2, <2>3 DEF StoreAgrees, OneRowPerEvent
<1>5. QED BY <1>3, <1>4 DEF IInv

\* A transaction of its own stores the event of one request once.
LEMMA DirectCommitInv ==
  ASSUME IInv, NEW r \in Requests, DirectCommit(r)
  PROVE  IInv'
<1> DEFINE new == [seq |-> lastSeq + 1, event |-> EventOf[r], by |-> r]
<1> USE DEF IInv, loopVars
<1>1. \A c \in Batchers : InBatch(c)' = InBatch(c) /\ InQueue(c)' = InQueue(c)
  BY SamePlaces DEF DirectCommit
<1>2. /\ store' = IF Stored(EventOf[r]) THEN store ELSE store \cup {new}
      /\ lastSeq' = lastSeq + 1 /\ lastSeq \in Nat
      /\ pc[r] = "admitted" /\ fate[r] = "open" /\ org' = org
      /\ fate' = [fate EXCEPT ![r] = "stored"]
      /\ store \subseteq Row
      /\ \A row \in store : row.seq \in Nat /\ row.by \in Requests /\ row.seq <= lastSeq
  BY DEF DirectCommit, TypeOK, CallerAgrees, StoreAgrees, Row
<1>3. new \in Row /\ new.by = r /\ new.event = EventOf[r] /\ new.seq = lastSeq + 1
  BY <1>2, IngestAssumption DEF Row, IngestAssumption
<1> HIDE DEF new
<1>4. TypeOK'
  BY <1>2, <1>3 DEF DirectCommit, TypeOK, PcValues
<1>5. CallerAgrees'
  BY DEF DirectCommit, TypeOK, CallerAgrees
<1>6. Placement'
  BY <1>1, <1>2, NotEnqueued DEF DirectCommit, TypeOK, Placement
<1>7. Waiting'
  BY <1>1 DEF DirectCommit, TypeOK, Waiting
<1>8. LoopAgrees'
  BY <1>1, <1>2, NotEnqueued DEF DirectCommit, TypeOK, LoopAgrees
<1>9. StoreAgrees'
  <2>1. ASSUME NEW row \in store'
        PROVE  row.event = EventOf[row.by] /\ fate'[row.by] = "stored" /\ row.seq <= lastSeq'
    <3>1. CASE row \in store
      BY <1>2, <3>1 DEF TypeOK, StoreAgrees
    <3>2. CASE row = new
      BY <1>2, <1>3, <3>2 DEF TypeOK
    <3>3. QED BY <1>2, <2>1, <3>1, <3>2
  <2>2. ASSUME NEW x \in store', NEW y \in store', x.event = y.event \/ x.seq = y.seq
        PROVE  x = y
    <3>1. CASE x \in store /\ y \in store
      BY <2>2, <3>1 DEF StoreAgrees, OneRowPerEvent
    <3>2. CASE Stored(EventOf[r])
      BY <1>2, <2>2, <3>1, <3>2
    <3>3. ASSUME NEW u \in store, ~Stored(EventOf[r])
          PROVE  u.event # new.event /\ u.seq # new.seq
      <4>1. u.seq <= lastSeq /\ u.seq \in Nat
        BY <1>2
      <4>2. QED BY <1>2, <1>3, <3>3, <4>1 DEF Stored
    <3>4. QED BY <1>2, <2>2, <3>1, <3>2, <3>3
  <2>3. ASSUME NEW q \in Requests, fate'[q] = "stored"
        PROVE  Stored(EventOf[q])' \/ ~OrgPresent(q)'
    <3>1. CASE q = r
      <4>1. CASE Stored(EventOf[r])
        BY <1>2, <3>1, <4>1 DEF Stored
      <4>2. CASE ~Stored(EventOf[r])
        BY <1>2, <1>3, <3>1, <4>2 DEF Stored
      <4>3. QED BY <4>1, <4>2
    <3>2. CASE q # r
      BY <1>2, <2>3, <3>2 DEF TypeOK, StoreAgrees, Stored, OrgPresent
    <3>3. QED BY <3>1, <3>2
  <2>4. QED BY <2>1, <2>2, <2>3 DEF StoreAgrees, OneRowPerEvent
<1>10. QED BY <1>4, <1>5, <1>6, <1>7, <1>8, <1>9

\* A crash empties queues and batches and forgets the goroutines.
LEMMA CrashInv ==
  ASSUME IInv, Crash
  PROVE  IInv'
<1> USE DEF IInv, dbVars, history
<1>1. \A c \in Batchers : InBatch(c)' = {} /\ InQueue(c)' = {}
  BY EmptyLemma DEF Crash, InBatch, InQueue
<1>2. TypeOK'
  <2>1. /\ queue' \in [Batchers -> Seq(Requests)] /\ batch' \in [Batchers -> Seq(Requests)]
        /\ \A b \in Batchers : Len(queue'[b]) = 0 /\ Len(batch'[b]) = 0
    BY EmptyLemma DEF Crash
  <2>2. \A b \in Batchers : Len(queue'[b]) <= QueueCap /\ Len(batch'[b]) <= BatchSize
    BY <2>1, CapIsNat, IngestAssumption DEF IngestAssumption
  <2>3. pc' \in [Requests -> PcValues] /\ told' \in [Requests -> Answers \cup {"nothing"}]
    BY DEF Crash, TypeOK, PcValues, Answers
  <2>4. QED BY <2>1, <2>2, <2>3 DEF Crash, TypeOK
<1>3. CallerAgrees'
  BY DEF Crash, TypeOK, PcValues, CallerAgrees
<1>4. Placement'
  BY <1>1, EmptyLemma DEF Crash, Placement
<1>5. Waiting'
  BY DEF Crash, Waiting
<1>6. LoopAgrees'
  BY <1>1, EmptyLemma, IngestAssumption DEF Crash, LoopAgrees, IngestAssumption
<1>7. StoreAgrees'
  BY DEF Crash, StoreAgrees, OneRowPerEvent, Stored, OrgPresent
<1>8. QED BY <1>2, <1>3, <1>4, <1>5, <1>6, <1>7

\* The events of a deleted organization go with it, and no others.
LEMMA DeleteOrganizationInv ==
  ASSUME IInv, NEW o \in Orgs, DeleteOrganization(o)
  PROVE  IInv'
<1> USE DEF IInv, DeleteOrganization, callerVars, loopVars, history
<1>1. \A c \in Batchers : InBatch(c)' = InBatch(c) /\ InQueue(c)' = InQueue(c)
  BY SamePlaces
<1>2. TypeOK'
  BY DEF TypeOK
<1>3. CallerAgrees'
  BY DEF CallerAgrees
<1>4. Placement'
  BY <1>1 DEF Placement
<1>5. Waiting'
  BY <1>1 DEF Waiting
<1>6. LoopAgrees'
  BY <1>1 DEF LoopAgrees
<1>7. StoreAgrees'
  <2>1. store' \subseteq store
    OBVIOUS
  <2>2. ASSUME NEW r \in Requests, fate[r] = "stored"
        PROVE  Stored(EventOf[r])' \/ ~OrgPresent(r)'
    <3>1. EventOf[r].org \in Orgs
      BY IngestAssumption DEF IngestAssumption, Event
    <3>2. CASE EventOf[r].org = o
      BY <3>1, <3>2 DEF TypeOK, OrgPresent
    <3>3. CASE EventOf[r].org # o
      BY <2>2, <3>1, <3>3 DEF TypeOK, StoreAgrees, Stored, OrgPresent
    <3>4. QED BY <3>2, <3>3
  <2>3. QED BY <2>1, <2>2 DEF StoreAgrees, OneRowPerEvent
<1>8. QED BY <1>2, <1>3, <1>4, <1>5, <1>6, <1>7

\* Every step keeps the invariant.
LEMMA StepInv ==
  ASSUME IInv, [Next]_vars
  PROVE  IInv'
<1>1. ASSUME NEW r \in Requests, CallerNext(r) PROVE IInv'
  <2>1. CASE Admit(r)         BY <2>1, AdmitInv
  <2>2. CASE Reject(r)        BY <2>2, RefuseInv DEF Reject
  <2>3. CASE LookupFail(r)    BY <2>3, RefuseInv DEF LookupFail
  <2>4. CASE Enqueue(r)       BY <2>4, EnqueueInv
  <2>5. CASE Busy(r)          BY <2>5, RefuseInv DEF Busy
  <2>6. CASE DirectCommit(r)  BY <2>6, DirectCommitInv
  <2>7. CASE DirectFail(r)    BY <2>7, RefuseInv DEF DirectFail
  <2>8. CASE Receive(r)       BY <2>8, ReceiveInv
  <2>9. CASE GiveUp(r)        BY <2>9, GiveUpInv
  <2>10. QED BY <1>1, <2>1, <2>2, <2>3, <2>4, <2>5, <2>6, <2>7, <2>8, <2>9 DEF CallerNext
<1>2. ASSUME NEW r \in Requests, Disconnect(r) PROVE IInv'
  <2>1. cancelled' \subseteq Requests /\ org' \in [Orgs -> {"enabled", "disabled", "deleted"}]
    BY <1>2 DEF Disconnect, IInv, TypeOK, dbVars
  <2>2. QED BY <1>2, <2>1, QuietInv DEF Disconnect, dbVars
<1>3. ASSUME NEW b \in Batchers, LoopNext(b) PROVE IInv'
  BY <1>3, TakeInv, TickInv, FlushCommitInv, FlushFailInv, AnswerInv DEF LoopNext
<1>4. ASSUME NEW o \in Orgs, SetOrganizationEnabled(o) PROVE IInv'
  <2>1. /\ org' \in [Orgs -> {"enabled", "disabled", "deleted"}]
        /\ \A p \in Orgs : org'[p] = "deleted" <=> org[p] = "deleted"
        /\ cancelled' \subseteq Requests
    BY <1>4 DEF SetOrganizationEnabled, IInv, TypeOK, callerVars
  <2>2. QED BY <1>4, <2>1, QuietInv DEF SetOrganizationEnabled, callerVars
<1>5. CASE UNCHANGED vars
  <2>1. cancelled' \subseteq Requests /\ org' \in [Orgs -> {"enabled", "disabled", "deleted"}]
    BY <1>5 DEF vars, IInv, TypeOK, dbVars, callerVars
  <2>2. QED BY <1>5, <2>1, QuietInv DEF vars, dbVars, callerVars
<1>6. QED BY <1>1, <1>2, <1>3, <1>4, <1>5, CrashInv, DeleteOrganizationInv DEF Next

\* The strengthened invariant holds of the specification.
THEOREM InductiveInvariant == Spec => []IInv
<1>1. Init => IInv
  BY InitInv
<1>2. IInv /\ [Next]_vars => IInv'
  BY StepInv
<1>3. QED BY <1>1, <1>2, PTL DEF Spec

-----------------------------------------------------------------------------
(* What follows from the invariant.                                        *)

\* Every variable stays within its type; queues and batches keep to their
\* limits, QueueCap and BatchSize.
THEOREM TypeCorrect == Spec => []TypeOK
  BY InductiveInvariant, PTL DEF IInv

\* An event whose sender was told 202 Accepted is in event_store.
THEOREM AcknowledgedEventsAreStored == Spec => []AcknowledgedIsStored
<1>1. IInv => AcknowledgedIsStored
  BY DEF IInv, CallerAgrees, StoreAgrees, AcknowledgedIsStored
<1>2. QED BY <1>1, InductiveInvariant, PTL

\* A refused delivery left no row.
THEOREM RefusalsLeaveNoRow == Spec => []RefusalLeavesNoRow
<1>1. IInv => RefusalLeavesNoRow
  <2>1. ASSUME IInv, NEW row \in store PROVE told[row.by] \notin {"rejected", "busy", "failed"}
    <3>1. row.by \in Requests /\ fate[row.by] = "stored"
      BY <2>1 DEF IInv, TypeOK, Row, StoreAgrees
    <3>2. QED BY <2>1, <3>1 DEF IInv, CallerAgrees
  <2>2. QED BY <2>1 DEF RefusalLeavesNoRow
<1>2. QED BY <1>1, InductiveInvariant, PTL

\* However often an event is delivered, it has one row.
THEOREM EventsAreStoredOnce == Spec => []OneRowPerEvent
<1>1. IInv => OneRowPerEvent
  BY DEF IInv, StoreAgrees
<1>2. QED BY <1>1, InductiveInvariant, PTL

\* What is pending in a batcher is what its batch and its queue hold.
LEMMA PendingLemma ==
  ASSUME IInv, NEW b \in Batchers
  PROVE  Range(Pending(b)) = InBatch(b) \cup InQueue(b) /\ IsInjective(Pending(b))
<1> DEFINE p == batch[b]
           q == queue[b]
           n == Len(p)
           m == Len(q)
<1>1. /\ p \in Seq(Requests) /\ q \in Seq(Requests)
      /\ IsInjective(p) /\ IsInjective(q) /\ Range(p) \cap Range(q) = {}
  BY DEF IInv, TypeOK, Placement, InBatch, InQueue
<1>2. Range(Pending(b)) = Range(p \o q) /\ IsInjective(Pending(b)) = IsInjective(p \o q)
      /\ InBatch(b) = Range(p) /\ InQueue(b) = Range(q)
  BY DEF Pending, InBatch, InQueue
<1> HIDE DEF p, q
<1>3. /\ n \in Nat /\ m \in Nat /\ DOMAIN p = 1..n /\ DOMAIN q = 1..m
      /\ p \o q \in Seq(Requests)
      /\ DOMAIN (p \o q) = 1..(n + m)
      /\ \A i \in 1..n : (p \o q)[i] = p[i]
      /\ \A i \in 1..m : (p \o q)[n + i] = q[i]
      /\ \A i \in (n + 1)..(n + m) : (p \o q)[i] = q[i - n] /\ i - n \in 1..m
  BY <1>1
<1> DEFINE s == p \o q
<1> HIDE DEF s, n, m
<1>4. Range(s) = Range(p) \cup Range(q)
  <2>1. ASSUME NEW x \in Range(s) PROVE x \in Range(p) \cup Range(q)
    <3>1. PICK i \in 1..(n + m) : x = s[i]
      BY <1>3, <2>1 DEF Range, s
    <3>2. CASE i <= n
      BY <1>3, <3>1, <3>2 DEF Range, s
    <3>3. CASE i > n
      BY <1>3, <3>1, <3>3 DEF Range, s
    <3>4. QED BY <1>3, <3>1, <3>2, <3>3
  <2>2. ASSUME NEW x \in Range(p) PROVE x \in Range(s)
    BY <1>3, <2>2 DEF Range, s
  <2>3. ASSUME NEW x \in Range(q) PROVE x \in Range(s)
    <3>1. PICK i \in 1..m : x = q[i]
      BY <1>3, <2>3 DEF Range
    <3>2. n + i \in DOMAIN s /\ s[n + i] = x
      BY <1>3, <3>1 DEF s
    <3>3. QED BY <3>2 DEF Range
  <2>4. QED BY <2>1, <2>2, <2>3
<1>5. IsInjective(s)
  <2>1. ASSUME NEW i \in 1..(n + m), NEW j \in 1..(n + m), s[i] = s[j], i < j PROVE FALSE
    <3>1. CASE j <= n
      BY <1>1, <1>3, <2>1, <3>1 DEF IsInjective, s
    <3>2. CASE i > n
      <4>1. q[i - n] = q[j - n] /\ i - n \in 1..m /\ j - n \in 1..m
        BY <1>3, <2>1, <3>2 DEF s
      <4>2. i - n = j - n
        BY <1>1, <1>3, <4>1 DEF IsInjective
      <4>3. QED BY <1>3, <2>1, <4>2
    <3>3. CASE i <= n /\ j > n
      <4>1. p[i] = q[j - n] /\ i \in 1..n /\ j - n \in 1..m
        BY <1>3, <2>1, <3>3 DEF s
      <4>2. QED BY <1>1, <1>3, <4>1 DEF Range
    <3>4. QED BY <1>3, <2>1, <3>1, <3>2, <3>3
  <2>2. ASSUME NEW i \in 1..(n + m), NEW j \in 1..(n + m), s[i] = s[j] PROVE i = j
    BY <1>3, <2>1, <2>2
  <2>3. QED BY <1>3, <2>2 DEF IsInjective, s
<1>6. QED BY <1>2, <1>4, <1>5 DEF s

\* No waiting request is dropped between queue, batch and reply.
THEOREM NoRequestIsStranded == Spec => []NoneStranded
<1>1. IInv => NoneStranded
  <2>1. ASSUME IInv, NEW r \in Requests, pc[r] = "awaiting"
        PROVE  ~((result[r] # "empty") <=> (r \in Range(Pending(EndpointOf[r]))))
    <3>1. EndpointOf[r] \in Batchers
      BY IngestAssumption DEF IngestAssumption
    <3>2. Range(Pending(EndpointOf[r])) = InBatch(EndpointOf[r]) \cup InQueue(EndpointOf[r])
      BY <2>1, <3>1, PendingLemma
    <3>3. QED BY <2>1, <3>1, <3>2 DEF IInv, Waiting, Placement
  <2>2. QED BY <2>1 DEF NoneStranded
<1>2. QED BY <1>1, InductiveInvariant, PTL

\* The run loop never blocks on a reply channel.
THEOREM RepliesNeverBlock == Spec => []ReplyNeverBlocks
<1>1. IInv => ReplyNeverBlocks
  BY PendingLemma DEF IInv, Placement, ReplyNeverBlocks
<1>2. QED BY <1>1, InductiveInvariant, PTL

\* A transaction writes the events of one whole batch, or no row.
THEOREM BatchesAreAtomic == Spec => BatchIsAtomic
<1>1. ASSUME IInv, [Next]_vars, batching, ~(store' \subseteq store)
      PROVE  \E b \in Batchers :
               /\ \A row \in store' \ store : row.by \in Range(batch[b])
               /\ \A r \in Range(batch[b]) : \E row \in store' : row.event = EventOf[r]
  <2>1. PICK b \in Batchers : FlushCommit(b)
    <3>1. ASSUME NEW r \in Requests, CallerNext(r) \/ Disconnect(r) PROVE store' = store
      BY <1>1, <3>1
      DEF CallerNext, Admit, Reject, LookupFail, Enqueue, Busy, DirectCommit, DirectFail,
          Receive, GiveUp, Disconnect, dbVars
    <3>2. ASSUME NEW b \in Batchers, LoopNext(b), ~FlushCommit(b) PROVE store' = store
      BY <3>2 DEF LoopNext, Take, Tick, FlushFail, Answer, dbVars
    <3>3. Crash => store' = store
      BY DEF Crash, dbVars
    <3>4. ASSUME NEW o \in Orgs, SetOrganizationEnabled(o) \/ DeleteOrganization(o)
          PROVE  store' \subseteq store
      BY <3>4 DEF SetOrganizationEnabled, DeleteOrganization
    <3>5. UNCHANGED vars => store' = store
      BY DEF vars, dbVars
    <3>6. QED BY <1>1, <3>1, <3>2, <3>3, <3>4, <3>5 DEF Next
  <2>2. store' = store \cup NewRows(b)
    BY <2>1 DEF FlushCommit
  <2>3. QED BY <1>1, <2>2, NewRowsLemma DEF InBatch, Stored
<1>2. IInv /\ [Next]_vars =>
        [batching /\ ~(store' \subseteq store) =>
           \E b \in Batchers :
             /\ \A row \in store' \ store : row.by \in Range(batch[b])
             /\ \A r \in Range(batch[b]) : \E row \in store' : row.event = EventOf[r]]_vars
  BY <1>1
<1>3. QED BY <1>2, InductiveInvariant, PTL DEF Spec, BatchIsAtomic

-----------------------------------------------------------------------------
(* Sequence numbers follow the order of arrival.                           *)

\* The requests of s entered the queue in this order.
Ordered(s) == \A i, j \in DOMAIN s : i < j => ticket[s[i]] < ticket[s[j]]

\* What is still to be written by b entered its queue after whatever its
\* endpoint has in the store, the batch before the queue.
ArrivalAgrees ==
  /\ \A r \in Requests : ticket[r] <= tickets
  /\ ~batching => \A b \in Batchers : InBatch(b) = {} /\ InQueue(b) = {}
  /\ \A b \in Batchers :
       /\ Ordered(batch[b]) /\ Ordered(queue[b])
       /\ \A r \in InBatch(b), q \in InQueue(b) : ticket[r] < ticket[q]
       /\ \A row \in store : \A r \in InBatch(b) \cup InQueue(b) :
            EndpointOf[row.by] = b /\ fate[r] = "open" => ticket[row.by] < ticket[r]

SeqInv == IInv /\ ArrivalAgrees /\ SeqFollowsArrival

LEMMA RowsHaveRequests ==
  ASSUME IInv
  PROVE  \A row \in store : /\ row.by \in Requests /\ fate[row.by] = "stored"
                            /\ row.seq \in Nat /\ row.seq <= lastSeq
BY DEF IInv, TypeOK, StoreAgrees, Row

\* A step that moves no request between queue, batch and store, and gives out no
\* ticket.
LEMMA ArrivalStays ==
  ASSUME SeqInv, UNCHANGED <<queue, batch, ticket, tickets, batching>>, store' \subseteq store,
         \A b \in Batchers : \A r \in InBatch(b) \cup InQueue(b) :
           fate'[r] = "open" => fate[r] = "open"
  PROVE  ArrivalAgrees' /\ SeqFollowsArrival'
<1>1. \A b \in Batchers : /\ InBatch(b)' = InBatch(b) /\ InQueue(b)' = InQueue(b)
                          /\ Ordered(batch[b])' = Ordered(batch[b])
                          /\ Ordered(queue[b])' = Ordered(queue[b])
  BY DEF InBatch, InQueue, Ordered
<1>2. ArrivalAgrees'
  BY <1>1 DEF SeqInv, ArrivalAgrees
<1> QED BY <1>2 DEF SeqInv, SeqFollowsArrival

\* A new ticket is the highest; r, which takes it, stands nowhere and has no row.
LEMMA NewTicket ==
  ASSUME SeqInv, NEW r \in Requests, pc[r] = "admitted",
         tickets' = tickets + 1, ticket' = [ticket EXCEPT ![r] = tickets + 1]
  PROVE  /\ \A q \in Requests : ticket'[q] <= tickets'
         /\ \A q \in Requests \ {r} : ticket'[q] = ticket[q] /\ ticket'[q] < ticket'[r]
         /\ ticket'[r] = tickets'
         /\ \A row \in store : row.by \in Requests \ {r}
         /\ \A b \in Batchers : InBatch(b) \cup InQueue(b) \subseteq Requests \ {r}
         /\ \A b \in Batchers : \A i \in DOMAIN batch[b] : batch[b][i] \in InBatch(b)
         /\ \A b \in Batchers : \A i \in DOMAIN queue[b] : queue[b][i] \in InQueue(b)
<1>1. ticket \in [Requests -> Nat] /\ tickets \in Nat /\ \A q \in Requests : ticket[q] <= tickets
  BY DEF SeqInv, IInv, TypeOK, ArrivalAgrees
<1>2. \A q \in Requests : ticket'[q] = IF q = r THEN tickets + 1 ELSE ticket[q]
  BY <1>1
<1>3. fate[r] = "open"
  BY DEF SeqInv, IInv, CallerAgrees
<1>4. \A row \in store : row.by \in Requests \ {r}
  BY <1>3, RowsHaveRequests DEF SeqInv
<1>5. \A b \in Batchers : InBatch(b) \cup InQueue(b) \subseteq Requests \ {r}
  BY NotEnqueued, PlacesHoldRequests DEF SeqInv, IInv
<1>6. \A b \in Batchers : /\ \A i \in DOMAIN batch[b] : batch[b][i] \in InBatch(b)
                          /\ \A i \in DOMAIN queue[b] : queue[b][i] \in InQueue(b)
  BY DEF InBatch, InQueue, Range
<1> QED BY <1>1, <1>2, <1>4, <1>5, <1>6

LEMMA EnqueueArrives ==
  ASSUME SeqInv, NEW r \in Requests, Enqueue(r)
  PROVE  ArrivalAgrees' /\ SeqFollowsArrival'
<1> DEFINE b == EndpointOf[r]
           q == queue[b]
<1>1. /\ b \in Batchers /\ q \in Seq(Requests) /\ r \notin Range(q) /\ IsInjective(q)
      /\ batching /\ pc[r] = "admitted"
      /\ queue' = [queue EXCEPT ![b] = Append(q, r)]
      /\ tickets' = tickets + 1 /\ ticket' = [ticket EXCEPT ![r] = tickets + 1]
      /\ UNCHANGED <<batching, batch, store, fate>>
  BY NotEnqueued, IngestAssumption
     DEF IngestAssumption, Enqueue, SeqInv, IInv, TypeOK, Placement, InQueue, dbVars, loopVars
<1>2. /\ \A p \in Requests : ticket'[p] <= tickets'
      /\ \A p \in Requests \ {r} : ticket'[p] = ticket[p] /\ ticket'[p] < ticket'[r]
      /\ \A row \in store : row.by \in Requests \ {r}
      /\ \A c \in Batchers : InBatch(c) \cup InQueue(c) \subseteq Requests \ {r}
      /\ \A c \in Batchers : \A i \in DOMAIN batch[c] : batch[c][i] \in InBatch(c)
      /\ \A c \in Batchers : \A i \in DOMAIN queue[c] : queue[c][i] \in InQueue(c)
  BY <1>1, NewTicket
<1>3. Range(Append(q, r)) = Range(q) \cup {r}
  BY <1>1, AppendLemma
<1> HIDE DEF b, q
<1>4. /\ \A c \in Batchers : InBatch(c)' = InBatch(c)
      /\ \A c \in Batchers \ {b} : InQueue(c)' = InQueue(c) /\ queue'[c] = queue[c]
      /\ queue'[b] = Append(q, r) /\ InQueue(b)' = InQueue(b) \cup {r}
  BY <1>1, <1>3 DEF SeqInv, IInv, TypeOK, InBatch, InQueue, q
<1>5. \A c \in Batchers : Ordered(batch[c])'
  BY <1>1, <1>2 DEF SeqInv, ArrivalAgrees, Ordered
<1>6. \A c \in Batchers \ {b} : Ordered(queue[c])'
  BY <1>2, <1>4 DEF SeqInv, ArrivalAgrees, Ordered
<1>7. Ordered(queue[b])'
  <2>1. /\ Len(q) \in Nat /\ DOMAIN q = 1 .. Len(q) /\ DOMAIN Append(q, r) = 1 .. Len(q) + 1
        /\ \A i \in 1 .. Len(q) : Append(q, r)[i] = q[i] /\ q[i] \in Requests \ {r}
        /\ Append(q, r)[Len(q) + 1] = r
    BY <1>1, <1>2 DEF q
  <2>2. Ordered(q)
    BY <1>1 DEF SeqInv, ArrivalAgrees, q
  <2> SUFFICES ASSUME NEW i \in 1 .. Len(q) + 1, NEW j \in 1 .. Len(q) + 1, i < j
               PROVE  ticket'[Append(q, r)[i]] < ticket'[Append(q, r)[j]]
    BY <1>4, <2>1 DEF Ordered
  <2>3. i \in 1 .. Len(q)
    BY <2>1
  <2>4. CASE j = Len(q) + 1
    BY <1>2, <2>1, <2>3, <2>4
  <2>5. CASE j # Len(q) + 1
    <3>1. j \in 1 .. Len(q)
      BY <2>1, <2>5
    <3> QED BY <1>2, <2>1, <2>2, <2>3, <3>1 DEF Ordered
  <2> QED BY <2>4, <2>5
<1>8. ArrivalAgrees'
  BY <1>1, <1>2, <1>4, <1>5, <1>6, <1>7 DEF SeqInv, ArrivalAgrees
<1>9. SeqFollowsArrival'
  BY <1>1, <1>2 DEF SeqInv, SeqFollowsArrival
<1> QED BY <1>8, <1>9

LEMMA DirectArrives ==
  ASSUME SeqInv, NEW r \in Requests, DirectCommit(r)
  PROVE  ArrivalAgrees' /\ SeqFollowsArrival'
<1> DEFINE new == [seq |-> lastSeq + 1, event |-> EventOf[r], by |-> r]
<1>1. /\ pc[r] = "admitted" /\ ~batching
      /\ store' = store \/ store' = store \cup {new}
      /\ tickets' = tickets + 1 /\ ticket' = [ticket EXCEPT ![r] = tickets + 1]
      /\ UNCHANGED <<batching, batch, queue>>
  BY DEF DirectCommit, loopVars
<1>2. /\ \A p \in Requests : ticket'[p] <= tickets'
      /\ \A p \in Requests \ {r} : ticket'[p] = ticket[p] /\ ticket'[p] < ticket'[r]
      /\ ticket'[r] = tickets'
      /\ \A row \in store : row.by \in Requests \ {r}
      /\ \A c \in Batchers : \A i \in DOMAIN batch[c] : batch[c][i] \in InBatch(c)
      /\ \A c \in Batchers : \A i \in DOMAIN queue[c] : queue[c][i] \in InQueue(c)
  BY <1>1, NewTicket
<1>3. \A b \in Batchers : InBatch(b) = {} /\ InQueue(b) = {}
  BY <1>1 DEF SeqInv, ArrivalAgrees
<1>4. \A b \in Batchers : InBatch(b)' = {} /\ InQueue(b)' = {}
  BY <1>1, <1>3, SamePlaces
<1>5. \A b \in Batchers : Ordered(batch[b])' /\ Ordered(queue[b])'
  BY <1>1, <1>2, <1>3 DEF Ordered
<1>6. ArrivalAgrees'
  BY <1>1, <1>2, <1>4, <1>5 DEF ArrivalAgrees
<1>7. new.by = r /\ new.seq = lastSeq + 1
  OBVIOUS
<1>8. lastSeq \in Nat /\ ticket' \in [Requests -> Nat] /\ tickets \in Nat
      /\ \A row \in store : row.seq \in Nat /\ row.seq <= lastSeq
  BY <1>1, RowsHaveRequests DEF SeqInv, IInv, TypeOK
<1> HIDE DEF new
<1>9. SeqFollowsArrival'
  <2> SUFFICES ASSUME NEW x \in store', NEW y \in store', EndpointOf[x.by] = EndpointOf[y.by],
                      ticket'[x.by] < ticket'[y.by]
               PROVE  x.seq < y.seq
    BY DEF SeqFollowsArrival
  <2>1. CASE x \in store /\ y \in store
    <3>1. ticket[x.by] < ticket[y.by]
      BY <1>2, <2>1
    <3> QED BY <2>1, <3>1 DEF SeqInv, SeqFollowsArrival
  <2>2. CASE x \in store /\ y = new
    BY <1>7, <1>8, <2>2
  <2>3. CASE x = new
    <3>1. y.by \in Requests
      BY <1>1, <1>2, <1>7
    <3> QED BY <1>1, <1>2, <1>7, <1>8, <2>3, <3>1
  <2> QED BY <1>1, <2>1, <2>2, <2>3
<1> QED BY <1>6, <1>9

LEMMA TakeArrives ==
  ASSUME SeqInv, NEW b \in Batchers, Take(b)
  PROVE  ArrivalAgrees' /\ SeqFollowsArrival'
<1> DEFINE q == queue[b]
           p == batch[b]
           h == Head(q)
<1>1. /\ q \in Seq(Requests) /\ p \in Seq(Requests) /\ q # <<>> /\ IsInjective(q) /\ IsInjective(p)
      /\ queue' = [queue EXCEPT ![b] = Tail(q)] /\ batch' = [batch EXCEPT ![b] = Append(p, h)]
      /\ queue \in [Batchers -> Seq(Requests)] /\ batch \in [Batchers -> Seq(Requests)]
      /\ UNCHANGED <<batching, store, fate, ticket, tickets>>
      /\ Range(p) \cap Range(q) = {}
  BY DEF Take, SeqInv, IInv, TypeOK, Placement, InBatch, InQueue, dbVars, history
<1>2. h \in Range(q) /\ h \notin Range(p) /\ Range(Tail(q)) = Range(q) \ {h} /\ h \in Requests
  BY <1>1, TailLemma
<1>3. Range(Append(p, h)) = Range(p) \cup {h}
  BY <1>1, <1>2, AppendLemma
<1>4. /\ \A c \in Batchers \ {b} : /\ InQueue(c)' = InQueue(c) /\ InBatch(c)' = InBatch(c)
                                   /\ queue'[c] = queue[c] /\ batch'[c] = batch[c]
      /\ InQueue(b)' = InQueue(b) \ {h} /\ InBatch(b)' = InBatch(b) \cup {h} /\ h \in InQueue(b)
      /\ queue'[b] = Tail(q) /\ batch'[b] = Append(p, h)
  BY <1>1, <1>2, <1>3 DEF InQueue, InBatch
<1>5. /\ Ordered(p) /\ Ordered(q)
      /\ \A x \in Range(p), y \in Range(q) : ticket[x] < ticket[y]
  BY DEF SeqInv, ArrivalAgrees, InBatch, InQueue
<1>6. /\ Len(q) \in Nat /\ Len(p) \in Nat /\ DOMAIN q = 1 .. Len(q) /\ DOMAIN p = 1 .. Len(p)
      /\ q[1] = h /\ DOMAIN Tail(q) = 1 .. Len(q) - 1
      /\ \A i \in 1 .. Len(q) - 1 : Tail(q)[i] = q[i + 1]
      /\ DOMAIN Append(p, h) = 1 .. Len(p) + 1
      /\ \A i \in 1 .. Len(p) : Append(p, h)[i] = p[i]
      /\ Append(p, h)[Len(p) + 1] = h
  BY <1>1
<1> HIDE DEF p, q, h
<1>7. Ordered(Tail(q))
  BY <1>5, <1>6 DEF Ordered
<1>8. Ordered(Append(p, h))
  <2> SUFFICES ASSUME NEW i \in 1 .. Len(p) + 1, NEW j \in 1 .. Len(p) + 1, i < j
               PROVE  ticket[Append(p, h)[i]] < ticket[Append(p, h)[j]]
    BY <1>6 DEF Ordered
  <2>1. i \in 1 .. Len(p) /\ p[i] \in Range(p)
    BY <1>6 DEF Range
  <2>2. CASE j = Len(p) + 1
    BY <1>2, <1>5, <1>6, <2>1, <2>2
  <2>3. CASE j # Len(p) + 1
    <3>1. j \in 1 .. Len(p)
      BY <1>6, <2>3
    <3> QED BY <1>5, <1>6, <2>1, <3>1 DEF Ordered
  <2> QED BY <2>2, <2>3
<1>9. \A y \in Range(q) \ {h} : ticket[h] < ticket[y]
  <2> SUFFICES ASSUME NEW y \in Range(q) \ {h} PROVE ticket[h] < ticket[y]
    OBVIOUS
  <2>1. PICK i \in 1 .. Len(q) : y = q[i]
    BY <1>6 DEF Range
  <2>2. 1 < i /\ 1 \in 1 .. Len(q)
    BY <1>6, <2>1
  <2> QED BY <1>5, <1>6, <2>1, <2>2 DEF Ordered
<1>10. ASSUME NEW c \in Batchers
       PROVE  Ordered(batch[c])' /\ Ordered(queue[c])'
  <2>1. CASE c = b
    BY <1>1, <1>4, <1>7, <1>8, <2>1 DEF Ordered
  <2>2. CASE c # b
    <3>1. Ordered(batch[c]) /\ Ordered(queue[c])
      BY DEF SeqInv, ArrivalAgrees
    <3> QED BY <1>1, <1>4, <2>2, <3>1 DEF Ordered
  <2> QED BY <2>1, <2>2
<1>11. ASSUME NEW c \in Batchers, NEW x \in InBatch(c)', NEW y \in InQueue(c)'
       PROVE  ticket[x] < ticket[y]
  <2>1. CASE c = b /\ x = h
    <3>1. y \in Range(q) \ {h}
      BY <1>4, <2>1 DEF InQueue, q
    <3> QED BY <1>9, <2>1, <3>1
  <2>2. CASE ~ (c = b /\ x = h)
    <3>1. x \in InBatch(c) /\ y \in InQueue(c)
      BY <1>4, <2>2
    <3> QED BY <3>1 DEF SeqInv, ArrivalAgrees
  <2> QED BY <2>1, <2>2
<1>12. \A c \in Batchers : InBatch(c)' \cup InQueue(c)' = InBatch(c) \cup InQueue(c)
  BY <1>4
<1>13. ArrivalAgrees'
  BY <1>1, <1>10, <1>11, <1>12, <1>4 DEF SeqInv, ArrivalAgrees
<1> QED BY <1>1, <1>13 DEF SeqInv, SeqFollowsArrival

LEMMA AnswerArrives ==
  ASSUME SeqInv, NEW b \in Batchers, Answer(b)
  PROVE  ArrivalAgrees' /\ SeqFollowsArrival'
<1> DEFINE p == batch[b]
<1>1. /\ p \in Seq(Requests) /\ p # <<>> /\ IsInjective(p)
      /\ batch' = [batch EXCEPT ![b] = Tail(p)] /\ batch \in [Batchers -> Seq(Requests)]
      /\ UNCHANGED <<batching, store, fate, ticket, tickets, queue>>
  BY DEF Answer, SeqInv, IInv, TypeOK, Placement, LoopAgrees, dbVars, history
<1>2. Range(Tail(p)) \subseteq Range(p)
  BY <1>1, TailLemma
<1>3. /\ \A c \in Batchers \ {b} : InBatch(c)' = InBatch(c) /\ batch'[c] = batch[c]
      /\ \A c \in Batchers : InQueue(c)' = InQueue(c)
      /\ InBatch(b)' \subseteq InBatch(b) /\ batch'[b] = Tail(p)
  BY <1>1, <1>2 DEF InBatch, InQueue
<1>4. Ordered(p)
  BY DEF SeqInv, ArrivalAgrees
<1>5. /\ Len(p) \in Nat /\ DOMAIN p = 1 .. Len(p) /\ DOMAIN Tail(p) = 1 .. Len(p) - 1
      /\ \A i \in 1 .. Len(p) - 1 : Tail(p)[i] = p[i + 1]
  BY <1>1
<1> HIDE DEF p
<1>6. Ordered(Tail(p))
  BY <1>4, <1>5 DEF Ordered
<1>7. \A c \in Batchers : Ordered(batch[c])' /\ Ordered(queue[c])'
  BY <1>1, <1>3, <1>6 DEF SeqInv, ArrivalAgrees, Ordered
<1>8. ArrivalAgrees'
  BY <1>1, <1>3, <1>7 DEF SeqInv, ArrivalAgrees
<1> QED BY <1>1, <1>8 DEF SeqInv, SeqFollowsArrival

\* A committed batch numbers its rows in the order of its requests, above all
\* that were there.
LEMMA CommitArrives ==
  ASSUME SeqInv, NEW b \in Batchers, FlushCommit(b)
  PROVE  ArrivalAgrees' /\ SeqFollowsArrival'
<1> DEFINE B == batch[b]
<1>1. /\ store' = store \cup NewRows(b) /\ loop[b] = "flush"
      /\ UNCHANGED <<batching, queue, batch, ticket, tickets>>
      /\ \A r \in Requests : fate'[r] = IF r \in InBatch(b) THEN "stored" ELSE fate[r]
  BY DEF FlushCommit, Settle, InBatch
<1>2. \A c \in Batchers : /\ InBatch(c)' = InBatch(c) /\ InQueue(c)' = InQueue(c)
                          /\ InBatch(c) \cup InQueue(c) \subseteq Requests
  BY <1>1, SamePlaces, PlacesHoldRequests DEF SeqInv, IInv
<1>3. /\ B \in Seq(Requests) /\ Len(B) \in Nat /\ DOMAIN B = 1 .. Len(B)
      /\ \A i \in 1 .. Len(B) : B[i] \in InBatch(b) /\ B[i] \in Requests
      /\ lastSeq \in Nat /\ ticket \in [Requests -> Nat]
      /\ \A r \in InBatch(b) : EndpointOf[r] = b /\ fate[r] = "open"
  BY <1>1 DEF SeqInv, IInv, TypeOK, InBatch, Range, Placement, LoopAgrees
<1>4. Ordered(B)
  BY DEF SeqInv, ArrivalAgrees
<1>5. ASSUME NEW row \in NewRows(b)
      PROVE  \E i \in 1 .. Len(B) : row.by = B[i] /\ row.seq = lastSeq + i
  BY <1>3 DEF NewRows, Fresh
<1>6. \A row \in store : row.seq \in Nat /\ row.seq <= lastSeq /\ row.by \in Requests
  BY RowsHaveRequests DEF SeqInv
<1>7. \A c \in Batchers : Ordered(batch[c])' /\ Ordered(queue[c])'
  BY <1>1 DEF SeqInv, ArrivalAgrees, Ordered
<1>8. ASSUME NEW c \in Batchers, NEW row \in store', NEW r \in InBatch(c) \cup InQueue(c),
             EndpointOf[row.by] = c, fate'[r] = "open"
      PROVE  ticket[row.by] < ticket[r]
  <2>1. fate[r] = "open" /\ r \notin InBatch(b) /\ r \in Requests
    BY <1>1, <1>2, <1>8
  <2>2. CASE row \in store
    BY <1>8, <2>1, <2>2 DEF SeqInv, ArrivalAgrees
  <2>3. CASE row \in NewRows(b)
    <3>1. row.by \in InBatch(b)
      BY <1>3, <1>5, <2>3
    <3>2. c = b /\ r \in InQueue(b)
      BY <1>3, <1>8, <2>1, <3>1
    <3> QED BY <3>1, <3>2 DEF SeqInv, ArrivalAgrees
  <2> QED BY <1>1, <2>2, <2>3
<1>9. ArrivalAgrees'
  BY <1>1, <1>2, <1>7, <1>8 DEF SeqInv, ArrivalAgrees
<1>10. SeqFollowsArrival'
  <2> SUFFICES ASSUME NEW x \in store', NEW y \in store', EndpointOf[x.by] = EndpointOf[y.by],
                      ticket[x.by] < ticket[y.by]
               PROVE  x.seq < y.seq
    BY <1>1 DEF SeqFollowsArrival
  <2>1. CASE x \in store /\ y \in store
    BY <2>1 DEF SeqInv, SeqFollowsArrival
  <2>2. CASE x \in store /\ y \in NewRows(b)
    BY <1>3, <1>5, <1>6, <2>2
  <2>3. CASE x \in NewRows(b) /\ y \in store
    <3>1. x.by \in InBatch(b) /\ EndpointOf[x.by] = b /\ fate[x.by] = "open" /\ x.by \in Requests
      BY <1>3, <1>5, <2>3
    <3>2. ticket[y.by] < ticket[x.by]
      BY <2>3, <3>1 DEF SeqInv, ArrivalAgrees
    <3> QED BY <1>3, <1>6, <2>3, <3>1, <3>2
  <2>4. CASE x \in NewRows(b) /\ y \in NewRows(b)
    <3>1. PICK i \in 1 .. Len(B) : x.by = B[i] /\ x.seq = lastSeq + i
      BY <1>5, <2>4
    <3>2. PICK j \in 1 .. Len(B) : y.by = B[j] /\ y.seq = lastSeq + j
      BY <1>5, <2>4
    <3>3. ~ (j < i)
      <4>1. j < i => ticket[B[j]] < ticket[B[i]]
        BY <1>3, <1>4 DEF Ordered
      <4> QED BY <1>3, <3>1, <3>2, <4>1
    <3>4. i # j
      BY <1>3, <3>1, <3>2
    <3> QED BY <1>3, <3>1, <3>2, <3>3, <3>4
  <2> QED BY <1>1, <2>1, <2>2, <2>3, <2>4
<1> QED BY <1>9, <1>10

LEMMA SeqInvStep == SeqInv /\ [Next]_vars => SeqInv'
<1> SUFFICES ASSUME SeqInv, [Next]_vars PROVE SeqInv'
  OBVIOUS
<1>1. IInv'
  BY StepInv DEF SeqInv
<1>2. ASSUME NEW r \in Requests, CallerNext(r) \/ Disconnect(r)
      PROVE  ArrivalAgrees' /\ SeqFollowsArrival'
  <2>1. CASE Enqueue(r) \/ DirectCommit(r)
    BY <2>1, EnqueueArrives, DirectArrives
  <2>2. CASE ~Enqueue(r) /\ ~DirectCommit(r)
    <3>1. /\ UNCHANGED <<queue, batch, ticket, tickets, batching, store>>
          /\ fate' = fate \/ fate' = [fate EXCEPT ![r] = "refused"]
      BY <1>2, <2>2
      DEF CallerNext, Admit, Reject, LookupFail, Busy, DirectFail, Receive, GiveUp, Disconnect,
          dbVars, loopVars, history
    <3>2. \A q \in Requests : fate'[q] = "open" => fate[q] = "open"
      BY <3>1 DEF SeqInv, IInv, TypeOK
    <3> QED BY <3>1, <3>2, ArrivalStays, PlacesHoldRequests DEF SeqInv, IInv
  <2> QED BY <2>1, <2>2
<1>3. ASSUME NEW b \in Batchers, LoopNext(b)
      PROVE  ArrivalAgrees' /\ SeqFollowsArrival'
  <2>1. CASE Tick(b) \/ FlushFail(b)
    <3>1. /\ UNCHANGED <<queue, batch, ticket, tickets, batching, store>>
          /\ \A q \in Requests : fate'[q] = "open" => fate[q] = "open"
      BY <2>1 DEF Tick, FlushFail, Settle, dbVars, history
    <3> QED BY <3>1, ArrivalStays, PlacesHoldRequests DEF SeqInv, IInv
  <2> QED BY <1>3, <2>1, TakeArrives, CommitArrives, AnswerArrives DEF LoopNext
<1>4. CASE Crash
  <2>1. /\ \A b \in Batchers : queue'[b] = <<>> /\ batch'[b] = <<>>
        /\ UNCHANGED <<store, ticket, tickets, fate>>
    BY <1>4 DEF Crash, dbVars, history
  <2>2. \A b \in Batchers : /\ InBatch(b)' = {} /\ InQueue(b)' = {}
                            /\ Ordered(batch[b])' /\ Ordered(queue[b])'
    BY <2>1, EmptyLemma DEF InBatch, InQueue, Ordered
  <2>3. ArrivalAgrees'
    BY <2>1, <2>2 DEF SeqInv, ArrivalAgrees
  <2>4. SeqFollowsArrival'
    BY <2>1 DEF SeqInv, SeqFollowsArrival
  <2> QED BY <1>1, <2>3, <2>4 DEF SeqInv
<1>5. ASSUME NEW o \in Orgs, SetOrganizationEnabled(o) \/ DeleteOrganization(o)
      PROVE  ArrivalAgrees' /\ SeqFollowsArrival'
  <2>1. /\ UNCHANGED <<queue, batch, ticket, tickets, batching, fate>> /\ store' \subseteq store
    BY <1>5 DEF SetOrganizationEnabled, DeleteOrganization, loopVars, history
  <2> QED BY <2>1, ArrivalStays
<1>6. CASE UNCHANGED vars
  <2>1. UNCHANGED <<queue, batch, ticket, tickets, batching, fate, store>>
    BY <1>6 DEF vars, dbVars, loopVars, history
  <2>2. /\ UNCHANGED <<queue, batch, ticket, tickets, batching>> /\ store' \subseteq store
        /\ \A r : fate'[r] = "open" => fate[r] = "open"
    BY <2>1
  <2>3. ArrivalAgrees' /\ SeqFollowsArrival'
    BY <2>2, ArrivalStays
  <2> QED BY <1>1, <2>3 DEF SeqInv
<1> QED BY <1>1, <1>2, <1>3, <1>4, <1>5, <1>6 DEF SeqInv, Next

\* The sequence numbers of one endpoint's events follow the order in which its
\* requests entered the queue, through batches, refusals, restarts with another
\* configuration and deletions (ingestion.go, flush).
THEOREM SeqNumbersFollowArrival == Spec => []SeqFollowsArrival
<1>1. Init => SeqInv
  <2> SUFFICES ASSUME Init PROVE SeqInv
    OBVIOUS
  <2>1. \A b \in Batchers : /\ InBatch(b) = {} /\ InQueue(b) = {}
                            /\ Ordered(batch[b]) /\ Ordered(queue[b])
    BY EmptyLemma DEF Init, InBatch, InQueue, Ordered
  <2> QED BY <2>1, InitInv DEF Init, SeqInv, ArrivalAgrees, SeqFollowsArrival
<1>2. SeqInv => SeqFollowsArrival
  BY DEF SeqInv
<1> QED BY <1>1, <1>2, SeqInvStep, PTL DEF Spec

-----------------------------------------------------------------------------
(* IngestBatcher implements DurableIngest: what a sender may rely on does  *)
(* not depend on queues, batches, background loops or crashes.             *)

\* The events of the rows of event_store.
Log == {row.event : row \in store}

\* A step that touches neither fates, answers nor rows is a stutter.
LEMMA Stutter ==
  ASSUME UNCHANGED <<fate, told, store>>
  PROVE  UNCHANGED Durable!vars
  BY DEF Durable!vars

\* The abstract system starts as the detailed one does.
LEMMA InitRefines == Init => Durable!Init
  BY DEF Init, Durable!Init

\* An answer before the store has decided is an abstract refusal.
LEMMA RefusalRefines ==
  ASSUME IInv, NEW r \in Requests, pc[r] \in {"new", "admitted"},
         NEW answer \in {"rejected", "busy", "failed"}, Reply(r, answer),
         fate' = [fate EXCEPT ![r] = "refused"], store' = store
  PROVE  Durable!Next
<1>1. told[r] = "nothing" /\ fate[r] = "open"
  BY DEF IInv, CallerAgrees
<1>2. Durable!Tell(r, answer)
  BY <1>1 DEF Reply, Durable!Tell, Durable!Refusals, Durable!Silences
<1>3. answer \in {"accepted"} \cup Durable!Refusals \cup Durable!Silences
  BY DEF Durable!Refusals
<1>4. QED BY <1>2, <1>3 DEF Durable!Next

\* The reply that r receives is the abstract answer its fate justifies.
LEMMA ReceiveRefines ==
  ASSUME IInv, NEW r \in Requests, Receive(r)
  PROVE  Durable!Next
<1>1. /\ told[r] = "nothing" /\ store' = store /\ fate' = fate
      /\ told' = [told EXCEPT ![r] = IF result[r] = "ok" THEN "accepted" ELSE "failed"]
  BY DEF IInv, CallerAgrees, Receive, Reply, dbVars, history
<1>2. CASE result[r] = "ok"
  <2>1. fate[r] = "stored"
    BY <1>2 DEF IInv, CallerAgrees
  <2>2. Durable!Tell(r, "accepted")
    BY <1>1, <1>2, <2>1 DEF Durable!Tell
  <2>3. QED BY <2>2 DEF Durable!Next
<1>3. CASE result[r] # "ok"
  <2>1. fate[r] = "refused"
    BY <1>3 DEF IInv, TypeOK, CallerAgrees, Receive
  <2>2. fate' = [fate EXCEPT ![r] = "refused"]
    BY <1>1, <2>1 DEF IInv, TypeOK
  <2>3. Durable!Tell(r, "failed")
    BY <1>1, <1>3, <2>1, <2>2 DEF Durable!Tell, Durable!Refusals
  <2>4. QED BY <2>3 DEF Durable!Next, Durable!Refusals
<1>4. QED BY <1>2, <1>3

\* Giving up tells the sender nothing it may rely on.
LEMMA GiveUpRefines ==
  ASSUME IInv, NEW r \in Requests, GiveUp(r)
  PROVE  Durable!Next
<1>1. told[r] = "nothing" /\ store' = store
  BY DEF IInv, CallerAgrees, GiveUp, dbVars
<1>2. Durable!Tell(r, "canceled")
  BY <1>1 DEF GiveUp, Reply, history, Durable!Tell, Durable!Silences
<1>3. QED BY <1>2 DEF Durable!Next, Durable!Silences

\* The commit of a batch stores all its deliveries in one abstract step.
LEMMA FlushCommitRefines ==
  ASSUME IInv, NEW b \in Batchers, FlushCommit(b)
  PROVE  Durable!Next
<1>1. InBatch(b) \subseteq Requests /\ InBatch(b) # {}
  <2>1. batch[b] \in Seq(Requests) /\ batch[b] # <<>>
    BY DEF IInv, TypeOK, LoopAgrees, FlushCommit
  <2>2. Head(batch[b]) \in InBatch(b)
    BY <2>1, TailLemma DEF IInv, Placement, InBatch
  <2>3. QED BY <2>2, PlacesHoldRequests DEF IInv
<1> PICK D : D = InBatch(b)
  OBVIOUS
<1>2. \A d \in D : fate[d] = "open"
  BY DEF IInv, LoopAgrees, FlushCommit
<1>3. /\ fate' = [d \in Requests |-> IF d \in D THEN "stored" ELSE fate[d]]
      /\ told' = told /\ store' = store \cup NewRows(b)
  BY DEF FlushCommit, Settle, callerVars, InBatch
<1>4. Log' = Log \cup {EventOf[d] : d \in D}
  <2>1. ASSUME NEW e \in Log' PROVE e \in Log \cup {EventOf[d] : d \in D}
    <3>1. PICK row \in store' : e = row.event
      BY <2>1 DEF Log
    <3>2. CASE row \in store
      BY <3>1, <3>2 DEF Log
    <3>3. CASE row \in NewRows(b)
      BY <3>1, <3>3, NewRowsLemma
    <3>4. QED BY <1>3, <3>1, <3>2, <3>3
  <2>2. ASSUME NEW e \in Log PROVE e \in Log'
    BY <1>3, <2>2 DEF Log
  <2>3. ASSUME NEW d \in D PROVE EventOf[d] \in Log'
    BY <1>3, NewRowsLemma DEF Stored, Log
  <2>4. QED BY <2>1, <2>2, <2>3
<1>5. Durable!Store(D)
  BY <1>1, <1>2, <1>3, <1>4 DEF Durable!Store, Durable!Decide, Log
<1>6. QED BY <1>1, <1>5 DEF Durable!Next

\* A failed flush refuses all its deliveries in one abstract step.
LEMMA FlushFailRefines ==
  ASSUME IInv, NEW b \in Batchers, FlushFail(b)
  PROVE  Durable!Next
<1>1. InBatch(b) \subseteq Requests /\ InBatch(b) # {}
  <2>1. batch[b] \in Seq(Requests) /\ batch[b] # <<>>
    BY DEF IInv, TypeOK, LoopAgrees, FlushFail
  <2>2. Head(batch[b]) \in InBatch(b)
    BY <2>1, TailLemma DEF IInv, Placement, InBatch
  <2>3. QED BY <2>2, PlacesHoldRequests DEF IInv
<1> PICK D : D = InBatch(b)
  OBVIOUS
<1>2. \A d \in D : fate[d] = "open"
  BY DEF IInv, LoopAgrees, FlushFail
<1>3. /\ fate' = [d \in Requests |-> IF d \in D THEN "refused" ELSE fate[d]]
      /\ told' = told /\ store' = store
  BY DEF FlushFail, Settle, callerVars, dbVars, InBatch
<1>4. Durable!Refuse(D)
  BY <1>1, <1>2, <1>3 DEF Durable!Refuse, Durable!Decide
<1>5. QED BY <1>1, <1>4 DEF Durable!Next

\* A request's own transaction stores that delivery.
LEMMA DirectCommitRefines ==
  ASSUME IInv, NEW r \in Requests, DirectCommit(r)
  PROVE  Durable!Next
<1> DEFINE new == [seq |-> lastSeq + 1, event |-> EventOf[r], by |-> r]
<1>1. fate[r] = "open" /\ told' = told
  BY DEF IInv, CallerAgrees, DirectCommit
<1>2. fate' = [d \in Requests |-> IF d \in {r} THEN "stored" ELSE fate[d]]
  BY DEF IInv, TypeOK, DirectCommit
<1>3. Log' = Log \cup {EventOf[d] : d \in {r}}
  <2>1. CASE Stored(EventOf[r])
    BY <2>1 DEF DirectCommit, Log, Stored
  <2>2. CASE ~Stored(EventOf[r])
    <3>1. store' = store \cup {new}
      BY <2>2 DEF DirectCommit
    <3>2. new.event = EventOf[r]
      OBVIOUS
    <3> HIDE DEF new
    <3>3. QED BY <3>1, <3>2 DEF Log
  <2>3. QED BY <2>1, <2>2
<1>4. Durable!Store({r})
  BY <1>1, <1>2, <1>3 DEF Durable!Store, Durable!Decide, Log
<1>5. QED BY <1>4 DEF Durable!Next

\* A crash leaves every open connection without an answer.
LEMMA CrashRefines ==
  ASSUME IInv, Crash
  PROVE  Durable!Next
<1> DEFINE D == {r \in Requests : pc[r] \in {"admitted", "awaiting", "appended"}}
<1>1. \A d \in D : told[d] = "nothing"
  BY DEF IInv, CallerAgrees
<1>2. Durable!Die(D)
  BY <1>1 DEF Crash, dbVars, history, Durable!Die
<1>3. QED BY <1>2 DEF Durable!Next

\* A deleted organization takes its events with it.
LEMMA DeleteRefines ==
  ASSUME IInv, NEW o \in Orgs, DeleteOrganization(o)
  PROVE  Durable!Next \/ UNCHANGED Durable!vars
<1>1. /\ store' = {row \in store : row.event.org # o} /\ UNCHANGED <<fate, told>>
  BY DEF DeleteOrganization, callerVars, history
<1>2. CASE Keys = {}
  <2>1. store = {}
    BY <1>2 DEF IInv, TypeOK, Row, Event
  <2>2. QED BY <1>1, <2>1, Stutter
<1>3. CASE Keys # {}
  <2>1. PICK k : k \in Keys
    BY <1>3
  <2>2. [org |-> o, key |-> k] \in Event
    BY <2>1 DEF Event
  <2>3. o \in {e.org : e \in Event}
    BY <2>2
  <2>4. Log' = {e \in Log : e.org # o}
    BY <1>1 DEF Log
  <2>5. Durable!Forget(o)
    BY <1>1, <2>4 DEF Durable!Forget, Log
  <2>6. QED BY <2>3, <2>5 DEF Durable!Next
<1>4. QED BY <1>2, <1>3

\* Every step is an abstract step or a stutter.
LEMMA StepRefines ==
  ASSUME IInv, [Next]_vars
  PROVE  [Durable!Next]_(Durable!vars)
<1>1. ASSUME NEW r \in Requests, CallerNext(r) PROVE Durable!Next \/ UNCHANGED Durable!vars
  <2>1. CASE Admit(r)
    BY <2>1, Stutter DEF Admit, dbVars, history
  <2>2. CASE Reject(r)
    BY <2>2, RefusalRefines DEF Reject, dbVars
  <2>3. CASE LookupFail(r)
    BY <2>3, RefusalRefines DEF LookupFail, dbVars
  <2>4. CASE Enqueue(r)
    BY <2>4, Stutter DEF Enqueue, dbVars
  <2>5. CASE Busy(r)
    BY <2>5, RefusalRefines DEF Busy, dbVars
  <2>6. CASE DirectCommit(r)
    BY <2>6, DirectCommitRefines
  <2>7. CASE DirectFail(r)
    BY <2>7, RefusalRefines DEF DirectFail, dbVars
  <2>8. CASE Receive(r)
    BY <2>8, ReceiveRefines
  <2>9. CASE GiveUp(r)
    BY <2>9, GiveUpRefines
  <2>10. QED BY <1>1, <2>1, <2>2, <2>3, <2>4, <2>5, <2>6, <2>7, <2>8, <2>9 DEF CallerNext
<1>2. ASSUME NEW r \in Requests, Disconnect(r) PROVE UNCHANGED Durable!vars
  BY <1>2, Stutter DEF Disconnect, dbVars, history
<1>3. ASSUME NEW b \in Batchers, LoopNext(b) PROVE Durable!Next \/ UNCHANGED Durable!vars
  <2>1. CASE Take(b) \/ Tick(b) \/ Answer(b)
    BY <2>1, Stutter DEF Take, Tick, Answer, dbVars, callerVars, history
  <2>2. CASE FlushCommit(b)
    BY <2>2, FlushCommitRefines
  <2>3. CASE FlushFail(b)
    BY <2>3, FlushFailRefines
  <2>4. QED BY <1>3, <2>1, <2>2, <2>3 DEF LoopNext
<1>4. ASSUME NEW o \in Orgs, SetOrganizationEnabled(o) PROVE UNCHANGED Durable!vars
  BY <1>4, Stutter DEF SetOrganizationEnabled, callerVars, history
<1>5. CASE UNCHANGED vars
  BY <1>5, Stutter DEF vars, dbVars, callerVars, history
<1>6. QED BY <1>1, <1>2, <1>3, <1>4, <1>5, CrashRefines, DeleteRefines DEF Next

\* Ingestion implements the promise made to senders.
THEOREM IngestImplementsDurable == Spec => DurableSpec
<1>1. IInv /\ [Next]_vars => [Durable!Next]_(Durable!vars)
  BY StepRefines
<1>2. QED BY <1>1, InitRefines, InductiveInvariant, PTL DEF Spec, DurableSpec, Durable!Spec
=============================================================================
