--------------------------- MODULE IngestInvariant ---------------------------
(***************************************************************************)
(* The inductive invariant behind the safety properties of IngestBatcher.  *)
(* None of those properties is inductive by itself: that an acknowledged   *)
(* event is stored depends on what lies in reply channels, and that on     *)
(* what the run loop is about to send for each item of its batch.          *)
(***************************************************************************)
EXTENDS IngestBatcher

InBatch(b) == Range(batch[b])
InQueue(b) == Range(queue[b])

\* What the sender was told agrees with where its goroutine is and with what
\* became of the request in the store.
CallerAgrees ==
  \A r \in Requests :
    /\ pc[r] = "replied" <=> told[r] # "nothing"
    /\ pc[r] \in {"new", "admitted"} => fate[r] = "open" /\ result[r] = "empty"
    /\ pc[r] = "appended" => result[r] = "ok"
    /\ told[r] = "accepted" => fate[r] = "stored"
    /\ told[r] \in {"rejected", "busy", "failed"} => fate[r] = "refused"
    /\ result[r] = "ok" => fate[r] = "stored"
    /\ result[r] = "failed" => fate[r] = "refused"

\* A request stands in one place at most, in its own endpoint's batcher, and
\* has no reply yet.
Placement ==
  \A b \in Batchers :
    /\ IsInjective(queue[b])
    /\ IsInjective(batch[b])
    /\ InBatch(b) \cap InQueue(b) = {}
    /\ \A r \in InBatch(b) \cup InQueue(b) :
         /\ EndpointOf[r] = b
         /\ pc[r] \in {"awaiting", "replied"}
         /\ result[r] = "empty"

\* A goroutine that waits without a reply stands in a queue or a batch.
Waiting ==
  \A b \in Batchers : \A r \in Requests :
    EndpointOf[r] = b /\ pc[r] = "awaiting" /\ result[r] = "empty" =>
      r \in InBatch(b) \cup InQueue(b)

\* The run loop has decided the fate of its batch exactly when it answers.
LoopAgrees ==
  \A b \in Batchers :
    /\ loop[b] \in {"flush", "answer"} => batch[b] # <<>>
    /\ loop[b] = "select" => Len(batch[b]) < BatchSize
    /\ \A r \in InQueue(b) : fate[r] = "open"
    /\ \A r \in InBatch(b) :
         fate[r] = IF loop[b] # "answer" THEN "open"
                   ELSE IF outcome[b] = "ok" THEN "stored" ELSE "refused"

\* Every row is the event of a request that was stored, one row an event, and
\* every stored event is there as long as its organization is.
StoreAgrees ==
  /\ \A row \in store : /\ row.event = EventOf[row.by]
                        /\ fate[row.by] = "stored"
                        /\ row.seq <= lastSeq
  /\ OneRowPerEvent
  /\ \A r \in Requests : fate[r] = "stored" => Stored(EventOf[r]) \/ ~OrgPresent(r)

IInv == TypeOK /\ CallerAgrees /\ Placement /\ Waiting /\ LoopAgrees /\ StoreAgrees
=============================================================================
