---------------------------- MODULE IngestBatcher ----------------------------
(***************************************************************************)
(* The batched event ingestion of ddash: EventIngestService and its        *)
(* ingestBatcher (app/services/ingestion.go), over the event_store table   *)
(* (internal/db).                                                          *)
(*                                                                         *)
(* Every HTTP delivery is served by a goroutine of its own (a request),    *)
(* which looks the organization up, puts a request struct with a reply     *)
(* channel of capacity one on the bounded queue of its endpoint, and waits *)
(* for the reply or for its context.  One background goroutine per         *)
(* endpoint moves requests from the queue to a batch and writes the batch  *)
(* in one transaction when it is full or when a ticker fires.  The three   *)
(* webhook handlers each build a service, so there are several batchers    *)
(* over one database.                                                      *)
(***************************************************************************)
EXTENDS Integers, Sequences, Functions

CONSTANTS
  Requests,       \* the HTTP deliveries, retries of a delivery included
  Orgs,           \* organizations
  Keys,           \* pairs (event_source, event_id)
  Batchers,       \* one ingestBatcher per webhook endpoint
  EventOf,        \* EventOf[r]: the event request r carries
  EndpointOf,     \* EndpointOf[r]: the batcher of the endpoint r arrives at
  WellFormed,     \* the requests whose token, signature and payload are valid
  BatchSize,      \* IngestBatchConfig.Size, after its clamping
  QueueFactor,    \* the queue holds BatchSize * QueueFactor requests (8 in the code)
  StorageFaults   \* may opening the store, or a transaction, fail by itself?

\* The columns of a row that identify it: (organization_id, event_source, event_id).
Event == [org : Orgs, key : Keys]

ASSUME IngestAssumption ==
  /\ EventOf \in [Requests -> Event]
  /\ EndpointOf \in [Requests -> Batchers]
  /\ WellFormed \subseteq Requests
  /\ BatchSize \in Nat \ {0}
  /\ QueueFactor \in Nat \ {0}
  /\ StorageFaults \in BOOLEAN

VARIABLES
  batching,       \* IngestBatchConfig.Enabled of the running process: without it
                  \* there is no batcher
  org,            \* org[o]: the organizations row: "enabled", "disabled", "deleted"
  store,          \* the rows of event_store
  lastSeq,        \* the last event_store.seq given out (AUTOINCREMENT)
  pc,             \* pc[r]: where the goroutine serving r is
  cancelled,      \* the requests whose context is done
  queue,          \* queue[b]: the channel of waiting requests
  batch,          \* batch[b]: the requests taken and not yet answered
  loop,           \* loop[b]: where the run loop of b is
  outcome,        \* outcome[b]: the error value of the flush under way
  result,         \* result[r]: the buffered reply channel of r
  told,           \* told[r]: what the sender was told
  fate,           \* history: what became of r in the store
  ticket,         \* history: ticket[r] orders the requests by their enqueueing
  tickets         \* history: the tickets given out

dbVars     == <<org, store, lastSeq>>
callerVars == <<pc, cancelled, told>>
loopVars   == <<batch, loop, outcome>>
history    == <<fate, ticket, tickets>>
vars == <<batching, dbVars, callerVars, queue, loopVars, result, history>>

QueueCap == BatchSize * QueueFactor

Row == [seq : Nat, event : Event, by : Requests]

PcValues == {"new", "admitted", "awaiting", "appended", "replied"}
Answers  == {"accepted", "rejected", "busy", "failed", "canceled", "lost"}

TypeOK ==
  /\ batching \in BOOLEAN
  /\ org \in [Orgs -> {"enabled", "disabled", "deleted"}]
  /\ store \subseteq Row
  /\ lastSeq \in Nat
  /\ pc \in [Requests -> PcValues]
  /\ cancelled \subseteq Requests
  /\ queue \in [Batchers -> Seq(Requests)]
  /\ batch \in [Batchers -> Seq(Requests)]
  /\ \A b \in Batchers : Len(queue[b]) <= QueueCap /\ Len(batch[b]) <= BatchSize
  /\ loop \in [Batchers -> {"select", "flush", "answer"}]
  /\ outcome \in [Batchers -> {"ok", "failed"}]
  /\ result \in [Requests -> {"empty", "ok", "failed"}]
  /\ told \in [Requests -> Answers \cup {"nothing"}]
  /\ fate \in [Requests -> {"open", "stored", "refused"}]
  /\ ticket \in [Requests -> Nat]
  /\ tickets \in Nat

Init ==
  /\ batching \in BOOLEAN
  /\ org = [o \in Orgs |-> "enabled"]
  /\ store = {}
  /\ lastSeq = 0
  /\ pc = [r \in Requests |-> "new"]
  /\ cancelled = {}
  /\ queue = [b \in Batchers |-> <<>>]
  /\ batch = [b \in Batchers |-> <<>>]
  /\ loop = [b \in Batchers |-> "select"]
  /\ outcome = [b \in Batchers |-> "ok"]
  /\ result = [r \in Requests |-> "empty"]
  /\ told = [r \in Requests |-> "nothing"]
  /\ fate = [r \in Requests |-> "open"]
  /\ ticket = [r \in Requests |-> 0]
  /\ tickets = 0

-----------------------------------------------------------------------------
(* The goroutine that serves one request.                                  *)

\* The handler returns with an answer; the reply channel is garbage.
Reply(r, answer) ==
  /\ pc' = [pc EXCEPT ![r] = "replied"]
  /\ told' = [told EXCEPT ![r] = answer]

\* Authorization and validation succeed: the record to append is built.
Admit(r) ==
  /\ pc[r] = "new"
  /\ r \in WellFormed
  /\ org[EventOf[r].org] = "enabled"
  /\ pc' = [pc EXCEPT ![r] = "admitted"]
  /\ UNCHANGED <<batching, dbVars, cancelled, told, queue, loopVars, result, history>>

\* An early return of Ingest: a malformed request, or an organization that is
\* missing or disabled when it is looked up.
Reject(r) ==
  /\ pc[r] = "new"
  /\ r \notin WellFormed \/ org[EventOf[r].org] # "enabled"
  /\ Reply(r, "rejected")
  /\ fate' = [fate EXCEPT ![r] = "refused"]
  /\ UNCHANGED <<batching, dbVars, cancelled, queue, loopVars, result, ticket, tickets>>

\* The lookup itself fails: the handler returns the error as it is.
LookupFail(r) ==
  /\ pc[r] = "new"
  /\ StorageFaults
  /\ Reply(r, "failed")
  /\ fate' = [fate EXCEPT ![r] = "refused"]
  /\ UNCHANGED <<batching, dbVars, cancelled, queue, loopVars, result, ticket, tickets>>

\* append, first select: the channel has room.
Enqueue(r) ==
  LET b == EndpointOf[r] IN
  /\ pc[r] = "admitted"
  /\ batching
  /\ Len(queue[b]) < QueueCap
  /\ queue' = [queue EXCEPT ![b] = Append(@, r)]
  /\ pc' = [pc EXCEPT ![r] = "awaiting"]
  /\ tickets' = tickets + 1
  /\ ticket' = [ticket EXCEPT ![r] = tickets + 1]
  /\ UNCHANGED <<batching, dbVars, cancelled, told, loopVars, result, fate>>

\* append, first select: the default case is taken when no other is ready.
Busy(r) ==
  /\ pc[r] = "admitted"
  /\ batching
  /\ Len(queue[EndpointOf[r]]) >= QueueCap
  /\ r \notin cancelled
  /\ Reply(r, "busy")
  /\ fate' = [fate EXCEPT ![r] = "refused"]
  /\ UNCHANGED <<batching, dbVars, cancelled, queue, loopVars, result, ticket, tickets>>

\* append, second select: the reply is there; or AppendEvent has returned.
Receive(r) ==
  /\ pc[r] \in {"awaiting", "appended"}
  /\ result[r] # "empty"
  /\ Reply(r, IF result[r] = "ok" THEN "accepted" ELSE "failed")
  /\ result' = [result EXCEPT ![r] = "empty"]
  /\ UNCHANGED <<batching, dbVars, cancelled, queue, loopVars, history>>

\* Mutant: a done context is reported as ErrIngestBusy.
GiveUp_AsBusy(r) ==
  /\ pc[r] \in {"new", "admitted", "awaiting"}
  /\ r \in cancelled
  /\ Reply(r, "busy")
  /\ UNCHANGED <<batching, dbVars, cancelled, queue, loopVars, result, history>>

\* A database call of the request's own, or either select of append, finds the
\* context done; a select may do so even when its other case is ready.
GiveUp(r) ==
  /\ pc[r] \in {"new", "admitted", "awaiting"}
  /\ r \in cancelled
  /\ Reply(r, "canceled")
  /\ UNCHANGED <<batching, dbVars, cancelled, queue, loopVars, result, history>>

\* The sender hangs up, or its deadline passes: the request context is done.
Disconnect(r) ==
  /\ pc[r] # "replied"
  /\ cancelled' = cancelled \cup {r}
  /\ UNCHANGED <<batching, dbVars, pc, told, queue, loopVars, result, history>>

-----------------------------------------------------------------------------
(* The run loop of a batcher.                                              *)

\* Mutant: the batch is flushed one request too late.
Take_Overfills(b) ==
  /\ loop[b] = "select"
  /\ queue[b] # <<>>
  /\ queue' = [queue EXCEPT ![b] = Tail(@)]
  /\ batch' = [batch EXCEPT ![b] = Append(@, Head(queue[b]))]
  /\ loop' = [loop EXCEPT ![b] =
                IF Len(batch[b]) + 1 > BatchSize THEN "flush" ELSE "select"]
  /\ UNCHANGED <<batching, dbVars, callerVars, outcome, result, history>>

\* run, first case: take a request; a full batch is flushed at once.
Take(b) ==
  /\ loop[b] = "select"
  /\ queue[b] # <<>>
  /\ queue' = [queue EXCEPT ![b] = Tail(@)]
  /\ batch' = [batch EXCEPT ![b] = Append(@, Head(queue[b]))]
  /\ loop' = [loop EXCEPT ![b] =
                IF Len(batch[b]) + 1 >= BatchSize THEN "flush" ELSE "select"]
  /\ UNCHANGED <<batching, dbVars, callerVars, outcome, result, history>>

\* Mutant: the ticker flushes only a batch that is full anyway.
Tick_FullOnly(b) ==
  /\ loop[b] = "select"
  /\ Len(batch[b]) >= BatchSize
  /\ loop' = [loop EXCEPT ![b] = "flush"]
  /\ UNCHANGED <<batching, dbVars, callerVars, queue, batch, outcome, result, history>>

\* run, second case: the ticker fires while requests are pending.
Tick(b) ==
  /\ loop[b] = "select"
  /\ batch[b] # <<>>
  /\ loop' = [loop EXCEPT ![b] = "flush"]
  /\ UNCHANGED <<batching, dbVars, callerVars, queue, batch, outcome, result, history>>

\* The unique index on (organization_id, event_source, event_id) has the key.
Stored(e) == \E row \in store : row.event = e

\* Mutant: duplicates are looked up before the batch, not row by row.
Fresh_IgnoresBatch(b) == {i \in DOMAIN batch[b] : ~Stored(EventOf[batch[b][i]])}

\* Mutant: every item has a transaction of its own and the loop stops early.
Fresh_FirstOnly(b) == {i \in {1} : ~Stored(EventOf[batch[b][i]])}

\* The positions of the batch that insert a row: ON CONFLICT DO NOTHING skips
\* an event that is stored already or stands earlier in the same batch.
Fresh(b) ==
  {i \in DOMAIN batch[b] :
     /\ ~Stored(EventOf[batch[b][i]])
     /\ \A j \in 1..(i - 1) : EventOf[batch[b][j]] # EventOf[batch[b][i]]}

\* Mutant: the batch is written last item first.
NewRows_Reversed(b) ==
  {[seq |-> lastSeq + Len(batch[b]) + 1 - i, event |-> EventOf[batch[b][i]],
    by |-> batch[b][i]] : i \in Fresh(b)}

\* The rows the transaction inserts; a skipped item leaves a gap in seq.
NewRows(b) ==
  {[seq |-> lastSeq + i, event |-> EventOf[batch[b][i]], by |-> batch[b][i]] :
     i \in Fresh(b)}

OrgPresent(r) == org[EventOf[r].org] # "deleted"
OrgsPresent(b) == \A r \in Range(batch[b]) : OrgPresent(r)

\* The request's fate is decided for the whole batch.
Settle(b, f) ==
  fate' = [r \in Requests |-> IF r \in Range(batch[b]) THEN f ELSE fate[r]]

\* flush: the transaction of AppendEventStoreBatch commits.
FlushCommit(b) ==
  /\ loop[b] = "flush"
  /\ OrgsPresent(b)
  /\ store' = store \cup NewRows(b)
  /\ lastSeq' = lastSeq + Len(batch[b])
  /\ loop' = [loop EXCEPT ![b] = "answer"]
  /\ outcome' = [outcome EXCEPT ![b] = "ok"]
  /\ Settle(b, "stored")
  /\ UNCHANGED <<batching, org, callerVars, queue, batch, result, ticket, tickets>>

\* Mutant: the error of AppendEvents is logged and not handed on.
FlushFail_Swallowed(b) ==
  /\ loop[b] = "flush"
  /\ StorageFaults \/ ~OrgsPresent(b)
  /\ loop' = [loop EXCEPT ![b] = "answer"]
  /\ outcome' = [outcome EXCEPT ![b] = "ok"]
  /\ Settle(b, "refused")
  /\ UNCHANGED <<batching, dbVars, callerVars, queue, batch, result, ticket, tickets>>

\* Mutant: the failed transaction is not rolled back.
FlushFail_NoRollback(b) ==
  /\ loop[b] = "flush"
  /\ StorageFaults
  /\ store' = store \cup NewRows(b)
  /\ lastSeq' = lastSeq + Len(batch[b])
  /\ loop' = [loop EXCEPT ![b] = "answer"]
  /\ outcome' = [outcome EXCEPT ![b] = "failed"]
  /\ Settle(b, "refused")
  /\ UNCHANGED <<batching, org, callerVars, queue, batch, result, ticket, tickets>>

\* flush: Open fails, or the transaction fails and is rolled back.  A row whose
\* organization is gone fails its foreign key, and the whole batch with it.
FlushFail(b) ==
  /\ loop[b] = "flush"
  /\ StorageFaults \/ ~OrgsPresent(b)
  /\ loop' = [loop EXCEPT ![b] = "answer"]
  /\ outcome' = [outcome EXCEPT ![b] = "failed"]
  /\ Settle(b, "refused")
  /\ UNCHANGED <<batching, dbVars, callerVars, queue, batch, result, ticket, tickets>>

\* Mutant: the batch slice is emptied before every item has its answer.
Answer_DropsRest(b) ==
  LET r == Head(batch[b]) IN
  /\ loop[b] = "answer"
  /\ result[r] = "empty"
  /\ result' = [result EXCEPT ![r] = outcome[b]]
  /\ batch' = [batch EXCEPT ![b] = <<>>]
  /\ loop' = [loop EXCEPT ![b] = "select"]
  /\ UNCHANGED <<batching, dbVars, callerVars, queue, outcome, history>>

\* Mutant: the batch slice is not emptied after the last answer.
Answer_KeepsLast(b) ==
  LET r == Head(batch[b]) IN
  /\ loop[b] = "answer"
  /\ result[r] = "empty"
  /\ result' = [result EXCEPT ![r] = outcome[b]]
  /\ batch' = [batch EXCEPT ![b] = IF Len(@) = 1 THEN @ ELSE Tail(@)]
  /\ loop' = [loop EXCEPT ![b] = IF Len(batch[b]) = 1 THEN "select" ELSE "answer"]
  /\ UNCHANGED <<batching, dbVars, callerVars, queue, outcome, history>>

\* Mutant: the reply channel has no buffer, so a send needs its receiver.
Answer_Unbuffered(b) ==
  LET r == Head(batch[b]) IN
  /\ loop[b] = "answer"
  /\ pc[r] = "awaiting"
  /\ result' = [result EXCEPT ![r] = outcome[b]]
  /\ batch' = [batch EXCEPT ![b] = Tail(@)]
  /\ loop' = [loop EXCEPT ![b] = IF Len(batch[b]) = 1 THEN "select" ELSE "answer"]
  /\ UNCHANGED <<batching, dbVars, callerVars, queue, outcome, history>>

\* flush: send the outcome on the reply channel of the next item; the send
\* needs room in the channel, which the loop would otherwise block on.
Answer(b) ==
  LET r == Head(batch[b]) IN
  /\ loop[b] = "answer"
  /\ result[r] = "empty"
  /\ result' = [result EXCEPT ![r] = outcome[b]]
  /\ batch' = [batch EXCEPT ![b] = Tail(@)]
  /\ loop' = [loop EXCEPT ![b] = IF Len(batch[b]) = 1 THEN "select" ELSE "answer"]
  /\ UNCHANGED <<batching, dbVars, callerVars, queue, outcome, history>>

-----------------------------------------------------------------------------
(* appendRecord without a batcher: a transaction per request.              *)

\* AppendEvent commits; crash and commit can still be told apart by the sender,
\* so the answer is a step of its own.
DirectCommit(r) ==
  /\ pc[r] = "admitted"
  /\ ~batching
  /\ OrgPresent(r)
  /\ store' = IF Stored(EventOf[r]) THEN store
              ELSE store \cup {[seq |-> lastSeq + 1, event |-> EventOf[r], by |-> r]}
  /\ lastSeq' = lastSeq + 1
  /\ pc' = [pc EXCEPT ![r] = "appended"]
  /\ result' = [result EXCEPT ![r] = "ok"]
  /\ fate' = [fate EXCEPT ![r] = "stored"]
  /\ tickets' = tickets + 1
  /\ ticket' = [ticket EXCEPT ![r] = tickets + 1]
  /\ UNCHANGED <<batching, org, cancelled, told, queue, loopVars>>

\* Open or the transaction fails: the handler returns the error.
DirectFail(r) ==
  /\ pc[r] = "admitted"
  /\ ~batching
  /\ StorageFaults \/ ~OrgPresent(r)
  /\ Reply(r, "failed")
  /\ fate' = [fate EXCEPT ![r] = "refused"]
  /\ UNCHANGED <<batching, dbVars, cancelled, queue, loopVars, result, ticket, tickets>>

-----------------------------------------------------------------------------
(* Around the batchers.                                                    *)

\* The process is killed and started again: queues, batches and connections
\* are gone, an open transaction is rolled back, committed rows stay.  The new
\* process reads its configuration anew.
Crash ==
  /\ pc' = [r \in Requests |-> IF pc[r] = "new" THEN "new" ELSE "replied"]
  /\ told' = [r \in Requests |->
                IF pc[r] \in {"admitted", "awaiting", "appended"} THEN "lost" ELSE told[r]]
  /\ queue' = [b \in Batchers |-> <<>>]
  /\ batch' = [b \in Batchers |-> <<>>]
  /\ loop' = [b \in Batchers |-> "select"]
  /\ outcome' = [b \in Batchers |-> "ok"]
  /\ result' = [r \in Requests |-> "empty"]
  /\ batching' \in BOOLEAN
  /\ UNCHANGED <<dbVars, cancelled, history>>

\* An administrator switches an organization on or off.
SetOrganizationEnabled(o) ==
  /\ org[o] # "deleted"
  /\ org' = [org EXCEPT ![o] = IF @ = "enabled" THEN "disabled" ELSE "enabled"]
  /\ UNCHANGED <<batching, store, lastSeq, callerVars, queue, loopVars, result, history>>

\* An organization is deleted; its events cascade.
DeleteOrganization(o) ==
  /\ org[o] # "deleted"
  /\ org' = [org EXCEPT ![o] = "deleted"]
  /\ store' = {row \in store : row.event.org # o}
  /\ UNCHANGED <<batching, lastSeq, callerVars, queue, loopVars, result, history>>

-----------------------------------------------------------------------------

CallerNext(r) ==
  \/ Admit(r) \/ Reject(r) \/ LookupFail(r)
  \/ Enqueue(r) \/ Busy(r) \/ DirectCommit(r) \/ DirectFail(r)
  \/ Receive(r) \/ GiveUp(r)

LoopNext(b) == Take(b) \/ Tick(b) \/ FlushCommit(b) \/ FlushFail(b) \/ Answer(b)

Next ==
  \/ \E r \in Requests : CallerNext(r) \/ Disconnect(r)
  \/ \E b \in Batchers : LoopNext(b)
  \/ Crash
  \/ \E o \in Orgs : SetOrganizationEnabled(o) \/ DeleteOrganization(o)

Spec == Init /\ [][Next]_vars

\* The Go scheduler runs every goroutine that is ready, a ticker keeps firing,
\* and busy_timeout makes a transaction end.  Senders and administrators owe
\* nothing, and nothing obliges the process to crash.
Fairness ==
  /\ \A r \in Requests : WF_vars(CallerNext(r))
  /\ \A b \in Batchers : WF_vars(LoopNext(b))

FairSpec == Spec /\ Fairness
-----------------------------------------------------------------------------
(* Properties.                                                             *)

\* A sender that was told 202 Accepted finds its event in event_store, through
\* batching, retries and process crashes, for as long as the organization is
\* there (Handler.Handle writes 202 only after a nil error of append).
AcknowledgedIsStored ==
  \A r \in Requests :
    told[r] = "accepted" => Stored(EventOf[r]) \/ ~OrgPresent(r)

\* A sender that was refused (401, 400, 422, 503, or the 500 of a failed
\* transaction) left no row of its own: it may send again.
RefusalLeavesNoRow ==
  \A row \in store : told[row.by] \notin {"rejected", "busy", "failed"}

\* However often an event is delivered, through whichever endpoint and batch,
\* the store has one row for it and no two rows share a sequence number.
OneRowPerEvent ==
  \A x, y \in store : x.event = y.event \/ x.seq = y.seq => x = y

\* The requests of b that its run loop has yet to answer, oldest first.
Pending(b) == batch[b] \o queue[b]

\* A goroutine that waits for its reply is known to the run loop, or the reply
\* lies in its channel: no request is dropped between queue, batch and answer.
NoneStranded ==
  \A r \in Requests :
    pc[r] = "awaiting" =>
      ~((result[r] # "empty") <=> (r \in Range(Pending(EndpointOf[r]))))

\* The run loop never blocks on a reply: the channel of every request it still
\* has to answer is empty, also when the request's goroutine is long gone, and
\* no request is pending twice.
ReplyNeverBlocks ==
  \A b \in Batchers :
    /\ \A r \in Range(Pending(b)) : result[r] = "empty"
    /\ IsInjective(Pending(b))

\* The sequence numbers of an endpoint's events follow the order in which its
\* requests entered the queue; projections break timestamp ties by them.
SeqFollowsArrival ==
  \A x, y \in store :
    /\ EndpointOf[x.by] = EndpointOf[y.by]
    /\ ticket[x.by] < ticket[y.by]
    => x.seq < y.seq

\* A transaction writes a whole batch or nothing: whenever rows appear, they
\* are those of one batch, every event of which is in the store afterwards.
BatchIsAtomic ==
  [][batching /\ ~(store' \subseteq store) =>
       \E b \in Batchers :
         /\ \A row \in store' \ store : row.by \in Range(batch[b])
         /\ \A r \in Range(batch[b]) : \E row \in store' : row.event = EventOf[r]]_vars

\* Once a request waits it is answered, by the store or by its own context:
\* a ticker drains the batch that no further request would fill.
EveryRequestIsAnswered ==
  \A r \in Requests : (pc[r] = "awaiting") ~> (pc[r] = "replied")

\* Whatever is pending is settled and leaves the batcher, even when the
\* goroutine that waited for it has gone: the run loop is never wedged.
PendingIsSettled ==
  \A r \in Requests :
    (r \in Range(Pending(EndpointOf[r]))) ~> (r \notin Range(Pending(EndpointOf[r])))

\* Ingestion implements the promise that DurableIngest states.
Durable == INSTANCE DurableIngest WITH
  Deliveries <- Requests,
  log        <- {row.event : row \in store}

DurableSpec == Durable!Spec
=============================================================================
