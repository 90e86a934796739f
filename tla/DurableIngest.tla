---------------------------- MODULE DurableIngest ----------------------------
(***************************************************************************)
(* What the ingestion endpoints of ddash promise to a sender, with nothing *)
(* of how they keep it: no queue, no batch, no background loop.            *)
(*                                                                         *)
(* A delivery is one HTTP POST of one event.  Its fate is decided at most  *)
(* once: "stored" (the event store holds the event) or "refused" (nothing  *)
(* was written on its behalf, nor will be).  A sender is told "accepted"   *)
(* only of a stored delivery, and a definite refusal only of a refused     *)
(* one; when the connection breaks it is told nothing that it may rely on. *)
(***************************************************************************)
CONSTANTS Deliveries,   \* the HTTP deliveries
          Event,        \* the events, records with a field org
          EventOf       \* the event each delivery carries

VARIABLES fate,         \* fate[d] \in {"open", "stored", "refused"}
          told,         \* told[d]: the answer the sender got, or "nothing"
          log           \* the set of durable events

vars == <<fate, told, log>>

\* 4xx and 503 answers, and the 500 that follows a rolled back transaction.
Refusals == {"rejected", "busy", "failed"}

\* The request ended before the store decided.
Silences == {"canceled", "lost"}

Init ==
  /\ fate = [d \in Deliveries |-> "open"]
  /\ told = [d \in Deliveries |-> "nothing"]
  /\ log  = {}

Decide(D, f) ==
  /\ D # {}
  /\ \A d \in D : fate[d] = "open"
  /\ fate' = [d \in Deliveries |-> IF d \in D THEN f ELSE fate[d]]
  /\ UNCHANGED told

\* A group of undecided deliveries becomes durable in one step.
Store(D) ==
  /\ Decide(D, "stored")
  /\ log' = log \cup {EventOf[d] : d \in D}

\* A group of undecided deliveries is given up, leaving nothing behind.
Refuse(D) ==
  /\ Decide(D, "refused")
  /\ UNCHANGED log

\* The sender of d gets an answer that the fate of d justifies.
Tell(d, answer) ==
  /\ told[d] = "nothing"
  /\ \/ answer = "accepted" /\ fate[d] = "stored" /\ UNCHANGED fate
     \/ answer \in Silences /\ UNCHANGED fate
     \/ /\ answer \in Refusals
        /\ fate[d] # "stored"
        /\ fate' = [fate EXCEPT ![d] = "refused"]
  /\ told' = [told EXCEPT ![d] = answer]
  /\ UNCHANGED log

\* The process dies under the unanswered deliveries in D.
Die(D) ==
  /\ \A d \in D : told[d] = "nothing"
  /\ told' = [d \in Deliveries |-> IF d \in D THEN "lost" ELSE told[d]]
  /\ UNCHANGED <<fate, log>>

\* An organization is deleted, and its events with it.
Forget(o) ==
  /\ log' = {e \in log : e.org # o}
  /\ UNCHANGED <<fate, told>>

Next ==
  \/ \E D \in SUBSET Deliveries : Store(D) \/ Refuse(D) \/ Die(D)
  \/ \E d \in Deliveries, a \in {"accepted"} \cup Refusals \cup Silences : Tell(d, a)
  \/ \E o \in {e.org : e \in Event} : Forget(o)

Spec == Init /\ [][Next]_vars
=============================================================================
