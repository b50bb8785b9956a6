----------------------------- MODULE RequestFifo -----------------------------
(***************************************************************************)
(* What an instance's redirection queue promises its users                 *)
(* (EnqueueRedirectionRequestId and DequeueRedirectionRequestId,           *)
(* src/dev/AppLifecycle/AppInstance.cpp:171-182): the ids come out once    *)
(* each, in the order they were put in, and none is lost.  The promise     *)
(* ends when a redirecting process ends while it links its item.           *)
(***************************************************************************)
EXTENDS Sequences

CONSTANT Ids      (* the ids of the requests                               *)

VARIABLES
  pending,        (* the ids in the queue                                  *)
  returned,       (* the ids Dequeue has returned, in order                *)
  torn            (* the queue was left half written                       *)

fifoVars == <<pending, returned, torn>>

Init == pending = <<>> /\ returned = <<>> /\ torn = FALSE

Put(id) ==
  /\ ~torn /\ UNCHANGED torn
  /\ \A i \in DOMAIN pending : pending[i] # id
  /\ \A i \in DOMAIN returned : returned[i] # id
  /\ pending' = Append(pending, id)
  /\ UNCHANGED returned

Take ==
  /\ ~torn /\ UNCHANGED torn
  /\ pending # <<>>
  /\ pending' = Tail(pending)
  /\ returned' = Append(returned, Head(pending))

(* Nothing is promised of a step to a torn queue, nor of those after it.   *)
Tear == torn' = TRUE

Next == Take \/ Tear \/ \E id \in Ids : Put(id)

Spec == Init /\ [][Next]_fifoVars

=============================================================================
