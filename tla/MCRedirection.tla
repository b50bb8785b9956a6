---------------------------- MODULE MCRedirection ----------------------------
(* Three instances and two requests: two redirect to each other or to the  *)
(* same one, and a request of a live sender meets the queue that another   *)
(* sender, which ended, left broken.                                       *)
EXTENDS Redirection

=============================================================================
