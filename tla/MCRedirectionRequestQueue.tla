---------------------- MODULE MCRedirectionRequestQueue ----------------------
(* Few items and more requests than items: items are reused, the list is   *)
(* walked over several items, and the queue gets full.                     *)
EXTENDS RedirectionRequestQueue

=============================================================================
