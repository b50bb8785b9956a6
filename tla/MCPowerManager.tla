--------------------------- MODULE MCPowerManager ---------------------------
(* Two clients, two events of the composite battery status and one event   *)
(* with a listener of its own.  Each client has to do with one of the two  *)
(* composite events, both have with the single one.  Listeners share       *)
(* nothing but m_mutex, so a behaviour uses one of them.                   *)
EXTENDS PowerManager, TLC

CONSTANTS c1, c2, Single

MCWanted == {c1, c2} \X {Single}
              \union {<<c1, Status>>, <<c1, Suspend>>, <<c2, Charge>>}

MCReports ==
  {Status :> 0 @@ Charge :> 0, Status :> 1 @@ Charge :> 1,
   Status :> 1 @@ Charge :> Unknown}

(* One old value that equals the first one, one that does not              *)
MCLeftovers == {Status :> 0 @@ Charge :> 1, Status :> 1 @@ Charge :> 0}

=============================================================================
