---------------------- MODULE MCPushNotificationManager ----------------------
(* Two apps of one process each; the first also creates a channel.         *)
EXTENDS PushNotificationManager, TLC

CONSTANTS c1, c2, t1, t2, t3, a1, a2

MCClientOf == t1 :> c1 @@ t2 :> c2 @@ t3 :> c1
MCAppOf    == c1 :> a1 @@ c2 :> a2

=============================================================================
