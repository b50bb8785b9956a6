---------------------- MODULE MCAppNotificationManager ----------------------
(* Two threads of one instance of the app and one of another, and two      *)
(* notifications.                                                          *)
EXTENDS AppNotificationManager, TLC

CONSTANTS p1, p2, t1, t2, u, n1, n2

MCProcessOf == [t \in {t1, t2, u} |-> IF t = u THEN p2 ELSE p1]
Symmetry == Permutations({t1, t2}) \union Permutations({n1, n2})

=============================================================================
