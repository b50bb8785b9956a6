--------------------------- MODULE MCInstanceKeys ---------------------------
(* Two instances and two keys: each can own a key, ask for the other's, end *)
(* and start again, and one of them keeps the instances it is given.        *)
EXTENDS InstanceKeys

=============================================================================
