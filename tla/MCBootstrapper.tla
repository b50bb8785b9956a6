--------------------------- MODULE MCBootstrapper ---------------------------
(* Two threads of an app, its framework package in two versions, and an    *)
(* other package it depends on.                                            *)
EXTENDS Bootstrapper

CONSTANTS t1, t2

MCPackages  == {"fw1", "fw2", "fw3", "lib"}
MCFamilyOf  == [p \in MCPackages |-> IF p = "lib" THEN "lib" ELSE "fw"]
MCVersionOf == [fw1 |-> 1, fw2 |-> 2, fw3 |-> 3, lib |-> 1]
MCArchitectureOf == [fw1 |-> "x64", fw2 |-> "x64", fw3 |-> "x86", lib |-> "neutral"]
Fw  == [family |-> "fw", minVersion |-> 0, architectures |-> {}, kept |-> FALSE]
Lib == [family |-> "lib", minVersion |-> 0, architectures |-> {}, kept |-> TRUE]
MCCriteria == {Fw, Lib}
MCPath == <<"app">>
=============================================================================
