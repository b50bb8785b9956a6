------------------------ MODULE MCEnvironmentManager ------------------------
(* Two threads of a packaged process and one of an unpackaged one.  The    *)
(* text of part "a" occurs in "b", "A" is "a" in capitals, and PATH starts *)
(* with "c" twice.                                                         *)
EXTENDS EnvironmentManager

MCThreads == {"t1", "t2", "u"}
MCProcessOf == [t \in MCThreads |-> IF t = "u" THEN "other" ELSE "app"]
MCPartsOf == [l \in {"PATH", "PATHEXT"} |->
                IF l = "PATH" THEN {"a", "A", "b", "c"} ELSE {"x"}]
MCWithin == {<<p, p>> : p \in {"a", "A", "b", "c", "x"}} \union {<<"a", "b">>}
MCFolded == [p \in {"a", "A", "b", "c", "x"} |-> IF p = "A" THEN "a" ELSE p]
MCFirstList == [l \in {"PATH", "PATHEXT"} |->
                  IF l = "PATH" THEN <<"c", "b", "c">> ELSE <<>>]

=============================================================================
