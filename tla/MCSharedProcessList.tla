------------------------ MODULE MCSharedProcessList ------------------------
(* Three processes, one of which may fail in its constructor, share a list  *)
(* of two slots: all may insert at once, find it full, leave holes, and be  *)
(* removed by two others at once.  With two processes the list never fills. *)
EXTENDS SharedProcessList, TLC

Symmetry == Permutations(Procs \ Fragile)

=============================================================================
