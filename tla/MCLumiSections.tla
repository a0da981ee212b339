--------------------------- MODULE MCLumiSections ---------------------------
(* Values of the constants of LumiSections for TLC. *)
EXTENDS LumiSections, TLC

MCMax == [files |-> 2, queue |-> 2, crash |-> 1, torn |-> 1, twice |-> 1,
          lost |-> 1, refused |-> 1, abort |-> 1]
Symmetry == Permutations(Pids)
=============================================================================
