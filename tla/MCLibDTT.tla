------------------------------ MODULE MCLibDTT ------------------------------
(* LibDTT on small instances.  Threads and states of one kind are          *)
(* interchangeable; the symmetry is used for safety only.                  *)
EXTENDS LibDTT, TLC

Symmetry ==
  Permutations(Program) \cup Permutations(Workers) \cup Permutations(States)

=============================================================================
