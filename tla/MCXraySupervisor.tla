-------------------------- MODULE MCXraySupervisor --------------------------
(* A store with one plain entry and room for a master, over two pool nodes. *)
EXTENDS XraySupervisor, TLC

CONSTANTS e1, e2, n1, n2, c1, c2

MCEntries == {e1, e2}
MCNodes == {n1, n2}
MCCallers == {c1, c2}
MCInitialEntries ==
  e1 :> [on |-> TRUE, ver |-> 0, dials |-> TRUE, port |-> 0] @@ e2 :> Absent

Symmetry == Permutations(MCNodes) \cup Permutations(MCCallers)
=============================================================================
