--------------------------- MODULE MCTopologyCow ---------------------------
(* Instances of TopologyCow: two pairs, and two writers where there is a    *)
(* lock to serialise them.                                                  *)
EXTENDS TopologyCow
=============================================================================
