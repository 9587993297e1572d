--------------------------- MODULE MCTopKSelect ---------------------------
(* Every slice of up to six entries with up to three different scores.      *)
EXTENDS TopKSelect
=============================================================================
