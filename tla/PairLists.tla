----------------------------- MODULE PairLists -----------------------------
(***************************************************************************)
(* The lists the engine and the server keep their pairs in: what is on a   *)
(* list, how a pair is filtered out of it, and the row an index built from *)
(* it gives a pair.                                                        *)
(***************************************************************************)
EXTENDS Naturals, Sequences

ListRange(s) == {s[i] : i \in DOMAIN s}

NoRepeats(s) == \A i, j \in DOMAIN s : s[i] = s[j] => i = j

(* retain / filter by key: a list of pairs has at most one entry per key.   *)
Without(s, p) ==
  IF p \notin ListRange(s) THEN s
  ELSE LET k == CHOOSE i \in DOMAIN s : s[i] = p
       IN  [i \in 1 .. Len(s) - 1 |-> IF i < k THEN s[i] ELSE s[i + 1]]

(* The row of a pair in the index map built from a list: a later entry of a *)
(* key overwrites an earlier one; 0 when the map has no entry.              *)
IndexRow(s, p) ==
  IF p \notin ListRange(s) THEN 0
  ELSE CHOOSE i \in DOMAIN s : s[i] = p /\ \A j \in DOMAIN s : s[j] = p => j <= i

=============================================================================
