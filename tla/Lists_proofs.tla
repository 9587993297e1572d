--------------------------- MODULE Lists_proofs ---------------------------
(***************************************************************************)
(* Lemmas about lists of pairs (what appending and filtering do to a list  *)
(* without repeats, where the index built from a list points) and about    *)
(* sums over finite sets.                                                  *)
(*                                                                         *)
(* SumFunctionOnSet is defined by a recursion over sets.  What it computes *)
(* is shown by induction over the subsets of the set: they are well        *)
(* founded by strict inclusion, so that among the subsets for which a      *)
(* claim fails there would be a minimal one.                               *)
(***************************************************************************)
EXTENDS PairLists, Functions, FiniteSetTheorems, TLAPS

-----------------------------------------------------------------------------
(* Lists of pairs *)

(* Appending a pair that is not listed keeps the list free of repeats. *)
LEMMA AppendFacts ==
  ASSUME NEW S, NEW s \in Seq(S), NEW p \in S, NoRepeats(s), p \notin ListRange(s)
  PROVE  /\ Append(s, p) \in Seq(S)
         /\ NoRepeats(Append(s, p))
         /\ ListRange(Append(s, p)) = ListRange(s) \cup {p}
<1>1. /\ Append(s, p) \in Seq(S)
      /\ Len(Append(s, p)) = Len(s) + 1
      /\ \A i \in 1 .. Len(s) : Append(s, p)[i] = s[i]
      /\ Append(s, p)[Len(s) + 1] = p
  OBVIOUS
<1>2. /\ DOMAIN Append(s, p) = 1 .. Len(s) + 1
      /\ DOMAIN s = 1 .. Len(s)
      /\ Len(s) \in Nat
  BY <1>1
<1>3. NoRepeats(Append(s, p))
  BY <1>1, <1>2 DEF NoRepeats, ListRange
<1>4. ListRange(Append(s, p)) = ListRange(s) \cup {p}
  <2>1. ListRange(Append(s, p)) \subseteq ListRange(s) \cup {p}
    BY <1>1, <1>2 DEF ListRange
  <2>2. p \in ListRange(Append(s, p))
    BY <1>1, <1>2 DEF ListRange
  <2>3. ListRange(s) \subseteq ListRange(Append(s, p))
    BY <1>1, <1>2 DEF ListRange
  <2>. QED BY <2>1, <2>2, <2>3
<1>. QED BY <1>1, <1>3, <1>4

(* Filtering a pair out of a list without repeats removes exactly that     *)
(* pair, and the entries before it stay where they are.                    *)
LEMMA WithoutFacts ==
  ASSUME NEW S, NEW s \in Seq(S), NEW p, NoRepeats(s)
  PROVE  /\ Without(s, p) \in Seq(S)
         /\ NoRepeats(Without(s, p))
         /\ ListRange(Without(s, p)) = ListRange(s) \ {p}
<1>1. CASE p \notin ListRange(s)
  BY <1>1 DEF Without
<1>2. CASE p \in ListRange(s)
  <2> DEFINE k == CHOOSE i \in DOMAIN s : s[i] = p
             n == Len(s) - 1
             t == [i \in 1 .. n |-> IF i < k THEN s[i] ELSE s[i + 1]]
  <2>1. k \in DOMAIN s /\ s[k] = p
    BY <1>2 DEF ListRange
  <2>2. /\ Len(s) \in Nat /\ DOMAIN s = 1 .. Len(s)
        /\ k \in 1 .. Len(s)
        /\ \A i \in 1 .. Len(s) : s[i] \in S
    BY <2>1
  <2>3. Without(s, p) = t
    BY <1>2 DEF Without
  <2> HIDE DEF k
  <2>4. n \in Nat /\ DOMAIN t = 1 .. n
    BY <2>2
  <2>5. \A i \in 1 .. n : t[i] = IF i < k THEN s[i] ELSE s[i + 1]
    OBVIOUS
  <2>6. \A i \in 1 .. n : t[i] \in S
    BY <2>2, <2>5
  <2>7. t \in Seq(S)
    BY <2>4, <2>6
  <2>8. NoRepeats(t)
    BY <2>1, <2>2, <2>4, <2>5 DEF NoRepeats
  <2>9. ListRange(t) = ListRange(s) \ {p}
    <3>1. ASSUME NEW i \in 1 .. n PROVE t[i] \in ListRange(s) \ {p}
      BY <2>1, <2>2, <2>5 DEF NoRepeats, ListRange
    <3>2. ASSUME NEW j \in 1 .. Len(s), s[j] # p PROVE s[j] \in ListRange(t)
      <4>1. CASE j < k
        <5>1. j \in 1 .. n /\ t[j] = s[j]
          BY <4>1, <2>2, <2>5
        <5>. QED BY <5>1, <2>4 DEF ListRange
      <4>2. CASE j > k
        <5>1. j - 1 \in 1 .. n /\ t[j - 1] = s[j]
          BY <4>2, <2>2, <2>5
        <5>. QED BY <5>1, <2>4 DEF ListRange
      <4>. QED BY <4>1, <4>2, <2>1, <2>2, <3>2
    <3>. QED BY <3>1, <3>2, <2>2, <2>4 DEF ListRange
  <2> HIDE DEF t
  <2>. QED BY <2>3, <2>7, <2>8, <2>9
<1>. QED BY <1>1, <1>2

(* The index built from a list sends a listed pair to a row that holds it.  *)
LEMMA IndexRowFacts ==
  ASSUME NEW S, NEW s \in Seq(S), NoRepeats(s), NEW p
  PROVE  /\ IndexRow(s, p) \in Nat
         /\ p \notin ListRange(s) => IndexRow(s, p) = 0
         /\ p \in ListRange(s) => IndexRow(s, p) \in DOMAIN s /\ s[IndexRow(s, p)] = p
<1>1. Len(s) \in Nat /\ DOMAIN s = 1 .. Len(s)
  OBVIOUS
<1>2. ASSUME p \in ListRange(s) PROVE IndexRow(s, p) \in DOMAIN s /\ s[IndexRow(s, p)] = p
  <2>1. PICK i \in DOMAIN s : s[i] = p
    BY <1>2 DEF ListRange
  <2>2. \A j \in DOMAIN s : s[j] = p => j <= i
    BY <2>1, <1>1 DEF NoRepeats
  <2>3. IndexRow(s, p)
          = CHOOSE l \in DOMAIN s : s[l] = p /\ \A j \in DOMAIN s : s[j] = p => j <= l
    BY <1>2 DEF IndexRow
  <2>. QED BY <2>1, <2>2, <2>3
<1>3. p \notin ListRange(s) => IndexRow(s, p) = 0
  BY DEF IndexRow
<1>. QED BY <1>1, <1>2, <1>3

(* Lists with one pair removed keep every entry before it in place. *)
LEMMA WithoutKeepsPrefix ==
  ASSUME NEW S, NEW s \in Seq(S), NEW p, NEW i \in 1 .. Len(s),
         \A j \in 1 .. i : s[j] # p
  PROVE  i \in DOMAIN Without(s, p) /\ Without(s, p)[i] = s[i]
<1>0. Len(s) \in Nat /\ DOMAIN s = 1 .. Len(s)
  OBVIOUS
<1>1. CASE p \notin ListRange(s)
  BY <1>0, <1>1 DEF Without
<1>2. CASE p \in ListRange(s)
  <2> DEFINE k == CHOOSE j \in DOMAIN s : s[j] = p
  <2>1. k \in DOMAIN s /\ s[k] = p
    BY <1>2 DEF ListRange
  <2>2. Without(s, p) = [j \in 1 .. Len(s) - 1 |-> IF j < k THEN s[j] ELSE s[j + 1]]
    BY <1>2 DEF Without
  <2> HIDE DEF k
  <2>3. i < k
    BY <2>1, <1>0
  <2>. QED BY <1>0, <2>1, <2>2, <2>3
<1>. QED BY <1>1, <1>2

-----------------------------------------------------------------------------
(* Sums over finite sets *)

(* Among the subsets of a finite set that are of some kind one is minimal.  *)
LEMMA Minimal ==
  ASSUME NEW S, IsFiniteSet(S), NEW B, B \subseteq SUBSET S, B # {}
  PROVE  \E T \in B : \A U \in SUBSET T : U # T => U \notin B
<1> DEFINE R == StrictSubsetOrdering(S)
<1>1. IsWellFoundedOn(R, SUBSET S)
  BY FS_StrictSubsetOrderingWellFounded, FS_FiniteSubsetsOfFinite
<1> HIDE DEF R
<1>2. PICK T \in B : \A U \in B : ~ (<<U, T>> \in R)
  BY <1>1, WFMin
<1>3. ASSUME NEW U \in SUBSET T, U # T, U \in B PROVE FALSE
  <2>1. <<U, T>> \in (SUBSET S) \X (SUBSET S) /\ <<U,T>>[1] = U /\ <<U,T>>[2] = T
    BY <1>3
  <2>2. <<U, T>> \in R
    BY <1>3, <2>1 DEF R, StrictSubsetOrdering
  <2>. QED BY <1>2, <1>3, <2>2
<1>. QED BY <1>3

(* The element the recursion of a sum picks, and the table of partial sums  *)
(* it computes.                                                             *)
Pick(s) == CHOOSE x \in s : TRUE

Solves(g, f, T) ==
  g = [s \in SUBSET T |-> IF s = {} THEN 0 ELSE f[Pick(s)] + g[s \ {Pick(s)}]]

(* What is picked is an element. *)
LEMMA PickIn == \A s : s # {} => Pick(s) \in s
BY DEF Pick

(* There is one such table. *)
LEMMA Unique ==
  ASSUME NEW S, IsFiniteSet(S), NEW f, NEW g, NEW h, Solves(g, f, S), Solves(h, f, S)
  PROVE  g = h
<1> DEFINE B == {s \in SUBSET S : g[s] # h[s]}
<1>1. CASE B = {}
  BY <1>1 DEF Solves
<1>2. CASE B # {}
  <2>1. PICK T \in B : \A U \in SUBSET T : U # T => U \notin B
    <3>1. B \subseteq SUBSET S
      OBVIOUS
    <3> HIDE DEF B
    <3>. QED BY <1>2, <3>1, Minimal
  <2>2. CASE T = {}
    BY <2>1, <2>2 DEF Solves
  <2>3. CASE T # {}
    <3>1. Pick(T) \in T
      BY <2>3, PickIn
    <3>2. T \ {Pick(T)} \in SUBSET T /\ T \ {Pick(T)} # T
      BY <3>1
    <3>3. g[T \ {Pick(T)}] = h[T \ {Pick(T)}]
      BY <2>1, <3>2
    <3>4. T \in SUBSET S /\ g[T] # h[T]
      OBVIOUS
    <3>5. g[T] = f[Pick(T)] + g[T \ {Pick(T)}]
      BY <2>3, <3>4 DEF Solves
    <3>6. h[T] = f[Pick(T)] + h[T \ {Pick(T)}]
      BY <2>3, <3>4 DEF Solves
    <3>. QED BY <3>3, <3>4, <3>5, <3>6
  <2>. QED BY <2>2, <2>3
<1>. QED BY <1>1, <1>2

(* There is such a table, also for a set all of whose parts have one.       *)
LEMMA Exists ==
  ASSUME NEW S, IsFiniteSet(S), NEW f
  PROVE  \E g : Solves(g, f, S)
<1> DEFINE B == {T \in SUBSET S : ~ \E g : Solves(g, f, T)}
<1>1. CASE B = {}
  BY <1>1
<1>2. CASE B # {}
  <2>1. PICK T \in B : \A U \in SUBSET T : U # T => U \notin B
    <3>1. B \subseteq SUBSET S
      OBVIOUS
    <3> HIDE DEF B
    <3>. QED BY <1>2, <3>1, Minimal
  <2> DEFINE G(U) == CHOOSE g : Solves(g, f, U)
             W == {U \in SUBSET T : U # T}
  <2>2. ASSUME NEW U \in W PROVE Solves(G(U), f, U)
    <3>1. \E g : Solves(g, f, U)
      BY <2>1
    <3>. QED BY <3>1
  <2> HIDE DEF G
  <2>3. ASSUME NEW U \in W, NEW V \in SUBSET U PROVE V \in W /\ G(V)[V] = G(U)[V]
    <3>1. V \in W
      OBVIOUS
    <3> DEFINE r == [s \in SUBSET V |-> G(U)[s]]
    <3>2. Solves(r, f, V)
      <4>1. Solves(G(U), f, U)
        BY <2>2
      <4>2. ASSUME NEW s \in SUBSET V
            PROVE  r[s] = IF s = {} THEN 0 ELSE f[Pick(s)] + r[s \ {Pick(s)}]
        <5>1. s \in SUBSET U /\ s \ {Pick(s)} \in SUBSET V
          OBVIOUS
        <5>2. G(U)[s] = IF s = {} THEN 0 ELSE f[Pick(s)] + G(U)[s \ {Pick(s)}]
          BY <4>1, <5>1 DEF Solves
        <5>. QED BY <5>1, <5>2
      <4>. QED BY <4>2 DEF Solves
    <3>3. IsFiniteSet(V)
      BY FS_Subset
    <3>4. Solves(G(V), f, V)
      BY <2>2, <3>1
    <3> HIDE DEF r
    <3>5. G(V) = r
      BY <3>2, <3>3, <3>4, Unique
    <3>6. V \in SUBSET V
      OBVIOUS
    <3>. QED BY <3>1, <3>5, <3>6 DEF r
  <2> DEFINE h == [s \in SUBSET T |->
                     IF s = {} THEN 0 ELSE f[Pick(s)] + G(s \ {Pick(s)})[s \ {Pick(s)}]]
  <2>4. ASSUME NEW U \in W PROVE h[U] = G(U)[U]
    <3>1. Solves(G(U), f, U) /\ U \in SUBSET U /\ U \in SUBSET T
      BY <2>2
    <3>2. G(U)[U] = IF U = {} THEN 0 ELSE f[Pick(U)] + G(U)[U \ {Pick(U)}]
      BY <3>1 DEF Solves
    <3>3. G(U \ {Pick(U)})[U \ {Pick(U)}] = G(U)[U \ {Pick(U)}]
      BY <2>3
    <3>. QED BY <3>1, <3>2, <3>3
  <2>5. ASSUME NEW s \in SUBSET T
        PROVE  h[s] = IF s = {} THEN 0 ELSE f[Pick(s)] + h[s \ {Pick(s)}]
    <3>1. CASE s = {}
      BY <3>1
    <3>2. CASE s # {}
      <4>1. s \ {Pick(s)} \in W
        BY <3>2, PickIn
      <4>. QED BY <2>4, <3>2, <4>1
    <3>. QED BY <3>1, <3>2
  <2>6. Solves(h, f, T)
    BY <2>5 DEF Solves
  <2>. QED BY <2>1, <2>6
<1>. QED BY <1>1, <1>2

(* A sum is the entry of its table for the whole set. *)
LEMMA SumIs ==
  ASSUME NEW S, IsFiniteSet(S), NEW f
  PROVE  \E g : Solves(g, f, S) /\ SumFunctionOnSet(f, S) = g[S]
<1> DEFINE it == CHOOSE g : Solves(g, f, S)
<1>1. Solves(it, f, S)
  BY Exists
<1>2. SumFunctionOnSet(f, S) = it[S]
  BY DEF SumFunctionOnSet, FoldFunctionOnSet, MapThenFoldSet, Solves, Pick
<1>. QED BY <1>1, <1>2

(* Induction over a finite set: what holds of a subset when it holds of it  *)
(* with any one element taken out, and of the empty set, holds of the set.  *)
LEMMA ByRemoval ==
  ASSUME NEW S, IsFiniteSet(S), NEW Good, {} \in Good,
         \A T \in SUBSET S : T # {} /\ (\A x \in T : T \ {x} \in Good) => T \in Good
  PROVE  S \in Good
<1> DEFINE B == {T \in SUBSET S : T \notin Good}
<1>1. CASE B = {}
  BY <1>1
<1>2. CASE B # {}
  <2>1. PICK T \in B : \A U \in SUBSET T : U # T => U \notin B
    <3>1. B \subseteq SUBSET S
      OBVIOUS
    <3> HIDE DEF B
    <3>. QED BY <1>2, <3>1, Minimal
  <2>2. T \in SUBSET S /\ T # {}
    OBVIOUS
  <2>3. ASSUME NEW x \in T PROVE T \ {x} \in Good
    <3>1. T \ {x} \in SUBSET T /\ T \ {x} # T /\ T \ {x} \in SUBSET S
      BY <2>2
    <3>. QED BY <2>1, <3>1
  <2>4. T \in Good
    BY <2>2, <2>3
  <2>. QED BY <2>4
<1>. QED BY <1>1, <1>2

(* An empty sum is zero. *)
LEMMA SumEmpty == \A f : SumFunctionOnSet(f, {}) = 0
<1>1. IsFiniteSet({})
  BY FS_EmptySet
<1> SUFFICES ASSUME NEW f PROVE SumFunctionOnSet(f, {}) = 0
  OBVIOUS
<1>2. PICK g : Solves(g, f, {}) /\ SumFunctionOnSet(f, {}) = g[{}]
  BY <1>1, SumIs
<1>. QED BY <1>2 DEF Solves

(* A sum unfolds at the element the recursion picks. *)
LEMMA SumPick ==
  ASSUME NEW S, IsFiniteSet(S), NEW f, S # {}
  PROVE  SumFunctionOnSet(f, S) = f[Pick(S)] + SumFunctionOnSet(f, S \ {Pick(S)})
<1> DEFINE T == S \ {Pick(S)}
<1>1. T \in SUBSET S /\ IsFiniteSet(T)
  BY FS_Subset
<1>2. PICK g : Solves(g, f, S) /\ SumFunctionOnSet(f, S) = g[S]
  BY SumIs
<1>3. PICK h : Solves(h, f, T) /\ SumFunctionOnSet(f, T) = h[T]
  BY <1>1, SumIs
<1>4. g[S] = f[Pick(S)] + g[T]
  <2>1. S \in SUBSET S
    OBVIOUS
  <2>. QED BY <1>2, <2>1 DEF Solves
<1> DEFINE r == [s \in SUBSET T |-> g[s]]
<1>5. Solves(r, f, T)
  <2>1. ASSUME NEW s \in SUBSET T
        PROVE  r[s] = IF s = {} THEN 0 ELSE f[Pick(s)] + r[s \ {Pick(s)}]
    <3>1. s \in SUBSET S /\ s \ {Pick(s)} \in SUBSET T
      OBVIOUS
    <3>2. g[s] = IF s = {} THEN 0 ELSE f[Pick(s)] + g[s \ {Pick(s)}]
      BY <1>2, <3>1 DEF Solves
    <3>. QED BY <3>1, <3>2
  <2>. QED BY <2>1 DEF Solves
<1> HIDE DEF T, r
<1>6. h = r
  BY <1>1, <1>3, <1>5, Unique
<1>7. h[T] = g[T]
  BY <1>6 DEF r
<1>. QED BY <1>2, <1>3, <1>4, <1>7 DEF T

(* A sum of integers is an integer. *)
LEMMA SumType ==
  ASSUME NEW S, IsFiniteSet(S), NEW f, \A x \in S : f[x] \in Int
  PROVE  SumFunctionOnSet(f, S) \in Int
<1> DEFINE Good == {T \in SUBSET S : SumFunctionOnSet(f, T) \in Int}
<1>1. {} \in Good
  BY SumEmpty
<1>2. ASSUME NEW T \in SUBSET S, T # {}, \A x \in T : T \ {x} \in Good PROVE T \in Good
  <2>1. IsFiniteSet(T) /\ Pick(T) \in T
    BY <1>2, PickIn, FS_Subset
  <2>2. SumFunctionOnSet(f, T) = f[Pick(T)] + SumFunctionOnSet(f, T \ {Pick(T)})
    BY <1>2, <2>1, SumPick
  <2>. QED BY <1>2, <2>1, <2>2
<1> HIDE DEF Good
<1>3. S \in Good
  BY <1>1, <1>2, ByRemoval
<1>. QED BY <1>3 DEF Good

(* A sum of zeros is zero. *)
LEMMA SumZero ==
  ASSUME NEW S, IsFiniteSet(S), NEW f, \A x \in S : f[x] = 0
  PROVE  SumFunctionOnSet(f, S) = 0
<1> DEFINE Good == {T \in SUBSET S : SumFunctionOnSet(f, T) = 0}
<1>1. {} \in Good
  BY SumEmpty
<1>2. ASSUME NEW T \in SUBSET S, T # {}, \A x \in T : T \ {x} \in Good PROVE T \in Good
  <2>1. IsFiniteSet(T) /\ Pick(T) \in T
    BY <1>2, PickIn, FS_Subset
  <2>2. SumFunctionOnSet(f, T) = f[Pick(T)] + SumFunctionOnSet(f, T \ {Pick(T)})
    BY <1>2, <2>1, SumPick
  <2>. QED BY <1>2, <2>1, <2>2
<1> HIDE DEF Good
<1>3. S \in Good
  BY <1>1, <1>2, ByRemoval
<1>. QED BY <1>3 DEF Good

(* Any element may be taken out of a sum. *)
LEMMA SumRemove ==
  ASSUME NEW S, IsFiniteSet(S), NEW f, \A x \in S : f[x] \in Int, NEW x \in S
  PROVE  SumFunctionOnSet(f, S) = f[x] + SumFunctionOnSet(f, S \ {x})
<1> DEFINE Good == {T \in SUBSET S : \A y \in T :
                      SumFunctionOnSet(f, T) = f[y] + SumFunctionOnSet(f, T \ {y})}
<1>1. {} \in Good
  OBVIOUS
<1>2. ASSUME NEW T \in SUBSET S, T # {}, \A y \in T : T \ {y} \in Good PROVE T \in Good
  <2> SUFFICES ASSUME NEW y \in T
               PROVE  SumFunctionOnSet(f, T) = f[y] + SumFunctionOnSet(f, T \ {y})
    OBVIOUS
  <2> DEFINE z == Pick(T)
             R == T \ {y, z}
  <2>1. IsFiniteSet(T) /\ z \in T
    BY PickIn, FS_Subset
  <2>2. SumFunctionOnSet(f, T) = f[z] + SumFunctionOnSet(f, T \ {z})
    BY <2>1, SumPick
  <2> HIDE DEF z
  <2>3. CASE y = z
    BY <2>2, <2>3
  <2>4. CASE y # z
    <3>1. /\ T \ {z} \in Good /\ y \in T \ {z} /\ (T \ {z}) \ {y} = R
          /\ T \ {y} \in Good /\ z \in T \ {y} /\ (T \ {y}) \ {z} = R
      BY <1>2, <2>1, <2>4
    <3>2. /\ SumFunctionOnSet(f, T \ {z}) = f[y] + SumFunctionOnSet(f, R)
          /\ SumFunctionOnSet(f, T \ {y}) = f[z] + SumFunctionOnSet(f, R)
      BY <3>1
    <3>3. SumFunctionOnSet(f, R) \in Int /\ f[y] \in Int /\ f[z] \in Int
      <4>1. R \in SUBSET S /\ IsFiniteSet(R)
        BY <2>1, FS_Subset
      <4>. QED BY <2>1, <4>1, SumType
    <3>. QED BY <2>2, <3>2, <3>3
  <2>. QED BY <2>3, <2>4
<1> HIDE DEF Good
<1>3. S \in Good
  BY <1>1, <1>2, ByRemoval
<1>. QED BY <1>3 DEF Good

(* Sums of the same terms are the same. *)
LEMMA SumSame ==
  ASSUME NEW S, IsFiniteSet(S), NEW f, NEW g, \A x \in S : f[x] = g[x]
  PROVE  SumFunctionOnSet(f, S) = SumFunctionOnSet(g, S)
<1> DEFINE Good == {T \in SUBSET S : SumFunctionOnSet(f, T) = SumFunctionOnSet(g, T)}
<1>1. {} \in Good
  BY SumEmpty
<1>2. ASSUME NEW T \in SUBSET S, T # {}, \A x \in T : T \ {x} \in Good PROVE T \in Good
  <2>1. IsFiniteSet(T) /\ Pick(T) \in T
    BY <1>2, PickIn, FS_Subset
  <2>2. /\ SumFunctionOnSet(f, T) = f[Pick(T)] + SumFunctionOnSet(f, T \ {Pick(T)})
        /\ SumFunctionOnSet(g, T) = g[Pick(T)] + SumFunctionOnSet(g, T \ {Pick(T)})
    BY <1>2, <2>1, SumPick
  <2>3. /\ f[Pick(T)] = g[Pick(T)]
        /\ SumFunctionOnSet(f, T \ {Pick(T)}) = SumFunctionOnSet(g, T \ {Pick(T)})
    BY <1>2, <2>1
  <2>. QED BY <2>2, <2>3
<1> HIDE DEF Good
<1>3. S \in Good
  BY <1>1, <1>2, ByRemoval
<1>. QED BY <1>3 DEF Good

(* A sum of larger terms is larger. *)
LEMMA SumMonotone ==
  ASSUME NEW S, IsFiniteSet(S), NEW f, NEW g,
         \A x \in S : f[x] \in Int /\ g[x] \in Int /\ f[x] <= g[x]
  PROVE  SumFunctionOnSet(f, S) <= SumFunctionOnSet(g, S)
<1> DEFINE Good == {T \in SUBSET S : SumFunctionOnSet(f, T) <= SumFunctionOnSet(g, T)}
<1>1. {} \in Good
  BY SumEmpty
<1>2. ASSUME NEW T \in SUBSET S, T # {}, \A x \in T : T \ {x} \in Good PROVE T \in Good
  <2>1. PICK x \in T : TRUE
    BY <1>2
  <2>2. IsFiniteSet(T) /\ IsFiniteSet(T \ {x})
    BY FS_Subset
  <2>3. /\ SumFunctionOnSet(f, T) = f[x] + SumFunctionOnSet(f, T \ {x})
        /\ SumFunctionOnSet(g, T) = g[x] + SumFunctionOnSet(g, T \ {x})
    BY <2>2, SumRemove
  <2>4. SumFunctionOnSet(f, T \ {x}) \in Int /\ SumFunctionOnSet(g, T \ {x}) \in Int
    BY <2>2, SumType
  <2>5. SumFunctionOnSet(f, T \ {x}) <= SumFunctionOnSet(g, T \ {x})
    BY <1>2
  <2>. QED BY <2>3, <2>4, <2>5
<1> HIDE DEF Good
<1>3. S \in Good
  BY <1>1, <1>2, ByRemoval
<1>. QED BY <1>3 DEF Good

(* A sum of terms that are not negative is no less than a part of it. *)
LEMMA SumPart ==
  ASSUME NEW S, IsFiniteSet(S), NEW f, \A x \in S : f[x] \in Nat, NEW R \in SUBSET S
  PROVE  SumFunctionOnSet(f, R) <= SumFunctionOnSet(f, S)
<1> DEFINE Good == {T \in SUBSET S : \A U \in SUBSET T :
                      SumFunctionOnSet(f, U) <= SumFunctionOnSet(f, T)}
<1>1. {} \in Good
  BY SumEmpty
<1>2. ASSUME NEW T \in SUBSET S, T # {}, \A x \in T : T \ {x} \in Good PROVE T \in Good
  <2> SUFFICES ASSUME NEW U \in SUBSET T
               PROVE  SumFunctionOnSet(f, U) <= SumFunctionOnSet(f, T)
    OBVIOUS
  <2>1. IsFiniteSet(T) /\ IsFiniteSet(U)
    BY FS_Subset
  <2>2. /\ SumFunctionOnSet(f, T) \in Int /\ SumFunctionOnSet(f, U) \in Int
    BY <2>1, SumType
  <2>3. CASE U = T
    BY <2>2, <2>3
  <2>4. CASE U # T
    <3>1. PICK x \in T : x \notin U
      BY <2>4
    <3>2. SumFunctionOnSet(f, T) = f[x] + SumFunctionOnSet(f, T \ {x})
      BY <2>1, SumRemove
    <3>3. U \in SUBSET (T \ {x}) /\ T \ {x} \in Good
      BY <1>2, <3>1
    <3>4. SumFunctionOnSet(f, U) <= SumFunctionOnSet(f, T \ {x})
      BY <3>3
    <3>5. SumFunctionOnSet(f, T \ {x}) \in Int /\ f[x] \in Nat
      <4>1. IsFiniteSet(T \ {x})
        BY <2>1, FS_Subset
      <4>. QED BY <4>1, SumType
    <3>. QED BY <2>2, <3>2, <3>4, <3>5
  <2>. QED BY <2>3, <2>4
<1> HIDE DEF Good
<1>3. S \in Good
  BY <1>1, <1>2, ByRemoval
<1>. QED BY <1>3 DEF Good

(* A sum of terms of at most one counts at most the elements. *)
LEMMA SumAtMostOnes ==
  ASSUME NEW S, IsFiniteSet(S), NEW f, \A x \in S : f[x] \in Int /\ f[x] <= 1
  PROVE  SumFunctionOnSet(f, S) <= Cardinality(S)
<1> DEFINE Good == {T \in SUBSET S : SumFunctionOnSet(f, T) <= Cardinality(T)}
<1>1. {} \in Good
  BY SumEmpty, FS_EmptySet
<1>2. ASSUME NEW T \in SUBSET S, T # {}, \A x \in T : T \ {x} \in Good PROVE T \in Good
  <2>1. PICK x \in T : TRUE
    BY <1>2
  <2>2. IsFiniteSet(T) /\ IsFiniteSet(T \ {x})
    BY FS_Subset
  <2>3. SumFunctionOnSet(f, T) = f[x] + SumFunctionOnSet(f, T \ {x})
    BY <2>2, SumRemove
  <2>4. SumFunctionOnSet(f, T \ {x}) \in Int
    BY <2>2, SumType
  <2>5. SumFunctionOnSet(f, T \ {x}) <= Cardinality(T \ {x})
    BY <1>2
  <2>6. Cardinality(T \ {x}) = Cardinality(T) - 1 /\ Cardinality(T) \in Nat
    BY <2>1, <2>2, FS_RemoveElement, FS_CardinalityType
  <2>. QED BY <2>3, <2>4, <2>5, <2>6
<1> HIDE DEF Good
<1>3. S \in Good
  BY <1>1, <1>2, ByRemoval
<1>. QED BY <1>3 DEF Good

(* How often an entry of a list has a value, added up over values, is how    *)
(* many entries have one of them.                                           *)
LEMMA CountByValue ==
  ASSUME NEW D, IsFiniteSet(D), NEW s, NEW S, IsFiniteSet(S), NEW c,
         NEW At, \A x \in S : \A i : i \in At[x] <=> i \in D /\ s[i] = x,
         \A x \in S : c[x] = Cardinality(At[x]),
         NEW All, \A i : i \in All <=> i \in D /\ s[i] \in S
  PROVE  SumFunctionOnSet(c, S) = Cardinality(All)
<1>a. ASSUME NEW x \in S PROVE c[x] = Cardinality({i \in D : s[i] = x})
  <2>1. At[x] = {i \in D : s[i] = x}
    OBVIOUS
  <2>. QED BY <2>1
<1>b. All = {i \in D : s[i] \in S}
  OBVIOUS
<1> DEFINE Good == {T \in SUBSET S : SumFunctionOnSet(c, T) = Cardinality({i \in D : s[i] \in T})}
<1>0. \A A \in SUBSET D : IsFiniteSet(A) /\ Cardinality(A) \in Nat
  BY FS_Subset, FS_CardinalityType
<1>1. {} \in Good
  <2>1. {i \in D : s[i] \in {}} = {}
    OBVIOUS
  <2>. QED BY <2>1, SumEmpty, FS_EmptySet
<1>2. ASSUME NEW T \in SUBSET S, T # {}, \A x \in T : T \ {x} \in Good PROVE T \in Good
  <2>1. PICK x \in T : TRUE
    BY <1>2
  <2> DEFINE A == {i \in D : s[i] = x}
             B == {i \in D : s[i] \in T \ {x}}
  <2>2. IsFiniteSet(T)
    BY FS_Subset
  <2>3. \A y \in T : c[y] \in Int
    <3>1. ASSUME NEW y \in T PROVE c[y] \in Int
      <4>1. c[y] = Cardinality({i \in D : s[i] = y}) /\ {i \in D : s[i] = y} \in SUBSET D
        BY <1>a
      <4>. QED BY <1>0, <4>1
    <3>. QED BY <3>1
  <2>4. SumFunctionOnSet(c, T) = c[x] + SumFunctionOnSet(c, T \ {x})
    BY <2>2, <2>3, SumRemove
  <2>5. SumFunctionOnSet(c, T \ {x}) = Cardinality(B) /\ c[x] = Cardinality(A)
    BY <1>2, <1>a
  <2>6. {i \in D : s[i] \in T} = A \cup B /\ A \cap B = {} /\ A \in SUBSET D /\ B \in SUBSET D
    OBVIOUS
  <2> HIDE DEF A, B
  <2>7. Cardinality(A \cup B) = Cardinality(A) + Cardinality(B)
    <3>1. Cardinality(A \cup B) = Cardinality(A) + Cardinality(B) - Cardinality(A \cap B)
      BY <1>0, <2>6, FS_Union
    <3>2. Cardinality(A \cap B) = 0
      BY <2>6, FS_EmptySet
    <3>. QED BY <1>0, <2>6, <3>1, <3>2
  <2>. QED BY <2>4, <2>5, <2>6, <2>7
<1> HIDE DEF Good
<1>3. S \in Good
  BY <1>1, <1>2, ByRemoval
<1>. QED BY <1>3, <1>b DEF Good


(* Among finitely many integers one is smallest. *)
LEMMA Smallest ==
  ASSUME NEW W, IsFiniteSet(W), W \in SUBSET Int, W # {}
  PROVE  \E x \in W : \A y \in W : x <= y
<1> DEFINE Good == {T \in SUBSET W : T # {} => \E x \in T : \A y \in T : x <= y}
<1>1. {} \in Good
  OBVIOUS
<1>2. ASSUME NEW T \in SUBSET W, T # {}, \A x \in T : T \ {x} \in Good PROVE T \in Good
  <2>1. PICK a \in T : TRUE
    BY <1>2
  <2>2. CASE T \ {a} = {}
    <3>1. \A y \in T : a <= y
      BY <2>2
    <3>. QED BY <3>1
  <2>3. CASE T \ {a} # {}
    <3>1. PICK b \in T \ {a} : \A y \in T \ {a} : b <= y
      BY <1>2, <2>3
    <3>2. CASE a <= b
      <4>1. \A y \in T : a <= y
        BY <3>1, <3>2
      <4>. QED BY <4>1
    <3>3. CASE ~(a <= b)
      <4>1. \A y \in T : b <= y
        BY <3>1, <3>3
      <4>. QED BY <4>1
    <3>. QED BY <3>2, <3>3
  <2>. QED BY <2>2, <2>3
<1> HIDE DEF Good
<1>3. W \in Good
  BY <1>1, <1>2, ByRemoval
<1>. QED BY <1>3 DEF Good

(* What never rises from one place to the next never rises.                 *)
LEMMA NeverRises ==
  ASSUME NEW m \in Int, NEW f, \A x \in 0 .. m - 1 : f[x] \in Int,
         \A x \in 1 .. m - 1 : f[x - 1] >= f[x],
         NEW a \in 0 .. m - 1, NEW b \in 0 .. m - 1, a < b
  PROVE  f[a] >= f[b]
<1> SUFFICES ASSUME f[a] < f[b] PROVE FALSE
  OBVIOUS
<1> DEFINE W == {x \in 0 .. m - 1 : a < x /\ f[a] < f[x]}
<1>1. IsFiniteSet(0 .. m - 1)
  BY FS_Interval
<1>2. IsFiniteSet(W) /\ W \in SUBSET Int /\ W # {}
  BY <1>1, FS_Subset
<1>3. PICK c \in W : \A y \in W : c <= y
  BY <1>2, Smallest
<1>4. c \in 1 .. m - 1 /\ c - 1 \in 0 .. m - 1 /\ f[c - 1] >= f[c] /\ f[a] < f[c] /\ a < c
  BY <1>3
<1>5. a # c - 1 => c - 1 \in W
  BY <1>4
<1>. QED BY <1>3, <1>4, <1>5

=============================================================================
