--------------------------- MODULE Ranking_proofs ---------------------------
(***************************************************************************)
(* Proofs about TopKSelect and PairRanking: the selection finds the best   *)
(* entries of any slice, and what the four lists of a pair mean, for any   *)
(* orders, item types, contributions and times.                            *)
(***************************************************************************)
EXTENDS TopKSelect, PairRanking, Lists_proofs

-----------------------------------------------------------------------------
(* The selection *)

(* What is before place p is as good as what is not. *)
Parted(p) == \A x, y \in Slots : x < p /\ p <= y => At(x) >= At(y)

(* Types of the selection. *)
SelectTypeOK ==
  /\ n \in Nat
  /\ score \in [Slots -> Int]
  /\ shift \in {0, 1}
  /\ order \in [Slots -> Slots]
  /\ lo \in Int /\ hi \in Int /\ i \in Int /\ j \in Int
  /\ pc \in {"search", "scan", "narrow", "sort", "done"}

(* No entry is lost and none is there twice. *)
Rearranged ==
  /\ \A x, y \in Slots : order[x] = order[y] => x = y
  /\ \A o \in Slots : \E x \in Slots : order[x] = o

Searching == pc \in {"search", "scan", "narrow"}

SearchInv ==
  Searching =>
    /\ k < n
    /\ lo \in Slots /\ hi \in Slots
    /\ lo <= Target /\ Target <= hi
    /\ Parted(lo) /\ Parted(hi + 1)

(* Around the pivot at hi, what the scan has seen is on its side.           *)
ScanInv ==
  pc = "scan" =>
    /\ lo - 1 <= i /\ i < j /\ lo <= j /\ j <= hi
    /\ \A x \in lo .. i : At(x) >= At(hi)
    /\ \A x \in i + 1 .. j - 1 : At(hi) >= At(x)

NarrowInv == pc = "narrow" => i \in lo .. hi /\ Parted(i) /\ Parted(i + 1)

(* What the list is made of, once it is there. *)
ListInv ==
  /\ ListIsTopK
  /\ pc = "done" => \A x \in 1 .. k : dst[x] \in Slots

(* The inductive invariant of the selection. *)
SelectInv ==
  /\ SelectTypeOK
  /\ Rearranged
  /\ SearchInv
  /\ ScanInv
  /\ NarrowInv
  /\ pc = "sort" => Parted(k)
  /\ ListInv

(* k is the length of the list to be. *)
LEMMA KFacts ==
  ASSUME n \in Nat
  PROVE  k \in Nat /\ k <= n /\ (n > 0 => k > 0)
BY SelectAssumption DEF k

(* The score in a slot after a step. *)
NextAt(x) == score'[order'[x]]

(* A swap of two slots moves their entries and no other.                    *)
LEMMA SwapFacts ==
  ASSUME SelectTypeOK, Rearranged, NEW a \in Slots, NEW b \in Slots, order' = Swapped(a, b),
         UNCHANGED <<n, score>>
  PROVE  /\ order' \in [Slots -> Slots]
         /\ Rearranged'
         /\ NextAt(a) = At(b) /\ NextAt(b) = At(a)
         /\ \A x \in Slots \ {a, b} : NextAt(x) = At(x)
<1>1. order \in [Slots -> Slots] /\ n \in Nat
  BY DEF SelectTypeOK
<1>2. /\ order' \in [Slots -> Slots]
      /\ order'[a] = order[b] /\ order'[b] = order[a]
      /\ \A x \in Slots \ {a, b} : order'[x] = order[x]
  BY <1>1 DEF Swapped
<1>3. Slots' = Slots
  BY DEF Slots
<1>4. Rearranged'
  <2>1. ASSUME NEW x \in Slots, NEW y \in Slots, order'[x] = order'[y] PROVE x = y
    BY <1>2, <2>1 DEF Rearranged
  <2>2. ASSUME NEW o \in Slots PROVE \E x \in Slots : order'[x] = o
    <3>1. PICK y \in Slots : order[y] = o
      BY DEF Rearranged
    <3>. QED BY <1>2, <3>1
  <2>. QED BY <1>3, <2>1, <2>2 DEF Rearranged
<1>. QED BY <1>2, <1>4 DEF At, NextAt

(* A swap on one side of a place leaves both sides what they are.           *)
LEMMA SwapKeepsParted ==
  ASSUME SelectTypeOK, Rearranged, NEW a \in Slots, NEW b \in Slots, order' = Swapped(a, b),
         UNCHANGED <<n, score>>, NEW p \in Int, Parted(p), a < p <=> b < p
  PROVE  \A x, y \in Slots : x < p /\ p <= y => NextAt(x) >= NextAt(y)
<1>1. /\ NextAt(a) = At(b) /\ NextAt(b) = At(a)
      /\ \A x \in Slots \ {a, b} : NextAt(x) = At(x)
  BY SwapFacts
<1>2. a \in Int /\ b \in Int
  BY DEF Slots
<1> SUFFICES ASSUME NEW x \in Slots, NEW y \in Slots, x < p, p <= y PROVE NextAt(x) >= NextAt(y)
  OBVIOUS
<1>3. x \in Int /\ y \in Int
  BY DEF Slots
<1>4. \E z \in Slots : z < p /\ NextAt(x) = At(z)
  BY <1>1, <1>2, <1>3
<1>5. \E z \in Slots : p <= z /\ NextAt(y) = At(z)
  BY <1>1, <1>2, <1>3
<1>. QED BY <1>4, <1>5 DEF Parted

(* The slice keeps its length and its scores. *)
LEMMA FixedFacts ==
  ASSUME SelectTypeOK, UNCHANGED <<n, score, shift>>, order' \in [Slots -> Slots],
         lo' \in Int, hi' \in Int, i' \in Int, j' \in Int,
         pc' \in {"search", "scan", "narrow", "sort", "done"}
  PROVE  Slots' = Slots /\ k' = k /\ Target' = Target /\ SelectTypeOK'
<1>1. Slots' = Slots /\ k' = k /\ Target' = Target
  BY DEF Slots, k, Target
<1>. QED BY <1>1 DEF SelectTypeOK

(* The selection starts in the invariant.                                   *)
LEMMA SelectStarts == SelectInit => SelectInv
<1> SUFFICES ASSUME SelectInit PROVE SelectInv
  OBVIOUS
<1>1. n \in Nat /\ score \in [Slots -> Int]
  BY SelectAssumption DEF SelectInit
<1>2. k \in Nat /\ k <= n /\ (n > 0 => k > 0)
  BY <1>1, KFacts
<1>3. SelectTypeOK
  BY <1>1 DEF SelectInit, SelectTypeOK, Slots
<1>4. Rearranged
  BY DEF SelectInit, Rearranged
<1>5. ASSUME Searching
      PROVE  /\ k < n /\ lo \in Slots /\ hi \in Slots /\ lo <= Target /\ Target <= hi
             /\ Parted(lo) /\ Parted(hi + 1)
  <2>1. 0 < k /\ k < n
    BY <1>1, <1>2, <1>5 DEF SelectInit, Searching
  <2>2. lo = 0 /\ hi = n - 1 /\ hi + 1 = n /\ shift \in {0, 1}
    BY <1>1 DEF SelectInit
  <2>3. Parted(0) /\ Parted(n)
    BY <1>1 DEF Parted, Slots
  <2>4. 0 <= Target /\ Target <= n - 1
    BY <1>1, <1>2, <2>1, <2>2 DEF Target
  <2>5. 0 \in Slots /\ n - 1 \in Slots
    BY <1>1, <1>2, <2>1 DEF Slots
  <2>. QED BY <2>1, <2>2, <2>3, <2>4, <2>5
<1>6. pc = "sort" => Parted(k)
  <2>1. Parted(n)
    BY <1>1 DEF Parted, Slots, At, NextAt
  <2>. QED BY <1>2, <2>1 DEF SelectInit
<1>7. ScanInv /\ NarrowInv
  BY DEF SelectInit, ScanInv, NarrowInv
<1>8. ListInv
  <2> SUFFICES ASSUME pc = "done"
               PROVE  /\ Len(dst) = k
                      /\ \A x, y \in 1 .. k : x < y => dst[x] # dst[y] /\ score[dst[x]] >= score[dst[y]]
                      /\ \A o \in Slots \ {dst[x] : x \in 1 .. k} : k > 0 => score[o] <= score[dst[k]]
                      /\ \A x \in 1 .. k : dst[x] \in Slots
    BY DEF ListInv, ListIsTopK
  <2>1. k = 0 /\ dst = << >>
    BY DEF SelectInit
  <2>. QED BY <2>1
<1>. QED BY <1>3, <1>4, <1>5, <1>6, <1>7, <1>8 DEF SelectInv, SearchInv

(* The pivot of a partition is one of the three slots it is chosen from.    *)
LEMMA MedianIn == \A a, b, c : MedianOfThree(a, b, c) \in {a, b, c}
BY DEF MedianOfThree

(* Moving the pivot to the end of the range disturbs nothing outside it.    *)
LEMMA PivotStep == SelectInv /\ Pivot => SelectInv'
<1> SUFFICES ASSUME SelectInv, Pivot PROVE SelectInv'
  OBVIOUS
<1> DEFINE m == MedianOfThree(lo, lo + (hi - lo) \div 2, hi)
<1>1. /\ SelectTypeOK /\ Rearranged /\ lo \in Int /\ hi \in Int /\ n \in Nat
      /\ k < n /\ lo \in Slots /\ hi \in Slots /\ lo <= Target /\ Target <= hi
      /\ Parted(lo) /\ Parted(hi + 1) /\ lo < hi
  BY DEF SelectInv, SelectTypeOK, SearchInv, Searching, Pivot
<1>2. lo + (hi - lo) \div 2 \in lo .. hi
  BY <1>1
<1>3. m \in lo .. hi /\ m \in Slots /\ hi \in Slots
  BY <1>1, <1>2, MedianIn DEF Slots
<1> HIDE DEF m
<1>4. /\ order' = Swapped(m, hi) /\ UNCHANGED <<n, score, shift, lo, hi, dst>>
      /\ i' = lo - 1 /\ j' = lo /\ pc' = "scan"
  BY DEF Pivot, fixed, m
<1>5. order' \in [Slots -> Slots] /\ Rearranged'
  BY <1>1, <1>3, <1>4, SwapFacts
<1>a. i' \in Int /\ j' \in Int /\ lo' \in Int /\ hi' \in Int
  BY <1>1, <1>4
<1>b. Slots' = Slots /\ k' = k /\ Target' = Target /\ SelectTypeOK'
  BY <1>1, <1>4, <1>5, <1>a, FixedFacts
<1>6. Parted(lo)' /\ Parted(hi + 1)'
  <2>1. \A x, y \in Slots : x < lo /\ lo <= y => NextAt(x) >= NextAt(y)
    BY <1>1, <1>3, <1>4, SwapKeepsParted
  <2>2. \A x, y \in Slots : x < hi + 1 /\ hi + 1 <= y => NextAt(x) >= NextAt(y)
    BY <1>1, <1>3, <1>4, SwapKeepsParted
  <2>. QED BY <1>4, <2>1, <2>2 DEF Parted, Slots, At, NextAt
<1>7. SearchInv'
  BY <1>1, <1>4, <1>6, <1>b DEF SearchInv
<1>8. ScanInv'
  BY <1>1, <1>4 DEF ScanInv
<1>9. NarrowInv' /\ (pc = "sort" => Parted(k))' /\ ListInv'
  BY <1>4 DEF NarrowInv, ListInv, ListIsTopK
<1>. QED BY <1>5, <1>b, <1>7, <1>8, <1>9 DEF SelectInv

(* One iteration of the partition keeps its two sides.                      *)
LEMMA ScanStep == SelectInv /\ Scan => SelectInv'
<1> SUFFICES ASSUME SelectInv, Scan PROVE SelectInv'
  OBVIOUS
<1>1. /\ SelectTypeOK /\ Rearranged /\ lo \in Int /\ hi \in Int /\ i \in Int /\ j \in Int /\ n \in Nat
      /\ k < n /\ lo \in Slots /\ hi \in Slots /\ lo <= Target /\ Target <= hi
      /\ Parted(lo) /\ Parted(hi + 1)
      /\ lo - 1 <= i /\ i < j /\ lo <= j /\ j < hi /\ pc = "scan"
      /\ \A x \in lo .. i : At(x) >= At(hi)
      /\ \A x \in i + 1 .. j - 1 : At(hi) >= At(x)
  BY DEF SelectInv, SelectTypeOK, SearchInv, ScanInv, Searching, Scan
<1>2. UNCHANGED <<n, score, shift, lo, hi, pc, dst>> /\ j' = j + 1
  BY DEF Scan, fixed
<1>3. (NarrowInv /\ (pc = "sort" => Parted(k)) /\ ListInv)'
  BY <1>1, <1>2 DEF NarrowInv, ListInv, ListIsTopK
<1>4. CASE At(j) >= At(hi)
  <2>1. i' = i + 1 /\ order' = Swapped(i + 1, j)
    BY <1>4 DEF Scan
  <2>2. i + 1 \in Slots /\ j \in Slots /\ i + 1 # hi /\ j # hi
    BY <1>1 DEF Slots
  <2>3. /\ order' \in [Slots -> Slots] /\ Rearranged'
        /\ NextAt(i + 1) = At(j) /\ NextAt(j) = At(i + 1)
        /\ \A x \in Slots \ {i + 1, j} : NextAt(x) = At(x)
    BY <1>1, <1>2, <2>1, <2>2, SwapFacts
  <2>a. i' \in Int /\ j' \in Int /\ lo' \in Int /\ hi' \in Int
    BY <1>1, <1>2, <2>1
  <2>4. Slots' = Slots /\ k' = k /\ Target' = Target /\ SelectTypeOK'
    BY <1>1, <1>2, <2>3, <2>a, FixedFacts
  <2>5. Parted(lo)' /\ Parted(hi + 1)'
    <3>1. \A x, y \in Slots : x < lo /\ lo <= y => NextAt(x) >= NextAt(y)
      BY <1>1, <1>2, <2>1, <2>2, SwapKeepsParted
    <3>2. \A x, y \in Slots : x < hi + 1 /\ hi + 1 <= y => NextAt(x) >= NextAt(y)
      BY <1>1, <1>2, <2>1, <2>2, SwapKeepsParted
    <3>. QED BY <1>2, <3>1, <3>2 DEF Parted, Slots, At, NextAt
  <2>6. SearchInv'
    BY <1>1, <1>2, <2>4, <2>5 DEF SearchInv
  <2>7. \A x \in lo .. hi : x \in Slots
    BY <1>1 DEF Slots
  <2>8. NextAt(hi) = At(hi)
    BY <1>1, <2>2, <2>3
  <2>9. ASSUME NEW x \in lo .. i + 1 PROVE NextAt(x) >= NextAt(hi)
    <3>1. (x \in lo .. hi /\ x # j) \/ x = i + 1
      BY <1>1
    <3>. QED BY <1>1, <1>4, <2>3, <2>7, <2>8, <2>9, <3>1
  <2>10. ASSUME NEW x \in i + 2 .. j PROVE NextAt(hi) >= NextAt(x)
    <3>1. x = j => NextAt(x) = At(i + 1) /\ i + 1 \in i + 1 .. j - 1
      BY <1>1, <2>3, <2>10
    <3>2. x # j => NextAt(x) = At(x) /\ x \in i + 1 .. j - 1
      BY <1>1, <2>3, <2>7, <2>10
    <3>. QED BY <1>1, <2>8, <3>1, <3>2
  <2>11. ScanInv'
    <3>1. i' = i + 1 /\ j' = j + 1 /\ lo' = lo /\ hi' = hi /\ i + 1 + 1 = i + 2 /\ j + 1 - 1 = j
      BY <1>1, <1>2, <2>1
    <3>. QED BY <1>1, <2>9, <2>10, <3>1 DEF ScanInv, At, NextAt
  <2>. QED BY <1>3, <2>3, <2>4, <2>6, <2>11 DEF SelectInv
<1>5. CASE ~(At(j) >= At(hi))
  <2>1. UNCHANGED <<i, order>>
    BY <1>5 DEF Scan
  <2>a. /\ i' \in Int /\ j' \in Int /\ lo' \in Int /\ hi' \in Int
        /\ order' \in [Slots -> Slots]
    BY <1>1, <1>2, <2>1 DEF SelectTypeOK
  <2>b. Slots' = Slots /\ k' = k /\ Target' = Target /\ SelectTypeOK'
    BY <1>1, <1>2, <2>a, FixedFacts
  <2>2. Rearranged'
    BY <1>1, <2>1, <2>b DEF Rearranged
  <2>3. SearchInv'
    <3>1. Parted(lo)' /\ Parted(hi + 1)'
      BY <1>1, <1>2, <2>1 DEF Parted, At, Slots
    <3>. QED BY <1>1, <1>2, <2>b, <3>1 DEF SearchInv
  <2>4. At(hi) \in Int /\ At(j) \in Int
    <3>1. hi \in Slots /\ j \in Slots
      BY <1>1 DEF Slots
    <3>. QED BY <1>1, <3>1 DEF SelectTypeOK, At
  <2>5. \A x \in i + 1 .. j : At(hi) >= At(x)
    <3>1. \A x \in i + 1 .. j : x = j \/ x \in i + 1 .. j - 1
      BY <1>1
    <3>. QED BY <1>1, <1>5, <2>4, <3>1
  <2>6. ScanInv'
    <3>1. i' = i /\ j' = j + 1 /\ lo' = lo /\ hi' = hi /\ j + 1 - 1 = j
      BY <1>1, <1>2, <2>1
    <3>2. \A x : NextAt(x) = At(x)
      BY <1>2, <2>1 DEF At, NextAt
    <3>3. /\ \A x \in lo .. i : NextAt(x) >= NextAt(hi)
          /\ \A x \in i + 1 .. j : NextAt(hi) >= NextAt(x)
      BY <1>1, <2>5, <3>2
    <3>. QED BY <1>1, <3>1, <3>3 DEF ScanInv, At, NextAt
  <2>. QED BY <1>3, <2>2, <2>b, <2>3, <2>6 DEF SelectInv
<1>. QED BY <1>4, <1>5

(* The pivot parts the slice at its place.                                  *)
LEMMA PlaceStep == SelectInv /\ Place => SelectInv'
<1> SUFFICES ASSUME SelectInv, Place PROVE SelectInv'
  OBVIOUS
<1> DEFINE p == i + 1
<1>1. /\ SelectTypeOK /\ Rearranged /\ lo \in Int /\ hi \in Int /\ i \in Int /\ j \in Int /\ n \in Nat
      /\ k < n /\ lo \in Slots /\ hi \in Slots /\ lo <= Target /\ Target <= hi
      /\ Parted(lo) /\ Parted(hi + 1)
      /\ lo - 1 <= i /\ i < j /\ lo <= j /\ j = hi /\ pc = "scan"
      /\ \A x \in lo .. i : At(x) >= At(hi)
      /\ \A x \in i + 1 .. hi - 1 : At(hi) >= At(x)
  BY DEF SelectInv, SelectTypeOK, SearchInv, ScanInv, Searching, Place
<1>2. /\ order' = Swapped(p, hi) /\ UNCHANGED <<n, score, shift, lo, hi, j, dst>>
      /\ i' = p /\ pc' = "narrow"
  BY DEF Place, fixed
<1>3. p \in Slots /\ p \in Int /\ p \in lo .. hi
  BY <1>1 DEF Slots
<1> HIDE DEF p
<1>4. /\ order' \in [Slots -> Slots] /\ Rearranged'
      /\ NextAt(p) = At(hi) /\ NextAt(hi) = At(p)
      /\ \A x \in Slots \ {p, hi} : NextAt(x) = At(x)
  BY <1>1, <1>2, <1>3, SwapFacts
<1>5. i' \in Int /\ j' \in Int /\ lo' \in Int /\ hi' \in Int
  BY <1>1, <1>2, <1>3
<1>6. Slots' = Slots /\ k' = k /\ Target' = Target /\ SelectTypeOK'
  BY <1>1, <1>2, <1>4, <1>5, FixedFacts
<1>7. /\ \A x, y \in Slots : x < lo /\ lo <= y => NextAt(x) >= NextAt(y)
      /\ \A x, y \in Slots : x < hi + 1 /\ hi + 1 <= y => NextAt(x) >= NextAt(y)
  <2>1. \A x, y \in Slots : x < lo /\ lo <= y => NextAt(x) >= NextAt(y)
    BY <1>1, <1>2, <1>3, SwapKeepsParted
  <2>2. \A x, y \in Slots : x < hi + 1 /\ hi + 1 <= y => NextAt(x) >= NextAt(y)
    BY <1>1, <1>2, <1>3, SwapKeepsParted
  <2>. QED BY <2>1, <2>2
<1>8. SearchInv'
  <2>1. Parted(lo)' /\ Parted(hi + 1)'
    BY <1>2, <1>6, <1>7 DEF Parted, At, NextAt
  <2>. QED BY <1>1, <1>2, <1>6, <2>1 DEF SearchInv
<1>9. \A x \in Slots : At(x) \in Int /\ NextAt(x) \in Int
  BY <1>1, <1>2, <1>4 DEF SelectTypeOK, At, NextAt
<1>10. ASSUME NEW x \in lo .. p - 1 PROVE x \in Slots /\ NextAt(x) >= NextAt(p)
  <2>1. x \in Slots /\ x \in lo .. i /\ x # p /\ x # hi
    BY <1>1, <1>3 DEF p, Slots
  <2>. QED BY <1>1, <1>4, <2>1
<1>11. ASSUME NEW x \in p .. hi PROVE x \in Slots /\ NextAt(p) >= NextAt(x)
  <2>1. x \in Slots
    BY <1>1, <1>3 DEF Slots
  <2>2. x \in p .. hi - 1 => At(hi) >= At(x)
    BY <1>1 DEF p
  <2>3. x = p => NextAt(p) >= NextAt(x)
    BY <1>3, <1>9
  <2>4. x # p /\ x # hi => NextAt(p) >= NextAt(x)
    BY <1>1, <1>3, <1>4, <2>1, <2>2
  <2>5. x # p /\ x = hi => NextAt(p) >= NextAt(x)
    <3>1. p # hi => p \in p .. hi - 1
      BY <1>1, <1>3
    <3>2. p # hi => At(hi) >= At(p)
      BY <1>1, <3>1 DEF p
    <3>. QED BY <1>4, <3>2
  <2>. QED BY <2>1, <2>3, <2>4, <2>5
<1>12. ASSUME NEW x \in Slots, NEW y \in Slots, x < p, p <= y PROVE NextAt(x) >= NextAt(y)
  <2>1. x \in Int /\ y \in Int
    BY DEF Slots
  <2>2. CASE x < lo \/ hi < y
    BY <1>1, <1>3, <1>7, <1>12, <2>1, <2>2
  <2>3. CASE ~(x < lo) /\ ~(hi < y)
    <3>1. x \in lo .. p - 1 /\ y \in p .. hi
      BY <1>1, <1>3, <1>12, <2>1, <2>3
    <3>. QED BY <1>3, <1>9, <1>10, <1>11, <3>1
  <2>. QED BY <2>2, <2>3
<1>13. ASSUME NEW x \in Slots, NEW y \in Slots, x < p + 1, p + 1 <= y PROVE NextAt(x) >= NextAt(y)
  <2>1. x \in Int /\ y \in Int /\ x <= p /\ p < y
    BY <1>3, <1>13 DEF Slots
  <2>2. CASE x # p
    <3>1. x < p /\ p <= y
      BY <1>3, <2>1, <2>2
    <3>. QED BY <1>12, <3>1
  <2>3. CASE x = p /\ hi < y
    BY <1>1, <1>3, <1>7, <2>1, <2>3
  <2>4. CASE x = p /\ ~(hi < y)
    <3>1. y \in p .. hi
      BY <1>1, <1>3, <2>1, <2>4
    <3>. QED BY <1>11, <2>4, <3>1
  <2>. QED BY <2>2, <2>3, <2>4
<1>14. NarrowInv'
  <2>1. i' \in lo' .. hi'
    BY <1>2, <1>3
  <2>2. Parted(i)' /\ Parted(i + 1)'
    BY <1>2, <1>6, <1>12, <1>13 DEF Parted, At, NextAt
  <2>. QED BY <2>1, <2>2 DEF NarrowInv
<1>15. ScanInv' /\ (pc = "sort" => Parted(k))' /\ ListInv'
  BY <1>2 DEF ScanInv, ListInv, ListIsTopK
<1>. QED BY <1>4, <1>6, <1>8, <1>14, <1>15 DEF SelectInv

(* Which way the search goes on depends on where the pivot ended up.        *)
LEMMA NarrowCases ==
  ASSUME i \in Int, Target \in Int, Narrow
  PROVE  \/ i = Target /\ pc' = "sort" /\ UNCHANGED <<lo, hi>>
         \/ i < Target /\ pc' = "search" /\ lo' = i + 1 /\ UNCHANGED hi
         \/ i > Target /\ pc' = "search" /\ hi' = i - 1 /\ UNCHANGED lo
<1>1. CASE i = Target
  BY <1>1 DEF Narrow
<1>2. CASE i < Target
  <2>1. ~(i = Target) /\ ~(i > Target)
    BY <1>2
  <2>. QED BY <1>2, <2>1 DEF Narrow
<1>3. CASE i > Target
  <2>1. ~(i = Target) /\ ~(i < Target)
    BY <1>3
  <2>. QED BY <1>3, <2>1 DEF Narrow
<1>. QED BY <1>1, <1>2, <1>3

(* The range that is left holds the place the search is for.                *)
LEMMA NarrowStep == SelectInv /\ Narrow => SelectInv'
<1> SUFFICES ASSUME SelectInv, Narrow PROVE SelectInv'
  OBVIOUS
<1>1. /\ SelectTypeOK /\ Rearranged /\ lo \in Int /\ hi \in Int /\ i \in Int /\ j \in Int /\ n \in Nat
      /\ shift \in {0, 1} /\ k < n /\ lo \in Slots /\ hi \in Slots /\ lo <= Target /\ Target <= hi
      /\ Parted(lo) /\ Parted(hi + 1)
      /\ i \in lo .. hi /\ Parted(i) /\ Parted(i + 1)
  BY DEF SelectInv, SelectTypeOK, SearchInv, NarrowInv, Searching, Narrow
<1>2. UNCHANGED <<n, score, shift, order, i, j, dst>>
  BY DEF Narrow, fixed
<1>3. k \in Nat /\ Target \in Int
  BY <1>1, KFacts DEF Target
<1>4. \/ i = Target /\ pc' = "sort" /\ UNCHANGED <<lo, hi>>
      \/ i < Target /\ pc' = "search" /\ lo' = i + 1 /\ UNCHANGED hi
      \/ i > Target /\ pc' = "search" /\ hi' = i - 1 /\ UNCHANGED lo
  BY <1>1, <1>3, NarrowCases
<1>5. /\ i' \in Int /\ j' \in Int /\ lo' \in Int /\ hi' \in Int
      /\ order' \in [Slots -> Slots] /\ pc' \in {"search", "sort"}
  BY <1>1, <1>2, <1>4 DEF SelectTypeOK
<1>6. Slots' = Slots /\ k' = k /\ Target' = Target /\ SelectTypeOK'
  BY <1>1, <1>2, <1>5, FixedFacts
<1>7. \A x : Parted(x)' <=> Parted(x)
  BY <1>2, <1>6 DEF Parted, At
<1>8. Rearranged'
  BY <1>1, <1>2, <1>6 DEF Rearranged
<1>9. ScanInv' /\ NarrowInv' /\ ListInv'
  BY <1>5 DEF ScanInv, NarrowInv, ListInv, ListIsTopK
<1>10. CASE i = Target /\ pc' = "sort" /\ UNCHANGED <<lo, hi>>
  <2>1. k = i \/ k = i + 1
    BY <1>1, <1>3, <1>10 DEF Target
  <2>2. Parted(k)
    BY <1>1, <2>1
  <2>3. Parted(k)'
    BY <1>2, <1>6, <2>2 DEF Parted, At
  <2>4. SearchInv'
    BY <1>10 DEF SearchInv, Searching
  <2>. QED BY <1>6, <1>8, <1>9, <2>3, <2>4 DEF SelectInv
<1>11. CASE i < Target /\ pc' = "search" /\ lo' = i + 1 /\ UNCHANGED hi
  <2>1. Parted(lo)' /\ Parted(hi + 1)'
    BY <1>1, <1>2, <1>6, <1>11 DEF Parted, At
  <2>2. lo' \in Slots /\ lo' <= Target /\ Target <= hi'
    BY <1>1, <1>3, <1>11 DEF Slots
  <2>3. SearchInv'
    BY <1>1, <1>2, <1>6, <1>11, <2>1, <2>2 DEF SearchInv
  <2>. QED BY <1>6, <1>8, <1>9, <1>11, <2>3 DEF SelectInv
<1>12. CASE i > Target /\ pc' = "search" /\ hi' = i - 1 /\ UNCHANGED lo
  <2>1. Parted(lo)' /\ Parted(hi + 1)'
    <3>1. hi' + 1 = i
      BY <1>1, <1>12
    <3>. QED BY <1>1, <1>2, <1>6, <1>12, <3>1 DEF Parted, At
  <2>2. hi' \in Slots /\ lo' <= Target /\ Target <= hi'
    BY <1>1, <1>3, <1>12 DEF Slots
  <2>3. SearchInv'
    BY <1>1, <1>2, <1>6, <1>12, <2>1, <2>2 DEF SearchInv
  <2>. QED BY <1>6, <1>8, <1>9, <1>12, <2>3 DEF SelectInv
<1>. QED BY <1>4, <1>10, <1>11, <1>12

(* A range of one slot is at that place.                                    *)
LEMMA EndStep == SelectInv /\ SearchEnds => SelectInv'
<1> SUFFICES ASSUME SelectInv, SearchEnds PROVE SelectInv'
  OBVIOUS
<1>1. /\ SelectTypeOK /\ Rearranged /\ lo \in Int /\ hi \in Int /\ i \in Int /\ j \in Int /\ n \in Nat
      /\ shift \in {0, 1} /\ lo <= Target /\ Target <= hi /\ lo >= hi
      /\ Parted(lo) /\ Parted(hi + 1)
  BY DEF SelectInv, SelectTypeOK, SearchInv, Searching, SearchEnds
<1>2. UNCHANGED <<n, score, shift, order, lo, hi, i, j, dst>> /\ pc' = "sort"
  BY DEF SearchEnds, fixed
<1>3. /\ i' \in Int /\ j' \in Int /\ lo' \in Int /\ hi' \in Int
      /\ order' \in [Slots -> Slots]
  BY <1>1, <1>2 DEF SelectTypeOK
<1>4. Slots' = Slots /\ k' = k /\ Target' = Target /\ SelectTypeOK'
  BY <1>1, <1>2, <1>3, FixedFacts
<1>5. k = lo \/ k = hi + 1
  <2>1. k \in Nat
    BY <1>1, KFacts
  <2>. QED BY <1>1, <2>1 DEF Target
<1>6. Parted(k)
  BY <1>1, <1>5
<1>7. Parted(k)' /\ Rearranged'
  BY <1>1, <1>2, <1>4, <1>6 DEF Parted, At, Rearranged
<1>8. SearchInv' /\ ScanInv' /\ NarrowInv' /\ ListInv'
  BY <1>2 DEF SearchInv, Searching, ScanInv, NarrowInv, ListInv, ListIsTopK
<1>. QED BY <1>2, <1>4, <1>7, <1>8 DEF SelectInv

(* The sorted prefix is the list of the best entries.                       *)
LEMMA SortStep == SelectInv /\ SortAndCopy => SelectInv'
<1> SUFFICES ASSUME SelectInv, SortAndCopy PROVE SelectInv'
  OBVIOUS
<1>1. SelectTypeOK /\ Rearranged /\ n \in Nat /\ Parted(k)
  BY DEF SelectInv, SelectTypeOK, SortAndCopy
<1>2. k \in Nat /\ k <= n /\ (n > 0 => k > 0)
  BY <1>1, KFacts
<1>3. UNCHANGED <<n, score, shift, order, lo, hi, i, j>> /\ pc' = "done"
  BY DEF SortAndCopy, fixed
<1>4. PICK s \in [0 .. k - 1 -> 0 .. k - 1] :
        /\ \A x, y \in 0 .. k - 1 : x # y => s[x] # s[y]
        /\ \A x \in 1 .. k - 1 : At(s[x - 1]) >= At(s[x])
        /\ dst' = [x \in 1 .. k |-> order[s[x - 1]]]
  BY DEF SortAndCopy
<1>5. /\ i' \in Int /\ j' \in Int /\ lo' \in Int /\ hi' \in Int /\ order' \in [Slots -> Slots]
  BY <1>1, <1>3 DEF SelectTypeOK
<1>6. Slots' = Slots /\ k' = k /\ Target' = Target /\ SelectTypeOK'
  BY <1>1, <1>3, <1>5, FixedFacts
<1>7. \A x \in 0 .. k - 1 : s[x] \in 0 .. k - 1 /\ s[x] \in Slots /\ At(s[x]) \in Int
  <2>1. ASSUME NEW x \in 0 .. k - 1 PROVE s[x] \in 0 .. k - 1 /\ s[x] \in Slots
    BY <1>1, <1>2 DEF Slots
  <2>. QED BY <1>1, <2>1 DEF SelectTypeOK, At
<1>8. ASSUME NEW x \in 1 .. k, NEW y \in 1 .. k, x < y
      PROVE  dst'[x] # dst'[y] /\ score[dst'[x]] >= score[dst'[y]]
  <2>1. /\ x - 1 \in 0 .. k - 1 /\ y - 1 \in 0 .. k - 1 /\ x - 1 < y - 1
        /\ dst'[x] = order[s[x - 1]] /\ dst'[y] = order[s[y - 1]]
    BY <1>2, <1>4, <1>8
  <2>2. dst'[x] # dst'[y]
    <3>1. s[x - 1] # s[y - 1]
      BY <1>4, <2>1
    <3>2. s[x - 1] \in Slots /\ s[y - 1] \in Slots
      BY <1>7, <2>1
    <3>3. order[s[x - 1]] # order[s[y - 1]]
      BY <1>1, <3>1, <3>2 DEF Rearranged
    <3>. QED BY <2>1, <3>3
  <2>3. At(s[x - 1]) >= At(s[y - 1])
    <3> DEFINE f == [z \in 0 .. k - 1 |-> At(s[z])]
    <3>1. \A z \in 0 .. k - 1 : f[z] \in Int
      BY <1>7
    <3>2. \A z \in 1 .. k - 1 : f[z - 1] >= f[z]
      BY <1>2, <1>4
    <3> HIDE DEF f
    <3>3. \A a, b \in 0 .. k - 1 : a < b => f[a] >= f[b]
      <4>1. k \in Int
        BY <1>2
      <4>. QED BY <3>1, <3>2, <4>1, NeverRises
    <3>4. f[x - 1] >= f[y - 1]
      BY <2>1, <3>3
    <3>. QED BY <2>1, <3>4 DEF f
  <2>. QED BY <2>1, <2>2, <2>3 DEF At
<1>9. ASSUME NEW o \in Slots \ {dst'[x] : x \in 1 .. k}, k > 0 PROVE score[o] <= score[dst'[k]]
  <2>1. PICK z \in Slots : order[z] = o
    BY <1>1 DEF Rearranged
  <2>2. ~(z < k)
    <3> SUFFICES ASSUME z < k PROVE FALSE
      OBVIOUS
    <3>1. z \in 0 .. k - 1
      BY <1>2 DEF Slots
    <3>2. s \in Surjection(0 .. k - 1, 0 .. k - 1)
      <4>1. s \in Injection(0 .. k - 1, 0 .. k - 1)
        BY <1>4 DEF Injection, IsInjective
      <4>2. IsFiniteSet(0 .. k - 1)
        <5>1. 0 \in Int /\ k - 1 \in Int
          BY <1>2
        <5>. QED BY <5>1, FS_Interval
      <4>. QED BY <4>1, <4>2, FS_Injection
    <3>3. PICK x \in 0 .. k - 1 : s[x] = z
      BY <3>1, <3>2 DEF Surjection
    <3>4. x + 1 \in 1 .. k /\ dst'[x + 1] = o
      BY <1>2, <1>4, <2>1, <3>3
    <3>. QED BY <3>4
  <2>3. /\ k - 1 \in 0 .. k - 1 /\ dst'[k] = order[s[k - 1]]
        /\ s[k - 1] \in Slots /\ s[k - 1] < k /\ k <= z
    <3>1. k - 1 \in 0 .. k - 1 /\ k \in 1 .. k
      BY <1>2, <1>9
    <3>2. s[k - 1] \in 0 .. k - 1 /\ s[k - 1] \in Slots /\ dst'[k] = order[s[k - 1]]
      BY <1>4, <1>7, <3>1
    <3>3. z \in Int
      BY DEF Slots
    <3>. QED BY <1>2, <2>2, <3>1, <3>2, <3>3
  <2>4. At(s[k - 1]) >= At(z)
    BY <1>1, <2>3 DEF Parted
  <2>5. At(s[k - 1]) \in Int /\ At(z) \in Int
    BY <1>1, <2>3 DEF SelectTypeOK, At
  <2>. QED BY <2>1, <2>3, <2>4, <2>5 DEF At
<1>10. Len(dst') = k
  BY <1>2, <1>4
<1>a. ASSUME NEW x \in 1 .. k PROVE dst'[x] \in Slots
  <2>1. x - 1 \in 0 .. k - 1
    BY <1>2
  <2>2. s[x - 1] \in Slots
    BY <1>7, <2>1
  <2>. QED BY <1>1, <1>4, <2>2 DEF SelectTypeOK
<1>11. ListInv'
  <2>1. /\ Len(dst') = k'
        /\ \A x, y \in 1 .. k' : x < y => dst'[x] # dst'[y] /\ score'[dst'[x]] >= score'[dst'[y]]
        /\ \A o \in Slots' \ {dst'[x] : x \in 1 .. k'} : k' > 0 => score'[o] <= score'[dst'[k']]
        /\ \A x \in 1 .. k' : dst'[x] \in Slots'
    BY <1>3, <1>6, <1>8, <1>9, <1>10, <1>a
  <2>. QED BY <2>1 DEF ListInv, ListIsTopK
<1>12. Rearranged' /\ SearchInv' /\ ScanInv' /\ NarrowInv'
  BY <1>1, <1>3, <1>6 DEF Rearranged, SearchInv, Searching, ScanInv, NarrowInv
<1>. QED BY <1>3, <1>6, <1>11, <1>12 DEF SelectInv

(* Every step keeps the invariant.                                          *)
LEMMA SelectStep == SelectInv /\ [SelectNext]_selectVars => SelectInv'
<1>1. SelectInv /\ UNCHANGED selectVars => SelectInv'
  <2> SUFFICES ASSUME SelectInv, UNCHANGED selectVars PROVE SelectInv'
    OBVIOUS
  <2>1. UNCHANGED <<n, score, shift, order, lo, hi, i, j, pc, dst>>
    BY DEF selectVars
  <2>2. Slots' = Slots /\ k' = k /\ Target' = Target
    BY <2>1 DEF Slots, k, Target
  <2>3. \A x : Parted(x)' <=> Parted(x)
    BY <2>1, <2>2 DEF Parted, At
  <2>4. SelectTypeOK' /\ Rearranged'
    BY <2>1, <2>2 DEF SelectInv, SelectTypeOK, Rearranged
  <2>5. SearchInv' /\ NarrowInv' /\ (pc = "sort" => Parted(k))'
    BY <2>1, <2>2 DEF SelectInv, SearchInv, Searching, NarrowInv, Parted, At
  <2>6. ScanInv'
    BY <2>1 DEF SelectInv, ScanInv, At
  <2>7. ListInv'
    BY <2>1, <2>2 DEF SelectInv, ListInv, ListIsTopK
  <2>. QED BY <2>4, <2>5, <2>6, <2>7 DEF SelectInv
<1>. QED BY <1>1, PivotStep, ScanStep, PlaceStep, NarrowStep, EndStep, SortStep DEF SelectNext, Done

(* The invariant of the selection.                                          *)
THEOREM SelectInvariant == SelectSpec => []SelectInv
BY SelectStarts, SelectStep, PTL DEF SelectSpec

(* The list is the k best entries of the slice, best first: for every      *)
(* length, every k, all scores and both forms of the search.               *)
THEOREM SelectsTopK == SelectSpec => []ListIsTopK
<1>1. SelectInv => ListIsTopK
  BY DEF SelectInv, ListInv
<1>. QED BY <1>1, SelectInvariant, PTL

(* A step of the selection is one towards its end.                          *)
LEMMA StepDescends == SelectInv /\ [SelectNext]_selectVars => [Descends]_selectVars
<1> SUFFICES ASSUME SelectInv, SelectNext PROVE Descends \/ UNCHANGED selectVars
  OBVIOUS
<1>1. lo \in Int /\ hi \in Int /\ i \in Int /\ j \in Int
  BY DEF SelectInv, SelectTypeOK
<1>2. CASE Pivot
  BY <1>1, <1>2 DEF Pivot, Descends, PhasesLeft
<1>3. CASE SearchEnds
  BY <1>1, <1>3 DEF SearchEnds, Descends, PhasesLeft
<1>4. CASE Scan
  BY <1>1, <1>4 DEF Scan, Descends
<1>5. CASE Place
  BY <1>1, <1>5 DEF Place, Descends, PhasesLeft
<1>6. CASE Narrow
  <2>1. pc = "narrow" /\ i \in lo .. hi /\ lo <= Target /\ Target <= hi /\ Target \in Int
    BY <1>6, KFacts DEF Narrow, SelectInv, NarrowInv, SearchInv, Searching, SelectTypeOK, Target
  <2>. QED BY <1>1, <1>6, <2>1, NarrowCases DEF Descends, PhasesLeft
<1>7. CASE SortAndCopy
  BY <1>1, <1>7 DEF SortAndCopy, Descends, PhasesLeft
<1>8. CASE Done
  BY <1>8 DEF Done
<1>. QED BY <1>2, <1>3, <1>4, <1>5, <1>6, <1>7, <1>8 DEF SelectNext

(* No slice sends the search round in circles, equal scores or not: what is  *)
(* left of it gets less with every step and is never negative.              *)
THEOREM SearchAlwaysDescends == SelectSpec => SearchDescends
<1>1. SelectSpec => [][Descends]_selectVars
  BY SelectInvariant, StepDescends, PTL DEF SelectSpec
<1>. QED BY <1>1 DEF SearchDescends

-----------------------------------------------------------------------------
(* Types, and what is known of the lists without looking into them. *)
RankingTypeOK ==
  /\ impl \in {"rust", "go", "kotlin"}
  /\ contrib \in [Tpids -> Contribs]
  /\ meta \in [Orders -> OrderMeta \cup {NotLive}]
  /\ slot \in [Orders -> Int]
  /\ \A o \in Orders : Lowest <= slot[o] /\ slot[o] <= ScoreMax
  /\ delta \in [Orders -> Int]
  /\ stage # "updating" => \A o \in Orders : delta[o] = 0
  /\ now \in Nat
  /\ stage \in {"idle", "updating", "ranking", "failed"}
  /\ origin \in [Orders -> Int]
  /\ updates \in [Orders -> Nat]
  /\ cut \in [Orders -> SUBSET {"above", "below"}]
  /\ same \subseteq Orders

-----------------------------------------------------------------------------
(* Arithmetic *)

(* The constants are what their names say. *)
LEMMA Constants ==
  /\ Unit \in Nat \ {0} /\ TopK \in Nat \ {0} /\ Half \in Nat \ {0}
  /\ Threshold \in Nat /\ Cutoff \in Nat /\ MaxTime \in Nat /\ MaxUpdates \in Nat
BY RankingAssumption

(* A number is a whole number of units and a rest that is less than one. *)
LEMMA Quotient ==
  ASSUME NEW x \in Nat, NEW m \in Nat \ {0}
  PROVE  /\ x \div m \in Nat
         /\ (x \div m) * m <= x /\ x < (x \div m) * m + m
<1>1. x \div m \in Nat /\ x = m * (x \div m) + (x % m) /\ x % m < m /\ x % m \in Nat
  OBVIOUS
<1>2. PICK q \in Int, r \in Int : q = m * (x \div m) /\ r = x % m
  <2>1. m * (x \div m) \in Int
    BY <1>1
  <2>. QED BY <1>1, <2>1
<1>3. (x \div m) * m = q
  BY <1>1, <1>2
<1>4. q <= x /\ x < q + m
  BY <1>1, <1>2
<1>. QED BY <1>1, <1>3, <1>4

(* The arithmetic the solver needs to be told of products.                  *)
LEMMA Products ==
  ASSUME NEW x \in Int, NEW y \in Int, NEW m \in Int
  PROVE  /\ x * m \in Int
         /\ (-x) * m = -(x * m)
         /\ (x + y) * m = x * m + y * m
         /\ m * (x + y) = m * x + m * y
OBVIOUS

(* Cutting a number to whole units moves it by less than a unit. *)
LEMMA TruncFacts ==
  ASSUME NEW x \in Int
  PROVE  /\ Trunc(x) \in Int
         /\ Trunc(x) * Unit - x < Unit /\ x - Trunc(x) * Unit < Unit
<1>1. CASE x >= 0
  <2>1. Trunc(x) = x \div Unit /\ x \in Nat
    BY <1>1 DEF Trunc
  <2>. QED BY <2>1, Quotient, Constants
<1>2. CASE ~(x >= 0)
  <2> DEFINE q == (-x) \div Unit
  <2>1. Trunc(x) = -q /\ -x \in Nat
    BY <1>2 DEF Trunc
  <2>2. q \in Nat /\ q * Unit <= -x /\ -x < q * Unit + Unit
    BY <2>1, Quotient, Constants
  <2> HIDE DEF q
  <2>3. (-q) * Unit = -(q * Unit) /\ q * Unit \in Int
    <3>1. q \in Int /\ Unit \in Int
      BY <2>2, Constants
    <3>. QED BY <3>1, Products
  <2>. QED BY <2>1, <2>2, <2>3, Constants
<1>. QED BY <1>1, <1>2

(* A difference the score can hold survives the cast, and the negations of  *)
(* the Kotlin implementation.                                               *)
LEMMA WrapFacts ==
  ASSUME NEW x \in 1 - Half .. Half - 1
  PROVE  Wrap(x) = x /\ -Wrap(-x) = x
<1>1. Half \in Nat \ {0}
  BY Constants
<1>2. \A y \in 1 - Half .. Half - 1 : (y + Half) % (2 * Half) = y + Half
  BY <1>1
<1>3. -x \in 1 - Half .. Half - 1
  BY <1>1
<1>. QED BY <1>1, <1>2, <1>3 DEF Wrap

-----------------------------------------------------------------------------
(* Types *)

(* What an event holds is never taken for an empty slot.                    *)
LEMMA MetaFacts ==
  /\ NotLive \notin OrderMeta
  /\ \A o \in Orders : \A e \in Events[o] : e \in OrderMeta /\ e # NotLive
<1>1. NotLive.listed = 0
  BY DEF NotLive
<1>2. \A e \in OrderMeta : e.listed # 0
  BY DEF OrderMeta
<1>. QED BY <1>1, <1>2, RankingAssumption

(* The contributions of any listings add up to a number. *)
LEMMA SumOfContribs ==
  ASSUME NEW l \in Bag(Tpids), NEW c, \A t \in Tpids : c[t] \in Int
  PROVE  Delta(l, c) \in Int
<1> DEFINE f == [t \in Tpids |-> l[t] * c[t]]
<1>1. \A t \in Tpids : f[t] \in Int
  BY DEF Bag
<1>2. Delta(l, c) = SumFunctionOnSet(f, Tpids) /\ IsFiniteSet(Tpids)
  BY ScoreAssumption DEF Delta
<1> HIDE DEF f
<1>. QED BY <1>1, <1>2, SumType

(* The contributions are numbers, and so is what they add up to.            *)
LEMMA ContribFacts ==
  ASSUME RankingTypeOK
  PROVE  /\ \A t \in Tpids : contrib[t] \in Int
         /\ \A l \in Bag(Tpids) : ContribSum(l) \in Int
<1>1. \A t \in Tpids : contrib[t] \in Int
  BY RankingAssumption DEF RankingTypeOK
<1>. QED BY <1>1, SumOfContribs DEF ContribSum

(* What a slot can hold.                                                    *)
LEMMA RangeFacts ==
  /\ Lowest \in Int /\ Lowest <= 0
  /\ ScoreMax \in Int /\ 0 <= ScoreMax
BY ScoreAssumption DEF Lowest

(* What is stored is in range, and only what is beyond it is cut.           *)
LEMMA StoredFacts ==
  ASSUME NEW v \in Int
  PROVE  /\ Stored(v) \in Int /\ Lowest <= Stored(v) /\ Stored(v) <= ScoreMax
         /\ "above" \notin Beyond(v) => v <= Stored(v)
         /\ "below" \notin Beyond(v) => Stored(v) <= v
BY RangeFacts DEF Stored, Beyond

(* A slot that a delta is added to is in range; unless something of it was   *)
(* beyond the top it holds no less than the sum, and unless something was    *)
(* beyond the bottom no more, whether the delta was cut first or not.        *)
LEMMA AppliedFacts ==
  ASSUME NEW v \in Int, Lowest <= v, v <= ScoreMax, NEW d \in Int
  PROVE  /\ Applied(v, d) \in Int /\ Lowest <= Applied(v, d) /\ Applied(v, d) <= ScoreMax
         /\ "above" \notin Beyond(v + d) /\ (impl = "rust" => "above" \notin Beyond(d))
              => v + d <= Applied(v, d)
         /\ "below" \notin Beyond(v + d) /\ (impl = "rust" => "below" \notin Beyond(d))
              => Applied(v, d) <= v + d
<1> DEFINE e == IF impl = "rust" THEN Stored(d) ELSE d
<1>1. e \in Int /\ v + e \in Int /\ v + d \in Int
  BY StoredFacts
<1>2. Applied(v, d) = Stored(v + e)
  BY DEF Applied
<1>3. Applied(v, d) \in Int /\ Lowest <= Applied(v, d) /\ Applied(v, d) <= ScoreMax
  BY <1>1, <1>2, StoredFacts
<1>4. CASE impl # "rust"
  BY <1>1, <1>2, <1>4, StoredFacts
<1>5. CASE impl = "rust"
  <2>1. e = Stored(d)
    BY <1>5
  <2>2. ASSUME "above" \notin Beyond(v + d), "above" \notin Beyond(d) PROVE v + d <= Stored(v + e)
    <3>1. d <= e /\ v + d <= ScoreMax
      BY <1>1, <2>1, <2>2, StoredFacts, RangeFacts DEF Beyond
    <3>2. e = d \/ e = Lowest
      BY <2>1, <3>1, <2>2, RangeFacts DEF Stored, Beyond
    <3>. QED BY <1>1, <3>1, <3>2, RangeFacts DEF Stored
  <2>3. ASSUME "below" \notin Beyond(v + d), "below" \notin Beyond(d) PROVE Stored(v + e) <= v + d
    <3>1. e <= d /\ Lowest <= v + d
      BY <1>1, <2>1, <2>3, StoredFacts, RangeFacts DEF Beyond
    <3>2. e = d \/ e = ScoreMax
      BY <2>1, <3>1, <2>3, RangeFacts DEF Stored, Beyond
    <3>. QED BY <1>1, <3>1, <3>2, RangeFacts DEF Stored
  <2>. QED BY <1>2, <1>3, <1>5, <2>2, <2>3
<1>. QED BY <1>3, <1>4, <1>5

(* How often an order needs an item type.                                   *)
LEMMA NeedsFacts ==
  ASSUME RankingTypeOK, NEW o \in Orders, NEW t \in Tpids
  PROVE  Needs(o, t) \in Nat
<1>1. o \in Live => meta[o] \in OrderMeta
  BY DEF Live, RankingTypeOK
<1>. QED BY <1>1 DEF Needs, OrderMeta, Bag

(* The types hold at the start.                                             *)
LEMMA InitTypes == Init => RankingTypeOK
<1> SUFFICES ASSUME Init PROVE RankingTypeOK
  OBVIOUS
<1>1. \A o \in Orders : Lowest <= slot[o] /\ slot[o] <= ScoreMax
  BY RangeFacts DEF Init
<1>. QED BY <1>1, RankingAssumption DEF Init, RankingTypeOK

(* Every step keeps the types.                                              *)
LEMMA StepTypes == RankingTypeOK /\ [Next]_vars => RankingTypeOK'
<1> SUFFICES ASSUME RankingTypeOK, [Next]_vars PROVE RankingTypeOK'
  OBVIOUS
<1> USE DEF history
<1>0. ASSUME impl' = impl PROVE Lowest' = Lowest
  BY <1>0 DEF Lowest
<1>1. ASSUME NEW o \in Orders, Evict(o) PROVE RankingTypeOK'
  BY <1>0, <1>1, RangeFacts DEF Evict, RankingTypeOK
<1>2. ASSUME NEW o \in Orders, NEW e \in Events[o], Ingest(o, e) PROVE RankingTypeOK'
  <2>1. e \in OrderMeta
    BY MetaFacts
  <2>2. e.base \in Int /\ e.tpids \in Bag(Tpids)
    BY <2>1 DEF OrderMeta
  <2>3. Trunc(e.base) \in Int /\ e.base - ContribSum(e.tpids) \in Int
    BY <2>2, TruncFacts, ContribFacts
  <2>4. /\ Stored(Trunc(e.base)) \in Int
        /\ Lowest <= Stored(Trunc(e.base)) /\ Stored(Trunc(e.base)) <= ScoreMax
        /\ Beyond(Trunc(e.base)) \in SUBSET {"above", "below"}
    BY <2>3, StoredFacts DEF Beyond
  <2>. QED BY <1>0, <1>2, <2>1, <2>3, <2>4 DEF Ingest, RankingTypeOK
<1>3. ASSUME NEW t \in Tpids, NEW v \in Contribs, Fetch(t, v) PROVE RankingTypeOK'
  <2>1. v \in Int /\ contrib[t] \in Int
    BY RankingAssumption DEF RankingTypeOK
  <2>2. PICK d \in Int : d = Trunc(v - contrib[t])
    BY <2>1, TruncFacts
  <2>3. \A o \in Orders : Needs(o, t) \in Nat
    BY NeedsFacts
  <2>4. delta' \in [Orders -> Int] /\ updates' \in [Orders -> Nat]
    BY <1>3, <2>2, <2>3 DEF Fetch, RankingTypeOK
  <2>. QED BY <1>0, <1>3, <2>4 DEF Fetch, RankingTypeOK
<1>4. ASSUME Phase1 PROVE RankingTypeOK'
  <2>1. ASSUME NEW o \in Orders
        PROVE  /\ Applied(slot[o], delta[o]) \in Int
               /\ Lowest <= Applied(slot[o], delta[o]) /\ Applied(slot[o], delta[o]) <= ScoreMax
    BY AppliedFacts DEF RankingTypeOK
  <2>2. /\ slot' \in [Orders -> Int]
        /\ \A o \in Orders : Lowest <= slot'[o] /\ slot'[o] <= ScoreMax
    BY <1>4, <2>1 DEF Phase1
  <2>3. cut' \in [Orders -> SUBSET {"above", "below"}]
    BY <1>4 DEF Phase1, RankingTypeOK, Beyond
  <2>. QED BY <1>0, <1>4, <2>2, <2>3 DEF Phase1, RankingTypeOK
<1>5. ASSUME NoUpdate \/ RankThrows PROVE RankingTypeOK'
  BY <1>0, <1>5 DEF NoUpdate, RankThrows, RankingTypeOK
<1>6. ASSUME NEW t \in now .. MaxTime, Rank(t) PROVE RankingTypeOK'
  <2>1. t \in Nat
    BY Constants DEF RankingTypeOK
  <2>. QED BY <1>0, <1>6, <2>1 DEF Rank, RankingTypeOK
<1>7. ASSUME UNCHANGED vars PROVE RankingTypeOK'
  BY <1>0, <1>7 DEF vars, RankingTypeOK
<1>. QED BY <1>1, <1>2, <1>3, <1>4, <1>5, <1>6, <1>7 DEF Next

-----------------------------------------------------------------------------
(* How far a slot strays *)

(* Numbers of times, for a number of entries cut: each strays by less than  *)
(* a unit, and all of them by no more than as many units.                   *)
LEMMA MoreCuts ==
  ASSUME NEW m \in Nat, NEW c \in Int
  PROVE  /\ (m * Trunc(c)) * Unit - m * c <= m * Unit
         /\ m * c - (m * Trunc(c)) * Unit <= m * Unit
<1>1. PICK d \in Int : d = Trunc(c) /\ d * Unit - c < Unit /\ c - d * Unit < Unit
  BY TruncFacts
<1>2. PICK u \in Int : u = Unit
  BY Constants
<1>3. PICK x \in Int : x = d * u
  BY <1>2
<1>4. (m * d) * u = m * x
  BY <1>3
<1>5. \A y \in Int : y <= u => m * y <= m * u
  BY <1>2
<1>6. m * (x - c) <= m * u /\ m * (c - x) <= m * u
  BY <1>1, <1>2, <1>3, <1>5
<1>7. m * (x - c) = m * x - m * c /\ m * (c - x) = m * c - m * x
  BY <1>3
<1>. QED BY <1>1, <1>2, <1>4, <1>6, <1>7

(* When the contribution of one item type changes, a sum over listings      *)
(* changes by as much for each time it is listed.                           *)
LEMMA SumMoves ==
  ASSUME RankingTypeOK, NEW t \in Tpids, NEW v \in Contribs, NEW c,
         c[t] = v, \A x \in Tpids \ {t} : c[x] = contrib[x], NEW l \in Bag(Tpids)
  PROVE  Delta(l, c) = ContribSum(l) + l[t] * (v - contrib[t])
<1> DEFINE f == [x \in Tpids |-> l[x] * contrib[x]]
           g == [x \in Tpids |-> l[x] * c[x]]
           R == Tpids \ {t}
<1>1. /\ \A x \in Tpids : contrib[x] \in Int /\ c[x] \in Int /\ l[x] \in Nat
      /\ v \in Int /\ c[t] = v
  <2>1. \A x \in Tpids : contrib[x] \in Int
    BY ContribFacts
  <2>2. v \in Int
    BY RankingAssumption
  <2>. QED BY <2>1, <2>2 DEF Bag
<1>2. /\ \A x \in Tpids : f[x] \in Int /\ g[x] \in Int
      /\ \A x \in R : g[x] = f[x]
      /\ f[t] = l[t] * contrib[t] /\ g[t] = l[t] * v
  BY <1>1
<1>3. IsFiniteSet(Tpids) /\ IsFiniteSet(R)
  BY ScoreAssumption, FS_Subset
<1>4. Delta(l, c) = SumFunctionOnSet(g, Tpids) /\ ContribSum(l) = SumFunctionOnSet(f, Tpids)
  BY DEF Delta, ContribSum
<1>5. l[t] * v - l[t] * contrib[t] = l[t] * (v - contrib[t])
  BY <1>1
<1>6. l[t] * v \in Int /\ l[t] * contrib[t] \in Int
  BY <1>1
<1> HIDE DEF f, g
<1>7. SumFunctionOnSet(g, Tpids) = g[t] + SumFunctionOnSet(g, R)
  <2>1. \A x \in Tpids : g[x] \in Int
    BY <1>2
  <2>. QED BY <1>3, <2>1, SumRemove
<1>8. SumFunctionOnSet(f, Tpids) = f[t] + SumFunctionOnSet(f, R)
  <2>1. \A x \in Tpids : f[x] \in Int
    BY <1>2
  <2>. QED BY <1>3, <2>1, SumRemove
<1>9. SumFunctionOnSet(g, R) = SumFunctionOnSet(f, R)
  BY <1>2, <1>3, SumSame
<1>10. SumFunctionOnSet(f, R) \in Int
  <2>1. \A x \in R : f[x] \in Int
    BY <1>2
  <2>. QED BY <1>3, <2>1, SumType
<1>. QED BY <1>2, <1>4, <1>5, <1>6, <1>7, <1>8, <1>9, <1>10

(* An order that is live has the fields of one. *)
LEMMA LiveFacts ==
  ASSUME RankingTypeOK, NEW o \in Live
  PROVE  /\ o \in Orders /\ meta[o] \in OrderMeta
         /\ meta[o].tpids \in Bag(Tpids) /\ meta[o].listed \in Nat \ {0}
         /\ meta[o].deadline \in Int
         /\ Defined(o) \in Int /\ slot[o] \in Int /\ delta[o] \in Int
         /\ updates[o] \in Nat /\ origin[o] \in Int
<1>1. o \in Orders /\ meta[o] \in OrderMeta
  BY DEF Live, RankingTypeOK
<1>2. meta[o].tpids \in Bag(Tpids) /\ meta[o].listed \in Nat \ {0} /\ meta[o].deadline \in Int
  BY <1>1 DEF OrderMeta
<1>3. slot[o] \in Int /\ delta[o] \in Int /\ updates[o] \in Nat /\ origin[o] \in Int
  BY <1>1 DEF RankingTypeOK
<1>4. ContribSum(meta[o].tpids) \in Int
  BY <1>2, ContribFacts
<1>. QED BY <1>1, <1>2, <1>3, <1>4 DEF Defined

(* The slot with what the cycle is about to add to it strays no farther     *)
(* than it may: the drift, in every stage of a cycle.                       *)
Off(o) == (slot[o] + delta[o]) * Unit - Defined(o)

DriftInv ==
  \A o \in Live :
    /\ "below" \notin cut[o] => Off(o) < Allowed(o)
    /\ "above" \notin cut[o] => -Off(o) < Allowed(o)

(* Once the deltas are applied, that is the drift of the slot itself.       *)
LEMMA DriftNow == RankingTypeOK /\ DriftInv => DriftBounded
<1> SUFFICES ASSUME RankingTypeOK, DriftInv, stage # "updating", NEW o \in Live
             PROVE  /\ "below" \notin cut[o] => Strayed(o) < Allowed(o)
                    /\ "above" \notin cut[o] => -Strayed(o) < Allowed(o)
  BY DEF DriftBounded
<1>1. slot[o] \in Int /\ delta[o] = 0
  BY LiveFacts DEF RankingTypeOK
<1>2. Off(o) = Strayed(o)
  BY <1>1 DEF Off, Strayed
<1>. QED BY <1>2 DEF DriftInv

(* Every step keeps the drift within its bound: an entry adds no more than a *)
(* unit to it for each listing and counts as one for each, and the cut when  *)
(* it is applied is on record.                                              *)
LEMMA StepDrift == RankingTypeOK /\ DriftInv /\ [Next]_vars => DriftInv'
<1> SUFFICES ASSUME RankingTypeOK, DriftInv, [Next]_vars, NEW p \in Live'
             PROVE  /\ ("below" \notin cut[p] => Off(p) < Allowed(p))'
                    /\ ("above" \notin cut[p] => -Off(p) < Allowed(p))'
  BY DEF DriftInv
<1> DEFINE Bounded == /\ "below" \notin cut[p] => Off(p) < Allowed(p)
                      /\ "above" \notin cut[p] => -Off(p) < Allowed(p)
<1>0. p \in Orders /\ meta'[p] # NotLive
  BY DEF Live
<1>a. ASSUME meta'[p] = meta[p], slot'[p] = slot[p], delta'[p] = delta[p], contrib' = contrib,
             origin'[p] = origin[p], updates'[p] = updates[p], cut'[p] = cut[p]
      PROVE  Bounded'
  <2>1. p \in Live
    BY <1>0, <1>a DEF Live
  <2>2. Off(p)' = Off(p) /\ Allowed(p)' = Allowed(p)
    BY <1>a DEF Off, Allowed, Defined, ContribSum
  <2>. QED BY <1>a, <2>1, <2>2 DEF DriftInv
<1>1. ASSUME NEW o \in Orders, Evict(o) PROVE Bounded'
  <2>1. p # o
    BY <1>0, <1>1 DEF Evict, RankingTypeOK
  <2>. QED BY <1>a, <1>0, <1>1, <2>1 DEF Evict, RankingTypeOK
<1>2. ASSUME NEW o \in Orders, NEW e \in Events[o], Ingest(o, e) PROVE Bounded'
  <2>1. CASE p # o
    BY <1>a, <1>0, <1>2, <2>1 DEF Ingest, RankingTypeOK
  <2>2. CASE p = o
    <3>1. /\ meta'[p] = e /\ slot'[p] = Stored(Trunc(e.base)) /\ delta'[p] = 0
          /\ origin'[p] = e.base - ContribSum(e.tpids)
          /\ updates'[p] = 0 /\ contrib' = contrib /\ cut'[p] = Beyond(Trunc(e.base))
      BY <1>0, <1>2, <2>2 DEF Ingest, RankingTypeOK
    <3>2. e.base \in Int /\ e.tpids \in Bag(Tpids)
      BY MetaFacts DEF OrderMeta
    <3>3. ContribSum(e.tpids) \in Int /\ ContribSum(e.tpids)' = ContribSum(e.tpids)
      BY <3>1, <3>2, ContribFacts DEF ContribSum
    <3>4. Defined(p)' = e.base
      BY <3>1, <3>2, <3>3 DEF Defined, ContribSum
    <3>5. PICK b \in Int : /\ b = Trunc(e.base)
                           /\ b * Unit - e.base < Unit /\ e.base - b * Unit < Unit
      BY <3>2, TruncFacts
    <3>6. PICK s \in Int : s = Stored(b)
      BY StoredFacts
    <3>7. Off(p)' = s * Unit - e.base /\ Allowed(p)' = Unit
      BY <3>1, <3>4, <3>5, <3>6, Constants DEF Off, Allowed
    <3>8. ASSUME "below" \notin cut'[p] PROVE s * Unit <= b * Unit
      <4>1. s <= b
        BY <3>1, <3>5, <3>6, <3>8, StoredFacts
      <4>. QED BY <4>1, Constants
    <3>9. ASSUME "above" \notin cut'[p] PROVE b * Unit <= s * Unit
      <4>1. b <= s
        BY <3>1, <3>5, <3>6, <3>9, StoredFacts
      <4>. QED BY <4>1, Constants
    <3>10. s * Unit \in Int /\ b * Unit \in Int /\ Unit \in Int
      BY Constants
    <3>. QED BY <3>2, <3>5, <3>7, <3>8, <3>9, <3>10
  <2>. QED BY <2>1, <2>2
<1>3. ASSUME NEW t \in Tpids, NEW v \in Contribs, Fetch(t, v) PROVE Bounded'
  <2>1. /\ meta' = meta /\ origin' = origin /\ slot' = slot /\ cut' = cut
        /\ contrib' = [contrib EXCEPT ![t] = v]
        /\ v \in Int /\ contrib[t] \in Int
    BY <1>3, RankingAssumption DEF Fetch, RankingTypeOK
  <2>2. p \in Live
    BY <1>0, <2>1 DEF Live
  <2>3. /\ meta[p].tpids \in Bag(Tpids) /\ slot[p] \in Int /\ delta[p] \in Int /\ updates[p] \in Nat
        /\ Defined(p) \in Int /\ ContribSum(meta[p].tpids) \in Int /\ origin[p] \in Int
    BY <2>2, LiveFacts, ContribFacts
  <2>4. PICK m \in Nat, c \in Int : m = meta[p].tpids[t] /\ c = v - contrib[t]
    BY <2>1, <2>3 DEF Bag
  <2>5. PICK d \in Int : d = m * Trunc(c)
    BY <2>4, TruncFacts
  <2>6. delta'[p] = delta[p] + d /\ updates'[p] = updates[p] + m
    BY <1>0, <1>3, <2>2, <2>4, <2>5 DEF Fetch, Needs
  <2>7. Defined(p)' = Defined(p) + m * c
    <3>1. PICK l \in Bag(Tpids) : l = meta[p].tpids
      BY <2>3
    <3>2. contrib'[t] = v /\ \A x \in Tpids \ {t} : contrib'[x] = contrib[x]
      BY <2>1 DEF RankingTypeOK
    <3>3. Delta(l, contrib') = ContribSum(l) + l[t] * (v - contrib[t])
      BY <3>2, SumMoves
    <3>4. Defined(p)' = origin[p] + Delta(l, contrib')
      BY <2>1, <3>1 DEF Defined, ContribSum
    <3>. QED BY <2>3, <2>4, <3>1, <3>3, <3>4 DEF Defined
  <2>8. d * Unit - m * c <= m * Unit /\ m * c - d * Unit <= m * Unit
    BY <2>4, <2>5, MoreCuts
  <2>9. PICK a \in Int, b \in Int, q \in Int, w \in Int :
          /\ a = (slot[p] + delta[p]) * Unit /\ b = d * Unit
          /\ q = m * Unit /\ w = m * c
    BY <2>3, Constants
  <2>10. (slot[p] + (delta[p] + d)) * Unit = a + b
    <3>1. slot[p] + (delta[p] + d) = (slot[p] + delta[p]) + d /\ slot[p] + delta[p] \in Int
      BY <2>3
    <3>. QED BY <2>9, <3>1, Products, Constants
  <2>11. Off(p)' = (a + b) - (Defined(p) + w) /\ Off(p) = a - Defined(p)
    BY <2>1, <2>6, <2>7, <2>9, <2>10 DEF Off
  <2>12. Allowed(p)' = Allowed(p) + q /\ Allowed(p) \in Int
    <3>1. Unit * (updates[p] + m + 1) = Unit * (updates[p] + 1) + m * Unit
      BY <2>3, Constants
    <3>2. Unit * (updates[p] + 1) \in Int
      BY <2>3, Constants
    <3>. QED BY <2>6, <2>9, <3>1, <3>2 DEF Allowed
  <2>13. /\ "below" \notin cut[p] => Off(p) < Allowed(p)
         /\ "above" \notin cut[p] => -Off(p) < Allowed(p)
    BY <2>2 DEF DriftInv
  <2>. QED BY <2>1, <2>3, <2>8, <2>9, <2>11, <2>12, <2>13
<1>4. ASSUME Phase1 PROVE Bounded'
  <2>1. /\ meta' = meta /\ origin' = origin /\ contrib' = contrib /\ updates' = updates
        /\ slot'[p] = Applied(slot[p], delta[p]) /\ delta'[p] = 0
        /\ cut'[p] = cut[p] \cup Beyond(slot[p] + delta[p])
                        \cup (IF impl = "rust" THEN Beyond(delta[p]) ELSE {})
    BY <1>0, <1>4 DEF Phase1
  <2>2. p \in Live
    BY <1>0, <2>1 DEF Live
  <2>3. /\ slot[p] \in Int /\ Lowest <= slot[p] /\ slot[p] <= ScoreMax
        /\ delta[p] \in Int /\ Defined(p) \in Int /\ updates[p] \in Nat
    BY <2>2, LiveFacts DEF RankingTypeOK
  <2>a. PICK x \in Int, d \in Int : x = slot[p] /\ d = delta[p]
    BY <2>3
  <2>4. PICK a \in Int, b \in Int :
          /\ a = Applied(slot[p], delta[p]) /\ b = slot[p] + delta[p]
          /\ "above" \notin cut'[p] => b <= a
          /\ "below" \notin cut'[p] => a <= b
    <3>1. Lowest <= x /\ x <= ScoreMax
      BY <2>3, <2>a
    <3>2. /\ Applied(x, d) \in Int /\ x + d \in Int
          /\ "above" \notin Beyond(x + d) /\ (impl = "rust" => "above" \notin Beyond(d))
               => x + d <= Applied(x, d)
          /\ "below" \notin Beyond(x + d) /\ (impl = "rust" => "below" \notin Beyond(d))
               => Applied(x, d) <= x + d
      BY <3>1, AppliedFacts
    <3>. QED BY <2>1, <2>a, <3>2
  <2>5. cut[p] \subseteq cut'[p]
    BY <2>1
  <2>6. /\ Defined(p)' = Defined(p)
        /\ Off(p)' = a * Unit - Defined(p) /\ Off(p) = b * Unit - Defined(p)
        /\ Allowed(p)' = Allowed(p) /\ Allowed(p) \in Int
    BY <2>1, <2>3, <2>4, Constants DEF Off, Defined, ContribSum, Allowed
  <2>7. a * Unit \in Int /\ b * Unit \in Int
    BY Constants
  <2>8. ASSUME "below" \notin cut'[p] PROVE Off(p)' < Allowed(p)'
    <3>1. a <= b /\ "below" \notin cut[p]
      BY <2>4, <2>5, <2>8
    <3>2. a * Unit <= b * Unit
      BY <3>1, Constants
    <3>3. Off(p) < Allowed(p)
      BY <2>2, <3>1 DEF DriftInv
    <3>. QED BY <2>3, <2>6, <2>7, <3>2, <3>3
  <2>9. ASSUME "above" \notin cut'[p] PROVE -Off(p)' < Allowed(p)'
    <3>1. b <= a /\ "above" \notin cut[p]
      BY <2>4, <2>5, <2>9
    <3>2. b * Unit <= a * Unit
      BY <3>1, Constants
    <3>3. -Off(p) < Allowed(p)
      BY <2>2, <3>1 DEF DriftInv
    <3>. QED BY <2>3, <2>6, <2>7, <3>2, <3>3
  <2>. QED BY <2>8, <2>9
<1>5. ASSUME NoUpdate \/ RankThrows \/ UNCHANGED vars PROVE Bounded'
  BY <1>a, <1>5 DEF NoUpdate, RankThrows, vars, history
<1>6. ASSUME NEW t \in now .. MaxTime, Rank(t) PROVE Bounded'
  BY <1>a, <1>6 DEF Rank
<1>. QED BY <1>1, <1>2, <1>3, <1>4, <1>5, <1>6 DEF Next

(* The types of the ranking; among them, that a slot stays in range and that *)
(* nothing is left in the delta of one cycle for the next.                  *)
THEOREM RankingTypes == Spec => []RankingTypeOK
BY InitTypes, StepTypes, PTL DEF Spec

(* However often the contributions change, a slot strays from the score its *)
(* order has by definition by less than a unit for the base and one for     *)
(* every entry that was added to it; upwards unless it was cut at the        *)
(* bottom of the range, and downwards unless it was cut at the top.         *)
THEOREM DriftStaysBounded == Spec => []DriftBounded
<1>1. Init => DriftInv
  BY DEF Init, DriftInv, Live
<1>. QED BY <1>1, StepDrift, DriftNow, RankingTypes, PTL DEF Spec

-----------------------------------------------------------------------------
(* What a list is *)

(* Each list is drawn from live orders, by the key of its table. *)
LEMMA CandidateFacts ==
  ASSUME NEW t
  PROVE  /\ Candidates("heuristic", t) = Live
         /\ Candidates("large", t) = {o \in Live : IsLarge(o)}
         /\ Candidates("pbt", t) = {o \in Live : HasDeadline(o)}
         /\ Candidates("critical", t) = {o \in Live : IsCritical(o, t)}
         /\ \A table \in Tables : Candidates(table, t) \subseteq Live
<1>1. /\ Candidates("heuristic", t) = Live
      /\ Candidates("large", t) = {o \in Live : IsLarge(o)}
      /\ Candidates("pbt", t) = {o \in Live : HasDeadline(o)}
      /\ Candidates("critical", t) = {o \in Live : IsCritical(o, t)}
  BY DEF Candidates
<1>. QED BY <1>1 DEF Tables

(* There are finitely many live orders, no more than there are slots.       *)
LEMMA LiveFinite == \A S \in SUBSET Live : IsFiniteSet(S) /\ Cardinality(S) <= Cardinality(Orders)
                    /\ Cardinality(Orders) \in Nat
BY RankingAssumption, FS_Subset, FS_CardinalityType DEF Live

(* The entries of some orders are counted by a number that grows with them. *)
LEMMA EntriesFacts ==
  ASSUME RankingTypeOK, NEW S \in SUBSET Live, NEW R \in SUBSET S
  PROVE  /\ Entries(S) \in Nat
         /\ Entries(R) <= Entries(S)
<1> DEFINE f == [o \in S |-> meta[o].listed]
           g == [o \in R |-> meta[o].listed]
<1>1. IsFiniteSet(S) /\ IsFiniteSet(R)
  BY LiveFinite
<1>2. \A o \in S : f[o] \in Nat
  BY LiveFacts
<1>3. \A o \in R : g[o] = f[o]
  OBVIOUS
<1>4. Entries(S) = SumFunctionOnSet(f, S) /\ Entries(R) = SumFunctionOnSet(g, R)
  BY DEF Entries
<1> HIDE DEF f, g
<1>5. SumFunctionOnSet(g, R) = SumFunctionOnSet(f, R)
  BY <1>1, <1>3, SumSame
<1>6. SumFunctionOnSet(f, R) <= SumFunctionOnSet(f, S)
  BY <1>1, <1>2, SumPart
<1>7. SumFunctionOnSet(f, {}) <= SumFunctionOnSet(f, S)
  BY <1>1, <1>2, SumPart
<1>8. SumFunctionOnSet(f, S) \in Int
  BY <1>1, <1>2, SumType
<1>. QED BY <1>4, <1>5, <1>6, <1>7, <1>8, SumEmpty

(* An order is in a list as often as there are places that hold it. *)
LEMMA TimesFacts ==
  ASSUME NEW len \in Nat, NEW s, DOMAIN s = 1 .. len, NEW o
  PROVE  /\ Times(s, o) \in Nat
         /\ Times(s, o) = 0 <=> o \notin Listed(s)
<1> DEFINE A == {z \in DOMAIN s : s[z] = o}
<1>1. IsFiniteSet(1 .. len)
  BY FS_Interval
<1>2. IsFiniteSet(A)
  <2>1. A \in SUBSET (1 .. len)
    OBVIOUS
  <2>. QED BY <1>1, <2>1, FS_Subset
<1>3. Cardinality(A) \in Nat /\ (Cardinality(A) = 0 <=> A = {})
  BY <1>2, FS_CardinalityType, FS_EmptySet
<1>4. A = {} <=> o \notin Listed(s)
  BY DEF Listed
<1>. QED BY <1>3, <1>4 DEF Times

(* TopEntries, in terms of the list. *)
LEMMA TopFacts ==
  ASSUME RankingTypeOK, NEW table \in Tables, NEW t, NEW s \in TopEntries(table, t)
  PROVE  LET S == Candidates(table, t)
         IN  /\ S \in SUBSET Live
             /\ Len(s) \in Nat /\ DOMAIN s = 1 .. Len(s)
             /\ Len(s) <= Entries(S) /\ Len(s) <= TopK
             /\ Len(s) = TopK \/ Len(s) = Entries(S)
             /\ \A z \in 1 .. Len(s) : s[z] \in S
             /\ \A z, w \in 1 .. Len(s) : z < w => ~Outranks(table, s[w], s[z], t)
             /\ \A o \in S :
                  /\ Times(s, o) <= meta[o].listed
                  /\ Times(s, o) < meta[o].listed =>
                       \A z \in 1 .. Len(s) : ~Outranks(table, o, s[z], t)
<1> DEFINE S == Candidates(table, t)
           m == IF Entries(S) < TopK THEN Entries(S) ELSE TopK
<1>1. S \in SUBSET Live
  BY CandidateFacts
<1>2. Entries(S) \in Nat
  BY <1>1, EntriesFacts
<1>3. m \in Nat /\ m <= Entries(S) /\ m <= TopK /\ (m = TopK \/ m = Entries(S))
  BY <1>2, Constants
<1>4. /\ s \in [1 .. m -> S]
      /\ \A z, w \in 1 .. m : z < w => ~Outranks(table, s[w], s[z], t)
      /\ \A o \in S :
           /\ Times(s, o) <= meta[o].listed
           /\ Times(s, o) < meta[o].listed => \A z \in 1 .. m : ~Outranks(table, o, s[z], t)
  BY DEF TopEntries
<1> HIDE DEF S, m
<1>5. DOMAIN s = 1 .. m /\ Len(s) = m
  <2>1. s \in Seq(S)
    BY <1>3, <1>4
  <2>. QED BY <1>3, <1>4, <2>1
<1>6. /\ S \in SUBSET Live
      /\ Len(s) \in Nat /\ DOMAIN s = 1 .. Len(s)
      /\ Len(s) <= Entries(S) /\ Len(s) <= TopK
      /\ Len(s) = TopK \/ Len(s) = Entries(S)
      /\ \A z \in 1 .. Len(s) : s[z] \in S
      /\ \A z, w \in 1 .. Len(s) : z < w => ~Outranks(table, s[w], s[z], t)
      /\ \A o \in S :
           /\ Times(s, o) <= meta[o].listed
           /\ Times(s, o) < meta[o].listed => \A z \in 1 .. Len(s) : ~Outranks(table, o, s[z], t)
  BY <1>1, <1>3, <1>4, <1>5
<1>. QED BY <1>6 DEF S

(* After a cycle, until something happens to an order, the lists are what   *)
(* the cycle ranked.                                                        *)
RankedInv ==
  JustRanked =>
    /\ lists.heuristic \in TopEntries("heuristic", now)
    /\ lists.large \in TopEntries("large", now)
    /\ lists.pbt \in TopEntries("pbt", now)
    /\ lists.critical \in TopEntries("critical", now)

(* A list of no orders is empty. *)
LEMMA EmptyList ==
  ASSUME Init, NEW table \in Tables
  PROVE  << >> \in TopEntries(table, now)
<1>1. Live = {}
  BY DEF Init, Live
<1>2. Candidates(table, now) = {}
  BY <1>1, CandidateFacts
<1>3. Entries({}) = 0
  BY SumEmpty DEF Entries
<1>4. 0 < TopK
  BY Constants
<1>5. << >> \in [1 .. 0 -> {}]
  OBVIOUS
<1>. QED BY <1>2, <1>3, <1>4, <1>5 DEF TopEntries

(* At the start the lists are the best entries of none.                     *)
LEMMA InitRanked == Init => RankedInv
<1> SUFFICES ASSUME Init PROVE RankedInv
  OBVIOUS
<1>1. lists.heuristic = << >> /\ lists.large = << >> /\ lists.pbt = << >> /\ lists.critical = << >>
  BY DEF Init, Tables
<1>2. \A table \in Tables : << >> \in TopEntries(table, now)
  BY EmptyList
<1>. QED BY <1>1, <1>2 DEF RankedInv, Tables

(* What a list may be depends on the orders and their scores only. *)
LEMMA TopEntriesSame ==
  ASSUME UNCHANGED <<impl, meta, slot>>, NEW table, NEW t
  PROVE  TopEntries(table, t)' = TopEntries(table, t)
<1>1. Live' = Live
  BY DEF Live
<1>2. Candidates(table, t)' = Candidates(table, t)
  BY <1>1 DEF Candidates, IsLarge, HasDeadline, IsCritical
<1>3. ASSUME NEW S PROVE Entries(S)' = Entries(S)
  BY DEF Entries
<1>4. ASSUME NEW o, NEW p PROVE Outranks(table, o, p, t)' <=> Outranks(table, o, p, t)
  BY DEF Outranks, Key, DeadlineKey
<1>. QED BY <1>2, <1>3, <1>4 DEF TopEntries

(* A cycle publishes the best entries, and until something changes they     *)
(* stay that.                                                               *)
LEMMA StepRanked == RankingTypeOK /\ RankedInv /\ [Next]_vars => RankedInv'
<1> SUFFICES ASSUME RankingTypeOK, RankedInv, [Next]_vars PROVE RankedInv'
  OBVIOUS
<1>1. ASSUME NEW o \in Orders, Evict(o) PROVE RankedInv'
  BY <1>1 DEF Evict, RankedInv, JustRanked
<1>2. ASSUME NEW o \in Orders, NEW e \in Events[o], Ingest(o, e) PROVE RankedInv'
  BY <1>2 DEF Ingest, RankedInv, JustRanked
<1>3. ASSUME Phase1 \/ \E t \in Tpids, v \in Contribs : Fetch(t, v) PROVE RankedInv'
  BY <1>3 DEF Fetch, Phase1, RankedInv, JustRanked
<1>4. ASSUME NoUpdate \/ RankThrows PROVE RankedInv'
  BY <1>4 DEF NoUpdate, RankThrows, RankedInv, JustRanked
<1>5. ASSUME NEW t \in now .. MaxTime, Rank(t) PROVE RankedInv'
  <2>1. PICK h \in TopEntries("heuristic", t), l \in TopEntries("large", t),
             p \in TopEntries("pbt", t), c \in TopEntries("critical", t) :
               lists' = [heuristic |-> h, large |-> l, pbt |-> p, critical |-> c]
    BY <1>5 DEF Rank
  <2>2. now' = t /\ UNCHANGED <<impl, meta, slot>>
    BY <1>5 DEF Rank
  <2>3. ASSUME NEW table PROVE TopEntries(table, now)' = TopEntries(table, t)
    <3>1. TopEntries(table, t)' = TopEntries(table, t)
      BY <2>2, TopEntriesSame
    <3>. QED BY <2>2, <3>1
  <2>4. /\ lists'.heuristic \in TopEntries("heuristic", now)'
        /\ lists'.large \in TopEntries("large", now)'
        /\ lists'.pbt \in TopEntries("pbt", now)'
        /\ lists'.critical \in TopEntries("critical", now)'
    BY <2>1, <2>3
  <2>. QED BY <2>4 DEF RankedInv
<1>6. ASSUME UNCHANGED vars PROVE RankedInv'
  <2>1. UNCHANGED <<impl, meta, slot, now, lists, stage, same>>
    BY <1>6 DEF vars, history
  <2>2. ASSUME NEW table PROVE TopEntries(table, now)' = TopEntries(table, now)
    <3>1. PICK t : t = now
      OBVIOUS
    <3>2. TopEntries(table, t)' = TopEntries(table, t)
      BY <2>1, TopEntriesSame
    <3>. QED BY <2>1, <3>1, <3>2
  <2>. QED BY <2>1, <2>2 DEF RankedInv, JustRanked
<1>. QED BY <1>1, <1>2, <1>3, <1>4, <1>5, <1>6 DEF Next

(* The published lists are the best entries by the key of their table. *)
THEOREM ListsAreTop == Spec => []RankedInv
BY InitRanked, StepRanked, RankingTypes, PTL DEF Spec

-----------------------------------------------------------------------------
(* What the lists are worth *)

(* The orders of the Heuristic and the Large list rank by their slots.      *)
LEMMA SlotOutranks ==
  ASSUME RankingTypeOK, NEW o \in Live, NEW p \in Live, NEW t, slot[o] > slot[p],
         NEW table \in {"heuristic", "large"}
  PROVE  Outranks(table, o, p, t)
<1>1. Key(table, o, t) = slot[o] /\ Key(table, p, t) = slot[p]
  BY DEF Key
<1>. QED BY <1>1 DEF Outranks

(* An entry that outranks one of a list has a place before it.              *)
LEMMA BetterBefore ==
  ASSUME RankingTypeOK, NEW table \in Tables, NEW t, NEW s \in TopEntries(table, t),
         NEW o \in Candidates(table, t), NEW w \in 1 .. Len(s), Outranks(table, o, s[w], t)
  PROVE  \E z \in 1 .. w : s[z] = o
<1>1. /\ Len(s) \in Nat /\ DOMAIN s = 1 .. Len(s) /\ o \in Live
      /\ \A z, l \in 1 .. Len(s) : z < l => ~Outranks(table, s[l], s[z], t)
      /\ Times(s, o) <= meta[o].listed
      /\ Times(s, o) < meta[o].listed => \A z \in 1 .. Len(s) : ~Outranks(table, o, s[z], t)
  BY TopFacts
<1>2. Times(s, o) \in Nat /\ (Times(s, o) = 0 <=> o \notin Listed(s)) /\ meta[o].listed \in Nat \ {0}
  BY <1>1, TimesFacts, LiveFacts
<1>3. o \in Listed(s)
  BY <1>1, <1>2
<1>4. PICK z \in 1 .. Len(s) : s[z] = o
  BY <1>1, <1>3 DEF Listed
<1>5. z <= w
  BY <1>1, <1>4
<1>. QED BY <1>4, <1>5

(* Lists by slots that stray little rank what is far apart right.           *)
LEMMA HonestNow == RankingTypeOK /\ DriftBounded /\ RankedInv => RankingHonest
<1> SUFFICES ASSUME RankingTypeOK, DriftBounded, RankedInv, JustRanked,
                    NEW o \in Live, NEW p \in Live,
                    Defined(o) - Defined(p) >= Allowed(o) + Allowed(p),
                    "above" \notin cut[o], "below" \notin cut[p],
                    NEW w \in DOMAIN lists.heuristic, lists.heuristic[w] = p
             PROVE  \E z \in 1 .. w : lists.heuristic[z] = o
  BY DEF RankingHonest
<1>1. PICK s \in TopEntries("heuristic", now) : s = lists.heuristic
  BY DEF RankedInv
<1>2. DOMAIN s = 1 .. Len(s)
  BY TopFacts DEF Tables
<1>3. slot[o] > slot[p]
  <2> DEFINE a == slot[o] * Unit
             b == slot[p] * Unit
  <2>1. /\ slot[o] \in Int /\ slot[p] \in Int /\ updates[o] \in Nat /\ updates[p] \in Nat
        /\ Defined(o) \in Int /\ Defined(p) \in Int
    BY LiveFacts
  <2>2. stage # "updating"
    BY DEF JustRanked
  <2>3. -(a - Defined(o)) < Allowed(o) /\ b - Defined(p) < Allowed(p)
    BY <2>2 DEF DriftBounded, Strayed
  <2>4. a \in Int /\ b \in Int /\ Allowed(o) \in Int /\ Allowed(p) \in Int
    BY <2>1, Constants DEF Allowed
  <2> HIDE DEF a, b
  <2>5. a > b
    BY <2>1, <2>3, <2>4
  <2>. QED BY <2>1, <2>5, Constants DEF a, b
<1>4. Outranks("heuristic", o, p, now)
  BY <1>3, SlotOutranks
<1>5. o \in Candidates("heuristic", now)
  BY CandidateFacts
<1>. QED BY <1>1, <1>2, <1>4, <1>5, BetterBefore DEF Tables

(* The ranking is right up to the drift: of two orders whose defined scores *)
(* are farther apart than both may have strayed the better one comes first, *)
(* unless it lost something to saturation, or the worse one gained by it.   *)
THEOREM RankingStaysHonest == Spec => []RankingHonest
BY HonestNow, RankingTypes, DriftStaysBounded, ListsAreTop, PTL

(* A cycle throws only when an order has more entries than its own.         *)
LEMMA StepThrows == RankingTypeOK /\ ThrowsOnRepeats /\ [Next]_vars => ThrowsOnRepeats'
<1> SUFFICES ASSUME RankingTypeOK, ThrowsOnRepeats, [Next]_vars, stage' = "failed"
             PROVE  \E o \in Live' : meta'[o].listed > 1
  BY DEF ThrowsOnRepeats
<1>1. CASE RankThrows
  <2>1. UNCHANGED <<impl, meta>> /\ Live' = Live
    BY <1>1 DEF RankThrows, Live
  <2>2. ASSUME \A o \in Live : ~(meta[o].listed > 1) PROVE FALSE
    <3> DEFINE f == [o \in Live |-> meta[o].listed]
    <3>1. \A o \in Live : f[o] \in Int /\ f[o] <= 1
      BY <2>2, LiveFacts
    <3>2. Entries(Live) = SumFunctionOnSet(f, Live)
      BY DEF Entries
    <3> HIDE DEF f
    <3>3. IsFiniteSet(Live) /\ Cardinality(Live) <= Cardinality(Orders) /\ Cardinality(Orders) \in Nat
      BY LiveFinite
    <3>4. SumFunctionOnSet(f, Live) <= Cardinality(Live)
      BY <3>1, <3>3, SumAtMostOnes
    <3>5. SumFunctionOnSet(f, Live) \in Int /\ Cardinality(Live) \in Nat
      BY <3>1, <3>3, SumType, FS_CardinalityType
    <3>6. Entries(Live) <= Cardinality(Orders)
      BY <3>2, <3>3, <3>4, <3>5
    <3>. QED BY <1>1, <3>6 DEF RankThrows, ScratchSuffices
  <2>. QED BY <2>1, <2>2
<1>2. CASE UNCHANGED vars
  BY <1>2 DEF vars, ThrowsOnRepeats, Live
<1>3. CASE Next /\ ~RankThrows
  BY <1>3 DEF Next, Evict, Ingest, Fetch, Phase1, NoUpdate, Rank
<1>. QED BY <1>1, <1>2, <1>3

(* The arrays of Kotlin suffice for any number of orders that name the       *)
(* BinTag once.                                                             *)
THEOREM OnlyRepeatsThrow == Spec => []ThrowsOnRepeats
<1>1. Init => ThrowsOnRepeats
  BY DEF Init, ThrowsOnRepeats
<1>. QED BY <1>1, StepThrows, RankingTypes, PTL DEF Spec

-----------------------------------------------------------------------------
(* What the lists of one buffer have to do with each other *)

(* The places of a list that hold an order of a set. *)
LEMMA PlacesFacts ==
  ASSUME NEW len \in Nat, NEW s, DOMAIN s = 1 .. len, NEW B, IsFiniteSet(B)
  PROVE  SumFunctionOnSet([o \in B |-> Times(s, o)], B) = Cardinality({x \in 1 .. len : s[x] \in B})
<1> DEFINE f == [o \in B |-> Times(s, o)]
           Where == [o \in B |-> {x \in 1 .. len : s[x] = o}]
           All == {x \in 1 .. len : s[x] \in B}
<1>1. PICK D : D = 1 .. len
  OBVIOUS
<1>a. IsFiniteSet(D)
  BY <1>1, FS_Interval
<1>2. \A o \in B : f[o] = Cardinality(Where[o])
  BY DEF Times
<1>3. /\ \A o \in B : \A x : x \in Where[o] <=> x \in D /\ s[x] = o
      /\ \A x : x \in All <=> x \in D /\ s[x] \in B
  BY <1>1
<1> HIDE DEF f, Where, All
<1>4. SumFunctionOnSet(f, B) = Cardinality(All)
  BY <1>a, <1>2, <1>3, CountByValue
<1>. QED BY <1>4 DEF f, All

(* If the first z places of a list hold orders that another one has at      *)
(* least as often, the other one has such an order at place z or later.     *)
LEMMA NotAhead ==
  ASSUME NEW len \in Nat, NEW s, DOMAIN s = 1 .. len,
         NEW m \in Nat, NEW c, DOMAIN c = 1 .. m,
         NEW B, IsFiniteSet(B), NEW z \in 1 .. m,
         \A x \in 1 .. z : c[x] \in B,
         \A o \in B : Times(c, o) <= Times(s, o)
  PROVE  \E x \in z .. len : s[x] \in B
<1> SUFFICES ASSUME \A x \in z .. len : s[x] \notin B PROVE FALSE
  OBVIOUS
<1> DEFINE f == [o \in B |-> Times(c, o)]
           g == [o \in B |-> Times(s, o)]
           F == {x \in 1 .. m : c[x] \in B}
           G == {x \in 1 .. len : s[x] \in B}
<1>1. SumFunctionOnSet(f, B) = Cardinality(F) /\ SumFunctionOnSet(g, B) = Cardinality(G)
  BY PlacesFacts
<1>2. \A o \in B : f[o] \in Int /\ g[o] \in Int /\ f[o] <= g[o]
  BY TimesFacts
<1> HIDE DEF f, g
<1>3. SumFunctionOnSet(f, B) <= SumFunctionOnSet(g, B)
  BY <1>2, SumMonotone
<1>4. IsFiniteSet(1 .. m) /\ IsFiniteSet(1 .. z) /\ IsFiniteSet(1 .. z - 1)
  BY FS_Interval
<1>5. Cardinality(1 .. z) = z /\ Cardinality(1 .. z - 1) = z - 1
  BY FS_Interval
<1>6. F \in SUBSET (1 .. m) /\ (1 .. z) \in SUBSET F /\ G \in SUBSET (1 .. z - 1)
  OBVIOUS
<1> HIDE DEF F, G
<1>7. IsFiniteSet(F)
  BY <1>4, <1>6, FS_Subset
<1>8. z <= Cardinality(F) /\ Cardinality(G) <= z - 1
  <2>1. Cardinality(1 .. z) <= Cardinality(F)
    BY <1>6, <1>7, FS_Subset
  <2>2. Cardinality(G) <= Cardinality(1 .. z - 1)
    BY <1>4, <1>6, FS_Subset
  <2>. QED BY <1>5, <2>1, <2>2
<1>9. Cardinality(F) \in Nat /\ Cardinality(G) \in Nat
  BY <1>4, <1>6, <1>7, FS_Subset, FS_CardinalityType
<1>. QED BY <1>1, <1>3, <1>8, <1>9

(* While the deadlines are near the two lists of deadlines rank by them.    *)
LEMMA DeadlineOutranks ==
  ASSUME RankingTypeOK, NEW t \in Int, AllNear(t), NEW table \in {"pbt", "critical"},
         NEW o \in Live, HasDeadline(o), NEW p \in Live, HasDeadline(p),
         meta[o].deadline < meta[p].deadline
  PROVE  Outranks(table, o, p, t)
<1>1. ASSUME NEW q \in Live, HasDeadline(q) PROVE DeadlineKey(q, t) = t - meta[q].deadline
  <2>1. t - meta[q].deadline \in 1 - Half .. Half - 1
    BY <1>1 DEF AllNear, Near
  <2>. QED BY <2>1, WrapFacts DEF DeadlineKey
<1>2. Key(table, o, t) = t - meta[o].deadline /\ Key(table, p, t) = t - meta[p].deadline
  BY <1>1 DEF Key
<1>3. meta[o].deadline \in Int /\ meta[p].deadline \in Int
  BY LiveFacts
<1>. QED BY <1>2, <1>3 DEF Outranks

(* Who is on a list of deadlines has one. *)
LEMMA DeadlineCandidates ==
  ASSUME NEW t, NEW table \in {"pbt", "critical"}
  PROVE  /\ \A o \in Candidates(table, t) : o \in Live /\ HasDeadline(o)
         /\ Candidates("critical", t) \subseteq Candidates("pbt", t)
BY CandidateFacts DEF IsCritical

(* No place of one list of deadlines is due sooner than the same place of    *)
(* the other, when all that is due sooner could be on that list too.        *)
LEMMA NotSooner ==
  ASSUME RankingTypeOK, NEW t \in Int, AllNear(t),
         NEW A \in {"pbt", "critical"}, NEW a \in TopEntries(A, t),
         NEW B \in {"pbt", "critical"}, NEW b \in TopEntries(B, t),
         NEW z \in 1 .. Len(a), z \in 1 .. Len(b),
         \A o \in Candidates(A, t) :
           meta[o].deadline < meta[b[z]].deadline => o \in Candidates(B, t)
  PROVE  ~(meta[a[z]].deadline < meta[b[z]].deadline)
<1> SUFFICES ASSUME meta[a[z]].deadline < meta[b[z]].deadline PROVE FALSE
  OBVIOUS
<1> DEFINE S == {o \in Candidates(A, t) : meta[o].deadline < meta[b[z]].deadline}
<1>1. /\ Len(a) \in Nat /\ DOMAIN a = 1 .. Len(a)
      /\ \A x \in 1 .. Len(a) : a[x] \in Candidates(A, t)
      /\ \A x, y \in 1 .. Len(a) : x < y => ~Outranks(A, a[y], a[x], t)
      /\ \A o \in Candidates(A, t) : Times(a, o) <= meta[o].listed
  BY TopFacts DEF Tables
<1>2. /\ Len(b) \in Nat /\ DOMAIN b = 1 .. Len(b)
      /\ \A x \in 1 .. Len(b) : b[x] \in Candidates(B, t)
      /\ \A x, y \in 1 .. Len(b) : x < y => ~Outranks(B, b[y], b[x], t)
      /\ \A o \in Candidates(B, t) :
           Times(b, o) < meta[o].listed => \A x \in 1 .. Len(b) : ~Outranks(B, o, b[x], t)
  BY TopFacts DEF Tables
<1>3. /\ \A o \in Candidates(A, t) : o \in Live /\ HasDeadline(o)
      /\ \A o \in Candidates(B, t) : o \in Live /\ HasDeadline(o)
  BY DeadlineCandidates
<1>4. \A o \in Live : meta[o].deadline \in Int /\ meta[o].listed \in Int
  BY LiveFacts
<1>5. ASSUME NEW x \in 1 .. z PROVE a[x] \in S
  <2>1. a[x] \in Candidates(A, t) /\ a[z] \in Candidates(A, t) /\ (x # z => ~Outranks(A, a[z], a[x], t))
    BY <1>1
  <2>2. x # z => ~(meta[a[z]].deadline < meta[a[x]].deadline)
    BY <1>3, <2>1, DeadlineOutranks
  <2>3. b[z] \in Candidates(B, t)
    BY <1>2
  <2>. QED BY <1>3, <1>4, <2>1, <2>2, <2>3
<1>6. ASSUME NEW o \in S PROVE Times(a, o) <= Times(b, o)
  <2>1. o \in Candidates(A, t) /\ o \in Candidates(B, t) /\ b[z] \in Candidates(B, t)
    BY <1>2
  <2>2. Outranks(B, o, b[z], t)
    BY <1>3, <2>1, DeadlineOutranks
  <2>3. ~(Times(b, o) < meta[o].listed) /\ Times(a, o) <= meta[o].listed
    BY <1>1, <1>2, <2>1, <2>2
  <2>4. Times(a, o) \in Nat /\ Times(b, o) \in Nat
    BY <1>1, <1>2, TimesFacts
  <2>. QED BY <1>3, <1>4, <2>1, <2>3, <2>4
<1>7. IsFiniteSet(S)
  <2>1. S \in SUBSET Live
    BY <1>3
  <2>. QED BY <2>1, LiveFinite
<1> HIDE DEF S
<1>8. PICK x \in z .. Len(b) : b[x] \in S
  BY <1>1, <1>2, <1>5, <1>6, <1>7, NotAhead
<1>9. b[x] \in Candidates(B, t) /\ b[z] \in Candidates(B, t) /\ (x # z => ~Outranks(B, b[x], b[z], t))
  BY <1>2
<1>10. x # z => ~(meta[b[x]].deadline < meta[b[z]].deadline)
  BY <1>3, <1>9, DeadlineOutranks
<1>11. meta[b[x]].deadline < meta[b[z]].deadline
  BY <1>8 DEF S
<1>. QED BY <1>3, <1>4, <1>9, <1>10, <1>11

(* Lists that are the best entries of one state agree.                      *)
LEMMA AgreeNow == RankingTypeOK /\ RankedInv => ListsAgree
<1> SUFFICES ASSUME RankingTypeOK, RankedInv, JustRanked
             PROVE  /\ AllNear(now) =>
                         /\ Len(lists.critical) <= Len(lists.pbt)
                         /\ \A z \in DOMAIN lists.critical :
                              meta[lists.critical[z]].deadline = meta[lists.pbt[z]].deadline
                    /\ \A o \in Listed(lists.large), p \in Listed(lists.heuristic) :
                         slot[o] > slot[p] => o \in Listed(lists.heuristic)
  BY DEF ListsAgree
<1>1. /\ lists.heuristic \in TopEntries("heuristic", now) /\ lists.large \in TopEntries("large", now)
      /\ lists.pbt \in TopEntries("pbt", now) /\ lists.critical \in TopEntries("critical", now)
  BY DEF RankedInv
<1>2. ASSUME AllNear(now)
      PROVE  /\ Len(lists.critical) <= Len(lists.pbt)
             /\ \A z \in DOMAIN lists.critical :
                  meta[lists.critical[z]].deadline = meta[lists.pbt[z]].deadline
  <2>1. PICK t \in Int : t = now
    BY DEF RankingTypeOK
  <2>2. PICK c \in TopEntries("critical", t) : c = lists.critical
    BY <1>1, <2>1
  <2>3. PICK s \in TopEntries("pbt", t) : s = lists.pbt
    BY <1>1, <2>1
  <2> DEFINE C == Candidates("critical", t)
             P == Candidates("pbt", t)
  <2>4. /\ Len(c) \in Nat /\ DOMAIN c = 1 .. Len(c) /\ Len(c) <= Entries(C) /\ Len(c) <= TopK
        /\ \A z \in 1 .. Len(c) : c[z] \in C
    BY TopFacts DEF Tables
  <2>5. /\ Len(s) \in Nat /\ (Len(s) = TopK \/ Len(s) = Entries(P))
        /\ \A z \in 1 .. Len(s) : s[z] \in P
    BY TopFacts DEF Tables
  <2>6. C \in SUBSET P /\ P \in SUBSET Live
    BY DeadlineCandidates
  <2>7. Entries(C) \in Nat /\ Entries(P) \in Nat /\ Entries(C) <= Entries(P)
    BY <2>6, EntriesFacts
  <2>8. Len(c) <= Len(s)
    BY <2>4, <2>5, <2>7, Constants
  <2>9. ASSUME NEW z \in 1 .. Len(c) PROVE meta[c[z]].deadline = meta[s[z]].deadline
    <3>1. z \in 1 .. Len(s) /\ c[z] \in C /\ s[z] \in P
      BY <2>4, <2>5, <2>8, <2>9
    <3>2. /\ meta[c[z]].deadline \in Int /\ meta[c[z]].deadline <= t + Cutoff
          /\ meta[s[z]].deadline \in Int
      BY <2>6, <3>1, CandidateFacts, LiveFacts DEF IsCritical
    <3>3. \A o \in P : meta[o].deadline < meta[c[z]].deadline => o \in C
      <4> SUFFICES ASSUME NEW o \in P, meta[o].deadline < meta[c[z]].deadline PROVE o \in C
        OBVIOUS
      <4>1. o \in Live /\ HasDeadline(o) /\ meta[o].deadline \in Int
        BY <2>6, CandidateFacts, LiveFacts
      <4>2. IsCritical(o, t)
        BY <3>2, <4>1, Constants DEF IsCritical
      <4>. QED BY <4>1, <4>2, CandidateFacts
    <3>4. ~(meta[s[z]].deadline < meta[c[z]].deadline)
      BY <1>2, <2>1, <3>1, <3>3, NotSooner
    <3>5. \A o \in C : o \in P
      BY <2>6
    <3>6. ~(meta[c[z]].deadline < meta[s[z]].deadline)
      BY <1>2, <2>1, <3>1, <3>5, NotSooner
    <3>. QED BY <3>2, <3>4, <3>6
  <2>. QED BY <2>2, <2>3, <2>4, <2>8, <2>9
<1>3. ASSUME NEW o \in Listed(lists.large), NEW p \in Listed(lists.heuristic), slot[o] > slot[p]
      PROVE  o \in Listed(lists.heuristic)
  <2>1. PICK h \in TopEntries("heuristic", now) : h = lists.heuristic
    BY <1>1
  <2>2. PICK l \in TopEntries("large", now) : l = lists.large
    BY <1>1
  <2>3. /\ DOMAIN h = 1 .. Len(h) /\ Len(h) \in Nat
        /\ \A z \in 1 .. Len(h) : h[z] \in Candidates("heuristic", now)
    BY TopFacts DEF Tables
  <2>4. /\ DOMAIN l = 1 .. Len(l) /\ \A z \in 1 .. Len(l) : l[z] \in Candidates("large", now)
    BY TopFacts DEF Tables
  <2>5. PICK w \in 1 .. Len(h) : h[w] = p
    BY <2>1, <2>3 DEF Listed
  <2>6. o \in Live /\ p \in Live
    BY <2>2, <2>3, <2>4, <2>5, CandidateFacts DEF Listed
  <2>7. Outranks("heuristic", o, h[w], now) /\ o \in Candidates("heuristic", now)
    BY <1>3, <2>5, <2>6, SlotOutranks, CandidateFacts
  <2>8. \E z \in 1 .. w : h[z] = o
    BY <2>7, BetterBefore DEF Tables
  <2>. QED BY <2>1, <2>3, <2>8 DEF Listed
<1>. QED BY <1>2, <1>3

(* The Critical list is the head of the PBT list, and an order of the Large *)
(* list that scores above an entry of the Heuristic list is on it.          *)
THEOREM ListsTellOneStory == Spec => []ListsAgree
BY AgreeNow, RankingTypes, ListsAreTop, PTL

(* A list that leaves out an order it could show is full.                   *)
LEMMA FullWithout ==
  ASSUME RankingTypeOK, NEW table \in Tables, NEW t, NEW s \in TopEntries(table, t),
         NEW o \in Candidates(table, t), o \notin Listed(s)
  PROVE  Len(s) = TopK
<1> DEFINE S == Candidates(table, t)
           f == [x \in S |-> Times(s, x)]
           g == [x \in S |-> meta[x].listed]
<1>1. /\ S \in SUBSET Live /\ Len(s) \in Nat /\ DOMAIN s = 1 .. Len(s)
      /\ Len(s) = TopK \/ Len(s) = Entries(S)
      /\ \A x \in 1 .. Len(s) : s[x] \in S
      /\ \A x \in S : Times(s, x) <= meta[x].listed
  BY TopFacts
<1>2. /\ IsFiniteSet(S) /\ S \ {o} \in SUBSET S /\ IsFiniteSet(S \ {o})
      /\ \A x \in S : x \in Live
  BY <1>1, LiveFinite, FS_Subset
<1>3. Entries(S) = SumFunctionOnSet(g, S)
  BY DEF Entries
<1>4. SumFunctionOnSet(f, S) = Len(s)
  <2>1. {x \in 1 .. Len(s) : s[x] \in S} = 1 .. Len(s)
    BY <1>1
  <2>2. \A m \in Nat : Cardinality(1 .. m) = m
    BY FS_Interval
  <2>3. SumFunctionOnSet(f, S) = Cardinality({x \in 1 .. Len(s) : s[x] \in S})
    BY <1>1, <1>2, PlacesFacts
  <2>. QED BY <1>1, <2>1, <2>2, <2>3
<1>5. \A x \in S : f[x] \in Int /\ g[x] \in Int /\ f[x] <= g[x]
  BY <1>1, <1>2, TimesFacts, LiveFacts
<1>6. o \in S /\ f[o] = 0 /\ g[o] > 0
  BY <1>1, <1>2, TimesFacts, LiveFacts
<1> HIDE DEF f, g
<1>7. /\ SumFunctionOnSet(f, S) = f[o] + SumFunctionOnSet(f, S \ {o})
      /\ SumFunctionOnSet(g, S) = g[o] + SumFunctionOnSet(g, S \ {o})
  BY <1>2, <1>5, <1>6, SumRemove
<1> HIDE DEF S
<1>8. SumFunctionOnSet(f, S \ {o}) <= SumFunctionOnSet(g, S \ {o})
  BY <1>2, <1>5, SumMonotone
<1>9. SumFunctionOnSet(f, S \ {o}) \in Int /\ SumFunctionOnSet(g, S \ {o}) \in Int
  BY <1>2, <1>5, SumType
<1>. QED BY <1>1, <1>3, <1>4, <1>5, <1>6, <1>7, <1>8, <1>9

(* What a list of deadlines leaves out is due no sooner than what it shows. *)
LEMMA LeftOutIsLater ==
  ASSUME RankingTypeOK, NEW t \in Int, AllNear(t), NEW c \in TopEntries("critical", t),
         NEW o \in Candidates("critical", t), o \notin Listed(c)
  PROVE  Len(c) = TopK /\ \A p \in Listed(c) : meta[p].deadline <= meta[o].deadline
<1>1. Len(c) = TopK
  BY FullWithout DEF Tables
<1>2. /\ Len(c) \in Nat /\ DOMAIN c = 1 .. Len(c)
      /\ \A x \in 1 .. Len(c) : c[x] \in Candidates("critical", t)
      /\ Times(c, o) < meta[o].listed => \A x \in 1 .. Len(c) : ~Outranks("critical", o, c[x], t)
  BY TopFacts DEF Tables
<1>3. \A q \in Candidates("critical", t) :
        q \in Live /\ HasDeadline(q) /\ meta[q].deadline \in Int /\ meta[q].listed \in Nat \ {0}
  BY DeadlineCandidates, LiveFacts
<1>4. Times(c, o) < meta[o].listed
  BY <1>2, <1>3, TimesFacts
<1>5. ASSUME NEW x \in 1 .. Len(c) PROVE meta[c[x]].deadline <= meta[o].deadline
  <2>1. c[x] \in Candidates("critical", t) /\ ~Outranks("critical", o, c[x], t)
    BY <1>2, <1>4
  <2>2. ~(meta[o].deadline < meta[c[x]].deadline)
    BY <1>3, <2>1, DeadlineOutranks
  <2>. QED BY <1>3, <2>1, <2>2
<1>. QED BY <1>1, <1>2, <1>5 DEF Listed

(* An order of the Critical list that nothing happened to is critical.      *)
CriticalInv == \A o \in Listed(lists.critical) \cap same \cap Live : IsCritical(o, now)

(* Until something happens to a critical order it stays critical: time      *)
(* only makes it more so.                                                   *)
LEMMA StepCritical == RankingTypeOK /\ CriticalInv /\ [Next]_vars => CriticalInv'
<1> SUFFICES ASSUME RankingTypeOK, CriticalInv, [Next]_vars PROVE CriticalInv'
  OBVIOUS
<1>1. ASSUME NEW o \in Orders,
             \/ Evict(o)
             \/ \E e \in Events[o] : Ingest(o, e)
      PROVE  CriticalInv'
  <2>1. /\ UNCHANGED <<now, lists>> /\ same' = same \ {o}
        /\ \A p \in Orders \ {o} : meta'[p] = meta[p]
    BY <1>1 DEF Evict, Ingest, RankingTypeOK
  <2>2. \A p \in Listed(lists'.critical) \cap same' \cap Live' :
          p \in Listed(lists.critical) \cap same \cap Live /\ meta'[p] = meta[p]
    BY <2>1 DEF Live, Listed
  <2>. QED BY <2>1, <2>2 DEF CriticalInv, IsCritical, HasDeadline
<1>2. CASE UNCHANGED <<meta, now, lists, same>>
  BY <1>2 DEF CriticalInv, IsCritical, HasDeadline, Live, Listed
<1>3. ASSUME NEW t \in now .. MaxTime, Rank(t) PROVE CriticalInv'
  <2>1. PICK c \in TopEntries("critical", t) : c = lists'.critical
    BY <1>3 DEF Rank
  <2>2. now' = t /\ UNCHANGED meta
    BY <1>3 DEF Rank
  <2>3. DOMAIN c = 1 .. Len(c) /\ \A x \in 1 .. Len(c) : c[x] \in Candidates("critical", t)
    BY TopFacts DEF Tables
  <2>4. \A o \in Listed(c) : IsCritical(o, t)
    BY <2>3, CandidateFacts DEF Listed
  <2>. QED BY <2>1, <2>2, <2>4 DEF CriticalInv, IsCritical, HasDeadline, Listed
<1>. QED BY <1>1, <1>2, <1>3 DEF Next, vars, history, Fetch, Phase1, NoUpdate, RankThrows

(* A cycle leaves out of the Critical list only what a full list has no     *)
(* place for.                                                               *)
LEMMA UrgentNow ==
  ASSUME RankingTypeOK, CriticalInv, [Next]_vars, stage = "ranking", stage' = "idle",
         AllNear(now'), NEW o \in Listed(lists.critical) \cap same \cap Live
  PROVE  \/ o \in Listed(lists'.critical)
         \/ /\ Len(lists'.critical) = TopK
            /\ \A p \in Listed(lists'.critical) : meta[p].deadline <= meta[o].deadline
<1>1. PICK t \in now .. MaxTime : Rank(t)
  BY DEF Next, vars, Evict, Ingest, Fetch, Phase1, NoUpdate, RankThrows
<1>2. t \in Int /\ now \in Int /\ now <= t /\ now' = t
  BY <1>1, Constants DEF Rank, RankingTypeOK
<1>3. PICK c \in TopEntries("critical", t) : c = lists'.critical
  BY <1>1 DEF Rank
<1>4. AllNear(t)
  BY <1>2 DEF AllNear, Near
<1>5. IsCritical(o, t)
  <2>1. IsCritical(o, now) /\ meta[o].deadline \in Int
    BY LiveFacts DEF CriticalInv
  <2>. QED BY <1>2, <2>1, Constants DEF IsCritical
<1>6. o \in Candidates("critical", t)
  BY <1>5, CandidateFacts
<1>7. \/ o \in Listed(c)
      \/ Len(c) = TopK /\ \A p \in Listed(c) : meta[p].deadline <= meta[o].deadline
  BY <1>2, <1>4, <1>6, LeftOutIsLater
<1>. QED BY <1>3, <1>7

(* From one buffer to the next an order that nothing happened to leaves the *)
(* Critical list only when that is full of orders due no later.             *)
THEOREM UrgentOrdersStay == Spec => UrgentStays
<1>1. Init => CriticalInv
  BY DEF Init, CriticalInv, Listed, Tables
<1>2. RankingTypeOK /\ CriticalInv /\ [Next]_vars =>
        [stage = "ranking" /\ stage' = "idle" /\ AllNear(now') =>
           \A o \in Listed(lists.critical) \cap same \cap Live :
             \/ o \in Listed(lists'.critical)
             \/ /\ Len(lists'.critical) = TopK
                /\ \A p \in Listed(lists'.critical) : meta[p].deadline <= meta[o].deadline]_vars
  BY UrgentNow
<1>. QED BY <1>1, <1>2, StepCritical, RankingTypes, PTL DEF Spec, UrgentStays

-----------------------------------------------------------------------------
(* The selection and the lists *)

(* A scratch slice that has an entry for every listing of a candidate.      *)
EntryOfEach(table, t, id) ==
  /\ id \in [Slots -> Candidates(table, t)]
  /\ \A o \in Candidates(table, t) : Cardinality({e \in Slots : id[e] = o}) = meta[o].listed

(* What Phase 2 of Go hands to the selection: the entries with their keys.  *)
ScratchOf(table, t, id) ==
  /\ EntryOfEach(table, t, id)
  /\ \A e \in Slots : score[e] = Key(table, id[e], t)

(* What Phase 2 of Kotlin hands to it: the negated key in the upper half of  *)
(* a number and the order ID in the lower.  The smallest come first, so the *)
(* scores of the selection are these numbers negated.                       *)
PackedScratchOf(table, t, id, cap) ==
  /\ EntryOfEach(table, t, id)
  /\ \A e \in Slots : score[e] = -((-Key(table, id[e], t)) * cap + id[e])

(* Such a slice is as long as there are entries. *)
LEMMA ScratchLength ==
  ASSUME RankingTypeOK, n \in Nat, NEW table \in Tables, NEW t, NEW id, EntryOfEach(table, t, id)
  PROVE  n = Entries(Candidates(table, t))
<1> DEFINE S == Candidates(table, t)
           f == [o \in S |-> meta[o].listed]
           Where == [o \in S |-> {e \in Slots : id[e] = o}]
<1>1. IsFiniteSet(Slots) /\ Cardinality(Slots) = n
  <2>1. 0 \in Int /\ n - 1 \in Int
    OBVIOUS
  <2>. QED BY <2>1, FS_Interval DEF Slots
<1>2. IsFiniteSet(S)
  BY LiveFinite, CandidateFacts
<1>3. \A o \in S : f[o] = Cardinality(Where[o])
  BY DEF EntryOfEach
<1>4. /\ \A o \in S : \A e : e \in Where[o] <=> e \in Slots /\ id[e] = o
      /\ \A e : e \in Slots <=> e \in Slots /\ id[e] \in S
  BY DEF EntryOfEach
<1>5. Entries(S) = SumFunctionOnSet(f, S)
  BY DEF Entries
<1> HIDE DEF S, f, Where
<1>6. SumFunctionOnSet(f, S) = Cardinality(Slots)
  BY <1>1, <1>2, <1>3, <1>4, CountByValue
<1>. QED BY <1>1, <1>5, <1>6 DEF S

(* What goes into a finite set without repeats is no more than that, and     *)
(* when it is less it leaves something out.                                 *)
LEMMA LeavesOut ==
  ASSUME NEW T, NEW W, IsFiniteSet(W), NEW f \in Injection(T, W)
  PROVE  /\ Cardinality(T) <= Cardinality(W)
         /\ Cardinality(T) < Cardinality(W) => \E e \in W : \A x \in T : f[x] # e
<1>1. /\ IsFiniteSet(T) /\ Cardinality(T) <= Cardinality(W)
      /\ Cardinality(T) = Cardinality(W) <=> f \in Surjection(T, W)
  BY FS_Injection
<1>2. Cardinality(T) \in Nat /\ Cardinality(W) \in Nat
  BY <1>1, FS_CardinalityType
<1>3. ASSUME Cardinality(T) < Cardinality(W) PROVE \E e \in W : \A x \in T : f[x] # e
  <2>1. f \notin Surjection(T, W)
    BY <1>1, <1>2, <1>3
  <2>2. f \in [T -> W]
    BY DEF Injection
  <2>. QED BY <2>1, <2>2 DEF Surjection
<1>. QED BY <1>1, <1>3

(* When the scores never contradict the ranking, the selection leaves a     *)
(* list that Rank allows.                                                   *)
LEMMA SelectionAllowed ==
  ASSUME SelectInv, pc = "done", Limit = TopK, RankingTypeOK,
         NEW table \in Tables, NEW t, NEW id, EntryOfEach(table, t, id),
         \A e, f \in Slots : score[e] >= score[f] => ~Outranks(table, id[f], id[e], t)
  PROVE  [x \in 1 .. k |-> id[dst[x]]] \in TopEntries(table, t)
<1> DEFINE S == Candidates(table, t)
           s == [x \in 1 .. k |-> id[dst[x]]]
           m == IF Entries(S) < TopK THEN Entries(S) ELSE TopK
<1>1. /\ n \in Nat /\ score \in [Slots -> Int]
      /\ \A x \in 1 .. k : dst[x] \in Slots
      /\ \A x, y \in 1 .. k : x < y => dst[x] # dst[y] /\ score[dst[x]] >= score[dst[y]]
      /\ \A o \in Slots \ {dst[x] : x \in 1 .. k} : k > 0 => score[o] <= score[dst[k]]
  BY DEF SelectInv, SelectTypeOK, ListInv, ListIsTopK
<1>2. n = Entries(S)
  BY <1>1, ScratchLength
<1>3. k \in Nat /\ k = m
  BY <1>1, <1>2, KFacts DEF k
<1>4. /\ \A e \in Slots : id[e] \in S /\ score[e] \in Int
      /\ \A o \in S : Cardinality({e \in Slots : id[e] = o}) = meta[o].listed
  BY <1>1 DEF EntryOfEach
<1>5. s \in [1 .. k -> S]
  BY <1>1, <1>4
<1>6. \A x \in 1 .. k : s[x] = id[dst[x]]
  OBVIOUS
<1>7. ASSUME NEW x \in 1 .. k, NEW y \in 1 .. k, x < y PROVE ~Outranks(table, s[y], s[x], t)
  <2>1. score[dst[x]] >= score[dst[y]] /\ dst[x] \in Slots /\ dst[y] \in Slots
    BY <1>1, <1>7
  <2> HIDE DEF s
  <2>. QED BY <1>6, <2>1
<1>8. ASSUME NEW o \in S
      PROVE  /\ Times(s, o) <= meta[o].listed
             /\ Times(s, o) < meta[o].listed => \A x \in 1 .. k : ~Outranks(table, o, s[x], t)
  <2> DEFINE T == {x \in 1 .. k : id[dst[x]] = o}
             W == {e \in Slots : id[e] = o}
  <2>1. Times(s, o) = Cardinality(T)
    <3>1. {x \in DOMAIN s : s[x] = o} = T
      OBVIOUS
    <3>. QED BY <3>1 DEF Times
  <2>2. IsFiniteSet(Slots)
    <3>1. 0 \in Int /\ n - 1 \in Int
      BY <1>1
    <3>. QED BY <3>1, FS_Interval DEF Slots
  <2>3. /\ Cardinality(T) <= Cardinality(W)
        /\ Cardinality(T) < Cardinality(W) => \E e \in W : \A x \in 1 .. k : dst[x] # e
    <3> DEFINE f == [x \in T |-> dst[x]]
    <3>1. IsFiniteSet(W)
      BY <2>2, FS_Subset
    <3>2. f \in Injection(T, W)
      <4>1. f \in [T -> W]
        BY <1>1
      <4>2. ASSUME NEW x \in T, NEW y \in T, f[x] = f[y] PROVE x = y
        <5>1. x \in 1 .. k /\ y \in 1 .. k /\ dst[x] = dst[y]
          BY <4>2
        <5>2. ~(x < y) /\ ~(y < x)
          BY <1>1, <5>1
        <5>. QED BY <1>3, <5>1, <5>2
      <4>. QED BY <4>1, <4>2 DEF Injection, IsInjective
    <3>3. \A x \in T : f[x] = dst[x]
      OBVIOUS
    <3>4. \A x \in 1 .. k : dst[x] \in W => x \in T
      OBVIOUS
    <3> HIDE DEF T, W, f
    <3>5. /\ Cardinality(T) <= Cardinality(W)
          /\ Cardinality(T) < Cardinality(W) => \E e \in W : \A x \in T : f[x] # e
      BY <3>1, <3>2, LeavesOut
    <3>. QED BY <3>3, <3>4, <3>5
  <2>4. Cardinality(W) = meta[o].listed
    BY <1>4
  <2>5. ASSUME NEW e \in W, \A x \in 1 .. k : dst[x] # e, NEW x \in 1 .. k
        PROVE  ~Outranks(table, o, s[x], t)
    <3>1. e \in Slots /\ id[e] = o /\ e \in Slots \ {dst[y] : y \in 1 .. k}
      BY <2>5
    <3>2. k > 0 /\ k \in 1 .. k
      BY <1>3
    <3>3. score[e] <= score[dst[k]]
      BY <1>1, <3>1, <3>2
    <3>4. x < k => score[dst[x]] >= score[dst[k]]
      BY <1>1, <3>2
    <3>5. score[e] \in Int /\ score[dst[k]] \in Int /\ score[dst[x]] \in Int
      BY <1>1, <1>4, <3>1, <3>2
    <3>6. score[e] <= score[dst[x]]
      BY <1>3, <3>3, <3>4, <3>5
    <3>7. score[dst[x]] >= score[e] /\ dst[x] \in Slots
      BY <1>1, <3>5, <3>6
    <3> HIDE DEF s
    <3>. QED BY <1>6, <3>1, <3>7
  <2> HIDE DEF s, T, W
  <2>. QED BY <2>1, <2>3, <2>4, <2>5
<1> HIDE DEF S, s, m
<1>9. /\ s \in [1 .. m -> S]
      /\ \A x, y \in 1 .. m : x < y => ~Outranks(table, s[y], s[x], t)
      /\ \A o \in S :
           /\ Times(s, o) <= meta[o].listed
           /\ Times(s, o) < meta[o].listed => \A x \in 1 .. m : ~Outranks(table, o, s[x], t)
  BY <1>3, <1>5, <1>7, <1>8
<1>10. s \in TopEntries(table, t)
  BY <1>9 DEF TopEntries, S, m
<1>. QED BY <1>10 DEF s

(* What PairRanking chooses among is what the selection computes: from the  *)
(* scratch slice of a list, it leaves a list that Rank allows.  It is the   *)
(* selection of Go, where ties fall as they may.                            *)
THEOREM SelectionRanks ==
  ASSUME SelectInv, pc = "done", Limit = TopK, RankingTypeOK, impl # "kotlin",
         NEW table \in Tables, NEW t, NEW id, ScratchOf(table, t, id)
  PROVE  [x \in 1 .. k |-> id[dst[x]]] \in TopEntries(table, t)
<1>1. EntryOfEach(table, t, id)
  BY DEF ScratchOf
<1>2. ASSUME NEW e \in Slots, NEW f \in Slots, score[e] >= score[f]
      PROVE  ~Outranks(table, id[f], id[e], t)
  <2>1. /\ Key(table, id[e], t) = score[e] /\ Key(table, id[f], t) = score[f]
        /\ score[e] \in Int /\ score[f] \in Int
    BY DEF ScratchOf, SelectInv, SelectTypeOK
  <2>. QED BY <1>2, <2>1 DEF Outranks
<1>. QED BY <1>1, <1>2, SelectionAllowed

(* Two keys that differ are further apart than the IDs below them.          *)
LEMMA PackedApart ==
  ASSUME NEW a \in Int, NEW b \in Int, a < b, NEW cap \in Nat
  PROVE  a * cap \in Int /\ b * cap \in Int /\ a * cap + cap <= b * cap
<1>1. PICK d \in Nat : b = a + 1 + d
  <2>1. b - a - 1 \in Nat /\ b = a + 1 + (b - a - 1)
    OBVIOUS
  <2>. QED BY <2>1
<1>2. b * cap = (a + 1) * cap + d * cap
  BY <1>1, Products
<1>3. (a + 1) * cap = a * cap + cap
  BY Products
<1>4. d * cap \in Nat /\ a * cap \in Int /\ b * cap \in Int
  OBVIOUS
<1>. QED BY <1>2, <1>3, <1>4

(* One number for key and ID ranks as Kotlin does, ties to the lower ID.    *)
LEMMA PackingRanks ==
  ASSUME NEW a \in Int, NEW b \in Int, NEW cap \in Nat, NEW x \in 0 .. cap - 1, NEW y \in 0 .. cap - 1,
         -((-a) * cap + x) >= -((-b) * cap + y)
  PROVE  ~(b > a) /\ ~(b = a /\ y < x)
<1>1. PICK p \in Int, q \in Int : p = a * cap /\ q = b * cap
  OBVIOUS
<1>2. (-a) * cap = -p /\ (-b) * cap = -q
  BY <1>1, Products
<1>3. p - x >= q - y
  BY <1>2
<1>4. a < b => p + cap <= q
  BY <1>1, PackedApart
<1>5. a = b => p = q
  BY <1>1
<1>. QED BY <1>3, <1>4, <1>5

(* The keys of live orders are numbers.                                     *)
LEMMA KeyType ==
  ASSUME RankingTypeOK, NEW table \in Tables, NEW t \in Int, NEW o \in Live
  PROVE  Key(table, o, t) \in Int
<1>1. o \in Orders /\ slot[o] \in Int /\ meta[o].deadline \in Int
  BY DEF Live, RankingTypeOK, OrderMeta
<1>2. \A z \in Int : Wrap(z) \in Int
  BY Constants DEF Wrap
<1>3. DeadlineKey(o, t) \in Int
  BY <1>1, <1>2 DEF DeadlineKey
<1>. QED BY <1>1, <1>3 DEF Key

(* The packed selection of Kotlin leaves a list that Rank allows as well,    *)
(* ties in the order of the IDs: packTopKAndCopy searches like go-cgo-impl. *)
THEOREM PackedSelectionRanks ==
  ASSUME SelectInv, pc = "done", Limit = TopK, RankingTypeOK, impl = "kotlin",
         NEW cap \in Nat, \A o \in Orders : o < cap,
         NEW table \in Tables, NEW t \in Int, NEW id, PackedScratchOf(table, t, id, cap)
  PROVE  [x \in 1 .. k |-> id[dst[x]]] \in TopEntries(table, t)
<1>1. EntryOfEach(table, t, id)
  BY DEF PackedScratchOf
<1>2. ASSUME NEW e \in Slots
      PROVE  id[e] \in 0 .. cap - 1 /\ Key(table, id[e], t) \in Int
  <2>1. id[e] \in Live
    BY <1>1, CandidateFacts DEF EntryOfEach
  <2>2. id[e] \in Orders /\ id[e] \in Nat
    BY <2>1, RankingAssumption DEF Live
  <2>. QED BY <2>1, <2>2, KeyType
<1>3. ASSUME NEW e \in Slots, NEW f \in Slots, score[e] >= score[f]
      PROVE  ~Outranks(table, id[f], id[e], t)
  <2>1. PICK a \in Int, b \in Int, x \in 0 .. cap - 1, y \in 0 .. cap - 1 :
          /\ a = Key(table, id[e], t) /\ b = Key(table, id[f], t)
          /\ x = id[e] /\ y = id[f]
    BY <1>2
  <2>2. score[e] = -((-a) * cap + x) /\ score[f] = -((-b) * cap + y)
    BY <2>1 DEF PackedScratchOf
  <2>3. -((-a) * cap + x) >= -((-b) * cap + y)
    BY <1>3, <2>2
  <2>4. ~(b > a) /\ ~(b = a /\ y < x)
    BY <2>3, PackingRanks
  <2>. QED BY <2>1, <2>4 DEF Outranks
<1>. QED BY <1>1, <1>3, SelectionAllowed

=============================================================================
