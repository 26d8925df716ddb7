---------------------- MODULE FreeListAllocator_proofs ----------------------
(***************************************************************************)
(* Proofs about FreeListAllocator, for any page, header and requests.      *)
(*                                                                         *)
(* The argument has two halves that meet in the actions. Tiles says of a   *)
(* table of sizes that its blocks cover the page without overlap; cutting  *)
(* a block and merging two that touch keep it. Ordered says of a list that *)
(* it increases; the three edits that allocate and deallocate make of it   *)
(* keep that, and change its members as expected. Nothing here depends on  *)
(* where std::align puts a Node, as long as it does not move it backwards. *)
(***************************************************************************)
EXTENDS FreeListAllocator, SequenceTheorems, TLAPS

-----------------------------------------------------------------------------
(* Blocks                                                                  *)

Tiles(s, c) ==
  /\ DOMAIN s \subseteq Nat /\ s \in [DOMAIN s -> Nat]
  /\ \A m, n \in DOMAIN s : m < n => m + NodeSize + s[m] <= n
  /\ \A n \in DOMAIN s : n + NodeSize + s[n] <= c
  /\ \A u \in 0..(c - 1) : \E n \in DOMAIN s : n <= u /\ u < n + NodeSize + s[n]

(* The tables s and t say the same of the blocks of S.                     *)
Same(t, s, S) == \A x \in S : t[x] = s[x]

(* What a table s becomes when n takes over m.                             *)
IsMerged(t, s, n, m) ==
  /\ DOMAIN t = DOMAIN s \ {m}
  /\ \A x \in DOMAIN s \ {m} : t[x] = IF x = n THEN s[n] + NodeSize + s[m] ELSE s[x]

(* Merge: a block that takes over the one it touches leaves the page tiled.*)
LEMMA MergeTiles ==
  ASSUME NEW s, NEW c \in Nat, Tiles(s, c),
         NEW n \in DOMAIN s, NEW m \in DOMAIN s, n + NodeSize + s[n] = m
  PROVE  IsMerged(Merge(s, n, m), s, n, m) /\ Tiles(Merge(s, n, m), c)
<1> DEFINE t == Merge(s, n, m)
<1>0. NodeSize \in Nat /\ NodeSize > 0
  BY LayoutAssumption
<1>1. /\ DOMAIN s \subseteq Nat /\ s \in [DOMAIN s -> Nat]
      /\ \A a, b \in DOMAIN s : a < b => a + NodeSize + s[a] <= b
      /\ \A a \in DOMAIN s : a + NodeSize + s[a] <= c
      /\ \A u \in 0..(c - 1) : \E a \in DOMAIN s : a <= u /\ u < a + NodeSize + s[a]
  BY DEF Tiles
<1>2. n # m
  BY <1>0, <1>1
<1>3. DOMAIN t = DOMAIN s \ {m}
  BY DEF Merge, Drop, Put
<1>4. \A x \in DOMAIN s \ {m} : t[x] = IF x = n THEN s[n] + NodeSize + s[m] ELSE s[x]
  BY DEF Merge, Drop, Put
<1>5. t \in [DOMAIN t -> Nat]
  <2>1. t = [x \in DOMAIN t |-> t[x]]
    BY DEF Merge, Drop
  <2>2. \A x \in DOMAIN t : t[x] \in Nat
    BY <1>0, <1>1, <1>3, <1>4
  <2> QED BY <2>1, <2>2
<1> HIDE DEF t
<1>6. ASSUME NEW a \in DOMAIN t, NEW b \in DOMAIN t, a < b
      PROVE  a + NodeSize + t[a] <= b
  <2>1. a \in DOMAIN s /\ b \in DOMAIN s /\ b # m
    BY <1>3
  <2>2. CASE a = n
    <3>1. m <= b
      BY <1>1, <1>6, <2>1, <2>2
    <3>2. m + NodeSize + s[m] <= b
      BY <1>1, <2>1, <3>1
    <3>3. t[a] = s[n] + NodeSize + s[m]
      BY <1>3, <1>4, <2>2
    <3>4. n \in Nat /\ m \in Nat /\ b \in Nat /\ s[n] \in Nat /\ s[m] \in Nat
      BY <1>1, <2>1
    <3> QED BY <1>0, <2>2, <3>2, <3>3, <3>4
  <2>3. CASE a # n
    BY <1>1, <1>3, <1>4, <1>6, <2>1, <2>3
  <2> QED BY <2>2, <2>3
<1>7. \A a \in DOMAIN t : a + NodeSize + t[a] <= c
  BY <1>0, <1>1, <1>3, <1>4
<1>8. \A u \in 0..(c - 1) : \E a \in DOMAIN t : a <= u /\ u < a + NodeSize + t[a]
  <2> TAKE u \in 0..(c - 1)
  <2>1. PICK a \in DOMAIN s : a <= u /\ u < a + NodeSize + s[a]
    BY <1>1
  <2>2. CASE a = m
    BY <2>1, <2>2, <1>0, <1>1, <1>2, <1>3, <1>4
  <2>3. CASE a # m
    BY <2>1, <2>3, <1>0, <1>1, <1>3, <1>4
  <2> QED BY <2>2, <2>3
<1> QED
  BY <1>1, <1>3, <1>4, <1>5, <1>6, <1>7, <1>8 DEF Tiles, IsMerged, t

(* What cutting the block n at m makes of a table s.                       *)
IsCut(t, s, n, m) ==
  /\ m \notin DOMAIN s
  /\ DOMAIN t = DOMAIN s \cup {m}
  /\ \A x \in DOMAIN t : t[x] = IF x = n THEN m - (n + NodeSize)
                                ELSE IF x = m THEN (n + NodeSize + s[n]) - m - NodeSize
                                ELSE s[x]

(* allocate: a Node put inside a free block leaves the page tiled.         *)
LEMMA CutTiles ==
  ASSUME NEW s, NEW c \in Nat, Tiles(s, c),
         NEW n \in DOMAIN s, NEW m \in Nat,
         n + NodeSize <= m, m + NodeSize <= n + NodeSize + s[n],
         NEW t, t = Put(Put(s, m, (n + NodeSize + s[n]) - m - NodeSize), n, m - (n + NodeSize))
  PROVE  IsCut(t, s, n, m) /\ Tiles(t, c)
<1>0. NodeSize \in Nat /\ NodeSize > 0
  BY LayoutAssumption
<1>1. /\ DOMAIN s \subseteq Nat /\ s \in [DOMAIN s -> Nat]
      /\ \A a, b \in DOMAIN s : a < b => a + NodeSize + s[a] <= b
      /\ \A a \in DOMAIN s : a + NodeSize + s[a] <= c
      /\ \A u \in 0..(c - 1) : \E a \in DOMAIN s : a <= u /\ u < a + NodeSize + s[a]
  BY DEF Tiles
<1>2. m \notin DOMAIN s /\ n # m
  BY <1>0, <1>1
<1>3. DOMAIN t = DOMAIN s \cup {m}
  BY DEF Put
<1>4. \A x \in DOMAIN t : t[x] = IF x = n THEN m - (n + NodeSize)
                                 ELSE IF x = m THEN (n + NodeSize + s[n]) - m - NodeSize
                                 ELSE s[x]
  BY <1>2 DEF Put
<1>5. t \in [DOMAIN t -> Nat]
  <2>1. t = [x \in DOMAIN t |-> t[x]]
    BY DEF Put
  <2>2. \A x \in DOMAIN t : t[x] \in Nat
    BY <1>0, <1>1, <1>3, <1>4
  <2> QED BY <2>1, <2>2
<1>6. \A a, b \in DOMAIN t : a < b => a + NodeSize + t[a] <= b
  BY <1>0, <1>1, <1>2, <1>3, <1>4
<1>7. \A a \in DOMAIN t : a + NodeSize + t[a] <= c
  BY <1>0, <1>1, <1>3, <1>4
<1>8. \A u \in 0..(c - 1) : \E a \in DOMAIN t : a <= u /\ u < a + NodeSize + t[a]
  <2> TAKE u \in 0..(c - 1)
  <2>1. PICK a \in DOMAIN s : a <= u /\ u < a + NodeSize + s[a]
    BY <1>1
  <2>2. CASE a = n /\ u >= m
    BY <2>1, <2>2, <1>0, <1>1, <1>2, <1>3, <1>4
  <2>3. CASE a = n /\ u < m
    BY <2>1, <2>3, <1>0, <1>1, <1>2, <1>3, <1>4
  <2>4. CASE a # n
    BY <2>1, <2>4, <1>0, <1>1, <1>2, <1>3, <1>4
  <2>5. a \in Nat /\ u \in Nat
    BY <1>1
  <2> QED BY <2>2, <2>3, <2>4, <2>5
<1> QED
  BY <1>1, <1>2, <1>3, <1>4, <1>5, <1>6, <1>7, <1>8 DEF Tiles, IsCut

-----------------------------------------------------------------------------
(* The list                                                                *)

(* Of the first L entries of a list: that they increase, which they are,   *)
(* and what an edit makes of them.                                         *)
Rising(f, L) ==
  /\ \A j \in 1..L : f[j] \in Nat
  /\ \A a, b \in 1..L : a < b => f[a] < f[b]
Entries(f, L) == {f[j] : j \in 1..L}
LeftOut(r, f, L, i) == \A j \in 1..(L - 1) : r[j] = IF j <= i THEN f[j] ELSE f[j + 1]
PutAt(r, M, f, i, x, k) ==
  \A j \in 1..M : r[j] = IF j <= i THEN f[j]
                        ELSE IF j = i + 1 THEN x ELSE f[j + k - 2 - i]
(* r is f without the entries i + 1 to k - 1, or with x in their place.    *)
IsWithout(r, f, i, k) ==
  /\ r \in Seq(Nat) /\ Len(r) = Len(f) + i + 1 - k
  /\ \A j \in 1..Len(r) : r[j] = IF j <= i THEN f[j] ELSE f[j + k - 1 - i]
IsWith(r, f, i, x, k) ==
  /\ r \in Seq(Nat) /\ Len(r) = Len(f) + i + 2 - k
  /\ PutAt(r, Len(r), f, i, x, k)

(* x belongs behind i and in front of the entries from k on.               *)
Between(f, L, i, x, k) == (\A j \in 1..i : f[j] < x) /\ (\A j \in k..L : x < f[j])
PutWell(r, M, f, L, i, x, k) ==
  /\ Rising(r, M)
  /\ Entries(r, M) = (IF k = i + 2 THEN Entries(f, L) \ {f[i + 1]} ELSE Entries(f, L)) \cup {x}

Ordered(f) == Rising(f, Len(f))
Members(f) == Entries(f, Len(f))
HasPut(r, f, i, x, k) ==
  Members(r) = (IF k = i + 2 THEN Members(f) \ {f[i + 1]} ELSE Members(f)) \cup {x}

(* What is left of f without the entries i + 1 to k - 1, with mid there.   *)
Spliced(f, i, mid, k) == SubSeq(f, 1, i) \o mid \o SubSeq(f, k, Len(f))

(* The edits of the list, on its entries alone: the entry behind i is left *)
(* out, or x is put there, before the entries from k on.                   *)
LEMMA LeaveOut ==
  ASSUME NEW f, NEW r, NEW L \in Nat, NEW i \in Nat, i < L,
         Rising(f, L), LeftOut(r, f, L, i)
  PROVE  Rising(r, L - 1) /\ Entries(r, L - 1) = Entries(f, L) \ {f[i + 1]}
<1> USE DEF Rising, LeftOut
<1>1. Rising(r, L - 1)
  OBVIOUS
<1>2. \A j \in 1..(L - 1) : r[j] \in {f[l] : l \in 1..L} \ {f[i + 1]}
  <2> TAKE j \in 1..(L - 1)
  <2>1. CASE j <= i
    BY <2>1
  <2>2. CASE j > i
    BY <2>2
  <2> QED BY <2>1, <2>2
<1>3. \A j \in 1..L : j # i + 1 => \E l \in 1..(L - 1) : r[l] = f[j]
  <2> TAKE j \in 1..L
  <2> HAVE j # i + 1
  <2>1. CASE j <= i
    <3>1. j \in 1..(L - 1) /\ r[j] = f[j]
      BY <2>1
    <3> QED BY <3>1
  <2>2. CASE j > i
    <3>1. j - 1 \in 1..(L - 1) /\ r[j - 1] = f[j]
      BY <2>2
    <3> QED BY <3>1
  <2> QED BY <2>1, <2>2
<1> QED
  BY <1>1, <1>2, <1>3 DEF Entries

LEMMA PutIn ==
  ASSUME NEW f, NEW r, NEW L \in Nat, NEW i \in Nat, NEW x \in Nat,
         NEW k \in {i + 1, i + 2}, k <= L + 1,
         Rising(f, L),
         Between(f, L, i, x, k),
         NEW M, M = L + i + 2 - k,
         PutAt(r, M, f, i, x, k)
  PROVE  PutWell(r, M, f, L, i, x, k)
<1> USE DEF Rising, PutAt, Between
<1>1. CASE k = i + 1
  <2>1. M = L + 1 /\ \A j \in 1..M : r[j] = IF j <= i THEN f[j]
                                           ELSE IF j = i + 1 THEN x ELSE f[j - 1]
    BY <1>1
  <2>2. Rising(r, M)
    BY <1>1, <2>1
  <2>3. \A j \in 1..M : r[j] \in {f[l] : l \in 1..L} \cup {x}
    BY <1>1, <2>1
  <2>4. \A j \in 1..L : \E l \in 1..M : r[l] = f[j]
    <3> TAKE j \in 1..L
    <3>1. CASE j <= i
      <4>1. j \in 1..M /\ r[j] = f[j]
        BY <2>1, <3>1
      <4> QED BY <4>1
    <3>2. CASE j > i
      <4>1. j + 1 \in 1..M /\ r[j + 1] = f[j]
        BY <2>1, <3>2
      <4> QED BY <4>1
    <3> QED BY <3>1, <3>2
  <2>5. i + 1 \in 1..M /\ r[i + 1] = x
    BY <1>1, <2>1
  <2>6. {r[j] : j \in 1..M} = {f[j] : j \in 1..L} \cup {x}
    BY <2>3, <2>4, <2>5
  <2>7. k # i + 2
    BY <1>1
  <2> QED BY <2>2, <2>6, <2>7 DEF Entries, PutWell
<1>2. CASE k = i + 2
  <2>1. M = L /\ \A j \in 1..M : r[j] = IF j <= i THEN f[j]
                                       ELSE IF j = i + 1 THEN x ELSE f[j]
    BY <1>2
  <2>2. Rising(r, M)
    BY <1>2, <2>1
  <2>3. \A j \in 1..M : r[j] \in ({f[l] : l \in 1..L} \ {f[i + 1]}) \cup {x}
    BY <1>2, <2>1
  <2>4. \A j \in 1..L : j # i + 1 => \E l \in 1..M : r[l] = f[j]
    BY <2>1
  <2>5. i + 1 \in 1..M /\ r[i + 1] = x
    BY <1>2, <2>1
  <2>6. {r[j] : j \in 1..M} = ({f[j] : j \in 1..L} \ {f[i + 1]}) \cup {x}
    BY <2>3, <2>4, <2>5
  <2> QED BY <1>2, <2>2, <2>6 DEF Entries, PutWell
<1> QED BY <1>1, <1>2

LEMMA SpliceNothing ==
  ASSUME NEW f \in Seq(Nat), NEW i \in Nat, NEW k \in Nat,
         i < k, k <= Len(f) + 1,
         NEW r, r = Spliced(f, i, <<>>, k)
  PROVE  IsWithout(r, f, i, k)
<1> DEFINE a == SubSeq(f, 1, i)
           b == SubSeq(f, k, Len(f))
<1>1. a \in Seq(Nat) /\ Len(a) = i /\ \A j \in 1..i : a[j] = f[j]
  OBVIOUS
<1>2. /\ b \in Seq(Nat) /\ Len(b) = Len(f) + 1 - k
      /\ \A j \in 1..Len(b) : b[j] = f[j + k - 1]
  OBVIOUS
<1> HIDE DEF a, b
<1>3. a \o <<>> = a
  BY <1>1
<1>4. /\ a \o b \in Seq(Nat) /\ Len(a \o b) = Len(a) + Len(b)
      /\ \A j \in 1..(Len(a) + Len(b)) : (a \o b)[j] = IF j <= Len(a) THEN a[j] ELSE b[j - Len(a)]
  BY <1>1, <1>2, ConcatProperties
<1>5. Spliced(f, i, <<>>, k) = a \o b
  BY <1>3 DEF Spliced, a, b
<1>6. \A j \in 1..(Len(a) + Len(b)) : (a \o b)[j] = IF j <= i THEN f[j] ELSE f[j + k - 1 - i]
  <2> TAKE j \in 1..(Len(a) + Len(b))
  <2>1. CASE j <= i
    BY <1>1, <1>4, <2>1
  <2>2. CASE j > i
    <3>1. j - i \in 1..Len(b) /\ (a \o b)[j] = b[j - i]
      BY <1>1, <1>2, <1>4, <2>2
    <3>2. b[j - i] = f[(j - i) + k - 1]
      BY <1>2, <3>1
    <3>3. (j - i) + k - 1 = j + k - 1 - i
      OBVIOUS
    <3> QED BY <2>2, <3>1, <3>2, <3>3
  <2>3. j \in Nat
    OBVIOUS
  <2> QED BY <2>1, <2>2, <2>3
<1>7. Len(a) + Len(b) = Len(f) + i + 1 - k
  BY <1>1, <1>2
<1>8. Len(a \o b) = Len(a) + Len(b)
  BY <1>4
<1> QED
  BY <1>4, <1>5, <1>6, <1>7, <1>8 DEF IsWithout

LEMMA SpliceOne ==
  ASSUME NEW f \in Seq(Nat), NEW i \in Nat, NEW k \in Nat, NEW x \in Nat,
         i < k, k <= Len(f) + 1,
         NEW r, r = Spliced(f, i, <<x>>, k)
  PROVE  IsWith(r, f, i, x, k)
<1> DEFINE a == SubSeq(f, 1, i) \o <<x>>
           b == SubSeq(f, k, Len(f))
<1>1. /\ a \in Seq(Nat) /\ Len(a) = i + 1
      /\ \A j \in 1..(i + 1) : a[j] = IF j <= i THEN f[j] ELSE x
  <2> DEFINE c == SubSeq(f, 1, i)
  <2>1. c \in Seq(Nat) /\ Len(c) = i /\ \A j \in 1..i : c[j] = f[j]
    OBVIOUS
  <2> HIDE DEF c
  <2>2. /\ c \o <<x>> \in Seq(Nat) /\ Len(c \o <<x>>) = i + 1
        /\ \A j \in 1..(i + 1) : (c \o <<x>>)[j] = IF j <= i THEN f[j] ELSE x
    BY <2>1
  <2> QED BY <2>2 DEF c
<1>2. /\ b \in Seq(Nat) /\ Len(b) = Len(f) + 1 - k
      /\ \A j \in 1..Len(b) : b[j] = f[j + k - 1]
  OBVIOUS
<1> HIDE DEF a, b
<1>3. /\ a \o b \in Seq(Nat) /\ Len(a \o b) = Len(a) + Len(b)
      /\ \A j \in 1..(Len(a) + Len(b)) : (a \o b)[j] = IF j <= Len(a) THEN a[j] ELSE b[j - Len(a)]
  BY <1>1, <1>2, ConcatProperties
<1>4. Spliced(f, i, <<x>>, k) = a \o b
  BY DEF Spliced, a, b
<1>5. PutAt(a \o b, Len(a) + Len(b), f, i, x, k)
  <2> USE DEF PutAt
  <2> TAKE j \in 1..(Len(a) + Len(b))
  <2>1. CASE j <= i + 1
    BY <1>1, <1>3, <2>1
  <2>2. CASE j > i + 1
    <3>0. Len(a) = i + 1 /\ Len(b) \in Nat /\ j \in Nat /\ j <= Len(a) + Len(b)
      BY <1>1, <1>2
    <3>1. j - (i + 1) \in 1..Len(b) /\ (a \o b)[j] = b[j - (i + 1)]
      BY <1>3, <2>2, <3>0
    <3>2. b[j - (i + 1)] = f[(j - (i + 1)) + k - 1]
      BY <1>2, <3>1
    <3>3. (j - (i + 1)) + k - 1 = j + k - 2 - i
      OBVIOUS
    <3> QED BY <2>2, <3>1, <3>2, <3>3
  <2>3. j \in Nat
    OBVIOUS
  <2> QED BY <2>1, <2>2, <2>3
<1>6. Len(a) + Len(b) = Len(f) + i + 2 - k
  BY <1>1, <1>2
<1>7. Len(a \o b) = Len(a) + Len(b)
  BY <1>3
<1> QED
  BY <1>3, <1>4, <1>5, <1>6, <1>7 DEF IsWith

(* Taking out the entry behind i leaves the list in order.                 *)
LEMMA TakeOut ==
  ASSUME NEW f \in Seq(Nat), Ordered(f), NEW i \in Nat, i < Len(f),
         NEW r, r = Spliced(f, i, <<>>, i + 2)
  PROVE  r \in Seq(Nat) /\ Ordered(r) /\ Members(r) = Members(f) \ {f[i + 1]}
<1>1. Len(f) \in Nat /\ i + 2 \in Nat /\ i < i + 2 /\ i + 2 <= Len(f) + 1
  OBVIOUS
<1>0. IsWithout(r, f, i, i + 2)
  BY <1>1, SpliceNothing
<1>2. /\ r \in Seq(Nat) /\ Len(r) = Len(f) + i + 1 - (i + 2)
      /\ \A j \in 1..Len(r) : r[j] = IF j <= i THEN f[j] ELSE f[j + (i + 2) - 1 - i]
  BY <1>0 DEF IsWithout
<1>3. Len(r) = Len(f) - 1
  BY <1>1, <1>2
<1>4. LeftOut(r, f, Len(f), i)
  <2> SUFFICES ASSUME NEW j \in 1..(Len(f) - 1)
               PROVE  r[j] = IF j <= i THEN f[j] ELSE f[j + 1]
    BY DEF LeftOut
  <2>1. j + (i + 2) - 1 - i = j + 1
    OBVIOUS
  <2>2. j \in 1..Len(r)
    BY <1>3
  <2>3. r[j] = IF j <= i THEN f[j] ELSE f[j + (i + 2) - 1 - i]
    BY <1>2, <2>2
  <2> QED BY <2>1, <2>3
<1>5. Rising(r, Len(f) - 1) /\ Entries(r, Len(f) - 1) = Entries(f, Len(f)) \ {f[i + 1]}
  BY <1>1, <1>4, LeaveOut DEF Ordered
<1> QED
  BY <1>2, <1>3, <1>5 DEF Ordered, Members

(* Putting x behind i, in its place, leaves the list in order; with        *)
(* k = i + 2 it takes the place of the entry behind i.                     *)
LEMMA PutBehind ==
  ASSUME NEW f \in Seq(Nat), Ordered(f), NEW i \in Nat, NEW x \in Nat,
         NEW k \in {i + 1, i + 2}, k <= Len(f) + 1,
         Between(f, Len(f), i, x, k),
         NEW r, r = Spliced(f, i, <<x>>, k)
  PROVE  r \in Seq(Nat) /\ Ordered(r) /\ HasPut(r, f, i, x, k)
<1>1. Len(f) \in Nat /\ k \in Nat /\ i < k
  OBVIOUS
<1>0. IsWith(r, f, i, x, k)
  BY <1>1, SpliceOne
<1>2. /\ r \in Seq(Nat) /\ Len(r) = Len(f) + i + 2 - k
      /\ PutAt(r, Len(r), f, i, x, k)
  BY <1>0 DEF IsWith
<1>b. Rising(f, Len(f)) /\ Len(r) = Len(f) + i + 2 - k
  BY <1>2 DEF Ordered
<1>c. PutWell(r, Len(r), f, Len(f), i, x, k)
  BY <1>1, <1>2, <1>b, PutIn
<1>3. /\ Rising(r, Len(r))
      /\ Entries(r, Len(r)) = (IF k = i + 2 THEN Entries(f, Len(f)) \ {f[i + 1]}
                                            ELSE Entries(f, Len(f))) \cup {x}
  BY <1>c DEF PutWell
<1> QED
  BY <1>2, <1>3 DEF Ordered, Members, HasPut

-----------------------------------------------------------------------------
(* The page with its list                                                  *)

Apart(s, F) == \A n \in F : n + NodeSize + s[n] \notin F

(* The blocks of a table s tile a page of c, and a list f and the table h  *)
(* of what is in use share them out.                                       *)
Shared(s, c, f, h) ==
  /\ Tiles(s, c)
  /\ f \in Seq(Nat) /\ Ordered(f)
  /\ Members(f) \cap DOMAIN h = {} /\ Members(f) \cup DOMAIN h = DOMAIN s
  /\ h \in [DOMAIN h -> Nat]
  /\ \A n \in DOMAIN h : s[n] >= h[n]

Settled(s, c, f, h) == Shared(s, c, f, h) /\ Apart(s, Members(f))

(* What the actions need of Shared, with nothing folded.                   *)
LEMMA SharedFacts ==
  ASSUME NEW s, NEW c \in Nat, NEW f, NEW h, Shared(s, c, f, h)
  PROVE  /\ DOMAIN s \subseteq Nat /\ \A n \in DOMAIN s : s[n] \in Nat
         /\ \A m, n \in DOMAIN s : m < n => m + NodeSize + s[m] <= n
         /\ Len(f) \in Nat
         /\ \A j \in 1..Len(f) : f[j] \in Members(f) /\ f[j] \in DOMAIN s
         /\ \A a, b \in 1..Len(f) : a < b => f[a] < f[b]
         /\ \A x \in Members(f) : x \in DOMAIN s /\ \E j \in 1..Len(f) : x = f[j]
<1>1. f \in Seq(Nat)
  BY DEF Shared
<1> QED
  BY <1>1 DEF Shared, Tiles, Ordered, Rising, Members, Entries

(* A block of the list is taken out of it whole.                           *)
LEMMA TakeWhole ==
  ASSUME NEW s, NEW c \in Nat, NEW f, NEW h, Settled(s, c, f, h),
         NEW i \in 1..Len(f), NEW r \in Nat, s[f[i]] >= r
  PROVE  Settled(s, c, Remove(f, i), Put(h, f[i], r))
<1> DEFINE g == Remove(f, i)
           k == Put(h, f[i], r)
<1>1. f \in Seq(Nat) /\ Ordered(f) /\ Shared(s, c, f, h)
  BY DEF Settled, Shared
<1>2. Len(f) \in Nat /\ i - 1 \in Nat /\ i - 1 < Len(f) /\ (i - 1) + 1 = i /\ (i - 1) + 2 = i + 1
  BY <1>1
<1>3. g = Spliced(f, i - 1, <<>>, (i - 1) + 2)
  <2>1. SubSeq(f, 1, i - 1) \in Seq(Nat)
    BY <1>1, <1>2
  <2>2. SubSeq(f, 1, i - 1) \o <<>> = SubSeq(f, 1, i - 1)
    BY <2>1
  <2> QED BY <1>2, <2>2 DEF Remove, Spliced
<1>4. g \in Seq(Nat) /\ Ordered(g) /\ Members(g) = Members(f) \ {f[i]}
  <2>1. g \in Seq(Nat) /\ Ordered(g) /\ Members(g) = Members(f) \ {f[(i - 1) + 1]}
    BY <1>1, <1>2, <1>3, TakeOut
  <2> QED BY <1>2, <2>1
<1>5. f[i] \in Members(f)
  BY <1>1, SharedFacts
<1>6. DOMAIN k = DOMAIN h \cup {f[i]} /\ k[f[i]] = r /\ \A x \in DOMAIN h : x # f[i] => k[x] = h[x]
  BY DEF Put
<1>7. f[i] \notin DOMAIN h
  BY <1>1, <1>5 DEF Shared
<1>8. k \in [DOMAIN k -> Nat]
  <2>1. k = [x \in DOMAIN k |-> k[x]]
    BY DEF Put
  <2>2. \A x \in DOMAIN k : k[x] \in Nat
    BY <1>1, <1>6 DEF Shared
  <2> QED BY <2>1, <2>2
<1> HIDE DEF g, k
<1>9. Shared(s, c, g, k)
  BY <1>1, <1>4, <1>5, <1>6, <1>7, <1>8 DEF Shared
<1>10. Apart(s, Members(g))
  BY <1>4 DEF Settled, Apart
<1> QED
  BY <1>9, <1>10 DEF Settled, g, k

(* n ends at m, and the blocks in use are as they were.                    *)
FrontTaken(t, s, h, n, m) ==
  n + NodeSize + t[n] = m /\ n \notin DOMAIN h /\ Same(t, s, DOMAIN h)

(* A block of the list is cut at m: its front is taken, its rest listed.   *)
LEMMA TakeFront ==
  ASSUME NEW s, NEW c \in Nat, NEW f, NEW h, Settled(s, c, f, h),
         NEW i \in 1..Len(f), NEW r \in Nat, NEW n, n = f[i],
         NEW m \in Nat, n + NodeSize + r <= m, m + NodeSize <= n + NodeSize + s[n],
         NEW t, t = Put(Put(s, m, (n + NodeSize + s[n]) - m - NodeSize), n, m - (n + NodeSize))
  PROVE  Settled(t, c, [f EXCEPT ![i] = m], Put(h, n, r)) /\ FrontTaken(t, s, h, n, m)
<1> DEFINE g == [f EXCEPT ![i] = m]
           k == Put(h, n, r)
<1>0. NodeSize \in Nat /\ NodeSize > 0
  BY LayoutAssumption
<1>1. f \in Seq(Nat) /\ Ordered(f) /\ Shared(s, c, f, h) /\ Tiles(s, c)
  BY DEF Settled, Shared
<1>2. /\ DOMAIN s \subseteq Nat /\ \A x \in DOMAIN s : s[x] \in Nat
      /\ \A x, y \in DOMAIN s : x < y => x + NodeSize + s[x] <= y
      /\ Len(f) \in Nat
      /\ \A j \in 1..Len(f) : f[j] \in Members(f) /\ f[j] \in DOMAIN s
      /\ \A a, b \in 1..Len(f) : a < b => f[a] < f[b]
  BY <1>1, SharedFacts
<1>3. n \in DOMAIN s /\ n \in Members(f) /\ n \in Nat /\ s[n] \in Nat /\ n + NodeSize <= m
  BY <1>0, <1>2
<1>4. /\ m \notin DOMAIN s
      /\ DOMAIN t = DOMAIN s \cup {m}
      /\ \A x \in DOMAIN t : t[x] = IF x = n THEN m - (n + NodeSize)
                                    ELSE IF x = m THEN (n + NodeSize + s[n]) - m - NodeSize
                                    ELSE s[x]
      /\ Tiles(t, c)
  <2>1. IsCut(t, s, n, m) /\ Tiles(t, c)
    BY <1>1, <1>3, CutTiles
  <2> QED BY <2>1 DEF IsCut
<1>5. g \in Seq(Nat) /\ Len(g) = Len(f) /\ \A j \in 1..Len(f) : g[j] = IF j = i THEN m ELSE f[j]
  BY <1>1
<1> HIDE DEF g
<1>6. PutAt(g, Len(f), f, i - 1, m, i + 1)
  <2> SUFFICES ASSUME NEW j \in 1..Len(f)
               PROVE  g[j] = IF j <= i - 1 THEN f[j]
                             ELSE IF j = (i - 1) + 1 THEN m ELSE f[j + (i + 1) - 2 - (i - 1)]
    BY DEF PutAt
  <2>1. (i - 1) + 1 = i /\ j + (i + 1) - 2 - (i - 1) = j /\ (j <= i - 1 => j # i)
    OBVIOUS
  <2>2. g[j] = IF j = i THEN m ELSE f[j]
    BY <1>5
  <2> QED BY <2>1, <2>2
<1>7. Between(f, Len(f), i - 1, m, i + 1)
  <2>1. \A j \in 1..(i - 1) : f[j] < m
    <3> TAKE j \in 1..(i - 1)
    <3>1. j \in 1..Len(f) /\ j < i
      BY <1>2
    <3>2. f[j] < n /\ f[j] \in Nat
      BY <1>2, <3>1
    <3> QED BY <1>0, <1>3, <3>2
  <2>2. \A j \in (i + 1)..Len(f) : m < f[j]
    <3> TAKE j \in (i + 1)..Len(f)
    <3>1. j \in 1..Len(f) /\ i < j
      BY <1>2
    <3>2. n < f[j] /\ f[j] \in Nat /\ f[j] \in DOMAIN s
      BY <1>2, <3>1
    <3>3. n + NodeSize + s[n] <= f[j]
      BY <1>2, <1>3, <3>2
    <3> QED BY <1>0, <1>3, <3>2, <3>3
  <2> QED BY <2>1, <2>2 DEF Between
<1>8. PutWell(g, Len(f), f, Len(f), i - 1, m, i + 1)
  <2>1. i - 1 \in Nat /\ i + 1 \in {(i - 1) + 1, (i - 1) + 2} /\ i + 1 <= Len(f) + 1
    BY <1>2
  <2>2. Len(f) = Len(f) + (i - 1) + 2 - (i + 1)
    BY <1>2
  <2>3. Rising(f, Len(f))
    BY <1>1 DEF Ordered
  <2> QED BY <1>2, <1>6, <1>7, <2>1, <2>2, <2>3, PutIn
<1>9. Ordered(g) /\ Members(g) = (Members(f) \ {n}) \cup {m}
  <2>1. i + 1 = (i - 1) + 2 /\ (i - 1) + 1 = i
    OBVIOUS
  <2> QED BY <1>5, <1>8, <2>1 DEF PutWell, Ordered, Members
<1>10. DOMAIN k = DOMAIN h \cup {n} /\ k[n] = r /\ \A x \in DOMAIN h : x # n => k[x] = h[x]
  BY DEF Put
<1>11. k \in [DOMAIN k -> Nat]
  <2>1. k = [x \in DOMAIN k |-> k[x]]
    BY DEF Put
  <2>2. \A x \in DOMAIN k : k[x] \in Nat
    BY <1>1, <1>10 DEF Shared
  <2> QED BY <2>1, <2>2
<1> HIDE DEF k
<1>12. DOMAIN h \subseteq DOMAIN s /\ n \notin DOMAIN h /\ m \notin DOMAIN h
  BY <1>1, <1>3, <1>4 DEF Shared
<1>13. \A x \in DOMAIN h : x # n /\ t[x] = s[x]
  BY <1>4, <1>12
<1>14. t[n] = m - (n + NodeSize) /\ t[m] = (n + NodeSize + s[n]) - m - NodeSize /\ n # m
  BY <1>3, <1>4
<1>15. t[n] >= r /\ n + NodeSize + t[n] = m /\ m + NodeSize + t[m] = n + NodeSize + s[n]
  BY <1>0, <1>3, <1>14
<1>16. \A x \in DOMAIN k : t[x] >= k[x]
  BY <1>1, <1>10, <1>13, <1>15 DEF Shared
<1>17. Shared(t, c, g, k)
  <2>0. Members(f) \cap DOMAIN h = {} /\ Members(f) \cup DOMAIN h = DOMAIN s
    BY <1>1 DEF Shared
  <2>1. Members(g) \cap DOMAIN k = {} /\ Members(g) \cup DOMAIN k = DOMAIN t
    <3>1. /\ DOMAIN t = DOMAIN s \cup {m} /\ DOMAIN k = DOMAIN h \cup {n}
          /\ Members(g) = (Members(f) \ {n}) \cup {m} /\ n \in Members(f)
      BY <1>3, <1>4, <1>9, <1>10
    <3>2. Members(g) \cap DOMAIN k = {}
      BY <2>0, <3>1, <1>12, <1>14
    <3>3. Members(g) \cup DOMAIN k = Members(f) \cup {m} \cup DOMAIN h
      BY <3>1
    <3> QED BY <2>0, <3>1, <3>2, <3>3
  <2> QED BY <1>4, <1>5, <1>9, <1>11, <1>16, <2>1 DEF Shared
<1>18. Apart(t, Members(g))
  <2>0. \A x \in Members(f) : x + NodeSize + s[x] \notin Members(f) /\ x \in DOMAIN s
    BY <1>1 DEF Settled, Apart, Shared
  <2> SUFFICES ASSUME NEW x \in (Members(f) \ {n}) \cup {m}
               PROVE  x + NodeSize + t[x] \notin (Members(f) \ {n}) \cup {m}
    BY <1>9 DEF Apart
  <2>1. CASE x = m
    <3>1. m + NodeSize + t[m] # m
      BY <1>0, <1>3, <1>15
    <3> QED BY <1>3, <1>15, <2>0, <2>1, <3>1
  <2>2. CASE x \in Members(f) \ {n}
    <3>1. t[x] = s[x] /\ x \in DOMAIN s /\ x \in Nat /\ s[x] \in Nat
      BY <1>2, <1>4, <2>0, <2>2
    <3>2. CASE x < n
      <4>1. x + NodeSize + s[x] <= n
        BY <1>2, <1>3, <3>1, <3>2
      <4>2. x + NodeSize + s[x] # m
        BY <1>0, <1>3, <3>1, <4>1
      <4> QED BY <2>0, <2>2, <3>1, <4>2
    <3>3. CASE x > n
      <4>1. n + NodeSize + s[n] <= x
        BY <1>2, <1>3, <3>1, <3>3
      <4>2. x + NodeSize + s[x] # m
        BY <1>0, <1>3, <3>1, <4>1
      <4> QED BY <2>0, <2>2, <3>1, <4>2
    <3> QED BY <1>3, <2>2, <3>1, <3>2, <3>3
  <2> QED BY <2>1, <2>2
<1> QED
  BY <1>12, <1>13, <1>15, <1>17, <1>18 DEF Settled, FrontTaken, Same, g, k

(* n with the block that follows it when that is free, f[i + 1].           *)
Behind(t, l, s, f, i, n) ==
  \/ /\ i < Len(f) /\ n + NodeSize + s[n] = f[i + 1]
     /\ t = Merge(s, n, f[i + 1]) /\ l = i + 2
  \/ /\ i < Len(f) => n + NodeSize + s[n] # f[i + 1]
     /\ t = s /\ l = i + 1

IsBack(t, c, g, k, s, f, i, n, l) ==
  /\ Shared(t, c, g, k)
  /\ n \in Members(g) /\ HasPut(g, f, i, n, l)
  /\ \A x \in DOMAIN k : t[x] = s[x]
  /\ \A x \in Members(f) : x < n => x \in Members(g) /\ t[x] = s[x]
  /\ \A x \in Members(g) : x + NodeSize + t[x] \in Members(g)
                             => i > 0 /\ x = f[i] /\ x + NodeSize + t[x] = n

(* A block comes back: it is put in the list behind i, and takes over the  *)
(* block that follows it when that one is free. What may still be wrong is *)
(* that the entry i touches it.                                            *)
LEMMA PutBack ==
  ASSUME NEW s, NEW c \in Nat, NEW f, NEW h, Settled(s, c, f, h),
         NEW n \in DOMAIN h, NEW i \in Nat, i <= Len(f),
         Between(f, Len(f), i, n, i + 1),
         NEW t, NEW g, NEW l, g = Spliced(f, i, <<n>>, l), NEW k, k = Drop(h, {n}),
         Behind(t, l, s, f, i, n)
  PROVE  IsBack(t, c, g, k, s, f, i, n, l)
<1>0. NodeSize \in Nat /\ NodeSize > 0
  BY LayoutAssumption
<1>1. f \in Seq(Nat) /\ Ordered(f) /\ Shared(s, c, f, h) /\ Tiles(s, c)
  BY DEF Settled, Shared
<1>2. /\ DOMAIN s \subseteq Nat /\ \A x \in DOMAIN s : s[x] \in Nat
      /\ \A x, y \in DOMAIN s : x < y => x + NodeSize + s[x] <= y
      /\ Len(f) \in Nat
      /\ \A j \in 1..Len(f) : f[j] \in Members(f) /\ f[j] \in DOMAIN s
      /\ \A a, b \in 1..Len(f) : a < b => f[a] < f[b]
      /\ \A x \in Members(f) : x \in DOMAIN s /\ \E j \in 1..Len(f) : x = f[j]
  BY <1>1, SharedFacts
<1>3. Members(f) \cap DOMAIN h = {} /\ Members(f) \cup DOMAIN h = DOMAIN s
  BY <1>1 DEF Shared
<1>4. n \in DOMAIN s /\ n \in Nat /\ s[n] \in Nat /\ n \notin Members(f)
  BY <1>2, <1>3
<1>5. /\ DOMAIN k = DOMAIN h \ {n} /\ \A x \in DOMAIN k : k[x] = h[x]
      /\ k \in [DOMAIN k -> Nat]
  BY <1>1 DEF Drop, Shared
<1>6. \A x \in Members(f) : x + NodeSize + s[x] \notin Members(f)
  BY DEF Settled, Apart
(* Between n and the entries around it nothing is free.                    *)
<1>7. \A x \in Members(f) : x < n => i > 0 /\ x <= f[i] /\ f[i] < n /\ f[i] \in Members(f)
  <2> SUFFICES ASSUME NEW x \in Members(f), x < n
               PROVE  i > 0 /\ x <= f[i] /\ f[i] < n /\ f[i] \in Members(f)
    OBVIOUS
  <2>1. PICK j \in 1..Len(f) : x = f[j]
    BY <1>2
  <2>2. x \in Nat
    BY <1>2
  <2>3. j <= i
    BY <1>4, <2>1, <2>2 DEF Between
  <2>4. i \in 1..Len(f) /\ f[i] < n
    BY <2>3 DEF Between
  <2>5. CASE j = i
    BY <1>2, <2>1, <2>2, <2>4, <2>5
  <2>6. CASE j < i
    <3>1. f[j] < f[i] /\ f[i] \in Nat
      BY <1>2, <2>4, <2>6
    <3> QED BY <1>2, <2>1, <2>2, <2>4, <3>1
  <2> QED BY <2>3, <2>5, <2>6
<1>8. \A x \in Members(f) : n < x => i < Len(f) /\ f[i + 1] <= x /\ n < f[i + 1] /\ f[i + 1] \in Members(f)
  <2> SUFFICES ASSUME NEW x \in Members(f), n < x
               PROVE  i < Len(f) /\ f[i + 1] <= x /\ n < f[i + 1] /\ f[i + 1] \in Members(f)
    OBVIOUS
  <2>1. PICK j \in 1..Len(f) : x = f[j]
    BY <1>2
  <2>2. x \in Nat
    BY <1>2
  <2>3. i < j
    BY <1>4, <2>1, <2>2 DEF Between
  <2>4. i < Len(f) /\ i + 1 \in 1..Len(f) /\ i + 1 \in (i + 1)..Len(f)
    BY <1>2, <2>3
  <2>5. n < f[i + 1] /\ f[i + 1] \in Members(f)
    BY <1>2, <2>4 DEF Between
  <2>6. CASE j = i + 1
    BY <2>1, <2>2, <2>4, <2>5, <2>6
  <2>7. CASE j > i + 1
    <3>1. f[i + 1] < f[j] /\ f[i + 1] \in Nat
      BY <1>2, <2>4, <2>7
    <3> QED BY <2>1, <2>2, <2>4, <2>5, <3>1
  <2> QED BY <2>3, <2>6, <2>7
(* The block that follows n is not free.                                   *)
<1>9. CASE /\ i < Len(f) => n + NodeSize + s[n] # f[i + 1]
           /\ t = s /\ l = i + 1
  <2>1. HasPut(g, f, i, n, l) /\ g \in Seq(Nat) /\ Ordered(g) /\ Members(g) = Members(f) \cup {n}
    <3>1. i + 1 \in {i + 1, i + 2} /\ i + 1 <= Len(f) + 1 /\ i + 1 # i + 2
      BY <1>2
    <3>2. g \in Seq(Nat) /\ Ordered(g) /\ HasPut(g, f, i, n, i + 1)
      BY <1>1, <1>4, <1>9, <3>1, PutBehind
    <3> QED BY <1>9, <3>1, <3>2 DEF HasPut
  <2>2. Members(g) \cap DOMAIN k = {} /\ Members(g) \cup DOMAIN k = DOMAIN t
    BY <1>3, <1>4, <1>5, <1>9, <2>1
  <2>3. \A x \in DOMAIN k : t[x] >= k[x]
    BY <1>1, <1>5, <1>9 DEF Shared
  <2>4. Shared(t, c, g, k)
    BY <1>1, <1>5, <1>9, <2>1, <2>2, <2>3 DEF Shared
  <2>5. n + NodeSize + s[n] \notin Members(f) \cup {n}
    <3>1. n + NodeSize + s[n] # n
      BY <1>0, <1>4
    <3>2. ASSUME n + NodeSize + s[n] \in Members(f)
          PROVE  FALSE
      <4>1. n < n + NodeSize + s[n]
        BY <1>0, <1>4
      <4>2. i < Len(f) /\ f[i + 1] <= n + NodeSize + s[n] /\ n < f[i + 1] /\ f[i + 1] \in DOMAIN s
        BY <1>2, <1>8, <3>2, <4>1
      <4>3. n + NodeSize + s[n] <= f[i + 1] /\ f[i + 1] \in Nat
        BY <1>2, <1>4, <4>2
      <4> QED BY <1>0, <1>4, <1>9, <4>2, <4>3
    <3> QED BY <3>1, <3>2
  <2>6. ASSUME NEW x \in Members(g), x + NodeSize + t[x] \in Members(g)
        PROVE  i > 0 /\ x = f[i] /\ x + NodeSize + t[x] = n
    <3>1. x \in Members(f) /\ x + NodeSize + s[x] = n
      BY <1>6, <1>9, <2>1, <2>5, <2>6
    <3>2. x \in Nat /\ s[x] \in Nat /\ x \in DOMAIN s /\ x < n
      BY <1>0, <1>2, <3>1
    <3>3. i > 0 /\ x <= f[i] /\ f[i] < n /\ f[i] \in DOMAIN s
      BY <1>2, <1>7, <3>1, <3>2
    <3>4. ASSUME x < f[i]
          PROVE  FALSE
      <4>1. x + NodeSize + s[x] <= f[i]
        BY <1>2, <3>2, <3>3, <3>4
      <4> QED BY <1>2, <1>4, <3>1, <3>3, <4>1
    <3> QED BY <1>2, <1>9, <3>1, <3>2, <3>3, <3>4
  <2>7. \A x \in Members(f) : x \in Members(g) /\ t[x] = s[x]
    BY <1>9, <2>1
  <2>8. \A x \in DOMAIN k : t[x] = s[x]
    BY <1>9
  <2> QED BY <2>1, <2>4, <2>6, <2>7, <2>8 DEF IsBack
(* It is, and n takes it over.                                             *)
<1>10. CASE /\ i < Len(f) /\ n + NodeSize + s[n] = f[i + 1]
            /\ t = Merge(s, n, f[i + 1]) /\ l = i + 2
  <2> DEFINE m == f[i + 1]
  <2>0. m \in Members(f) /\ m \in DOMAIN s /\ n < m /\ m = n + NodeSize + s[n] /\ m \in Nat /\ s[m] \in Nat
    BY <1>0, <1>2, <1>4, <1>10
  <2>1. /\ HasPut(g, f, i, n, l)
        /\ g \in Seq(Nat) /\ Ordered(g) /\ Members(g) = (Members(f) \ {m}) \cup {n}
    <3>1. i + 2 \in {i + 1, i + 2} /\ i + 2 <= Len(f) + 1
      BY <1>2, <1>10
    <3>2. Between(f, Len(f), i, n, i + 2)
      BY <1>2 DEF Between
    <3>3. g \in Seq(Nat) /\ Ordered(g) /\ HasPut(g, f, i, n, i + 2)
      BY <1>1, <1>4, <1>10, <3>1, <3>2, PutBehind
    <3> QED BY <1>10, <3>3 DEF HasPut, m
  <2> HIDE DEF m
  <2>2. t = Merge(s, n, m)
    BY <1>10 DEF m
  <2>3. /\ DOMAIN t = DOMAIN s \ {m}
        /\ \A x \in DOMAIN s \ {m} : t[x] = IF x = n THEN s[n] + NodeSize + s[m] ELSE s[x]
        /\ Tiles(t, c)
    <3>1. IsMerged(t, s, n, m) /\ Tiles(t, c)
      BY <1>1, <1>4, <2>0, <2>2, MergeTiles
    <3> QED BY <3>1 DEF IsMerged
  <2>4. Members(g) \cap DOMAIN k = {} /\ Members(g) \cup DOMAIN k = DOMAIN t
    <3>1. DOMAIN t = DOMAIN s \ {m} /\ DOMAIN k = DOMAIN h \ {n} /\ m # n
      BY <1>4, <1>5, <2>0, <2>3
    <3> QED BY <1>3, <1>4, <2>0, <2>1, <3>1
  <2>5. \A x \in DOMAIN k : t[x] = s[x] /\ t[x] >= k[x]
    <3>1. \A x \in DOMAIN k : x \in DOMAIN s \ {m} /\ x # n /\ x \in DOMAIN h
      BY <1>3, <1>5, <2>0
    <3> QED BY <1>1, <1>5, <2>3, <3>1 DEF Shared
  <2>6. Shared(t, c, g, k)
    BY <1>5, <2>1, <2>3, <2>4, <2>5 DEF Shared
  <2>7. \A x \in Members(f) : x # m => t[x] = s[x] /\ x # n
    BY <1>2, <1>4, <2>3
  <2>8. t[n] = s[n] + NodeSize + s[m] /\ n + NodeSize + t[n] = m + NodeSize + s[m]
    <3>1. n \in DOMAIN s \ {m}
      BY <1>4, <2>0
    <3>2. t[n] = s[n] + NodeSize + s[m]
      BY <2>3, <3>1
    <3> QED BY <1>0, <1>4, <2>0, <3>2
  <2>9. n + NodeSize + t[n] \notin Members(g)
    <3>1. m + NodeSize + s[m] # n
      BY <1>0, <1>4, <2>0
    <3> QED BY <1>6, <2>0, <2>1, <2>8, <3>1
  <2>10. ASSUME NEW x \in Members(g), x + NodeSize + t[x] \in Members(g)
         PROVE  i > 0 /\ x = f[i] /\ x + NodeSize + t[x] = n
    <3>1. x \in Members(f) /\ x # m /\ t[x] = s[x]
      BY <2>1, <2>7, <2>9, <2>10
    <3>2. x + NodeSize + s[x] = n
      BY <1>6, <2>1, <2>10, <3>1
    <3>3. x \in Nat /\ s[x] \in Nat /\ x \in DOMAIN s /\ x < n
      BY <1>0, <1>2, <3>1, <3>2
    <3>4. i > 0 /\ x <= f[i] /\ f[i] < n /\ f[i] \in DOMAIN s
      BY <1>2, <1>7, <3>1, <3>3
    <3>5. ASSUME x < f[i]
          PROVE  FALSE
      <4>1. x + NodeSize + s[x] <= f[i]
        BY <1>2, <3>3, <3>4, <3>5
      <4> QED BY <1>2, <1>4, <3>2, <3>4, <4>1
    <3> QED BY <1>2, <3>1, <3>2, <3>3, <3>4, <3>5
  <2>11. \A x \in Members(f) : x < n => x \in Members(g) /\ t[x] = s[x]
    <3> SUFFICES ASSUME NEW x \in Members(f), x < n
                 PROVE  x \in Members(g) /\ t[x] = s[x]
      OBVIOUS
    <3>1. x # m
      BY <1>2, <1>4, <2>0
    <3> QED BY <2>1, <2>7, <3>1
  <2> QED BY <2>1, <2>5, <2>6, <2>10, <2>11 DEF IsBack
<1> QED BY <1>9, <1>10 DEF Behind

OnlyTouches(t, G, p) == \A x \in G : x + NodeSize + t[x] \in G => x = p

(* The entry i touches the block that came back, and takes it over.        *)
LEMMA JoinFront ==
  ASSUME NEW t, NEW c \in Nat, NEW g, NEW k, Shared(t, c, g, k),
         NEW n \in Members(g), NEW p \in Members(g), p + NodeSize + t[p] = n,
         OnlyTouches(t, Members(g), p),
         NEW q \in Seq(Nat), Ordered(q), Members(q) = Members(g) \ {n}
  PROVE  Settled(Merge(t, p, n), c, q, k) /\ Same(Merge(t, p, n), t, DOMAIN k)
<1> DEFINE u == Merge(t, p, n)
<1>0. NodeSize \in Nat /\ NodeSize > 0
  BY LayoutAssumption
<1>1. /\ DOMAIN t \subseteq Nat /\ \A x \in DOMAIN t : t[x] \in Nat
      /\ \A x, y \in DOMAIN t : x < y => x + NodeSize + t[x] <= y
      /\ \A x \in Members(g) : x \in DOMAIN t
  BY SharedFacts
<1>2. /\ Members(g) \cap DOMAIN k = {} /\ Members(g) \cup DOMAIN k = DOMAIN t
      /\ k \in [DOMAIN k -> Nat] /\ \A x \in DOMAIN k : t[x] >= k[x]
      /\ Tiles(t, c)
  BY DEF Shared
<1>3. n \in DOMAIN t /\ p \in DOMAIN t /\ n \in Nat /\ p \in Nat /\ t[n] \in Nat /\ t[p] \in Nat /\ p < n
  BY <1>0, <1>1
<1>4. /\ DOMAIN u = DOMAIN t \ {n}
      /\ \A x \in DOMAIN t \ {n} : u[x] = IF x = p THEN t[p] + NodeSize + t[n] ELSE t[x]
      /\ Tiles(u, c)
  <2>1. IsMerged(u, t, p, n) /\ Tiles(u, c)
    BY <1>2, <1>3, MergeTiles
  <2> QED BY <2>1 DEF IsMerged
<1> HIDE DEF u
<1>5. \A x \in DOMAIN k : u[x] = t[x]
  <2>1. \A x \in DOMAIN k : x \in DOMAIN t \ {n} /\ x # p
    BY <1>2
  <2> QED BY <1>4, <2>1
<1>6. Members(q) \cap DOMAIN k = {} /\ Members(q) \cup DOMAIN k = DOMAIN u
  <2>1. DOMAIN u = DOMAIN t \ {n} /\ n \notin DOMAIN k
    BY <1>2, <1>4
  <2> QED BY <1>2, <2>1
<1>7. Shared(u, c, q, k)
  BY <1>2, <1>4, <1>5, <1>6 DEF Shared
<1>8. Apart(u, Members(q))
  <2> SUFFICES ASSUME NEW x \in Members(g) \ {n}
               PROVE  x + NodeSize + u[x] \notin Members(g) \ {n}
    BY DEF Apart
  <2>1. CASE x = p
    <3>1. u[p] = t[p] + NodeSize + t[n]
      BY <1>3, <1>4
    <3>2. p + NodeSize + u[p] = n + NodeSize + t[n]
      BY <1>0, <1>3, <3>1
    <3>3. n + NodeSize + t[n] \notin Members(g)
      BY <1>3 DEF OnlyTouches
    <3> QED BY <2>1, <3>2, <3>3
  <2>2. CASE x # p
    <3>1. u[x] = t[x]
      BY <1>1, <1>4, <2>2
    <3> QED BY <2>2, <3>1 DEF OnlyTouches
  <2> QED BY <2>1, <2>2
<1> QED
  BY <1>5, <1>7, <1>8 DEF Settled, Same, u

(* deallocate: a block that no free one touches from the front.            *)
LEMMA GiveBackApart ==
  ASSUME NEW s, NEW c \in Nat, NEW f, NEW h, Settled(s, c, f, h),
         NEW n \in DOMAIN h, NEW i \in Nat, i <= Len(f),
         Between(f, Len(f), i, n, i + 1),
         i > 0 => f[i] + NodeSize + s[f[i]] # n,
         NEW t, NEW g, NEW l, g = Spliced(f, i, <<n>>, l), NEW k, k = Drop(h, {n}),
         Behind(t, l, s, f, i, n)
  PROVE  Settled(t, c, g, k) /\ Same(t, s, DOMAIN k)
<1>0. IsBack(t, c, g, k, s, f, i, n, l)
  BY PutBack
<1>1. /\ Shared(t, c, g, k)
      /\ \A x \in DOMAIN k : t[x] = s[x]
      /\ \A x \in Members(f) : x < n => x \in Members(g) /\ t[x] = s[x]
      /\ \A x \in Members(g) : x + NodeSize + t[x] \in Members(g)
                                 => i > 0 /\ x = f[i] /\ x + NodeSize + t[x] = n
  BY <1>0 DEF IsBack
<1>2. Apart(t, Members(g))
  <2> SUFFICES ASSUME NEW x \in Members(g), x + NodeSize + t[x] \in Members(g)
               PROVE  FALSE
    BY DEF Apart
  <2>1. i > 0 /\ x = f[i] /\ x + NodeSize + t[x] = n
    BY <1>1
  <2>2. f[i] \in Members(f) /\ f[i] < n
    <3>1. Shared(s, c, f, h)
      BY DEF Settled
    <3>2. Len(f) \in Nat /\ \A j \in 1..Len(f) : f[j] \in Members(f)
      BY <3>1, SharedFacts
    <3>3. i \in 1..Len(f) /\ i \in 1..i
      BY <2>1, <3>2
    <3> QED BY <3>2, <3>3 DEF Between
  <2>3. t[x] = s[x]
    BY <1>1, <2>1, <2>2
  <2> QED BY <2>1, <2>3
<1> QED
  BY <1>1, <1>2 DEF Settled, Same

(* deallocate: a block that goes into the free one in front of it.         *)
LEMMA GiveBackJoined ==
  ASSUME NEW s, NEW c \in Nat, NEW f, NEW h, Settled(s, c, f, h),
         NEW n \in DOMAIN h, NEW i \in Nat, i <= Len(f), i > 0,
         Between(f, Len(f), i, n, i + 1),
         f[i] + NodeSize + s[f[i]] = n,
         NEW t, NEW q, NEW l, q = Spliced(f, i, <<>>, l), NEW k, k = Drop(h, {n}),
         Behind(t, l, s, f, i, n)
  PROVE  Settled(Merge(t, f[i], n), c, q, k) /\ Same(Merge(t, f[i], n), s, DOMAIN k)
<1> DEFINE g == Spliced(f, i, <<n>>, l)
<1>0. IsBack(t, c, g, k, s, f, i, n, l)
  BY PutBack
<1>1. /\ Shared(t, c, g, k)
      /\ n \in Members(g) /\ HasPut(g, f, i, n, l)
      /\ \A x \in DOMAIN k : t[x] = s[x]
      /\ \A x \in Members(f) : x < n => x \in Members(g) /\ t[x] = s[x]
      /\ \A x \in Members(g) : x + NodeSize + t[x] \in Members(g)
                                 => i > 0 /\ x = f[i] /\ x + NodeSize + t[x] = n
  BY <1>0 DEF IsBack
<1> HIDE DEF g
<1>2. Shared(s, c, f, h) /\ f \in Seq(Nat) /\ Ordered(f) /\ Members(f) \cap DOMAIN h = {}
  BY DEF Settled, Shared
<1>3. Len(f) \in Nat /\ \A j \in 1..Len(f) : f[j] \in Members(f)
  BY <1>2, SharedFacts
<1>4. f[i] \in Members(f) /\ f[i] < n
  <2>1. i \in 1..Len(f) /\ i \in 1..i
    BY <1>3
  <2> QED BY <1>3, <2>1 DEF Between
<1>5. f[i] \in Members(g) /\ f[i] + NodeSize + t[f[i]] = n
  BY <1>1, <1>4
<1>6. q \in Seq(Nat) /\ Ordered(q) /\ Members(q) = Members(g) \ {n}
  <2>0. n \notin Members(f)
    BY <1>2
  <2>1. CASE l = i + 2 /\ i < Len(f)
    <3>1. q \in Seq(Nat) /\ Ordered(q) /\ Members(q) = Members(f) \ {f[i + 1]}
      BY <1>2, <2>1, TakeOut
    <3>2. Members(g) = (Members(f) \ {f[i + 1]}) \cup {n}
      BY <1>1, <2>1 DEF HasPut
    <3> QED BY <2>0, <3>1, <3>2
  <2>2. CASE l = i + 1
    <3>1. IsWithout(q, f, i, i + 1)
      <4>1. i + 1 \in Nat /\ i < i + 1 /\ i + 1 <= Len(f) + 1
        BY <1>3
      <4> QED BY <1>2, <2>2, <4>1, SpliceNothing
    <3>2. q \in Seq(Nat) /\ Len(q) = Len(f) /\ \A j \in 1..Len(q) : q[j] = f[j]
      <4>1. /\ q \in Seq(Nat) /\ Len(q) = Len(f) + i + 1 - (i + 1)
            /\ \A j \in 1..Len(q) : q[j] = IF j <= i THEN f[j] ELSE f[j + (i + 1) - 1 - i]
        BY <3>1 DEF IsWithout
      <4>2. Len(q) = Len(f)
        BY <1>3, <4>1
      <4>3. ASSUME NEW j \in 1..Len(q)
            PROVE  q[j] = f[j]
        <5>1. j + (i + 1) - 1 - i = j
          BY <1>3, <4>2
        <5> QED BY <4>1, <5>1
      <4> QED BY <4>1, <4>2, <4>3
    <3>3. q = f
      BY <1>2, <3>2
    <3>4. l # i + 2
      BY <2>2
    <3>5. Members(g) = Members(f) \cup {n}
      BY <1>1, <3>4 DEF HasPut
    <3> QED BY <1>2, <2>0, <3>3, <3>5
  <2> QED BY <2>1, <2>2 DEF Behind
<1>7. Settled(Merge(t, f[i], n), c, q, k) /\ Same(Merge(t, f[i], n), t, DOMAIN k)
  <2>1. OnlyTouches(t, Members(g), f[i])
    BY <1>1 DEF OnlyTouches
  <2> QED BY <1>1, <1>5, <1>6, <2>1, JoinFront
<1> QED
  BY <1>1, <1>7 DEF Same

-----------------------------------------------------------------------------
(* The invariant                                                           *)

Paged   == /\ taken <=> owner # {}
           /\ owner \subseteq Objects /\ \A o, p \in owner : o = p
           /\ taken \in BOOLEAN
Unpaged == ~taken => extent = 0 /\ free = <<>> /\ size = NoBlocks /\ held = NoBlocks
Blocks  == extent \in Nat /\ result \in Nat /\ Settled(size, extent, free, held)

IInv == Paged /\ Unpaged /\ Blocks

LEMMA EmptyPage == Settled(NoBlocks, 0, <<>>, NoBlocks)
<1>1. DOMAIN NoBlocks = {} /\ NoBlocks \in [{} -> Nat]
  BY DEF NoBlocks
<1>2. Members(<<>>) = {}
  BY DEF Members, Entries
<1>3. Tiles(NoBlocks, 0)
  BY <1>1 DEF Tiles
<1>4. Ordered(<<>>)
  BY DEF Ordered, Rising
<1> QED
  BY <1>1, <1>2, <1>3, <1>4 DEF Settled, Shared, Apart

(* The constructor leaves one free block, which is the whole page.         *)
LEMMA FreshPage ==
  ASSUME NEW c \in Nat, c >= NodeSize
  PROVE  Settled([n \in {0} |-> c - NodeSize], c, <<0>>, NoBlocks)
<1> DEFINE s == [n \in {0} |-> c - NodeSize]
<1>0. NodeSize \in Nat /\ NodeSize > 0
  BY LayoutAssumption
<1>1. DOMAIN NoBlocks = {} /\ NoBlocks \in [{} -> Nat]
  BY DEF NoBlocks
<1>2. Members(<<0>>) = {0}
  BY DEF Members, Entries
<1>3. DOMAIN s = {0} /\ s[0] = c - NodeSize /\ s \in [{0} -> Nat]
  BY <1>0
<1> HIDE DEF s
<1>4. Tiles(s, c)
  BY <1>0, <1>3 DEF Tiles
<1>5. Ordered(<<0>>) /\ <<0>> \in Seq(Nat)
  BY DEF Ordered, Rising
<1>6. Apart(s, {0})
  BY <1>0, <1>3 DEF Apart
<1>7. Shared(s, c, <<0>>, NoBlocks)
  BY <1>1, <1>2, <1>3, <1>4, <1>5 DEF Shared
<1> QED
  BY <1>2, <1>6, <1>7 DEF Settled, s

(* What the users see of a table of sizes and of what is in use.           *)
AreaOf(s, n) == [from |-> n, to |-> n + NodeSize + s[n]]
Areas(s, h) == {AreaOf(s, n) : n \in DOMAIN h}

LessArea(s, h, n) == Areas(s, h) \ {AreaOf(s, n)}

LEMMA MoreAreas ==
  ASSUME NEW s, NEW t, NEW h, NEW k, NEW n, DOMAIN k = DOMAIN h \cup {n},
         Same(t, s, DOMAIN h)
  PROVE  Areas(t, k) = Areas(s, h) \cup {AreaOf(t, n)}
  BY DEF Areas, AreaOf, Same, Drop

LEMMA FewerAreas ==
  ASSUME NEW s, NEW t, NEW h, NEW n \in DOMAIN h, NEW k, k = Drop(h, {n}),
         Same(t, s, DOMAIN k)
  PROVE  Areas(t, k) = LessArea(s, h, n)
  BY DEF Areas, AreaOf, LessArea, Same, Drop

-----------------------------------------------------------------------------
(* The steps. Each keeps the invariant and is a step of PageHeap.          *)

InUse == Areas(size, held)

LEMMA Mapping == {[from |-> n, to |-> End(n)] : n \in DOMAIN held} = InUse
  BY DEF InUse, Areas, AreaOf, End

LEMMA InitStep == Init => IInv
<1> SUFFICES ASSUME Init PROVE IInv
  OBVIOUS
<1>1. Paged /\ Unpaged
  BY DEF Init, Paged, Unpaged
<1>2. Blocks
  BY EmptyPage DEF Init, Blocks, Refused
<1> QED BY <1>1, <1>2 DEF IInv

LEMMA ConstructStep ==
  ASSUME IInv, NEW o \in Objects, NEW c \in Capacities, Construct(o, c)
  PROVE  IInv' /\ Heap!Open(c)
<1>1. c \in Nat /\ c >= NodeSize /\ extent = 0 /\ held = NoBlocks
  BY LayoutAssumption DEF IInv, Unpaged, Construct
<1>2. Paged' /\ Unpaged'
  BY DEF IInv, Paged, Unpaged, Construct
<1>3. Blocks'
  BY <1>1, FreshPage DEF IInv, Blocks, Construct
<1>4. DOMAIN held = {} /\ DOMAIN held' = {}
  BY <1>1 DEF Construct, NoBlocks
<1>5. Heap!Open(c)
  BY <1>1, <1>4 DEF Heap!Open, Construct
<1> QED BY <1>2, <1>3, <1>5 DEF IInv

LEMMA MoveStep ==
  ASSUME IInv, NEW o \in Objects, NEW p \in Objects, Move(o, p)
  PROVE  IInv' /\ UNCHANGED <<extent, size, held, result>>
  BY DEF IInv, Paged, Unpaged, Blocks, Move, blockVars

LEMMA DestroyStep ==
  ASSUME IInv, NEW o \in Objects, Destroy(o)
  PROVE  IInv' /\ Heap!Close
<1>1. held = NoBlocks /\ held' = NoBlocks
  <2>1. held = [x \in {} |-> held[x]]
    BY DEF IInv, Blocks, Settled, Shared, Destroy
  <2> QED BY <2>1 DEF NoBlocks, Destroy
<1>2. Paged'
  BY DEF IInv, Paged, Destroy
<1>3. Unpaged'
  BY <1>1 DEF Unpaged, Destroy
<1>4. Blocks'
  BY <1>1, EmptyPage DEF IInv, Blocks, Destroy
<1>5. Heap!Close
  BY DEF Heap!Close, Destroy
<1> QED BY <1>2, <1>3, <1>4, <1>5 DEF IInv

(* What is taken from a free block is clear of what is in use.             *)
LEMMA TakeIsClear ==
  ASSUME Blocks, NEW n \in DOMAIN size, n \notin DOMAIN held,
         NEW e \in Nat, n <= e, e <= n + NodeSize + size[n]
  PROVE  /\ \A a \in InUse : e <= a.from \/ a.to <= n
         /\ n \in 0..extent /\ e \in 0..extent
<1>0. NodeSize \in Nat /\ NodeSize > 0
  BY LayoutAssumption
<1>1. /\ DOMAIN size \subseteq Nat /\ \A x \in DOMAIN size : size[x] \in Nat
      /\ \A x, y \in DOMAIN size : x < y => x + NodeSize + size[x] <= y
      /\ \A x \in DOMAIN size : x + NodeSize + size[x] <= extent
      /\ DOMAIN held \subseteq DOMAIN size /\ extent \in Nat
  BY DEF Blocks, Settled, Shared, Tiles
<1>2. \A a \in InUse : e <= a.from \/ a.to <= n
  <2> SUFFICES ASSUME NEW x \in DOMAIN held
               PROVE  e <= x \/ x + NodeSize + size[x] <= n
    BY DEF InUse, Areas, AreaOf
  <2>1. x \in DOMAIN size /\ x # n /\ x \in Nat /\ n \in Nat /\ size[n] \in Nat /\ size[x] \in Nat
    BY <1>1
  <2>2. CASE x < n
    BY <1>1, <2>1, <2>2
  <2>3. CASE n < x
    <3>1. n + NodeSize + size[n] <= x
      BY <1>1, <2>1, <2>3
    <3> QED BY <1>0, <2>1, <3>1
  <2> QED BY <2>1, <2>2, <2>3
<1>3. n \in 0..extent /\ e \in 0..extent
  <2>1. n \in Nat /\ size[n] \in Nat /\ n + NodeSize + size[n] <= extent
    BY <1>1
  <2> QED BY <1>0, <1>1, <2>1
<1> QED BY <1>2, <1>3

LEMMA AllocateWholeStep ==
  ASSUME IInv, NEW o \in Objects, NEW r \in Requests, AllocateWhole(o, r)
  PROVE  IInv' /\ Heap!Take(r)
<1>0. NodeSize \in Nat /\ NodeSize > 0 /\ r \in Nat
  BY LayoutAssumption
<1>1. PICK i \in DOMAIN free :
        /\ size[free[i]] >= r
        /\ free' = Remove(free, i) /\ held' = Put(held, free[i], r)
        /\ result' = free[i] + NodeSize
  BY DEF AllocateWhole, Fits
<1>2. taken /\ UNCHANGED <<owner, taken, extent, size>>
  BY DEF AllocateWhole, pageVars, IInv, Paged
<1> DEFINE n == free[i]
<1>3. /\ Settled(size, extent, free, held) /\ Shared(size, extent, free, held)
      /\ free \in Seq(Nat) /\ extent \in Nat /\ i \in 1..Len(free)
      /\ Members(free) \cap DOMAIN held = {}
  BY DEF IInv, Blocks, Settled, Shared
<1>4. n \in Members(free) /\ n \in DOMAIN size /\ n \in Nat /\ size[n] \in Nat /\ n \notin DOMAIN held
  BY <1>3, SharedFacts
<1>5. Settled(size', extent', free', held')
  BY <1>0, <1>1, <1>2, <1>3, TakeWhole
<1>6. IInv'
  BY <1>0, <1>1, <1>2, <1>4, <1>5 DEF IInv, Paged, Unpaged, Blocks
<1>7. DOMAIN held' = DOMAIN held \cup {n} /\ Same(size', size, DOMAIN held)
  BY <1>1, <1>2 DEF Put, Same
<1> DEFINE e == n + NodeSize + size[n]
<1>8. Areas(size', held') = InUse \cup {[from |-> n, to |-> e]}
  <2>1. Areas(size', held') = InUse \cup {AreaOf(size', n)}
    BY <1>7, MoreAreas DEF InUse
  <2> QED BY <1>2, <2>1 DEF AreaOf
<1>9. e \in Nat /\ n <= e /\ e <= n + NodeSize + size[n] /\ n + NodeSize + r <= e
  BY <1>0, <1>1, <1>4
<1>10. /\ \A a \in InUse : e <= a.from \/ a.to <= n
       /\ n \in 0..extent /\ e \in 0..extent
  BY <1>4, <1>9, TakeIsClear DEF IInv
<1> HIDE DEF n, e
<1>11. Heap!Take(r)
  <2>1. {[from |-> x, to |-> End(x)] : x \in DOMAIN held}' = InUse \cup {[from |-> n, to |-> e]}
    BY <1>8 DEF Areas, AreaOf, End
  <2>2. result' = n + NodeSize
    BY <1>1 DEF n
  <2> QED BY <1>2, <1>9, <1>10, <2>1, <2>2, Mapping DEF Heap!Take, Heap!Clear
<1> QED BY <1>6, <1>11

LEMMA AlignsForward ==
  ASSUME NEW a \in Nat
  PROVE  AlignUp(a) \in Nat /\ a <= AlignUp(a)
<1>0. Alignment \in Nat /\ Alignment > 0
  BY LayoutAssumption
<1>1. a % Alignment \in 0..(Alignment - 1)
  BY <1>0
<1> DEFINE d == Alignment - (a % Alignment)
<1>2. d \in Nat
  BY <1>0, <1>1
<1> HIDE DEF d
<1>3. d % Alignment \in 0..(Alignment - 1)
  BY <1>0, <1>2
<1>4. AlignUp(a) = a + (d % Alignment)
  BY DEF AlignUp, d
<1> QED BY <1>0, <1>3, <1>4

LEMMA AllocateCutStep ==
  ASSUME IInv, NEW o \in Objects, NEW r \in Requests, AllocateCut(o, r)
  PROVE  IInv' /\ Heap!Take(r)
<1>0. NodeSize \in Nat /\ NodeSize > 0 /\ r \in Nat
  BY LayoutAssumption
<1>1. PICK i \in DOMAIN free :
        /\ size[free[i]] >= r /\ ~Whole(free[i], r)
        /\ free' = [free EXCEPT ![i] = Cut(free[i], r)]
        /\ size' = Put(Put(size, Cut(free[i], r), End(free[i]) - Cut(free[i], r) - NodeSize),
                       free[i], Cut(free[i], r) - (free[i] + NodeSize))
        /\ held' = Put(held, free[i], r)
        /\ result' = free[i] + NodeSize
  BY DEF AllocateCut, Fits
<1>2. taken /\ UNCHANGED <<owner, taken, extent>>
  BY DEF AllocateCut, pageVars, IInv, Paged
<1> DEFINE n == free[i]
           m == Cut(n, r)
<1>3. /\ Settled(size, extent, free, held) /\ Shared(size, extent, free, held)
      /\ free \in Seq(Nat) /\ extent \in Nat /\ i \in 1..Len(free)
      /\ Members(free) \cap DOMAIN held = {}
  BY DEF IInv, Blocks, Settled, Shared
<1>4. n \in Members(free) /\ n \in DOMAIN size /\ n \in Nat /\ size[n] \in Nat /\ n \notin DOMAIN held
  BY <1>3, SharedFacts
<1> HIDE DEF n, m
<1>5. m \in Nat /\ n + NodeSize + r <= m
  BY <1>0, <1>4, AlignsForward DEF m, Cut
<1>6. m + NodeSize <= n + NodeSize + size[n]
  <2>1. ~(m + NodeSize > n + NodeSize + size[n])
    BY <1>1 DEF Whole, End, n, m
  <2> QED BY <1>0, <1>4, <1>5, <2>1
<1>7. size' = Put(Put(size, m, (n + NodeSize + size[n]) - m - NodeSize), n, m - (n + NodeSize))
  BY <1>1 DEF End, n, m
<1>8. /\ Settled(size', extent, [free EXCEPT ![i] = m], Put(held, n, r))
      /\ n + NodeSize + size'[n] = m
      /\ n \notin DOMAIN held /\ Same(size', size, DOMAIN held)
  <2>1. n = free[i] /\ r \in Nat
    BY <1>0 DEF n
  <2>2. Settled(size', extent, [free EXCEPT ![i] = m], Put(held, n, r)) /\ FrontTaken(size', size, held, n, m)
    BY <1>3, <1>5, <1>6, <1>7, <2>1, TakeFront
  <2> QED BY <2>2 DEF FrontTaken
<1>9. Settled(size', extent', free', held')
  BY <1>1, <1>2, <1>8 DEF n, m
<1>10. result' = n + NodeSize /\ held' = Put(held, n, r)
  BY <1>1 DEF n
<1>11. IInv'
  BY <1>0, <1>2, <1>4, <1>9, <1>10 DEF IInv, Paged, Unpaged, Blocks
<1>12. Areas(size', held') = InUse \cup {[from |-> n, to |-> m]}
  <2>1. DOMAIN held' = DOMAIN held \cup {n}
    BY <1>10 DEF Put
  <2>2. Areas(size', held') = InUse \cup {AreaOf(size', n)}
    BY <1>8, <2>1, MoreAreas DEF InUse
  <2> QED BY <1>8, <2>2 DEF AreaOf
<1>13. n <= m /\ m <= n + NodeSize + size[n]
  BY <1>0, <1>4, <1>5, <1>6
<1>14. /\ \A a \in InUse : m <= a.from \/ a.to <= n
       /\ n \in 0..extent /\ m \in 0..extent
  BY <1>4, <1>5, <1>13, TakeIsClear DEF IInv
<1>15. Heap!Take(r)
  <2>1. {[from |-> x, to |-> End(x)] : x \in DOMAIN held}' = InUse \cup {[from |-> n, to |-> m]}
    BY <1>12 DEF Areas, AreaOf, End
  <2> QED BY <1>2, <1>5, <1>10, <1>14, <2>1, Mapping DEF Heap!Take, Heap!Clear
<1> QED BY <1>11, <1>15

(* A refusal: an area that were clear would begin in a free block and go   *)
(* beyond it, into a block that is in use since no two free ones touch.    *)
LEMMA AllocateRefusedStep ==
  ASSUME IInv, NEW o \in Objects, NEW r \in Requests, AllocateRefused(o, r)
  PROVE  IInv' /\ Heap!Refuse(r)
<1>0. NodeSize \in Nat /\ NodeSize > 0 /\ r \in Nat
  BY LayoutAssumption
<1>1. /\ UNCHANGED <<owner, taken, extent, size, free, held>> /\ result' = 0
      /\ \A i \in DOMAIN free : size[free[i]] < r
  BY DEF AllocateRefused, pageVars, blockVars, Refused
<1>2. IInv'
  BY <1>1 DEF IInv, Paged, Unpaged, Blocks
<1>3. /\ Shared(size, extent, free, held) /\ Apart(size, Members(free))
      /\ free \in Seq(Nat) /\ extent \in Nat
  BY DEF IInv, Blocks, Settled, Shared
<1>4. /\ DOMAIN size \subseteq Nat /\ \A x \in DOMAIN size : size[x] \in Nat
      /\ \A x, y \in DOMAIN size : x < y => x + NodeSize + size[x] <= y
      /\ \A u \in 0..(extent - 1) : \E x \in DOMAIN size : x <= u /\ u < x + NodeSize + size[x]
      /\ Members(free) \cup DOMAIN held = DOMAIN size
  BY <1>3 DEF Shared, Tiles
<1>5. \A x \in Members(free) : size[x] < r
  BY <1>1, <1>3 DEF Members, Entries
<1>6. ASSUME NEW u \in 0..extent, u + NodeSize + r <= extent,
             \A a \in InUse : u + NodeSize + r <= a.from \/ a.to <= u
      PROVE  FALSE
  <2> DEFINE v == u + NodeSize + r
  <2>0. u \in Nat /\ v \in Nat /\ u < v /\ v <= extent
    BY <1>0, <1>3, <1>6
  <2>1. \A x \in DOMAIN held : v <= x \/ x + NodeSize + size[x] <= u
    <3> TAKE x \in DOMAIN held
    <3>1. AreaOf(size, x) \in InUse
      BY DEF InUse, Areas
    <3> QED BY <1>6, <3>1 DEF AreaOf
  <2>2. v = u + NodeSize + r
    OBVIOUS
  <2> HIDE DEF v
  <2>3. PICK b \in DOMAIN size : b <= u /\ u < b + NodeSize + size[b]
    <3>1. u \in 0..(extent - 1)
      BY <1>3, <2>0
    <3> QED BY <1>4, <3>1
  <2>4. b \in Nat /\ size[b] \in Nat
    BY <1>4
  <2>5. b \in Members(free)
    <3>1. b \notin DOMAIN held
      BY <1>0, <2>0, <2>1, <2>3, <2>4
    <3> QED BY <1>4, <3>1
  <2> DEFINE e == b + NodeSize + size[b]
  <2>6. e \in Nat /\ u < e /\ b < e /\ e < v
    BY <1>0, <1>5, <2>0, <2>2, <2>3, <2>4, <2>5
  <2>7. e \notin Members(free)
    BY <1>3, <2>5 DEF Apart
  <2> HIDE DEF e
  <2>8. PICK d \in DOMAIN size : d <= e /\ e < d + NodeSize + size[d]
    <3>1. e \in 0..(extent - 1)
      BY <1>3, <2>0, <2>6
    <3> QED BY <1>4, <3>1
  <2>9. d \in Nat /\ size[d] \in Nat
    BY <1>4
  <2>10. d = e
    <3>1. CASE d < b
      <4>1. d + NodeSize + size[d] <= b
        BY <1>4, <3>1
      <4> QED BY <1>0, <2>4, <2>6, <2>8, <2>9, <4>1
    <3>2. CASE d = b
      BY <2>6, <2>8, <3>2 DEF e
    <3>3. CASE b < d
      <4>1. e <= d
        BY <1>4, <3>3 DEF e
      <4> QED BY <2>6, <2>8, <2>9, <4>1
    <3> QED BY <2>4, <2>9, <3>1, <3>2, <3>3
  <2>11. d \in DOMAIN held
    BY <1>4, <2>7, <2>10
  <2> QED BY <1>0, <2>0, <2>1, <2>6, <2>8, <2>9, <2>10, <2>11
<1>7. Heap!Refuse(r)
  <2>1. UNCHANGED {[from |-> x, to |-> End(x)] : x \in DOMAIN held}
    BY <1>1 DEF End
  <2>2. \A u \in 0..extent : u + NodeSize + r <= extent => ~Heap!Clear(u, u + NodeSize + r)
    BY <1>6, Mapping DEF Heap!Clear
  <2> QED BY <1>1, <2>1, <2>2 DEF Heap!Refuse, Heap!Refused
<1> QED BY <1>2, <1>7

(* What both branches of deallocate have in common.                        *)
LEMMA GivenBack ==
  ASSUME IInv, NEW n \in DOMAIN held, held' = Drop(held, {n}),
         UNCHANGED <<pageVars, result>>,
         Settled(size', extent, free', held'), Same(size', size, DOMAIN held')
  PROVE  IInv' /\ \E a \in InUse : Heap!Return(a)
<1>1. taken
  <2>1. DOMAIN NoBlocks = {}
    BY DEF NoBlocks
  <2> QED BY <2>1 DEF IInv, Unpaged, Paged
<1>2. IInv'
  BY <1>1 DEF IInv, Paged, Unpaged, Blocks, pageVars
<1>4. Areas(size', held') = InUse \ {AreaOf(size, n)}
  <2>1. Areas(size', held') = LessArea(size, held, n)
    BY FewerAreas
  <2> QED BY <2>1 DEF LessArea, InUse
<1>5. PICK a \in InUse : a = AreaOf(size, n)
  BY DEF InUse, Areas
<1>6. {[from |-> x, to |-> End(x)] : x \in DOMAIN held}' = InUse \ {AreaOf(size, n)}
  BY <1>4 DEF Areas, AreaOf, End
<1>7. Heap!Return(a)
  BY <1>5, <1>6, Mapping DEF Heap!Return, pageVars
<1> QED BY <1>2, <1>7

(* Where the block n goes in the list: i of its entries are in front.      *)
LEMMA ItsPlace ==
  ASSUME IInv, NEW n \in DOMAIN held, NEW i \in Nat, i <= Len(free),
         \A j \in 1..i : free[j] <= n,
         i < Len(free) => n <= free[i + 1]
  PROVE  Between(free, Len(free), i, n, i + 1)
<1>1. /\ Shared(size, extent, free, held) /\ extent \in Nat
      /\ Members(free) \cap DOMAIN held = {} /\ DOMAIN held \subseteq DOMAIN size
  BY DEF IInv, Blocks, Settled, Shared
<1>2. /\ DOMAIN size \subseteq Nat /\ Len(free) \in Nat
      /\ \A j \in 1..Len(free) : free[j] \in Members(free) /\ free[j] \in DOMAIN size
      /\ \A a, b \in 1..Len(free) : a < b => free[a] < free[b]
  BY <1>1, SharedFacts
<1>3. n \in Nat /\ \A j \in 1..Len(free) : free[j] \in Nat /\ free[j] # n
  BY <1>1, <1>2
<1>4. \A j \in 1..i : free[j] < n
  <2> TAKE j \in 1..i
  <2>1. j \in 1..Len(free) /\ free[j] <= n
    BY <1>2
  <2> QED BY <1>3, <2>1
<1>5. \A j \in (i + 1)..Len(free) : n < free[j]
  <2> TAKE j \in (i + 1)..Len(free)
  <2>1. j \in 1..Len(free) /\ i + 1 \in 1..Len(free) /\ i < Len(free)
    BY <1>2
  <2>2. n < free[i + 1]
    BY <1>3, <2>1
  <2>3. CASE j = i + 1
    BY <2>2, <2>3
  <2>4. CASE j > i + 1
    <3>1. free[i + 1] < free[j]
      BY <1>2, <2>1, <2>4
    <3> QED BY <1>3, <2>1, <2>2, <3>1
  <2> QED BY <2>3, <2>4
<1> QED BY <1>4, <1>5 DEF Between

LEMMA DeallocateFrontStep ==
  ASSUME IInv, NEW o \in Objects, NEW n \in DOMAIN held, DeallocateFront(o, n)
  PROVE  IInv' /\ \E a \in InUse : Heap!Return(a)
<1> DEFINE l == IF free # <<>> /\ End(n) = free[1] THEN 2 ELSE 1
<1>1. /\ free # <<>> => n < free[1]
      /\ size' = IF free # <<>> /\ End(n) = free[1] THEN Merge(size, n, free[1]) ELSE size
      /\ free' = <<n>> \o SubSeq(free, l, Len(free))
      /\ held' = Drop(held, {n})
      /\ UNCHANGED <<pageVars, result>>
  BY DEF DeallocateFront
<1>2. /\ Settled(size, extent, free, held) /\ free \in Seq(Nat) /\ extent \in Nat
      /\ n \in DOMAIN size /\ DOMAIN size \subseteq Nat
  BY DEF IInv, Blocks, Settled, Shared, Tiles
<1>3. Len(free) \in Nat /\ (free # <<>> <=> 0 < Len(free)) /\ 0 + 1 = 1 /\ 0 + 2 = 2
  BY <1>2
<1>4. free' = Spliced(free, 0, <<n>>, l)
  <2>1. SubSeq(free, 1, 0) = <<>>
    BY <1>2
  <2>2. <<>> \o <<n>> = <<n>>
    OBVIOUS
  <2> QED BY <1>1, <2>1, <2>2 DEF Spliced
<1>5. Behind(size', l, size, free, 0, n)
  <2>1. CASE free # <<>> /\ End(n) = free[1]
    <3>1. 0 < Len(free) /\ n + NodeSize + size[n] = free[0 + 1]
      BY <1>3, <2>1 DEF End
    <3>2. size' = Merge(size, n, free[0 + 1]) /\ l = 0 + 2
      BY <1>1, <2>1
    <3> QED BY <3>1, <3>2 DEF Behind
  <2>2. CASE ~(free # <<>> /\ End(n) = free[1])
    <3>1. 0 < Len(free) => n + NodeSize + size[n] # free[0 + 1]
      BY <1>3, <2>2 DEF End
    <3>2. size' = size /\ l = 0 + 1
      BY <1>1, <2>2
    <3> QED BY <3>1, <3>2 DEF Behind
  <2> QED BY <2>1, <2>2
<1> HIDE DEF l
<1>6. Between(free, Len(free), 0, n, 0 + 1)
  <2>1. 0 < Len(free) => n <= free[0 + 1]
    <3> SUFFICES ASSUME 0 < Len(free)
                 PROVE  n <= free[1]
      OBVIOUS
    <3>1. n < free[1] /\ n \in Nat /\ free[1] \in Nat
      BY <1>1, <1>2, <1>3
    <3> QED BY <3>1
  <2>2. 0 \in Nat /\ 0 <= Len(free) /\ \A j \in 1..0 : free[j] <= n
    BY <1>3
  <2> QED BY <2>1, <2>2, ItsPlace
<1>7. Settled(size', extent, free', held') /\ Same(size', size, DOMAIN held')
  <2>1. 0 \in Nat /\ 0 <= Len(free) /\ (0 > 0 => free[0] + NodeSize + size[free[0]] # n)
    BY <1>3
  <2> QED BY <1>1, <1>2, <1>4, <1>5, <1>6, <2>1, GiveBackApart
<1> QED BY <1>1, <1>7, GivenBack

LEMMA DeallocateAfterStep ==
  ASSUME IInv, NEW o \in Objects, NEW n \in DOMAIN held, DeallocateAfter(o, n)
  PROVE  IInv' /\ \E a \in InUse : Heap!Return(a)
<1>0. held' = Drop(held, {n}) /\ UNCHANGED <<pageVars, result>>
  BY DEF DeallocateAfter
<1>1. PICK i \in DOMAIN free :
        LET after  == i < Len(free) /\ End(n) = free[i + 1]
            before == End(free[i]) = n
            joined == IF after THEN Merge(size, n, free[i + 1]) ELSE size
        IN /\ Cursor(i, n)
           /\ size' = IF before THEN Merge(joined, free[i], n) ELSE joined
           /\ free' = SubSeq(free, 1, i) \o (IF before THEN <<>> ELSE <<n>>)
                        \o SubSeq(free, IF after THEN i + 2 ELSE i + 1, Len(free))
  BY DEF DeallocateAfter
<1> DEFINE after == i < Len(free) /\ End(n) = free[i + 1]
           t == IF after THEN Merge(size, n, free[i + 1]) ELSE size
           l == IF after THEN i + 2 ELSE i + 1
<1>2. /\ Settled(size, extent, free, held) /\ free \in Seq(Nat) /\ extent \in Nat
      /\ n \in DOMAIN size /\ DOMAIN size \subseteq Nat
  BY DEF IInv, Blocks, Settled, Shared, Tiles
<1>3. Len(free) \in Nat /\ i \in Nat /\ i > 0 /\ i <= Len(free) /\ i \in 1..Len(free)
  BY <1>2
<1>4. Behind(t, l, size, free, i, n)
  BY DEF Behind, End
<1>5. Between(free, Len(free), i, n, i + 1)
  <2>1. Cursor(i, n)
    BY <1>1
  <2>2. \A j \in 1..i : free[j] <= n
    <3> TAKE j \in 1..i
    <3>1. free[j] \in Nat /\ n \in Nat
      BY <1>2, <1>3
    <3>2. CASE j = 1
      BY <2>1, <3>2 DEF Cursor
    <3>3. CASE j # 1
      <4>1. j \in 2..i
        BY <1>3, <3>3
      <4> QED BY <2>1, <3>1, <4>1 DEF Cursor
    <3> QED BY <3>2, <3>3
  <2>3. i < Len(free) => n <= free[i + 1]
    <3> SUFFICES ASSUME i < Len(free)
                 PROVE  n <= free[i + 1]
      OBVIOUS
    <3>1. free[i + 1] >= n
      BY <2>1 DEF Cursor
    <3>2. free[i + 1] \in Nat /\ n \in Nat
      BY <1>2, <1>3
    <3> QED BY <3>1, <3>2
  <2> QED BY <1>3, <2>2, <2>3, ItsPlace
<1>6. CASE End(free[i]) = n
  <2>1. size' = Merge(t, free[i], n) /\ free' = Spliced(free, i, <<>>, l)
    BY <1>1, <1>6 DEF Spliced
  <2>2. free[i] + NodeSize + size[free[i]] = n
    BY <1>6 DEF End
  <2> HIDE DEF t, l
  <2>3. Settled(size', extent, free', held') /\ Same(size', size, DOMAIN held')
    BY <1>0, <1>2, <1>3, <1>4, <1>5, <2>1, <2>2, GiveBackJoined
  <2> QED BY <1>0, <2>3, GivenBack
<1>7. CASE End(free[i]) # n
  <2>1. size' = t /\ free' = Spliced(free, i, <<n>>, l)
    BY <1>1, <1>7 DEF Spliced
  <2>2. i > 0 => free[i] + NodeSize + size[free[i]] # n
    BY <1>7 DEF End
  <2> HIDE DEF t, l
  <2>3. Settled(size', extent, free', held') /\ Same(size', size, DOMAIN held')
    BY <1>0, <1>2, <1>3, <1>4, <1>5, <2>1, <2>2, GiveBackApart
  <2> QED BY <1>0, <2>3, GivenBack
<1> QED BY <1>6, <1>7

-----------------------------------------------------------------------------
(* The theorems                                                            *)

LEMMA EveryStep == IInv /\ [Next]_vars => IInv' /\ [Heap!Next]_(Heap!vars)
<1> SUFFICES ASSUME IInv, [Next]_vars
             PROVE  IInv' /\ [Heap!Next]_(Heap!vars)
  OBVIOUS
<1>1. ASSUME NEW o \in Objects, NEW c \in Capacities, Construct(o, c)
      PROVE  IInv' /\ Heap!Next
  BY <1>1, ConstructStep DEF Heap!Next
<1>2. ASSUME NEW o \in Objects, NEW p \in Objects, Move(o, p)
      PROVE  IInv' /\ UNCHANGED Heap!vars
  <2>1. IInv' /\ UNCHANGED <<extent, size, held, result>>
    BY <1>2, MoveStep
  <2> QED BY <2>1 DEF Heap!vars, End
<1>3. ASSUME NEW o \in Objects, Destroy(o)
      PROVE  IInv' /\ Heap!Next
  BY <1>3, DestroyStep DEF Heap!Next
<1>4. ASSUME NEW o \in Objects, NEW r \in Requests, AllocateWhole(o, r)
      PROVE  IInv' /\ Heap!Next
  BY <1>4, AllocateWholeStep DEF Heap!Next
<1>5. ASSUME NEW o \in Objects, NEW r \in Requests, AllocateCut(o, r)
      PROVE  IInv' /\ Heap!Next
  BY <1>5, AllocateCutStep DEF Heap!Next
<1>6. ASSUME NEW o \in Objects, NEW r \in Requests, AllocateRefused(o, r)
      PROVE  IInv' /\ Heap!Next
  BY <1>6, AllocateRefusedStep DEF Heap!Next
<1>7. ASSUME NEW o \in Objects, NEW n \in DOMAIN held, DeallocateFront(o, n)
      PROVE  IInv' /\ Heap!Next
  <2>1. IInv' /\ \E a \in InUse : Heap!Return(a)
    BY <1>7, DeallocateFrontStep
  <2> QED BY <2>1, Mapping DEF Heap!Next
<1>8. ASSUME NEW o \in Objects, NEW n \in DOMAIN held, DeallocateAfter(o, n)
      PROVE  IInv' /\ Heap!Next
  <2>1. IInv' /\ \E a \in InUse : Heap!Return(a)
    BY <1>8, DeallocateAfterStep
  <2> QED BY <2>1, Mapping DEF Heap!Next
<1>9. CASE UNCHANGED vars
  <2>1. IInv'
    BY <1>9 DEF vars, pageVars, blockVars, IInv, Paged, Unpaged, Blocks
  <2> QED BY <1>9, <2>1 DEF vars, pageVars, blockVars, Heap!vars, End
<1> QED
  BY <1>1, <1>2, <1>3, <1>4, <1>5, <1>6, <1>7, <1>8, <1>9
     DEF Next, Ownership, Allocate, Deallocate

THEOREM Invariant == Spec => []IInv
<1>1. IInv /\ [Next]_vars => IInv'
  BY EveryStep
<1> QED BY InitStep, <1>1, PTL DEF Spec

(* The list is a sequence of nodes, and every table has its type.          *)
THEOREM TypeCorrect == Spec => []TypeOK
<1>1. IInv => TypeOK
  <2> SUFFICES ASSUME IInv PROVE TypeOK
    OBVIOUS
  <2>1. /\ Shared(size, extent, free, held) /\ extent \in Nat /\ result \in Nat
        /\ free \in Seq(Nat) /\ DOMAIN size \subseteq Nat /\ size \in [DOMAIN size -> Nat]
        /\ held \in [DOMAIN held -> Nat] /\ DOMAIN held \subseteq DOMAIN size
    BY DEF IInv, Blocks, Settled, Shared, Tiles
  <2>2. Len(free) \in Nat /\ \A j \in 1..Len(free) : free[j] \in DOMAIN size
    BY <2>1, SharedFacts
  <2>3. free \in Seq(DOMAIN size)
    <3>1. free \in [1..Len(free) -> DOMAIN size]
      BY <2>1, <2>2
    <3> QED BY <2>2, <3>1, SeqDef
  <2>4. owner \subseteq Objects /\ taken \in BOOLEAN
    BY DEF IInv, Paged
  <2> QED BY <2>1, <2>3, <2>4 DEF TypeOK, Nodes
<1> QED BY Invariant, <1>1, PTL

(* After any sequence of allocate and deallocate, with headers, requests   *)
(* and pages of any size, the blocks tile the page.                        *)
THEOREM Tiled == Spec => []BlocksTile
<1>1. IInv => BlocksTile
  <2> SUFFICES ASSUME IInv PROVE BlocksTile
    OBVIOUS
  <2>1. /\ Tiles(size, extent) /\ free \in Seq(Nat)
        /\ Members(free) \cap DOMAIN held = {} /\ Members(free) \cup DOMAIN held = DOMAIN size
    BY DEF IInv, Blocks, Settled, Shared
  <2>2. Free = Members(free)
    BY <2>1 DEF Free, Members, Entries
  <2>3. Accounted
    BY <2>1, <2>2 DEF Accounted, Nodes
  <2>4. Disjoint /\ Inside /\ Covered
    BY <2>1 DEF Tiles, Disjoint, Inside, Covered, Nodes, End
  <2> QED BY <2>3, <2>4 DEF BlocksTile
<1> QED BY Invariant, <1>1, PTL

(* The list stays in the order of addresses, and no two free blocks touch. *)
THEOREM ListWhole == Spec => []FreeListWhole
<1>1. IInv => FreeListWhole
  <2> SUFFICES ASSUME IInv PROVE FreeListWhole
    OBVIOUS
  <2>1. Ordered(free) /\ free \in Seq(Nat) /\ Apart(size, Members(free))
    BY DEF IInv, Blocks, Settled, Shared
  <2>2. Free = Members(free) /\ DOMAIN free = 1..Len(free)
    BY <2>1 DEF Free, Members, Entries
  <2>3. Sorted
    BY <2>1, <2>2 DEF Ordered, Rising, Sorted
  <2>4. Coalesced
    BY <2>1, <2>2 DEF Apart, Coalesced, End
  <2> QED BY <2>3, <2>4 DEF FreeListWhole
<1> QED BY Invariant, <1>1, PTL

(* One object has the page, and it is given back once.                     *)
THEOREM OwnedOnce == Spec => []PageOwnedOnce
<1>1. IInv => PageOwnedOnce
  BY DEF IInv, Paged, PageOwnedOnce
<1> QED BY Invariant, <1>1, PTL

(* The allocator is the heap its users were promised.                      *)
THEOREM IsHeap == Spec => ImplementsHeap
<1>1. Init => Heap!Init
  BY DEF Init, Heap!Init, NoBlocks, Refused, Heap!Refused
<1> QED BY <1>1, Invariant, EveryStep, PTL DEF Spec, ImplementsHeap, Heap!Spec

-----------------------------------------------------------------------------
(* Alignment                                                               *)

(* Division leaves one remainder.                                          *)
LEMMA OneRemainder ==
  ASSUME NEW b \in Nat \ {0}, NEW q \in Nat, NEW r \in 0..(b - 1)
  PROVE  (b * q + r) % b = r
<1> DEFINE a == b * q + r
           p == a \div b
           m == a % b
<1>1. b * q \in Nat
  OBVIOUS
<1>2. a \in Nat /\ p \in Nat /\ m \in 0..(b - 1) /\ a = b * p + m
  BY <1>1
<1> HIDE DEF p, m
<1>3. b * q + r = b * p + m
  BY <1>2
<1>4. ASSUME p >= q + 1 PROVE FALSE
  <2>1. b * p >= b * q + b
    BY <1>2, <1>4
  <2> QED BY <1>1, <1>2, <1>3, <2>1
<1>5. ASSUME q >= p + 1 PROVE FALSE
  <2>1. b * q >= b * p + b
    BY <1>2, <1>5
  <2> QED BY <1>1, <1>2, <1>3, <2>1
<1>6. p = q
  BY <1>2, <1>4, <1>5
<1> QED BY <1>1, <1>2, <1>3, <1>6 DEF m

(* std::align answers with an aligned address.                             *)
LEMMA AlignUpAligns ==
  ASSUME NEW a \in Nat
  PROVE  Aligned(AlignUp(a))
<1>0. Alignment \in Nat \ {0} /\ 0 \in 0..(Alignment - 1)
  BY LayoutAssumption
<1> DEFINE q == a \div Alignment
           r == a % Alignment
<1>1. q \in Nat /\ r \in 0..(Alignment - 1) /\ a = Alignment * q + r
  BY <1>0
<1>2. AlignUp(a) = a + ((Alignment - r) % Alignment) /\ Alignment * q \in Nat
  BY <1>0, <1>1 DEF AlignUp
<1> HIDE DEF q, r
<1>3. CASE r = 0
  <2>1. Alignment % Alignment = 0
    <3>1. (Alignment * 1 + 0) % Alignment = 0
      BY <1>0, OneRemainder
    <3> QED BY <1>0, <3>1
  <2>2. AlignUp(a) = Alignment * q + 0
    BY <1>0, <1>1, <1>2, <1>3, <2>1
  <2> QED BY <1>0, <1>1, <2>2, OneRemainder DEF Aligned
<1>4. CASE r > 0
  <2>1. (Alignment - r) % Alignment = Alignment - r
    BY <1>0, <1>1, <1>4
  <2>2. AlignUp(a) = Alignment * q + Alignment
    BY <1>0, <1>1, <1>2, <2>1
  <2>3. Alignment * (q + 1) = Alignment * q + Alignment
    BY <1>0, <1>1
  <2>4. AlignUp(a) = Alignment * (q + 1) + 0
    BY <1>0, <1>1, <1>2, <2>2, <2>3
  <2>5. q + 1 \in Nat
    BY <1>1
  <2> QED BY <1>0, <2>4, <2>5, OneRemainder DEF Aligned
<1> QED BY <1>1, <1>3, <1>4

LEMMA MergeAddsNoNode ==
  ASSUME NEW s, NEW n \in DOMAIN s, NEW m
  PROVE  DOMAIN Merge(s, n, m) \subseteq DOMAIN s
BY DEF Merge, Drop, Put

(* The only Nodes a step adds are the first, at the start of the page, and *)
(* the one that a cut puts where std::align says.                          *)
AllAligned == \A n \in Nodes : Aligned(n)

LEMMA StepsAlign == IInv /\ AllAligned /\ [Next]_vars => AllAligned'
<1> SUFFICES ASSUME IInv, AllAligned, [Next]_vars PROVE AllAligned'
  OBVIOUS
<1>0. /\ \A n \in DOMAIN size : Aligned(n)
      /\ DOMAIN size \subseteq Nat /\ DOMAIN held \subseteq DOMAIN size
      /\ \A i \in DOMAIN free : free[i] \in DOMAIN size /\ free[i] \in Nat
  <2>1. Shared(size, extent, free, held) /\ extent \in Nat /\ free \in Seq(Nat)
        /\ DOMAIN held \subseteq DOMAIN size
    BY DEF IInv, Blocks, Settled, Shared
  <2> QED BY <2>1, SharedFacts DEF AllAligned, Nodes
<1>1. SUFFICES \A n \in DOMAIN size' : Aligned(n)
  BY DEF AllAligned, Nodes
<1>2. CASE DOMAIN size' \subseteq DOMAIN size
  BY <1>0, <1>2
<1>3. CASE \E o \in Objects, c \in Capacities : Construct(o, c)
  <2>1. DOMAIN size' = {0}
    BY <1>3 DEF Construct
  <2>2. Aligned(0)
    BY LayoutAssumption DEF Aligned
  <2> QED BY <2>1, <2>2
<1>4. CASE \E o \in Objects : Destroy(o)
  <2>1. DOMAIN size' = {}
    BY <1>4 DEF Destroy, NoBlocks
  <2> QED BY <2>1
<1>5. CASE \E o, p \in Objects : Move(o, p)
  BY <1>2, <1>5 DEF Move, blockVars
<1>6. ASSUME NEW o \in Objects, NEW r \in Requests, Allocate(o, r)
      PROVE  \A n \in DOMAIN size' : Aligned(n)
  <2>1. CASE AllocateWhole(o, r) \/ AllocateRefused(o, r)
    BY <1>2, <2>1 DEF AllocateWhole, AllocateRefused, blockVars
  <2>2. CASE AllocateCut(o, r)
    <3>1. PICK i \in DOMAIN free :
            size' = Put(Put(size, Cut(free[i], r), End(free[i]) - Cut(free[i], r) - NodeSize),
                        free[i], Cut(free[i], r) - (free[i] + NodeSize))
      BY <2>2 DEF AllocateCut
    <3>2. DOMAIN size' = DOMAIN size \cup {Cut(free[i], r)}
      BY <1>0, <3>1 DEF Put
    <3>3. Aligned(Cut(free[i], r))
      <4>1. free[i] + NodeSize + r \in Nat
        BY <1>0, LayoutAssumption
      <4> QED BY <4>1, AlignUpAligns DEF Cut
    <3> QED BY <1>0, <3>2, <3>3
  <2> QED BY <1>6, <2>1, <2>2 DEF Allocate
<1>7. ASSUME NEW o \in Objects, NEW n \in DOMAIN held, Deallocate(o, n)
      PROVE  \A x \in DOMAIN size' : Aligned(x)
  <2>1. n \in DOMAIN size
    BY <1>0
  <2>2. CASE DeallocateFront(o, n)
    <3>1. size' = size \/ size' = Merge(size, n, free[1])
      BY <2>2 DEF DeallocateFront
    <3> QED BY <1>2, <2>1, <3>1, MergeAddsNoNode
  <2>3. CASE DeallocateAfter(o, n)
    <3>1. PICK i \in DOMAIN free :
            LET after  == i < Len(free) /\ End(n) = free[i + 1]
                joined == IF after THEN Merge(size, n, free[i + 1]) ELSE size
            IN  size' = IF End(free[i]) = n THEN Merge(joined, free[i], n) ELSE joined
      BY <2>3 DEF DeallocateAfter
    <3> DEFINE joined == IF i < Len(free) /\ End(n) = free[i + 1]
                         THEN Merge(size, n, free[i + 1]) ELSE size
    <3>2. size' = joined \/ (End(free[i]) = n /\ size' = Merge(joined, free[i], n))
      BY <3>1
    <3>3. DOMAIN joined \subseteq DOMAIN size
      BY <2>1, MergeAddsNoNode
    <3>4. DOMAIN Merge(joined, free[i], n) \subseteq DOMAIN joined \cup {free[i]}
      <4> HIDE DEF joined
      <4> QED BY DEF Merge, Drop, Put
    <3> HIDE DEF joined
    <3> QED BY <1>0, <1>2, <3>2, <3>3, <3>4
  <2> QED BY <1>7, <2>2, <2>3 DEF Deallocate
<1>8. CASE UNCHANGED vars
  BY <1>2, <1>8 DEF vars, blockVars
<1> QED BY <1>3, <1>4, <1>5, <1>6, <1>7, <1>8 DEF Next, Ownership

(* Every Node is aligned as Node is, for any alignment and any request,    *)
(* and the block behind it has the size that was asked for (allocate).     *)
THEOREM HandedOutFit == Spec => []HandedOutFits
<1>1. Init => AllAligned
  BY DEF Init, AllAligned, Nodes, NoBlocks
<1>2. Spec => []AllAligned
  BY <1>1, Invariant, StepsAlign, PTL DEF Spec
<1>3. IInv /\ AllAligned => HandedOutFits
  BY DEF IInv, Blocks, Settled, Shared, AllAligned, HandedOutFits, Nodes
<1> QED BY <1>2, <1>3, Invariant, PTL
=============================================================================
