--------------------------- MODULE ArcCacheProofs ---------------------------
(***************************************************************************)
(* Proofs about ArcCache, for any blocks, sizes and number of users: the   *)
(* lists and the hash agree, what is in use stays, and the cache keeps the *)
(* promise of BlockCache.                                                  *)
(*                                                                         *)
(* The functions of cache.c are followed one by one.  While a block that   *)
(* was asked for is between two lists, the hash knows it and no list has   *)
(* it; InStep names those blocks.  What makes room only takes blocks that  *)
(* are not in use (MakesRoomFrom), however it chooses them; only what a    *)
(* full cache does (Gives) depends on the sizes.  A sum of sizes is a fold *)
(* over a finite set, of which the library says nothing: that it is a      *)
(* natural number is proved from a least set for which it is not.          *)
(***************************************************************************)
EXTENDS ArcCache, SequenceTheorems, FiniteSetTheorems, WellFoundedInduction,
        TLAPS

Distinct(s) == \A i, j \in DOMAIN s : s[i] = s[j] => i = j
Elements(s) == {s[i] : i \in DOMAIN s}

IsCache(c) ==
    /\ c = [list |-> c.list, hash |-> c.hash, usage |-> c.usage,
            target |-> c.target, size |-> c.size]
    /\ c.list \in [Lists -> Seq(Block)]
    /\ c.usage \in [Block -> Int]
    /\ c.target \in 0 .. InitSize /\ c.size \in Sizes

\* Sizes are numbers of bytes, none above the first one.
LEMMA InitSizeType ==
    InitSize \in Sizes /\ InitSize \in Nat /\ \A n \in Sizes : n \in 0 .. InitSize
<1>1. \E n \in Sizes : \A m \in Sizes : m <= n
  BY BlockAssumption
<1>2. InitSize \in Sizes /\ \A m \in Sizes : m <= InitSize
  BY <1>1 DEF InitSize
<1> QED BY <1>2, BlockAssumption

Listed(c) == UNION {Members(c, l) : l \in Lists}

\* Each block is in one place of one list.
Lined(c) ==
    /\ IsCache(c)
    /\ \A l \in Lists : Distinct(c.list[l])
    /\ \A l, m \in Lists : l # m => Members(c, l) \cap Members(c, m) = {}

\* The hash knows the blocks in the lists, and those in away.
InStep(c, away) ==
    /\ Lined(c)
    /\ c.hash = Listed(c) \cup away
    /\ away \cap Listed(c) = {}

\* d is what c becomes when blocks that are not in use are let go.
MakesRoomFrom(c, d) ==
    /\ d.usage = c.usage
    /\ InMemory(d) \subseteq InMemory(c)
    /\ \A b \in InMemory(c) \ InMemory(d) : c.usage[b] = 0
    /\ Listed(d) \subseteq Listed(c)

\* d has let something go, if c had something not in use.
Gives(c, d) ==
    (\E x \in InMemory(c) : c.usage[x] = 0)
    => ~(InMemory(c) \subseteq InMemory(d))

\* The blocks in memory fill the cache, and those asked for once do not.
Full(c) ==
    /\ Bytes(c, "t1") < c.size
    /\ Bytes(c, "t1") + Bytes(c, "t2") >= c.size

-----------------------------------------------------------------------------
(* Sequences *)

\* t has each element of s but that at i: each of its places comes from one of
\* s, and each other place of s goes to one of t.
Rearranges(t, s, n, i, from, to) ==
    /\ n \in Nat /\ DOMAIN s = 1 .. n /\ i \in 1 .. n /\ DOMAIN t = 1 .. (n - 1)
    /\ from \in [1 .. (n - 1) -> (1 .. n) \ {i}]
    /\ to \in [(1 .. n) \ {i} -> 1 .. (n - 1)]
    /\ \A k \in 1 .. (n - 1) : t[k] = s[from[k]] /\ to[from[k]] = k
    /\ \A k \in (1 .. n) \ {i} : from[to[k]] = k

LEMMA Rearranged ==
    ASSUME NEW s, NEW n, NEW i, NEW t, NEW from, NEW to,
           Distinct(s), Rearranges(t, s, n, i, from, to)
    PROVE  Distinct(t) /\ Elements(t) = Elements(s) \ {s[i]}
<1> USE DEF Rearranges
<1>1. ASSUME NEW j \in 1 .. (n - 1), NEW k \in 1 .. (n - 1), t[j] = t[k]
      PROVE  j = k
  <2>1. from[j] \in 1 .. n /\ from[k] \in 1 .. n /\ s[from[j]] = s[from[k]]
    BY <1>1
  <2>2. from[j] = from[k]
    BY <2>1 DEF Distinct
  <2>3. to[from[j]] = j /\ to[from[k]] = k
    OBVIOUS
  <2> QED BY <2>2, <2>3
<1>2. ASSUME NEW k \in 1 .. (n - 1) PROVE t[k] \in Elements(s) \ {s[i]}
  <2>1. from[k] \in 1 .. n /\ from[k] # i /\ t[k] = s[from[k]]
    OBVIOUS
  <2>2. s[from[k]] # s[i]
    BY <2>1 DEF Distinct
  <2> QED BY <2>1, <2>2 DEF Elements
<1>3. ASSUME NEW k \in (1 .. n) \ {i} PROVE s[k] \in Elements(t)
  <2>1. to[k] \in 1 .. (n - 1) /\ t[to[k]] = s[k]
    OBVIOUS
  <2> QED BY <2>1 DEF Elements
<1>4. Distinct(t)
  BY <1>1 DEF Distinct
<1> QED BY <1>2, <1>3, <1>4 DEF Elements

\* Two pieces of a sequence around one of its elements have all the others.
LEMMA Pieces ==
    ASSUME NEW S, NEW s \in Seq(S), Distinct(s), NEW i \in DOMAIN s,
           NEW t \in {RemoveAt(s, i),
                      SubSeq(s, i + 1, Len(s)) \o SubSeq(s, 1, i - 1)}
    PROVE  t \in Seq(S) /\ Distinct(t) /\ Elements(t) = Elements(s) \ {s[i]}
<1>1. PICK n \in Nat : n = Len(s)
  BY LenProperties
<1>2. DOMAIN s = 1 .. n /\ i \in 1 .. n /\ i \in Int
  BY <1>1, LenProperties
<1>3. \A k \in 1 .. n : s[k] \in S
  BY <1>1, ElementOfSeq
<1>4. PICK a : a = SubSeq(s, 1, i - 1)
  OBVIOUS
<1>5. PICK z : z = SubSeq(s, i + 1, n)
  OBVIOUS
<1>6. /\ a \in Seq(S) /\ Len(a) = i - 1
      /\ \A k \in 1 .. (i - 1) : a[k] = s[k]
  <2>1. \A k \in 1 .. (i - 1) : s[k] \in S
    BY <1>2, <1>3
  <2>2. /\ a \in Seq(S)
        /\ Len(a) = IF 1 <= i - 1 THEN i - 1 - 1 + 1 ELSE 0
        /\ \A k \in 1 .. (i - 1) - 1 + 1 : a[k] = s[1 + k - 1]
    BY <1>2, <1>4, <2>1, SubSeqProperties
  <2>3. Len(a) = i - 1
    BY <1>2, <2>2
  <2>4. ASSUME NEW k \in 1 .. (i - 1) PROVE a[k] = s[k]
    <3>1. k \in 1 .. (i - 1) - 1 + 1 /\ 1 + k - 1 = k
      BY <1>2
    <3> QED BY <2>2, <3>1
  <2> QED BY <2>2, <2>3, <2>4
<1>7. /\ z \in Seq(S) /\ Len(z) = n - i
      /\ \A k \in 1 .. (n - i) : z[k] = s[i + k]
  <2>1. \A k \in (i + 1) .. n : s[k] \in S
    BY <1>2, <1>3
  <2>2. i + 1 \in Int /\ n \in Int
    BY <1>2
  <2>3. /\ z \in Seq(S)
        /\ Len(z) = IF i + 1 <= n THEN n - (i + 1) + 1 ELSE 0
        /\ \A k \in 1 .. n - (i + 1) + 1 : z[k] = s[(i + 1) + k - 1]
    BY <1>5, <2>1, <2>2, SubSeqProperties
  <2>4. Len(z) = n - i
    BY <1>2, <2>3
  <2>5. ASSUME NEW k \in 1 .. (n - i) PROVE z[k] = s[i + k]
    <3>1. k \in 1 .. n - (i + 1) + 1 /\ (i + 1) + k - 1 = i + k
      BY <1>2
    <3> QED BY <2>3, <3>1
  <2> QED BY <2>3, <2>4, <2>5
<1>8. t = a \o z \/ t = z \o a
  BY <1>1, <1>4, <1>5 DEF RemoveAt
<1>9. CASE t = a \o z
  <2>1. /\ t \in Seq(S) /\ Len(t) = (i - 1) + (n - i)
        /\ \A k \in 1 .. (i - 1) + (n - i) :
              t[k] = IF k <= i - 1 THEN a[k] ELSE z[k - (i - 1)]
    <3>1. /\ a \o z \in Seq(S) /\ Len(a \o z) = Len(a) + Len(z)
          /\ \A k \in 1 .. Len(a) + Len(z) :
                (a \o z)[k] = IF k <= Len(a) THEN a[k] ELSE z[k - Len(a)]
      BY <1>6, <1>7, ConcatProperties
    <3> QED BY <1>6, <1>7, <1>9, <3>1
  <2>2. (i - 1) + (n - i) = n - 1
    BY <1>2
  <2>3. DOMAIN t = 1 .. (n - 1)
    BY <2>1, <2>2, LenProperties
  <2>4. PICK from : from = [k \in 1 .. (n - 1) |-> IF k <= i - 1 THEN k ELSE k + 1]
    OBVIOUS
  <2>5. PICK to : to = [k \in (1 .. n) \ {i} |-> IF k <= i - 1 THEN k ELSE k - 1]
    OBVIOUS
  <2>6. /\ from \in [1 .. (n - 1) -> (1 .. n) \ {i}]
        /\ to \in [(1 .. n) \ {i} -> 1 .. (n - 1)]
    BY <1>2, <2>4, <2>5
  <2>7. ASSUME NEW k \in 1 .. (n - 1)
        PROVE  t[k] = s[from[k]] /\ to[from[k]] = k
    <3>1. k \in 1 .. (i - 1) + (n - i)
      BY <2>2
    <3>2. CASE k <= i - 1
      <4>1. k \in 1 .. (i - 1) /\ k \in (1 .. n) \ {i}
        BY <1>2, <3>2
      <4>2. t[k] = a[k]
        BY <2>1, <3>1, <3>2
      <4> QED BY <1>6, <2>4, <2>5, <3>2, <4>1, <4>2
    <3>3. CASE ~(k <= i - 1)
      <4>1. /\ k - (i - 1) \in 1 .. (n - i) /\ i + (k - (i - 1)) = k + 1
            /\ k + 1 \in (1 .. n) \ {i} /\ ~(k + 1 <= i - 1) /\ (k + 1) - 1 = k
        BY <1>2, <3>3
      <4>2. t[k] = z[k - (i - 1)]
        BY <2>1, <3>1, <3>3
      <4>3. z[k - (i - 1)] = s[k + 1]
        BY <1>7, <4>1
      <4> QED BY <2>4, <2>5, <3>3, <4>1, <4>2, <4>3
    <3> QED BY <3>2, <3>3
  <2>8. ASSUME NEW k \in (1 .. n) \ {i} PROVE from[to[k]] = k
    BY <1>2, <2>4, <2>5, <2>8
  <2>9. Distinct(t) /\ Elements(t) = Elements(s) \ {s[i]}
    <3>1. Rearranges(t, s, n, i, from, to)
      BY <1>2, <2>3, <2>6, <2>7, <2>8 DEF Rearranges
    <3> QED BY <3>1, Rearranged
  <2> QED BY <2>1, <2>9
<1>10. CASE t = z \o a
  <2>1. /\ t \in Seq(S) /\ Len(t) = (n - i) + (i - 1)
        /\ \A k \in 1 .. (n - i) + (i - 1) :
              t[k] = IF k <= n - i THEN z[k] ELSE a[k - (n - i)]
    <3>1. /\ z \o a \in Seq(S) /\ Len(z \o a) = Len(z) + Len(a)
          /\ \A k \in 1 .. Len(z) + Len(a) :
                (z \o a)[k] = IF k <= Len(z) THEN z[k] ELSE a[k - Len(z)]
      BY <1>6, <1>7, ConcatProperties
    <3> QED BY <1>6, <1>7, <1>10, <3>1
  <2>2. (n - i) + (i - 1) = n - 1
    BY <1>2
  <2>3. DOMAIN t = 1 .. (n - 1)
    BY <2>1, <2>2, LenProperties
  <2>4. PICK from : from = [k \in 1 .. (n - 1) |->
                               IF k <= n - i THEN i + k ELSE k - (n - i)]
    OBVIOUS
  <2>5. PICK to : to = [k \in (1 .. n) \ {i} |->
                           IF k <= i - 1 THEN k + (n - i) ELSE k - i]
    OBVIOUS
  <2>6. /\ from \in [1 .. (n - 1) -> (1 .. n) \ {i}]
        /\ to \in [(1 .. n) \ {i} -> 1 .. (n - 1)]
    BY <1>2, <2>4, <2>5
  <2>7. ASSUME NEW k \in 1 .. (n - 1)
        PROVE  t[k] = s[from[k]] /\ to[from[k]] = k
    <3>1. k \in 1 .. (n - i) + (i - 1)
      BY <2>2
    <3>2. CASE k <= n - i
      <4>1. /\ k \in 1 .. (n - i) /\ i + k \in (1 .. n) \ {i}
            /\ ~(i + k <= i - 1) /\ (i + k) - i = k
        BY <1>2, <3>2
      <4>2. t[k] = z[k]
        BY <2>1, <3>1, <3>2
      <4> QED BY <1>7, <2>4, <2>5, <3>2, <4>1, <4>2
    <3>3. CASE ~(k <= n - i)
      <4>1. /\ k - (n - i) \in 1 .. (i - 1) /\ k - (n - i) \in (1 .. n) \ {i}
            /\ k - (n - i) <= i - 1 /\ (k - (n - i)) + (n - i) = k
        BY <1>2, <3>3
      <4>2. t[k] = a[k - (n - i)]
        BY <2>1, <3>1, <3>3
      <4>3. a[k - (n - i)] = s[k - (n - i)]
        BY <1>6, <4>1
      <4> QED BY <2>4, <2>5, <3>3, <4>1, <4>2, <4>3
    <3> QED BY <3>2, <3>3
  <2>8. ASSUME NEW k \in (1 .. n) \ {i} PROVE from[to[k]] = k
    BY <1>2, <2>4, <2>5, <2>8
  <2>9. Distinct(t) /\ Elements(t) = Elements(s) \ {s[i]}
    <3>1. Rearranges(t, s, n, i, from, to)
      BY <1>2, <2>3, <2>6, <2>7, <2>8 DEF Rearranges
    <3> QED BY <3>1, Rearranged
  <2> QED BY <2>1, <2>9
<1> QED BY <1>8, <1>9, <1>10

\* A new element at the front.
LEMMA InFront ==
    ASSUME NEW S, NEW s \in Seq(S), Distinct(s), NEW b \in S, b \notin Elements(s)
    PROVE  /\ <<b>> \o s \in Seq(S) /\ Distinct(<<b>> \o s)
           /\ Elements(<<b>> \o s) = Elements(s) \cup {b}
<1>0. PICK t : t = <<b>> \o s
  OBVIOUS
<1>1. PICK n \in Nat : n = Len(s) /\ DOMAIN s = 1 .. n
  BY LenProperties
<1>2. <<b>> \in Seq(S) /\ Len(<<b>>) = 1 /\ <<b>>[1] = b
  OBVIOUS
<1>3. /\ t \in Seq(S) /\ Len(t) = n + 1
      /\ \A k \in 1 .. (n + 1) : t[k] = IF k <= 1 THEN <<b>>[k] ELSE s[k - 1]
  BY <1>0, <1>1, <1>2, ConcatProperties
<1>4. DOMAIN t = 1 .. (n + 1)
  BY <1>3, LenProperties
<1>5. \A k \in 1 .. (n + 1) : t[k] = IF k = 1 THEN b ELSE s[k - 1]
  BY <1>2, <1>3
<1>6. Distinct(t)
  <2>1. ASSUME NEW j \in 1 .. (n + 1), NEW k \in 1 .. (n + 1), t[j] = t[k]
        PROVE  j = k
    <3>1. ASSUME NEW m \in 1 .. (n + 1), m # 1
          PROVE  m - 1 \in 1 .. n /\ t[m] = s[m - 1] /\ t[m] # b
      <4>1. m - 1 \in 1 .. n
        BY <3>1
      <4>2. t[m] = s[m - 1]
        BY <1>5, <3>1
      <4> QED BY <1>1, <4>1, <4>2 DEF Elements
    <3>2. CASE j = 1 \/ k = 1
      BY <1>5, <2>1, <3>1, <3>2
    <3>3. CASE j # 1 /\ k # 1
      <4>1. j - 1 \in 1 .. n /\ k - 1 \in 1 .. n /\ s[j - 1] = s[k - 1]
        BY <2>1, <3>1, <3>3
      <4>2. j - 1 = k - 1
        BY <1>1, <4>1 DEF Distinct
      <4> QED BY <4>2
    <3> QED BY <3>2, <3>3
  <2> QED BY <1>4, <2>1 DEF Distinct
<1>7. ASSUME NEW x \in Elements(t) PROVE x \in Elements(s) \cup {b}
  BY <1>1, <1>4, <1>5, <1>7 DEF Elements
<1>8. ASSUME NEW x \in Elements(s) PROVE x \in Elements(t)
  <2>1. PICK k \in 1 .. n : x = s[k]
    BY <1>1 DEF Elements
  <2>2. k + 1 \in 1 .. (n + 1) /\ t[k + 1] = x
    BY <1>1, <1>5, <2>1
  <2> QED BY <1>4, <2>2 DEF Elements
<1>9. b \in Elements(t)
  BY <1>4, <1>5 DEF Elements
<1> QED BY <1>0, <1>3, <1>6, <1>7, <1>8, <1>9

-----------------------------------------------------------------------------
(* Sums *)

\* A set of subsets of a finite set has a least one.
LEMMA LeastSubset ==
    ASSUME NEW D, IsFiniteSet(D), NEW T \in SUBSET SUBSET D, T # {}
    PROVE  \E s \in T : \A t \in T : ~(t \subseteq s /\ t # s)
<1>1. T \subseteq FiniteSubsetsOf(D)
  BY FS_Subset DEF FiniteSubsetsOf
<1>2. \E s \in T : \A t \in T : <<t, s>> \notin StrictSubsetOrdering(D)
  BY <1>1, FS_StrictSubsetOrderingWellFounded, WFMin
<1> QED BY <1>2 DEF StrictSubsetOrdering

\* What the fold over a set makes of a set: g gives the sums of its parts.
AnyOf(s) == CHOOSE x \in s : TRUE
Term(f, g, s) == IF s = {} THEN 0 ELSE f[AnyOf(s)] + g[s \ {AnyOf(s)}]
SumsOf(f, D, g) == g = [s \in SUBSET D |-> Term(f, g, s)]

LEMMA FoldIs ==
    ASSUME NEW f
    PROVE  FoldFunction(+, 0, f) = (CHOOSE g : SumsOf(f, DOMAIN f, g))[DOMAIN f]
BY DEF FoldFunction, FoldFunctionOnSet, MapThenFoldSet, SumsOf, Term, AnyOf

LEMMA SumIs ==
    ASSUME NEW f, NEW D, NEW g, SumsOf(f, D, g), NEW s \in SUBSET D
    PROVE  /\ g[s] = Term(f, g, s)
           /\ s # {} => AnyOf(s) \in s /\ s \ {AnyOf(s)} \in SUBSET D
                        /\ s \ {AnyOf(s)} # s
BY DEF SumsOf, AnyOf

LEMMA SumsUnique ==
    ASSUME NEW f, NEW D, IsFiniteSet(D), NEW g, NEW h,
           NEW S, D \in SUBSET S, SumsOf(f, S, g), SumsOf(f, D, h)
    PROVE  g[D] = h[D]
<1> DEFINE Bad == {s \in SUBSET D : g[s] # h[s]}
<1> SUFFICES ASSUME Bad # {} PROVE FALSE
  OBVIOUS
<1>1. PICK s \in Bad : \A t \in Bad : ~(t \subseteq s /\ t # s)
  <2>1. Bad \in SUBSET SUBSET D
    OBVIOUS
  <2> HIDE DEF Bad
  <2> QED BY <2>1, LeastSubset
<1>2. s \in SUBSET D /\ s \in SUBSET S
  OBVIOUS
<1>3. g[s] = Term(f, g, s) /\ h[s] = Term(f, h, s)
  BY <1>2, SumIs
<1>4. s # {} => g[s \ {AnyOf(s)}] = h[s \ {AnyOf(s)}]
  BY <1>1, <1>2, SumIs
<1> QED BY <1>1, <1>3, <1>4 DEF Term

\* The sums exist: those of the parts are put together.
LEMMA SumsExist ==
    ASSUME NEW f, NEW D, IsFiniteSet(D)
    PROVE  \E g : SumsOf(f, D, g)
<1> DEFINE Bad == {s \in SUBSET D : ~\E g : SumsOf(f, s, g)}
           G(s) == CHOOSE g : SumsOf(f, s, g)
<1> SUFFICES ASSUME Bad # {} PROVE FALSE
  OBVIOUS
<1>1. PICK T \in Bad : \A t \in Bad : ~(t \subseteq T /\ t # T)
  <2>1. Bad \in SUBSET SUBSET D
    OBVIOUS
  <2> HIDE DEF Bad
  <2> QED BY <2>1, LeastSubset
<1>2. \A s \in SUBSET T : s # T => SumsOf(f, s, G(s))
  BY <1>1
<1> DEFINE h == [s \in SUBSET T |->
                    IF s # {} /\ s = T
                    THEN f[AnyOf(s)] + G(s \ {AnyOf(s)})[s \ {AnyOf(s)}]
                    ELSE IF s = {} THEN 0 ELSE G(s)[s]]
<1> HIDE DEF G, Bad
<1>3. ASSUME NEW s \in SUBSET T PROVE h[s] = Term(f, h, s)
  <2>1. CASE s = {}
    BY <2>1 DEF Term
  <2>2. CASE s # {}
    <3> DEFINE r == s \ {AnyOf(s)}
    <3>1. AnyOf(s) \in s /\ r \in SUBSET T /\ r # T /\ r \in SUBSET s /\ r # s
      BY <2>2 DEF AnyOf
    <3>2. SumsOf(f, r, G(r)) /\ IsFiniteSet(r)
      <4>1. r \in SUBSET D
        BY <1>1, <3>1 DEF Bad
      <4> QED BY <1>2, <3>1, <4>1, FS_Subset
    <3>3. h[r] = G(r)[r]
      <4>1. G(r)[r] = Term(f, G(r), r)
        <5>1. r \in SUBSET r
          OBVIOUS
        <5> HIDE DEF r
        <5> QED BY <3>2, <5>1, SumIs
      <4>2. r = {} => G(r)[r] = 0
        BY <4>1 DEF Term
      <4> HIDE DEF r
      <4> QED BY <3>1, <4>2
    <3>4. CASE s = T
      <4> QED BY <2>2, <3>3, <3>4 DEF Term
    <3>5. CASE s # T
      <4>1. SumsOf(f, s, G(s))
        BY <1>2, <3>5
      <4>2. G(s)[s] = f[AnyOf(s)] + G(s)[r]
        BY <2>2, <4>1, SumIs DEF Term
      <4>3. G(s)[r] = G(r)[r]
        BY <3>1, <3>2, <4>1, SumsUnique
      <4>4. h[s] = G(s)[s]
        BY <2>2, <3>5
      <4> QED BY <2>2, <3>3, <4>2, <4>3, <4>4 DEF Term
    <3> QED BY <3>4, <3>5
  <2> QED BY <2>1, <2>2
<1>4. SumsOf(f, T, h)
  <2>1. h = [s \in SUBSET T |-> h[s]]
    OBVIOUS
  <2> HIDE DEF h
  <2> QED BY <1>3, <2>1 DEF SumsOf
<1> QED BY <1>1, <1>4 DEF Bad

\* A sum of natural numbers is one, and not less than any of them.
LEMMA SumOfNat ==
    ASSUME NEW D, IsFiniteSet(D), NEW f \in [D -> Nat]
    PROVE  /\ FoldFunction(+, 0, f) \in Nat
           /\ \A i \in D : FoldFunction(+, 0, f) >= f[i]
<1>0. PICK g : g = CHOOSE h : SumsOf(f, D, h)
  OBVIOUS
<1>1. SumsOf(f, D, g)
  BY <1>0, SumsExist
<1> DEFINE Bad == {s \in SUBSET D : ~(g[s] \in Nat /\ \A i \in s : g[s] >= f[i])}
<1>2. ASSUME Bad # {} PROVE FALSE
  <2>1. PICK s \in Bad : \A t \in Bad : ~(t \subseteq s /\ t # s)
    <3>1. Bad \in SUBSET SUBSET D
      OBVIOUS
    <3> HIDE DEF Bad
    <3> QED BY <1>2, <3>1, LeastSubset
  <2>2. s \in SUBSET D /\ g[s] = Term(f, g, s)
    <3>1. s \in SUBSET D
      OBVIOUS
    <3> HIDE DEF Bad
    <3> QED BY <1>1, <3>1, SumIs
  <2>3. CASE s = {}
    BY <2>1, <2>2, <2>3 DEF Term
  <2>4. CASE s # {}
    <3> DEFINE r == s \ {AnyOf(s)}
    <3>1. AnyOf(s) \in s /\ r \in SUBSET D /\ r \subseteq s /\ r # s
      BY <1>1, <2>2, <2>4, SumIs
    <3>2. r \notin Bad
      BY <2>1, <3>1
    <3>3. g[r] \in Nat /\ \A i \in r : g[r] >= f[i]
      BY <3>1, <3>2
    <3>4. g[s] = f[AnyOf(s)] + g[r] /\ f[AnyOf(s)] \in Nat
      BY <2>2, <2>4, <3>1 DEF Term
    <3>5. \A i \in s : f[i] \in Nat /\ (i = AnyOf(s) \/ i \in r)
      BY <2>2
    <3> HIDE DEF r
    <3>6. g[s] \in Nat /\ \A i \in s : g[s] >= f[i]
      BY <3>3, <3>4, <3>5
    <3> QED BY <2>1, <3>6
  <2> QED BY <2>3, <2>4
<1>3. g[D] \in Nat /\ \A i \in D : g[D] >= f[i]
  BY <1>2
<1>4. FoldFunction(+, 0, f) = g[D]
  <2>1. FoldFunction(+, 0, f) = (CHOOSE h : SumsOf(f, DOMAIN f, h))[DOMAIN f]
    BY FoldIs
  <2> QED BY <1>0, <2>1
<1> QED BY <1>3, <1>4

\* The bytes of a list are a number, and not zero unless the list is empty.
LEMMA BytesType ==
    ASSUME NEW c, NEW l \in Lists, c.list[l] \in Seq(Block)
    PROVE  /\ Bytes(c, l) \in Nat
           /\ Members(c, l) # {} => Bytes(c, l) > 0
<1>1. PICK n \in Nat : n = Len(c.list[l]) /\ DOMAIN c.list[l] = 1 .. n
  BY LenProperties
<1>2. \A i \in 1 .. n : EntryBytes(l, c.list[l][i]) \in Nat \ {0}
  <2> TAKE i \in 1 .. n
  <2>1. c.list[l][i] \in Block
    BY <1>1, ElementOfSeq
  <2>2. DataSize[c.list[l][i]] \in Nat /\ EntrySize \in Nat \ {0}
    BY <2>1, BlockAssumption
  <2> QED BY <2>2 DEF EntryBytes
<1>3. PICK f : f = [i \in 1 .. n |-> EntryBytes(l, c.list[l][i])]
  OBVIOUS
<1>4. f \in [1 .. n -> Nat] /\ \A i \in 1 .. n : f[i] > 0
  BY <1>2, <1>3
<1>5. IsFiniteSet(1 .. n)
  BY FS_Interval
<1>6. PICK sum : sum = FoldFunction(+, 0, f)
  OBVIOUS
<1>7. sum \in Nat /\ \A i \in 1 .. n : sum >= f[i]
  BY <1>4, <1>5, <1>6, SumOfNat
<1>8. Bytes(c, l) = sum
  BY <1>1, <1>3, <1>6 DEF Bytes
<1>9. Members(c, l) # {} => \E i \in 1 .. n : TRUE
  BY <1>1 DEF Members
<1> QED BY <1>4, <1>7, <1>8, <1>9

-----------------------------------------------------------------------------
(* The lists *)

\* One list is replaced.
LEMMA ListChange ==
    ASSUME NEW c, Lined(c), NEW l \in Lists, NEW t \in Seq(Block), Distinct(t),
           \A m \in Lists \ {l} : Elements(t) \cap Members(c, m) = {},
           NEW d, d = [c EXCEPT !.list[l] = t]
    PROVE  /\ Lined(d)
           /\ \A m \in Lists : Members(d, m) = IF m = l THEN Elements(t)
                                                        ELSE Members(c, m)
           /\ d.hash = c.hash /\ d.usage = c.usage
           /\ d.target = c.target /\ d.size = c.size
<1>1. /\ c = [list |-> c.list, hash |-> c.hash, usage |-> c.usage,
              target |-> c.target, size |-> c.size]
      /\ c.list \in [Lists -> Seq(Block)]
      /\ c.usage \in [Block -> Int]
      /\ c.target \in 0 .. InitSize /\ c.size \in Sizes
  BY DEF Lined, IsCache
<1>2. /\ d = [list |-> [c.list EXCEPT ![l] = t], hash |-> c.hash,
              usage |-> c.usage, target |-> c.target, size |-> c.size]
  BY <1>1
<1>3. /\ d.list = [c.list EXCEPT ![l] = t]
      /\ d.hash = c.hash /\ d.usage = c.usage
      /\ d.target = c.target /\ d.size = c.size
  BY <1>2
<1>4. d.list \in [Lists -> Seq(Block)]
  BY <1>1, <1>3
<1>5. IsCache(d)
  BY <1>1, <1>2, <1>3, <1>4 DEF IsCache
<1>6. \A m \in Lists : d.list[m] = IF m = l THEN t ELSE c.list[m]
  BY <1>1, <1>3
<1>7. \A m \in Lists : Members(d, m) = IF m = l THEN Elements(t)
                                                ELSE Members(c, m)
  BY <1>6 DEF Members, Elements
<1>8. \A m \in Lists : Distinct(d.list[m])
  BY <1>6 DEF Lined
<1>9. \A k, m \in Lists : k # m => Members(d, k) \cap Members(d, m) = {}
  BY <1>7 DEF Lined
<1> QED BY <1>3, <1>5, <1>7, <1>8, <1>9 DEF Lined

LEMMA MembersElements ==
    ASSUME NEW c, NEW l
    PROVE  Members(c, l) = Elements(c.list[l])
BY DEF Members, Elements

\* A block that is in no list is put in one.
LEMMA PutFirstLists ==
    ASSUME NEW c, Lined(c), NEW l \in Lists, NEW b \in Block, b \notin Listed(c)
    PROVE  /\ Lined(PutFirst(c, l, b))
           /\ \A m \in Lists : Members(PutFirst(c, l, b), m) =
                  IF m = l THEN Members(c, l) \cup {b} ELSE Members(c, m)
           /\ PutFirst(c, l, b).hash = c.hash /\ PutFirst(c, l, b).usage = c.usage
           /\ PutFirst(c, l, b).target = c.target /\ PutFirst(c, l, b).size = c.size
<1>1. PICK t : t = <<b>> \o c.list[l]
  OBVIOUS
<1>2. c.list[l] \in Seq(Block) /\ Distinct(c.list[l])
  BY DEF Lined, IsCache
<1>3. Elements(c.list[l]) = Members(c, l) /\ b \notin Members(c, l)
  BY MembersElements DEF Listed
<1>4. t \in Seq(Block) /\ Distinct(t) /\ Elements(t) = Members(c, l) \cup {b}
  <2>1. PICK s : s = c.list[l]
    OBVIOUS
  <2>2. s \in Seq(Block) /\ Distinct(s) /\ b \notin Elements(s) /\ t = <<b>> \o s
    BY <1>1, <1>2, <1>3, <2>1
  <2>3. t \in Seq(Block) /\ Distinct(t) /\ Elements(t) = Elements(s) \cup {b}
    BY <2>2, InFront
  <2> QED BY <1>3, <2>1, <2>3
<1>5. \A m \in Lists \ {l} : Elements(t) \cap Members(c, m) = {}
  BY <1>4 DEF Lined, Listed
<1>6. PutFirst(c, l, b) = [c EXCEPT !.list[l] = t]
  BY <1>1 DEF PutFirst
<1>7. PICK d : d = PutFirst(c, l, b)
  OBVIOUS
<1>8. d = [c EXCEPT !.list[l] = t]
  BY <1>6, <1>7
<1>9. t \in Seq(Block) /\ Distinct(t)
  BY <1>4
<1>10. /\ Lined(d)
       /\ \A m \in Lists : Members(d, m) = IF m = l THEN Elements(t)
                                                    ELSE Members(c, m)
       /\ d.hash = c.hash /\ d.usage = c.usage
       /\ d.target = c.target /\ d.size = c.size
  BY <1>5, <1>8, <1>9, ListChange
<1> QED BY <1>4, <1>7, <1>10

\* A block is taken out of its list.
LEMMA TakeOutLists ==
    ASSUME NEW c, Lined(c), NEW l \in Lists, NEW b \in Members(c, l)
    PROVE  /\ Lined(TakeOut(c, l, b))
           /\ \A m \in Lists : Members(TakeOut(c, l, b), m) =
                  IF m = l THEN Members(c, l) \ {b} ELSE Members(c, m)
           /\ TakeOut(c, l, b).hash = c.hash /\ TakeOut(c, l, b).usage = c.usage
           /\ TakeOut(c, l, b).target = c.target /\ TakeOut(c, l, b).size = c.size
<1>1. PICK i : i = Position(c, l, b)
  OBVIOUS
<1>2. i \in DOMAIN c.list[l] /\ c.list[l][i] = b
  BY <1>1 DEF Position, Members
<1>3. PICK t : t = RemoveAt(c.list[l], i)
  OBVIOUS
<1>4. c.list[l] \in Seq(Block) /\ Distinct(c.list[l])
  BY DEF Lined, IsCache
<1>5. t \in Seq(Block) /\ Distinct(t) /\ Elements(t) = Members(c, l) \ {b}
  BY <1>2, <1>3, <1>4, Pieces, MembersElements
<1>6. \A m \in Lists \ {l} : Elements(t) \cap Members(c, m) = {}
  BY <1>5 DEF Lined
<1>7. TakeOut(c, l, b) = [c EXCEPT !.list[l] = t]
  BY <1>1, <1>3 DEF TakeOut
<1>8. PICK d : d = TakeOut(c, l, b)
  OBVIOUS
<1>9. d = [c EXCEPT !.list[l] = t]
  BY <1>7, <1>8
<1>10. t \in Seq(Block) /\ Distinct(t)
  BY <1>5
<1>11. /\ Lined(d)
       /\ \A m \in Lists : Members(d, m) = IF m = l THEN Elements(t)
                                                    ELSE Members(c, m)
       /\ d.hash = c.hash /\ d.usage = c.usage
       /\ d.target = c.target /\ d.size = c.size
  BY <1>6, <1>9, <1>10, ListChange
<1> QED BY <1>5, <1>8, <1>11

\* The last entry that is not in use, if there is one.
LEMMA LastIdleType ==
    ASSUME NEW c, Lined(c), NEW l \in Lists, Idle(c, l) # {}
    PROVE  LastIdle(c, l) \in Idle(c, l)
<1>1. PICK n \in Nat : n = Len(c.list[l]) /\ DOMAIN c.list[l] = 1 .. n
  BY LenProperties DEF Lined, IsCache
<1> DEFINE T == {n - i : i \in Idle(c, l)}
<1>2. T \subseteq Nat /\ T # {}
  BY <1>1 DEF Idle
<1>3. PICK R : R = OpToRel(<, Nat) /\ IsWellFoundedOn(R, Nat)
  BY NatLessThanWellFounded
<1>4. PICK k \in T : \A j \in T : ~(<<j, k>> \in R)
  BY <1>2, <1>3, WFMin
<1>5. \A j \in T : k <= j
  <2> TAKE j \in T
  <2>1. j \in Nat /\ k \in Nat /\ ~(<<j, k>> \in R)
    BY <1>2, <1>4
  <2>2. <<j, k>> \in R <=> j < k
    BY <1>3, <2>1 DEF OpToRel
  <2> QED BY <2>1, <2>2
<1>6. PICK i \in Idle(c, l) : k = n - i
  BY <1>4
<1>7. \A j \in Idle(c, l) : j <= i
  <2> TAKE j \in Idle(c, l)
  <2>1. n - i <= n - j
    BY <1>5, <1>6
  <2>2. i \in Int /\ j \in Int
    BY <1>1 DEF Idle
  <2> QED BY <2>1, <2>2
<1> QED BY <1>6, <1>7 DEF LastIdle

\* The least recently used block that may go.
LEMMA WithoutLruLists ==
    ASSUME NEW c, Lined(c), NEW l \in Lists, Idle(c, l) # {}
    PROVE  /\ Lru(c, l) \in Members(c, l) /\ c.usage[Lru(c, l)] = 0
           /\ Lined(WithoutLru(c, l))
           /\ \A m \in Lists : Members(WithoutLru(c, l), m) =
                  IF m = l THEN Members(c, l) \ {Lru(c, l)} ELSE Members(c, m)
           /\ WithoutLru(c, l).hash = c.hash /\ WithoutLru(c, l).usage = c.usage
           /\ WithoutLru(c, l).target = c.target /\ WithoutLru(c, l).size = c.size
<1>1. PICK i : i = LastIdle(c, l)
  OBVIOUS
<1>2. i \in DOMAIN c.list[l] /\ c.usage[c.list[l][i]] = 0
  BY <1>1, LastIdleType DEF Idle
<1>3. PICK s : s = c.list[l]
  OBVIOUS
<1>4. PICK t : t = SubSeq(s, i + 1, Len(s)) \o SubSeq(s, 1, i - 1)
  OBVIOUS
<1>5. s \in Seq(Block) /\ Distinct(s) /\ i \in DOMAIN s
  BY <1>2, <1>3 DEF Lined, IsCache
<1>6. Lru(c, l) = s[i] /\ Members(c, l) = Elements(s)
  BY <1>1, <1>3, MembersElements DEF Lru
<1>7. t \in Seq(Block) /\ Distinct(t) /\ Elements(t) = Members(c, l) \ {Lru(c, l)}
  BY <1>4, <1>5, <1>6, Pieces
<1>8. \A m \in Lists \ {l} : Elements(t) \cap Members(c, m) = {}
  BY <1>7 DEF Lined
<1>9. WithoutLru(c, l) = [c EXCEPT !.list[l] = t]
  BY <1>1, <1>3, <1>4 DEF WithoutLru
<1>10. Lru(c, l) \in Members(c, l) /\ c.usage[Lru(c, l)] = 0
  BY <1>2, <1>3, <1>6 DEF Elements
<1>11. PICK d : d = WithoutLru(c, l)
  OBVIOUS
<1>12. d = [c EXCEPT !.list[l] = t]
  BY <1>9, <1>11
<1>13. t \in Seq(Block) /\ Distinct(t)
  BY <1>7
<1>14. /\ Lined(d)
       /\ \A m \in Lists : Members(d, m) = IF m = l THEN Elements(t)
                                                    ELSE Members(c, m)
       /\ d.hash = c.hash /\ d.usage = c.usage
       /\ d.target = c.target /\ d.size = c.size
  BY <1>8, <1>12, <1>13, ListChange
<1> QED BY <1>7, <1>10, <1>11, <1>14

-----------------------------------------------------------------------------
(* Making room *)

\* An entry that is not in use is removed, if there is one.
LEMMA RemoveLruInStep ==
    ASSUME NEW c, NEW away, InStep(c, away), NEW l \in Lists
    PROVE  /\ InStep(RemoveLru(c, l), away)
           /\ MakesRoomFrom(c, RemoveLru(c, l))
           /\ l \in Ghosts => InMemory(RemoveLru(c, l)) = InMemory(c)
<1>1. CASE Idle(c, l) = {}
  <2>1. RemoveLru(c, l) = c
    BY <1>1 DEF RemoveLru
  <2> QED BY <2>1 DEF MakesRoomFrom
<1>2. CASE Idle(c, l) # {}
  <2>1. PICK x : x = Lru(c, l)
    OBVIOUS
  <2>2. PICK w : w = WithoutLru(c, l)
    OBVIOUS
  <2>3. PICK d : d = [w EXCEPT !.hash = @ \ {x}]
    OBVIOUS
  <2>4. RemoveLru(c, l) = d
    BY <1>2, <2>1, <2>2, <2>3 DEF RemoveLru
  <2>5. Lined(c)
    BY DEF InStep
  <2>6. /\ x \in Members(c, l) /\ c.usage[x] = 0
        /\ Lined(w)
        /\ \A m \in Lists : Members(w, m) =
               IF m = l THEN Members(c, l) \ {x} ELSE Members(c, m)
        /\ w.hash = c.hash /\ w.usage = c.usage
    BY <1>2, <2>1, <2>2, <2>5, WithoutLruLists
  <2>7. /\ d = [list |-> w.list, hash |-> c.hash \ {x}, usage |-> w.usage,
                target |-> w.target, size |-> w.size]
    BY <2>3, <2>6 DEF Lined, IsCache
  <2>8. d.list = w.list /\ d.hash = c.hash \ {x} /\ d.usage = c.usage
    BY <2>6, <2>7
  <2>9. \A m \in Lists : Members(d, m) = Members(w, m)
    BY <2>8 DEF Members
  <2>10. IsCache(d)
    BY <2>6, <2>7, <2>8 DEF Lined, IsCache
  <2>11. Lined(d)
    BY <2>6, <2>8, <2>9, <2>10 DEF Lined
  <2>12. Listed(d) = Listed(c) \ {x}
    <3>1. \A m \in Lists \ {l} : x \notin Members(c, m)
      BY <2>5, <2>6 DEF Lined
    <3>2. \A m \in Lists : Members(d, m) = Members(c, m) \ {x}
      BY <2>6, <2>9, <3>1
    <3> QED BY <3>2 DEF Listed
  <2>13. InStep(d, away)
    <3>1. x \in Listed(c)
      BY <2>6 DEF Listed
    <3>2. x \notin away
      BY <3>1 DEF InStep
    <3> QED BY <2>8, <2>11, <2>12, <3>2 DEF InStep
  <2>14. MakesRoomFrom(c, d)
    <3>1. "t1" \in Lists /\ "t2" \in Lists
      BY DEF Lists, Data
    <3> QED BY <2>6, <2>8, <2>9, <2>12, <3>1 DEF MakesRoomFrom, InMemory
  <2>15. l \in Ghosts => InMemory(d) = InMemory(c)
    BY <2>6, <2>9 DEF InMemory, Lists, Data, Ghosts
  <2> QED BY <2>4, <2>13, <2>14, <2>15
<1> QED BY <1>1, <1>2

\* The data of an entry that is not in use goes, if there is one.
LEMMA MoveInStep ==
    ASSUME NEW c, NEW away, InStep(c, away), NEW l \in {"t1", "t2"}
    PROVE  /\ InStep(Move(c, l), away) /\ MakesRoomFrom(c, Move(c, l))
           /\ Idle(c, l) # {} => ~(InMemory(c) \subseteq InMemory(Move(c, l)))
<1>1. CASE Idle(c, l) = {}
  <2>1. Move(c, l) = c
    BY <1>1 DEF Move
  <2> QED BY <1>1, <2>1 DEF MakesRoomFrom
<1>2. CASE Idle(c, l) # {}
  <2>1. PICK x : x = Lru(c, l)
    OBVIOUS
  <2>2. PICK w : w = WithoutLru(c, l)
    OBVIOUS
  <2>3. PICK g : g = Ghost(l)
    OBVIOUS
  <2>4. PICK d : d = PutFirst(w, g, x)
    OBVIOUS
  <2>5. Move(c, l) = d
    BY <1>2, <2>1, <2>2, <2>3, <2>4 DEF Move
  <2>6. Lined(c) /\ l \in Lists
    BY DEF InStep, Lists, Data
  <2>7. /\ x \in Members(c, l) /\ c.usage[x] = 0
        /\ Lined(w)
        /\ \A m \in Lists : Members(w, m) =
               IF m = l THEN Members(c, l) \ {x} ELSE Members(c, m)
        /\ w.hash = c.hash /\ w.usage = c.usage
    BY <1>2, <2>1, <2>2, <2>6, WithoutLruLists
  <2>8. \A m \in Lists \ {l} : x \notin Members(c, m)
    BY <2>6, <2>7 DEF Lined
  <2>9. x \in Block /\ x \notin Listed(w)
    <3>1. x \in Block
      BY <2>6, <2>7, ElementOfSeq, LenProperties DEF Lined, IsCache, Members
    <3> QED BY <2>7, <2>8, <3>1 DEF Listed
  <2>10. g \in Lists /\ g \notin {"t1", "t2"}
    BY <2>3 DEF Ghost, Lists, Ghosts
  <2>11. /\ Lined(d)
         /\ \A m \in Lists : Members(d, m) =
                IF m = g THEN Members(w, g) \cup {x} ELSE Members(w, m)
         /\ d.hash = w.hash /\ d.usage = w.usage
    BY <2>4, <2>7, <2>9, <2>10, PutFirstLists
  <2>12. Listed(d) = Listed(c)
    <3>1. \A m \in Lists : Members(d, m) \subseteq Listed(c)
      BY <2>6, <2>7, <2>10, <2>11 DEF Listed
    <3>2. ASSUME NEW m \in Lists, NEW b \in Members(c, m)
          PROVE  b \in Listed(d)
      <4>1. CASE b = x
        BY <2>10, <2>11, <4>1 DEF Listed
      <4>2. CASE b # x
        <5>1. b \in Members(w, m)
          BY <2>7, <4>2
        <5>2. b \in Members(d, m)
          BY <2>11, <5>1
        <5> QED BY <5>2 DEF Listed
      <4> QED BY <4>1, <4>2
    <3> QED BY <3>1, <3>2 DEF Listed
  <2>13. InStep(d, away)
    BY <2>7, <2>11, <2>12 DEF InStep
  <2>14. MakesRoomFrom(c, d)
    <3>1. "t1" \in Lists /\ "t2" \in Lists
      BY DEF Lists, Data
    <3>2. \A m \in {"t1", "t2"} : Members(d, m) = Members(w, m)
      BY <2>10, <2>11, <3>1
    <3>3. \A m \in {"t1", "t2"} : /\ Members(w, m) \subseteq Members(c, m)
                                  /\ Members(c, m) \ Members(w, m) \subseteq {x}
      BY <2>7, <3>1
    <3> QED BY <2>7, <2>11, <2>12, <3>2, <3>3 DEF MakesRoomFrom, InMemory
  <2>15. x \in InMemory(c) /\ x \notin InMemory(d)
    <3>1. "t1" \in Lists /\ "t2" \in Lists
      BY DEF Lists, Data
    <3>2. \A m \in {"t1", "t2"} : x \notin Members(d, m)
      BY <2>7, <2>8, <2>10, <2>11, <3>1
    <3> QED BY <2>7, <3>2 DEF InMemory
  <2> QED BY <2>5, <2>13, <2>14, <2>15
<1> QED BY <1>1, <1>2

LEMMA MakesRoomTwice ==
    ASSUME NEW c, NEW d, NEW e, MakesRoomFrom(c, d), MakesRoomFrom(d, e)
    PROVE  MakesRoomFrom(c, e)
BY DEF MakesRoomFrom

LEMMA ReplaceInStep ==
    ASSUME NEW c, NEW away, InStep(c, away)
    PROVE  /\ InStep(Replace(c), away) /\ MakesRoomFrom(c, Replace(c))
           /\ Gives(c, Replace(c))
<1>1. PICK l \in {"t1", "t2"}, m \in {"t1", "t2"} :
          /\ l # m
          /\ Replace(c) = Move(c, IF Idle(c, l) # {} THEN l ELSE m)
  BY DEF Replace
<1>2. PICK k \in {"t1", "t2"} : k = IF Idle(c, l) # {} THEN l ELSE m
  OBVIOUS
<1>3. /\ InStep(Replace(c), away) /\ MakesRoomFrom(c, Replace(c))
      /\ Idle(c, k) # {} => ~(InMemory(c) \subseteq InMemory(Replace(c)))
  BY <1>1, <1>2, MoveInStep
<1>4. ASSUME NEW x \in InMemory(c), c.usage[x] = 0
      PROVE  Idle(c, k) # {}
  <2>1. PICK n \in {"t1", "t2"} : x \in Members(c, n)
    BY DEF InMemory
  <2>2. Idle(c, n) # {}
    BY <1>4, <2>1 DEF Idle, Members
  <2> QED BY <1>1, <1>2, <2>2
<1> QED BY <1>3, <1>4 DEF Gives

LEMMA MakeRoomInStep ==
    ASSUME NEW c, NEW away, InStep(c, away)
    PROVE  /\ InStep(MakeRoom(c), away) /\ MakesRoomFrom(c, MakeRoom(c))
           /\ Full(c) => Gives(c, MakeRoom(c))
<1>1. \/ MakeRoom(c) = c /\ ~Full(c)
      \/ MakeRoom(c) = RemoveLru(c, "t1") /\ ~Full(c)
      \/ MakeRoom(c) = Replace(c)
      \/ \E l \in Ghosts : MakeRoom(c) = Replace(RemoveLru(c, l))
  <2>1. PICK n1, n2, m1, m2 : /\ n1 = Bytes(c, "t1") /\ n2 = Bytes(c, "t2")
                              /\ m1 = Bytes(c, "b1") /\ m2 = Bytes(c, "b2")
    OBVIOUS
  <2>2. {n1, n2, m1, m2} \subseteq Nat /\ c.size \in Nat
    <3>1. \A l \in Lists : Bytes(c, l) \in Nat
      BY BytesType DEF InStep, Lined, IsCache
    <3>2. "t1" \in Lists /\ "t2" \in Lists /\ "b1" \in Lists /\ "b2" \in Lists
      BY DEF Lists, Data, Ghosts
    <3>3. c.size \in Nat
      BY BlockAssumption DEF InStep, Lined, IsCache
    <3> QED BY <2>1, <3>1, <3>2, <3>3
  <2>3. Full(c) <=> n1 < c.size /\ n1 + n2 >= c.size
    BY <2>1 DEF Full
  <2>4. MakeRoom(c) =
            CASE n1 + m1 >= c.size /\ n1 < c.size -> Replace(RemoveLru(c, "b1"))
              [] n1 + m1 >= c.size /\ n1 >= c.size -> RemoveLru(c, "t1")
              [] n1 + m1 < c.size /\ n1 + m1 + n2 + m2 >= 2 * c.size ->
                     Replace(RemoveLru(c, "b2"))
              [] /\ n1 + m1 < c.size /\ n1 + m1 + n2 + m2 >= c.size
                 /\ n1 + m1 + n2 + m2 < 2 * c.size -> Replace(c)
              [] OTHER -> c
    BY <2>1 DEF MakeRoom
  <2>5. CASE n1 + m1 >= c.size /\ n1 < c.size
    <3>1. MakeRoom(c) = Replace(RemoveLru(c, "b1"))
      BY <2>2, <2>4, <2>5
    <3> QED BY <3>1 DEF Ghosts
  <2>6. CASE n1 + m1 >= c.size /\ n1 >= c.size
    BY <2>2, <2>3, <2>4, <2>6
  <2>7. CASE n1 + m1 < c.size /\ n1 + m1 + n2 + m2 >= 2 * c.size
    <3>1. MakeRoom(c) = Replace(RemoveLru(c, "b2"))
      BY <2>2, <2>4, <2>7
    <3> QED BY <3>1 DEF Ghosts
  <2>8. CASE /\ n1 + m1 < c.size /\ n1 + m1 + n2 + m2 >= c.size
             /\ n1 + m1 + n2 + m2 < 2 * c.size
    BY <2>2, <2>4, <2>8
  <2>9. CASE n1 + m1 < c.size /\ n1 + m1 + n2 + m2 < c.size
    BY <2>2, <2>3, <2>4, <2>9
  <2> QED BY <2>2, <2>5, <2>6, <2>7, <2>8, <2>9
<1>2. CASE MakeRoom(c) = c /\ ~Full(c)
  BY <1>2 DEF MakesRoomFrom
<1>3. CASE MakeRoom(c) = Replace(c)
  BY <1>3, ReplaceInStep
<1>4. CASE MakeRoom(c) = RemoveLru(c, "t1") /\ ~Full(c)
  BY <1>4, RemoveLruInStep DEF Lists, Data
<1>5. ASSUME NEW l \in Ghosts, MakeRoom(c) = Replace(RemoveLru(c, l))
      PROVE  /\ InStep(MakeRoom(c), away) /\ MakesRoomFrom(c, MakeRoom(c))
             /\ Gives(c, MakeRoom(c))
  <2>1. PICK d : d = RemoveLru(c, l)
    OBVIOUS
  <2>2. /\ InStep(d, away) /\ MakesRoomFrom(c, d)
        /\ InMemory(d) = InMemory(c)
    BY <2>1, RemoveLruInStep DEF Lists
  <2>3. /\ InStep(Replace(d), away) /\ MakesRoomFrom(d, Replace(d))
        /\ Gives(d, Replace(d))
    BY <2>2, ReplaceInStep
  <2>4. MakesRoomFrom(c, Replace(d))
    BY <2>2, <2>3, MakesRoomTwice
  <2>5. Gives(c, Replace(d))
    BY <2>2, <2>3 DEF Gives, MakesRoomFrom
  <2> QED BY <1>5, <2>1, <2>3, <2>4, <2>5
<1> QED BY <1>1, <1>2, <1>3, <1>4, <1>5

-----------------------------------------------------------------------------
(* Looking up, inserting and flushing *)

LEMMA SameLists ==
    ASSUME NEW c, NEW d, c.list = d.list
    PROVE  /\ \A l \in Lists : Members(c, l) = Members(d, l)
           /\ Listed(c) = Listed(d) /\ InMemory(c) = InMemory(d)
BY DEF Listed, InMemory, Members

LEMMA WhereType ==
    ASSUME NEW c, NEW b \in Listed(c)
    PROVE  Where(c, b) \in Lists /\ b \in Members(c, Where(c, b))
BY DEF Where, Listed

LEMMA InMemoryIsListed ==
    ASSUME NEW c
    PROVE  /\ InMemory(c) \subseteq Listed(c)
           /\ \A l \in {"t1", "t2"} : Members(c, l) \subseteq InMemory(c)
BY DEF InMemory, Listed, Lists, Data

\* A block is between two lists: the hash alone knows it.
LEMMA TakeOutInStep ==
    ASSUME NEW c, InStep(c, {}), NEW b \in Listed(c), NEW out,
           out = TakeOut(c, Where(c, b), b)
    PROVE  /\ InStep(out, {b}) /\ out.usage = c.usage
           /\ InMemory(out) = InMemory(c) \ {b}
           /\ Listed(out) = Listed(c) \ {b}
<1>1. PICK l \in Lists : l = Where(c, b) /\ b \in Members(c, l)
  BY WhereType
<1>2. Lined(c) /\ c.hash = Listed(c)
  BY DEF InStep
<1>3. /\ Lined(out)
      /\ \A m \in Lists : Members(out, m) =
             IF m = l THEN Members(c, l) \ {b} ELSE Members(c, m)
      /\ out.hash = c.hash /\ out.usage = c.usage
  BY <1>1, <1>2, TakeOutLists
<1>4. \A m \in Lists : m # l => b \notin Members(c, m)
  BY <1>1, <1>2 DEF Lined
<1>5. \A m \in Lists : Members(out, m) = Members(c, m) \ {b}
  BY <1>3, <1>4
<1>6. Listed(out) = Listed(c) \ {b}
  BY <1>5 DEF Listed
<1>7. InMemory(out) = InMemory(c) \ {b}
  BY <1>5 DEF InMemory, Lists, Data
<1> QED BY <1>2, <1>3, <1>6, <1>7 DEF InStep

\* A block is put in a list of blocks in memory.
Enter(r, l, b, n) ==
    [PutFirst(r, l, b) EXCEPT !.hash = @ \cup {b}, !.usage[b] = n]

LEMMA EnterInStep ==
    ASSUME NEW r, NEW away, InStep(r, away), NEW b \in Block, away \subseteq {b},
           b \notin Listed(r), NEW l \in {"t1", "t2"}, NEW n \in Int
    PROVE  /\ InStep(Enter(r, l, b, n), {})
           /\ Enter(r, l, b, n).usage = [r.usage EXCEPT ![b] = n]
           /\ InMemory(Enter(r, l, b, n)) = InMemory(r) \cup {b}
<1>0. PICK d : d = Enter(r, l, b, n)
  OBVIOUS
<1>1. PICK p : p = PutFirst(r, l, b)
  OBVIOUS
<1>2. l \in Lists
  BY DEF Lists, Data
<1>3. /\ Lined(p)
      /\ \A m \in Lists : Members(p, m) =
             IF m = l THEN Members(r, l) \cup {b} ELSE Members(r, m)
      /\ p.hash = r.hash /\ p.usage = r.usage
  BY <1>1, <1>2, PutFirstLists DEF InStep
<1>4. d = [list |-> p.list, hash |-> p.hash \cup {b},
           usage |-> [p.usage EXCEPT ![b] = n],
           target |-> p.target, size |-> p.size]
  <2>1. p = [list |-> p.list, hash |-> p.hash, usage |-> p.usage,
             target |-> p.target, size |-> p.size]
    BY <1>3 DEF Lined, IsCache
  <2>2. d = [p EXCEPT !.hash = @ \cup {b}, !.usage[b] = n]
    BY <1>0, <1>1 DEF Enter
  <2> QED BY <2>1, <2>2
<1>5. /\ d.list = p.list /\ d.hash = p.hash \cup {b}
      /\ d.usage = [p.usage EXCEPT ![b] = n]
      /\ d.target = p.target /\ d.size = p.size
  BY <1>4
<1>6. \A m \in Lists : Members(d, m) = Members(p, m)
  BY <1>5 DEF Members
<1>7. Lined(d)
  <2>1. /\ d.usage \in [Block -> Int] /\ d.list \in [Lists -> Seq(Block)]
        /\ d.target \in 0 .. InitSize /\ d.size \in Sizes
    BY <1>3, <1>5 DEF Lined, IsCache
  <2>2. IsCache(d)
    BY <1>4, <1>5, <2>1 DEF IsCache
  <2> QED BY <1>3, <1>5, <1>6, <2>2 DEF Lined
<1>8. Listed(d) = Listed(r) \cup {b}
  <2>1. \A m \in Lists : Members(d, m) \subseteq Listed(r) \cup {b}
    BY <1>3, <1>6 DEF Listed
  <2>2. \A m \in Lists : Members(r, m) \subseteq Members(d, m)
    BY <1>3, <1>6
  <2>3. b \in Members(d, l)
    BY <1>2, <1>3, <1>6
  <2> QED BY <1>2, <2>1, <2>2, <2>3 DEF Listed
<1>9. InStep(d, {})
  BY <1>3, <1>5, <1>7, <1>8 DEF InStep
<1>10. InMemory(d) = InMemory(r) \cup {b}
  <2>1. \A m \in {"t1", "t2"} : Members(d, m) =
            IF m = l THEN Members(r, l) \cup {b} ELSE Members(r, m)
    BY <1>3, <1>6 DEF Lists, Data
  <2> QED BY <2>1 DEF InMemory
<1> QED BY <1>0, <1>3, <1>5, <1>9, <1>10

\* A block that is found has one user more, and is in t2.
LEMMA HitInStep ==
    ASSUME NEW c, InStep(c, {}), NEW b \in Block, b \in InMemory(c)
    PROVE  /\ InStep(Hit(c, b), {})
           /\ Hit(c, b).usage = [c.usage EXCEPT ![b] = @ + 1]
           /\ InMemory(Hit(c, b)) = InMemory(c)
<1>1. b \in Listed(c)
  BY InMemoryIsListed
<1>2. PICK out : out = TakeOut(c, Where(c, b), b)
  OBVIOUS
<1>3. /\ InStep(out, {b}) /\ out.usage = c.usage
      /\ InMemory(out) = InMemory(c) \ {b}
      /\ Listed(out) = Listed(c) \ {b}
  BY <1>1, <1>2, TakeOutInStep
<1>4. PICK n \in Int : n = out.usage[b] + 1
  BY <1>3 DEF InStep, Lined, IsCache
<1>5. PICK p : p = PutFirst(out, "t2", b)
  OBVIOUS
<1>6. Lined(p) /\ p.hash = out.hash /\ p.usage = out.usage
  <2>1. "t2" \in Lists /\ b \notin Listed(out) /\ Lined(out)
    BY <1>3 DEF Lists, Data, InStep
  <2> QED BY <1>5, <2>1, PutFirstLists
<1>7. p.hash \cup {b} = p.hash
  BY <1>3, <1>6 DEF InStep
<1>8. Hit(c, b) = Enter(out, "t2", b, n)
  <2>1. Hit(c, b) = [p EXCEPT !.usage[b] = @ + 1]
    BY <1>2, <1>5 DEF Hit
  <2>2. p = [list |-> p.list, hash |-> p.hash, usage |-> p.usage,
             target |-> p.target, size |-> p.size]
    BY <1>6 DEF Lined, IsCache
  <2>3. n = p.usage[b] + 1
    BY <1>4, <1>6
  <2>4. [p EXCEPT !.usage[b] = @ + 1] = [p EXCEPT !.hash = @ \cup {b}, !.usage[b] = n]
    BY <1>7, <2>2, <2>3
  <2> QED BY <1>5, <2>1, <2>4 DEF Enter
<1>9. PICK d : d = Hit(c, b)
  OBVIOUS
<1>10. /\ InStep(d, {}) /\ d.usage = [out.usage EXCEPT ![b] = n]
       /\ InMemory(d) = InMemory(out) \cup {b}
  <2>1. d = Enter(out, "t2", b, n)
    BY <1>8, <1>9
  <2>2. {b} \subseteq {b} /\ b \notin Listed(out)
    BY <1>3
  <2> QED BY <1>3, <2>1, <2>2, EnterInStep
<1> QED BY <1>3, <1>4, <1>9, <1>10

\* The target that a hit on a remembered block sets.
Moved(c, l) ==
    IF l = "b1"
    THEN Least(c.target + Greatest(Bytes(c, "b2") \div Bytes(c, "b1"), 1), c.size)
    ELSE Greatest(c.target - Greatest(Bytes(c, "b1") \div Bytes(c, "b2"), 1), 0)

\* It is a number of bytes: the list that is divided by has the block.
LEMMA MovedTarget ==
    ASSUME NEW c, InStep(c, {}), NEW b \in Listed(c), b \notin InMemory(c)
    PROVE  Moved(c, Where(c, b)) \in 0 .. InitSize
<1>1. PICK l \in Lists : l = Where(c, b) /\ b \in Members(c, l)
  BY WhereType
<1>2. l \in {"b1", "b2"}
  BY <1>1 DEF InMemory, Lists, Data, Ghosts
<1>0. InitSize \in Nat /\ c.size \in 0 .. InitSize
  BY InitSizeType DEF InStep, Lined, IsCache
<1>3. c.target \in 0 .. InitSize /\ c.size \in Sizes /\ c.list \in [Lists -> Seq(Block)]
  BY DEF InStep, Lined, IsCache
<1>4. PICK n1, n2 : n1 = Bytes(c, "b1") /\ n2 = Bytes(c, "b2")
  OBVIOUS
<1>5. "b1" \in Lists /\ "b2" \in Lists
  BY DEF Lists, Ghosts
<1>6. n1 \in Nat /\ n2 \in Nat
  BY <1>3, <1>4, <1>5, BytesType
<1>7. /\ l = "b1" => n1 > 0
      /\ l = "b2" => n2 > 0
  BY <1>1, <1>3, <1>4, <1>5, BytesType
<1>8. CASE l = "b1"
  <2>1. Moved(c, l) = Least(c.target + Greatest(n2 \div n1, 1), c.size)
    BY <1>4, <1>8 DEF Moved
  <2>2. n2 \div n1 \in Int
    BY <1>6, <1>7, <1>8
  <2> QED BY <1>0, <1>1, <1>3, <2>1, <2>2 DEF Least, Greatest
<1>9. CASE l = "b2"
  <2>1. Moved(c, l) = Greatest(c.target - Greatest(n1 \div n2, 1), 0)
    BY <1>4, <1>9 DEF Moved
  <2>2. n1 \div n2 \in Int
    BY <1>6, <1>7, <1>9
  <2> QED BY <1>0, <1>1, <1>3, <2>1, <2>2 DEF Greatest
<1> QED BY <1>2, <1>8, <1>9

\* A block that was remembered is asked for: room is made while it is in no
\* list, and then the hash forgets it.
LEMMA GhostHitInStep ==
    ASSUME NEW c, InStep(c, {}), NEW b \in Block, b \in c.hash,
           b \notin InMemory(c)
    PROVE  /\ InStep(GhostHit(c, b), {}) /\ b \notin Listed(GhostHit(c, b))
           /\ MakesRoomFrom(c, GhostHit(c, b)) /\ Gives(c, GhostHit(c, b))
<1>1. b \in Listed(c)
  BY DEF InStep
<1>2. PICK out : out = TakeOut(c, Where(c, b), b)
  OBVIOUS
<1>3. /\ InStep(out, {b}) /\ out.usage = c.usage
      /\ InMemory(out) = InMemory(c) \ {b}
      /\ Listed(out) = Listed(c) \ {b}
  BY <1>1, <1>2, TakeOutInStep
<1>4. PICK moved \in 0 .. InitSize : GhostHit(c, b) =
          [Replace([out EXCEPT !.target = moved]) EXCEPT !.hash = @ \ {b}]
  BY <1>1, <1>2, MovedTarget DEF GhostHit, Moved
<1>5. PICK o : o = [out EXCEPT !.target = moved]
  OBVIOUS
<1>6. /\ o = [list |-> out.list, hash |-> out.hash, usage |-> out.usage,
              target |-> moved, size |-> out.size]
  BY <1>3, <1>5 DEF InStep, Lined, IsCache
<1>7. /\ o.list = out.list /\ o.hash = out.hash /\ o.usage = out.usage
      /\ o.target = moved /\ o.size = out.size
  BY <1>6
<1>8. \A m \in Lists : Members(o, m) = Members(out, m)
  BY <1>7, SameLists
<1>9. Listed(o) = Listed(out) /\ InMemory(o) = InMemory(out)
  BY <1>7, SameLists
<1>10. InStep(o, {b})
  <2>1. IsCache(o)
    BY <1>3, <1>6, <1>7 DEF InStep, Lined, IsCache
  <2> QED BY <1>3, <1>7, <1>8, <1>9, <2>1 DEF InStep, Lined
<1>11. PICK r : r = Replace(o)
  OBVIOUS
<1>12. InStep(r, {b}) /\ MakesRoomFrom(o, r) /\ Gives(o, r)
  BY <1>10, <1>11, ReplaceInStep
<1>13. PICK d : d = [r EXCEPT !.hash = @ \ {b}]
  OBVIOUS
<1>14. d = [list |-> r.list, hash |-> r.hash \ {b}, usage |-> r.usage,
            target |-> r.target, size |-> r.size]
  BY <1>12, <1>13 DEF InStep, Lined, IsCache
<1>15. /\ d.list = r.list /\ d.hash = r.hash \ {b} /\ d.usage = r.usage
       /\ d.target = r.target /\ d.size = r.size
  BY <1>14
<1>16. \A m \in Lists : Members(d, m) = Members(r, m)
  BY <1>15, SameLists
<1>17. Listed(d) = Listed(r) /\ InMemory(d) = InMemory(r)
  BY <1>15, SameLists
<1>18. InStep(d, {}) /\ b \notin Listed(d)
  <2>1. IsCache(d)
    BY <1>12, <1>14, <1>15 DEF InStep, Lined, IsCache
  <2>2. Lined(d)
    BY <1>12, <1>15, <1>16, <2>1 DEF InStep, Lined
  <2> QED BY <1>12, <1>15, <1>17, <2>2 DEF InStep
<1>19. MakesRoomFrom(c, d)
  BY <1>3, <1>7, <1>9, <1>12, <1>15, <1>17 DEF MakesRoomFrom
<1>20. Gives(c, d)
  BY <1>3, <1>7, <1>9, <1>12, <1>17 DEF Gives
<1> QED BY <1>4, <1>5, <1>11, <1>13, <1>18, <1>19, <1>20

\* A block that is not in memory is inserted, with one user.
LEMMA FetchInStep ==
    ASSUME NEW c, InStep(c, {}), NEW b \in Block, b \notin InMemory(c)
    PROVE  /\ InStep(Fetch(c, b), {})
           /\ Fetch(c, b).usage = [c.usage EXCEPT ![b] = 1]
           /\ b \in InMemory(Fetch(c, b))
           /\ InMemory(Fetch(c, b)) \ {b} \subseteq InMemory(c)
           /\ \A x \in InMemory(c) \ InMemory(Fetch(c, b)) : c.usage[x] = 0
           /\ Full(c) => Gives(c, Fetch(c, b))
<1>1. PICK room : room = IF b \in c.hash THEN GhostHit(c, b) ELSE MakeRoom(c)
  OBVIOUS
<1>2. PICK l \in {"t1", "t2"} : l = IF b \in c.hash THEN "t2" ELSE "t1"
  OBVIOUS
<1>3. Fetch(c, b) = Enter(room, l, b, 1)
  BY <1>1, <1>2 DEF Fetch, Enter
<1>4. /\ InStep(room, {}) /\ b \notin Listed(room) /\ MakesRoomFrom(c, room)
      /\ Full(c) => Gives(c, room)
  <2>1. CASE b \in c.hash
    BY <1>1, <2>1, GhostHitInStep
  <2>2. CASE b \notin c.hash
    <3>1. /\ InStep(room, {}) /\ MakesRoomFrom(c, room)
          /\ Full(c) => Gives(c, room)
      BY <1>1, <2>2, MakeRoomInStep
    <3> QED BY <2>2, <3>1 DEF MakesRoomFrom, InStep
  <2> QED BY <2>1, <2>2
<1>5. /\ InStep(Fetch(c, b), {})
      /\ Fetch(c, b).usage = [room.usage EXCEPT ![b] = 1]
      /\ InMemory(Fetch(c, b)) = InMemory(room) \cup {b}
  BY <1>3, <1>4, EnterInStep
<1>6. Full(c) => Gives(c, Fetch(c, b))
  BY <1>4, <1>5 DEF Gives
<1> QED BY <1>4, <1>5, <1>6 DEF MakesRoomFrom

\* A block is taken away, in memory or not.
LEMMA FlushInStep ==
    ASSUME NEW c, InStep(c, {}), NEW b \in Block,
           b \in InMemory(c) \/ c.usage[b] = 0
    PROVE  /\ InStep(Flush(c, b), {})
           /\ Flush(c, b).usage = [c.usage EXCEPT ![b] = 0]
           /\ InMemory(Flush(c, b)) = InMemory(c) \ {b}
<1>1. c.usage \in [Block -> Int] /\ c.hash = Listed(c)
  BY DEF InStep, Lined, IsCache
<1>2. CASE b \notin c.hash
  <2>1. Flush(c, b) = c
    BY <1>2 DEF Flush
  <2>2. b \notin InMemory(c)
    BY <1>1, <1>2, InMemoryIsListed
  <2>3. c.usage = [c.usage EXCEPT ![b] = 0]
    BY <1>1, <2>2
  <2> QED BY <2>1, <2>2, <2>3
<1>3. CASE b \in c.hash
  <2>1. PICK out : out = TakeOut(c, Where(c, b), b)
    OBVIOUS
  <2>2. /\ InStep(out, {b}) /\ out.usage = c.usage
        /\ InMemory(out) = InMemory(c) \ {b}
        /\ Listed(out) = Listed(c) \ {b}
    BY <1>1, <1>3, <2>1, TakeOutInStep
  <2>3. PICK d : d = Flush(c, b)
    OBVIOUS
  <2>4. d = [out EXCEPT !.hash = @ \ {b}, !.usage[b] = 0]
    BY <1>3, <2>1, <2>3 DEF Flush
  <2>5. d = [list |-> out.list, hash |-> out.hash \ {b},
             usage |-> [out.usage EXCEPT ![b] = 0],
             target |-> out.target, size |-> out.size]
    <3>1. out = [list |-> out.list, hash |-> out.hash, usage |-> out.usage,
                 target |-> out.target, size |-> out.size]
      BY <2>2 DEF InStep, Lined, IsCache
    <3> QED BY <2>4, <3>1
  <2>6. /\ d.list = out.list /\ d.hash = out.hash \ {b}
        /\ d.usage = [out.usage EXCEPT ![b] = 0]
        /\ d.target = out.target /\ d.size = out.size
    BY <2>5
  <2>7. /\ \A m \in Lists : Members(d, m) = Members(out, m)
        /\ Listed(d) = Listed(out) /\ InMemory(d) = InMemory(out)
    BY <2>6, SameLists
  <2>8. /\ d.usage \in [Block -> Int] /\ d.list \in [Lists -> Seq(Block)]
        /\ d.target \in 0 .. InitSize /\ d.size \in Sizes
    BY <1>1, <2>2, <2>6 DEF InStep, Lined, IsCache
  <2>9. IsCache(d)
    BY <2>5, <2>6, <2>8 DEF IsCache
  <2>10. Lined(d)
    BY <2>2, <2>6, <2>7, <2>9 DEF InStep, Lined
  <2>11. InStep(d, {})
    BY <2>2, <2>6, <2>7, <2>10 DEF InStep
  <2> QED BY <2>2, <2>3, <2>6, <2>7, <2>11
<1> QED BY <1>2, <1>3

-----------------------------------------------------------------------------
(* The invariant *)

CacheInv ==
    /\ InStep(TheCache, {})
    /\ size \in Sizes
    /\ content \in [Block -> {"none", "read", "garbage"}]
    /\ held \in [Block -> 0 .. MaxHeld]
    /\ InUseIsKept
    /\ UnpackedIsRead


LEMMA InitInv == Init => CacheInv
<1> SUFFICES ASSUME Init PROVE CacheInv
  OBVIOUS
<1>1. /\ list = [l \in Lists |-> <<>>] /\ hash = {}
      /\ usage = [b \in Block |-> 0] /\ held = [b \in Block |-> 0]
      /\ target = 0 /\ size = InitSize /\ content = [b \in Block |-> "none"]
  BY DEF Init, EmptyLists
<1>2. PICK c : c = TheCache
  OBVIOUS
<1>3. /\ c.list = list /\ c.hash = hash /\ c.usage = usage
      /\ c.target = target /\ c.size = size
      /\ c = [list |-> list, hash |-> hash, usage |-> usage,
              target |-> target, size |-> size]
  BY <1>2 DEF TheCache
<1>4. \A l \in Lists : c.list[l] = <<>> /\ Members(c, l) = {} /\ Distinct(c.list[l])
  BY <1>1, <1>3 DEF Members, Distinct
<1>5. Listed(c) = {} /\ InMemory(c) = {}
  BY <1>4 DEF Listed, InMemory, Lists, Data
<1>6. IsCache(c)
  <2>1. list \in [Lists -> Seq(Block)]
    BY <1>1, EmptySeq
  <2>2. usage \in [Block -> Int]
    BY <1>1
  <2>3. target \in 0 .. InitSize /\ size \in Sizes
    BY <1>1, InitSizeType, BlockAssumption
  <2> QED BY <1>3, <2>1, <2>2, <2>3 DEF IsCache
<1>7. InStep(c, {})
  BY <1>1, <1>3, <1>4, <1>5, <1>6 DEF InStep, Lined
<1>8. InUseIsKept /\ UnpackedIsRead /\ held \in [Block -> 0 .. MaxHeld]
  BY <1>1, <1>2, <1>5, BlockAssumption DEF InUseIsKept, UnpackedIsRead
<1>9. size \in Sizes /\ content \in [Block -> {"none", "read", "garbage"}]
  BY <1>1, InitSizeType
<1> QED BY <1>2, <1>7, <1>8, <1>9 DEF CacheInv

\* What an action makes of the cache is the cache.
LEMMA BecomesInStep ==
    ASSUME NEW c, InStep(c, {}), NEW b \in Block,
           NEW data \in {"none", "read", "garbage"}, Becomes(c, b, data),
           size \in Sizes, content \in [Block -> {"none", "read", "garbage"}]
    PROVE  /\ InStep(TheCache, {})'
           /\ InMemory(TheCache)' = InMemory(c)
           /\ usage' = c.usage
           /\ size' \in Sizes
           /\ content' \in [Block -> {"none", "read", "garbage"}]
<1>1. PICK a : a = TheCache'
  OBVIOUS
<1>2. /\ a.list = c.list /\ a.hash = c.hash /\ a.usage = c.usage
      /\ usage' = c.usage /\ a.target = c.target /\ a.size = size /\ size' = size
      /\ a = [list |-> a.list, hash |-> a.hash, usage |-> a.usage,
              target |-> a.target, size |-> a.size]
  BY <1>1 DEF TheCache, Becomes
<1>3. /\ \A m \in Lists : Members(a, m) = Members(c, m)
      /\ Listed(a) = Listed(c) /\ InMemory(a) = InMemory(c)
  BY <1>2, SameLists
<1>4. IsCache(a)
  <2>1. size \in Sizes
    OBVIOUS
  <2> QED BY <1>2, <2>1 DEF InStep, Lined, IsCache
<1>5. InStep(a, {})
  BY <1>2, <1>3, <1>4 DEF InStep, Lined
<1>6. content' \in [Block -> {"none", "read", "garbage"}]
  BY DEF Becomes
<1> QED BY <1>1, <1>2, <1>3, <1>5, <1>6

\* Each action, with what it is for the promise.
LEMMA ReadCachedKeeps ==
    ASSUME CacheInv, NEW b \in Block, ReadCached(b)
    PROVE  CacheInv' /\ Promise!Share(b)
<1>1. PICK c : c = TheCache
  OBVIOUS
<1>2. PICK d : d = Hit(c, b)
  OBVIOUS
<1>3. InStep(c, {}) /\ b \in InMemory(c) /\ c.usage = usage
  BY <1>1 DEF CacheInv, ReadCached, TheCache
<1>4. /\ InStep(d, {}) /\ d.usage = [usage EXCEPT ![b] = @ + 1]
      /\ InMemory(d) = InMemory(c)
  BY <1>2, <1>3, HitInStep
<1>5. /\ InStep(TheCache, {})' /\ InMemory(TheCache)' = InMemory(TheCache)
      /\ usage' = [usage EXCEPT ![b] = @ + 1]
      /\ size' \in Sizes /\ content' \in [Block -> {"none", "read", "garbage"}]
  <2>1. Becomes(d, b, content[b])
    BY <1>1, <1>2 DEF ReadCached
  <2>2. /\ size \in Sizes /\ content \in [Block -> {"none", "read", "garbage"}]
        /\ content[b] \in {"none", "read", "garbage"}
    BY DEF CacheInv
  <2> QED BY <1>1, <1>4, <2>1, <2>2, BecomesInStep
<1>6. held' = [held EXCEPT ![b] = @ + 1] /\ held[b] < MaxHeld
  BY DEF ReadCached
<1>7. held \in [Block -> 0 .. MaxHeld] /\ usage \in [Block -> Int]
  BY <1>3 DEF CacheInv, InStep, Lined, IsCache
<1>8. held' \in [Block -> 0 .. MaxHeld]
  BY <1>6, <1>7, BlockAssumption
<1>9. InUseIsKept'
  BY <1>1, <1>3, <1>5, <1>6, <1>7 DEF CacheInv, InUseIsKept
<1>10. UnpackedIsRead'
  <2>1. content' = [x \in Block |-> IF x \notin InMemory(d) THEN "none"
                                    ELSE IF x = b THEN content[b] ELSE content[x]]
    BY <1>1, <1>2 DEF ReadCached, Becomes
  <2> QED BY <1>1, <1>4, <1>5, <2>1, BlockAssumption DEF CacheInv, UnpackedIsRead
<1>11. Promise!Share(b)
  BY <1>1, <1>3, <1>5, <1>6 DEF Promise!Share
<1> QED BY <1>5, <1>8, <1>9, <1>10, <1>11 DEF CacheInv

\* What room is made from is not in use.
LEMMA OutIsUnused ==
    ASSUME CacheInv, NEW out \in SUBSET InMemory(TheCache),
           \A x \in out : usage[x] = 0, out \subseteq Block
    PROVE  out \in SUBSET (InMemory(TheCache) \cap Promise!Unused)
BY DEF CacheInv, InUseIsKept, Promise!Unused

LEMMA InMemoryType ==
    ASSUME NEW c, InStep(c, {})
    PROVE  InMemory(c) \subseteq Block
<1>1. \A l \in {"t1", "t2"} : c.list[l] \in Seq(Block)
  BY DEF InStep, Lined, IsCache, Lists, Data
<1> QED BY <1>1, ElementOfSeq, LenProperties DEF InMemory, Members

\* What the reads that go to the file and the writes have in common: d is the
\* cache without what had to go, and with n users of the block.
LEMMA ChangedKeeps ==
    ASSUME CacheInv, NEW b \in Block,
           NEW d, NEW n \in 0 .. MaxHeld, NEW data \in {"none", "read", "garbage"},
           InStep(d, {}), d.usage = [usage EXCEPT ![b] = n],
           InMemory(d) \ {b} \subseteq InMemory(TheCache),
           n > 0 => b \in InMemory(d),
           \A x \in InMemory(TheCache) \ InMemory(d) : usage[x] = 0,
           b \in Packed /\ b \in InMemory(d) => data = "read",
           Becomes(d, b, data), held' = [held EXCEPT ![b] = n]
    PROVE  /\ CacheInv'
           /\ \E out \in SUBSET (InMemory(TheCache) \cap Promise!Unused) :
                  InMemory(TheCache)' = (InMemory(TheCache) \ out)
                                        \cup (InMemory(d) \cap {b})
<1>1. PICK out : out = InMemory(TheCache) \ InMemory(d)
  OBVIOUS
<1>2. InMemory(TheCache) \subseteq Block /\ InMemory(d) \subseteq Block
  BY InMemoryType DEF CacheInv
<1>3. out \in SUBSET (InMemory(TheCache) \cap Promise!Unused)
  BY <1>1, <1>2, OutIsUnused
<1>4. /\ InStep(TheCache, {})' /\ InMemory(TheCache)' = InMemory(d)
      /\ usage' = [usage EXCEPT ![b] = n]
      /\ size' \in Sizes /\ content' \in [Block -> {"none", "read", "garbage"}]
  BY BecomesInStep DEF CacheInv
<1>5. held \in [Block -> 0 .. MaxHeld] /\ usage \in [Block -> Int]
  <2>1. PICK c : c = TheCache
    OBVIOUS
  <2>2. c.usage = usage /\ InStep(c, {})
    BY <2>1 DEF TheCache, CacheInv
  <2> QED BY <2>2 DEF CacheInv, InStep, Lined, IsCache
<1>6. held' \in [Block -> 0 .. MaxHeld]
  BY <1>5
<1>7. InUseIsKept'
  <2> SUFFICES ASSUME NEW x \in Block
               PROVE  /\ held'[x] > 0 => x \in InMemory(d)
                      /\ usage'[x] = held'[x]
    BY <1>4 DEF InUseIsKept
  <2>1. CASE x = b
    BY <1>4, <1>5, <2>1
  <2>2. CASE x # b
    <3>1. /\ held'[x] = held[x] /\ usage'[x] = usage[x]
          /\ held[x] > 0 => x \in InMemory(TheCache)
          /\ usage[x] = held[x]
      BY <1>4, <1>5, <2>2 DEF CacheInv, InUseIsKept
    <3>2. held[x] > 0 => x \notin out
      BY <1>1, <1>5, <3>1
    <3> QED BY <1>1, <3>1, <3>2
  <2> QED BY <2>1, <2>2
<1>8. UnpackedIsRead'
  <2>1. content' = [x \in Block |-> IF x \notin InMemory(d) THEN "none"
                                    ELSE IF x = b THEN data ELSE content[x]]
    BY DEF Becomes
  <2> SUFFICES ASSUME NEW x \in Packed, x \in InMemory(d)
               PROVE  content'[x] = "read"
    BY <1>4 DEF UnpackedIsRead
  <2>2. x \in Block /\ content'[x] = IF x = b THEN data ELSE content[x]
    BY <2>1, BlockAssumption
  <2>3. CASE x = b
    BY <2>2, <2>3
  <2>4. CASE x # b
    BY <2>2, <2>4 DEF CacheInv, UnpackedIsRead
  <2> QED BY <2>3, <2>4
<1>9. InMemory(TheCache)' = (InMemory(TheCache) \ out) \cup (InMemory(d) \cap {b})
  BY <1>1, <1>4
<1> QED BY <1>3, <1>4, <1>6, <1>7, <1>8, <1>9 DEF CacheInv

\* Facts about the cache as the actions find it.
LEMMA CacheFacts ==
    ASSUME CacheInv
    PROVE  \E c : /\ c = TheCache /\ InStep(c, {})
                  /\ c.usage = usage /\ usage \in [Block -> Int]
                  /\ \A b \in Block : b \notin InMemory(c) => held[b] = 0
                  /\ \A b \in Block : usage[b] = held[b]
<1>1. PICK c : c = TheCache
  OBVIOUS
<1>2. c.usage = usage /\ InStep(c, {})
  BY <1>1 DEF TheCache, CacheInv
<1>3. usage \in [Block -> Int]
  BY <1>2 DEF InStep, Lined, IsCache
<1>4. \A b \in Block : held[b] \in 0 .. MaxHeld
  BY DEF CacheInv
<1>5. \A b \in Block : b \notin InMemory(c) => held[b] = 0
  BY <1>1, <1>4, BlockAssumption DEF CacheInv, InUseIsKept
<1> QED BY <1>1, <1>2, <1>3, <1>5 DEF CacheInv, InUseIsKept

LEMMA ReadFileKeeps ==
    ASSUME CacheInv, NEW b \in Block, ReadFile(b)
    PROVE  CacheInv' /\ Promise!Load(b)
<1>1. PICK c : /\ c = TheCache /\ InStep(c, {}) /\ c.usage = usage
  BY CacheFacts
<1>2. b \notin InMemory(c)
  BY <1>1 DEF ReadFile
<1>3. PICK d : d = Fetch(c, b)
  OBVIOUS
<1>4. /\ InStep(d, {}) /\ d.usage = [usage EXCEPT ![b] = 1]
      /\ b \in InMemory(d) /\ InMemory(d) \ {b} \subseteq InMemory(c)
      /\ \A x \in InMemory(c) \ InMemory(d) : usage[x] = 0
  BY <1>1, <1>2, <1>3, FetchInStep
<1>5. Becomes(d, b, "read") /\ held' = [held EXCEPT ![b] = 1]
  BY <1>1, <1>3 DEF ReadFile
<1>6. 1 \in 0 .. MaxHeld
  BY BlockAssumption
<1>7. /\ CacheInv'
      /\ \E out \in SUBSET (InMemory(TheCache) \cap Promise!Unused) :
             InMemory(TheCache)' = (InMemory(TheCache) \ out)
                                   \cup (InMemory(d) \cap {b})
  BY <1>1, <1>4, <1>5, <1>6, ChangedKeeps
<1>8. InMemory(d) \cap {b} = {b}
  BY <1>4
<1> QED BY <1>1, <1>2, <1>5, <1>7, <1>8 DEF Promise!Load

LEMMA ReadFailsKeeps ==
    ASSUME CacheInv, NEW b \in Block, ReadFails(b)
    PROVE  CacheInv' /\ Promise!Fail(b)
<1>1. PICK c : /\ c = TheCache /\ InStep(c, {})
               /\ c.usage = usage /\ usage \in [Block -> Int]
               /\ b \notin InMemory(c) => held[b] = 0
  BY CacheFacts
<1>2. b \notin InMemory(c) /\ b \notin Packed /\ held[b] = 0
  BY <1>1 DEF ReadFails
<1>3. PICK f : f = Fetch(c, b)
  OBVIOUS
<1>4. /\ InStep(f, {}) /\ f.usage = [usage EXCEPT ![b] = 1]
      /\ b \in InMemory(f) /\ InMemory(f) \ {b} \subseteq InMemory(c)
      /\ \A x \in InMemory(c) \ InMemory(f) : usage[x] = 0
  BY <1>1, <1>2, <1>3, FetchInStep
<1>5. PICK d : d = [f EXCEPT !.usage[b] = @ - 1]
  OBVIOUS
<1>6. d = [list |-> f.list, hash |-> f.hash,
           usage |-> [usage EXCEPT ![b] = 0],
           target |-> f.target, size |-> f.size]
  <2>1. f = [list |-> f.list, hash |-> f.hash, usage |-> f.usage,
             target |-> f.target, size |-> f.size]
    BY <1>4 DEF InStep, Lined, IsCache
  <2>2. [f.usage EXCEPT ![b] = @ - 1] = [usage EXCEPT ![b] = 0]
    BY <1>1, <1>4
  <2>3. d = [list |-> f.list, hash |-> f.hash,
             usage |-> [f.usage EXCEPT ![b] = @ - 1],
             target |-> f.target, size |-> f.size]
    BY <1>5, <2>1
  <2> QED BY <2>2, <2>3
<1>7. /\ d.list = f.list /\ d.hash = f.hash
      /\ d.usage = [usage EXCEPT ![b] = 0]
      /\ d.target = f.target /\ d.size = f.size
  BY <1>6
<1>8. /\ \A m \in Lists : Members(d, m) = Members(f, m)
      /\ Listed(d) = Listed(f) /\ InMemory(d) = InMemory(f)
  BY <1>7, SameLists
<1>9. InStep(d, {})
  <2>1. d.usage \in [Block -> Int]
    BY <1>1, <1>7
  <2>2. IsCache(d)
    BY <1>4, <1>6, <1>7, <2>1 DEF InStep, Lined, IsCache
  <2> QED BY <1>4, <1>7, <1>8, <2>2 DEF InStep, Lined
<1>10. Becomes(d, b, "garbage") /\ held' = [held EXCEPT ![b] = 0]
  <2>1. held = [held EXCEPT ![b] = 0]
    BY <1>2 DEF CacheInv
  <2> QED BY <1>1, <1>3, <1>5, <2>1 DEF ReadFails
<1>11. 0 \in 0 .. MaxHeld
  BY BlockAssumption
<1>12. /\ CacheInv'
       /\ \E out \in SUBSET (InMemory(TheCache) \cap Promise!Unused) :
              InMemory(TheCache)' = (InMemory(TheCache) \ out)
                                    \cup (InMemory(d) \cap {b})
  BY <1>1, <1>2, <1>4, <1>7, <1>8, <1>9, <1>10, <1>11, ChangedKeeps
<1>13. InMemory(d) \cap {b} \in SUBSET {b} /\ UNCHANGED held
  BY DEF ReadFails
<1> QED BY <1>1, <1>2, <1>12, <1>13 DEF Promise!Fail

LEMMA UnpackFailsKeeps ==
    ASSUME CacheInv, NEW b \in Block, UnpackFails(b)
    PROVE  CacheInv' /\ Promise!Fail(b)
<1>1. PICK c : /\ c = TheCache /\ InStep(c, {})
               /\ c.usage = usage /\ usage \in [Block -> Int]
               /\ b \notin InMemory(c) => held[b] = 0
  BY CacheFacts
<1>2. b \notin InMemory(c) /\ held[b] = 0
  BY <1>1 DEF UnpackFails
<1>3. PICK f : f = Fetch(c, b)
  OBVIOUS
<1>4. /\ InStep(f, {}) /\ f.usage = [usage EXCEPT ![b] = 1]
      /\ b \in InMemory(f) /\ InMemory(f) \ {b} \subseteq InMemory(c)
      /\ \A x \in InMemory(c) \ InMemory(f) : usage[x] = 0
  BY <1>1, <1>2, <1>3, FetchInStep
<1>5. PICK d : d = Flush(f, b)
  OBVIOUS
<1>6. /\ InStep(d, {}) /\ d.usage = [usage EXCEPT ![b] = 0]
      /\ InMemory(d) = InMemory(f) \ {b}
  <2>1. /\ InStep(d, {}) /\ d.usage = [f.usage EXCEPT ![b] = 0]
        /\ InMemory(d) = InMemory(f) \ {b}
    BY <1>4, <1>5, FlushInStep
  <2>2. [f.usage EXCEPT ![b] = 0] = [usage EXCEPT ![b] = 0]
    BY <1>1, <1>4
  <2> QED BY <2>1, <2>2
<1>7. Becomes(d, b, "none") /\ held' = [held EXCEPT ![b] = 0]
  <2>1. held = [held EXCEPT ![b] = 0]
    BY <1>2 DEF CacheInv
  <2> QED BY <1>1, <1>3, <1>5, <2>1 DEF UnpackFails
<1>8. 0 \in 0 .. MaxHeld
  BY BlockAssumption
<1>9. /\ \A x \in InMemory(TheCache) \ InMemory(d) : usage[x] = 0
      /\ InMemory(d) \ {b} \subseteq InMemory(TheCache)
      /\ 0 > 0 => b \in InMemory(d)
      /\ b \in Packed /\ b \in InMemory(d) => "none" = "read"
  BY <1>1, <1>2, <1>4, <1>6
<1>10. /\ CacheInv'
       /\ \E out \in SUBSET (InMemory(TheCache) \cap Promise!Unused) :
              InMemory(TheCache)' = (InMemory(TheCache) \ out)
                                    \cup (InMemory(d) \cap {b})
  BY <1>6, <1>7, <1>8, <1>9, ChangedKeeps
<1>11. InMemory(d) \cap {b} \in SUBSET {b} /\ UNCHANGED held
  BY DEF UnpackFails
<1> QED BY <1>1, <1>2, <1>10, <1>11 DEF Promise!Fail

LEMMA FileDataWriteKeeps ==
    ASSUME CacheInv, NEW b \in Block, FileDataWrite(b)
    PROVE  CacheInv' /\ Promise!Drop
<1>1. PICK c : /\ c = TheCache /\ InStep(c, {})
               /\ c.usage = usage /\ usage \in [Block -> Int]
               /\ usage[b] = held[b]
  BY CacheFacts
<1>2. usage[b] = 0 /\ held[b] = 0
  BY <1>1 DEF FileDataWrite
<1>3. PICK d : d = Flush(c, b)
  OBVIOUS
<1>4. /\ InStep(d, {}) /\ d.usage = [usage EXCEPT ![b] = 0]
      /\ InMemory(d) = InMemory(c) \ {b}
  BY <1>1, <1>2, <1>3, FlushInStep
<1>5. Becomes(d, b, "none") /\ held' = [held EXCEPT ![b] = 0]
  <2>1. held = [held EXCEPT ![b] = 0]
    BY <1>2 DEF CacheInv
  <2> QED BY <1>1, <1>3, <2>1 DEF FileDataWrite
<1>6. 0 \in 0 .. MaxHeld
  BY BlockAssumption
<1>7. /\ \A x \in InMemory(TheCache) \ InMemory(d) : usage[x] = 0
      /\ InMemory(d) \ {b} \subseteq InMemory(TheCache) /\ b \notin InMemory(d)
      /\ 0 > 0 => b \in InMemory(d)
      /\ b \in Packed /\ b \in InMemory(d) => "none" = "read"
  BY <1>1, <1>2, <1>4
<1>8. /\ CacheInv'
      /\ \E out \in SUBSET (InMemory(TheCache) \cap Promise!Unused) :
             InMemory(TheCache)' = (InMemory(TheCache) \ out)
                                   \cup (InMemory(d) \cap {b})
  BY <1>4, <1>5, <1>6, <1>7, ChangedKeeps
<1>9. InMemory(d) \cap {b} = {}
  BY <1>7
<1> QED BY <1>8, <1>9 DEF Promise!Drop, FileDataWrite

LEMMA FileDataFreeKeeps ==
    ASSUME CacheInv, NEW b \in Block, FileDataFree(b)
    PROVE  CacheInv' /\ Promise!Release(b)
<1>1. PICK c : /\ c = TheCache /\ InStep(c, {})
               /\ c.usage = usage /\ usage \in [Block -> Int]
  BY CacheFacts
<1>2. /\ held[b] > 0 /\ usage' = [usage EXCEPT ![b] = @ - 1]
      /\ held' = [held EXCEPT ![b] = @ - 1]
      /\ UNCHANGED <<list, hash, target, size, content>>
  BY DEF FileDataFree
<1>3. PICK d : d = TheCache'
  OBVIOUS
<1>4. /\ d.list = c.list /\ d.hash = c.hash /\ d.usage = usage'
      /\ d.target = c.target /\ d.size = c.size
      /\ d = [list |-> d.list, hash |-> d.hash, usage |-> d.usage,
              target |-> d.target, size |-> d.size]
  BY <1>1, <1>2, <1>3 DEF TheCache
<1>5. /\ \A m \in Lists : Members(d, m) = Members(c, m)
      /\ Listed(d) = Listed(c) /\ InMemory(d) = InMemory(c)
  BY <1>4, SameLists
<1>6. InStep(d, {})
  <2>1. d.usage \in [Block -> Int]
    BY <1>1, <1>2, <1>4
  <2>2. IsCache(d)
    BY <1>1, <1>4, <2>1 DEF InStep, Lined, IsCache
  <2> QED BY <1>1, <1>4, <1>5, <2>2 DEF InStep, Lined
<1>7. held \in [Block -> 0 .. MaxHeld]
  BY DEF CacheInv
<1>8. held' \in [Block -> 0 .. MaxHeld]
  BY <1>2, <1>7, BlockAssumption
<1>9. InMemory(TheCache)' = InMemory(TheCache)
  BY <1>1, <1>3, <1>5
<1>10. InUseIsKept'
  BY <1>1, <1>2, <1>7, <1>9 DEF CacheInv, InUseIsKept
<1>11. UnpackedIsRead'
  BY <1>2, <1>9 DEF CacheInv, UnpackedIsRead
<1> QED BY <1>2, <1>3, <1>6, <1>8, <1>9, <1>10, <1>11 DEF CacheInv, Promise!Release

\* A size is set, and all else stays.
LEMMA SetSizeKeeps ==
    ASSUME CacheInv, UNCHANGED <<list, hash, usage, target, content, held>>,
           size' \in Sizes
    PROVE  CacheInv' /\ UNCHANGED Promise!vars
<1>1. PICK c : c = TheCache /\ InStep(c, {})
  BY CacheFacts
<1>2. PICK d : d = TheCache'
  OBVIOUS
<1>3. /\ d.list = c.list /\ d.hash = c.hash /\ d.usage = c.usage
      /\ d.target = c.target /\ d.size = size'
      /\ d = [list |-> d.list, hash |-> d.hash, usage |-> d.usage,
              target |-> d.target, size |-> d.size]
  BY <1>1, <1>2 DEF TheCache
<1>4. /\ \A m \in Lists : Members(d, m) = Members(c, m)
      /\ Listed(d) = Listed(c) /\ InMemory(d) = InMemory(c)
  BY <1>3, SameLists
<1>5. IsCache(d)
  <2>1. size' \in Sizes
    BY <1>2
  <2> QED BY <1>1, <1>3, <2>1 DEF InStep, Lined, IsCache
<1>6. InStep(d, {})
  BY <1>1, <1>3, <1>4, <1>5 DEF InStep, Lined
<1>7. InMemory(TheCache)' = InMemory(TheCache)
  BY <1>1, <1>2, <1>4
<1> QED BY <1>2, <1>6, <1>7 DEF CacheInv, InUseIsKept, UnpackedIsRead, Promise!vars

LEMMA FileDeinitKeeps ==
    ASSUME CacheInv, FileDeinit
    PROVE  CacheInv' /\ Promise!Drop
<1>1. /\ list' = [l \in Lists |-> <<>>] /\ hash' = {}
      /\ usage' = [b \in Block |-> 0] /\ held' = held
      /\ \A b \in Block : held[b] = 0
      /\ target' = 0 /\ size' = InitSize /\ content' = [b \in Block |-> "none"]
  BY DEF FileDeinit, EmptyLists
<1>2. PICK c : c = TheCache'
  OBVIOUS
<1>3. /\ c.list = list' /\ c.hash = hash' /\ c.usage = usage'
      /\ c.target = target' /\ c.size = size'
      /\ c = [list |-> c.list, hash |-> c.hash, usage |-> c.usage,
              target |-> c.target, size |-> c.size]
  BY <1>2 DEF TheCache
<1>4. \A l \in Lists : c.list[l] = <<>> /\ Members(c, l) = {} /\ Distinct(c.list[l])
  BY <1>1, <1>3 DEF Members, Distinct
<1>5. Listed(c) = {} /\ InMemory(c) = {}
  BY <1>4 DEF Listed, InMemory, Lists, Data
<1>6. IsCache(c)
  <2>1. c.list \in [Lists -> Seq(Block)]
    BY <1>1, <1>3, EmptySeq
  <2>2. c.usage \in [Block -> Int]
    BY <1>1, <1>3
  <2>3. c.target \in 0 .. InitSize /\ c.size \in Sizes
    BY <1>1, <1>3, InitSizeType, BlockAssumption
  <2> QED BY <1>3, <2>1, <2>2, <2>3 DEF IsCache
<1>7. InStep(c, {})
  BY <1>1, <1>3, <1>4, <1>5, <1>6 DEF InStep, Lined
<1>8. InMemory(TheCache)' = {}
  BY <1>2, <1>5
<1>9. InUseIsKept' /\ UnpackedIsRead'
  BY <1>1, <1>8 DEF InUseIsKept, UnpackedIsRead
<1>10. InMemory(TheCache) \in SUBSET (InMemory(TheCache) \cap Promise!Unused)
  BY <1>1, InMemoryType DEF CacheInv, Promise!Unused
<1>11. Promise!Drop
  <2>1. InMemory(TheCache)' = InMemory(TheCache) \ InMemory(TheCache)
    BY <1>8
  <2> QED BY <1>1, <1>10, <2>1 DEF Promise!Drop
<1>12. size' \in Sizes /\ content' \in [Block -> {"none", "read", "garbage"}]
  BY <1>1, InitSizeType
<1> QED BY <1>1, <1>2, <1>7, <1>9, <1>11, <1>12 DEF CacheInv

LEMMA NextKeeps ==
    ASSUME CacheInv, [Next]_vars
    PROVE  CacheInv' /\ [Promise!Next]_(Promise!vars)
<1>1. ASSUME NEW b \in Block, ReadCached(b)
      PROVE  CacheInv' /\ Promise!Next
  BY <1>1, ReadCachedKeeps DEF Promise!Next
<1>2. ASSUME NEW b \in Block, ReadFile(b)
      PROVE  CacheInv' /\ Promise!Next
  BY <1>2, ReadFileKeeps DEF Promise!Next
<1>3. ASSUME NEW b \in Block, ReadFails(b) \/ UnpackFails(b)
      PROVE  CacheInv' /\ Promise!Next
  BY <1>3, ReadFailsKeeps, UnpackFailsKeeps DEF Promise!Next
<1>4. ASSUME NEW b \in Block, FileDataFree(b)
      PROVE  CacheInv' /\ Promise!Next
  BY <1>4, FileDataFreeKeeps DEF Promise!Next
<1>5. ASSUME NEW b \in Block, FileDataWrite(b)
      PROVE  CacheInv' /\ Promise!Next
  BY <1>5, FileDataWriteKeeps DEF Promise!Next
<1>6. ASSUME NEW n \in Sizes, FileSetCacheSize(n)
      PROVE  CacheInv' /\ UNCHANGED Promise!vars
  BY <1>6, SetSizeKeeps DEF FileSetCacheSize
<1>7. CASE FileDeinit
  BY <1>7, FileDeinitKeeps DEF Promise!Next
<1>8. CASE UNCHANGED vars
  BY <1>8, SetSizeKeeps DEF vars, CacheInv
<1> QED BY <1>1, <1>2, <1>3, <1>4, <1>5, <1>6, <1>7, <1>8 DEF Next

LEMMA InvariantHolds == Spec => []CacheInv
<1> QED BY InitInv, NextKeeps, PTL DEF Spec

-----------------------------------------------------------------------------
(* A full cache *)

\* What MakesRoom says of a step.
RoomStep ==
    \A b \in Block :
        ( /\ b \in InMemory(TheCache)' \ InMemory(TheCache)
          /\ Bytes(TheCache, "t1") < size
          /\ Bytes(TheCache, "t1") + Bytes(TheCache, "t2") >= size
          /\ \E x \in InMemory(TheCache) : held[x] = 0 )
        => ~(InMemory(TheCache) \subseteq InMemory(TheCache)')

\* A read that goes to the file makes room.
LEMMA FetchGives ==
    ASSUME CacheInv, NEW b \in Block, b \notin InMemory(TheCache),
           NEW d, NEW data, Becomes(d, b, data),
           d.list = Fetch(TheCache, b).list
    PROVE  RoomStep
<1>1. PICK c : c = TheCache /\ InStep(c, {}) /\ c.usage = usage
  BY CacheFacts
<1>2. c.size = size
  BY <1>1 DEF TheCache
<1>3. PICK f : f = Fetch(c, b)
  OBVIOUS
<1>4. Full(c) => Gives(c, f)
  BY <1>1, <1>3, FetchInStep
<1>5. InMemory(TheCache)' = InMemory(f)
  <2>1. PICK a : a = TheCache'
    OBVIOUS
  <2>2. a.list = f.list
    BY <1>1, <1>3, <2>1 DEF TheCache, Becomes
  <2>3. InMemory(a) = InMemory(f)
    BY <2>2, SameLists
  <2> QED BY <2>1, <2>3
<1>6. SUFFICES ASSUME Full(c), NEW x \in InMemory(c), held[x] = 0
               PROVE  ~(InMemory(c) \subseteq InMemory(f))
  BY <1>1, <1>2, <1>5 DEF RoomStep, Full
<1>7. c.usage[x] = 0
  <2>1. x \in Block
    BY <1>1, InMemoryType
  <2> QED BY <1>1, <1>6, <2>1 DEF CacheInv, InUseIsKept
<1> QED BY <1>4, <1>6, <1>7 DEF Gives

\* Everything else brings no block in.
LEMMA NoneComes ==
    ASSUME InMemory(TheCache)' \subseteq InMemory(TheCache)
    PROVE  RoomStep
BY DEF RoomStep

LEMMA RoomKept ==
    ASSUME CacheInv, [Next]_vars
    PROVE  RoomStep
<1>1. ASSUME NEW b \in Block, ReadCached(b) PROVE RoomStep
  BY <1>1, ReadCachedKeeps, NoneComes DEF Promise!Share
<1>2. ASSUME NEW b \in Block, ReadFile(b) PROVE RoomStep
  <2>1. b \notin InMemory(TheCache) /\ Becomes(Fetch(TheCache, b), b, "read")
    BY <1>2 DEF ReadFile
  <2> QED BY <2>1, FetchGives
<1>3. ASSUME NEW b \in Block, ReadFails(b) PROVE RoomStep
  <2>1. PICK f : f = Fetch(TheCache, b)
    OBVIOUS
  <2>2. PICK d : d = [f EXCEPT !.usage[b] = @ - 1]
    OBVIOUS
  <2>3. b \notin InMemory(TheCache) /\ Becomes(d, b, "garbage")
    BY <1>3, <2>1, <2>2 DEF ReadFails
  <2>4. d.list = f.list
    <3>1. PICK c : c = TheCache /\ InStep(c, {})
      BY CacheFacts
    <3>2. InStep(f, {})
      BY <2>1, <2>3, <3>1, FetchInStep
    <3>3. f = [list |-> f.list, hash |-> f.hash, usage |-> f.usage,
               target |-> f.target, size |-> f.size]
      BY <3>2 DEF InStep, Lined, IsCache
    <3> QED BY <2>2, <3>3
  <2> QED BY <2>1, <2>3, <2>4, FetchGives
<1>4. ASSUME NEW b \in Block, UnpackFails(b) PROVE RoomStep
  <2>1. PICK c : c = TheCache /\ InStep(c, {})
    BY CacheFacts
  <2>2. b \notin InMemory(c)
    BY <1>4, <2>1 DEF UnpackFails
  <2>3. PICK f : f = Fetch(c, b)
    OBVIOUS
  <2>4. InStep(f, {}) /\ b \in InMemory(f) /\ InMemory(f) \ {b} \subseteq InMemory(c)
    BY <2>1, <2>2, <2>3, FetchInStep
  <2>5. PICK d : d = Flush(f, b)
    OBVIOUS
  <2>6. InStep(d, {}) /\ InMemory(d) = InMemory(f) \ {b}
    BY <2>4, <2>5, FlushInStep
  <2>7. Becomes(d, b, "none")
    BY <1>4, <2>1, <2>3, <2>5 DEF UnpackFails
  <2>8. InMemory(TheCache)' = InMemory(d)
    <3>1. size \in Sizes /\ content \in [Block -> {"none", "read", "garbage"}]
      BY DEF CacheInv
    <3> QED BY <2>6, <2>7, <3>1, BecomesInStep
  <2> QED BY <2>1, <2>4, <2>6, <2>8, NoneComes
<1>5. ASSUME NEW b \in Block, FileDataFree(b) PROVE RoomStep
  BY <1>5, FileDataFreeKeeps, NoneComes DEF Promise!Release
<1>6. ASSUME NEW b \in Block, FileDataWrite(b) PROVE RoomStep
  BY <1>6, FileDataWriteKeeps, NoneComes DEF Promise!Drop
<1>7. ASSUME NEW n \in Sizes, FileSetCacheSize(n) PROVE RoomStep
  BY <1>7, SetSizeKeeps, NoneComes DEF FileSetCacheSize, Promise!vars
<1>8. CASE FileDeinit
  BY <1>8, FileDeinitKeeps, NoneComes DEF Promise!Drop
<1>9. CASE UNCHANGED vars
  BY <1>9, SetSizeKeeps, NoneComes DEF vars, CacheInv, Promise!vars
<1> QED BY <1>1, <1>2, <1>3, <1>4, <1>5, <1>6, <1>7, <1>8, <1>9 DEF Next

-----------------------------------------------------------------------------
\* The lists have blocks, use counts and users stay in their range, and the
\* target is a number of bytes: a hit on a remembered block divides by the
\* bytes of a list that has the block, and never takes more than there is.
THEOREM TypeCorrect == Spec => []TypeOK
<1>1. CacheInv => TypeOK
  <2> SUFFICES ASSUME CacheInv PROVE TypeOK
    OBVIOUS
  <2>1. PICK c : /\ c = TheCache /\ InStep(c, {})
                 /\ \A b \in Block : usage[b] = held[b]
                 /\ usage \in [Block -> Int]
    BY CacheFacts
  <2>2. c.list = list /\ c.hash = hash /\ c.target = target
    BY <2>1 DEF TheCache
  <2>3. list \in [Lists -> Seq(Block)] /\ target \in 0 .. InitSize
    BY <2>1, <2>2 DEF InStep, Lined, IsCache
  <2>4. hash \subseteq Block
    <3>1. \A l \in Lists : Members(c, l) \subseteq Block
      BY <2>2, <2>3, ElementOfSeq, LenProperties DEF Members
    <3> QED BY <2>1, <2>2, <3>1 DEF InStep, Listed
  <2>5. usage \in [Block -> 0 .. MaxHeld]
    BY <2>1 DEF CacheInv
  <2> QED BY <2>3, <2>4, <2>5 DEF TypeOK, CacheInv
<1> QED BY <1>1, InvariantHolds, PTL

\* Making room never takes a block that somebody uses, and the use count in
\* the entry is the number of its users: cache_remove_lru passes over entries
\* in use, however it comes to search a list.
THEOREM InUseCorrect == Spec => []InUseIsKept
<1>1. CacheInv => InUseIsKept
  BY DEF CacheInv
<1> QED BY <1>1, InvariantHolds, PTL

\* Lookups, insertions, evictions, trims and removals leave each identity in
\* one place of one list, and the hash in step with the lists.
THEOREM OneEntryCorrect == Spec => []OneEntryEach
<1>1. CacheInv => OneEntryEach
  <2> SUFFICES ASSUME CacheInv PROVE OneEntryEach
    OBVIOUS
  <2>1. PICK c : c = TheCache /\ InStep(c, {})
    BY DEF CacheInv
  <2>2. c.list = list /\ c.hash = hash
    BY <2>1 DEF TheCache
  <2>3. \A l \in Lists : \A i, j \in DOMAIN list[l] :
            list[l][i] = list[l][j] => i = j
    BY <2>1, <2>2 DEF InStep, Lined, Distinct
  <2>4. \A l, m \in Lists : l # m => Members(c, l) \cap Members(c, m) = {}
    BY <2>1 DEF InStep, Lined
  <2>5. hash = UNION {Members(c, l) : l \in Lists}
    BY <2>1, <2>2 DEF InStep, Listed
  <2> QED BY <2>1, <2>3, <2>4, <2>5 DEF OneEntryEach
<1> QED BY <1>1, InvariantHolds, PTL

\* A block that is read into a full cache takes the place of one that is not
\* in use: cache_insert searches a list that gives one up, and cache_replace
\* goes on to the other one when the first has none to give.
THEOREM RoomCorrect == Spec => MakesRoom
<1>1. CacheInv /\ [Next]_vars => RoomStep
  BY RoomKept
<1> QED BY <1>1, InvariantHolds, PTL DEF Spec, MakesRoom, RoomStep

\* A packed block in memory has what was unpacked: file_data_read_method
\* removes the entry of one that could not be.
THEOREM UnpackedCorrect == Spec => []UnpackedIsRead
<1>1. CacheInv => UnpackedIsRead
  BY DEF CacheInv
<1> QED BY <1>1, InvariantHolds, PTL

\* The cache implements BlockCache: whatever the lists, the sizes and the
\* target make of it, each step of cache.c and file.c is one of the promise.
THEOREM PromiseCorrect == Spec => KeepsPromise
<1>1. Init => Promise!Init
  <2> SUFFICES ASSUME Init PROVE Promise!Init
    OBVIOUS
  <2>1. PICK c : c = TheCache
    OBVIOUS
  <2>2. c.list = [l \in Lists |-> <<>>]
    BY <2>1 DEF TheCache, Init, EmptyLists
  <2>3. InMemory(c) = {}
    BY <2>2 DEF InMemory, Members, Lists, Data
  <2> QED BY <2>1, <2>3 DEF Promise!Init, Init
<1> QED BY <1>1, NextKeeps, InvariantHolds, PTL DEF Spec, KeepsPromise, Promise!Spec

=============================================================================
