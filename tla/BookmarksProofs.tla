-------------------------- MODULE BookmarksProofs --------------------------
(***************************************************************************)
(* Proofs about bookmarks and their file.                                  *)
(*                                                                         *)
(* DiskInv says where the items written last are at each step, however     *)
(* often the program ends and the renaming fails, and but for what a write *)
(* itself has lost (Kept).  ListInv holds as long as nothing has failed: the    *)
(* list has each name once and the folders of an item before it, so that   *)
(* writing it and loading it again loses nothing, and what an operation    *)
(* has done is still to be seen when the list is back.                     *)
(***************************************************************************)
EXTENDS Bookmarks, FiniteSetTheorems, FunctionTheorems, WellFoundedInduction,
        TLAPS

Names == Seq(Labels) \ {<<>>}
Items == [path : Names, place : Places \cup {Folder}]
Lists == Seq(Items)

LEMMA SeqGrows ==
    ASSUME NEW S, NEW T, S \subseteq T
    PROVE  Seq(S) \subseteq Seq(T)
OBVIOUS

LEMMA MissingIsNoList == Missing \notin Lists
<1>1. Lists \subseteq Seq([path : Seq(Labels), place : Places \cup {Folder}])
  <2>1. Items \subseteq [path : Seq(Labels), place : Places \cup {Folder}]
    BY DEF Items, Names
  <2> HIDE DEF Items
  <2> QED BY <2>1, SeqGrows DEF Lists
<1> QED BY <1>1, BookmarksAssumption

LEMMA LinesOfType ==
    /\ LinesOf(Missing) = <<>>
    /\ \A f \in Lists : LinesOf(f) = f
    /\ \A f \in Lists \cup {Missing} : LinesOf(f) \in Lists
<1>1. <<>> \in Lists
  BY DEF Lists
<1> QED BY <1>1, MissingIsNoList DEF LinesOf

LEMMA LeastNumber ==
    ASSUME NEW T \in SUBSET Nat, T # {}
    PROVE  \E n \in T : \A m \in T : n <= m
<1>1. PICK R : R = OpToRel(<, Nat)
  OBVIOUS
<1>2. IsWellFoundedOn(R, Nat)
  BY <1>1, NatLessThanWellFounded
<1>3. \A m, n \in Nat : m < n => <<m, n>> \in R
  BY <1>1 DEF OpToRel
<1>4. PICK n \in T : \A m \in T : ~(<<m, n>> \in R)
  BY <1>2, WFMin
<1>5. \A m \in T : ~(m < n)
  BY <1>3, <1>4
<1> QED BY <1>5

-----------------------------------------------------------------------------
(* Names *)

LEMMA SameName ==
    ASSUME NEW p \in Seq(Labels), NEW q \in Seq(Labels), Len(p) = Len(q),
           \A k \in 1..Len(p) : p[k] = q[k]
    PROVE  p = q
OBVIOUS

LEMMA PrefixIs ==
    ASSUME NEW p \in Seq(Labels), NEW q \in Seq(Labels)
    PROVE  /\ IsPrefix(p, q) <=> /\ Len(p) <= Len(q)
                                 /\ \A k \in 1..Len(p) : p[k] = q[k]
           /\ IsPrefix(p, q) => p = SubSeq(q, 1, Len(p))
<1>1. SubSeq(p, 1, Len(p)) = p
  OBVIOUS
<1>2. ASSUME Len(p) <= Len(q)
      PROVE  SubSeq(q, 1, Len(p)) = p <=> \A k \in 1..Len(p) : p[k] = q[k]
  <2>1. /\ SubSeq(q, 1, Len(p)) \in Seq(Labels)
        /\ Len(SubSeq(q, 1, Len(p))) = Len(p)
        /\ \A k \in 1..Len(p) : SubSeq(q, 1, Len(p))[k] = q[k]
    BY <1>2
  <2> QED BY <2>1
<1> QED BY <1>1, <1>2 DEF IsPrefix

\* The first labels of a name
LEMMA FirstLabels ==
    ASSUME NEW q \in Seq(Labels), NEW k \in 1..Len(q)
    PROVE  /\ SubSeq(q, 1, k) \in Names
           /\ Len(SubSeq(q, 1, k)) = k
           /\ \A n \in 1..k : SubSeq(q, 1, k)[n] = q[n]
           /\ IsPrefix(SubSeq(q, 1, k), q)
           /\ k < Len(q) => IsStrictPrefix(SubSeq(q, 1, k), q)
           /\ k = Len(q) => SubSeq(q, 1, k) = q
<1>1. /\ SubSeq(q, 1, k) \in Seq(Labels)
      /\ Len(SubSeq(q, 1, k)) = k
      /\ \A n \in 1..k : SubSeq(q, 1, k)[n] = q[n]
  OBVIOUS
<1>2. SubSeq(q, 1, k) \in Names
  <2>1. Len(<<>>) = 0
    OBVIOUS
  <2> QED BY <1>1, <2>1 DEF Names
<1>3. IsPrefix(SubSeq(q, 1, k), q)
  <2> DEFINE p == SubSeq(q, 1, k)
  <2>1. p \in Seq(Labels) /\ Len(p) = k /\ \A n \in 1..k : p[n] = q[n]
    BY <1>1
  <2>2. Len(p) <= Len(q)
    BY <2>1
  <2> HIDE DEF p
  <2>3. IsPrefix(p, q)
    BY <2>1, <2>2, PrefixIs
  <2> QED BY <2>3 DEF p
<1>4. k < Len(q) => SubSeq(q, 1, k) # q
  BY <1>1
<1>5. SubSeq(q, 1, Len(q)) = q
  OBVIOUS
<1> QED BY <1>1, <1>2, <1>3, <1>4, <1>5 DEF IsStrictPrefix

-----------------------------------------------------------------------------
(* Lists put together from entries *)

Pairs == Int \X Int

\* g gives the entries of D in their order, each once, and the list follows it.
Enumerates(lines, D, g) ==
    /\ g \in [1..Cardinality(D) -> D]
    /\ \A d \in D : \E n \in 1..Cardinality(D) : g[n] = d
    /\ \A m, n \in 1..Cardinality(D) : Earlier(g[m], g[n]) => m < n
    /\ \A m, n \in 1..Cardinality(D) : g[m] = g[n] => m = n
    /\ Listed(lines, D) = [n \in 1..Cardinality(D) |-> Item(lines, g[n])]

LEMMA ListedIs ==
    ASSUME NEW lines, NEW D \in SUBSET Pairs, IsFiniteSet(D)
    PROVE  \E g : Enumerates(lines, D, g)
<1> DEFINE N == Cardinality(D)
           B(d) == {e \in D : Earlier(e, d)}
           r == [d \in D |-> Rank(d, D)]
           g == [n \in 1..N |-> CHOOSE d \in D : Rank(d, D) = n]
<1>1. N \in Nat
  BY FS_CardinalityType
<1>2. \A d \in D : r[d] = Rank(d, D)
  OBVIOUS
<1>3. ASSUME NEW d \in D
      PROVE  IsFiniteSet(B(d)) /\ Cardinality(B(d)) \in 0..N-1
             /\ r[d] = Cardinality(B(d)) + 1
  <2>1. B(d) \in SUBSET D /\ d \notin B(d)
    BY DEF Earlier, Pairs
  <2>2. IsFiniteSet(B(d)) /\ Cardinality(B(d)) <= N
    BY <2>1, FS_Subset
  <2>3. Cardinality(B(d)) # N
    BY <2>1, FS_Subset
  <2>4. Cardinality(B(d)) \in Nat
    BY <2>2, FS_CardinalityType
  <2>5. r[d] = Cardinality(B(d)) + 1
    BY DEF Rank
  <2> HIDE DEF N, B
  <2> QED BY <1>1, <2>2, <2>3, <2>4, <2>5
<1>4. ASSUME NEW d \in D, NEW e \in D, Earlier(d, e) PROVE r[d] < r[e]
  <2>1. B(d) \in SUBSET B(e)
    BY <1>4 DEF Earlier, Pairs
  <2>2. d \in B(e) /\ d \notin B(d)
    BY <1>4 DEF Earlier, Pairs
  <2>3. IsFiniteSet(B(e))
    BY <1>3
  <2>4. Cardinality(B(d)) <= Cardinality(B(e))
    BY <2>1, <2>3, FS_Subset
  <2>5. Cardinality(B(d)) # Cardinality(B(e))
    <3>1. B(d) # B(e)
      BY <2>2
    <3> QED BY <2>1, <2>3, <3>1, FS_Subset
  <2>6. /\ r[d] = Cardinality(B(d)) + 1 /\ r[e] = Cardinality(B(e)) + 1
        /\ Cardinality(B(d)) \in 0..N-1 /\ Cardinality(B(e)) \in 0..N-1
    BY <1>3
  <2> HIDE DEF N, B, r
  <2> QED BY <1>1, <2>4, <2>5, <2>6
<1>5. \A d, e \in D : d = e \/ Earlier(d, e) \/ Earlier(e, d)
  BY DEF Earlier, Pairs
<1>6. \A d \in D : r[d] \in 1..N
  <2> TAKE d \in D
  <2>1. Cardinality(B(d)) \in 0..N-1 /\ r[d] = Cardinality(B(d)) + 1
    BY <1>3
  <2> HIDE DEF N, B, r
  <2> QED BY <1>1, <2>1
<1>7. \A d, e \in D : r[d] = r[e] => d = e
  <2> HIDE DEF N, B, r
  <2> QED BY <1>1, <1>4, <1>5, <1>6
<1>8. \A d, e \in D : r[d] < r[e] => Earlier(d, e)
  <2> HIDE DEF N, B, r
  <2> QED BY <1>1, <1>4, <1>5, <1>6
<1>9. \A n \in 1..N : \E d \in D : Rank(d, D) = n
  <2>1. r \in Injection(D, 1..N)
    BY <1>6, <1>7 DEF Injection, IsInjective
  <2>2. IsFiniteSet(1..N) /\ Cardinality(1..N) = N
    BY <1>1, FS_Interval
  <2>3. r \in Surjection(D, 1..N)
    BY <2>1, <2>2, FS_Injection
  <2> QED BY <1>2, <2>3 DEF Surjection
<1>10. \A n \in 1..N : g[n] \in D /\ r[g[n]] = n
  BY <1>2, <1>9
<1>11. g \in [1..N -> D]
  BY <1>10
<1>12. Listed(lines, D) = [n \in 1..N |-> Item(lines, g[n])]
  BY DEF Listed
<1> HIDE DEF N, B, r, g
<1>13. \A d \in D : g[r[d]] = d
  BY <1>6, <1>7, <1>10
<1>14. \A m, n \in 1..N : Earlier(g[m], g[n]) => m < n
  <2> SUFFICES ASSUME NEW m \in 1..N, NEW n \in 1..N, Earlier(g[m], g[n])
               PROVE  m < n
    OBVIOUS
  <2>1. r[g[m]] < r[g[n]]
    BY <1>4, <1>10
  <2> QED BY <1>10, <2>1
<1>15. \A m, n \in 1..N : g[m] = g[n] => m = n
  BY <1>10
<1>16. \A d \in D : \E n \in 1..N : g[n] = d
  BY <1>6, <1>13
<1>17. Enumerates(lines, D, g)
  BY <1>11, <1>12, <1>14, <1>15, <1>16 DEF N, Enumerates
<1> QED BY <1>17

LEMMA ItemOfList ==
    ASSUME NEW items \in Lists, NEW i \in DOMAIN items
    PROVE  /\ items[i] \in Items
           /\ items[i].path \in Names
           /\ items[i].path \in Seq(Labels)
           /\ items[i].place \in Places \cup {Folder}
<1>1. items[i] \in Items
  <2> HIDE DEF Items
  <2> QED BY DEF Lists
<1>2. items[i].path \in Names /\ items[i].place \in Places \cup {Folder}
  BY <1>1 DEF Items
<1> QED BY <1>1, <1>2 DEF Names

LEMMA DomainIs == \A s \in Lists : DOMAIN s = 1..Len(s) /\ Len(s) \in Nat
BY DEF Lists

LEMMA ItemIs ==
    ASSUME NEW lines \in Lists, NEW i \in DOMAIN lines,
           NEW k \in 1..Len(lines[i].path)
    PROVE  /\ lines[i] \in Items
           /\ Item(lines, <<i, k>>) \in Items
           /\ Item(lines, <<i, k>>).path = SubSeq(lines[i].path, 1, k)
           /\ k = Len(lines[i].path) => Item(lines, <<i, k>>) = lines[i]
           /\ k # Len(lines[i].path) => Item(lines, <<i, k>>).place = Folder
<1> DEFINE q == lines[i].path
           folder == [path |-> SubSeq(q, 1, k), place |-> Folder]
<1>1. lines[i] \in Items /\ q \in Seq(Labels)
  BY ItemOfList
<1>2. /\ SubSeq(q, 1, k) \in Names
      /\ k = Len(q) => SubSeq(q, 1, k) = q
  BY <1>1, FirstLabels
<1>3. folder \in Items /\ folder.path = SubSeq(q, 1, k) /\ folder.place = Folder
  BY <1>2 DEF Items
<1>4. Item(lines, <<i, k>>) = IF k = Len(q) THEN lines[i] ELSE folder
  BY DEF Item
<1> HIDE DEF folder
<1> QED BY <1>1, <1>2, <1>3, <1>4

-----------------------------------------------------------------------------
(* What is written *)

Distinct(items) ==
    \A i, j \in DOMAIN items : items[i].path = items[j].path => i = j

LEMMA PathLength ==
    ASSUME NEW items \in Lists, NEW i \in DOMAIN items
    PROVE  /\ items[i] \in Items
           /\ items[i].path \in Seq(Labels)
           /\ Len(items[i].path) \in Nat
           /\ Len(items[i].path) \in 1..Len(items[i].path)
<1>1. items[i] \in Items /\ items[i].path \in Seq(Labels)
  BY ItemOfList
<1>2. items[i].path # <<>>
  BY ItemOfList DEF Names
<1> QED BY <1>1, <1>2

LEMMA WrittenIs ==
    ASSUME NEW items \in Lists
    PROVE  LET W == Written(items)
               F == FirstOfName(items)
           IN  /\ W \in Lists
               /\ Distinct(W)
               /\ \A m \in DOMAIN W : \E i \in F : W[m] = items[i]
               /\ \A i \in F : \E m \in DOMAIN W : W[m] = items[i]
               /\ \A m, n \in DOMAIN W, i, j \in F :
                     W[m] = items[i] /\ W[n] = items[j] /\ i < j => m < n
<1> DEFINE W == Written(items)
           F == FirstOfName(items)
           f == [i \in F |-> <<i, Len(items[i].path)>>]
           D == {<<i, Len(items[i].path)>> : i \in F}
           N == Cardinality(D)
<1>1. /\ F \in SUBSET DOMAIN items
      /\ DOMAIN items = 1..Len(items) /\ Len(items) \in Nat
      /\ \A i, j \in F : items[i].path = items[j].path => i = j
  <2>1. DOMAIN items = 1..Len(items) /\ Len(items) \in Nat
    BY DomainIs
  <2>2. \A i \in F : i \in DOMAIN items /\ \A j \in 1..i-1 : items[j].path # items[i].path
    BY DEF FirstOfName
  <2> HIDE DEF F
  <2>3. ASSUME NEW i \in F, NEW j \in F, i < j
        PROVE  items[i].path # items[j].path
    BY <2>1, <2>2, <2>3
  <2> QED BY <2>1, <2>2, <2>3
<1>2. IsFiniteSet(F)
  <2>1. IsFiniteSet(DOMAIN items)
    BY <1>1, FS_Interval
  <2> QED BY <1>1, <2>1, FS_Subset
<1>3. \A i \in F : /\ items[i] \in Items
                   /\ <<i, Len(items[i].path)>> \in Pairs
                   /\ Item(items, <<i, Len(items[i].path)>>) = items[i]
  <2> TAKE i \in F
  <2>1. /\ items[i] \in Items /\ Len(items[i].path) \in Nat
        /\ Len(items[i].path) \in 1..Len(items[i].path)
    BY <1>1, PathLength
  <2>2. i \in DOMAIN items /\ i \in Int
    BY <1>1
  <2>3. Item(items, <<i, Len(items[i].path)>>) = items[i]
    BY <2>1, <2>2, ItemIs
  <2> QED BY <2>1, <2>2, <2>3 DEF Pairs
<1>4. D \in SUBSET Pairs
  BY <1>3
<1>5. IsFiniteSet(D)
  <2>1. f \in Surjection(F, D)
    BY DEF Surjection
  <2> QED BY <1>2, <2>1, FS_Surjection
<1>6. PICK g \in [1..N -> D] :
              /\ \A d \in D : \E n \in 1..N : g[n] = d
              /\ \A m, n \in 1..N : Earlier(g[m], g[n]) => m < n
              /\ \A m, n \in 1..N : g[m] = g[n] => m = n
              /\ Listed(items, D) = [n \in 1..N |-> Item(items, g[n])]
  <2> HIDE DEF D, f
  <2>1. PICK g : Enumerates(items, D, g)
    BY <1>4, <1>5, ListedIs
  <2> QED BY <2>1 DEF Enumerates
<1>7. N \in Nat
  BY <1>5, FS_CardinalityType
<1>8. W = [n \in 1..N |-> Item(items, g[n])]
  BY <1>6 DEF Written
<1>9. \A n \in 1..N : \E i \in F : g[n] = <<i, Len(items[i].path)>>
  BY <1>6
<1> HIDE DEF N, W
<1>10. /\ DOMAIN W = 1..N
       /\ \A n \in 1..N : \E i \in F : W[n] = items[i] /\ g[n] = <<i, Len(items[i].path)>>
  BY <1>3, <1>8, <1>9
<1>11. \A i \in F : <<i, Len(items[i].path)>> \in D
  OBVIOUS
<1>12. \A i \in F : \E n \in 1..N : W[n] = items[i] /\ g[n] = <<i, Len(items[i].path)>>
  <2> TAKE i \in F
  <2>1. PICK n \in 1..N : g[n] = <<i, Len(items[i].path)>>
    BY <1>6, <1>11
  <2> QED BY <1>3, <1>8, <2>1
<1> HIDE DEF F, D
<1>13. W \in Lists
  <2>1. \A n \in 1..N : W[n] \in Items
    BY <1>3, <1>10
  <2>2. W \in [1..N -> Items]
    BY <1>8, <1>10, <2>1
  <2> QED BY <1>7, <2>2 DEF Lists
<1>14. ASSUME NEW m \in 1..N, NEW i \in F, W[m] = items[i]
       PROVE  g[m] = <<i, Len(items[i].path)>>
  <2>1. PICK j \in F : W[m] = items[j] /\ g[m] = <<j, Len(items[j].path)>>
    BY <1>10
  <2>2. items[i].path = items[j].path
    BY <1>14, <2>1
  <2> QED BY <1>1, <2>1, <2>2
<1>15. Distinct(W)
  <2> SUFFICES ASSUME NEW m \in 1..N, NEW n \in 1..N, W[m].path = W[n].path
               PROVE  m = n
    BY <1>10 DEF Distinct
  <2>1. PICK i \in F : W[m] = items[i] /\ g[m] = <<i, Len(items[i].path)>>
    BY <1>10
  <2>2. PICK j \in F : W[n] = items[j] /\ g[n] = <<j, Len(items[j].path)>>
    BY <1>10
  <2>3. i = j
    BY <1>1, <2>1, <2>2
  <2> QED BY <1>6, <2>1, <2>2, <2>3
<1>16. ASSUME NEW m \in 1..N, NEW n \in 1..N, NEW i \in F, NEW j \in F,
              W[m] = items[i], W[n] = items[j], i < j
       PROVE  m < n
  <2>1. Earlier(g[m], g[n])
    BY <1>14, <1>16 DEF Earlier
  <2> QED BY <1>6, <2>1
<1> QED BY <1>10, <1>12, <1>13, <1>15, <1>16 DEF W, F

\* Each name of the list is written.
LEMMA FirstExists ==
    ASSUME NEW items \in Lists, NEW i \in DOMAIN items
    PROVE  \E j \in FirstOfName(items) : j <= i /\ items[j].path = items[i].path
<1> DEFINE T == {j \in DOMAIN items : items[j].path = items[i].path}
<1>1. T \in SUBSET Nat /\ i \in T
  BY DomainIs
<1>2. PICK j \in T : \A n \in T : j <= n
  BY <1>1, LeastNumber
<1>3. \A n \in 1..j-1 : n \in DOMAIN items /\ ~(j <= n)
  BY <1>2, DomainIs
<1>4. j \in FirstOfName(items)
  BY <1>2, <1>3 DEF FirstOfName
<1> QED BY <1>1, <1>2, <1>4

\* What is first of its name is written.
LEMMA WrittenHas ==
    ASSUME NEW items \in Lists
    PROVE  /\ Written(items) \in Lists
           /\ ToSet(Written(items)) \subseteq ToSet(items)
           /\ \A i \in FirstOfName(items) : items[i] \in ToSet(Written(items))
           /\ \A i \in DOMAIN items :
                 \E item \in ToSet(Written(items)) : item.path = items[i].path
<1>1. FirstOfName(items) \subseteq DOMAIN items
  BY DEF FirstOfName
<1> DEFINE W == Written(items)
<1>2. /\ W \in Lists
      /\ \A m \in DOMAIN W : \E i \in FirstOfName(items) : W[m] = items[i]
      /\ \A i \in FirstOfName(items) : \E m \in DOMAIN W : W[m] = items[i]
  BY WrittenIs
<1> HIDE DEF W
<1>3. \A i \in FirstOfName(items) : items[i] \in ToSet(W)
  BY <1>2 DEF ToSet
<1>4. ToSet(W) \subseteq ToSet(items)
  BY <1>1, <1>2 DEF ToSet
<1>5. \A i \in DOMAIN items : \E item \in ToSet(W) : item.path = items[i].path
  BY <1>3, FirstExists
<1> QED BY <1>2, <1>3, <1>4, <1>5 DEF W

-----------------------------------------------------------------------------
(* What is loaded *)

LoadedFrom(lines) == UNION {Entries(lines, i) : i \in DOMAIN lines}

LEMMA EntryIs ==
    ASSUME NEW lines \in Lists, NEW d
    PROVE  d \in LoadedFrom(lines) <=>
              \E i \in DOMAIN lines : \E k \in 1..Len(lines[i].path) :
                 /\ d = <<i, k>>
                 /\ k < Len(lines[i].path) =>
                        ~Known(lines, i, SubSeq(lines[i].path, 1, k))
BY DEF LoadedFrom, Entries

LEMMA LoadedFinite ==
    ASSUME NEW lines \in Lists
    PROVE  LoadedFrom(lines) \in SUBSET Pairs /\ IsFiniteSet(LoadedFrom(lines))
<1> DEFINE f == [i \in DOMAIN lines |-> Entries(lines, i)]
           P == {Entries(lines, i) : i \in DOMAIN lines}
<1>1. DOMAIN lines = 1..Len(lines) /\ Len(lines) \in Nat
  BY DomainIs
<1>2. IsFiniteSet(P)
  <2>1. IsFiniteSet(DOMAIN lines)
    BY <1>1, FS_Interval
  <2>2. f \in Surjection(DOMAIN lines, P)
    BY DEF Surjection
  <2> QED BY <2>1, <2>2, FS_Surjection
<1>3. ASSUME NEW i \in DOMAIN lines
      PROVE  IsFiniteSet(Entries(lines, i)) /\ Entries(lines, i) \in SUBSET Pairs
  <2>1. Len(lines[i].path) \in Nat /\ i \in Int
    BY <1>1, PathLength
  <2>2. Entries(lines, i) \in SUBSET ({i} \X (1..Len(lines[i].path)))
    BY DEF Entries
  <2>3. IsFiniteSet({i}) /\ IsFiniteSet(1..Len(lines[i].path))
    <3>1. 1 \in Int /\ Len(lines[i].path) \in Int
      BY <2>1
    <3> QED BY <3>1, FS_Interval, FS_Singleton
  <2>4. IsFiniteSet({i} \X (1..Len(lines[i].path)))
    BY <2>3, FS_Product
  <2> QED BY <2>1, <2>2, <2>4, FS_Subset DEF Pairs
<1>4. IsFiniteSet(UNION P)
  BY <1>2, <1>3, FS_UNION
<1> QED BY <1>3, <1>4 DEF LoadedFrom

\* The list that is loaded, entry by entry
LEMMA LoadedIs ==
    ASSUME NEW lines \in Lists
    PROVE  LET D == LoadedFrom(lines)
               L == Loaded(lines)
           IN  \E N \in Nat : \E g \in [1..N -> D] :
                 /\ \A d \in D : \E n \in 1..N : g[n] = d
                 /\ \A m, n \in 1..N : Earlier(g[m], g[n]) => m < n
                 /\ \A m, n \in 1..N : g[m] = g[n] => m = n
                 /\ DOMAIN L = 1..N
                 /\ \A n \in 1..N : L[n] = Item(lines, g[n])
                 /\ L \in Lists
<1> DEFINE D == LoadedFrom(lines)
           L == Loaded(lines)
           N == Cardinality(D)
<1>1. D \in SUBSET Pairs /\ IsFiniteSet(D)
  BY LoadedFinite
<1>2. L = Listed(lines, D)
  BY DEF Loaded, LoadedFrom
<1>3. \A d \in D : Item(lines, d) \in Items
  <2> TAKE d \in D
  <2>a1. PICK i \in DOMAIN lines : \E k \in 1..Len(lines[i].path) : d = <<i, k>>
    BY EntryIs
  <2>1. PICK k \in 1..Len(lines[i].path) : d = <<i, k>>
    BY <2>a1
  <2> QED BY <2>1, ItemIs
<1> HIDE DEF D, L
<1>4. PICK g \in [1..N -> D] :
              /\ \A d \in D : \E n \in 1..N : g[n] = d
              /\ \A m, n \in 1..N : Earlier(g[m], g[n]) => m < n
              /\ \A m, n \in 1..N : g[m] = g[n] => m = n
              /\ Listed(lines, D) = [n \in 1..N |-> Item(lines, g[n])]
  <2>1. PICK g : Enumerates(lines, D, g)
    BY <1>1, ListedIs
  <2> QED BY <2>1 DEF Enumerates
<1>5. N \in Nat
  BY <1>1, FS_CardinalityType
<1> HIDE DEF N
<1>6. L = [n \in 1..N |-> Item(lines, g[n])]
  BY <1>2, <1>4
<1>7. L \in Lists
  <2>1. L \in [1..N -> Items]
    BY <1>3, <1>6
  <2> QED BY <1>5, <2>1 DEF Lists
<1>8. DOMAIN L = 1..N /\ \A n \in 1..N : L[n] = Item(lines, g[n])
  BY <1>6
<1> QED BY <1>4, <1>5, <1>7, <1>8 DEF D, L

\* All lines are loaded, and beside them only the folders they are in.
LEMMA LoadedHas ==
    ASSUME NEW lines \in Lists
    PROVE  /\ Loaded(lines) \in Lists
           /\ ToSet(lines) \subseteq ToSet(Loaded(lines))
           /\ \A item \in ToSet(Loaded(lines)) \ ToSet(lines) :
                 /\ item.place = Folder
                 /\ \E child \in ToSet(lines) : IsStrictPrefix(item.path, child.path)
<1> DEFINE L == Loaded(lines)
           D == LoadedFrom(lines)
<1>a1. PICK N \in Nat : \E g \in [1..N -> D] :
              /\ \A d \in D : \E n \in 1..N : g[n] = d
              /\ DOMAIN L = 1..N
              /\ \A n \in 1..N : L[n] = Item(lines, g[n])
              /\ L \in Lists
  BY LoadedIs
<1>1. PICK g \in [1..N -> D] :
              /\ \A d \in D : \E n \in 1..N : g[n] = d
              /\ DOMAIN L = 1..N
              /\ \A n \in 1..N : L[n] = Item(lines, g[n])
              /\ L \in Lists
  BY <1>a1
<1> HIDE DEF L
<1>2. \A i \in DOMAIN lines : lines[i] \in ToSet(L)
  <2> TAKE i \in DOMAIN lines
  <2> DEFINE k == Len(lines[i].path)
  <2>1. k \in 1..Len(lines[i].path)
    BY PathLength
  <2>2. <<i, k>> \in D
    <3>1. ~(k < Len(lines[i].path))
      BY <2>1
    <3> HIDE DEF k
    <3> QED BY <2>1, <3>1, EntryIs
  <2>3. PICK n \in 1..N : g[n] = <<i, k>>
    BY <1>1, <2>2
  <2>4. Item(lines, <<i, k>>) = lines[i]
    BY <2>1, ItemIs
  <2> QED BY <1>1, <2>3, <2>4 DEF ToSet
<1>3. ASSUME NEW n \in 1..N, L[n] \notin ToSet(lines)
      PROVE  /\ L[n].place = Folder
             /\ \E child \in ToSet(lines) : IsStrictPrefix(L[n].path, child.path)
  <2>a1. PICK i \in DOMAIN lines : \E k \in 1..Len(lines[i].path) : g[n] = <<i, k>>
    BY EntryIs
  <2>1. PICK k \in 1..Len(lines[i].path) : g[n] = <<i, k>>
    BY <2>a1
  <2>2. L[n] = Item(lines, <<i, k>>)
    BY <1>1, <2>1
  <2>3. lines[i] \in ToSet(lines)
    BY DEF ToSet
  <2>4. /\ k # Len(lines[i].path) /\ L[n].place = Folder
        /\ L[n].path = SubSeq(lines[i].path, 1, k)
    BY <1>3, <2>2, <2>3, ItemIs
  <2>5. k < Len(lines[i].path) /\ lines[i].path \in Seq(Labels)
    BY <2>4, PathLength
  <2>6. IsStrictPrefix(L[n].path, lines[i].path)
    BY <2>4, <2>5, FirstLabels
  <2> QED BY <2>3, <2>4, <2>6
<1>4. ToSet(lines) \subseteq ToSet(L)
  BY <1>2 DEF ToSet
<1>5. \A item \in ToSet(L) : \E n \in 1..N : item = L[n]
  BY <1>1 DEF ToSet
<1>6. \A item \in ToSet(L) \ ToSet(lines) :
         /\ item.place = Folder
         /\ \E child \in ToSet(lines) : IsStrictPrefix(item.path, child.path)
  BY <1>3, <1>5
<1> QED BY <1>1, <1>4, <1>6 DEF L

\* The folders of an item come before it.
Ordered(items) ==
    /\ Distinct(items)
    /\ \A i \in DOMAIN items : \A k \in 1..Len(items[i].path) :
          k # Len(items[i].path) =>
             \E j \in DOMAIN items :
                j < i /\ items[j].path = SubSeq(items[i].path, 1, k)
\* So do those that are there.
Sorted(lines) ==
    /\ Distinct(lines)
    /\ \A i, j \in DOMAIN lines :
          IsStrictPrefix(lines[i].path, lines[j].path) => i < j

\* Each name is loaded once, and the folders of an item before it.
LEMMA LoadedOrdered ==
    ASSUME NEW lines \in Lists, Sorted(lines)
    PROVE  Ordered(Loaded(lines))
<1> DEFINE L == Loaded(lines)
           D == LoadedFrom(lines)
           Name(i, k) == SubSeq(lines[i].path, 1, k)
<1>a1. PICK N \in Nat : \E g \in [1..N -> D] :
              /\ \A d \in D : \E n \in 1..N : g[n] = d
              /\ \A m, n \in 1..N : Earlier(g[m], g[n]) => m < n
              /\ \A m, n \in 1..N : g[m] = g[n] => m = n
              /\ DOMAIN L = 1..N
              /\ \A n \in 1..N : L[n] = Item(lines, g[n])
  BY LoadedIs
<1>1. PICK g \in [1..N -> D] :
              /\ \A d \in D : \E n \in 1..N : g[n] = d
              /\ \A m, n \in 1..N : Earlier(g[m], g[n]) => m < n
              /\ \A m, n \in 1..N : g[m] = g[n] => m = n
              /\ DOMAIN L = 1..N
              /\ \A n \in 1..N : L[n] = Item(lines, g[n])
  BY <1>a1
<1> HIDE DEF L
<1>2. \A i \in DOMAIN lines : i \in Nat /\ 1 <= i /\ lines[i].path \in Seq(Labels)
                              /\ Len(lines[i].path) \in Nat
  BY DomainIs, PathLength
<1>3. \A i \in DOMAIN lines : \A k \in 1..Len(lines[i].path) :
         /\ Name(i, k) \in Seq(Labels) /\ Len(Name(i, k)) = k
         /\ IsPrefix(Name(i, k), lines[i].path)
         /\ k = Len(lines[i].path) => Name(i, k) = lines[i].path
         /\ Item(lines, <<i, k>>).path = Name(i, k)
  <2> TAKE i \in DOMAIN lines
  <2> TAKE k \in 1..Len(lines[i].path)
  <2>1. lines[i].path \in Seq(Labels)
    BY <1>2
  <2>2. Name(i, k) \in Names /\ Len(Name(i, k)) = k
        /\ IsPrefix(Name(i, k), lines[i].path)
        /\ (k = Len(lines[i].path) => Name(i, k) = lines[i].path)
    BY <2>1, FirstLabels
  <2> QED BY <2>2, ItemIs DEF Names
<1> HIDE DEF Name
<1>4. \A n \in 1..N : \E i \in DOMAIN lines : \E k \in 1..Len(lines[i].path) :
         /\ g[n] = <<i, k>> /\ L[n].path = Name(i, k)
         /\ k < Len(lines[i].path) => ~Known(lines, i, Name(i, k))
  <2> TAKE n \in 1..N
  <2>a1. PICK i \in DOMAIN lines : \E k \in 1..Len(lines[i].path) :
           /\ g[n] = <<i, k>>
           /\ k < Len(lines[i].path) => ~Known(lines, i, SubSeq(lines[i].path, 1, k))
    BY EntryIs
  <2>1. PICK k \in 1..Len(lines[i].path) :
           /\ g[n] = <<i, k>>
           /\ k < Len(lines[i].path) => ~Known(lines, i, SubSeq(lines[i].path, 1, k))
    BY <2>a1
  <2>2. L[n].path = Name(i, k)
    <3>1. L[n] = Item(lines, <<i, k>>)
      BY <1>1, <2>1
    <3>2. Item(lines, <<i, k>>).path = Name(i, k)
      BY <1>3
    <3> QED BY <3>1, <3>2
  <2>3. k < Len(lines[i].path) => ~Known(lines, i, Name(i, k))
    BY <2>1 DEF Name
  <2> QED BY <2>1, <2>2, <2>3
<1>5. ASSUME NEW i \in DOMAIN lines, NEW j \in DOMAIN lines, i < j,
             NEW k \in 1..Len(lines[i].path), NEW m \in 1..Len(lines[j].path),
             m < Len(lines[j].path) => ~Known(lines, j, Name(j, m)),
             Name(i, k) = Name(j, m)
      PROVE  FALSE
  <2>1. IsPrefix(Name(j, m), lines[i].path)
    BY <1>3, <1>5
  <2>2. i \in 1..j-1
    <3>1. i \in Nat /\ j \in Nat /\ 1 <= i /\ i < j
      BY <1>2, <1>5
    <3> QED BY <3>1
  <2>3. m = Len(lines[j].path) /\ Name(j, m) = lines[j].path
    <3>1. ~(m < Len(lines[j].path))
      BY <1>5, <2>1, <2>2 DEF Known
    <3>2. Len(lines[j].path) \in Nat
      BY <1>2
    <3>3. m = Len(lines[j].path)
      BY <3>1, <3>2
    <3> QED BY <1>3, <3>3
  <2>4. lines[j].path # lines[i].path
    BY <1>2, <1>5 DEF Sorted, Distinct
  <2>5. IsStrictPrefix(lines[j].path, lines[i].path)
    BY <2>1, <2>3, <2>4 DEF IsStrictPrefix
  <2>6. j < i
    BY <2>5 DEF Sorted
  <2> QED BY <1>2, <1>5, <2>6
<1>6. ASSUME NEW m \in 1..N, NEW n \in 1..N, L[m].path = L[n].path
      PROVE  g[m] = g[n]
  <2>a1. PICK i \in DOMAIN lines : \E k \in 1..Len(lines[i].path) :
           /\ g[m] = <<i, k>> /\ L[m].path = Name(i, k)
           /\ k < Len(lines[i].path) => ~Known(lines, i, Name(i, k))
    BY <1>4
  <2>1. PICK k \in 1..Len(lines[i].path) :
           /\ g[m] = <<i, k>> /\ L[m].path = Name(i, k)
           /\ k < Len(lines[i].path) => ~Known(lines, i, Name(i, k))
    BY <2>a1
  <2>a2. PICK j \in DOMAIN lines : \E l \in 1..Len(lines[j].path) :
           /\ g[n] = <<j, l>> /\ L[n].path = Name(j, l)
           /\ l < Len(lines[j].path) => ~Known(lines, j, Name(j, l))
    BY <1>4
  <2>2. PICK l \in 1..Len(lines[j].path) :
           /\ g[n] = <<j, l>> /\ L[n].path = Name(j, l)
           /\ l < Len(lines[j].path) => ~Known(lines, j, Name(j, l))
    BY <2>a2
  <2>3. Name(i, k) = Name(j, l)
    BY <1>6, <2>1, <2>2
  <2>4. k = l
    <3>1. Len(Name(i, k)) = k /\ Len(Name(j, l)) = l
      BY <1>3
    <3> QED BY <2>3, <3>1
  <2>5. ~(i < j)
    BY <1>5, <2>2, <2>3
  <2>6. ~(j < i)
    BY <1>5, <2>1, <2>3
  <2>7. i = j
    BY <1>2, <2>5, <2>6
  <2> QED BY <2>1, <2>2, <2>4, <2>7
<1>7. Distinct(L)
  <2> QED BY <1>1, <1>6 DEF Distinct
\* The entry that has the first k labels of entry <<i, n>>: its own line's, or
\* that of the first line that has been in the folder.
<1>8. ASSUME NEW i \in DOMAIN lines, NEW n \in 1..Len(lines[i].path),
             NEW k \in 1..n, k # n
      PROVE  \E d \in D : Earlier(d, <<i, n>>) /\ Item(lines, d).path = Name(i, k)
  <2>1. k \in 1..Len(lines[i].path) /\ k < Len(lines[i].path) /\ k < n
    BY <1>2, <1>8
  <2>2. CASE ~Known(lines, i, Name(i, k))
    <3>1. <<i, k>> \in D
      BY <2>1, <2>2, EntryIs DEF Name
    <3>2. Earlier(<<i, k>>, <<i, n>>)
      BY <2>1 DEF Earlier
    <3> QED BY <1>3, <2>1, <3>1, <3>2
  <2>3. CASE Known(lines, i, Name(i, k))
    <3> DEFINE T == {j \in 1..i-1 : IsPrefix(Name(i, k), lines[j].path)}
    <3>1. T \in SUBSET Nat /\ T # {}
      BY <2>3 DEF Known
    <3>2. PICK j \in T : \A m \in T : j <= m
      BY <3>1, LeastNumber
    <3>3. j \in DOMAIN lines /\ j < i /\ \A m \in 1..j-1 : m \notin T /\ m \in 1..i-1
      BY <3>2, DomainIs
    <3>4. Name(i, k) \in Seq(Labels) /\ Len(Name(i, k)) = k
          /\ lines[j].path \in Seq(Labels) /\ Len(lines[j].path) \in Nat
      BY <1>2, <1>3, <2>1, <3>3
    <3>5. k \in 1..Len(lines[j].path)
      <4>1. Len(Name(i, k)) <= Len(lines[j].path)
        BY <3>2 DEF IsPrefix
      <4> QED BY <3>4, <4>1
    <3>6. Name(j, k) = Name(i, k)
      <4>1. IsPrefix(Name(i, k), lines[j].path)
        BY <3>2
      <4>2. Name(i, k) = SubSeq(lines[j].path, 1, Len(Name(i, k)))
        BY <3>4, <4>1, PrefixIs
      <4> QED BY <3>4, <4>2 DEF Name
    <3>7. ~Known(lines, j, Name(j, k))
      BY <3>3, <3>6 DEF Known
    <3>8. <<j, k>> \in D
      BY <3>3, <3>5, <3>7, EntryIs DEF Name
    <3>9. Earlier(<<j, k>>, <<i, n>>)
      BY <3>3 DEF Earlier
    <3> QED BY <1>3, <3>3, <3>5, <3>6, <3>8, <3>9
  <2> QED BY <2>2, <2>3
<1>9. ASSUME NEW p \in 1..N, NEW k \in 1..Len(L[p].path), k # Len(L[p].path)
      PROVE  \E m \in 1..N : m < p /\ L[m].path = SubSeq(L[p].path, 1, k)
  <2>a1. PICK i \in DOMAIN lines : \E n \in 1..Len(lines[i].path) :
           g[p] = <<i, n>> /\ L[p].path = Name(i, n)
    BY <1>4
  <2>1. PICK n \in 1..Len(lines[i].path) :
           g[p] = <<i, n>> /\ L[p].path = Name(i, n)
    BY <2>a1
  <2>2. Len(L[p].path) = n
    BY <1>3, <2>1
  <2>3. PICK d \in D : Earlier(d, <<i, n>>) /\ Item(lines, d).path = Name(i, k)
    BY <1>8, <1>9, <2>2
  <2>4. PICK m \in 1..N : g[m] = d
    BY <1>1
  <2>5. m < p /\ L[m].path = Name(i, k)
    BY <1>1, <2>1, <2>3, <2>4
  <2>6. SubSeq(Name(i, n), 1, k) = Name(i, k)
    <3>1. lines[i].path \in Seq(Labels)
      BY <1>2
    <3>2. k \in 1..n
      BY <1>9, <2>2
    <3> QED BY <3>1, <3>2 DEF Name
  <2> QED BY <2>1, <2>5, <2>6
<1> QED BY <1>1, <1>7, <1>9 DEF Ordered, L

-----------------------------------------------------------------------------
(* Operations on a list that is in order *)

LEMMA FirstIndexIs ==
    ASSUME list \in Lists, NEW path, Named(list, path)
    PROVE  FirstIndex(path) \in DOMAIN list /\ list[FirstIndex(path)].path = path
<1> DEFINE T == {i \in DOMAIN list : list[i].path = path}
<1>1. T \in SUBSET Nat /\ T # {}
  BY DomainIs DEF Named
<1>2. PICK i \in T : \A j \in T : i <= j
  BY <1>1, LeastNumber
<1>3. \A j \in 1..i-1 : j \in DOMAIN list /\ ~(i <= j)
  BY <1>2, DomainIs
<1>4. i \in DOMAIN list /\ list[i].path = path /\ \A j \in 1..i-1 : list[j].path # path
  BY <1>2, <1>3
<1> QED BY <1>4 DEF FirstIndex

\* A name that is a proper prefix of one in the list is in the list before it.
LEMMA OrderedFolder ==
    ASSUME NEW items \in Lists, Ordered(items), NEW j \in DOMAIN items,
           NEW p \in Names, IsStrictPrefix(p, items[j].path)
    PROVE  \E i \in DOMAIN items : i < j /\ items[i].path = p
<1>1. p \in Seq(Labels) /\ Len(p) \in Nat /\ Len(p) # 0
  BY DEF Names
<1>2. items[j].path \in Seq(Labels) /\ Len(items[j].path) \in Nat
  BY PathLength
<1>3. Len(p) <= Len(items[j].path) /\ p = SubSeq(items[j].path, 1, Len(p))
  BY <1>1, <1>2, PrefixIs DEF IsStrictPrefix
<1>4. Len(p) # Len(items[j].path)
  <2>1. SubSeq(items[j].path, 1, Len(items[j].path)) = items[j].path
    BY <1>2
  <2> QED BY <1>3, <2>1 DEF IsStrictPrefix
<1>5. Len(p) \in 1..Len(items[j].path)
  BY <1>1, <1>2, <1>3
<1> QED BY <1>3, <1>4, <1>5 DEF Ordered

LEMMA OrderedBefore ==
    ASSUME NEW items \in Lists, Ordered(items), NEW i \in DOMAIN items,
           NEW j \in DOMAIN items, IsStrictPrefix(items[i].path, items[j].path)
    PROVE  i < j
<1>1. items[i].path \in Names
  BY ItemOfList
<1>2. PICK m \in DOMAIN items : m < j /\ items[m].path = items[i].path
  BY <1>1, OrderedFolder
<1>3. m = i
  BY <1>2 DEF Ordered, Distinct
<1> QED BY <1>2, <1>3

LEMMA WrittenSorted ==
    ASSUME NEW items \in Lists,
           \A i, j \in FirstOfName(items) :
              IsStrictPrefix(items[i].path, items[j].path) => i < j
    PROVE  Sorted(Written(items))
<1> DEFINE W == Written(items)
           F == FirstOfName(items)
<1>1. /\ Distinct(W)
      /\ \A m \in DOMAIN W : \E i \in F : W[m] = items[i]
      /\ \A m, n \in DOMAIN W, i, j \in F :
            W[m] = items[i] /\ W[n] = items[j] /\ i < j => m < n
  BY WrittenIs
<1> HIDE DEF W, F
<1>2. ASSUME NEW m \in DOMAIN W, NEW n \in DOMAIN W,
             IsStrictPrefix(W[m].path, W[n].path)
      PROVE  m < n
  <2>1. PICK i \in F : W[m] = items[i]
    BY <1>1
  <2>2. PICK j \in F : W[n] = items[j]
    BY <1>1
  <2>3. i < j
    BY <1>2, <2>1, <2>2 DEF F
  <2> QED BY <1>1, <2>1, <2>2, <2>3
<1> QED BY <1>1, <1>2 DEF Sorted, W

\* What an operation about from and to leaves of the items in B, and what it
\* does to the item it is about, when S is the list in the end
Carried(item, from, to) ==
    IF to # <<>> /\ IsPrefix(from, item.path)
    THEN [item EXCEPT !.path = to \o SubSeq(@, Len(from) + 1, Len(@))]
    ELSE item
Taken(from, to, B) == from # to /\ \E item \in B : item.path = to
Stay(from, to, B, S) ==
    \A item \in B :
        \/ item.path = from
        \/ Carried(item, from, to) \in S
        \/ Taken(from, to, B) /\ (IsPrefix(from, item.path) \/ IsPrefix(to, item.path))
Effect(from, to, S) ==
    from # <<>> =>
        /\ \A item \in S :
              item.place # Folder /\ item.path = from => to = from
        /\ to # <<>> => \E item \in S : item.path = to

\* The operation went well, and its list is one to save.
Done(from, to, items) ==
    /\ Sorted(Written(items))
    /\ Stay(from, to, ToSet(list), ToSet(Written(items)))
    /\ Effect(from, to, ToSet(Written(items)))

LEMMA ToItself ==
    ASSUME NEW p \in Seq(Labels), NEW q \in Seq(Labels), IsPrefix(p, q)
    PROVE  p \o SubSeq(q, Len(p) + 1, Len(q)) = q
<1>1. Len(p) <= Len(q) /\ \A k \in 1..Len(p) : p[k] = q[k]
  BY PrefixIs
<1> DEFINE r == SubSeq(q, Len(p) + 1, Len(q))
<1>2. /\ r \in Seq(Labels) /\ Len(r) = Len(q) - Len(p)
      /\ \A k \in 1..Len(r) : r[k] = q[k + Len(p)]
  BY <1>1
<1> HIDE DEF r
<1>3. /\ p \o r \in Seq(Labels) /\ Len(p \o r) = Len(p) + Len(r)
      /\ \A k \in 1..Len(p) : (p \o r)[k] = p[k]
      /\ \A k \in Len(p)+1..Len(p)+Len(r) : (p \o r)[k] = r[k - Len(p)]
  BY <1>2
<1>4. ASSUME NEW k \in 1..Len(q) PROVE (p \o r)[k] = q[k]
  <2>1. CASE k <= Len(p)
    BY <1>1, <1>3, <2>1
  <2>2. CASE ~(k <= Len(p))
    BY <1>1, <1>2, <1>3, <2>2
  <2> QED BY <2>1, <2>2
<1> QED BY <1>2, <1>3, <1>4 DEF r

LEMMA CarriedToItself ==
    ASSUME NEW item \in Items, NEW p \in Seq(Labels)
    PROVE  Carried(item, p, p) = item
<1>1. item.path \in Seq(Labels)
  BY DEF Items, Names
<1>2. CASE p # <<>> /\ IsPrefix(p, item.path)
  <2>1. p \o SubSeq(item.path, Len(p) + 1, Len(item.path)) = item.path
    BY <1>1, <1>2, ToItself
  <2>2. [item EXCEPT !.path = item.path] = item
    BY DEF Items
  <2> QED BY <1>2, <2>1, <2>2 DEF Carried
<1>3. CASE ~(p # <<>> /\ IsPrefix(p, item.path))
  BY <1>3 DEF Carried
<1> QED BY <1>2, <1>3

LEMMA AddDone ==
    ASSUME list \in Lists, Ordered(list), NEW item \in Items
    PROVE  Done(item.path, item.path, Append(list, item))
<1> DEFINE new == Append(list, item)
           n == Len(list)
           F == FirstOfName(new)
<1>1. /\ new \in Lists /\ n \in Nat /\ DOMAIN list = 1..n /\ DOMAIN new = 1..n+1
      /\ \A i \in 1..n : new[i] = list[i]
      /\ new[n+1] = item
  BY DEF Lists
<1>2. item.path \in Names /\ item.path \in Seq(Labels)
  BY DEF Items, Names
<1> HIDE DEF new, n
<1>3. 1..n \subseteq F
  <2>1. ASSUME NEW i \in 1..n, NEW j \in 1..i-1 PROVE new[j].path # new[i].path
    <3>1. j \in 1..n /\ i # j
      BY <1>1
    <3> QED BY <1>1, <3>1 DEF Ordered, Distinct
  <2> QED BY <1>1, <2>1 DEF FirstOfName
<1>4. ASSUME NEW i \in F, NEW j \in F, IsStrictPrefix(new[i].path, new[j].path)
      PROVE  i < j
  <2>1. i \in 1..n+1 /\ j \in 1..n+1
    BY <1>1 DEF FirstOfName
  <2>2. CASE i \in 1..n /\ j \in 1..n
    BY <1>1, <1>4, <2>2, OrderedBefore
  <2>3. CASE i \in 1..n /\ j = n+1
    BY <1>1, <2>3
  <2>4. CASE i = n+1 /\ j \in 1..n
    <3>1. PICK m \in DOMAIN list : list[m].path = item.path
      BY <1>1, <1>2, <1>4, <2>4, OrderedFolder
    <3>2. m \in 1..i-1 /\ new[m].path = new[i].path
      BY <1>1, <2>4, <3>1
    <3> QED BY <3>2 DEF FirstOfName
  <2>5. CASE i = n+1 /\ j = n+1
    BY <1>4, <2>5 DEF IsStrictPrefix
  <2> QED BY <1>1, <2>1, <2>2, <2>3, <2>4, <2>5
<1>5. Sorted(Written(new))
  BY <1>1, <1>4, WrittenSorted
<1>6. \A old \in ToSet(list) : Carried(old, item.path, item.path) \in ToSet(Written(new))
  <2> SUFFICES ASSUME NEW i \in DOMAIN list
               PROVE  Carried(list[i], item.path, item.path) \in ToSet(Written(new))
    BY DEF ToSet
  <2>1. list[i] \in Items
    BY ItemOfList
  <2>2. new[i] = list[i] /\ i \in F
    BY <1>1, <1>3
  <2>3. list[i] \in ToSet(Written(new))
    BY <1>1, <2>2, WrittenHas
  <2> QED BY <1>2, <2>1, <2>3, CarriedToItself
<1>7. \E old \in ToSet(Written(new)) : old.path = item.path
  <2>1. n + 1 \in DOMAIN new
    BY <1>1
  <2> QED BY <1>1, <2>1, WrittenHas
<1> QED BY <1>5, <1>6, <1>7 DEF Done, Stay, Effect, new

LEMMA WithoutIs ==
    ASSUME NEW items \in Lists, NEW f \in DOMAIN items
    PROVE  /\ RemoveAt(items, f) \in Lists
           /\ DOMAIN RemoveAt(items, f) = 1..Len(items) - 1
           /\ \A k \in 1..Len(items) - 1 :
                 RemoveAt(items, f)[k] = IF k < f THEN items[k] ELSE items[k + 1]
<1> DEFINE a == SubSeq(items, 1, f - 1)
           b == SubSeq(items, f + 1, Len(items))
           n == Len(items)
<1>0. items \in Seq(Items) /\ n \in Nat /\ f \in 1..n
  BY DomainIs DEF Lists
<1>1. /\ a \in Seq(Items) /\ Len(a) = f - 1
      /\ \A k \in 1..f-1 : a[k] = items[k]
  BY <1>0
<1>2. /\ b \in Seq(Items) /\ Len(b) = n - f
      /\ \A k \in 1..n - f : b[k] = items[k + f]
  BY <1>0
<1>3. RemoveAt(items, f) = a \o b
  BY DEF RemoveAt
<1> HIDE DEF a, b, n
<1>4. /\ a \o b \in Seq(Items) /\ Len(a \o b) = Len(a) + Len(b)
      /\ \A k \in 1..Len(a) : (a \o b)[k] = a[k]
      /\ \A k \in Len(a)+1..Len(a)+Len(b) : (a \o b)[k] = b[k - Len(a)]
  BY <1>1, <1>2
<1>5. Len(a \o b) = n - 1 /\ DOMAIN (a \o b) = 1..n-1
  <2>1. Len(a \o b) = n - 1
    BY <1>0, <1>1, <1>2, <1>4
  <2>2. DOMAIN (a \o b) = 1..Len(a \o b)
    BY <1>4
  <2> QED BY <2>1, <2>2
<1>6. ASSUME NEW k \in 1..n-1
      PROVE  (a \o b)[k] = IF k < f THEN items[k] ELSE items[k + 1]
  <2>1. CASE k < f
    BY <1>0, <1>1, <1>4, <2>1
  <2>2. CASE ~(k < f)
    <3>1. k \in Int /\ f \in Int /\ n \in Int /\ 1 <= f /\ k >= f /\ k <= n - 1
      BY <1>0, <2>2
    <3>2. Len(a) = f - 1 /\ Len(b) = n - f
      BY <1>1, <1>2
    <3>3. k \in Len(a)+1..Len(a)+Len(b) /\ k - Len(a) \in 1..n-f
          /\ k - Len(a) + f = k + 1
      BY <3>1, <3>2
    <3> QED BY <1>2, <1>4, <2>2, <3>3
  <2> QED BY <2>1, <2>2
<1> QED BY <1>3, <1>4, <1>5, <1>6 DEF Lists, n

LEMMA DeleteDone ==
    ASSUME list \in Lists, Ordered(list), NEW path \in Names, Named(list, path)
    PROVE  Done(path, <<>>, WithoutFirst(path))
<1> DEFINE new == WithoutFirst(path)
           f == FirstIndex(path)
           n == Len(list)
           h(k) == IF k < f THEN k ELSE k + 1
<1>1. f \in DOMAIN list /\ list[f].path = path
  BY FirstIndexIs
<1>2. n \in Nat /\ DOMAIN list = 1..n
  BY DomainIs
<1>3. /\ new \in Lists /\ DOMAIN new = 1..n-1
      /\ \A k \in 1..n-1 : new[k] = list[h(k)]
  BY <1>1, WithoutIs DEF WithoutFirst
<1> HIDE DEF new, f, n
<1>4. /\ \A k \in 1..n-1 : h(k) \in DOMAIN list /\ h(k) # f
      /\ \A k, m \in 1..n-1 : h(k) < h(m) <=> k < m
      /\ \A k, m \in 1..n-1 : h(k) = h(m) => k = m
      /\ \A i \in DOMAIN list : i = f \/ \E k \in 1..n-1 : i = h(k)
  <2>1. \A i \in DOMAIN list : i < f => i \in 1..n-1 /\ h(i) = i
    BY <1>1, <1>2
  <2>2. \A i \in DOMAIN list : f < i => i - 1 \in 1..n-1 /\ h(i - 1) = i
    BY <1>1, <1>2
  <2>3. \A i \in DOMAIN list : i = f \/ i < f \/ f < i
    BY <1>1, <1>2
  <2> QED BY <1>1, <1>2, <2>1, <2>2, <2>3
<1> HIDE DEF h
<1>5. \A k, m \in 1..n-1 : new[k].path = new[m].path => k = m
  BY <1>3, <1>4 DEF Ordered, Distinct
<1>6. FirstOfName(new) = 1..n-1
  <2>1. ASSUME NEW k \in 1..n-1, NEW m \in 1..k-1 PROVE new[m].path # new[k].path
    <3>1. m \in 1..n-1 /\ m # k
      BY <1>2
    <3> QED BY <1>5, <3>1
  <2> QED BY <1>3, <2>1 DEF FirstOfName
<1>7. Sorted(Written(new))
  <2>1. ASSUME NEW k \in 1..n-1, NEW m \in 1..n-1,
               IsStrictPrefix(new[k].path, new[m].path)
        PROVE  k < m
    <3>1. h(k) < h(m)
      BY <1>3, <1>4, <2>1, OrderedBefore
    <3> QED BY <1>4, <3>1
  <2> QED BY <1>3, <1>6, <2>1, WrittenSorted
<1>8. ASSUME NEW i \in DOMAIN list, list[i].path # path
      PROVE  list[i] \in ToSet(Written(new))
  <2>1. PICK k \in 1..n-1 : i = h(k)
    BY <1>1, <1>4, <1>8
  <2> QED BY <1>3, <1>6, <2>1, WrittenHas
<1>9. \A item : Carried(item, path, <<>>) = item
  BY DEF Carried
<1>10. \A item \in ToSet(Written(new)) : item.path # path
  <2>1. ToSet(Written(new)) \subseteq ToSet(new)
    BY <1>3, WrittenHas
  <2>2. ASSUME NEW k \in 1..n-1 PROVE new[k].path # path
    BY <1>1, <1>3, <1>4 DEF Ordered, Distinct
  <2> QED BY <1>3, <2>1, <2>2 DEF ToSet
<1>11. Stay(path, <<>>, ToSet(list), ToSet(Written(new)))
  BY <1>8, <1>9 DEF Stay, ToSet
<1>12. Effect(path, <<>>, ToSet(Written(new)))
  BY <1>10 DEF Effect
<1> QED BY <1>7, <1>11, <1>12 DEF Done, new

\* A name below from, below to
Shifted(q, from, to) == to \o SubSeq(q, Len(from) + 1, Len(q))

LEMMA ShiftedIs ==
    ASSUME NEW q \in Names, NEW from \in Names, NEW to \in Names,
           Len(from) = Len(to), IsPrefix(from, q)
    PROVE  LET s == Shifted(q, from, to)
           IN  /\ s \in Names /\ Len(s) = Len(q) /\ Len(from) <= Len(q)
               /\ \A k \in 1..Len(q) : s[k] = IF k <= Len(from) THEN to[k] ELSE q[k]
               /\ IsPrefix(to, s)
<1> DEFINE r == SubSeq(q, Len(from) + 1, Len(q))
           s == Shifted(q, from, to)
<1>1. /\ q \in Seq(Labels) /\ from \in Seq(Labels) /\ to \in Seq(Labels)
      /\ Len(from) \in Nat /\ Len(q) \in Nat /\ Len(from) # 0
  BY DEF Names
<1>2. Len(from) <= Len(q)
  BY <1>1, PrefixIs
<1>3. /\ r \in Seq(Labels) /\ Len(r) = Len(q) - Len(from)
      /\ \A k \in 1..Len(r) : r[k] = q[k + Len(from)]
  BY <1>1, <1>2
<1>4. s = to \o r
  BY DEF Shifted
<1> HIDE DEF r, s
<1>5. /\ s \in Seq(Labels) /\ Len(s) = Len(to) + Len(r)
      /\ \A k \in 1..Len(to) : s[k] = to[k]
      /\ \A k \in Len(to)+1..Len(to)+Len(r) : s[k] = r[k - Len(to)]
  BY <1>1, <1>3, <1>4
<1>6. Len(s) = Len(q)
  BY <1>1, <1>3, <1>5
<1>7. ASSUME NEW k \in 1..Len(q)
      PROVE  s[k] = IF k <= Len(from) THEN to[k] ELSE q[k]
  <2>1. CASE k <= Len(from)
    BY <1>1, <1>5, <2>1
  <2>2. CASE ~(k <= Len(from))
    <3>1. /\ k \in Len(to)+1..Len(to)+Len(r) /\ k - Len(to) \in 1..Len(r)
          /\ k - Len(to) + Len(from) = k
      BY <1>1, <1>3, <2>2
    <3> QED BY <1>3, <1>5, <2>2, <3>1
  <2> QED BY <2>1, <2>2
<1>8. s \in Names
  <2>1. s # <<>>
    BY <1>1, <1>2, <1>5, <1>6
  <2> QED BY <1>5, <2>1 DEF Names
<1>9. IsPrefix(to, s)
  BY <1>1, <1>2, <1>5, <1>6, PrefixIs
<1> QED BY <1>2, <1>6, <1>7, <1>8, <1>9 DEF s

\* The item the operation is about and what is below it get new names, the
\* others keep theirs.
LEMMA RenamedIs ==
    ASSUME list \in Lists, NEW from \in Names, NEW to \in Names,
           Len(from) = Len(to), Named(list, from)
    PROVE  LET new == Renamed(from, to)
           IN  /\ new \in Lists /\ DOMAIN new = DOMAIN list
               /\ \A i \in DOMAIN list :
                     Distinct(list) =>
                        IF IsPrefix(from, list[i].path)
                        THEN new[i] = [list[i] EXCEPT !.path = Shifted(@, from, to)]
                        ELSE new[i] = list[i]
<1> DEFINE new == Renamed(from, to)
           f == FirstIndex(from)
           M(i) == i = f \/ IsStrictPrefix(from, list[i].path)
<1>1. f \in DOMAIN list /\ list[f].path = from
  BY FirstIndexIs
<1>2. /\ DOMAIN new = DOMAIN list
      /\ \A i \in DOMAIN list :
            new[i] = IF M(i) THEN [list[i] EXCEPT !.path = Shifted(@, from, to)]
                     ELSE list[i]
  BY DEF Renamed, Shifted
<1>3. new = [i \in DOMAIN list |-> new[i]]
  BY DEF Renamed
<1>4. from \in Seq(Labels)
  BY DEF Names
<1> HIDE DEF new, f
<1>5. IsPrefix(from, from)
  BY <1>4, PrefixIs
<1>6. \A i \in DOMAIN list : M(i) => IsPrefix(from, list[i].path)
  BY <1>1, <1>5 DEF IsStrictPrefix
<1>7. ASSUME Distinct(list), NEW i \in DOMAIN list, IsPrefix(from, list[i].path)
      PROVE  M(i)
  BY <1>1, <1>7 DEF Distinct, IsStrictPrefix
<1>8. ASSUME NEW i \in DOMAIN list PROVE new[i] \in Items
  <2>1. list[i] \in Items /\ list[i].path \in Names
    BY ItemOfList
  <2>2. CASE M(i)
    <3>1. Shifted(list[i].path, from, to) \in Names
      BY <1>6, <2>1, <2>2, ShiftedIs
    <3> QED BY <1>2, <2>1, <2>2, <3>1 DEF Items
  <2>3. CASE ~M(i)
    BY <1>2, <2>1, <2>3
  <2> QED BY <2>2, <2>3
<1>9. new \in Lists
  <2>1. DOMAIN list = 1..Len(list) /\ Len(list) \in Nat
    BY DomainIs
  <2>2. new \in [1..Len(list) -> Items]
    BY <1>2, <1>3, <1>8, <2>1
  <2> QED BY <2>1, <2>2 DEF Lists
<1> HIDE DEF M
<1>10. \A i \in DOMAIN list :
         Distinct(list) =>
            IF IsPrefix(from, list[i].path)
            THEN new[i] = [list[i] EXCEPT !.path = Shifted(@, from, to)]
            ELSE new[i] = list[i]
  BY <1>2, <1>6, <1>7
<1> QED BY <1>2, <1>9, <1>10 DEF new

LEMMA RenameDone ==
    ASSUME list \in Lists, Ordered(list), NEW from \in Names, NEW to \in Names,
           Len(from) = Len(to), \A k \in 1..Len(from) - 1 : from[k] = to[k],
           Named(list, from)
    PROVE  Done(from, to, Renamed(from, to))
<1> DEFINE new == Renamed(from, to)
           c == Len(from)
           M(i) == IsPrefix(from, list[i].path)
           F == FirstOfName(new)
           Old(i) == list[i].path
           New(i) == new[i].path
<1>1. /\ new \in Lists /\ DOMAIN new = DOMAIN list
      /\ \A i \in DOMAIN list :
            IF M(i)
            THEN new[i] = [list[i] EXCEPT !.path = Shifted(@, from, to)]
            ELSE new[i] = list[i]
  BY RenamedIs DEF Ordered
<1> HIDE DEF new
<1>2. \A i \in DOMAIN list :
         /\ i \in Nat /\ 1 <= i /\ list[i] \in Items
         /\ Old(i) \in Names /\ Old(i) \in Seq(Labels) /\ Len(Old(i)) \in Nat
         /\ New(i) \in Names /\ New(i) \in Seq(Labels)
         /\ 1 <= Len(Old(i))
  <2> TAKE i \in DOMAIN list
  <2>1. i \in Nat /\ 1 <= i
    BY DomainIs
  <2>2. list[i] \in Items /\ Old(i) \in Names /\ Old(i) \in Seq(Labels)
        /\ Len(Old(i)) \in Nat /\ 1 <= Len(Old(i))
    BY ItemOfList, PathLength
  <2>3. New(i) \in Names /\ New(i) \in Seq(Labels)
    BY <1>1, ItemOfList
  <2> QED BY <2>1, <2>2, <2>3
<1>3. /\ from \in Seq(Labels) /\ to \in Seq(Labels) /\ c \in Nat /\ 1 <= c
      /\ Len(to) = c /\ \A k \in 1..c-1 : from[k] = to[k]
  <2>1. Len(from) # 0
    BY DEF Names
  <2> QED BY <2>1 DEF Names
<1>4. \A i \in DOMAIN list : ~M(i) => new[i] = list[i]
  BY <1>1
<1>5. ASSUME NEW i \in DOMAIN list, M(i)
      PROVE  /\ New(i) = Shifted(Old(i), from, to)
             /\ new[i].place = list[i].place
             /\ Carried(list[i], from, to) = new[i]
             /\ Len(New(i)) = Len(Old(i)) /\ c <= Len(Old(i))
             /\ \A k \in 1..Len(Old(i)) :
                   New(i)[k] = IF k <= c THEN to[k] ELSE Old(i)[k]
             /\ \A k \in 1..c : Old(i)[k] = from[k]
             /\ IsPrefix(to, New(i))
  <2>1. new[i] = [list[i] EXCEPT !.path = Shifted(@, from, to)]
    BY <1>1, <1>5
  <2>2. list[i] \in Items /\ Old(i) \in Names
    BY <1>2
  <2>3. New(i) = Shifted(Old(i), from, to) /\ new[i].place = list[i].place
    BY <2>1, <2>2 DEF Items
  <2>4. Carried(list[i], from, to) = new[i]
    BY <1>5, <2>1 DEF Carried, Shifted, Names
  <2>5. \A k \in 1..c : Old(i)[k] = from[k]
    BY <1>2, <1>3, <1>5, PrefixIs
  <2> QED BY <1>5, <2>2, <2>3, <2>4, <2>5, ShiftedIs
<1>6. \A i, j \in DOMAIN list : Old(i) = Old(j) => i = j
  BY DEF Ordered, Distinct
\* Two items get the same name only if one is moved to where the other is.
<1>7. ASSUME NEW u \in DOMAIN list, NEW v \in DOMAIN list, u # v, New(u) = New(v)
      PROVE  /\ M(u) <=> ~M(v)
             /\ Taken(from, to, ToSet(list))
             /\ ~M(u) => IsPrefix(to, Old(u))
  <2>1. ~(M(u) /\ M(v))
    <3> SUFFICES ASSUME M(u), M(v) PROVE FALSE
      OBVIOUS
    <3>1. Len(Old(u)) = Len(Old(v))
      BY <1>5, <1>7
    <3>2. ASSUME NEW k \in 1..Len(Old(u)) PROVE Old(u)[k] = Old(v)[k]
      <4>1. k \in 1..Len(Old(v))
        BY <3>1
      <4>2. CASE k <= c
        <5>1. k \in 1..c
          BY <1>2, <1>3, <4>2
        <5> QED BY <1>5, <5>1
      <4>3. CASE ~(k <= c)
        BY <1>5, <1>7, <4>1, <4>3
      <4> QED BY <4>2, <4>3
    <3>3. Old(u) = Old(v)
      <4>1. Old(u) \in Seq(Labels) /\ Old(v) \in Seq(Labels)
        BY <1>2
      <4> QED BY <3>1, <3>2, <4>1, SameName
    <3> QED BY <1>6, <1>7, <3>3
  <2>2. ~(~M(u) /\ ~M(v))
    BY <1>4, <1>6, <1>7
  <2>3. ASSUME NEW x \in DOMAIN list, NEW y \in DOMAIN list, x # y,
               New(x) = New(y), M(x), ~M(y)
        PROVE  IsPrefix(to, Old(y)) /\ Taken(from, to, ToSet(list))
    <3>1. Old(y) = New(x)
      BY <1>4, <2>3
    <3>2. IsPrefix(to, Old(y))
      BY <1>5, <2>3, <3>1
    <3>3. from # to
      BY <2>3, <3>2
    <3>4. \E z \in DOMAIN list : Old(z) = to
      <4>1. CASE to = Old(y)
        BY <4>1
      <4>2. CASE to # Old(y)
        <5>1. IsStrictPrefix(to, Old(y))
          BY <3>2, <4>2 DEF IsStrictPrefix
        <5> QED BY <5>1, OrderedFolder
      <4> QED BY <4>1, <4>2
    <3> QED BY <3>2, <3>3, <3>4 DEF Taken, ToSet
  <2>4. CASE M(u)
    BY <1>7, <2>1, <2>3, <2>4
  <2>5. CASE ~M(u)
    BY <1>7, <2>2, <2>3, <2>5
  <2> QED BY <2>4, <2>5
\* The folder of an item is where it was, under its new name if it has one.
<1>8. ASSUME NEW j \in DOMAIN list, NEW p \in Names, IsStrictPrefix(p, New(j))
      PROVE  \E m \in DOMAIN list : m < j /\ New(m) = p
  <2> DEFINE l == Len(p)
             r == SubSeq(Old(j), 1, l)
  <2>0. p \in Seq(Labels) /\ l \in Nat /\ 1 <= l
    <3>1. Len(p) # 0
      BY DEF Names
    <3> QED BY <3>1 DEF Names
  <2>1. l <= Len(New(j)) /\ \A k \in 1..l : p[k] = New(j)[k]
    BY <1>2, <1>8, <2>0, PrefixIs DEF IsStrictPrefix
  <2>2. CASE ~M(j)
    <3>1. PICK m \in DOMAIN list : m < j /\ Old(m) = p
      BY <1>4, <1>8, <2>2, OrderedFolder
    <3>2. ~M(m)
      <4> SUFFICES ASSUME M(m) PROVE FALSE
        OBVIOUS
      <4>1. c <= l /\ \A k \in 1..c : p[k] = from[k]
        BY <1>3, <2>0, <3>1, PrefixIs
      <4>2. c <= Len(Old(j)) /\ \A k \in 1..c : Old(j)[k] = from[k]
        BY <1>2, <1>3, <1>4, <2>0, <2>1, <2>2, <4>1
      <4>3. IsPrefix(from, Old(j))
        BY <1>2, <1>3, <4>2, PrefixIs
      <4> QED BY <2>2, <4>3
    <3> QED BY <1>4, <3>1, <3>2
  <2>3. CASE M(j)
    <3>1. /\ Len(New(j)) = Len(Old(j)) /\ c <= Len(Old(j))
          /\ \A k \in 1..Len(Old(j)) :
                New(j)[k] = IF k <= c THEN to[k] ELSE Old(j)[k]
          /\ \A k \in 1..c : Old(j)[k] = from[k]
      BY <1>5, <2>3
    <3>2. l # Len(New(j))
      <4>1. New(j) \in Seq(Labels) /\ p # New(j)
        BY <1>2, <1>8 DEF IsStrictPrefix
      <4> QED BY <2>0, <2>1, <4>1
    <3>3. l \in 1..Len(Old(j)) /\ l # Len(Old(j)) /\ l < Len(Old(j))
      BY <1>2, <2>0, <2>1, <3>1, <3>2
    <3>4. PICK m \in DOMAIN list : m < j /\ Old(m) = r
      BY <3>3 DEF Ordered
    <3>5. Len(Old(m)) = l /\ \A k \in 1..l : Old(m)[k] = Old(j)[k]
      <4>1. Old(j) \in Seq(Labels)
        BY <1>2
      <4>2. Len(r) = l /\ \A k \in 1..l : r[k] = Old(j)[k]
        BY <3>3, <4>1
      <4> QED BY <3>4, <4>2
    <3>6. New(m) = p
      <4>1. New(m) \in Seq(Labels) /\ Old(m) \in Seq(Labels)
        BY <1>2
      <4>2. CASE c <= l
        <5>1. \A k \in 1..c : Old(m)[k] = from[k]
          BY <1>3, <2>0, <3>1, <3>5, <4>2
        <5>2. M(m)
          BY <1>3, <3>5, <4>1, <4>2, <5>1, PrefixIs
        <5>3. Len(New(m)) = l
              /\ \A k \in 1..l : New(m)[k] = IF k <= c THEN to[k] ELSE Old(m)[k]
          BY <1>5, <3>5, <5>2
        <5>4. ASSUME NEW k \in 1..l PROVE New(m)[k] = p[k]
          <6>1. k \in 1..Len(Old(j))
            BY <3>3
          <6>2. p[k] = IF k <= c THEN to[k] ELSE Old(j)[k]
            BY <2>1, <3>1, <6>1
          <6> QED BY <3>5, <5>3, <6>2
        <5> QED BY <2>0, <4>1, <5>3, <5>4, SameName
      <4>3. CASE ~(c <= l)
        <5>1. ~M(m)
          BY <1>3, <3>5, <4>1, <4>3, PrefixIs
        <5>2. New(m) = Old(m)
          BY <1>4, <5>1
        <5>3. ASSUME NEW k \in 1..l PROVE Old(m)[k] = p[k]
          <6>1. k \in 1..Len(Old(j)) /\ k <= c /\ k \in 1..c-1 /\ k \in 1..c
            BY <1>3, <2>0, <3>3, <4>3
          <6>2. p[k] = to[k]
            BY <2>1, <3>1, <6>1
          <6> QED BY <1>3, <3>1, <3>5, <6>1, <6>2
        <5> QED BY <2>0, <3>5, <4>1, <5>2, <5>3
      <4> QED BY <4>2, <4>3
    <3> QED BY <3>4, <3>6
  <2> QED BY <2>2, <2>3
<1>9. Sorted(Written(new))
  <2>1. ASSUME NEW i \in F, NEW j \in F, IsStrictPrefix(New(i), New(j))
        PROVE  i < j
    <3>1. i \in DOMAIN list /\ j \in DOMAIN list
      BY <1>1 DEF FirstOfName
    <3>2. PICK m \in DOMAIN list : m < j /\ New(m) = New(i)
      BY <1>2, <1>8, <2>1, <3>1
    <3>3. ~(m \in 1..i-1)
      BY <3>2 DEF FirstOfName
    <3> QED BY <1>2, <3>1, <3>2, <3>3
  <2> QED BY <1>1, <2>1, WrittenSorted
<1>10. Stay(from, to, ToSet(list), ToSet(Written(new)))
  <2>1. ASSUME NEW i \in DOMAIN list
        PROVE  \/ Carried(list[i], from, to) \in ToSet(Written(new))
               \/ Taken(from, to, ToSet(list))
                  /\ (IsPrefix(from, Old(i)) \/ IsPrefix(to, Old(i)))
    <3>1. Carried(list[i], from, to) = new[i]
      <4>1. CASE M(i)
        BY <1>5, <4>1
      <4>2. CASE ~M(i)
        BY <1>4, <4>2 DEF Carried
      <4> QED BY <4>1, <4>2
    <3>2. CASE i \in F
      BY <1>1, <3>1, <3>2, WrittenHas
    <3>3. CASE i \notin F
      <4>1. PICK j \in 1..i-1 : New(j) = New(i)
        BY <1>1, <3>3 DEF FirstOfName
      <4>2. j \in DOMAIN list /\ i # j
        BY <1>2, DomainIs
      <4> QED BY <1>7, <4>1, <4>2
    <3> QED BY <3>2, <3>3
  <2> QED BY <2>1 DEF Stay, ToSet
<1>11. Effect(from, to, ToSet(Written(new)))
  <2>1. ASSUME NEW i \in DOMAIN list, New(i) = from
        PROVE  to = from
    <3>1. M(i)
      <4> SUFFICES ASSUME ~M(i) PROVE FALSE
        OBVIOUS
      <4>1. IsPrefix(from, from)
        BY <1>3, PrefixIs
      <4> QED BY <1>4, <2>1, <4>1
    <3>2. IsPrefix(to, from)
      BY <1>5, <2>1, <3>1
    <3> QED BY <1>3, <3>2, PrefixIs
  <2>2. \A item \in ToSet(Written(new)) : item.path = from => to = from
    <3>1. TAKE item \in ToSet(Written(new))
    <3>2. item \in ToSet(new)
      BY <1>1, WrittenHas
    <3>3. PICK i \in DOMAIN new : item = new[i]
      BY <3>2 DEF ToSet
    <3> QED BY <1>1, <2>1, <3>3
  <2>3. \E item \in ToSet(Written(new)) : item.path = to
    <3> DEFINE f == FirstIndex(from)
    <3>1. f \in DOMAIN list /\ Old(f) = from
      BY FirstIndexIs
    <3>2. M(f)
      BY <1>3, <3>1, PrefixIs
    <3>3. New(f) = to
      BY <1>2, <1>3, <1>5, <3>1, <3>2
    <3> QED BY <1>1, <3>1, <3>3, WrittenHas
  <2> QED BY <2>2, <2>3 DEF Effect
<1> QED BY <1>9, <1>10, <1>11 DEF Done, new

-----------------------------------------------------------------------------
(* The invariant *)

Clips == [path : {<<label>> : label \in Labels}, place : Places \cup {Folder}]

Types ==
    /\ file \in Lists \cup {Missing} /\ tmp \in Lists \cup {Missing}
    /\ list \in Lists /\ current \in Seq(Labels)
    /\ clipboard \in Clips \cup {Missing}
    /\ torn \in BOOLEAN /\ faults \in Nat

\* Where the items written last are: in the working file before the other one
\* goes, and until it has its name.
Kept(items, how, S) ==
    how # "failed" =>
        \A i \in DOMAIN items : items[i] \in S \/ (i = 1 /\ how = "joined")

DiskInv ==
    /\ Kept(saved.items, saved.flaw, ToSet(LinesOf(file)) \cup ToSet(LinesOf(tmp)))
    /\ pc \in {"unlink", "rename"} => tmp # Missing
    /\ pc = "unlink" => Kept(Written(list), flaw, ToSet(LinesOf(tmp)))
    /\ pc = "rename" => Kept(saved.items, saved.flaw, ToSet(LinesOf(tmp)))

\* What the operation was to do can be seen in S.
DoneIn(S) ==
    /\ Stay(subject.from, subject.to, before, S)
    /\ Effect(subject.from, subject.to, S)
LoadedFor(S, items) ==
    /\ S \subseteq ToSet(items)
    /\ \A item \in ToSet(items) \ S :
          /\ item.place = Folder
          /\ \E child \in S : IsStrictPrefix(item.path, child.path)

IdleInv == /\ tmp = Missing /\ Ordered(list)
           /\ LoadedFor(ToSet(saved.items), list) /\ DoneIn(ToSet(list))
SavingInv == Sorted(Written(list)) /\ DoneIn(ToSet(Written(list)))
SavedInv(f) == f \in Lists /\ Sorted(f) /\ saved.items = f /\ DoneIn(ToSet(f))

ListInv ==
    faults = 0 =>
        /\ ~torn
        /\ pc = "idle" => IdleInv
        /\ pc = "write" => SavingInv /\ tmp = Missing
        /\ pc = "unlink" => SavingInv /\ tmp = Written(list)
        /\ pc = "rename" => SavedInv(tmp)
        /\ pc = "load" => SavedInv(file) /\ tmp = Missing

BookmarksInv == Types /\ DiskInv /\ ListInv

LEMMA InitInv == Init => BookmarksInv
<1> SUFFICES ASSUME Init PROVE BookmarksInv
  OBVIOUS
<1> USE DEF Init
<1>1. <<>> \in Lists /\ <<>> \in Seq(Labels) /\ DOMAIN <<>> = {}
  BY DEF Lists
<1>2. Types
  BY <1>1 DEF Types
<1>3. DiskInv
  BY <1>1 DEF DiskInv, Kept
<1>4. ToSet(list) = {} /\ ToSet(saved.items) = {}
  BY <1>1 DEF ToSet
<1>5. Ordered(list)
  BY <1>1 DEF Ordered, Distinct
<1>6. DoneIn(ToSet(list))
  BY <1>4 DEF DoneIn, Stay, Effect
<1>7. ListInv
  BY <1>4, <1>5, <1>6 DEF ListInv, IdleInv, LoadedFor
<1> QED BY <1>2, <1>3, <1>7 DEF BookmarksInv

LEMMA HereType ==
    ASSUME current \in Seq(Labels), NEW label \in Labels
    PROVE  /\ Here(label) \in Names
           /\ Len(Here(label)) = Len(current) + 1
           /\ \A k \in 1..Len(current) : Here(label)[k] = current[k]
<1>1. /\ Append(current, label) \in Seq(Labels)
      /\ Len(Append(current, label)) = Len(current) + 1
      /\ \A k \in 1..Len(current) : Append(current, label)[k] = current[k]
  OBVIOUS
<1>2. Append(current, label) # <<>>
  <2>1. Len(current) \in Nat /\ Len(<<>>) = 0
    OBVIOUS
  <2> QED BY <1>1, <2>1
<1> QED BY <1>1, <1>2 DEF Here, Names

LEMMA SaveKeeps ==
    ASSUME BookmarksInv, pc = "idle", NEW items \in Lists, NEW from, NEW to,
           Save(items, from, to), clipboard' \in Clips \cup {Missing},
           faults = 0 => Done(from, to, items)
    PROVE  BookmarksInv'
<1> USE DEF BookmarksInv
<1>1. /\ list' = items /\ pc' = "write" /\ before' = ToSet(list)
      /\ subject'.from = from /\ subject'.to = to
      /\ file' = file /\ tmp' = tmp /\ torn' = torn /\ current' = current
      /\ saved' = saved /\ flaw' = flaw /\ faults' = faults
  BY DEF Save, diskVars
<1>2. Types'
  BY <1>1 DEF Types
<1>3. DiskInv'
  BY <1>1 DEF DiskInv, LinesOf
<1>4. ListInv'
  <2> SUFFICES ASSUME faults = 0 PROVE SavingInv' /\ tmp' = Missing
    BY <1>1 DEF ListInv
  <2>1. tmp' = Missing
    BY <1>1 DEF ListInv, IdleInv
  <2>2. SavingInv'
    BY <1>1 DEF SavingInv, DoneIn, Done
  <2> QED BY <2>1, <2>2
<1> QED BY <1>2, <1>3, <1>4

\* Operations that leave the list and the files as they are
LEMMA SameList ==
    ASSUME BookmarksInv, current' \in Seq(Labels),
           clipboard' \in Clips \cup {Missing},
           UNCHANGED <<diskVars, list, pc, historyVars, faults>>
    PROVE  BookmarksInv'
<1> USE DEF BookmarksInv
<1>1. /\ file' = file /\ tmp' = tmp /\ torn' = torn /\ list' = list /\ pc' = pc
      /\ subject' = subject /\ before' = before /\ saved' = saved
      /\ flaw' = flaw /\ faults' = faults
  BY DEF diskVars, historyVars
<1>2. Types'
  BY <1>1 DEF Types
<1>3. DiskInv'
  BY <1>1 DEF DiskInv, LinesOf
<1>4. DoneIn(ToSet(list))' = DoneIn(ToSet(list))
      /\ DoneIn(ToSet(Written(list)))' = DoneIn(ToSet(Written(list)))
      /\ DoneIn(ToSet(tmp))' = DoneIn(ToSet(tmp))
      /\ DoneIn(ToSet(file))' = DoneIn(ToSet(file))
  BY <1>1 DEF DoneIn
<1>5. /\ IdleInv' <=> IdleInv
      /\ SavingInv' <=> SavingInv
      /\ SavedInv(tmp)' <=> SavedInv(tmp)
      /\ SavedInv(file)' <=> SavedInv(file)
  BY <1>1, <1>4 DEF IdleInv, SavingInv, SavedInv
<1>6. ListInv'
  BY <1>1, <1>5 DEF ListInv
<1> QED BY <1>2, <1>3, <1>6

LEMMA AddBookmarkInv ==
    ASSUME BookmarksInv, NEW label \in Labels,
           NEW place \in Places \cup {Folder}, AddBookmark(label, place)
    PROVE  BookmarksInv'
<1> DEFINE item == [path |-> Here(label), place |-> place]
<1>1. Here(label) \in Names /\ list \in Lists
  BY HereType DEF BookmarksInv, Types
<1>2. item \in Items /\ item.path = Here(label)
  BY <1>1 DEF Items
<1> HIDE DEF item
<1>3. Append(list, item) \in Lists
  BY <1>1, <1>2 DEF Lists
<1>4. faults = 0 => Done(Here(label), Here(label), Append(list, item))
  <2>1. pc = "idle"
    BY DEF AddBookmark
  <2>2. faults = 0 => Ordered(list)
    BY <2>1 DEF BookmarksInv, ListInv, IdleInv
  <2> QED BY <1>1, <1>2, <2>2, AddDone
<1>5. pc = "idle" /\ Save(Append(list, item), Here(label), Here(label))
      /\ clipboard' \in Clips \cup {Missing}
  BY DEF AddBookmark, BookmarksInv, Types, item
<1> QED BY <1>3, <1>4, <1>5, SaveKeeps

LEMMA CopiedType ==
    ASSUME BookmarksInv, NEW label \in Labels, Copied(label)
    PROVE  clipboard' \in Clips
<1>1. list \in Lists
  BY DEF BookmarksInv, Types
<1>2. FirstIndex(Here(label)) \in DOMAIN list
  BY <1>1, FirstIndexIs DEF Copied
<1>3. list[FirstIndex(Here(label))].place \in Places \cup {Folder}
  BY <1>1, <1>2, ItemOfList
<1> QED BY <1>3 DEF Copied, Clips

LEMMA CopyBookmarkInv ==
    ASSUME BookmarksInv, NEW label \in Labels, CopyBookmark(label)
    PROVE  BookmarksInv'
<1>1. clipboard' \in Clips \cup {Missing}
  BY CopiedType DEF CopyBookmark
<1>2. current' \in Seq(Labels)
  BY DEF CopyBookmark, BookmarksInv, Types
<1> QED BY <1>1, <1>2, SameList DEF CopyBookmark

LEMMA PasteBookmarkInv == BookmarksInv /\ PasteBookmark => BookmarksInv'
<1> SUFFICES ASSUME BookmarksInv, PasteBookmark PROVE BookmarksInv'
  OBVIOUS
<1> DEFINE name == Here(clipboard.path[1])
           item == [path |-> name, place |-> clipboard.place]
<1>1. clipboard \in Clips /\ list \in Lists
  BY DEF PasteBookmark, BookmarksInv, Types
<1>2. clipboard.path[1] \in Labels /\ clipboard.place \in Places \cup {Folder}
  BY <1>1 DEF Clips
<1>3. name \in Names
  BY <1>2, HereType DEF BookmarksInv, Types
<1>4. pc = "idle" /\ Save(Append(list, item), name, name) /\ clipboard' = clipboard
  BY DEF PasteBookmark
<1>5. item \in Items /\ item.path = name
  BY <1>2, <1>3 DEF Items
<1> HIDE DEF item, name
<1>6. Append(list, item) \in Lists
  BY <1>1, <1>5 DEF Lists
<1>7. faults = 0 => Done(name, name, Append(list, item))
  <2>1. faults = 0 => Ordered(list)
    BY <1>4 DEF BookmarksInv, ListInv, IdleInv
  <2> QED BY <1>1, <1>5, <2>1, AddDone
<1> QED BY <1>1, <1>4, <1>6, <1>7, SaveKeeps

LEMMA DeletedInv ==
    ASSUME BookmarksInv, pc = "idle", NEW label \in Labels, Deleted(label),
           clipboard' \in Clips \cup {Missing}
    PROVE  BookmarksInv'
<1> DEFINE path == Here(label)
<1>1. path \in Names /\ list \in Lists
  BY HereType DEF BookmarksInv, Types
<1>2. Named(list, path) /\ Save(WithoutFirst(path), path, <<>>)
  BY DEF Deleted
<1> HIDE DEF path
<1>3. WithoutFirst(path) \in Lists
  BY <1>1, <1>2, FirstIndexIs, WithoutIs DEF WithoutFirst
<1>4. faults = 0 => Done(path, <<>>, WithoutFirst(path))
  <2>1. faults = 0 => Ordered(list)
    BY DEF BookmarksInv, ListInv, IdleInv
  <2> QED BY <1>1, <1>2, <2>1, DeleteDone
<1> QED BY <1>2, <1>3, <1>4, SaveKeeps

LEMMA RenameBookmarkInv ==
    ASSUME BookmarksInv, NEW old \in Labels, NEW new \in Labels,
           RenameBookmark(old, new)
    PROVE  BookmarksInv'
<1> DEFINE from == Here(old)
           to == Here(new)
<1>1. /\ from \in Names /\ to \in Names /\ list \in Lists
      /\ Len(from) = Len(current) + 1 /\ Len(to) = Len(current) + 1
      /\ \A k \in 1..Len(current) : from[k] = to[k]
  BY HereType DEF BookmarksInv, Types
<1>2. /\ pc = "idle" /\ Named(list, from) /\ Save(Renamed(from, to), from, to)
      /\ clipboard' = clipboard
  BY DEF RenameBookmark
<1> HIDE DEF from, to
<1>3. Len(from) = Len(to) /\ \A k \in 1..Len(from) - 1 : from[k] = to[k]
  <2>1. Len(current) \in Nat
    BY DEF BookmarksInv, Types
  <2> QED BY <1>1, <2>1
<1>4. Renamed(from, to) \in Lists
  BY <1>1, <1>2, <1>3, RenamedIs
<1>5. faults = 0 => Done(from, to, Renamed(from, to))
  <2>1. faults = 0 => Ordered(list)
    BY <1>2 DEF BookmarksInv, ListInv, IdleInv
  <2> QED BY <1>1, <1>2, <1>3, <2>1, RenameDone
<1>6. clipboard' \in Clips \cup {Missing}
  BY <1>2 DEF BookmarksInv, Types
<1> QED BY <1>2, <1>4, <1>5, <1>6, SaveKeeps

LEMMA MoveInv ==
    ASSUME BookmarksInv,
           (\E label \in Labels : MoveDown(label)) \/ MoveUp
    PROVE  BookmarksInv'
<1>1. current \in Seq(Labels) /\ clipboard \in Clips \cup {Missing}
  BY DEF BookmarksInv, Types
<1>2. ASSUME NEW label \in Labels, MoveDown(label) PROVE BookmarksInv'
  <2>1. current' \in Seq(Labels)
    BY <1>1, <1>2, HereType DEF MoveDown, Names
  <2> QED BY <1>1, <1>2, <2>1, SameList DEF MoveDown
<1>3. CASE MoveUp
  <2>1. current' \in Seq(Labels)
    BY <1>1, <1>3 DEF MoveUp, Front
  <2> QED BY <1>1, <1>3, <2>1, SameList DEF MoveUp
<1> QED BY <1>2, <1>3

-----------------------------------------------------------------------------
(* Saving, loading, crashes *)

LEMMA Lines2 ==
    ASSUME NEW s \in Lists, NEW t \in Lists
    PROVE  /\ s \o t \in Lists
           /\ ToSet(s \o t) = ToSet(s) \cup ToSet(t)
<1>1. /\ s \o t \in Seq(Items) /\ Len(s \o t) = Len(s) + Len(t)
      /\ \A k \in 1..Len(s) : (s \o t)[k] = s[k]
      /\ \A k \in Len(s)+1..Len(s)+Len(t) : (s \o t)[k] = t[k - Len(s)]
  BY DEF Lists
<1>2. /\ DOMAIN s = 1..Len(s) /\ DOMAIN t = 1..Len(t)
      /\ DOMAIN (s \o t) = 1..Len(s)+Len(t)
      /\ Len(s) \in Nat /\ Len(t) \in Nat
  BY <1>1, DomainIs DEF Lists
<1>3. ASSUME NEW k \in DOMAIN (s \o t)
      PROVE  (s \o t)[k] \in ToSet(s) \cup ToSet(t)
  <2>1. CASE k <= Len(s)
    <3>1. k \in DOMAIN s
      BY <1>2, <2>1
    <3> QED BY <1>1, <1>2, <3>1 DEF ToSet
  <2>2. CASE ~(k <= Len(s))
    <3>1. k \in Len(s)+1..Len(s)+Len(t) /\ k - Len(s) \in DOMAIN t
      BY <1>2, <2>2
    <3> QED BY <1>1, <3>1 DEF ToSet
  <2> QED BY <2>1, <2>2
<1>4. ASSUME NEW k \in DOMAIN s PROVE s[k] \in ToSet(s \o t)
  <2>1. k \in DOMAIN (s \o t) /\ (s \o t)[k] = s[k]
    BY <1>1, <1>2
  <2> QED BY <2>1 DEF ToSet
<1>5. ASSUME NEW k \in DOMAIN t PROVE t[k] \in ToSet(s \o t)
  <2>1. /\ k + Len(s) \in DOMAIN (s \o t) /\ k + Len(s) \in Len(s)+1..Len(s)+Len(t)
        /\ k + Len(s) - Len(s) = k
    BY <1>2
  <2>2. (s \o t)[k + Len(s)] = t[k]
    BY <1>1, <2>1
  <2> QED BY <2>1, <2>2 DEF ToSet
<1>6. ToSet(s \o t) \subseteq ToSet(s) \cup ToSet(t)
  BY <1>3 DEF ToSet
<1>7. ToSet(s) \subseteq ToSet(s \o t)
  BY <1>4 DEF ToSet
<1>8. ToSet(t) \subseteq ToSet(s \o t)
  BY <1>5 DEF ToSet
<1> QED BY <1>1, <1>6, <1>7, <1>8 DEF Lists

LEMMA DiskFacts ==
    ASSUME BookmarksInv
    PROVE  /\ LinesOf(file) \in Lists /\ LinesOf(tmp) \in Lists
           /\ Written(list) \in Lists
           /\ Loaded(LinesOf(file)) \in Lists
           /\ <<>> \in Seq(Labels)
<1>1. LinesOf(file) \in Lists /\ LinesOf(tmp) \in Lists /\ list \in Lists
  BY LinesOfType DEF BookmarksInv, Types
<1> QED BY <1>1, WrittenHas, LoadedHas

LEMMA ReadingsType == \A r \in Readings : r \in Lists
<1>1. ASSUME NEW n \in 1..MaxDepth+1 PROVE [1..n -> Labels] \subseteq Names
  <2>1. n \in Nat /\ n # 0
    BY BookmarksAssumption
  <2>2. ASSUME NEW path \in [1..n -> Labels] PROVE path \in Names
    <3>1. path \in Seq(Labels)
      BY <2>1
    <3>2. path # <<>>
      <4>1. DOMAIN path = 1..n /\ 1 \in 1..n /\ DOMAIN <<>> = {}
        BY <2>1
      <4> QED BY <4>1
    <3> QED BY <3>1, <3>2 DEF Names
  <2> QED BY <2>2
<1>2. ASSUME NEW item \in
            [path : UNION {[1..n -> Labels] : n \in 1..MaxDepth+1},
             place : Places \cup {Folder}]
      PROVE  <<item>> \in Lists
  <2>1. item \in Items
    BY <1>1 DEF Items
  <2> HIDE DEF Items
  <2> QED BY <2>1 DEF Lists
<1>3. <<>> \in Lists
  BY DEF Lists
<1> QED BY <1>2, <1>3 DEF Readings

LEMMA InTail ==
    ASSUME NEW lines \in Lists, lines # <<>>
    PROVE  /\ Tail(lines) \in Lists
           /\ \A i \in DOMAIN lines : i # 1 => lines[i] \in ToSet(Tail(lines))
<1>1. /\ Tail(lines) \in Lists /\ DOMAIN Tail(lines) = 1..Len(lines)-1
      /\ \A k \in 1..Len(lines)-1 : Tail(lines)[k] = lines[k + 1]
      /\ DOMAIN lines = 1..Len(lines) /\ Len(lines) \in Nat
  BY DEF Lists
<1>2. ASSUME NEW i \in DOMAIN lines, i # 1
      PROVE  lines[i] \in ToSet(Tail(lines))
  <2>1. i - 1 \in DOMAIN Tail(lines) /\ i - 1 + 1 = i
    BY <1>1, <1>2
  <2>2. Tail(lines)[i - 1] = lines[i]
    BY <1>1, <2>1
  <2> QED BY <2>1, <2>2 DEF ToSet
<1> QED BY <1>1, <1>2

\* A line that was cut off costs the first of those that are appended.
LEMMA JoinedHas ==
    ASSUME torn \in BOOLEAN, NEW lines \in Lists, NEW j \in Joined(lines)
    PROVE  /\ j \in Lists
           /\ ~torn => j = lines
           /\ \A i \in DOMAIN lines : lines[i] \in ToSet(j) \/ (i = 1 /\ torn)
<1>1. CASE torn /\ lines # <<>>
  <2>1. PICK r \in Readings : j = r \o Tail(lines)
    BY <1>1 DEF Joined
  <2>2. r \in Lists /\ Tail(lines) \in Lists
    BY <1>1, ReadingsType, InTail
  <2>3. j \in Lists /\ ToSet(j) = ToSet(r) \cup ToSet(Tail(lines))
    BY <2>1, <2>2, Lines2
  <2> QED BY <1>1, <2>3, InTail
<1>2. CASE ~(torn /\ lines # <<>>)
  <2>1. j = lines
    BY <1>2 DEF Joined
  <2>2. lines = <<>> => DOMAIN lines = {}
    OBVIOUS
  <2> QED BY <2>1 DEF ToSet
<1> QED BY <1>1, <1>2

LEMMA WriteInv == BookmarksInv /\ Write => BookmarksInv'
<1> SUFFICES ASSUME BookmarksInv, Write PROVE BookmarksInv'
  OBVIOUS
<1> DEFINE W == Written(list)
<1>1. PICK lines \in Joined(W) :
        /\ pc = "write" /\ pc' = "unlink" /\ tmp' = LinesOf(tmp) \o lines
        /\ torn' = (torn /\ W = <<>>)
        /\ flaw' = IF torn THEN "joined" ELSE "none"
        /\ file' = file /\ list' = list /\ current' = current
        /\ clipboard' = clipboard /\ faults' = faults
        /\ subject' = subject /\ before' = before /\ saved' = saved
  BY DEF Write, Appended
<1>2. LinesOf(tmp) \in Lists /\ W \in Lists /\ torn \in BOOLEAN
  BY DiskFacts DEF BookmarksInv, Types
<1>3. /\ lines \in Lists /\ (~torn => lines = W)
      /\ \A i \in DOMAIN W : W[i] \in ToSet(lines) \/ (i = 1 /\ torn)
  <2> HIDE DEF W
  <2> QED BY <1>2, JoinedHas
<1>4. /\ tmp' \in Lists
      /\ ToSet(tmp') = ToSet(LinesOf(tmp)) \cup ToSet(lines)
  BY <1>1, <1>2, <1>3, Lines2
<1>5. LinesOf(tmp)' = tmp' /\ tmp' # Missing
  BY <1>4, LinesOfType, MissingIsNoList DEF LinesOf
<1>6. Types'
  BY <1>1, <1>2, <1>4 DEF BookmarksInv, Types
<1>7. DiskInv'
  <2>1. Kept(W, flaw', ToSet(tmp'))
    BY <1>1, <1>3, <1>4 DEF Kept
  <2>2. LinesOf(file)' = LinesOf(file)
    BY <1>1 DEF LinesOf
  <2>3. Kept(saved.items, saved.flaw, ToSet(LinesOf(file)) \cup ToSet(tmp'))
    BY <1>4 DEF BookmarksInv, DiskInv, Kept
  <2> QED BY <1>1, <1>5, <2>1, <2>2, <2>3 DEF DiskInv
<1>8. ListInv'
  <2> SUFFICES ASSUME faults = 0 PROVE SavingInv' /\ tmp' = W /\ ~torn'
    BY <1>1 DEF ListInv
  <2>1. SavingInv /\ tmp = Missing /\ ~torn
    BY <1>1 DEF BookmarksInv, ListInv
  <2>2. SavingInv'
    BY <1>1, <2>1 DEF SavingInv, DoneIn
  <2>3. tmp' = <<>> \o W
    BY <1>1, <1>3, <2>1, LinesOfType
  <2>4. <<>> \o W = W
    <3> HIDE DEF W
    <3> QED BY <1>2 DEF Lists
  <2> QED BY <1>1, <2>1, <2>2, <2>3, <2>4
<1> QED BY <1>6, <1>7, <1>8 DEF BookmarksInv

LEMMA UnlinkInv == BookmarksInv /\ Unlink => BookmarksInv'
<1> SUFFICES ASSUME BookmarksInv, Unlink PROVE BookmarksInv'
  OBVIOUS
<1> DEFINE W == Written(list)
<1>1. /\ pc = "unlink" /\ pc' = "rename" /\ file' = Missing
      /\ saved' = [items |-> W, flaw |-> flaw] /\ tmp' = tmp /\ torn' = torn
      /\ list' = list /\ current' = current /\ clipboard' = clipboard
      /\ faults' = faults /\ subject' = subject /\ before' = before
  BY DEF Unlink
<1>2. Types'
  BY <1>1 DEF BookmarksInv, Types
<1>3. DiskInv'
  <2>1. Kept(W, flaw, ToSet(LinesOf(tmp)))
    BY <1>1 DEF BookmarksInv, DiskInv
  <2>2. /\ saved'.items = W /\ saved'.flaw = flaw
        /\ LinesOf(tmp)' = LinesOf(tmp) /\ tmp' # Missing
    BY <1>1 DEF LinesOf, BookmarksInv, DiskInv
  <2>3. Kept(W, flaw, ToSet(LinesOf(file))' \cup ToSet(LinesOf(tmp)))
    BY <2>1 DEF Kept
  <2> HIDE DEF W
  <2> QED BY <1>1, <2>1, <2>2, <2>3 DEF DiskInv, Kept
<1>4. ListInv'
  <2> SUFFICES ASSUME faults = 0 PROVE SavedInv(tmp)' /\ ~torn'
    BY <1>1 DEF ListInv
  <2>1. SavingInv /\ tmp = W /\ ~torn
    BY <1>1 DEF BookmarksInv, ListInv
  <2>2. W \in Lists
    BY DiskFacts
  <2> QED BY <1>1, <2>1, <2>2 DEF SavingInv, SavedInv, DoneIn
<1> QED BY <1>2, <1>3, <1>4 DEF BookmarksInv

LEMMA RenameInv == BookmarksInv /\ Rename => BookmarksInv'
<1> SUFFICES ASSUME BookmarksInv, Rename PROVE BookmarksInv'
  OBVIOUS
<1>1. PICK r \in IF torn THEN Readings ELSE {<<>>} :
        /\ pc = "rename" /\ pc' = "load" /\ file' = tmp \o r /\ tmp' = Missing
        /\ torn' = FALSE
        /\ list' = list /\ current' = current /\ clipboard' = clipboard
        /\ faults' = faults
        /\ subject' = subject /\ before' = before /\ saved' = saved
  BY DEF Rename, historyVars
<1>2. tmp \in Lists
  BY <1>1 DEF BookmarksInv, DiskInv, Types
<1>3. r \in Lists
  <2>1. <<>> \in Lists
    BY DEF Lists
  <2>2. r \in Readings \/ r = <<>>
    OBVIOUS
  <2> QED BY <2>1, <2>2, ReadingsType
<1>4. file' \in Lists /\ ToSet(file') = ToSet(tmp) \cup ToSet(r)
  BY <1>1, <1>2, <1>3, Lines2
<1>5. LinesOf(tmp) = tmp /\ LinesOf(file)' = file'
  BY <1>2, <1>4, LinesOfType DEF LinesOf
<1>6. Types'
  BY <1>1, <1>4 DEF BookmarksInv, Types
<1>7. DiskInv'
  BY <1>1, <1>4, <1>5 DEF BookmarksInv, DiskInv, Kept
<1>8. ListInv'
  <2> SUFFICES ASSUME faults = 0 PROVE SavedInv(file)' /\ tmp' = Missing /\ ~torn'
    BY <1>1 DEF ListInv
  <2>1. SavedInv(tmp) /\ ~torn
    BY <1>1 DEF BookmarksInv, ListInv
  <2>2. file' = tmp
    BY <1>1, <1>2, <2>1 DEF Lists
  <2> QED BY <1>1, <2>1, <2>2 DEF SavedInv, DoneIn
<1> QED BY <1>6, <1>7, <1>8 DEF BookmarksInv

LEMMA LoadInv == BookmarksInv /\ Load => BookmarksInv'
<1> SUFFICES ASSUME BookmarksInv, Load PROVE BookmarksInv'
  OBVIOUS
<1> DEFINE L == Loaded(LinesOf(file))
<1>1. /\ pc = "load" /\ pc' = "idle" /\ list' = L /\ current' = <<>>
      /\ file' = file /\ tmp' = tmp /\ clipboard' = clipboard
      /\ torn' = torn /\ faults' = faults
      /\ subject' = subject /\ before' = before /\ saved' = saved
  BY DEF Load, diskVars, historyVars
<1>2. L \in Lists /\ <<>> \in Seq(Labels)
  BY DiskFacts
<1>3. Types'
  BY <1>1, <1>2 DEF BookmarksInv, Types
<1>4. DiskInv'
  BY <1>1 DEF BookmarksInv, DiskInv, LinesOf
<1>5. ListInv'
  <2> SUFFICES ASSUME faults = 0 PROVE IdleInv' /\ ~torn'
    BY <1>1 DEF ListInv
  <2>1. SavedInv(file) /\ tmp = Missing /\ ~torn
    BY <1>1 DEF BookmarksInv, ListInv
  <2>2. LinesOf(file) = file
    BY <2>1, LinesOfType DEF SavedInv
  <2>3. Ordered(L)
    BY <2>1, <2>2, LoadedOrdered DEF SavedInv
  <2>4. LoadedFor(ToSet(saved.items), L)
    BY <2>1, <2>2, LoadedHas DEF SavedInv, LoadedFor
  <2> HIDE DEF L
  <2>5. Stay(subject.from, subject.to, before, ToSet(L))
    BY <2>1, <2>4 DEF SavedInv, DoneIn, Stay, LoadedFor
  <2>6. Effect(subject.from, subject.to, ToSet(L))
    BY <2>1, <2>4 DEF SavedInv, DoneIn, Effect, LoadedFor
  <2> QED BY <1>1, <2>1, <2>3, <2>4, <2>5, <2>6 DEF IdleInv, DoneIn
<1> QED BY <1>3, <1>4, <1>5 DEF BookmarksInv

\* What was there stays there when a part is appended.
LEMMA PartKeeps ==
    ASSUME BookmarksInv, WritePart
    PROVE  /\ tmp' \in Lists /\ tmp' # Missing /\ torn' \in BOOLEAN
           /\ ToSet(LinesOf(tmp)) \subseteq ToSet(LinesOf(tmp'))
<1> DEFINE W == Written(list)
<1>1. PICK n \in 0..Len(W) : \E lines \in Joined(SubSeq(W, 1, n)) :
                               /\ tmp' = LinesOf(tmp) \o lines
                               /\ torn' \in {torn /\ n = 0, n < Len(W)}
  BY DEF WritePart, Appended
<1>2. LinesOf(tmp) \in Lists /\ W \in Lists /\ torn \in BOOLEAN
  BY DiskFacts DEF BookmarksInv, Types
<1> HIDE DEF W
<1>3. PICK lines \in Joined(SubSeq(W, 1, n)) :
                               /\ tmp' = LinesOf(tmp) \o lines
                               /\ torn' \in {torn /\ n = 0, n < Len(W)}
  BY <1>1
<1>4. SubSeq(W, 1, n) \in Lists
  BY <1>2 DEF Lists
<1>5. lines \in Lists
  BY <1>2, <1>4, JoinedHas
<1>6. tmp' \in Lists /\ ToSet(LinesOf(tmp)) \subseteq ToSet(tmp')
  BY <1>2, <1>3, <1>5, Lines2
<1>7. torn' \in BOOLEAN
  <2>1. (torn /\ n = 0) \in BOOLEAN /\ (n < Len(W)) \in BOOLEAN
    OBVIOUS
  <2> QED BY <1>3, <2>1
<1> QED BY <1>6, <1>7, LinesOfType, MissingIsNoList

LEMMA FailureInv == BookmarksInv /\ Failure => BookmarksInv'
<1> SUFFICES ASSUME BookmarksInv, Failure PROVE BookmarksInv'
  OBVIOUS
<1>1. faults' \in Nat /\ faults' # 0
  BY DEF Failure, WriteFails, RenameFails, Crash, Fault, BookmarksInv, Types
<1>2. ListInv'
  BY <1>1 DEF ListInv
<1>3. CASE RenameFails
  <2>1. /\ pc = "rename" /\ pc' = "load" /\ file' = file /\ tmp' = tmp
        /\ torn' = torn /\ list' = list /\ current' = current
        /\ clipboard' = clipboard /\ saved' = saved
    BY <1>3 DEF RenameFails, diskVars, historyVars
  <2>2. Types'
    BY <1>1, <2>1 DEF BookmarksInv, Types
  <2>3. DiskInv'
    BY <2>1 DEF BookmarksInv, DiskInv, LinesOf
  <2> QED BY <1>2, <2>2, <2>3 DEF BookmarksInv
<1>4. CASE Crash
  <2>1. /\ pc' = "idle" /\ list' = Loaded(LinesOf(file)) /\ current' = <<>>
        /\ clipboard' = Missing /\ file' = file /\ saved' = saved
    BY <1>4 DEF Crash, historyVars
  <2>2. /\ tmp' \in Lists \cup {Missing} /\ torn' \in BOOLEAN
        /\ ToSet(LinesOf(tmp)) \subseteq ToSet(LinesOf(tmp'))
    BY <1>4, PartKeeps DEF Crash, BookmarksInv, Types
  <2>3. Types'
    BY <1>1, <2>1, <2>2, DiskFacts DEF BookmarksInv, Types
  <2>4. DiskInv'
    BY <2>1, <2>2 DEF BookmarksInv, DiskInv, LinesOf, Kept
  <2> QED BY <1>2, <2>3, <2>4 DEF BookmarksInv
<1>5. CASE WriteFails
  <2>1. /\ pc' = "unlink" /\ list' = list /\ current' = current
        /\ clipboard' = clipboard /\ file' = file /\ saved' = saved
        /\ flaw' = "failed"
    BY <1>5 DEF WriteFails
  <2>2. /\ tmp' \in Lists /\ tmp' # Missing /\ torn' \in BOOLEAN
        /\ ToSet(LinesOf(tmp)) \subseteq ToSet(LinesOf(tmp'))
    BY <1>5, PartKeeps DEF WriteFails
  <2>3. Types'
    BY <1>1, <2>1, <2>2 DEF BookmarksInv, Types
  <2>4. DiskInv'
    BY <2>1, <2>2 DEF BookmarksInv, DiskInv, LinesOf, Kept
  <2> QED BY <1>2, <2>3, <2>4 DEF BookmarksInv
<1> QED BY <1>3, <1>4, <1>5 DEF Failure

LEMMA NextInv == BookmarksInv /\ [Next]_vars => BookmarksInv'
<1> SUFFICES ASSUME BookmarksInv, [Next]_vars PROVE BookmarksInv'
  OBVIOUS
<1>1. clipboard \in Clips \cup {Missing} /\ current \in Seq(Labels)
  BY DEF BookmarksInv, Types
<1>2. ASSUME NEW label \in Labels, DeleteBookmark(label) PROVE BookmarksInv'
  BY <1>1, <1>2, DeletedInv DEF DeleteBookmark
<1>3. ASSUME NEW label \in Labels, CutBookmark(label) PROVE BookmarksInv'
  BY <1>3, CopiedType, DeletedInv DEF CutBookmark
<1>4. CASE Operation
  BY <1>2, <1>3, <1>4, AddBookmarkInv, CopyBookmarkInv, RenameBookmarkInv,
     PasteBookmarkInv, MoveInv DEF Operation
<1>5. CASE Step
  BY <1>5, WriteInv, UnlinkInv, RenameInv, LoadInv DEF Step
<1>6. CASE Failure
  BY <1>6, FailureInv
<1>7. CASE UNCHANGED vars
  BY <1>1, <1>7, SameList DEF vars, diskVars, historyVars
<1> QED BY <1>4, <1>5, <1>6, <1>7 DEF Next

LEMMA InvariantHolds == Spec => []BookmarksInv
<1> QED BY InitInv, NextInv, PTL DEF Spec

-----------------------------------------------------------------------------
(* Theorems *)

\* What was written last is in one of the two files at any time, however often
\* the program ends, also in the middle of a line, and however often the
\* renaming fails (bookmarks_store_bookmarks_to_file): all of it when the write
\* went well, all but the first item when it ran into a line that was cut off.
\* A write that failed is the exception, for the saved file is removed then too.
THEOREM SavedCorrect == Spec => []SavedIsOnDisk
<1>1. BookmarksInv => SavedIsOnDisk
  BY DEF BookmarksInv, DiskInv, SavedIsOnDisk, Kept
<1> QED BY <1>1, InvariantHolds, PTL

\* Without failures, an operation leaves the items it is not about, under
\* their new names when a folder of theirs is renamed: writing the list,
\* where of two items of a name only the first counts, and reading it back,
\* where missing folders are made, loses none.
THEOREM OthersCorrect == Spec => []OthersStay
<1>1. BookmarksInv => OthersStay
  BY DEF BookmarksInv, ListInv, IdleInv, DoneIn, Stay, OthersStay, Moved,
         NameTaken, Carried, Taken
<1> QED BY <1>1, InvariantHolds, PTL

\* Without failures, what has been deleted or renamed is gone and what has
\* been added is there when the list is back.
THEOREM EffectCorrect == Spec => []OperationHasEffect
<1>1. BookmarksInv => OperationHasEffect
  <2> SUFFICES ASSUME BookmarksInv, pc = "idle", faults = 0, subject.from # <<>>
               PROVE  /\ \A item \in ToSet(list) :
                           item.place # Folder /\ item.path = subject.from =>
                               subject.to = subject.from
                      /\ subject.to # <<>> => Named(list, subject.to)
    BY DEF OperationHasEffect
  <2>1. Effect(subject.from, subject.to, ToSet(list))
    BY DEF BookmarksInv, ListInv, IdleInv, DoneIn
  <2>2. \A path : (\E item \in ToSet(list) : item.path = path) => Named(list, path)
    BY DEF ToSet, Named
  <2> QED BY <2>1, <2>2 DEF Effect
<1> QED BY <1>1, InvariantHolds, PTL

\* Without failures, the list on screen is the one that was written, with the
\* folders of what is in it, and the working file is gone.
THEOREM ListCorrect == Spec => []ListIsSaved
<1>1. BookmarksInv => ListIsSaved
  BY DEF BookmarksInv, ListInv, IdleInv, LoadedFor, ListIsSaved
<1> QED BY <1>1, InvariantHolds, PTL
=============================================================================
