-------------------------- MODULE RoutePathProofs --------------------------
(***************************************************************************)
(* Proofs about the path of RoutePlan, a chain of legs that the route and  *)
(* its readers share.                                                      *)
(*                                                                         *)
(* In every environment the legs of the route form a chain that ends, in   *)
(* which no leg comes twice, and in_use counts every user: a reader that   *)
(* leaves, or an update that drops legs, can only free what nobody holds.  *)
(* The rest depends on the environment, as the runs do: on whether the     *)
(* position may be lost and whether every leg is found.                    *)
(***************************************************************************)
EXTENDS RoutePlanProofs, FiniteSetTheorems, WellFoundedInduction

LegsOf(c) == {c[i] : i \in DOMAIN c}

\* The legs in ls that start at p are those of c.
Chain(ls, p, c) ==
    /\ \A i, j \in DOMAIN c : c[i] = c[j] => i = j
    /\ p = IF c = <<>> THEN NoLeg ELSE c[1]
    /\ \A i \in DOMAIN c : ls[c[i]].next = IF i = Len(c) THEN NoLeg ELSE c[i + 1]

On(rd, l) == {r \in Readers : rd[r] = l}
UsersOf(rd, c, l) == Cardinality(On(rd, l)) + (IF l \in LegsOf(c) THEN 1 ELSE 0)

\* in_use counts at least the users of a leg ...
Counted(ls, rd, c) == \A l \in LegIds : ls[l].in_use >= UsersOf(rd, c, l)
\* ... and no more.
TightAt(ls, rd, c, l) == ls[l].in_use <= UsersOf(rd, c, l)
Tight(ls, rd, c) == \A l \in LegIds : TightAt(ls, rd, c, l)

Held(ls, p, rd, c) ==
    c \in Seq(LegIds) /\ Chain(ls, p, c) /\ Counted(ls, rd, c)

\* A reader moves, and is counted where it goes.
Moves(rd, r, to) == [rd EXCEPT ![r] = to]
CountedUp(ls, to) == [ls EXCEPT ![to].in_use = @ + 1]

\* what a leg says of its street, and its mark
SameLeg(ls, ms, l) ==
    /\ ms[l].from = ls[l].from /\ ms[l].to = ls[l].to
    /\ ms[l].traffic = ls[l].traffic
    /\ ms[l].update_required = ls[l].update_required

PathInv == \E c : Held(legs, path2, reader, c)

\* An update finds the graph it reads and the position it starts from.
DefinedInv ==
    /\ graph = "none" => route_status \in {"no_destination", "destination_set"}
    /\ graph # "none" => pos # NoPos
    /\ pc = "update" => graph # "none"

\* What is kept of the first leg between two updates.
TrafficInv ==
    /\ graph = "ready" => flooded.traffic = traffic
    /\ pc = "idle" /\ path2 \in LegIds /\ legs[path2].update_required = 0
          => legs[path2].traffic = traffic
PositionInv ==
    pc = "idle" /\ path2 \in LegIds /\ legs[path2].update_required = 0
       => legs[path2].from = pos

\* No destination comes twice in the list.
Distinct(ds) == \A i, j \in DOMAIN ds : ds[i] = ds[j] => i = j

\* The legs of c lead from the k-th of the destinations ds to the last, one by
\* one; the one that starts at the position may start anywhere.
Covers(ls, ds, c, k) ==
    /\ Len(c) = Len(ds) - k
    /\ \A i \in DOMAIN c :
          /\ ls[c[i]].to = ds[k + i]
          /\ k + i > 1 => ls[c[i]].from = ds[k + i - 1]

Current(k) == k \in DOMAIN destinations /\ current_dst = destinations[k]

\* With every leg found: the whole path is there, and its first leg is to be
\* found again; or the legs are being found from the last to the first.
Plan(c) ==
    c # <<>> =>
       IF link_path
       THEN /\ \E k \in DOMAIN destinations :
                  Current(k) /\ Covers(legs, destinations, c, k)
            /\ legs[path2].in_use = 1
       ELSE Current(1) /\ Covers(legs, destinations, c, 0)

ListInv ==
    /\ Distinct(destinations) /\ pos # OffRoad
    /\ pc = "idle" => ~link_path
    /\ pc = "idle" /\ graph = "ready" => path2 # NoLeg
    /\ path2 = NoLeg =>
          /\ destinations # <<>> => Current(Len(destinations))
          /\ ~link_path
ItineraryInv ==
    /\ ListInv
    /\ \E c : Held(legs, path2, reader, c) /\ Tight(legs, reader, c) /\ Plan(c)

-----------------------------------------------------------------------------
(* Chains *)

LEMMA LeastNumber ==
    ASSUME NEW T \in SUBSET Nat, T # {}
    PROVE  \E n \in T : \A m \in T : n <= m
<1>1. PICK R : R = OpToRel(<, Nat)
  OBVIOUS
<1>2. IsWellFoundedOn(R, Nat)
  BY <1>1, NatLessThanWellFounded
<1>3. \A m, n \in Nat : m < n => <<m, n>> \in R
  BY <1>1 DEF OpToRel
<1>4. PICK n \in T : \A m \in T : ~(<<m, n>> \in R)
  BY <1>2, WFMin
<1>5. \A m \in T : ~(m < n)
  BY <1>3, <1>4
<1> QED BY <1>5

LEMMA ReachHolds ==
    ASSUME NEW S
    PROVE  /\ S \cap LegIds \subseteq Reach(S)
           /\ Reach(S) \subseteq LegIds
           /\ \A T \in SUBSET LegIds : Encloses(T, S) => Reach(S) \subseteq T
           /\ \A p \in S : Reach({p}) \subseteq Reach(S)
<1>1. \A l : l \in Reach(S) <=> /\ l \in LegIds
                                /\ \A T \in SUBSET LegIds :
                                       Encloses(T, S) => l \in T
  BY DEF Reach
<1>2. ASSUME NEW p \in S, NEW l \in Reach({p}) PROVE l \in Reach(S)
  <2>1. l \in LegIds /\ \A T \in SUBSET LegIds : Encloses(T, {p}) => l \in T
    BY <1>2 DEF Reach
  <2>2. \A T : Encloses(T, S) => Encloses(T, {p})
    BY DEF Encloses
  <2> QED BY <1>1, <2>1, <2>2
<1>3. \A T : Encloses(T, S) => S \cap LegIds \subseteq T
  BY DEF Encloses
<1> QED BY <1>1, <1>2, <1>3

\* The legs of the path are the ones that can be reached from path2.
LEMMA ReachIsPath ==
    ASSUME NEW c \in Seq(LegIds), Chain(legs, path2, c)
    PROVE  Reach({path2}) = LegsOf(c)
<1>0. /\ Len(c) \in Nat /\ DOMAIN c = 1 .. Len(c)
      /\ LegsOf(c) \in SUBSET LegIds /\ NoLeg \notin LegIds
  BY ConstantsAssumption DEF LegsOf
<1>1. Encloses(LegsOf(c), {path2})
  <2>1. path2 \in LegIds => path2 \in LegsOf(c)
    BY <1>0 DEF Chain, LegsOf
  <2>2. ASSUME NEW i \in DOMAIN c, legs[c[i]].next \in LegIds
        PROVE  legs[c[i]].next \in LegsOf(c)
    <3>1. i # Len(c) /\ legs[c[i]].next = c[i + 1]
      BY <1>0, <2>2 DEF Chain
    <3> QED BY <1>0, <3>1 DEF LegsOf
  <2> QED BY <2>1, <2>2 DEF Encloses, LegsOf
<1>2. Reach({path2}) \subseteq LegsOf(c)
  BY <1>0, <1>1, ReachHolds
<1>3. ASSUME NEW T \in SUBSET LegIds, Encloses(T, {path2})
      PROVE  LegsOf(c) \subseteq T
  <2> DEFINE bad == {i \in DOMAIN c : c[i] \notin T}
  <2>1. ASSUME bad # {} PROVE FALSE
    <3>1. PICK i \in bad : \A j \in bad : i <= j
      <4>1. bad \in SUBSET Nat
        BY <1>0
      <4> HIDE DEF bad
      <4> QED BY <2>1, <4>1, LeastNumber
    <3>2. i \in 1 .. Len(c) /\ c[i] \notin T
      BY <1>0, <3>1
    <3>3. i # 1
      <4>1. c[1] \in {path2} \cap LegIds
        BY <1>0, <3>2 DEF Chain
      <4> QED BY <1>3, <3>2, <4>1 DEF Encloses
    <3>4. i - 1 \in DOMAIN c /\ i - 1 # Len(c) /\ i - 1 + 1 = i /\ ~(i <= i - 1)
      BY <1>0, <3>2, <3>3
    <3>5. c[i - 1] \in T
      BY <3>1, <3>4
    <3>6. legs[c[i - 1]].next = c[i]
      BY <3>4 DEF Chain
    <3>7. c[i] \in LegIds
      BY <1>0, <3>2
    <3> QED BY <1>3, <3>2, <3>5, <3>6, <3>7 DEF Encloses
  <2> QED BY <2>1 DEF LegsOf
<1>4. LegsOf(c) \subseteq Reach({path2})
  BY <1>0, <1>3 DEF Reach
<1> QED BY <1>2, <1>4

\* A new leg is nobody's.
LEMMA UnusedIsFree ==
    ASSUME NEW c \in Seq(LegIds), Chain(legs, path2, c), NEW l \in UnusedLegs
    PROVE  l \in LegIds /\ l \notin LegsOf(c) /\ On(reader, l) = {}
<1> DEFINE S == {path2} \cup {reader[r] : r \in Readers}
<1>1. l \in LegIds /\ l \notin Reach(S)
  BY DEF UnusedLegs
<1>2. LegsOf(c) \subseteq Reach(S) /\ S \cap LegIds \subseteq Reach(S)
  BY ReachIsPath, ReachHolds
<1> QED BY <1>1, <1>2 DEF On

\* A chain is a chain as long as its legs keep their next ones.
LEMMA SameChain ==
    ASSUME NEW ls, NEW ms, NEW p, NEW c \in Seq(LegIds), Chain(ls, p, c),
           \A l \in LegsOf(c) : ms[l].next = ls[l].next
    PROVE  Chain(ms, p, c)
BY DEF Chain, LegsOf

\* What follows the first leg is a chain.
LEMMA TailChain ==
    ASSUME NEW ls, NEW p, NEW c \in Seq(LegIds), Chain(ls, p, c), c # <<>>
    PROVE  /\ p \in LegIds /\ p = c[1] /\ Tail(c) \in Seq(LegIds)
           /\ Chain(ls, ls[p].next, Tail(c))
           /\ LegsOf(c) = {p} \cup LegsOf(Tail(c)) /\ p \notin LegsOf(Tail(c))
           /\ Len(Tail(c)) = Len(c) - 1
           /\ \A i \in DOMAIN Tail(c) : i + 1 \in DOMAIN c /\ Tail(c)[i] = c[i + 1]
<1> DEFINE t == Tail(c)
<1>1. /\ Len(c) \in Nat /\ Len(c) >= 1 /\ DOMAIN c = 1 .. Len(c)
      /\ t \in Seq(LegIds) /\ Len(t) = Len(c) - 1 /\ DOMAIN t = 1 .. Len(t)
      /\ \A i \in 1 .. Len(t) : t[i] = c[i + 1]
  OBVIOUS
<1>2. p = c[1] /\ p \in LegIds
  BY <1>1 DEF Chain
<1>3. /\ \A i, j \in 1 .. Len(c) : c[i] = c[j] => i = j
      /\ \A i \in 1 .. Len(c) : ls[c[i]].next = IF i = Len(c) THEN NoLeg ELSE c[i + 1]
  BY <1>1 DEF Chain
<1> HIDE DEF t
<1>4. \A i \in 1 .. Len(t) : i + 1 \in 1 .. Len(c) /\ i + 1 # 1
                             /\ (i + 1 = Len(c) <=> i = Len(t))
  BY <1>1
<1>5. \A i, j \in DOMAIN t : t[i] = t[j] => i = j
  <2> SUFFICES ASSUME NEW i \in 1 .. Len(t), NEW j \in 1 .. Len(t), t[i] = t[j]
               PROVE  i = j
    BY <1>1
  <2>1. c[i + 1] = c[j + 1] /\ i + 1 \in 1 .. Len(c) /\ j + 1 \in 1 .. Len(c)
    BY <1>1, <1>4
  <2>2. i + 1 = j + 1
    BY <1>3, <2>1
  <2> QED BY <2>2
<1>6. ls[p].next = IF t = <<>> THEN NoLeg ELSE t[1]
  <2>1. CASE Len(c) = 1
    BY <1>1, <1>2, <1>3, <2>1
  <2>2. CASE Len(c) # 1
    <3>1. t # <<>> /\ 1 \in 1 .. Len(t) /\ t[1] = c[1 + 1]
      BY <1>1, <2>2
    <3>2. 1 \in 1 .. Len(c)
      BY <1>1
    <3>3. ls[c[1]].next = c[1 + 1]
      BY <1>3, <2>2, <3>2
    <3> QED BY <1>2, <3>1, <3>3
  <2> QED BY <2>1, <2>2
<1>7. \A i \in DOMAIN t : ls[t[i]].next = IF i = Len(t) THEN NoLeg ELSE t[i + 1]
  <2> SUFFICES ASSUME NEW i \in 1 .. Len(t)
               PROVE  ls[t[i]].next = IF i = Len(t) THEN NoLeg ELSE t[i + 1]
    BY <1>1
  <2>1. i + 1 \in 1 .. Len(c) /\ t[i] = c[i + 1] /\ (i + 1 = Len(c) <=> i = Len(t))
    BY <1>1, <1>4
  <2>2. ls[c[i + 1]].next = IF i + 1 = Len(c) THEN NoLeg ELSE c[i + 1 + 1]
    BY <1>3, <2>1
  <2>3. i # Len(t) => i + 1 \in 1 .. Len(t)
    <3>1. Len(t) \in Nat
      BY <1>1
    <3> QED BY <3>1
  <2>4. i # Len(t) => t[i + 1] = c[i + 1 + 1]
    BY <1>1, <2>3
  <2> QED BY <2>1, <2>2, <2>4
<1>8. p \notin LegsOf(t)
  <2> SUFFICES ASSUME NEW i \in 1 .. Len(t), t[i] = p PROVE FALSE
    BY <1>1 DEF LegsOf
  <2>1. c[i + 1] = c[1] /\ i + 1 \in 1 .. Len(c) /\ 1 \in 1 .. Len(c) /\ i + 1 # 1
    BY <1>1, <1>2, <1>4
  <2> QED BY <1>3, <2>1
<1>9. LegsOf(c) = {p} \cup LegsOf(t)
  <2>1. ASSUME NEW i \in 1 .. Len(c) PROVE c[i] \in {p} \cup LegsOf(t)
    <3>1. i = 1 \/ i - 1 \in 1 .. Len(t)
      BY <1>1
    <3>2. i - 1 \in 1 .. Len(t) => t[i - 1] = c[i - 1 + 1] /\ i - 1 + 1 = i
      BY <1>1
    <3>3. i - 1 \in 1 .. Len(t) => c[i] \in LegsOf(t)
      BY <1>1, <3>2 DEF LegsOf
    <3> QED BY <1>2, <3>1, <3>3
  <2>2. ASSUME NEW i \in 1 .. Len(t) PROVE t[i] \in LegsOf(c)
    <3>1. t[i] = c[i + 1] /\ i + 1 \in DOMAIN c
      BY <1>1, <1>4
    <3> QED BY <3>1 DEF LegsOf
  <2>3. p \in LegsOf(c) /\ DOMAIN t = 1 .. Len(t)
    <3>1. 1 \in DOMAIN c
      BY <1>1
    <3> QED BY <1>1, <1>2, <3>1 DEF LegsOf
  <2> QED BY <1>1, <2>1, <2>2, <2>3 DEF LegsOf
<1> QED BY <1>1, <1>2, <1>4, <1>5, <1>6, <1>7, <1>8, <1>9 DEF Chain, t

\* A new first leg before a chain.
LEMMA LongerChain ==
    ASSUME NEW ls, NEW p, NEW c \in Seq(LegIds), Chain(ls, p, c),
           NEW l \in LegIds, l \notin LegsOf(c), ls[l].next = p
    PROVE  /\ <<l>> \o c \in Seq(LegIds)
           /\ Chain(ls, l, <<l>> \o c)
           /\ LegsOf(<<l>> \o c) = {l} \cup LegsOf(c)
           /\ Len(<<l>> \o c) = Len(c) + 1
           /\ (<<l>> \o c)[1] = l
           /\ \A i \in 2 .. Len(c) + 1 : (<<l>> \o c)[i] = c[i - 1]
<1> DEFINE d == <<l>> \o c
<1>1. /\ Len(c) \in Nat /\ DOMAIN c = 1 .. Len(c)
      /\ d \in Seq(LegIds) /\ Len(d) = Len(c) + 1 /\ DOMAIN d = 1 .. Len(d)
      /\ d[1] = l /\ \A i \in 2 .. Len(d) : d[i] = c[i - 1]
  OBVIOUS
<1> HIDE DEF d
<1>2. \A i \in 2 .. Len(d) : i - 1 \in 1 .. Len(c) /\ d[i] \in LegsOf(c)
  BY <1>1 DEF LegsOf
<1>3. LegsOf(d) = {l} \cup LegsOf(c)
  <2>1. ASSUME NEW i \in 1 .. Len(c) PROVE c[i] \in LegsOf(d)
    <3>1. i + 1 \in 2 .. Len(d) /\ i + 1 - 1 = i /\ i + 1 \in DOMAIN d
      BY <1>1
    <3>2. d[i + 1] = c[i]
      BY <1>1, <3>1
    <3> QED BY <3>1, <3>2 DEF LegsOf
  <2>2. ASSUME NEW i \in 1 .. Len(d) PROVE d[i] \in {l} \cup LegsOf(c)
    <3>1. i = 1 \/ i \in 2 .. Len(d)
      BY <1>1
    <3> QED BY <1>1, <1>2, <3>1
  <2>3. l \in LegsOf(d)
    <3>1. 1 \in DOMAIN d
      BY <1>1
    <3> QED BY <1>1, <3>1 DEF LegsOf
  <2>4. \A x \in LegsOf(d) : \E i \in 1 .. Len(d) : x = d[i]
    BY <1>1 DEF LegsOf
  <2>5. \A x \in LegsOf(c) : \E i \in 1 .. Len(c) : x = c[i]
    BY <1>1 DEF LegsOf
  <2> QED BY <2>1, <2>2, <2>3, <2>4, <2>5
<1>4. \A i, j \in DOMAIN d : d[i] = d[j] => i = j
  <2> SUFFICES ASSUME NEW i \in 1 .. Len(d), NEW j \in 1 .. Len(d), d[i] = d[j]
               PROVE  i = j
    BY <1>1
  <2>1. CASE i = 1 \/ j = 1
    BY <1>1, <1>2, <2>1
  <2>2. CASE i # 1 /\ j # 1
    <3>1. i \in 2 .. Len(d) /\ j \in 2 .. Len(d)
      BY <1>1, <2>2
    <3>2. c[i - 1] = c[j - 1] /\ i - 1 \in DOMAIN c /\ j - 1 \in DOMAIN c
      BY <1>1, <1>2, <3>1
    <3>3. i - 1 = j - 1
      BY <3>2 DEF Chain
    <3> QED BY <3>3
  <2> QED BY <2>1, <2>2
<1>5. \A i \in DOMAIN d : ls[d[i]].next = IF i = Len(d) THEN NoLeg ELSE d[i + 1]
  <2> SUFFICES ASSUME NEW i \in 1 .. Len(d)
               PROVE  ls[d[i]].next = IF i = Len(d) THEN NoLeg ELSE d[i + 1]
    BY <1>1
  <2>1. CASE i = 1
    <3>1. p = IF c = <<>> THEN NoLeg ELSE c[1]
      BY DEF Chain
    <3>2. CASE c = <<>>
      BY <1>1, <2>1, <3>1, <3>2
    <3>3. CASE c # <<>>
      <4>1. Len(d) # 1 /\ d[2] = c[1]
        BY <1>1, <3>3
      <4> QED BY <1>1, <2>1, <3>1, <3>3, <4>1
    <3> QED BY <3>2, <3>3
  <2>2. CASE i # 1
    <3>1. i \in 2 .. Len(d) /\ d[i] = c[i - 1] /\ i - 1 \in 1 .. Len(c)
      BY <1>1, <1>2, <2>2
    <3>2. ls[c[i - 1]].next = IF i - 1 = Len(c) THEN NoLeg ELSE c[i - 1 + 1]
      BY <1>1, <3>1 DEF Chain
    <3>3. i # Len(d) => i + 1 \in 2 .. Len(d) /\ d[i + 1] = c[i]
      BY <1>1
    <3>4. i - 1 + 1 = i /\ (i - 1 = Len(c) <=> i = Len(d))
      BY <1>1
    <3> QED BY <3>1, <3>2, <3>3, <3>4
  <2> QED BY <2>1, <2>2
<1>6. d # <<>>
  BY <1>1
<1> QED BY <1>1, <1>3, <1>4, <1>5, <1>6 DEF Chain, d

-----------------------------------------------------------------------------
(* Users *)

LEMMA OnCount ==
    ASSUME NEW rd, NEW l
    PROVE  /\ IsFiniteSet(On(rd, l)) /\ Cardinality(On(rd, l)) \in Nat
           /\ On(rd, l) = {} => Cardinality(On(rd, l)) = 0
           /\ On(rd, l) # {} => Cardinality(On(rd, l)) >= 1
<1>1. On(rd, l) \in SUBSET Readers /\ IsFiniteSet(Readers)
  BY ConstantsAssumption DEF On
<1>2. IsFiniteSet(On(rd, l))
  BY <1>1, FS_Subset
<1>3. Cardinality(On(rd, l)) \in Nat
  BY <1>2, FS_CardinalityType
<1>4. Cardinality(On(rd, l)) = 0 <=> On(rd, l) = {}
  BY <1>2, FS_EmptySet
<1> QED BY <1>2, <1>3, <1>4

\* A reader that moves is counted where it goes and no more where it was.
LEMMA MoveCount ==
    ASSUME NEW rd, DOMAIN rd = Readers, NEW r \in Readers, NEW to, NEW l,
           NEW rd2, rd2 = Moves(rd, r, to)
    PROVE  Cardinality(On(rd2, l)) =
               Cardinality(On(rd, l)) - (IF rd[r] = l THEN 1 ELSE 0)
                                      + (IF to = l THEN 1 ELSE 0)
<1>1. IsFiniteSet(On(rd, l)) /\ Cardinality(On(rd, l)) \in Nat
  BY OnCount
<1>2. \A q \in Readers : rd2[q] = IF q = r THEN to ELSE rd[q]
  BY DEF Moves
<1>3. PICK rest : rest = On(rd, l) \ {r}
  OBVIOUS
<1>4. /\ IsFiniteSet(rest)
      /\ Cardinality(rest) = IF r \in On(rd, l) THEN Cardinality(On(rd, l)) - 1
                             ELSE Cardinality(On(rd, l))
  BY <1>1, <1>3, FS_RemoveElement
<1>5. On(rd2, l) = IF to = l THEN rest \cup {r} ELSE rest
  BY <1>2, <1>3 DEF On
<1>6. Cardinality(rest \cup {r}) = Cardinality(rest) + 1
  BY <1>3, <1>4, FS_AddElement
<1>7. r \in On(rd, l) <=> rd[r] = l
  BY DEF On
<1> QED BY <1>1, <1>4, <1>5, <1>6, <1>7

LEMMA ReleaseIs ==
    ASSUME NEW ls \in [LegIds -> Leg], NEW S, NEW l \in LegIds
    PROVE  /\ Release(ls, S) \in [LegIds -> Leg]
           /\ l \in S /\ ls[l].in_use <= 1 => Release(ls, S)[l].in_use = 0
           /\ ~(l \in S /\ ls[l].in_use <= 1) =>
                /\ SameLeg(ls, Release(ls, S), l)
                /\ Release(ls, S)[l].in_use = IF l \in S THEN ls[l].in_use - 1
                                              ELSE ls[l].in_use
                /\ (ls[l].next \in S \cap LegIds => ls[ls[l].next].in_use > 1)
                       => Release(ls, S)[l].next = ls[l].next
<1> DEFINE F == {k \in S \cap LegIds : ls[k].in_use <= 1}
           u == IF l \in S THEN ls[l].in_use - 1 ELSE ls[l].in_use
           x == IF ls[l].next \in F THEN FreedLeg ELSE ls[l].next
<1>1. ls[l] \in Leg /\ ls[l].in_use \in Nat
  BY DEF Leg
<1>2. Release(ls, S)[l] = IF l \in F THEN FreeLeg
                          ELSE [ls[l] EXCEPT !.in_use = u, !.next = x]
  BY <1>1 DEF Release, Leg
<1>3. l \in F <=> l \in S /\ ls[l].in_use <= 1
  OBVIOUS
<1>4. (ls[l].next \in S \cap LegIds => ls[ls[l].next].in_use > 1) => x = ls[l].next
  <2>1. \A k \in LegIds : ls[k].in_use \in Nat
    BY DEF Leg
  <2> QED BY <2>1
<1>5. CASE l \in F
  BY <1>2, <1>3, <1>5, ReleaseType DEF FreeLeg
<1>6. CASE l \notin F
  <2> HIDE DEF F, u, x
  <2>1. Release(ls, S)[l] = [ls[l] EXCEPT !.in_use = u, !.next = x]
    BY <1>2, <1>6
  <2>2. /\ Release(ls, S)[l].in_use = u /\ Release(ls, S)[l].next = x
        /\ SameLeg(ls, Release(ls, S), l)
    BY <1>1, <2>1 DEF SameLeg, Leg
  <2> QED BY <1>3, <1>4, <1>6, <2>2, ReleaseType DEF u
<1> QED BY <1>5, <1>6

\* Releasing legs does no harm to a chain of which none is freed.
LEMMA ReleaseKeeps ==
    ASSUME NEW ls \in [LegIds -> Leg], NEW p, NEW c \in Seq(LegIds), Chain(ls, p, c),
           NEW S, \A l \in LegsOf(c) : l \in S => ls[l].in_use > 1
    PROVE  /\ Chain(Release(ls, S), p, c)
           /\ \A l \in LegsOf(c) : SameLeg(ls, Release(ls, S), l)
<1>1. LegsOf(c) \in SUBSET LegIds /\ NoLeg \notin LegIds
  BY ConstantsAssumption DEF LegsOf
<1>2. ASSUME NEW l \in LegsOf(c)
      PROVE  Release(ls, S)[l].next = ls[l].next /\ SameLeg(ls, Release(ls, S), l)
  <2>1. l \in LegIds /\ ls[l].in_use \in Nat
    BY <1>1 DEF Leg
  <2>2. ~(l \in S /\ ls[l].in_use <= 1)
    BY <2>1
  <2>3. ls[l].next = NoLeg \/ ls[l].next \in LegsOf(c)
    <3>1. PICK i \in 1 .. Len(c) : c[i] = l
      BY DEF LegsOf
    <3>2. i # Len(c) => i + 1 \in DOMAIN c
      BY <3>1
    <3> QED BY <3>1, <3>2 DEF Chain, LegsOf
  <2>4. ls[l].next \in S \cap LegIds => ls[ls[l].next].in_use > 1
    BY <1>1, <2>3
  <2> QED BY <2>1, <2>2, <2>4, ReleaseIs
<1> QED BY <1>2, SameChain

-----------------------------------------------------------------------------
(***************************************************************************)
(* What the operations do to a path that is held: each keeps it a chain    *)
(* whose users are counted, counts them no less exactly, and leaves what   *)
(* the remaining legs say.                                                 *)
(***************************************************************************)
\* fewer legs have no more users
LEMMA Fewer ==
    ASSUME NEW ls, NEW rd, NEW c, NEW d, LegsOf(d) \subseteq LegsOf(c),
           NEW l, ls[l].in_use \in Nat, ls[l].in_use >= UsersOf(rd, c, l)
    PROVE  ls[l].in_use >= UsersOf(rd, d, l)
<1>1. Cardinality(On(rd, l)) \in Nat
  BY OnCount
<1> QED BY <1>1 DEF UsersOf

\* in_use++ for a leg that a reader will be on.
LEMMA CountUp ==
    ASSUME NEW ls \in [LegIds -> Leg], NEW p, NEW c \in Seq(LegIds), Chain(ls, p, c),
           NEW to \in LegIds, NEW ms, ms = CountedUp(ls, to)
    PROVE  /\ ms \in [LegIds -> Leg] /\ Chain(ms, p, c)
           /\ \A l \in LegIds :
                /\ SameLeg(ls, ms, l) /\ ls[l].in_use \in Nat
                /\ ms[l].in_use = ls[l].in_use + (IF l = to THEN 1 ELSE 0)
<1>1. ASSUME NEW l \in LegIds
      PROVE  /\ ms[l] \in Leg /\ ls[l].in_use \in Nat
             /\ ms[l].in_use = ls[l].in_use + (IF l = to THEN 1 ELSE 0)
             /\ ms[l].next = ls[l].next /\ SameLeg(ls, ms, l)
  <2>1. ls[l] \in Leg /\ ls[l].in_use \in Nat
    BY DEF Leg
  <2>2. ms[l] = IF l = to THEN [ls[l] EXCEPT !.in_use = ls[l].in_use + 1] ELSE ls[l]
    BY DEF CountedUp
  <2>3. CASE l = to
    <3>1. ms[l] = [ls[l] EXCEPT !.in_use = ls[l].in_use + 1]
      BY <2>2, <2>3
    <3>2. ls[l].in_use + 1 \in Nat
      BY <2>1
    <3>3. ms[l] \in Leg /\ ms[l].in_use = ls[l].in_use + 1
      BY <2>1, <3>1, <3>2 DEF Leg
    <3>4. ms[l].next = ls[l].next /\ SameLeg(ls, ms, l)
      BY <2>1, <3>1 DEF Leg, SameLeg
    <3> QED BY <2>1, <2>3, <3>3, <3>4
  <2>4. CASE l # to
    BY <2>1, <2>2, <2>4 DEF SameLeg
  <2> QED BY <2>3, <2>4
<1>2. ms \in [LegIds -> Leg]
  BY <1>1 DEF CountedUp
<1>3. LegsOf(c) \subseteq LegIds
  BY DEF LegsOf
<1>4. Chain(ms, p, c)
  BY <1>1, <1>3, SameChain
<1> QED BY <1>1, <1>2, <1>4

\* A reader goes to a leg, from nowhere.
LEMMA Enter ==
    ASSUME NEW ls \in [LegIds -> Leg], NEW p, NEW rd, DOMAIN rd = Readers, NEW c,
           Held(ls, p, rd, c), NEW r \in Readers, rd[r] \notin LegIds,
           NEW to \in LegIds
    PROVE  /\ Held(CountedUp(ls, to), p, Moves(rd, r, to), c)
           /\ \A l \in LegIds :
                /\ SameLeg(ls, CountedUp(ls, to), l)
                /\ TightAt(ls, rd, c, l)
                       => TightAt(CountedUp(ls, to), Moves(rd, r, to), c, l)
<1> PICK rd2, ms : rd2 = Moves(rd, r, to) /\ ms = CountedUp(ls, to)
  OBVIOUS
<1>1. /\ ms \in [LegIds -> Leg] /\ Chain(ms, p, c) /\ c \in Seq(LegIds)
      /\ \A l \in LegIds :
           /\ SameLeg(ls, ms, l) /\ ls[l].in_use \in Nat
           /\ ms[l].in_use = ls[l].in_use + (IF l = to THEN 1 ELSE 0)
  BY CountUp DEF Held
<1>2. ASSUME NEW l \in LegIds
      PROVE  /\ ms[l].in_use >= UsersOf(rd2, c, l)
             /\ TightAt(ls, rd, c, l) => TightAt(ms, rd2, c, l)
  <2>1. rd[r] # l
    OBVIOUS
  <2>2. Cardinality(On(rd, l)) \in Nat
    BY OnCount
  <2>3. Cardinality(On(rd2, l)) = Cardinality(On(rd, l)) - (IF rd[r] = l THEN 1 ELSE 0)
                                                         + (IF to = l THEN 1 ELSE 0)
    BY MoveCount
  <2>4. ls[l].in_use >= UsersOf(rd, c, l)
    BY DEF Held, Counted
  <2> QED BY <1>1, <2>1, <2>2, <2>3, <2>4 DEF UsersOf, TightAt
<1> QED BY <1>1, <1>2 DEF Held, Counted

\* The users of l and one more if a reader is about to go to it.
Expected(rd, c, to, l) == UsersOf(rd, c, l) + (IF l = to THEN 1 ELSE 0)
Suffices(ls, rd, c, to, l) == ls[l].in_use >= Expected(rd, c, to, l)
Exact(ls, rd, c, to, l) == ls[l].in_use <= Expected(rd, c, to, l)

\* A reader leaves a leg, which may be freed, for one that counts it already
\* or for none.
LEMMA Leave ==
    ASSUME NEW ls \in [LegIds -> Leg], NEW p, NEW rd, DOMAIN rd = Readers,
           NEW c \in Seq(LegIds), Chain(ls, p, c),
           NEW r \in Readers, rd[r] \in LegIds,
           NEW to, NEW rd2, rd2 = Moves(rd, r, to),
           \A l \in LegIds : Suffices(ls, rd, c, to, l),
           NEW ms, ms = Release(ls, {rd[r]})
    PROVE  /\ ms \in [LegIds -> Leg] /\ Held(ms, p, rd2, c)
           /\ \A l \in LegsOf(c) : SameLeg(ls, ms, l)
           /\ \A l \in LegIds : Exact(ls, rd, c, to, l) => TightAt(ms, rd2, c, l)
<1> DEFINE k == rd[r]
<1>1. \A l \in LegIds : ls[l].in_use \in Nat
  BY DEF Leg
<1>2. On(rd, k) # {}
  BY DEF On
<1>3. ls[k].in_use >= 1 /\ (k \in LegsOf(c) => ls[k].in_use > 1)
  <2>1. Cardinality(On(rd, k)) \in Nat /\ Cardinality(On(rd, k)) >= 1
    BY <1>2, OnCount
  <2> QED BY <1>1, <2>1 DEF UsersOf, Suffices, Expected
<1>4. /\ ms \in [LegIds -> Leg] /\ Chain(ms, p, c)
      /\ \A l \in LegsOf(c) : SameLeg(ls, ms, l)
  <2>1. \A l \in LegsOf(c) : l \in {k} => ls[l].in_use > 1
    BY <1>3
  <2>2. ms \in [LegIds -> Leg]
    BY ReleaseType
  <2> QED BY <2>1, <2>2, ReleaseKeeps
<1>5. ASSUME NEW l \in LegIds
      PROVE  /\ ms[l].in_use >= UsersOf(rd2, c, l)
             /\ Exact(ls, rd, c, to, l) => TightAt(ms, rd2, c, l)
  <2>1. ms[l].in_use = ls[l].in_use - (IF l = k THEN 1 ELSE 0)
    <3>1. l = k /\ ls[l].in_use <= 1 => ms[l].in_use = 0 /\ ls[l].in_use = 1
      BY <1>1, <1>3, ReleaseIs
    <3>2. ~(l = k /\ ls[l].in_use <= 1) =>
             ms[l].in_use = IF l = k THEN ls[l].in_use - 1 ELSE ls[l].in_use
      BY ReleaseIs
    <3> QED BY <1>1, <3>1, <3>2
  <2>2. Cardinality(On(rd, l)) \in Nat
    BY OnCount
  <2>3. Cardinality(On(rd2, l)) = Cardinality(On(rd, l)) - (IF rd[r] = l THEN 1 ELSE 0)
                                                         + (IF to = l THEN 1 ELSE 0)
    BY MoveCount
  <2> QED BY <1>1, <2>1, <2>2, <2>3 DEF UsersOf, TightAt, Suffices, Exact, Expected
<1> QED BY <1>4, <1>5 DEF Held, Counted

\* The first leg goes.
LEMMA DropFirst ==
    ASSUME NEW ls \in [LegIds -> Leg], NEW p \in LegIds, NEW rd, NEW c,
           Held(ls, p, rd, c), NEW ms, ms = Release(ls, {p})
    PROVE  /\ ms \in [LegIds -> Leg] /\ c # <<>>
           /\ Held(ms, ls[p].next, rd, Tail(c))
           /\ \A l \in LegsOf(Tail(c)) : SameLeg(ls, ms, l)
           /\ \A l \in LegIds : TightAt(ls, rd, c, l) => TightAt(ms, rd, Tail(c), l)
<1>1. \A l \in LegIds : ls[l].in_use \in Nat /\ ls[l].in_use >= UsersOf(rd, c, l)
  BY DEF Held, Counted, Leg
<1>2. c # <<>>
  BY ConstantsAssumption DEF Held, Chain
<1>3. /\ Tail(c) \in Seq(LegIds) /\ Chain(ls, ls[p].next, Tail(c))
      /\ LegsOf(c) = {p} \cup LegsOf(Tail(c)) /\ p \notin LegsOf(Tail(c))
  BY <1>2, TailChain DEF Held
<1>4. /\ ms \in [LegIds -> Leg] /\ Chain(ms, ls[p].next, Tail(c))
      /\ \A l \in LegsOf(Tail(c)) : SameLeg(ls, ms, l)
  <2>1. \A l \in LegsOf(Tail(c)) : l \in {p} => ls[l].in_use > 1
    BY <1>3
  <2>2. ms \in [LegIds -> Leg]
    BY ReleaseType
  <2> QED BY <1>3, <2>1, <2>2, ReleaseKeeps
<1>5. ls[p].in_use >= 1
  <2>1. Cardinality(On(rd, p)) \in Nat
    BY OnCount
  <2> QED BY <1>1, <1>3, <2>1 DEF UsersOf
<1>6. ASSUME NEW l \in LegIds
      PROVE  /\ ms[l].in_use >= UsersOf(rd, Tail(c), l)
             /\ TightAt(ls, rd, c, l) => TightAt(ms, rd, Tail(c), l)
  <2>1. ms[l].in_use = ls[l].in_use - (IF l = p THEN 1 ELSE 0)
    <3>1. l = p /\ ls[l].in_use <= 1 => ms[l].in_use = 0 /\ ls[l].in_use = 1
      BY <1>1, <1>5, ReleaseIs
    <3>2. ~(l = p /\ ls[l].in_use <= 1) =>
             ms[l].in_use = IF l = p THEN ls[l].in_use - 1 ELSE ls[l].in_use
      BY ReleaseIs
    <3> QED BY <1>1, <3>1, <3>2
  <2>2. Cardinality(On(rd, l)) \in Nat
    BY OnCount
  <2>3. UsersOf(rd, Tail(c), l) = UsersOf(rd, c, l) - (IF l = p THEN 1 ELSE 0)
    BY <1>3, <2>2 DEF UsersOf
  <2>4. UsersOf(rd, c, l) \in Nat
    BY <2>2 DEF UsersOf
  <2> QED BY <1>1, <2>1, <2>3, <2>4 DEF TightAt
<1> QED BY <1>2, <1>3, <1>4, <1>6 DEF Held, Counted

\* All legs go (route_path_destroy).
LEMMA DropAll ==
    ASSUME NEW ls \in [LegIds -> Leg], NEW p, NEW rd, NEW c, Held(ls, p, rd, c),
           NEW ms, ms = Release(ls, LegsOf(c))
    PROVE  /\ ms \in [LegIds -> Leg] /\ Held(ms, NoLeg, rd, <<>>)
           /\ \A l \in LegIds : TightAt(ls, rd, c, l) => TightAt(ms, rd, <<>>, l)
<1>1. \A l \in LegIds : ls[l].in_use \in Nat /\ ls[l].in_use >= UsersOf(rd, c, l)
  BY DEF Held, Counted, Leg
<1>2. ms \in [LegIds -> Leg]
  BY ReleaseType
<1>3. Chain(ms, NoLeg, <<>>) /\ LegsOf(<<>>) = {}
  BY DEF Chain, LegsOf
<1>4. ASSUME NEW l \in LegIds
      PROVE  /\ ms[l].in_use >= UsersOf(rd, <<>>, l)
             /\ TightAt(ls, rd, c, l) => TightAt(ms, rd, <<>>, l)
  <2>1. Cardinality(On(rd, l)) \in Nat
    BY OnCount
  <2>2. UsersOf(rd, c, l) = UsersOf(rd, <<>>, l) + (IF l \in LegsOf(c) THEN 1 ELSE 0)
        /\ UsersOf(rd, <<>>, l) \in Nat
    BY <1>3, <2>1 DEF UsersOf
  <2>3. ms[l].in_use = ls[l].in_use - (IF l \in LegsOf(c) THEN 1 ELSE 0)
    <3>1. l \in LegsOf(c) /\ ls[l].in_use <= 1 => ms[l].in_use = 0 /\ ls[l].in_use = 1
      BY <1>1, <2>2, ReleaseIs
    <3>2. ~(l \in LegsOf(c) /\ ls[l].in_use <= 1) =>
             ms[l].in_use = IF l \in LegsOf(c) THEN ls[l].in_use - 1 ELSE ls[l].in_use
      BY ReleaseIs
    <3> QED BY <1>1, <3>1, <3>2
  <2> QED BY <1>1, <2>2, <2>3 DEF TightAt
<1> QED BY <1>2, <1>3, <1>4 DEF Held, Counted

\* A new leg is put before the path.
LEMMA PutBefore ==
    ASSUME NEW ls \in [LegIds -> Leg], NEW p, NEW rd, NEW c, Held(ls, p, rd, c),
           NEW l \in LegIds, l \notin LegsOf(c), On(rd, l) = {},
           ls[l].next = p, ls[l].in_use = 1
    PROVE  /\ Held(ls, l, rd, <<l>> \o c)
           /\ TightAt(ls, rd, <<l>> \o c, l)
           /\ \A k \in LegIds \ {l} :
                 TightAt(ls, rd, c, k) => TightAt(ls, rd, <<l>> \o c, k)
<1>1. /\ <<l>> \o c \in Seq(LegIds) /\ Chain(ls, l, <<l>> \o c)
      /\ LegsOf(<<l>> \o c) = {l} \cup LegsOf(c)
  BY LongerChain DEF Held
<1>2. Cardinality(On(rd, l)) = 0
  BY OnCount
<1>3. UsersOf(rd, <<l>> \o c, l) = 1
  BY <1>1, <1>2 DEF UsersOf
<1>4. \A k \in LegIds \ {l} : UsersOf(rd, <<l>> \o c, k) = UsersOf(rd, c, k)
  BY <1>1 DEF UsersOf
<1> QED BY <1>1, <1>3, <1>4 DEF Held, Counted, TightAt

\* An unused leg may say anything.
LEMMA Renewed ==
    ASSUME NEW ls \in [LegIds -> Leg], NEW p, NEW rd, NEW c, Held(ls, p, rd, c),
           NEW l \in LegIds, l \notin LegsOf(c), On(rd, l) = {},
           NEW new \in Leg, NEW ms, ms = [ls EXCEPT ![l] = new]
    PROVE  /\ ms \in [LegIds -> Leg] /\ Held(ms, p, rd, c)
           /\ ms[l] = new /\ \A k \in LegIds \ {l} : ms[k] = ls[k]
           /\ \A k \in LegIds \ {l} : TightAt(ls, rd, c, k) => TightAt(ms, rd, c, k)
<1>1. /\ ms \in [LegIds -> Leg] /\ ms[l] = new /\ ms[l].in_use \in Nat
      /\ \A k \in LegIds \ {l} : ms[k] = ls[k]
  BY DEF Leg
<1>2. LegsOf(c) \subseteq LegIds \ {l}
  BY DEF Held, LegsOf
<1>3. Chain(ms, p, c)
  BY <1>1, <1>2, SameChain DEF Held
<1>4. UsersOf(rd, c, l) = 0
  <2>1. Cardinality(On(rd, l)) = 0
    BY OnCount
  <2> QED BY <2>1 DEF UsersOf
<1>5. Counted(ms, rd, c)
  BY <1>1, <1>4 DEF Held, Counted
<1> QED BY <1>1, <1>3, <1>5 DEF Held, TightAt

\* A reader goes from a leg to another one.
LEMMA Advance ==
    ASSUME NEW ls \in [LegIds -> Leg], NEW p, NEW rd, DOMAIN rd = Readers, NEW c,
           Held(ls, p, rd, c), NEW r \in Readers, rd[r] \in LegIds,
           NEW to \in LegIds, NEW rd2, rd2 = Moves(rd, r, to),
           NEW ms, ms = Release(CountedUp(ls, to), {rd[r]})
    PROVE  /\ Held(ms, p, rd2, c)
           /\ \A l \in LegsOf(c) : SameLeg(ls, ms, l)
           /\ \A l \in LegIds : TightAt(ls, rd, c, l) => TightAt(ms, rd2, c, l)
<1>0. /\ c \in Seq(LegIds) /\ Chain(ls, p, c)
      /\ \A l \in LegIds : ls[l].in_use >= UsersOf(rd, c, l)
  BY DEF Held, Counted
<1>1. PICK ks : ks = CountedUp(ls, to)
  OBVIOUS
<1>2. /\ ks \in [LegIds -> Leg] /\ Chain(ks, p, c)
      /\ \A l \in LegIds :
           /\ SameLeg(ls, ks, l) /\ ls[l].in_use \in Nat
           /\ ks[l].in_use = ls[l].in_use + (IF l = to THEN 1 ELSE 0)
  BY <1>0, <1>1, CountUp
<1>3. ASSUME NEW l \in LegIds
      PROVE  /\ Suffices(ks, rd, c, to, l)
             /\ TightAt(ls, rd, c, l) => Exact(ks, rd, c, to, l)
  <2>1. Cardinality(On(rd, l)) \in Nat
    BY OnCount
  <2>2. UsersOf(rd, c, l) \in Nat
    BY <2>1 DEF UsersOf
  <2> QED BY <1>0, <1>2, <2>2 DEF TightAt, Suffices, Exact, Expected
<1>4. ms = Release(ks, {rd[r]})
  BY <1>1
<1>5. /\ Held(ms, p, rd2, c)
      /\ \A l \in LegsOf(c) : SameLeg(ks, ms, l)
      /\ \A l \in LegIds : Exact(ks, rd, c, to, l) => TightAt(ms, rd2, c, l)
  BY <1>0, <1>2, <1>3, <1>4, Leave
<1>6. \A l \in LegsOf(c) : SameLeg(ls, ms, l)
  <2>1. LegsOf(c) \subseteq LegIds
    BY <1>0 DEF LegsOf
  <2> QED BY <1>2, <1>5, <2>1 DEF SameLeg
<1> QED BY <1>3, <1>5, <1>6

\* A reader leaves its leg for none.
LEMMA Exit ==
    ASSUME NEW ls \in [LegIds -> Leg], NEW p, NEW rd, DOMAIN rd = Readers, NEW c,
           Held(ls, p, rd, c), NEW r \in Readers, rd[r] \in LegIds,
           NEW to, to \notin LegIds
    PROVE  /\ Held(Release(ls, {rd[r]}), p, Moves(rd, r, to), c)
           /\ \A l \in LegsOf(c) : SameLeg(ls, Release(ls, {rd[r]}), l)
           /\ \A l \in LegIds :
                 TightAt(ls, rd, c, l)
                    => TightAt(Release(ls, {rd[r]}), Moves(rd, r, to), c, l)
<1> PICK rd2, ms : rd2 = Moves(rd, r, to) /\ ms = Release(ls, {rd[r]})
  OBVIOUS
<1>0. /\ c \in Seq(LegIds) /\ Chain(ls, p, c)
      /\ \A l \in LegIds : ls[l].in_use >= UsersOf(rd, c, l)
  BY DEF Held, Counted
<1>1. ASSUME NEW l \in LegIds
      PROVE  /\ Suffices(ls, rd, c, to, l)
             /\ TightAt(ls, rd, c, l) => Exact(ls, rd, c, to, l)
  <2>1. Cardinality(On(rd, l)) \in Nat
    BY OnCount
  <2>2. UsersOf(rd, c, l) \in Nat /\ l # to
    BY <2>1 DEF UsersOf
  <2> QED BY <1>0, <2>2 DEF TightAt, Suffices, Exact, Expected
<1>2. /\ Held(ms, p, rd2, c)
      /\ \A l \in LegsOf(c) : SameLeg(ls, ms, l)
      /\ \A l \in LegIds : Exact(ls, rd, c, to, l) => TightAt(ms, rd2, c, l)
  BY <1>0, <1>1, Leave
<1> QED BY <1>1, <1>2

\* Readers that are on no leg before and after.
LEMMA Elsewhere ==
    ASSUME NEW ls, NEW p, NEW rd, DOMAIN rd = Readers, NEW c,
           Held(ls, p, rd, c), NEW r \in Readers, rd[r] \notin LegIds,
           NEW to, to \notin LegIds
    PROVE  /\ Held(ls, p, Moves(rd, r, to), c)
           /\ \A l \in LegIds :
                 TightAt(ls, rd, c, l) => TightAt(ls, Moves(rd, r, to), c, l)
<1> PICK rd2 : rd2 = Moves(rd, r, to)
  OBVIOUS
<1>1. \A l \in LegIds : On(rd2, l) = On(rd, l)
  BY DEF On, Moves
<1>2. \A l \in LegIds : UsersOf(rd2, c, l) = UsersOf(rd, c, l)
  BY <1>1 DEF UsersOf
<1> QED BY <1>2 DEF Held, Counted, TightAt

\* what a new leg says is what the leg found says
IsLeg(leg, new) ==
    /\ leg.from = new.from /\ leg.to = new.to /\ leg.traffic = new.traffic
    /\ leg.update_required = new.update_required /\ leg.in_use = new.in_use

\* A leg found is put before the path ...
LEMMA Prepend ==
    ASSUME NEW ls \in [LegIds -> Leg], NEW p, NEW rd, NEW c, Held(ls, p, rd, c),
           NEW l \in LegIds, l \notin LegsOf(c), On(rd, l) = {},
           NEW new \in Leg, new.next = p, new.in_use = 1,
           NEW ms, ms = [ls EXCEPT ![l] = new]
    PROVE  /\ Held(ms, l, rd, <<l>> \o c) /\ IsLeg(ms[l], new)
           /\ \A k \in LegsOf(c) : SameLeg(ls, ms, k)
           /\ Tight(ls, rd, c) => Tight(ms, rd, <<l>> \o c)
<1>1. /\ ms \in [LegIds -> Leg] /\ Held(ms, p, rd, c)
      /\ ms[l] = new /\ \A k \in LegIds \ {l} : ms[k] = ls[k]
      /\ \A k \in LegIds \ {l} : TightAt(ls, rd, c, k) => TightAt(ms, rd, c, k)
  BY Renewed
<1>2. ms[l].next = p /\ ms[l].in_use = 1 /\ IsLeg(ms[l], new)
  BY <1>1 DEF IsLeg
<1>3. /\ Held(ms, l, rd, <<l>> \o c) /\ TightAt(ms, rd, <<l>> \o c, l)
      /\ \A k \in LegIds \ {l} : TightAt(ms, rd, c, k) => TightAt(ms, rd, <<l>> \o c, k)
  BY <1>1, <1>2, PutBefore
<1>4. \A k \in LegsOf(c) : k \in LegIds \ {l}
  BY DEF Held, LegsOf
<1>5. \A k \in LegsOf(c) : SameLeg(ls, ms, k)
  BY <1>1, <1>4 DEF SameLeg
<1>6. Tight(ls, rd, c) => Tight(ms, rd, <<l>> \o c)
  BY <1>1, <1>3 DEF Tight
<1> QED BY <1>2, <1>3, <1>5, <1>6

\* ... or takes the place of the first leg.
LEMMA Replace ==
    ASSUME NEW ls \in [LegIds -> Leg], NEW p \in LegIds, NEW rd, NEW c,
           Held(ls, p, rd, c),
           NEW l \in LegIds, l \notin LegsOf(c), On(rd, l) = {},
           NEW new \in Leg, new.next = ls[p].next, new.in_use = 1,
           NEW ms, ms = Release([ls EXCEPT ![l] = new], {p})
    PROVE  /\ Held(ms, l, rd, <<l>> \o Tail(c)) /\ IsLeg(ms[l], new)
           /\ \A k \in LegsOf(Tail(c)) : SameLeg(ls, ms, k)
           /\ Tight(ls, rd, c) => Tight(ms, rd, <<l>> \o Tail(c))
<1>1. PICK ks : ks = [ls EXCEPT ![l] = new]
  OBVIOUS
<1>2. /\ ks \in [LegIds -> Leg] /\ Held(ks, p, rd, c)
      /\ ks[l] = new /\ \A k \in LegIds \ {l} : ks[k] = ls[k]
      /\ \A k \in LegIds \ {l} : TightAt(ls, rd, c, k) => TightAt(ks, rd, c, k)
  BY <1>1, Renewed
<1>3. ms = Release(ks, {p})
  BY <1>1
<1>4. /\ ms \in [LegIds -> Leg] /\ c # <<>>
      /\ Held(ms, ks[p].next, rd, Tail(c))
      /\ \A k \in LegsOf(Tail(c)) : SameLeg(ks, ms, k)
      /\ \A k \in LegIds : TightAt(ks, rd, c, k) => TightAt(ms, rd, Tail(c), k)
  BY <1>2, <1>3, DropFirst
<1>5. /\ LegsOf(c) = {p} \cup LegsOf(Tail(c)) /\ p \notin LegsOf(Tail(c))
      /\ Tail(c) \in Seq(LegIds) /\ Chain(ls, ls[p].next, Tail(c))
  <2>1. c \in Seq(LegIds) /\ Chain(ls, p, c)
    BY DEF Held
  <2> QED BY <1>4, <2>1, TailChain
<1>6. p # l /\ l \notin LegsOf(Tail(c)) /\ ks[p].next = ls[p].next
  BY <1>2, <1>5
<1>7. ls[p].next # p
  <2>1. ls[p].next = IF Tail(c) = <<>> THEN NoLeg ELSE Tail(c)[1]
    BY <1>5 DEF Chain
  <2>2. Tail(c) # <<>> => Tail(c)[1] \in LegsOf(Tail(c))
    <3>1. PICK t \in Seq(LegIds) : t = Tail(c)
      BY <1>5
    <3>2. t # <<>> => 1 \in DOMAIN t
      OBVIOUS
    <3> QED BY <3>1, <3>2 DEF LegsOf
  <2>3. NoLeg \notin LegIds
    BY ConstantsAssumption
  <2> QED BY <1>5, <2>1, <2>2, <2>3
<1>8. ks[l].next \notin {p} \cap LegIds /\ ~(l \in {p} /\ ks[l].in_use <= 1) /\ l \notin {p}
  BY <1>2, <1>6, <1>7
<1>9. /\ SameLeg(ks, ms, l) /\ ms[l].in_use = ks[l].in_use /\ ms[l].next = ks[l].next
  BY <1>2, <1>3, <1>8, ReleaseIs
<1>10. ms[l].next = ls[p].next /\ ms[l].in_use = 1 /\ IsLeg(ms[l], new)
  BY <1>2, <1>9 DEF IsLeg, SameLeg
<1>11. /\ Held(ms, l, rd, <<l>> \o Tail(c)) /\ TightAt(ms, rd, <<l>> \o Tail(c), l)
       /\ \A k \in LegIds \ {l} :
             TightAt(ms, rd, Tail(c), k) => TightAt(ms, rd, <<l>> \o Tail(c), k)
  BY <1>4, <1>6, <1>10, PutBefore
<1>12. \A k \in LegsOf(Tail(c)) : SameLeg(ls, ms, k)
  <2>1. \A k \in LegsOf(Tail(c)) : k \in LegIds \ {l}
    BY <1>5, <1>6 DEF LegsOf
  <2> QED BY <1>2, <1>4, <2>1 DEF SameLeg
<1>13. Tight(ls, rd, c) => Tight(ms, rd, <<l>> \o Tail(c))
  BY <1>2, <1>4, <1>11 DEF Tight
<1> QED BY <1>10, <1>11, <1>12, <1>13

-----------------------------------------------------------------------------
(* The actions *)

\* The path c has become d, and no user is counted that is not there.
Becomes(c, d) ==
    /\ Held(legs', path2', reader', d)
    /\ Tight(legs, reader, c) => Tight(legs', reader', d)
Keeps(c) == /\ path2' = path2
            /\ \A l \in LegsOf(c) : SameLeg(legs, legs', l)

LEMMA HeldTyped ==
    ASSUME Inv
    PROVE  /\ legs \in [LegIds -> Leg]
           /\ DOMAIN reader = Readers
           /\ NoLeg \notin LegIds /\ Closed \notin LegIds /\ FreedLeg \notin LegIds
BY LegsTyped, ConstantsAssumption DEF Inv, TypeOK, LegsType

\* Where nothing happens to the legs and their users.
LEMMA SamePath ==
    ASSUME NEW c, Held(legs, path2, reader, c), UNCHANGED <<legs, path2, reader>>
    PROVE  Becomes(c, c) /\ Keeps(c)
<1>1. \A l : SameLeg(legs, legs', l)
  BY DEF SameLeg
<1> QED BY <1>1 DEF Becomes, Keeps

LEMMA OpenReaderPath ==
    ASSUME Inv, NEW c, Held(legs, path2, reader, c), NEW r \in Readers, OpenReader(r)
    PROVE  Becomes(c, c) /\ Keeps(c)
<1>1. /\ legs \in [LegIds -> Leg] /\ DOMAIN reader = Readers /\ Closed \notin LegIds
  BY HeldTyped
<1>2. /\ reader[r] = Closed /\ path2' = path2 /\ reader' = Moves(reader, r, path2)
  BY DEF OpenReader, Moves
<1>3. LegsOf(c) \subseteq LegIds
  BY DEF Held, LegsOf
<1>4. PICK ls, p, rd, ms, rd2 :
          ls = legs /\ p = path2 /\ rd = reader /\ ms = legs' /\ rd2 = reader'
  OBVIOUS
<1>5. /\ ls \in [LegIds -> Leg] /\ DOMAIN rd = Readers /\ Held(ls, p, rd, c)
      /\ rd[r] \notin LegIds /\ rd2 = Moves(rd, r, p)
  BY <1>1, <1>2, <1>4
<1>6. CASE path2 \in LegIds
  <2>1. ms = CountedUp(ls, p) /\ p \in LegIds
    BY <1>4, <1>6 DEF OpenReader, CountedUp
  <2>2. /\ Held(CountedUp(ls, p), p, Moves(rd, r, p), c)
        /\ \A l \in LegIds :
             /\ SameLeg(ls, CountedUp(ls, p), l)
             /\ TightAt(ls, rd, c, l)
                    => TightAt(CountedUp(ls, p), Moves(rd, r, p), c, l)
    BY <1>5, <2>1, Enter
  <2>3. /\ Held(ms, p, rd2, c)
        /\ \A l \in LegIds : /\ SameLeg(ls, ms, l)
                             /\ TightAt(ls, rd, c, l) => TightAt(ms, rd2, c, l)
    BY <1>5, <2>1, <2>2
  <2>4. Held(legs', path2', reader', c)
    BY <1>2, <1>4, <2>3
  <2>5. Tight(legs, reader, c) => Tight(legs', reader', c)
    BY <1>4, <2>3 DEF Tight
  <2>6. Keeps(c)
    BY <1>2, <1>3, <1>4, <2>3 DEF Keeps
  <2> QED BY <2>4, <2>5, <2>6 DEF Becomes
<1>7. CASE path2 \notin LegIds
  <2>1. legs' = legs
    BY <1>7 DEF OpenReader
  <2>2. /\ Held(ls, p, rd2, c)
        /\ \A l \in LegIds : TightAt(ls, rd, c, l) => TightAt(ls, rd2, c, l)
    BY <1>4, <1>5, <1>7, Elsewhere
  <2>3. Held(legs', path2', reader', c)
    BY <1>2, <1>4, <2>1, <2>2
  <2>4. Tight(legs, reader, c) => Tight(legs', reader', c)
    BY <1>4, <2>1, <2>2 DEF Tight
  <2>5. Keeps(c)
    BY <1>2, <2>1 DEF Keeps, SameLeg
  <2> QED BY <2>3, <2>4, <2>5 DEF Becomes
<1> QED BY <1>6, <1>7

LEMMA AdvanceReaderPath ==
    ASSUME Inv, NEW c, Held(legs, path2, reader, c), NEW r \in Readers, AdvanceReader(r)
    PROVE  Becomes(c, c) /\ Keeps(c)
<1>1. /\ legs \in [LegIds -> Leg] /\ DOMAIN reader = Readers
  BY HeldTyped
<1>2. PICK to \in LegIds : to = legs[reader[r]].next
  BY DEF AdvanceReader
<1>3. /\ reader[r] \in LegIds /\ path2' = path2 /\ reader' = Moves(reader, r, to)
      /\ legs' = Release(CountedUp(legs, to), {reader[r]})
  BY <1>2 DEF AdvanceReader, Moves, CountedUp
<1>4. PICK ls, p, rd, ms, rd2 :
          ls = legs /\ p = path2 /\ rd = reader /\ ms = legs' /\ rd2 = reader'
  OBVIOUS
<1>5. /\ ls \in [LegIds -> Leg] /\ DOMAIN rd = Readers /\ Held(ls, p, rd, c)
      /\ rd[r] \in LegIds /\ rd2 = Moves(rd, r, to)
      /\ ms = Release(CountedUp(ls, to), {rd[r]})
  BY <1>1, <1>3, <1>4
<1>6. /\ Held(ms, p, rd2, c)
      /\ \A l \in LegsOf(c) : SameLeg(ls, ms, l)
      /\ \A l \in LegIds : TightAt(ls, rd, c, l) => TightAt(ms, rd2, c, l)
  BY <1>5, Advance
<1> QED BY <1>3, <1>4, <1>6 DEF Becomes, Keeps, Tight

LEMMA CloseReaderPath ==
    ASSUME Inv, NEW c, Held(legs, path2, reader, c), NEW r \in Readers, CloseReader(r)
    PROVE  Becomes(c, c) /\ Keeps(c)
<1>1. /\ legs \in [LegIds -> Leg] /\ DOMAIN reader = Readers
      /\ Closed \notin LegIds /\ NoLeg \notin LegIds
  BY HeldTyped
<1>2. path2' = path2 /\ reader' = Moves(reader, r, Closed)
  BY DEF CloseReader, Moves
<1>4. PICK ls, p, rd, ms, rd2 :
          ls = legs /\ p = path2 /\ rd = reader /\ ms = legs' /\ rd2 = reader'
  OBVIOUS
<1>5. /\ ls \in [LegIds -> Leg] /\ DOMAIN rd = Readers /\ Held(ls, p, rd, c)
      /\ rd2 = Moves(rd, r, Closed)
  BY <1>1, <1>2, <1>4
<1>6. CASE reader[r] = NoLeg /\ legs' = legs
  <2>1. rd[r] \notin LegIds
    BY <1>1, <1>4, <1>6
  <2>2. /\ Held(ls, p, rd2, c)
        /\ \A l \in LegIds : TightAt(ls, rd, c, l) => TightAt(ls, rd2, c, l)
    BY <1>1, <1>5, <2>1, Elsewhere
  <2>3. Held(legs', path2', reader', c)
    BY <1>2, <1>4, <1>6, <2>2
  <2>4. Tight(legs, reader, c) => Tight(legs', reader', c)
    BY <1>4, <1>6, <2>2 DEF Tight
  <2>5. Keeps(c)
    BY <1>2, <1>6 DEF Keeps, SameLeg
  <2> QED BY <2>3, <2>4, <2>5 DEF Becomes
<1>7. CASE reader[r] \in LegIds /\ legs' = Release(legs, {reader[r]})
  <2>1. rd[r] \in LegIds /\ ms = Release(ls, {rd[r]})
    BY <1>4, <1>7
  <2>2. /\ Held(Release(ls, {rd[r]}), p, Moves(rd, r, Closed), c)
        /\ \A l \in LegsOf(c) : SameLeg(ls, Release(ls, {rd[r]}), l)
        /\ \A l \in LegIds :
              TightAt(ls, rd, c, l)
                 => TightAt(Release(ls, {rd[r]}), Moves(rd, r, Closed), c, l)
    BY <1>1, <1>5, <2>1, Exit
  <2>3. /\ Held(ms, p, rd2, c)
        /\ \A l \in LegsOf(c) : SameLeg(ls, ms, l)
        /\ \A l \in LegIds : TightAt(ls, rd, c, l) => TightAt(ms, rd2, c, l)
    BY <1>5, <2>1, <2>2
  <2>4. Held(legs', path2', reader', c)
    BY <1>2, <1>4, <2>3
  <2>5. Tight(legs, reader, c) => Tight(legs', reader', c)
    BY <1>4, <2>3 DEF Tight
  <2>6. Keeps(c)
    BY <1>2, <1>4, <2>3 DEF Keeps
  <2> QED BY <2>4, <2>5, <2>6 DEF Becomes
<1> QED BY <1>6, <1>7 DEF CloseReader

LEMMA DestroyPathPath ==
    ASSUME Inv, NEW c, Held(legs, path2, reader, c), DestroyPath, reader' = reader
    PROVE  Becomes(c, <<>>) /\ path2' = NoLeg
<1>1. Reach({path2}) = LegsOf(c)
  BY ReachIsPath DEF Held
<1>2. legs' = Release(legs, LegsOf(c)) /\ path2' = NoLeg
  BY <1>1 DEF DestroyPath
<1>3. PICK ls, p, rd, ms : ls = legs /\ p = path2 /\ rd = reader /\ ms = legs'
  OBVIOUS
<1>4. ls \in [LegIds -> Leg] /\ Held(ls, p, rd, c) /\ ms = Release(ls, LegsOf(c))
  BY <1>2, <1>3, HeldTyped
<1>5. /\ Held(ms, NoLeg, rd, <<>>)
      /\ \A l \in LegIds : TightAt(ls, rd, c, l) => TightAt(ms, rd, <<>>, l)
  BY <1>4, DropAll
<1> QED BY <1>2, <1>3, <1>5 DEF Becomes, Tight

\* What is left of the path when a leg is found.
Followers(c) == IF link_path \/ path2 = NoLeg THEN c ELSE Tail(c)

LEMMA InstallLegPath ==
    ASSUME Inv, NEW c, Held(legs, path2, reader, c), InstallLeg, reader' = reader
    PROVE  \E l \in LegIds :
             /\ path2' = l /\ Becomes(c, <<l>> \o Followers(c))
             /\ Followers(c) \in Seq(LegIds) /\ l \notin LegsOf(Followers(c))
             /\ IsLeg(legs'[l], NewLeg)
             /\ \A k \in LegsOf(Followers(c)) : SameLeg(legs, legs', k)
<1>1. PICK l \in UnusedLegs :
          /\ path2' = l
          /\ legs' = IF link_path \/ path2 = NoLeg
                     THEN [legs EXCEPT ![l] = NewLeg]
                     ELSE Release([legs EXCEPT ![l] = NewLeg], {path2})
  BY DEF InstallLeg
<1>2. c \in Seq(LegIds) /\ Chain(legs, path2, c)
  BY DEF Held
<1>3. l \in LegIds /\ l \notin LegsOf(c) /\ On(reader, l) = {}
  BY <1>2, UnusedIsFree
<1>4. NewLeg \in Leg /\ NewLeg.in_use = 1 /\ NewLeg.next = NextOfNewLeg
  <2>1. TypeOK
    BY DEF Inv
  <2>2. NextOfNewLeg \in LegIds \cup {NoLeg, FreedLeg}
    BY <2>1 DEF TypeOK, NextOfNewLeg
  <2> QED BY <2>1, <2>2, PreviousDestinationType DEF NewLeg, Leg, TypeOK
<1>5. PICK ls, p, rd, ms, new :
          /\ ls = legs /\ p = path2 /\ rd = reader /\ ms = legs' /\ new = NewLeg
  OBVIOUS
<1>6. /\ ls \in [LegIds -> Leg] /\ Held(ls, p, rd, c)
      /\ l \in LegIds /\ l \notin LegsOf(c) /\ On(rd, l) = {}
      /\ new \in Leg /\ new.in_use = 1
  BY <1>3, <1>4, <1>5, HeldTyped
<1>7. path2 \in LegIds \/ path2 = NoLeg
  BY <1>2 DEF Chain
<1>8. CASE link_path \/ path2 = NoLeg
  <2>1. new.next = p
    BY <1>4, <1>5, <1>8, HeldTyped DEF NextOfNewLeg
  <2>2. ms = [ls EXCEPT ![l] = new]
    BY <1>1, <1>5, <1>8
  <2>3. /\ Held(ms, l, rd, <<l>> \o c) /\ IsLeg(ms[l], new)
        /\ \A k \in LegsOf(c) : SameLeg(ls, ms, k)
        /\ Tight(ls, rd, c) => Tight(ms, rd, <<l>> \o c)
    BY <1>6, <2>1, <2>2, Prepend
  <2>4. Followers(c) = c
    BY <1>8 DEF Followers
  <2> QED BY <1>1, <1>2, <1>3, <1>5, <2>3, <2>4 DEF Becomes
<1>9. CASE ~(link_path \/ path2 = NoLeg)
  <2>1. p \in LegIds /\ new.next = ls[p].next
    BY <1>4, <1>5, <1>7, <1>9 DEF NextOfNewLeg
  <2>2. ms = Release([ls EXCEPT ![l] = new], {p})
    BY <1>1, <1>5, <1>9
  <2>3. /\ Held(ms, l, rd, <<l>> \o Tail(c)) /\ IsLeg(ms[l], new)
        /\ \A k \in LegsOf(Tail(c)) : SameLeg(ls, ms, k)
        /\ Tight(ls, rd, c) => Tight(ms, rd, <<l>> \o Tail(c))
    BY <1>6, <2>1, <2>2, Replace
  <2>4. Followers(c) = Tail(c)
    BY <1>9 DEF Followers
  <2>5. Tail(c) \in Seq(LegIds) /\ l \notin LegsOf(Tail(c))
    <3>1. c # <<>>
      BY <1>5, <2>1, HeldTyped, <1>2 DEF Chain
    <3> QED BY <1>2, <1>3, <3>1, TailChain
  <2> QED BY <1>1, <1>3, <1>5, <2>3, <2>4, <2>5 DEF Becomes
<1> QED BY <1>8, <1>9

LEMMA RemoveWaypointPath ==
    ASSUME Inv, NEW c, Held(legs, path2, reader, c), RemoveWaypoint
    PROVE  /\ Becomes(c, Tail(c)) /\ c # <<>> /\ path2 = c[1]
           /\ \A l \in LegsOf(Tail(c)) : SameLeg(legs, legs', l)
<1>1. PICK ls, p, rd, ms : ls = legs /\ p = path2 /\ rd = reader /\ ms = legs'
  OBVIOUS
<1>2. /\ ls \in [LegIds -> Leg] /\ p \in LegIds /\ Held(ls, p, rd, c)
      /\ ms = Release(ls, {p})
  BY <1>1, HeldTyped DEF RemoveWaypoint
<1>3. path2' = ls[p].next /\ reader' = rd
  BY <1>1 DEF RemoveWaypoint
<1>4. /\ c # <<>> /\ Held(ms, ls[p].next, rd, Tail(c))
      /\ \A l \in LegsOf(Tail(c)) : SameLeg(ls, ms, l)
      /\ \A l \in LegIds : TightAt(ls, rd, c, l) => TightAt(ms, rd, Tail(c), l)
  BY <1>2, DropFirst
<1>5. path2 = c[1]
  BY <1>4 DEF Held, Chain
<1> QED BY <1>1, <1>3, <1>4, <1>5 DEF Becomes, Tight

LEMMA UpdateDeferredPath ==
    ASSUME Inv, NEW c, Held(legs, path2, reader, c), UpdateDeferred
    PROVE  /\ Becomes(c, c) /\ path2' = path2 /\ path2 \in LegIds
           /\ legs'[path2].update_required # 0
           /\ \A l \in LegIds :
                 /\ legs'[l].from = legs[l].from /\ legs'[l].to = legs[l].to
                 /\ legs'[l].in_use = legs[l].in_use
<1>1. /\ legs \in [LegIds -> Leg] /\ path2 \in LegIds
      /\ path2' = path2 /\ reader' = reader
      /\ legs' = [legs EXCEPT ![path2].update_required = DeferredMark]
  BY HeldTyped DEF UpdateDeferred, PathInUse
<1>2. \A l \in LegIds : /\ legs'[l].next = legs[l].next /\ legs'[l].in_use = legs[l].in_use
                        /\ legs'[l].from = legs[l].from /\ legs'[l].to = legs[l].to
  BY <1>1 DEF Leg
<1>3. legs'[path2].update_required # 0
  BY <1>1 DEF Leg, DeferredMark
<1>4. PICK ls, p, rd, ms : ls = legs /\ p = path2 /\ rd = reader /\ ms = legs'
  OBVIOUS
<1>5. c \in Seq(LegIds) /\ Chain(ls, p, c) /\ Counted(ls, rd, c)
  BY <1>4 DEF Held
<1>6. Chain(ms, p, c)
  <2>1. \A l \in LegsOf(c) : ms[l].next = ls[l].next
    BY <1>2, <1>4, <1>5 DEF LegsOf
  <2> QED BY <1>5, <2>1, SameChain
<1>7. Held(ms, p, rd, c)
  BY <1>2, <1>4, <1>5, <1>6 DEF Held, Counted
<1>8. Tight(ls, rd, c) => Tight(ms, rd, c)
  BY <1>2, <1>4 DEF Tight, TightAt
<1> QED BY <1>1, <1>2, <1>3, <1>4, <1>7, <1>8 DEF Becomes

\* No leg is found: the route keeps no leg.
LEMMA UpdateNotFoundPath ==
    ASSUME Inv, NEW c, Held(legs, path2, reader, c), UpdateNotFound
    PROVE  Held(legs', path2', reader', <<>>) /\ path2' = NoLeg
<1>1. PICK ls, p, rd, ms : ls = legs /\ p = path2 /\ rd = reader /\ ms = legs'
  OBVIOUS
<1>2. ls \in [LegIds -> Leg] /\ Held(ls, p, rd, c)
  BY <1>1, HeldTyped
<1>3. path2' = NoLeg /\ reader' = rd
  BY <1>1 DEF UpdateNotFound
<1>4. ms = ls \/ (p \in LegIds /\ ms = Release(ls, {p}))
  <2>1. p = NoLeg \/ p \in LegIds
    BY <1>2 DEF Held, Chain
  <2>2. ms = ls \/ ms = Release(ls, {p})
    BY <1>1 DEF UpdateNotFound
  <2>3. p = NoLeg => Release(ls, {p}) = ls
    <3> SUFFICES ASSUME p = NoLeg PROVE Release(ls, {p}) = ls
      OBVIOUS
    <3>1. {p} \cap LegIds = {}
      BY HeldTyped
    <3>2. ASSUME NEW l \in LegIds
          PROVE  [ls[l] EXCEPT !.in_use = IF l \in {p} THEN @ - 1 ELSE @,
                               !.next = IF @ \in {} THEN FreedLeg ELSE @] = ls[l]
      <4>1. l \notin {p} /\ ls[l] \in Leg
        BY <1>2, <3>1
      <4> QED BY <4>1 DEF Leg
    <3>3. Release(ls, {p}) = [l \in LegIds |-> ls[l]]
      BY <3>1, <3>2 DEF Release
    <3> QED BY <1>2, <3>3
  <2> QED BY <2>1, <2>2, <2>3
<1>5. PICK d : Held(ms, IF ms = ls THEN p ELSE ls[p].next, rd, d) /\ ms \in [LegIds -> Leg]
  <2>1. CASE ms = ls
    BY <1>2, <2>1
  <2>2. CASE ms # ls
    BY <1>2, <1>4, <2>2, DropFirst
  <2> QED BY <2>1, <2>2
<1>6. Chain(ms, NoLeg, <<>>) /\ <<>> \in Seq(LegIds) /\ LegsOf(<<>>) = {}
  BY DEF Chain, LegsOf
<1>7. Counted(ms, rd, <<>>)
  <2>1. \A l \in LegIds : ms[l].in_use \in Nat /\ ms[l].in_use >= UsersOf(rd, d, l)
    BY <1>5 DEF Held, Counted, Leg
  <2>2. \A l \in LegIds : ms[l].in_use >= UsersOf(rd, <<>>, l)
    BY <1>6, <2>1, Fewer
  <2> QED BY <2>2 DEF Counted
<1> QED BY <1>1, <1>3, <1>6, <1>7 DEF Held


-----------------------------------------------------------------------------
(* What an event asks of route_path_update_flags *)

\* The position changes and no path is asked for.
MovesOnly ==
    /\ pc = "idle" /\ pos' \in Fixes /\ (pos' = NoPos \/ destinations = <<>>)
    /\ UNCHANGED <<destinations, current_dst, graphVars, pathVars, route_status,
                   traffic, reader, callVars>>

\* The position has changed, or the list, and with the list the graph goes.
Refreshes(st, drop, async, no_rebuild) ==
    /\ pc = "idle" /\ UNCHANGED <<traffic, reader>>
    /\ PathUpdate(pos', destinations', st, drop, async, no_rebuild)
    /\ ~drop => /\ pos' \in Fixes /\ pos' # NoPos /\ st = route_status
                /\ UNCHANGED <<destinations, current_dst>>
    /\ drop => /\ pos' = pos /\ current_dst' = LastOf(destinations')
               /\ \/ st \in {"no_destination", "destination_set"}
                  \/ st = route_status /\ destinations' # <<>>
               /\ destinations' \in Seq(Dests)
               /\ Distinct(destinations) => Distinct(destinations')
               /\ Len(destinations) <= MaxDests => Len(destinations') <= MaxDests

Refreshed == \E st \in Status, drop, async, no_rebuild \in BOOLEAN :
                 Refreshes(st, drop, async, no_rebuild)

LEMMA SetPositionEvent ==
    ASSUME Inv, NEW p \in Fixes, NEW no_rebuild \in BOOLEAN,
           SetPosition(p, no_rebuild)
    PROVE  MovesOnly \/ Refreshed
<1> USE DEF SetPosition
<1>1. CASE UNCHANGED <<graphVars, pathVars, route_status, callVars>> /\ p = NoPos
  BY <1>1 DEF MovesOnly
<1>2. CASE p # NoPos /\ PathUpdate(p, destinations, route_status, FALSE,
                                   ~no_rebuild, no_rebuild)
  <2>1. PathUpdate(pos', destinations', route_status, FALSE, ~no_rebuild, no_rebuild)
    BY <1>2
  <2>2. route_status \in Status
    BY DEF Inv, TypeOK
  <2>3. Refreshes(route_status, FALSE, ~no_rebuild, no_rebuild)
    BY <1>2, <2>1 DEF Refreshes
  <2> QED BY <2>2, <2>3 DEF Refreshed
<1> QED BY <1>1, <1>2

LEMMA SetPositionFromTrackingEvent ==
    ASSUME Inv, NEW p \in Fixes, SetPositionFromTracking(p)
    PROVE  MovesOnly \/ Refreshed
<1> USE DEF SetPositionFromTracking
<1>1. CASE UNCHANGED <<graphVars, pathVars, route_status, callVars>> /\ destinations = <<>>
  BY <1>1 DEF MovesOnly
<1>2. CASE PathUpdate(p, destinations, route_status, FALSE, TRUE, FALSE)
  <2>1. PathUpdate(pos', destinations', route_status, FALSE, TRUE, FALSE)
    BY <1>2
  <2>2. route_status \in Status
    BY DEF Inv, TypeOK
  <2>3. Refreshes(route_status, FALSE, TRUE, FALSE)
    BY <1>2, <2>1 DEF Refreshes
  <2> QED BY <2>2, <2>3 DEF Refreshed
<1> QED BY <1>1, <1>2

LEMMA SetDestinationsEvent ==
    ASSUME Inv, NEW ds \in DestLists, NEW count, NEW async \in BOOLEAN,
           SetDestinations(ds, count, async)
    PROVE  Refreshed
<1> DEFINE st == IF count > 0 THEN "destination_set" ELSE "no_destination"
<1>1. ds \in Seq(Dests) /\ Distinct(ds) /\ Len(ds) <= MaxDests
  <2>1. PICK n \in 0 .. MaxDests : ds \in [1 .. n -> Dests]
    BY DEF DestLists
  <2>2. ds \in Seq(Dests) /\ Len(ds) = n /\ n <= MaxDests
    BY <2>1, ConstantsAssumption
  <2>3. Distinct(ds)
    BY DEF DestLists, Distinct
  <2> QED BY <2>2, <2>3
<1>2. st \in Status /\ st \in {"no_destination", "destination_set"}
  BY DEF Status
<1>3. /\ PathUpdate(pos, ds, st, TRUE, async, FALSE) /\ pc = "idle"
      /\ destinations' = ds /\ current_dst' = LastOf(ds) /\ UNCHANGED <<pos, traffic, reader>>
  BY DEF SetDestinations
<1> HIDE DEF st
<1>4. PathUpdate(pos', destinations', st, TRUE, async, FALSE)
  BY <1>3
<1>5. Refreshes(st, TRUE, async, FALSE)
  BY <1>1, <1>2, <1>3, <1>4 DEF Refreshes
<1> QED BY <1>2, <1>5 DEF Refreshed

LEMMA AppendDestinationEvent ==
    ASSUME Inv, NEW d \in Dests, NEW found \in BOOLEAN, NEW async \in BOOLEAN,
           AppendDestination(d, found, async)
    PROVE  Refreshed
<1> DEFINE ds == IF found THEN Append(destinations, d) ELSE destinations
<1>1. destinations \in Seq(Dests) /\ route_status \in Status
  BY DEF Inv, TypeOK
<1>2. /\ destinations' = ds /\ current_dst' = LastOf(ds) /\ pc = "idle"
      /\ PathUpdate(pos, ds, route_status, TRUE, async, FALSE)
      /\ UNCHANGED <<pos, traffic, reader>>
  BY DEF AppendDestination
<1>3. /\ ds \in Seq(Dests) /\ ds # <<>>
      /\ Distinct(destinations) => Distinct(ds)
      /\ Len(destinations) <= MaxDests => Len(ds) <= MaxDests
  <2>1. CASE ~found
    BY <1>1, <2>1 DEF AppendDestination
  <2>2. CASE found
    <3>1. PICK es \in Seq(Dests) : es = destinations
      BY <1>1
    <3>2. \A i \in DOMAIN es : es[i] # d
      BY <3>1 DEF AppendDestination
    <3>3. /\ Append(es, d) \in Seq(Dests) /\ Len(Append(es, d)) = Len(es) + 1
          /\ DOMAIN Append(es, d) = 1 .. Len(es) + 1
          /\ \A i \in 1 .. Len(es) : Append(es, d)[i] = es[i]
          /\ Append(es, d)[Len(es) + 1] = d /\ DOMAIN es = 1 .. Len(es) /\ Len(es) \in Nat
      OBVIOUS
    <3>4. Distinct(es) => Distinct(Append(es, d))
      <4>1. PICK fs : fs = Append(es, d)
        OBVIOUS
      <4>2. /\ DOMAIN fs = 1 .. Len(es) + 1 /\ fs[Len(es) + 1] = d
            /\ \A i \in 1 .. Len(es) : fs[i] = es[i] /\ fs[i] # d
        BY <3>2, <3>3, <4>1
      <4>3. Distinct(es) => Distinct(fs)
        BY <3>3, <4>2 DEF Distinct
      <4> QED BY <4>1, <4>3
    <3>5. Len(es) < MaxDests
      BY <3>1 DEF AppendDestination
    <3>6. Len(Append(es, d)) <= MaxDests
      BY <3>3, <3>5, ConstantsAssumption
    <3>7. Append(es, d) # <<>>
      BY <3>3
    <3> QED BY <2>2, <3>1, <3>3, <3>4, <3>6, <3>7
  <2> QED BY <2>1, <2>2
<1> HIDE DEF ds
<1>4. PathUpdate(pos', destinations', route_status, TRUE, async, FALSE)
  BY <1>2
<1>5. Refreshes(route_status, TRUE, async, FALSE)
  BY <1>2, <1>3, <1>4 DEF Refreshes
<1> QED BY <1>1, <1>5 DEF Refreshed

LEMMA RemoveNthWaypointEvent ==
    ASSUME Inv, NEW n \in 1..MaxDests, RemoveNthWaypoint(n)
    PROVE  Refreshed
<1> DEFINE ds == SubSeq(destinations, 1, n - 1)
                   \o SubSeq(destinations, n + 1, Len(destinations))
<1>1. destinations \in Seq(Dests) /\ route_status \in Status
  BY DEF Inv, TypeOK
<1>2. /\ destinations' = ds /\ current_dst' = LastOf(ds) /\ pc = "idle"
      /\ PathUpdate(pos, ds, route_status, TRUE, TRUE, FALSE)
      /\ UNCHANGED <<pos, traffic, reader>>
  BY DEF RemoveNthWaypoint
<1>3. /\ ds \in Seq(Dests) /\ ds # <<>>
      /\ Distinct(destinations) => Distinct(ds)
      /\ Len(destinations) <= MaxDests => Len(ds) <= MaxDests
  <2>1. PICK es \in Seq(Dests) : es = destinations
    BY <1>1
  <2>2. Len(es) \in Nat /\ Len(es) > 1 /\ n \in 1 .. Len(es)
    BY <2>1 DEF RemoveNthWaypoint
  <2>3. PICK a, b : a = SubSeq(es, 1, n - 1) /\ b = SubSeq(es, n + 1, Len(es))
    OBVIOUS
  <2>4. /\ a \in Seq(Dests) /\ Len(a) = n - 1
        /\ \A i \in 1 .. n - 1 : a[i] = es[i]
    BY <2>2, <2>3
  <2>5. /\ b \in Seq(Dests) /\ Len(b) = Len(es) - n
        /\ \A i \in 1 .. Len(es) - n : b[i] = es[i + n]
    BY <2>2, <2>3
  <2>6. PICK fs : fs = a \o b
    OBVIOUS
  <2>7. /\ fs \in Seq(Dests) /\ Len(fs) = Len(es) - 1 /\ DOMAIN fs = 1 .. Len(es) - 1
        /\ \A i \in 1 .. n - 1 : fs[i] = a[i]
        /\ \A i \in n .. Len(es) - 1 : fs[i] = b[i - (n - 1)]
    <3>1. /\ fs \in Seq(Dests) /\ Len(fs) = Len(a) + Len(b)
          /\ \A i \in 1 .. Len(fs) : fs[i] = IF i <= Len(a) THEN a[i] ELSE b[i - Len(a)]
      <4>1. a \in Seq(Dests) /\ b \in Seq(Dests)
        BY <2>4, <2>5
      <4>2. /\ a \o b \in Seq(Dests) /\ Len(a \o b) = Len(a) + Len(b)
            /\ \A i \in 1 .. Len(a) + Len(b) :
                  (a \o b)[i] = IF i <= Len(a) THEN a[i] ELSE b[i - Len(a)]
        BY <4>1, ConcatProperties
      <4> QED BY <2>6, <4>2
    <3>2. Len(fs) = Len(es) - 1 /\ DOMAIN fs = 1 .. Len(es) - 1
      BY <2>2, <2>4, <2>5, <3>1
    <3>3. \A i \in 1 .. n - 1 : i \in 1 .. Len(fs) /\ i <= Len(a)
      BY <2>2, <2>4, <3>2
    <3>4. \A i \in n .. Len(es) - 1 : i \in 1 .. Len(fs) /\ ~(i <= Len(a)) /\ Len(a) = n - 1
      BY <2>2, <2>4, <3>2
    <3> QED BY <3>1, <3>2, <3>3, <3>4
  <2>8. ASSUME NEW i \in 1 .. Len(es) - 1
        PROVE  fs[i] = es[IF i < n THEN i ELSE i + 1]
    <3>1. CASE i < n
      BY <2>2, <2>4, <2>7, <3>1
    <3>2. CASE ~(i < n)
      <4>1. i \in n .. Len(es) - 1 /\ i - (n - 1) \in 1 .. Len(es) - n
            /\ i - (n - 1) + n = i + 1
        BY <2>2, <3>2
      <4>2. b[i - (n - 1)] = es[i + 1]
        BY <2>5, <4>1
      <4> QED BY <2>7, <3>2, <4>1, <4>2
    <3> QED BY <3>1, <3>2
  <2>9. Distinct(es) => Distinct(fs)
    <3> SUFFICES ASSUME Distinct(es), NEW i \in 1 .. Len(es) - 1, NEW j \in 1 .. Len(es) - 1,
                        fs[i] = fs[j]
                 PROVE  i = j
      BY <2>7 DEF Distinct
    <3> DEFINE k(x) == IF x < n THEN x ELSE x + 1
    <3>1. es[k(i)] = es[k(j)]
      BY <2>8
    <3>2. k(i) \in DOMAIN es /\ k(j) \in DOMAIN es
      BY <2>2
    <3>3. k(i) = k(j)
      <4> HIDE DEF k
      <4> QED BY <3>1, <3>2 DEF Distinct
    <3> QED BY <2>2, <3>3
  <2>10. Len(es) <= MaxDests => Len(fs) <= MaxDests
    BY <2>2, <2>7, ConstantsAssumption
  <2>11. fs = ds /\ fs # <<>>
    <3>1. fs # <<>>
      BY <2>2, <2>7
    <3>2. fs = ds
      BY <2>1, <2>3, <2>6
    <3> QED BY <3>1, <3>2
  <2> QED BY <2>1, <2>7, <2>9, <2>10, <2>11
<1> HIDE DEF ds
<1>4. PathUpdate(pos', destinations', route_status, TRUE, TRUE, FALSE)
  BY <1>2
<1>5. Refreshes(route_status, TRUE, TRUE, FALSE)
  BY <1>2, <1>3, <1>4 DEF Refreshes
<1> QED BY <1>1, <1>5 DEF Refreshed

\* What may happen.
LEMMA Cases ==
    ASSUME Inv, [Next]_vars
    PROVE  \/ MovesOnly \/ Refreshed \/ RemoveWaypoint
           \/ \E r \in Readers : OpenReader(r) \/ AdvanceReader(r) \/ CloseReader(r)
           \/ TrafficUpdate \/ BuildDone
           \/ UpdateDeferred \/ UpdateNextLeg \/ UpdateComplete \/ UpdateNotFound
           \/ UNCHANGED vars
<1>1. CASE UserCommand
  BY <1>1, SetDestinationsEvent, AppendDestinationEvent, RemoveNthWaypointEvent
  DEF UserCommand
<1>2. CASE PositionFix
  BY <1>2, SetPositionEvent, SetPositionFromTrackingEvent DEF PositionFix
<1> QED BY <1>1, <1>2 DEF Next, ReaderStep, UpdateDone

\* The four ways of route_path_update_flags: nothing to route, the graph is
\* being built, the path is found in the graph there is, a new graph.
Nothing(drop, st) ==
    /\ ~Routable(pos', destinations') /\ DestroyPath
    /\ graph' = IF drop THEN "none" ELSE graph
    /\ flooded' = IF drop THEN NotFlooded ELSE flooded
    /\ route_status' = st /\ UNCHANGED <<link_path, callVars>>
Waits(st) == /\ graph = "busy" /\ route_status' = st
             /\ UNCHANGED <<graphVars, pathVars, callVars>>
Again(st) == /\ graph = "ready" /\ pc' = "update" /\ route_status' = st
             /\ UNCHANGED <<graphVars, pathVars>>
Anew == /\ Routable(pos', destinations') /\ DestroyPath /\ UNCHANGED link_path
        /\ route_status' = "building_graph"
        /\ \/ graph' = "busy" /\ pc' = "idle"
           \/ /\ graph' = "ready" /\ pc' = "update"
              /\ flooded'.traffic = traffic

LEMMA Ways ==
    ASSUME NEW st, NEW drop \in BOOLEAN, NEW async \in BOOLEAN, NEW no_rebuild \in BOOLEAN,
           PathUpdate(pos', destinations', st, drop, async, no_rebuild)
    PROVE  \/ Nothing(drop, st)
           \/ Routable(pos', destinations') /\ ~drop /\ (Waits(st) \/ Again(st))
           \/ Anew /\ (drop \/ graph = "none")
BY DEF PathUpdate, Nothing, Waits, Again, Anew, GraphUpdate, Flood


-----------------------------------------------------------------------------
(* in_use counts every user, whatever the environment does. *)

LEMMA RefreshedPath ==
    ASSUME Inv, NEW c, Held(legs, path2, reader, c), Refreshed
    PROVE  \/ UNCHANGED <<legs, path2, reader>>
           \/ Becomes(c, <<>>) /\ path2' = NoLeg
<1>1. PICK st \in Status, drop, async, no_rebuild \in BOOLEAN :
          Refreshes(st, drop, async, no_rebuild)
  BY DEF Refreshed
<1>2. /\ PathUpdate(pos', destinations', st, drop, async, no_rebuild) /\ reader' = reader
  BY <1>1 DEF Refreshes
<1>3. UNCHANGED pathVars \/ DestroyPath
  BY <1>2, Ways DEF Nothing, Waits, Again, Anew
<1> QED BY <1>2, <1>3, DestroyPathPath DEF pathVars

LEMMA PathStep ==
    ASSUME Inv, NEW c, Held(legs, path2, reader, c), [Next]_vars
    PROVE  \E d : Held(legs', path2', reader', d)
<1>1. CASE UNCHANGED <<legs, path2, reader>>
  BY <1>1, SamePath DEF Becomes
<1>2. CASE Refreshed
  BY <1>1, <1>2, RefreshedPath DEF Becomes
<1>3. CASE RemoveWaypoint
  BY <1>3, RemoveWaypointPath DEF Becomes
<1>4. ASSUME NEW r \in Readers, OpenReader(r) \/ AdvanceReader(r) \/ CloseReader(r)
      PROVE  \E d : Held(legs', path2', reader', d)
  BY <1>4, OpenReaderPath, AdvanceReaderPath, CloseReaderPath DEF Becomes
<1>5. CASE UpdateDeferred
  BY <1>5, UpdateDeferredPath DEF Becomes
<1>6. CASE UpdateNextLeg \/ UpdateComplete
  <2>1. InstallLeg /\ reader' = reader
    BY <1>6 DEF UpdateNextLeg, UpdateComplete
  <2> QED BY <2>1, InstallLegPath DEF Becomes
<1>7. CASE UpdateNotFound
  BY <1>7, UpdateNotFoundPath
<1>8. MovesOnly \/ TrafficUpdate \/ BuildDone \/ UNCHANGED vars
         => UNCHANGED <<legs, path2, reader>>
  BY DEF MovesOnly, TrafficUpdate, BuildDone, vars, pathVars
<1> QED BY <1>1, <1>2, <1>3, <1>4, <1>5, <1>6, <1>7, <1>8, Cases

LEMMA InitHeld ==
    ASSUME Init
    PROVE  Held(legs, path2, reader, <<>>) /\ Tight(legs, reader, <<>>)
<1>1. \A l \in LegIds : legs[l].in_use = 0 /\ On(reader, l) = {}
  BY ConstantsAssumption DEF Init, FreeLeg, On
<1>2. \A l \in LegIds : Cardinality(On(reader, l)) = 0
  BY <1>1, OnCount
<1>3. <<>> \in Seq(LegIds) /\ Chain(legs, path2, <<>>) /\ LegsOf(<<>>) = {}
  BY DEF Init, Chain, LegsOf
<1> QED BY <1>1, <1>2, <1>3 DEF Held, Counted, Tight, TightAt, UsersOf

LEMMA PathHolds == Spec => [](Inv /\ PathInv)
<1>1. Init => Inv /\ PathInv
  BY InitInv, InitHeld DEF PathInv
<1>2. Inv /\ PathInv /\ [Next]_vars => PathInv'
  BY PathStep DEF PathInv
<1> QED BY <1>1, <1>2, NextInv, PTL DEF Spec

\* The users of a leg that the property speaks of are those of the chain.
LEMMA UsersAre ==
    ASSUME NEW c, Held(legs, path2, reader, c), NEW l
    PROVE  Users(l) = UsersOf(reader, c, l)
<1>1. Reach({path2}) = LegsOf(c)
  BY ReachIsPath DEF Held
<1> QED BY <1>1 DEF Users, UsersOf, On

\* in_use of struct route_path never counts less than the route and the
\* readers that hold a leg, for any number of readers, legs and destinations,
\* wherever the readers stand while the path is rebuilt leg by leg, dropped or
\* loses its first leg.  It is the struct that the count keeps, not the
\* segments.
THEOREM CountsCorrect == Spec => []CountsEveryUser
<1>1. Inv /\ PathInv => CountsEveryUser
  BY UsersAre DEF PathInv, CountsEveryUser, Held, Counted
<1> QED BY <1>1, PathHolds, PTL

\* A leg with a reader is in use, and if it is the first of the path, by two.
LEMMA ReadersCount ==
    ASSUME Inv, PathInv, NEW r \in Readers, reader[r] \in LegIds
    PROVE  /\ legs[reader[r]].in_use >= 1
           /\ reader[r] = path2 => legs[reader[r]].in_use > 1
           /\ reader[r] \notin UnusedLegs
<1> DEFINE l == reader[r]
<1>1. PICK c : Held(legs, path2, reader, c)
  BY DEF PathInv
<1>2. c \in Seq(LegIds) /\ Chain(legs, path2, c) /\ r \in On(reader, l)
  BY <1>1 DEF Held, On
<1>3. legs[l].in_use \in Nat /\ legs[l].in_use >= UsersOf(reader, c, l)
  BY <1>1, HeldTyped DEF Held, Counted, Leg
<1>4. Cardinality(On(reader, l)) \in Nat /\ Cardinality(On(reader, l)) >= 1
  BY <1>2, OnCount
<1>5. l = path2 => l \in LegsOf(c)
  <2>1. ASSUME l = path2 PROVE c # <<>> /\ c[1] = l
    BY <1>2, <2>1, HeldTyped DEF Chain
  <2>2. c # <<>> => 1 \in DOMAIN c
    BY <1>2
  <2> QED BY <2>1, <2>2 DEF LegsOf
<1>6. l \notin UnusedLegs
  BY <1>2, UnusedIsFree
<1> HIDE DEF l
<1>7. legs[l].in_use >= 1 /\ (l = path2 => legs[l].in_use > 1)
  BY <1>3, <1>4, <1>5 DEF UsersOf
<1> QED BY <1>6, <1>7 DEF l

\* Releasing the first leg does nothing to the count of another.
LEMMA ReleaseSpares ==
    ASSUME NEW ls \in [LegIds -> Leg], NEW l \in LegIds, l # path2
    PROVE  Release(ls, {path2})[l].in_use = ls[l].in_use
BY ReleaseIs

\* No way out of route_path_update_done takes the segments from under a reader
\* whose leg still has them: the leg it replaces is the first, and that has no
\* reader when the count says so.
THEOREM UpdateSparesCorrect == Spec => UpdateSparesReaders
<1> DEFINE Spared(r) == reader[r] \notin gone' /\ legs'[reader[r]].in_use > 0
<1>1. ASSUME Inv, PathInv, UpdateDone, NEW r \in Readers,
             reader[r] \in LegIds \ gone
      PROVE  Spared(r)
  <2> DEFINE l == reader[r]
  <2>1. /\ l \in LegIds /\ l \notin gone /\ l \notin UnusedLegs
        /\ legs \in [LegIds -> Leg] /\ legs[l].in_use \in Nat
        /\ legs[l].in_use >= 1 /\ (l = path2 => legs[l].in_use > 1)
    BY <1>1, ReadersCount, HeldTyped DEF Leg
  <2> HIDE DEF l
  <2>2. CASE UpdateDeferred
    <3>1. gone' = gone /\ legs'[l].in_use = legs[l].in_use
      BY <2>1, <2>2 DEF UpdateDeferred, PathInUse, Leg
    <3> QED BY <2>1, <3>1 DEF l
  <2>3. CASE ~PathInUse /\ InstallLeg
    <3>1. l # path2
      BY <2>1, <2>3 DEF PathInUse
    <3>2. PICK n \in UnusedLegs :
             \/ /\ legs' = [legs EXCEPT ![n] = NewLeg]
                /\ gone' = gone \ {n}
             \/ /\ legs' = Release([legs EXCEPT ![n] = NewLeg], {path2})
                /\ gone' \subseteq gone \cup {path2}
      BY <2>3 DEF InstallLeg
    <3>3. l # n /\ l \notin gone'
      BY <2>1, <3>1, <3>2
    <3>4. NewLeg \in Leg /\ n \in LegIds
      <4>1. TypeOK
        BY <1>1 DEF Inv
      <4>2. NextOfNewLeg \in LegIds \cup {NoLeg, FreedLeg}
        BY <4>1 DEF TypeOK, NextOfNewLeg
      <4> QED BY <4>1, <4>2, PreviousDestinationType
          DEF NewLeg, Leg, TypeOK, UnusedLegs
    <3>5. PICK ls : /\ ls = [legs EXCEPT ![n] = NewLeg]
                    /\ ls \in [LegIds -> Leg] /\ ls[l] = legs[l]
      <4>1. [legs EXCEPT ![n] = NewLeg] \in [LegIds -> Leg]
        BY <2>1, <3>4
      <4>2. [legs EXCEPT ![n] = NewLeg][l] = legs[l]
        BY <2>1, <3>3
      <4> QED BY <4>1, <4>2
    <3>6. legs'[l].in_use = legs[l].in_use
      BY <2>1, <3>1, <3>2, <3>5, ReleaseSpares
    <3> QED BY <2>1, <3>3, <3>6 DEF l
  <2>4. CASE UpdateNotFound
    <3>1. l # path2
      BY <2>1, <2>4 DEF UpdateNotFound, PathInUse
    <3>2. gone' \subseteq gone \cup {path2}
      BY <2>4 DEF UpdateNotFound, FreeSegments
    <3>3. legs'[l].in_use = legs[l].in_use
      BY <2>1, <2>4, <3>1, ReleaseSpares DEF UpdateNotFound
    <3> QED BY <2>1, <3>1, <3>2, <3>3 DEF l
  <2> QED BY <1>1, <2>2, <2>3, <2>4
      DEF UpdateDone, UpdateNextLeg, UpdateComplete
<1>2. Inv /\ PathInv =>
        [UpdateDone => \A r \in Readers :
             reader[r] \in LegIds \ gone => Spared(r)]_vars
  BY <1>1
<1> QED BY <1>2, PathHolds, PTL DEF UpdateSparesReaders

-----------------------------------------------------------------------------
(* The update finds a graph and a position, if the position is never lost. *)

PositionKept == NoPos \notin Fixes

LEMMA DefinedRefreshed ==
    ASSUME PositionKept, Inv, DefinedInv, Refreshed
    PROVE  DefinedInv'
<1>1. PICK st \in Status, drop, async, no_rebuild \in BOOLEAN :
          Refreshes(st, drop, async, no_rebuild)
  BY DEF Refreshed
<1>2. /\ PathUpdate(pos', destinations', st, drop, async, no_rebuild) /\ pc = "idle"
      /\ ~drop => pos' # NoPos /\ st = route_status
                  /\ UNCHANGED <<destinations, current_dst>>
      /\ drop => pos' = pos /\ (\/ st \in {"no_destination", "destination_set"}
                                \/ st = route_status /\ destinations' # <<>>)
  BY <1>1 DEF Refreshes
<1>3. graph # "none" => destinations # <<>>
  BY DEF Inv, CurrentIsDestination
<1>4. CASE Nothing(drop, st)
  <2>1. /\ graph' = (IF drop THEN "none" ELSE graph) /\ route_status' = st /\ pc' = pc
        /\ (pos' = NoPos \/ destinations' = <<>>)
    BY <1>4 DEF Nothing, Routable, callVars
  <2>2. CASE drop
    <3>1. st = route_status /\ destinations' # <<>> => graph = "none"
      BY <1>2, <2>1, <2>2 DEF DefinedInv
    <3>2. st \in {"no_destination", "destination_set"}
      BY <1>2, <2>2, <3>1 DEF DefinedInv
    <3> QED BY <1>2, <2>1, <2>2, <3>2 DEF DefinedInv
  <2>3. CASE ~drop
    <3>1. graph' = "none" /\ graph = "none"
      BY <1>2, <1>3, <2>1, <2>3
    <3> QED BY <1>2, <2>1, <2>3, <3>1 DEF DefinedInv
  <2> QED BY <2>2, <2>3
<1>5. CASE Routable(pos', destinations') /\ (Waits(st) \/ Again(st))
  BY <1>2, <1>5 DEF DefinedInv, Waits, Again, Routable, graphVars, callVars
<1>6. CASE Anew
  BY <1>6 DEF DefinedInv, Anew, Routable
<1> QED BY <1>2, <1>4, <1>5, <1>6, Ways

LEMMA DefinedStep ==
    ASSUME PositionKept, Inv, DefinedInv, [Next]_vars
    PROVE  DefinedInv'
<1>1. CASE MovesOnly
  BY <1>1 DEF MovesOnly, DefinedInv, graphVars, callVars, PositionKept
<1>2. CASE RemoveWaypoint
  <2>1. graph = "ready"
    BY <1>2, ConstantsAssumption DEF RemoveWaypoint, Inv, FloodedForCurrentDestination
  <2> QED BY <1>2, <2>1 DEF RemoveWaypoint, DefinedInv
<1>3. ASSUME NEW r \in Readers, OpenReader(r) \/ AdvanceReader(r)
      PROVE  DefinedInv'
  BY <1>3 DEF OpenReader, AdvanceReader, DefinedInv, routeVars, graphVars, callVars
<1>4. ASSUME NEW r \in Readers, CloseReader(r)
      PROVE  DefinedInv'
  <2>1. pc' = "update" => route_status \notin {"no_destination", "destination_set"}
    BY <1>4 DEF CloseReader, UpdateIsDue, callVars
  <2>2. /\ pos' = pos /\ graph' = graph /\ route_status' = route_status
    BY <1>4 DEF CloseReader, routeVars, graphVars
  <2> QED BY <2>1, <2>2 DEF DefinedInv
<1>5. CASE TrafficUpdate \/ BuildDone
  BY <1>5 DEF TrafficUpdate, BuildDone, Flood, DefinedInv, routeVars, callVars
<1>6. CASE UpdateDeferred \/ UpdateNextLeg \/ UpdateComplete
  BY <1>6 DEF UpdateDeferred, UpdateNextLeg, UpdateComplete, DefinedInv, Flood, LegFound,
              UpdateDefined, routeVars, graphVars
<1>7. CASE UpdateNotFound
  BY <1>7 DEF UpdateNotFound, GraphUpdate, DefinedInv, UpdateDefined, routeVars, graphVars
<1>8. CASE UNCHANGED vars
  BY <1>8 DEF vars, routeVars, graphVars, callVars, DefinedInv
<1> QED BY <1>1, <1>2, <1>3, <1>4, <1>5, <1>6, <1>7, <1>8, DefinedRefreshed, Cases

\* Whenever route_path_update_done runs, the position and the graph it reads
\* unchecked are there, provided that a fix never loses the position.
THEOREM UpdateDefinedCorrect ==
    ASSUME PositionKept
    PROVE  Spec => []UpdateIsDefined
<1>1. Init => DefinedInv
  BY DEF Init, DefinedInv
<1>2. Inv /\ DefinedInv => UpdateIsDefined
  <2> SUFFICES ASSUME Inv, DefinedInv, pc = "update" PROVE UpdateDefined
    BY DEF UpdateIsDefined
  <2>1. graph # "none" /\ pos # NoPos
    BY DEF DefinedInv
  <2>2. TypeOK /\ \E i \in DOMAIN destinations : destinations[i] = current_dst
    BY <2>1 DEF Inv, CurrentIsDestination
  <2>3. current_dst \in Dests
    BY <2>2 DEF TypeOK
  <2>4. PreviousDestination # NoPos
    BY <2>1, <2>2, PreviousDestinationType, ConstantsAssumption DEF StartsAtPosition, Origins
  <2> QED BY <2>1, <2>3, <2>4, ConstantsAssumption DEF UpdateDefined
<1>3. Inv /\ DefinedInv /\ [Next]_vars => DefinedInv'
  BY DefinedStep
<1> QED BY <1>1, <1>2, <1>3, InvariantHolds, PTL DEF Spec


-----------------------------------------------------------------------------
(* What the first leg of a path that is shown says *)

\* With a fix that is on the map or off the road the first leg starts at the
\* position; in every environment it is computed with the current traffic.
FirstInv == /\ PathInv /\ TrafficInv
            /\ PositionKept => PositionInv

LEMMA FirstLeg ==
    ASSUME NEW ls, NEW p, NEW rd, NEW c, Held(ls, p, rd, c), p \in LegIds
    PROVE  c # <<>> /\ c[1] = p /\ p \in LegsOf(c)
<1>1. c # <<>> /\ c[1] = p
  BY ConstantsAssumption DEF Held, Chain
<1>2. 1 \in DOMAIN c
  BY <1>1 DEF Held
<1> QED BY <1>1, <1>2 DEF LegsOf

\* Nothing is said of a path that is gone, or is about to be found again.
LEMMA FirstGone ==
    ASSUME path2' = NoLeg \/ pc' = "update",
           graph' = "ready" => flooded'.traffic = traffic'
    PROVE  TrafficInv' /\ PositionInv'
BY ConstantsAssumption DEF TrafficInv, PositionInv

\* The first leg stays as it is.
LEMMA FirstKept ==
    ASSUME NEW c, Held(legs, path2, reader, c), Keeps(c), pc = "idle",
           TrafficInv, PositionKept => PositionInv,
           UNCHANGED <<traffic, graph, flooded, pos>>
    PROVE  TrafficInv' /\ (PositionKept => PositionInv')
<1>1. path2' = path2 /\ (path2 \in LegIds => SameLeg(legs, legs', path2))
  BY FirstLeg DEF Keeps
<1> QED BY <1>1 DEF TrafficInv, PositionInv, SameLeg

LEMMA NoPathYet == Inv /\ graph # "ready" => path2 = NoLeg
BY DEF Inv, FloodedForCurrentDestination

LEMMA FirstRefreshed ==
    ASSUME Inv, FirstInv, Refreshed
    PROVE  TrafficInv' /\ PositionInv'
<1>1. PICK st \in Status, drop, async, no_rebuild \in BOOLEAN :
          Refreshes(st, drop, async, no_rebuild)
  BY DEF Refreshed
<1>2. /\ PathUpdate(pos', destinations', st, drop, async, no_rebuild)
      /\ traffic' = traffic
  BY <1>1 DEF Refreshes
<1>3. CASE Nothing(drop, st)
  <2>1. /\ path2' = NoLeg
        /\ graph' = "ready" => graph = "ready" /\ flooded' = flooded
    BY <1>3 DEF Nothing, DestroyPath
  <2> QED BY <1>2, <2>1, FirstGone DEF FirstInv, TrafficInv
<1>4. CASE Waits(st)
  <2>1. path2' = NoLeg /\ graph' = "busy"
    BY <1>4, NoPathYet DEF Waits, pathVars, graphVars
  <2> QED BY <2>1, FirstGone
<1>5. CASE Again(st)
  <2>1. pc' = "update" /\ graph' = graph /\ flooded' = flooded
    BY <1>5 DEF Again, graphVars
  <2> QED BY <1>2, <2>1, FirstGone DEF FirstInv, TrafficInv
<1>6. CASE Anew
  <2>1. path2' = NoLeg /\ (graph' = "ready" => flooded'.traffic = traffic)
    BY <1>6 DEF Anew, DestroyPath
  <2> QED BY <1>2, <2>1, FirstGone
<1> QED BY <1>2, <1>3, <1>4, <1>5, <1>6, Ways

LEMMA FirstStep ==
    ASSUME Inv, FirstInv, [Next]_vars
    PROVE  TrafficInv' /\ (PositionKept => PositionInv')
<1>0. PICK c : Held(legs, path2, reader, c)
  BY DEF FirstInv, PathInv
<1> DEFINE Goal == TrafficInv' /\ (PositionKept => PositionInv')
<1>1. CASE MovesOnly
  <2>1. PositionKept => path2 = NoLeg
    <3>1. PositionKept => destinations = <<>>
      BY <1>1 DEF MovesOnly, PositionKept
    <3> QED BY <3>1, NoPathYet DEF Inv, CurrentIsDestination
  <2> QED BY <1>1, <2>1, ConstantsAssumption
          DEF MovesOnly, FirstInv, TrafficInv, PositionInv, graphVars, pathVars, callVars
<1>2. CASE RemoveWaypoint
  <2>1. pc' = "update" /\ flooded'.traffic = traffic' 
    BY <1>2 DEF RemoveWaypoint, Flood
  <2> QED BY <2>1, FirstGone
<1>3. ASSUME NEW r \in Readers, OpenReader(r) \/ AdvanceReader(r) \/ CloseReader(r)
      PROVE  Goal
  <2>1. Keeps(c) /\ pc = "idle" /\ UNCHANGED <<traffic, graph, flooded, pos>>
    <3>1. CASE OpenReader(r)
      BY <1>0, <3>1, OpenReaderPath DEF OpenReader, graphVars, routeVars
    <3>2. CASE AdvanceReader(r)
      BY <1>0, <3>2, AdvanceReaderPath DEF AdvanceReader, graphVars, routeVars
    <3>3. CASE CloseReader(r)
      BY <1>0, <3>3, CloseReaderPath DEF CloseReader, graphVars, routeVars
    <3> QED BY <1>3, <3>1, <3>2, <3>3
  <2> QED BY <1>0, <2>1, FirstKept DEF FirstInv
<1>4. CASE TrafficUpdate
  <2>1. CASE graph # "ready"
    <3>1. path2' = NoLeg /\ graph' # "ready"
      BY <1>4, <2>1, NoPathYet DEF TrafficUpdate, pathVars
    <3> QED BY <3>1, FirstGone
  <2>2. CASE graph = "ready"
    <3>1. pc' = "update" /\ flooded' = Recalculated
      BY <1>4, <2>2 DEF TrafficUpdate
    <3>2. flooded'.traffic = traffic'
      BY <3>1 DEF Recalculated, Inv, TypeOK
    <3> QED BY <3>1, <3>2, FirstGone
  <2> QED BY <2>1, <2>2
<1>5. CASE BuildDone
  BY <1>5, FirstGone DEF BuildDone, Flood
<1>6. CASE UpdateDeferred
  <2>1. path2' = path2 /\ legs'[path2].update_required # 0
    BY <1>0, <1>6, UpdateDeferredPath
  <2> QED BY <1>6, <2>1 DEF UpdateDeferred, TrafficInv, PositionInv, FirstInv, graphVars
<1>7. CASE UpdateNextLeg
  BY <1>7, FirstGone DEF UpdateNextLeg, Flood
<1>8. CASE UpdateComplete
  <2>1. IsLeg(legs'[path2'], NewLeg)
    BY <1>0, <1>8, InstallLegPath DEF UpdateComplete
  <2>2. /\ legs'[path2'].traffic = flooded.traffic
        /\ legs'[path2'].from = pos
    BY <1>8, <2>1 DEF IsLeg, NewLeg, UpdateComplete, StartsAtPosition
  <2>3. graph = "ready" /\ UNCHANGED <<traffic, graph, flooded, pos>>
    BY <1>8 DEF UpdateComplete, LegFound, graphVars, routeVars
  <2> QED BY <2>2, <2>3 DEF FirstInv, TrafficInv, PositionInv
<1>9. CASE UpdateNotFound
  <2>1. path2' = NoLeg /\ (graph' = "ready" => graph = "ready" /\ flooded' = flooded)
        /\ traffic' = traffic
    BY <1>9 DEF UpdateNotFound, GraphUpdate, graphVars
  <2> QED BY <2>1, FirstGone DEF FirstInv, TrafficInv
<1>10. CASE UNCHANGED vars
  BY <1>10 DEF vars, graphVars, pathVars, routeVars, callVars, FirstInv, TrafficInv,
               PositionInv
<1> QED BY <1>1, <1>2, <1>3, <1>4, <1>5, <1>6, <1>7, <1>8, <1>9, <1>10, FirstRefreshed,
           Cases

LEMMA FirstHolds == Spec => [](Inv /\ FirstInv)
<1>1. Init => FirstInv
  BY InitHeld, ConstantsAssumption DEF Init, FirstInv, PathInv, TrafficInv, PositionInv
<1>2. Inv /\ FirstInv /\ [Next]_vars => FirstInv'
  BY FirstStep, PathStep DEF FirstInv, PathInv
<1> QED BY <1>1, <1>2, InitInv, NextInv, PTL DEF Spec

\* The path shown starts where the vehicle is: a reader that holds the first
\* leg can delay the update, but the leg is then marked, and it is never freed
\* or replaced without being found from the new position.
THEOREM StartsCorrect ==
    ASSUME PositionKept
    PROVE  Spec => []PathStartsAtPosition
<1>1. FirstInv => PathStartsAtPosition
  BY DEF FirstInv, PositionInv, PathStartsAtPosition, PathShown, Idle
<1> QED BY <1>1, FirstHolds, PTL

\* With one destination the path is one leg, which is found again whenever the
\* traffic changes.
SingleInv ==
    /\ Len(destinations) <= MaxDests /\ ~link_path
    /\ \E c : Held(legs, path2, reader, c) /\ Len(c) <= 1

LEMMA SinglePath ==
    ASSUME MaxDests <= 1, Inv, NEW c, Held(legs, path2, reader, c), Len(c) <= 1,
           ~link_path, [Next]_vars, Len(destinations) <= MaxDests
    PROVE  \E d : Held(legs', path2', reader', d) /\ Len(d) <= 1
<1>0. c \in Seq(LegIds) /\ Len(<<>>) <= 1
  BY DEF Held
<1> DEFINE Goal == \E d : Held(legs', path2', reader', d) /\ Len(d) <= 1
<1>1. CASE UNCHANGED <<legs, path2, reader>>
  BY <1>1, SamePath DEF Becomes
<1>2. CASE Refreshed
  BY <1>0, <1>1, <1>2, RefreshedPath DEF Becomes
<1>3. ~RemoveWaypoint
  BY ConstantsAssumption DEF RemoveWaypoint, Inv, TypeOK
<1>4. ASSUME NEW r \in Readers, OpenReader(r) \/ AdvanceReader(r) \/ CloseReader(r)
      PROVE  Goal
  BY <1>4, OpenReaderPath, AdvanceReaderPath, CloseReaderPath DEF Becomes
<1>5. CASE UpdateDeferred
  BY <1>5, UpdateDeferredPath DEF Becomes
<1>6. CASE UpdateNextLeg \/ UpdateComplete
  <2>1. InstallLeg /\ reader' = reader
    BY <1>6 DEF UpdateNextLeg, UpdateComplete
  <2>2. PICK l \in LegIds : /\ Becomes(c, <<l>> \o Followers(c))
                            /\ Followers(c) \in Seq(LegIds)
    BY <2>1, InstallLegPath
  <2>3. Followers(c) = <<>>
    <3>1. CASE path2 = NoLeg
      <4>1. c = <<>>
        BY <3>1, HeldTyped, <1>0 DEF Held, Chain
      <4> QED BY <3>1, <4>1 DEF Followers
    <3>2. CASE path2 # NoLeg
      <4>1. c # <<>>
        BY <3>2 DEF Held, Chain
      <4>2. Tail(c) = <<>>
        <5>1. Tail(c) \in Seq(LegIds) /\ Len(Tail(c)) = Len(c) - 1 /\ Len(c) \in Nat
          BY <1>0, <4>1
        <5>2. Len(Tail(c)) = 0
          BY <5>1, <1>0, <4>1
        <5> QED BY <5>1, <5>2, EmptySeq
      <4> QED BY <3>2, <4>2 DEF Followers
    <3> QED BY <3>1, <3>2
  <2>4. Len(<<l>> \o Followers(c)) = 1
    BY <2>3
  <2>5. PICK d : d = <<l>> \o Followers(c)
    OBVIOUS
  <2>6. Held(legs', path2', reader', d)
    BY <2>2, <2>5 DEF Becomes
  <2>7. Len(d) <= 1
    BY <2>4, <2>5
  <2> QED BY <2>6, <2>7
<1>7. CASE UpdateNotFound
  BY <1>0, <1>7, UpdateNotFoundPath
<1>8. MovesOnly \/ TrafficUpdate \/ BuildDone \/ UNCHANGED vars
         => UNCHANGED <<legs, path2, reader>>
  BY DEF MovesOnly, TrafficUpdate, BuildDone, vars, pathVars
<1> QED BY <1>1, <1>2, <1>3, <1>4, <1>5, <1>6, <1>7, <1>8, Cases

LEMMA SingleStep ==
    ASSUME MaxDests <= 1, Inv, SingleInv, [Next]_vars
    PROVE  SingleInv'
<1>1. destinations \in Seq(Dests) /\ Len(destinations) \in Nat /\ Len(destinations) <= 1
  BY ConstantsAssumption DEF Inv, TypeOK, SingleInv
<1>2. ~RemoveWaypoint
  BY <1>1 DEF RemoveWaypoint
<1>3. StartsAtPosition
  BY <1>1 DEF StartsAtPosition, PreviousDestination
<1>4. ASSUME Refreshed
      PROVE  Len(destinations') <= MaxDests /\ ~link_path'
  <2>1. PICK st \in Status, drop, async, no_rebuild \in BOOLEAN :
            Refreshes(st, drop, async, no_rebuild)
    BY <1>4 DEF Refreshed
  <2>2. PathUpdate(pos', destinations', st, drop, async, no_rebuild)
    BY <2>1 DEF Refreshes
  <2>3. destinations' = destinations \/ Len(destinations') <= MaxDests
    BY <2>1 DEF Refreshes, SingleInv
  <2>4. link_path' = link_path
    BY <2>2, Ways DEF Nothing, Waits, Again, Anew, pathVars
  <2> QED BY <2>3, <2>4 DEF SingleInv
<1>5. ~Refreshed => destinations' = destinations /\ ~link_path'
  <2>1. ASSUME NEW r \in Readers, OpenReader(r) \/ AdvanceReader(r) \/ CloseReader(r)
        PROVE  destinations' = destinations /\ link_path' = link_path
    BY <2>1 DEF OpenReader, AdvanceReader, CloseReader, routeVars
  <2>2. MovesOnly \/ TrafficUpdate \/ BuildDone \/ UpdateDeferred \/ UNCHANGED vars
           => destinations' = destinations /\ link_path' = link_path
    BY DEF MovesOnly, TrafficUpdate, BuildDone, UpdateDeferred, vars, routeVars, pathVars
  <2>3. UpdateComplete \/ UpdateNotFound => destinations' = destinations /\ ~link_path'
    BY DEF UpdateComplete, UpdateNotFound, routeVars
  <2>4. ~UpdateNextLeg
    BY <1>3 DEF UpdateNextLeg
  <2> QED BY <1>2, <2>1, <2>2, <2>3, <2>4, Cases DEF SingleInv
<1>6. \E d : Held(legs', path2', reader', d) /\ Len(d) <= 1
  BY SinglePath DEF SingleInv
<1> QED BY <1>4, <1>5, <1>6 DEF SingleInv

LEMMA SingleHolds ==
    ASSUME MaxDests <= 1
    PROVE  Spec => [](Inv /\ SingleInv)
<1>1. Init => SingleInv
  <2>1. Len(<<>>) = 0
    OBVIOUS
  <2> SUFFICES ASSUME Init PROVE SingleInv
    OBVIOUS
  <2>2. Len(destinations) <= MaxDests /\ ~link_path
    BY <2>1, ConstantsAssumption DEF Init
  <2>3. Held(legs, path2, reader, <<>>) /\ Len(<<>>) <= 1
    BY <2>1, InitHeld
  <2> QED BY <2>2, <2>3 DEF SingleInv
<1>2. Inv /\ SingleInv /\ [Next]_vars => SingleInv'
  BY SingleStep
<1> QED BY <1>1, <1>2, InitInv, NextInv, PTL DEF Spec

\* A path to one destination is shown only with the current traffic: a change
\* that comes while a reader holds the path marks it, and one that comes while
\* the graph is being built is in the graph.
THEOREM TrafficCorrect ==
    ASSUME MaxDests <= 1
    PROVE  Spec => []TrafficIsReflected
<1>1. FirstInv /\ SingleInv => TrafficIsReflected
  <2> SUFFICES ASSUME FirstInv, SingleInv, PathShown, NEW l \in Reach({path2})
               PROVE  legs[l].traffic = traffic
    BY DEF TrafficIsReflected
  <2>1. PICK c : Held(legs, path2, reader, c) /\ Len(c) <= 1
    BY DEF SingleInv
  <2>2. l \in LegsOf(c) /\ c \in Seq(LegIds)
    BY <2>1, ReachIsPath DEF Held
  <2>3. path2 \in LegIds /\ pc = "idle" /\ legs[path2].update_required = 0
    BY DEF PathShown, Idle
  <2>4. c # <<>> /\ c[1] = path2
    BY <2>1, <2>3, FirstLeg
  <2>5. l = c[1]
    BY <2>1, <2>2 DEF LegsOf
  <2> QED BY <2>3, <2>4, <2>5 DEF FirstInv, TrafficInv
<1> QED BY <1>1, FirstHolds, SingleHolds, PTL


-----------------------------------------------------------------------------
(* The legs of a path and the destinations they lead to *)

\* A leg to the k-th destination before the legs that lead from there.
LEMMA CoversPut ==
    ASSUME NEW ls, NEW ms, NEW ds \in Seq(Dests), NEW c \in Seq(LegIds), NEW l \in LegIds,
           NEW k \in DOMAIN ds, Covers(ls, ds, c, k),
           \A x \in LegsOf(c) : SameLeg(ls, ms, x),
           ms[l].to = ds[k], k > 1 => ms[l].from = ds[k - 1]
    PROVE  Covers(ms, ds, <<l>> \o c, k - 1)
<1>1. PICK d : d = <<l>> \o c
  OBVIOUS
<1>2. /\ Len(c) \in Nat /\ DOMAIN c = 1 .. Len(c) /\ Len(c) = Len(ds) - k
      /\ Len(d) = Len(c) + 1 /\ DOMAIN d = 1 .. Len(d)
      /\ d[1] = l /\ \A i \in 2 .. Len(d) : d[i] = c[i - 1]
  BY <1>1 DEF Covers
<1>3. k \in 1 .. Len(ds) /\ Len(ds) \in Nat
  OBVIOUS
<1>4. Len(d) = Len(ds) - (k - 1)
  BY <1>2, <1>3
<1>5. ASSUME NEW i \in DOMAIN d
      PROVE  /\ ms[d[i]].to = ds[k - 1 + i]
             /\ k - 1 + i > 1 => ms[d[i]].from = ds[k - 1 + i - 1]
  <2>1. CASE i = 1
    <3>1. k - 1 + i = k /\ k - 1 + i - 1 = k - 1
      BY <1>3, <2>1
    <3> QED BY <1>2, <2>1, <3>1
  <2>2. CASE i # 1
    <3>0. i \in 2 .. Len(d)
      BY <1>2, <2>2
    <3>1. i - 1 \in DOMAIN c /\ d[i] = c[i - 1] /\ k + (i - 1) = k - 1 + i
          /\ k + (i - 1) - 1 = k - 1 + i - 1
      <4>1. i - 1 \in 1 .. Len(c)
        BY <1>2, <3>0
      <4>2. k + (i - 1) = k - 1 + i /\ k + (i - 1) - 1 = k - 1 + i - 1
        BY <1>3, <3>0
      <4> QED BY <1>2, <3>0, <4>1, <4>2
    <3>2. c[i - 1] \in LegsOf(c)
      BY <3>1 DEF LegsOf
    <3>3. /\ ls[c[i - 1]].to = ds[k - 1 + i]
          /\ k - 1 + i > 1 => ls[c[i - 1]].from = ds[k - 1 + i - 1]
      BY <3>1 DEF Covers
    <3> QED BY <3>1, <3>2, <3>3 DEF SameLeg
  <2> QED BY <2>1, <2>2
<1> QED BY <1>1, <1>4, <1>5 DEF Covers

\* What follows the first leg leads from the next destination.
LEMMA CoversRest ==
    ASSUME NEW ls, NEW ds \in Seq(Dests), NEW c \in Seq(LegIds), c # <<>>,
           Covers(ls, ds, c, 0)
    PROVE  Covers(ls, ds, Tail(c), 1)
<1>1. PICK t : t = Tail(c)
  OBVIOUS
<1>2. /\ Len(c) \in Nat /\ Len(c) >= 1 /\ DOMAIN c = 1 .. Len(c) /\ Len(c) = Len(ds) - 0
      /\ Len(t) = Len(c) - 1 /\ DOMAIN t = 1 .. Len(t)
      /\ \A i \in 1 .. Len(t) : t[i] = c[i + 1]
      /\ Len(ds) \in Nat
  BY <1>1 DEF Covers
<1>3. ASSUME NEW i \in DOMAIN t
      PROVE  /\ ls[t[i]].to = ds[1 + i]
             /\ 1 + i > 1 => ls[t[i]].from = ds[1 + i - 1]
  <2>1. i + 1 \in DOMAIN c /\ t[i] = c[i + 1] /\ 0 + (i + 1) = 1 + i
        /\ 0 + (i + 1) - 1 = 1 + i - 1
    BY <1>2
  <2>2. /\ ls[c[i + 1]].to = ds[0 + (i + 1)]
        /\ 0 + (i + 1) > 1 => ls[c[i + 1]].from = ds[0 + (i + 1) - 1]
    BY <2>1 DEF Covers
  <2> QED BY <2>1, <2>2
<1>4. Len(t) = Len(ds) - 1
  BY <1>2
<1> QED BY <1>1, <1>3, <1>4 DEF Covers

\* The first destination has been reached.
LEMMA CoversTail ==
    ASSUME NEW ls, NEW ds \in Seq(Dests), NEW c \in Seq(LegIds), c # <<>>,
           Covers(ls, ds, c, 0)
    PROVE  Covers(ls, Tail(ds), Tail(c), 0)
<1>1. Covers(ls, ds, Tail(c), 1)
  BY CoversRest
<1>2. PICK t, es : t = Tail(c) /\ es = Tail(ds)
  OBVIOUS
<1>3. /\ Len(c) \in Nat /\ Len(c) >= 1 /\ Len(c) = Len(ds) - 0 /\ Len(ds) \in Nat
  BY DEF Covers
<1>4. /\ Len(t) \in Nat /\ DOMAIN t = 1 .. Len(t) /\ Len(t) = Len(c) - 1
  BY <1>2, <1>3
<1>5. ds # <<>> /\ Len(es) = Len(ds) - 1 /\ \A i \in 1 .. Len(es) : es[i] = ds[i + 1]
  BY <1>2, <1>3
<1>6. ASSUME NEW i \in DOMAIN t
      PROVE  /\ ls[t[i]].to = es[0 + i]
             /\ 0 + i > 1 => ls[t[i]].from = es[0 + i - 1]
  <2>1. /\ ls[t[i]].to = ds[1 + i]
        /\ 1 + i > 1 => ls[t[i]].from = ds[1 + i - 1]
    BY <1>1, <1>2 DEF Covers
  <2>2. i \in 1 .. Len(es) /\ 0 + i = i /\ i + 1 = 1 + i
    BY <1>3, <1>4, <1>5
  <2>3. i > 1 => i - 1 \in 1 .. Len(es) /\ i - 1 + 1 = i /\ 0 + i - 1 = i - 1 /\ 1 + i - 1 = i
                 /\ 1 + i > 1
    BY <1>3, <1>4, <1>5
  <2>4. es[i] = ds[1 + i]
    BY <1>5, <2>2
  <2>5. i > 1 => es[i - 1] = ds[i]
    BY <1>5, <2>3
  <2> QED BY <2>1, <2>2, <2>3, <2>4, <2>5
<1>7. Len(t) = Len(es) - 0
  BY <1>3, <1>4, <1>5
<1> QED BY <1>2, <1>6, <1>7 DEF Covers

LEMMA CoversSame ==
    ASSUME NEW ls, NEW ms, NEW ds, NEW c \in Seq(LegIds), NEW k, Covers(ls, ds, c, k),
           \A x \in LegsOf(c) : ms[x].to = ls[x].to /\ ms[x].from = ls[x].from
    PROVE  Covers(ms, ds, c, k)
BY DEF Covers, LegsOf

\* The leg to the k-th destination starts at the one before it, or at the
\* position if it is the first.
LEMMA StartOfLeg ==
    ASSUME TypeOK, Distinct(destinations), NEW k, Current(k)
    PROVE  /\ k = 1 => PreviousDestination = pos /\ StartsAtPosition
           /\ k > 1 => /\ PreviousDestination = destinations[k - 1]
                       /\ k - 1 \in DOMAIN destinations /\ ~StartsAtPosition
<1>1. destinations \in Seq(Dests) /\ k \in 1 .. Len(destinations) /\ Len(destinations) \in Nat
  BY DEF TypeOK, Current
<1>2. \A i \in DOMAIN destinations : destinations[i] = current_dst <=> i = k
  BY DEF Current, Distinct
<1>3. CASE k = 1
  <2>1. \A i \in 2 .. Len(destinations) : i \in DOMAIN destinations /\ i # k
    BY <1>1, <1>3
  <2>2. ~\E i \in 2 .. Len(destinations) : destinations[i] = current_dst
    BY <1>2, <2>1
  <2> QED BY <1>3, <2>2 DEF PreviousDestination, StartsAtPosition
<1>4. CASE k > 1
  <2>1. k \in 2 .. Len(destinations) /\ \A i \in 2 .. Len(destinations) : i \in DOMAIN destinations
    BY <1>1, <1>4
  <2>2. /\ \E i \in 2 .. Len(destinations) : destinations[i] = current_dst
        /\ \A i \in 2 .. Len(destinations) : destinations[i] = current_dst => i = k
    BY <1>2, <2>1
  <2>3. (CHOOSE i \in 2 .. Len(destinations) : destinations[i] = current_dst) = k
    BY <2>2
  <2>4. PreviousDestination = destinations[k - 1]
    BY <2>2, <2>3 DEF PreviousDestination
  <2>5. k - 1 \in DOMAIN destinations
    BY <1>1, <2>1
  <2>6. destinations[k - 1] \in Dests /\ pos \notin Dests
    BY <1>1, <2>5, ConstantsAssumption DEF TypeOK, Origins
  <2> QED BY <1>4, <2>4, <2>5, <2>6 DEF StartsAtPosition
<1> QED BY <1>1, <1>3, <1>4


-----------------------------------------------------------------------------
(* A complete path, when every leg is found *)

EveryLegFound == Fixes \subseteq Places /\ Unlinked = {}

\* The legs after the one that is found lead from where it is to end.
LEMMA FollowersCover ==
    ASSUME Inv, ListInv, NEW c, Held(legs, path2, reader, c), Plan(c),
           graph = "ready"
    PROVE  \E k \in DOMAIN destinations :
               /\ Current(k)
               /\ Covers(legs, destinations, Followers(c), k)
<1>1. destinations \in Seq(Dests) /\ destinations # <<>> /\ c \in Seq(LegIds)
      /\ Len(destinations) \in DOMAIN destinations
  BY DEF Inv, TypeOK, CurrentIsDestination, Held
<1>2. CASE path2 = NoLeg
  <2>1. c = <<>>
    BY <1>2, HeldTyped, <1>1 DEF Held, Chain
  <2>2. Covers(legs, destinations, <<>>, Len(destinations))
    BY <1>1 DEF Covers
  <2> QED BY <1>1, <1>2, <2>1, <2>2 DEF ListInv, Followers
<1>3. CASE path2 # NoLeg
  <2>1. c # <<>>
    BY <1>3 DEF Held, Chain
  <2>2. CASE link_path
    BY <2>1, <2>2 DEF Plan, Followers
  <2>3. CASE ~link_path
    <3>1. Current(1) /\ Covers(legs, destinations, c, 0)
      BY <2>1, <2>3 DEF Plan
    <3>2. Covers(legs, destinations, Tail(c), 1)
      BY <1>1, <2>1, <3>1, CoversRest
    <3> QED BY <1>3, <2>3, <3>1, <3>2 DEF Followers, Current
  <2> QED BY <2>2, <2>3
<1> QED BY <1>2, <1>3

\* A leg is found and put before them.
LEMMA FoundPlan ==
    ASSUME Inv, ItineraryInv, InstallLeg, graph = "ready", reader' = reader
    PROVE  \E k \in DOMAIN destinations, d \in Seq(LegIds) :
             /\ Held(legs', path2', reader', d) /\ Tight(legs', reader', d)
             /\ Current(k) /\ Covers(legs', destinations, d, k - 1)
             /\ path2' \in LegIds /\ legs'[path2'].in_use = 1
<1>1. PICK c : Held(legs, path2, reader, c) /\ Tight(legs, reader, c) /\ Plan(c)
  BY DEF ItineraryInv
<1>2. PICK k \in DOMAIN destinations :
          Current(k) /\ Covers(legs, destinations, Followers(c), k)
  BY <1>1, FollowersCover DEF ItineraryInv
<1>3. PICK l \in LegIds :
          /\ path2' = l /\ Becomes(c, <<l>> \o Followers(c))
          /\ Followers(c) \in Seq(LegIds) /\ IsLeg(legs'[l], NewLeg)
          /\ \A x \in LegsOf(Followers(c)) : SameLeg(legs, legs', x)
  BY <1>1, InstallLegPath
<1>4. PICK ls, ms, ds, f :
          ls = legs /\ ms = legs' /\ ds = destinations /\ f = Followers(c)
  OBVIOUS
<1>5. /\ ms[l].to = ds[k] /\ (k > 1 => ms[l].from = ds[k - 1]) /\ ms[l].in_use = 1
  <2>1. ms[l].to = current_dst /\ ms[l].from = PreviousDestination /\ ms[l].in_use = 1
    BY <1>3, <1>4 DEF IsLeg, NewLeg
  <2>2. k > 1 => PreviousDestination = destinations[k - 1]
    BY <1>2, StartOfLeg DEF Inv, ItineraryInv, ListInv
  <2> QED BY <1>2, <1>4, <2>1, <2>2 DEF Current
<1>6. ds \in Seq(Dests) /\ f \in Seq(LegIds) /\ k \in DOMAIN ds /\ Covers(ls, ds, f, k)
      /\ \A x \in LegsOf(f) : SameLeg(ls, ms, x)
  BY <1>2, <1>3, <1>4 DEF Inv, TypeOK
<1>7. Covers(ms, ds, <<l>> \o f, k - 1)
  BY <1>5, <1>6, CoversPut
<1>8. PICK d : d = <<l>> \o f
  OBVIOUS
<1>9. Held(legs', path2', reader', d) /\ Tight(legs', reader', d)
  BY <1>1, <1>3, <1>4, <1>8 DEF Becomes
<1>11. d \in Seq(LegIds)
  BY <1>9 DEF Held
<1>10. Covers(legs', destinations, d, k - 1) /\ path2' \in LegIds /\ legs'[path2'].in_use = 1
  BY <1>3, <1>4, <1>5, <1>7, <1>8
<1> QED BY <1>2, <1>9, <1>10, <1>11

LEMMA NextLegPlan ==
    ASSUME Inv, ItineraryInv, UpdateNextLeg
    PROVE  ItineraryInv'
<1>1. /\ InstallLeg /\ graph = "ready" /\ ~StartsAtPosition /\ link_path'
      /\ current_dst' = PreviousDestination /\ pc' = "update"
      /\ UNCHANGED <<pos, destinations, reader>>
  BY DEF UpdateNextLeg, LegFound, Flood
<1>2. PICK k \in DOMAIN destinations, d \in Seq(LegIds) :
          /\ Held(legs', path2', reader', d) /\ Tight(legs', reader', d)
          /\ Current(k) /\ Covers(legs', destinations, d, k - 1)
          /\ path2' \in LegIds /\ legs'[path2'].in_use = 1
  BY <1>1, FoundPlan
<1>3. PreviousDestination = destinations[k - 1] /\ k - 1 \in DOMAIN destinations
  <2>1. (k = 1 => StartsAtPosition)
        /\ (k > 1 => PreviousDestination = destinations[k - 1]
                     /\ k - 1 \in DOMAIN destinations)
    BY <1>2, StartOfLeg DEF Inv, ItineraryInv, ListInv
  <2>2. k = 1 \/ k > 1
    BY DEF Inv, TypeOK
  <2> QED BY <1>1, <2>1, <2>2
<1>4. PICK j : j = k - 1
  OBVIOUS
<1>5. Current(j)' /\ j \in DOMAIN destinations'
  BY <1>1, <1>3, <1>4 DEF Current
<1>6. Covers(legs', destinations', d, j)
  BY <1>1, <1>2, <1>4
<1>7. Plan(d)'
  BY <1>1, <1>2, <1>5, <1>6 DEF Plan
<1>8. ListInv'
  BY <1>1, <1>2, HeldTyped DEF ItineraryInv, ListInv
<1> QED BY <1>2, <1>7, <1>8 DEF ItineraryInv

LEMMA CompletePlan ==
    ASSUME Inv, ItineraryInv, UpdateComplete
    PROVE  ItineraryInv'
<1>1. /\ InstallLeg /\ graph = "ready" /\ StartsAtPosition /\ ~link_path'
      /\ UNCHANGED <<pos, destinations, current_dst, reader>>
  BY DEF UpdateComplete, LegFound, routeVars
<1>2. PICK k \in DOMAIN destinations, d \in Seq(LegIds) :
          /\ Held(legs', path2', reader', d) /\ Tight(legs', reader', d)
          /\ Current(k) /\ Covers(legs', destinations, d, k - 1)
          /\ path2' \in LegIds /\ legs'[path2'].in_use = 1
  BY <1>1, FoundPlan
<1>3. k = 1
  <2>1. k > 1 => ~StartsAtPosition
    BY <1>2, StartOfLeg DEF Inv, ItineraryInv, ListInv
  <2>2. k = 1 \/ k > 1
    BY DEF Inv, TypeOK
  <2> QED BY <1>1, <2>1, <2>2
<1>4. Covers(legs', destinations', d, 0)
  <2>1. k - 1 = 0
    BY <1>3
  <2> QED BY <1>1, <1>2, <2>1
<1>5. Plan(d)'
  BY <1>1, <1>2, <1>3, <1>4 DEF Plan, Current
<1>6. ListInv'
  BY <1>1, <1>2, HeldTyped DEF ItineraryInv, ListInv
<1> QED BY <1>2, <1>5, <1>6 DEF ItineraryInv

\* No leg can be missing but for the want of a graph, and then there is no path.
LEMMA NotFoundPlan ==
    ASSUME EveryLegFound, Inv, ItineraryInv, UpdateNotFound
    PROVE  ItineraryInv'
<1>1. PICK c : Held(legs, path2, reader, c) /\ Tight(legs, reader, c) /\ Plan(c)
  BY DEF ItineraryInv
<1>2. /\ ~LegFound /\ UNCHANGED <<pos, destinations, current_dst, reader>>
      /\ path2' = NoLeg /\ ~link_path' /\ pc' = "idle"
      /\ legs' = (IF link_path THEN Release(legs, {path2}) ELSE legs)
      /\ graph' = graph \/ graph' = "busy"
  BY DEF UpdateNotFound, GraphUpdate, routeVars, graphVars
<1>3. graph # "ready"
  <2>1. PreviousDestination \in Dests \/ PreviousDestination = pos
    BY PreviousDestinationType DEF Inv, StartsAtPosition
  <2>2. PreviousDestination # OffRoad
    BY <2>1, ConstantsAssumption DEF ItineraryInv, ListInv
  <2> QED BY <1>2, <2>2 DEF LegFound, EveryLegFound
<1>4. path2 = NoLeg /\ ~link_path
  BY <1>3, NoPathYet DEF ItineraryInv, ListInv
<1>5. legs' = legs /\ path2' = path2
  BY <1>2, <1>4
<1>6. c = <<>>
  BY <1>1, <1>4, HeldTyped DEF Held, Chain
<1>7. Held(legs', path2', reader', c) /\ Tight(legs', reader', c)
  BY <1>1, <1>2, <1>5
<1>8. Plan(c)' /\ ListInv'
  BY <1>2, <1>3, <1>4, <1>6 DEF Plan, ItineraryInv, ListInv, Current
<1> QED BY <1>7, <1>8 DEF ItineraryInv

\* Readers come and go.
LEMMA ReaderPlan ==
    ASSUME Inv, ItineraryInv, NEW r \in Readers,
           OpenReader(r) \/ AdvanceReader(r) \/ CloseReader(r)
    PROVE  ItineraryInv'
<1>1. PICK c : Held(legs, path2, reader, c) /\ Tight(legs, reader, c) /\ Plan(c)
  BY DEF ItineraryInv
<1>2. Becomes(c, c) /\ Keeps(c)
  BY <1>1, OpenReaderPath, AdvanceReaderPath, CloseReaderPath
<1>3. /\ pc = "idle" /\ UNCHANGED <<pos, destinations, current_dst, graph, path2, link_path>>
  BY DEF OpenReader, AdvanceReader, CloseReader, routeVars, graphVars
<1>4. ~link_path
  BY <1>3 DEF ItineraryInv, ListInv
<1>5. ASSUME c # <<>>
      PROVE  Current(1)' /\ Covers(legs', destinations', c, 0)
  <2>1. Current(1) /\ Covers(legs, destinations, c, 0) /\ c \in Seq(LegIds)
    BY <1>1, <1>4, <1>5 DEF Plan, Held
  <2>2. \A l \in LegsOf(c) : legs'[l].to = legs[l].to /\ legs'[l].from = legs[l].from
    BY <1>2 DEF Keeps, SameLeg
  <2>3. PICK ls, ms, ds : ls = legs /\ ms = legs' /\ ds = destinations
    OBVIOUS
  <2>4. Covers(ms, ds, c, 0)
    BY <2>1, <2>2, <2>3, CoversSame
  <2> QED BY <1>3, <2>1, <2>3, <2>4 DEF Current
<1>6. Plan(c)'
  BY <1>3, <1>4, <1>5 DEF Plan
<1>7. ListInv'
  BY <1>3 DEF ItineraryInv, ListInv, Current
<1> QED BY <1>1, <1>2, <1>6, <1>7 DEF ItineraryInv, Becomes

\* An update is left for a reader, which holds a complete path.
LEMMA DeferredPlan ==
    ASSUME Inv, ItineraryInv, UpdateDeferred
    PROVE  ItineraryInv'
<1>1. PICK c : Held(legs, path2, reader, c) /\ Tight(legs, reader, c) /\ Plan(c)
  BY DEF ItineraryInv
<1>2. /\ Becomes(c, c) /\ path2' = path2 /\ path2 \in LegIds
      /\ \A l \in LegIds :
            /\ legs'[l].from = legs[l].from /\ legs'[l].to = legs[l].to
            /\ legs'[l].in_use = legs[l].in_use
  BY <1>1, UpdateDeferredPath
<1>3. /\ UNCHANGED <<pos, destinations, current_dst, graph, link_path>>
      /\ legs[path2].in_use > 1
  BY DEF UpdateDeferred, PathInUse, routeVars, graphVars
<1>4. c # <<>>
  BY <1>1, <1>2, FirstLeg
<1>5. ~link_path /\ Current(1) /\ Covers(legs, destinations, c, 0) /\ c \in Seq(LegIds)
  BY <1>1, <1>3, <1>4 DEF Plan, Held
<1>6. Covers(legs', destinations', c, 0)
  <2>1. PICK ls, ms, ds : ls = legs /\ ms = legs' /\ ds = destinations
    OBVIOUS
  <2>2. LegsOf(c) \subseteq LegIds
    BY <1>5 DEF LegsOf
  <2>3. \A l \in LegsOf(c) : ms[l].to = ls[l].to /\ ms[l].from = ls[l].from
    BY <1>2, <2>1, <2>2
  <2>4. Covers(ms, ds, c, 0)
    BY <1>5, <2>1, <2>3, CoversSame
  <2> QED BY <1>3, <2>1, <2>4
<1>7. Plan(c)' /\ ListInv'
  BY <1>2, <1>3, <1>5, <1>6, HeldTyped DEF Plan, ItineraryInv, ListInv, Current
<1> QED BY <1>1, <1>2, <1>7 DEF ItineraryInv, Becomes

\* The first destination is reached: its leg goes with it.
LEMMA RemoveWaypointPlan ==
    ASSUME Inv, ItineraryInv, RemoveWaypoint
    PROVE  ItineraryInv'
<1>1. PICK c : Held(legs, path2, reader, c) /\ Tight(legs, reader, c) /\ Plan(c)
  BY DEF ItineraryInv
<1>2. /\ pc = "idle" /\ path2 \in LegIds /\ Len(destinations) > 1
      /\ destinations' = Tail(destinations) /\ current_dst' = destinations[2]
      /\ pc' = "update" /\ UNCHANGED <<pos, link_path, reader>>
  BY DEF RemoveWaypoint, Flood
<1>3. /\ Becomes(c, Tail(c)) /\ c # <<>>
      /\ \A l \in LegsOf(Tail(c)) : SameLeg(legs, legs', l)
  BY <1>1, RemoveWaypointPath
<1>4. /\ ~link_path /\ Covers(legs, destinations, c, 0) /\ c \in Seq(LegIds)
      /\ destinations \in Seq(Dests)
  BY <1>1, <1>2, <1>3 DEF Plan, Held, ItineraryInv, ListInv, Inv, TypeOK
<1>5. PICK ls, ms, ds, es, t :
          /\ ls = legs /\ ms = legs' /\ ds = destinations /\ es = Tail(ds) /\ t = Tail(c)
  OBVIOUS
<1>6. Covers(ls, es, t, 0)
  BY <1>3, <1>4, <1>5, CoversTail
<1>7. t \in Seq(LegIds) /\ \A l \in LegsOf(t) : ms[l].to = ls[l].to /\ ms[l].from = ls[l].from
  BY <1>3, <1>4, <1>5 DEF SameLeg
<1>8. Covers(ms, es, t, 0)
  BY <1>6, <1>7, CoversSame
<1>9. /\ Len(ds) \in Nat /\ Len(ds) > 1 /\ Len(es) = Len(ds) - 1
      /\ \A i \in 1 .. Len(es) : es[i] = ds[i + 1] /\ i + 1 \in DOMAIN ds
      /\ DOMAIN es = 1 .. Len(es)
  BY <1>2, <1>4, <1>5
<1>10. 1 \in DOMAIN es /\ es[1] = ds[2]
  <2>1. 1 \in 1 .. Len(es) /\ 1 + 1 = 2
    BY <1>9
  <2> QED BY <1>9, <2>1
<1>11. Current(1)' /\ Covers(legs', destinations', t, 0)
  BY <1>2, <1>5, <1>8, <1>10 DEF Current
<1>12. Distinct(es)
  <2>1. Distinct(ds)
    BY <1>5 DEF ItineraryInv, ListInv
  <2>2. ASSUME NEW i \in 1 .. Len(es), NEW j \in 1 .. Len(es), es[i] = es[j]
        PROVE  i = j
    <3>1. i + 1 \in DOMAIN ds /\ j + 1 \in DOMAIN ds /\ ds[i + 1] = ds[j + 1]
      BY <1>9, <2>2
    <3>2. i + 1 = j + 1
      BY <2>1, <3>1 DEF Distinct
    <3> QED BY <3>2
  <2> QED BY <1>9, <2>2 DEF Distinct
<1>13. Held(legs', path2', reader', t) /\ Tight(legs', reader', t)
  BY <1>1, <1>3, <1>5 DEF Becomes
<1>14. path2' # NoLeg
  <2>1. t # <<>>
    <3>1. Len(t) = Len(es) - 0
      BY <1>8 DEF Covers
    <3>2. Len(t) # 0 /\ Len(<<>>) = 0
      BY <1>9, <3>1
    <3> QED BY <3>2
  <2> QED BY <1>13, <2>1, HeldTyped DEF Held, Chain
<1>15. Plan(t)'
  BY <1>2, <1>4, <1>11 DEF Plan
<1>16. ListInv'
  BY <1>2, <1>5, <1>12, <1>14 DEF ItineraryInv, ListInv
<1> QED BY <1>13, <1>15, <1>16 DEF ItineraryInv

\* The position changes, or the list.
LEMMA RefreshedPlan ==
    ASSUME EveryLegFound, Inv, ItineraryInv, Refreshed
    PROVE  ItineraryInv'
<1>1. PICK c : Held(legs, path2, reader, c) /\ Tight(legs, reader, c) /\ Plan(c)
  BY DEF ItineraryInv
<1>2. PICK st \in Status, drop, async, no_rebuild \in BOOLEAN :
          Refreshes(st, drop, async, no_rebuild)
  BY DEF Refreshed
<1>3. /\ PathUpdate(pos', destinations', st, drop, async, no_rebuild)
      /\ pc = "idle" /\ reader' = reader
      /\ ~drop => /\ pos' \in Fixes /\ pos' # NoPos
                  /\ UNCHANGED <<destinations, current_dst>>
      /\ drop => /\ pos' = pos /\ current_dst' = LastOf(destinations')
                 /\ destinations' \in Seq(Dests)
                 /\ Distinct(destinations) => Distinct(destinations')
  BY <1>2 DEF Refreshes
<1>4. ~link_path /\ Distinct(destinations')
  BY <1>3 DEF ItineraryInv, ListInv
<1>5. pos' # OffRoad
  BY <1>3, ConstantsAssumption DEF EveryLegFound, ItineraryInv, ListInv
<1>6. ASSUME DestroyPath, link_path' = link_path,
             drop \/ graph = "none" \/ destinations' = <<>>,
             graph' = "ready" => pc' = "update"
      PROVE  ItineraryInv'
  <2>1. Held(legs', path2', reader', <<>>) /\ Tight(legs', reader', <<>>) /\ path2' = NoLeg
    BY <1>1, <1>3, <1>6, DestroyPathPath DEF Becomes
  <2>2. destinations' # <<>> => Current(Len(destinations))'
    <3> SUFFICES ASSUME destinations' # <<>> PROVE Current(Len(destinations))'
      OBVIOUS
    <3>1. CASE drop
      BY <1>3, <3>1 DEF Current, LastOf
    <3>2. CASE ~drop
      <4>1. graph = "none" /\ destinations' = destinations /\ current_dst' = current_dst
        BY <1>3, <1>6, <3>2
      <4>2. path2 = NoLeg
        BY <4>1, NoPathYet
      <4> QED BY <4>1, <4>2 DEF ItineraryInv, ListInv, Current
    <3> QED BY <3>1, <3>2
  <2>3. ListInv'
    BY <1>4, <1>5, <1>6, <2>1, <2>2 DEF ListInv
  <2>4. Plan(<<>>)'
    BY DEF Plan
  <2> QED BY <2>1, <2>3, <2>4 DEF ItineraryInv
<1>7. CASE Nothing(drop, st)
  <2>1. pos' # NoPos /\ ~drop => destinations' = <<>> /\ graph' = graph
    BY <1>7 DEF Nothing, Routable
  <2>2. drop => graph' = "none"
    BY <1>7 DEF Nothing
  <2>3. ~drop => graph' = "none"
    BY <1>3, <2>1 DEF Inv, CurrentIsDestination
  <2> QED BY <1>3, <1>6, <1>7, <2>1, <2>2, <2>3 DEF Nothing
<1>8. CASE ~drop /\ (Waits(st) \/ Again(st))
  <2>1. /\ UNCHANGED <<legs, path2, reader, link_path, destinations, current_dst, graph>>
        /\ graph = "busy" \/ pc' = "update"
    BY <1>3, <1>8 DEF Waits, Again, graphVars, pathVars
  <2>2. Plan(c)' /\ ListInv'
    BY <1>1, <1>4, <1>5, <2>1 DEF Plan, ItineraryInv, ListInv, Current
  <2>3. Held(legs', path2', reader', c) /\ Tight(legs', reader', c)
    BY <1>1, <2>1
  <2> QED BY <2>2, <2>3 DEF ItineraryInv
<1>9. CASE Anew /\ (drop \/ graph = "none")
  BY <1>6, <1>9 DEF Anew
<1> QED BY <1>3, <1>7, <1>8, <1>9, Ways

LEMMA ItineraryStep ==
    ASSUME EveryLegFound, Inv, ItineraryInv, [Next]_vars
    PROVE  ItineraryInv'
<1>1. CASE MovesOnly \/ TrafficUpdate \/ BuildDone \/ UNCHANGED vars
  <2>1. PICK c : Held(legs, path2, reader, c) /\ Tight(legs, reader, c) /\ Plan(c)
    BY DEF ItineraryInv
  <2>2. /\ UNCHANGED <<legs, path2, reader, link_path, destinations, current_dst>>
        /\ pc' = "update" \/ (pc' = pc /\ graph' = graph)
        /\ pos' = pos \/ pos' \in Fixes
    BY <1>1 DEF MovesOnly, TrafficUpdate, BuildDone, Flood, vars, routeVars, graphVars,
                pathVars, callVars
  <2>3. pos' # OffRoad
    BY <2>2, ConstantsAssumption DEF EveryLegFound, ItineraryInv, ListInv
  <2>4. Held(legs', path2', reader', c) /\ Tight(legs', reader', c)
    BY <2>1, <2>2
  <2>5. Plan(c)'
    BY <2>1, <2>2 DEF Plan, Current
  <2>6. ListInv'
    <3>1. pc' = "idle" => ~link_path'
      BY <2>2 DEF ItineraryInv, ListInv
    <3>2. pc' = "idle" /\ graph' = "ready" => path2' # NoLeg
      BY <2>2 DEF ItineraryInv, ListInv
    <3> QED BY <2>2, <2>3, <3>1, <3>2 DEF ItineraryInv, ListInv, Current
  <2> QED BY <2>4, <2>5, <2>6 DEF ItineraryInv
<1> QED BY <1>1, RefreshedPlan, RemoveWaypointPlan, ReaderPlan, DeferredPlan, NextLegPlan,
           CompletePlan, NotFoundPlan, Cases

LEMMA ItineraryHolds ==
    ASSUME EveryLegFound
    PROVE  Spec => [](Inv /\ ItineraryInv)
<1>1. Init => ItineraryInv
  <2> SUFFICES ASSUME Init PROVE ItineraryInv
    OBVIOUS
  <2>1. ListInv
    BY ConstantsAssumption DEF Init, ListInv, Distinct, Origins
  <2>2. Plan(<<>>)
    BY DEF Plan
  <2> QED BY <2>1, <2>2, InitHeld DEF ItineraryInv
<1>2. Inv /\ ItineraryInv /\ [Next]_vars => ItineraryInv'
  BY ItineraryStep
<1> QED BY <1>1, <1>2, InitInv, NextInv, PTL DEF Spec

\* As long as every leg is found, the last user of a leg frees it: the path is
\* never lost with its legs still counted as used, for any number of readers.
THEOREM NoLeakCorrect ==
    ASSUME EveryLegFound
    PROVE  Spec => []NoLegLeaks
<1>1. ItineraryInv => NoLegLeaks
  BY UsersAre DEF ItineraryInv, NoLegLeaks, Tight, TightAt
<1> QED BY <1>1, ItineraryHolds, PTL

\* As long as every leg is found, the path shown leads from the position to
\* every destination in the order of the list, however many there are, and
\* wherever the list, the position or the readers changed in between.
THEOREM ItineraryCorrect ==
    ASSUME EveryLegFound
    PROVE  Spec => []FullItinerary
<1>1. PositionKept
  BY ConstantsAssumption DEF EveryLegFound, PositionKept, Origins
<1>2. Inv /\ ItineraryInv /\ FirstInv => FullItinerary
  <2> SUFFICES ASSUME Inv, ItineraryInv, FirstInv, PathShown
               PROVE  \E leg \in [DOMAIN destinations -> LegIds] :
                         /\ destinations # <<>> /\ path2 = leg[1]
                         /\ \A i \in DOMAIN destinations :
                               /\ legs[leg[i]].to = destinations[i]
                               /\ legs[leg[i]].from = IF i = 1 THEN pos
                                                      ELSE destinations[i - 1]
                               /\ legs[leg[i]].next = IF i = Len(destinations) THEN NoLeg
                                                      ELSE leg[i + 1]
    BY DEF FullItinerary
  <2>1. pc = "idle" /\ path2 \in LegIds /\ legs[path2].update_required = 0
    BY DEF PathShown, Idle
  <2>2. PICK c : Held(legs, path2, reader, c) /\ Plan(c)
    BY DEF ItineraryInv
  <2>3. c # <<>> /\ c[1] = path2 /\ c \in Seq(LegIds)
    BY <2>1, <2>2, FirstLeg DEF Held
  <2>4. Current(1) /\ Covers(legs, destinations, c, 0)
    BY <2>1, <2>2, <2>3 DEF Plan, ItineraryInv, ListInv
  <2>5. legs[path2].from = pos
    BY <1>1, <2>1 DEF FirstInv, PositionInv
  <2>6. /\ destinations \in Seq(Dests) /\ destinations # <<>>
        /\ Len(destinations) \in Nat /\ DOMAIN destinations = 1 .. Len(destinations)
        /\ Len(c) = Len(destinations) /\ c \in [DOMAIN destinations -> LegIds]
        /\ DOMAIN c = DOMAIN destinations
    <3>1. destinations \in Seq(Dests) /\ 1 \in DOMAIN destinations
      BY <2>4 DEF Inv, TypeOK, Current
    <3>2. Len(c) = Len(destinations)
      BY <2>4, <3>1 DEF Covers
    <3> QED BY <2>3, <3>1, <3>2
  <2>7. ASSUME NEW i \in DOMAIN destinations
        PROVE  /\ legs[c[i]].to = destinations[i]
               /\ legs[c[i]].from = IF i = 1 THEN pos ELSE destinations[i - 1]
               /\ legs[c[i]].next = IF i = Len(destinations) THEN NoLeg ELSE c[i + 1]
    <3>1. i \in DOMAIN c /\ 0 + i = i /\ 0 + i - 1 = i - 1 /\ (i # 1 => 0 + i > 1)
      BY <2>6
    <3>2. /\ legs[c[i]].to = destinations[i]
          /\ i # 1 => legs[c[i]].from = destinations[i - 1]
      BY <2>4, <3>1 DEF Covers
    <3>3. legs[c[i]].next = IF i = Len(c) THEN NoLeg ELSE c[i + 1]
      BY <2>2, <3>1 DEF Held, Chain
    <3> QED BY <2>3, <2>5, <2>6, <3>2, <3>3
  <2> QED BY <2>3, <2>6, <2>7
<1> QED BY <1>2, ItineraryHolds, FirstHolds, PTL

=============================================================================
