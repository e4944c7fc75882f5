-------------------------- MODULE RouteGraphProofs --------------------------
(***************************************************************************)
(* Theorems about RouteGraph, for every graph, every set of destinations   *)
(* and every set of distortions.                                           *)
(***************************************************************************)
EXTENDS RouteGraph, FiniteSetTheorems, SequenceTheorems,
        WellFoundedInduction, TLAPS

-----------------------------------------------------------------------------
(* The operators *)

\* A set of natural numbers has a least element.
LEMMA NatMin ==
    ASSUME NEW S, S \subseteq Nat, S # {}
    PROVE  Min(S) \in S /\ \A y \in S : Min(S) <= y
<1> DEFINE R == {e \in Nat \X Nat : e[1] < e[2]}
<1>1. IsWellFoundedOn(R, Nat)
  BY NatLessThanWellFounded DEF OpToRel
<1>2. PICK m \in S : \A y \in S : <<y, m>> \notin R
  BY <1>1, WFMin
<1>3. \A y \in S : m <= y
  <2>1. TAKE y \in S
  <2>2. <<y, m>> \in Nat \X Nat /\ ~(y < m)
    BY <1>2
  <2>3. QED
    BY <2>2
<1>4. QED
  BY <1>3 DEF Min

\* A bounded one has a greatest.
LEMMA BoundedMax ==
    ASSUME NEW N \in Nat, NEW S, S \subseteq 0..N, S # {}
    PROVE  Max(S) \in S
<1> DEFINE T == {N - y : y \in S}
<1>1. Min(T) \in T /\ \A y \in T : Min(T) <= y
  <2>1. \A y \in S : N - y \in Nat
    OBVIOUS
  <2>2. T \subseteq Nat /\ T # {}
    BY <2>1
  <2> HIDE DEF T
  <2>3. QED
    BY <2>2, NatMin
<1>2. PICK m \in S : Min(T) = N - m
  BY <1>1
<1>3. \A y \in S : m >= y
  <2>1. TAKE y \in S
  <2>2. N - m <= N - y
    BY <1>1, <1>2
  <2>3. QED
    BY <2>2
<1>4. QED
  BY <1>3 DEF Max

LEMMA PlusType ==
    ASSUME NEW i \in Costs, NEW j \in Nat
    PROVE  Plus(i, j) \in Costs
BY GraphAssumption DEF Plus, Costs

LEMMA OtherType ==
    ASSUME NEW s \in Segments, NEW p \in Points
    PROVE  Other(s, p) \in Points
BY GraphAssumption DEF Other

LEMMA DistortionType ==
    ASSUME delay \in [Distortions -> Delays \cup {0}],
           NEW s \in Segments, NEW p \in Points
    PROVE  Distortion(s, p) \in 0 .. Inf
<1> DEFINE S == {0} \cup {delay[d] : d \in Matching(s, p)}
<1>1. S \subseteq 0..Inf
  <2>1. \A d \in Matching(s, p) : delay[d] \in 0..Inf
    BY GraphAssumption DEF Costs, Matching
  <2>2. QED
    BY <2>1, GraphAssumption
<1>2. Max(S) \in S
  <2>1. S # {} /\ Inf \in Nat
    BY GraphAssumption
  <2> HIDE DEF S
  <2>2. QED
    BY <1>1, <2>1, BoundedMax
<1>3. QED
  BY <1>1, <1>2 DEF Distortion

LEMMA CostType ==
    ASSUME delay \in [Distortions -> Delays \cup {0}],
           NEW s \in Segments, NEW p \in Points
    PROVE  Cost(s, p) \in Costs
<1>1. Time[<<s, p>>] \in Costs
  BY GraphAssumption
<1>2. Plus(Time[<<s, p>>], Distortion(s, p)) \in Costs
  <2>1. Distortion(s, p) \in Nat
    BY DistortionType, GraphAssumption
  <2>2. QED
    BY <1>1, <2>1, PlusType
<1>3. QED
  BY <1>1, <1>2 DEF Cost

LEMMA CostViaType ==
    ASSUME delay \in [Distortions -> Delays \cup {0}],
           NEW val \in [Points -> Costs],
           NEW s \in Segments, NEW p \in Points
    PROVE  CostVia(s, p, val) \in Costs
<1> DEFINE q == Other(s, p)
           penalty == IF SameStreet(s, q) THEN Penalty2 ELSE 0
<1>1. val[q] \in Costs /\ val[q] \in Nat
  BY OtherType, GraphAssumption DEF Costs
<1>2. penalty \in Nat
  BY GraphAssumption
<1>3. Plus(Cost(s, p), penalty) \in Costs
  BY <1>2, CostType, PlusType
<1>4. Plus(Plus(Cost(s, p), penalty), val[q]) \in Costs
  <2> HIDE DEF q, penalty
  <2> QED
    BY <1>1, <1>3, PlusType
<1>5. Inf \in Costs
  BY GraphAssumption DEF Costs
<1>6. QED
  BY <1>4, <1>5 DEF CostVia

\* The lookahead is one of the costs it is the least of.
LEMMA LookaheadType ==
    ASSUME delay \in [Distortions -> Delays \cup {0}],
           dst_val \in [Points -> Costs],
           NEW val \in [Points -> Costs], NEW p \in Points
    PROVE  /\ Lookahead(p, val) \in Costs
           /\ \/ Lookahead(p, val) = dst_val[p]
              \/ \E s \in SegsAt(p) : Lookahead(p, val) = CostVia(s, p, val)
<1> DEFINE S == {dst_val[p]} \cup {CostVia(s, p, val) : s \in SegsAt(p)}
<1>1. S \subseteq Costs
  <2>1. \A s \in SegsAt(p) : CostVia(s, p, val) \in Costs
    BY CostViaType DEF SegsAt
  <2>2. QED
    BY <2>1
<1>2. Min(S) \in S
  <2>1. S \subseteq Nat /\ S # {}
    BY <1>1, GraphAssumption DEF Costs
  <2> HIDE DEF S
  <2>2. QED
    BY <2>1, NatMin
<1>3. QED
  BY <1>1, <1>2 DEF Lookahead

\* An update leaves the point on the heap if it is not locally consistent.
LEMMA PointUpdateType ==
    ASSUME TypeOK, NEW val \in [Points -> Costs], NEW p \in Points,
           PointUpdate(p, val)
    PROVE  /\ rhs' \in [Points -> Costs]
           /\ seg' \in [Points -> Segments \cup {NoSeg}]
           /\ el' \in [Points -> Costs \cup {NoKey}]
           /\ rhs'[p] # val[p] => el'[p] # NoKey
           /\ \A q \in Points \ {p} : rhs'[q] = rhs[q] /\ el'[q] = el[q]
<1> DEFINE new == Lookahead(p, val)
<1>1. new \in Costs
  BY LookaheadType DEF TypeOK
<1>2. /\ Key(new, val[p]) \in Costs \cup {NoKey}
      /\ new # val[p] => Key(new, val[p]) # NoKey
  <2> HIDE DEF new
  <2> QED
    BY <1>1, GraphAssumption DEF Key, Lesser, Costs
<1>3. BestSegs(p, val) \subseteq Segments \cup {NoSeg}
  <2>1. dst_seg[p] \in Segments \cup {NoSeg}
    BY DEF TypeOK
  <2>2. QED
    BY <2>1 DEF BestSegs, SegsAt
<1>4. /\ rhs' = [rhs EXCEPT ![p] = new]
      /\ el' = [el EXCEPT ![p] = Key(new, val[p])]
      /\ \E s \in BestSegs(p, val) : seg' = [seg EXCEPT ![p] = s]
  BY DEF PointUpdate
<1> HIDE DEF new
<1>5. rhs' \in [Points -> Costs] /\ el' \in [Points -> Costs \cup {NoKey}]
  BY <1>1, <1>2, <1>4 DEF TypeOK
<1>6. seg' \in [Points -> Segments \cup {NoSeg}]
  BY <1>3, <1>4 DEF TypeOK
<1>7. rhs'[p] = new /\ el'[p] = Key(new, val[p])
  BY <1>4 DEF TypeOK
<1>8. \A q \in Points \ {p} : rhs'[q] = rhs[q] /\ el'[q] = el[q]
  BY <1>4 DEF TypeOK
<1>9. QED
  BY <1>2, <1>5, <1>6, <1>7, <1>8

\* A part of a cost is a cost.
LEMMA PartType ==
    ASSUME NEW i \in Costs, NEW k \in 0..100
    PROVE  Part(i, k) \in Costs
<1>1. i \in Nat /\ k \in Nat /\ k <= 100 /\ i <= Inf
  BY GraphAssumption DEF Costs
<1>2. i * k \in Nat /\ i * k <= i * 100
  BY <1>1
<1> DEFINE n == i * k
<1>3. n \in Nat /\ n <= i * 100
  BY <1>2
<1> HIDE DEF n
<1>4. n \div 100 \in 0..i
  BY <1>1, <1>3
<1>5. QED
  BY <1>1, <1>4, GraphAssumption DEF Part, n, Costs

LEMMA OfferType ==
    ASSUME TypeOK, NEW d \in Dests, NEW o \in Offers(d)
    PROVE  o.pt \in Points /\ o.seg \in Segments /\ o.val \in Costs
<1>1. d.segs \subseteq Segments /\ d.percent \in 0..100
  BY GraphAssumption
<1>2. 100 - d.percent \in 0..100
  BY <1>1
<1>3. ASSUME NEW s \in d.segs, NEW p \in {From[s], To[s]}, NEW k \in 0..100
      PROVE  p \in Points /\ s \in Segments /\ Part(Cost(s, p), k) \in Costs
  <2>1. s \in Segments /\ p \in Points
    BY <1>1, <1>3, GraphAssumption
  <2>2. Cost(s, p) \in Costs
    BY <2>1, CostType DEF TypeOK
  <2>3. QED
    BY <2>1, <2>2, PartType
<1>4. QED
  BY <1>1, <1>2, <1>3 DEF Offers

\* Starting from a destination puts the points it is offered from on the heap.
LEMMA InitDestType ==
    ASSUME TypeOK, NEW d \in Dests,
           NEW oldRhs \in [Points -> Costs],
           NEW oldSeg \in [Points -> Segments \cup {NoSeg}],
           InitDest(d, oldRhs, oldSeg)
    PROVE  /\ dst_val' \in [Points -> Costs]
           /\ dst_seg' \in [Points -> Segments \cup {NoSeg}]
           /\ rhs' \in [Points -> Costs]
           /\ seg' \in [Points -> Segments \cup {NoSeg}]
           /\ el' \in [Points -> Costs \cup {NoKey}]
           /\ lost' \in [Points -> SUBSET Costs]
           /\ value' = All(Inf) /\ value' \in [Points -> Costs]
           /\ dst' = d /\ computing' = TRUE
           /\ \A p \in Points :
                  \/ el'[p] # NoKey
                  \/ rhs'[p] = oldRhs[p] /\ dst_val'[p] = Inf
<1>1. PICK last \in [Offered(d) -> Offers(d)] :
        /\ dst_val' = [p \in Points |->
                          IF p \in Offered(d) THEN last[p].val ELSE Inf]
        /\ dst_seg' = [p \in Points |->
                          IF p \in Offered(d) THEN last[p].seg ELSE NoSeg]
        /\ rhs' = [p \in Points |->
                      IF p \in Offered(d) THEN last[p].val ELSE oldRhs[p]]
        /\ seg' = [p \in Points |->
                      IF p \in Offered(d) THEN last[p].seg ELSE oldSeg[p]]
        /\ el' = [p \in Points |->
                      IF p \in Offered(d) THEN last[p].val ELSE NoKey]
        /\ lost' = [p \in Points |->
                       {o.val : o \in {x \in Offers(d) :
                                          x.pt = p /\ x # last[p]}}]
        /\ value' = All(Inf)
        /\ dst' = d /\ computing' = TRUE
  BY DEF InitDest
<1>2. Inf \in Costs /\ NoKey \notin Costs
  BY GraphAssumption DEF Costs
<1>3. \A o \in Offers(d) : o.seg \in Segments /\ o.val \in Costs
  BY OfferType
<1>4. \A p \in Offered(d) : last[p].seg \in Segments /\ last[p].val \in Costs
  BY <1>1, <1>3
<1>5. /\ dst_val' \in [Points -> Costs] /\ rhs' \in [Points -> Costs]
      /\ el' \in [Points -> Costs \cup {NoKey}]
  BY <1>1, <1>2, <1>4
<1>6. /\ dst_seg' \in [Points -> Segments \cup {NoSeg}]
      /\ seg' \in [Points -> Segments \cup {NoSeg}]
  BY <1>1, <1>4
<1>7. lost' \in [Points -> SUBSET Costs]
  <2>1. \A p \in Points :
            {o.val : o \in {x \in Offers(d) : x.pt = p /\ x # last[p]}}
                \in SUBSET Costs
    BY <1>3
  <2>2. QED
    BY <1>1, <2>1
<1>8. value' \in [Points -> Costs]
  BY <1>1, <1>2 DEF All
<1>9. \A p \in Points : \/ el'[p] # NoKey
                        \/ rhs'[p] = oldRhs[p] /\ dst_val'[p] = Inf
  BY <1>1, <1>2, <1>4
<1>10. QED
  BY <1>1, <1>5, <1>6, <1>7, <1>8, <1>9

LEMMA PredecessorsType ==
    ASSUME NEW p \in Points
    PROVE  Predecessors(p) \subseteq Points
BY OtherType DEF Predecessors, SegsAt

\* What is on the heap are costs, and an extraction leaves costs.
LEMMA ExtractMinType ==
    ASSUME TypeOK, NEW p \in Points, ExtractMin(p, lost')
    PROVE  lost' \in [Points -> SUBSET Costs]
<1>1. CASE lost' = lost
  BY <1>1 DEF TypeOK
<1>2. CASE lost' = [lost EXCEPT ![p] = (@ \ {Min(Keys)}) \cup ({el[p]} \ {NoKey})]
  <2>1. (lost[p] \ {Min(Keys)}) \cup ({el[p]} \ {NoKey}) \subseteq Costs
    BY DEF TypeOK
  <2>2. QED
    BY <1>2, <2>1 DEF TypeOK
<1>3. QED
  BY <1>1, <1>2 DEF ExtractMin

-----------------------------------------------------------------------------
(* Type correctness and the heap *)

\* Nothing is computed before the first flood.
NotComputingFresh == dst = NoDest => ~computing

HeapInv ==
    /\ TypeOK
    /\ NotComputingFresh
    /\ FreshHeapIsEmpty
    /\ InconsistentIsOnHeap

LEMMA InitHeap == Init => HeapInv
<1> SUFFICES ASSUME Init PROVE HeapInv
  OBVIOUS
<1>1. 0 \in Costs /\ Inf \in Costs
  BY GraphAssumption DEF Costs
<1>2. TypeOK
  BY <1>1 DEF Init, TypeOK, All, FlagsOf
<1>3. FreshHeapIsEmpty /\ NotComputingFresh
  BY DEF Init, FreshHeapIsEmpty, NotComputingFresh, All
<1>4. InconsistentIsOnHeap
  BY DEF Init, InconsistentIsOnHeap, Untouched, All
<1>5. QED
  BY <1>2, <1>3, <1>4 DEF HeapInv

LEMMA BuildHeap == HeapInv /\ Build => HeapInv'
<1> SUFFICES ASSUME HeapInv, Build PROVE HeapInv'
  OBVIOUS
<1>1. 0 \in Costs /\ Inf \in Costs
  BY GraphAssumption DEF Costs
<1>2. TypeOK'
  BY <1>1 DEF HeapInv, Build, TypeOK, All, FlagsOf
<1>3. FreshHeapIsEmpty' /\ NotComputingFresh'
  BY DEF Build, Idle, FreshHeapIsEmpty, NotComputingFresh, All
<1>4. InconsistentIsOnHeap'
  BY DEF Build, InconsistentIsOnHeap, Untouched, All
<1>5. QED
  BY <1>2, <1>3, <1>4 DEF HeapInv

\* Both floods: what a point keeps is zero, before the first, or Inf.
LEMMA FloodHeap ==
    ASSUME HeapInv, NEW d \in Dests,
           NEW oldRhs \in [Points -> {0, Inf}],
           NEW oldSeg \in [Points -> Segments \cup {NoSeg}],
           InitDest(d, oldRhs, oldSeg),
           UNCHANGED <<distortionVars, todo, readd>>
    PROVE  HeapInv'
<1>1. oldRhs \in [Points -> Costs]
  BY GraphAssumption DEF Costs
<1>2. /\ dst_val' \in [Points -> Costs]
      /\ dst_seg' \in [Points -> Segments \cup {NoSeg}]
      /\ rhs' \in [Points -> Costs]
      /\ seg' \in [Points -> Segments \cup {NoSeg}]
      /\ el' \in [Points -> Costs \cup {NoKey}]
      /\ lost' \in [Points -> SUBSET Costs]
      /\ value' = All(Inf) /\ value' \in [Points -> Costs]
      /\ dst' = d /\ computing' = TRUE
      /\ \A p \in Points :
             \/ el'[p] # NoKey
             \/ rhs'[p] = oldRhs[p] /\ dst_val'[p] = Inf
  BY <1>1, InitDestType DEF HeapInv
<1>3. TypeOK'
  BY <1>2 DEF HeapInv, TypeOK, distortionVars
<1>4. FreshHeapIsEmpty' /\ NotComputingFresh'
  BY <1>2, GraphAssumption DEF FreshHeapIsEmpty, NotComputingFresh
<1>5. InconsistentIsOnHeap'
  BY <1>2 DEF InconsistentIsOnHeap, Untouched, All
<1>6. QED
  BY <1>3, <1>4, <1>5 DEF HeapInv

LEMMA FirstFloodHeap ==
    ASSUME HeapInv, NEW d \in Dests, FirstFlood(d)
    PROVE  HeapInv'
<1>1. rhs \in [Points -> {0, Inf}]
  BY DEF HeapInv, TypeOK, FreshHeapIsEmpty, FirstFlood
<1>2. seg \in [Points -> Segments \cup {NoSeg}]
  BY DEF HeapInv, TypeOK
<1>3. QED
  BY <1>1, <1>2, FloodHeap DEF FirstFlood

LEMMA RefloodHeap ==
    ASSUME HeapInv, NEW d \in Dests, Reflood(d)
    PROVE  HeapInv'
<1>1. All(Inf) \in [Points -> {0, Inf}]
  BY DEF All
<1>2. All(NoSeg) \in [Points -> Segments \cup {NoSeg}]
  BY DEF All
<1>3. QED
  BY <1>1, <1>2, FloodHeap DEF Reflood

LEMMA LowerHeap ==
    ASSUME HeapInv, NEW p \in Points, Lower(p)
    PROVE  HeapInv'
<1>1. lost' \in [Points -> SUBSET Costs]
  BY ExtractMinType DEF HeapInv, Lower
<1>2. Predecessors(p) \subseteq Points
  BY PredecessorsType
<1>3. TypeOK'
  BY <1>1, <1>2 DEF HeapInv, TypeOK, Lower, distortionVars
<1>4. dst' = dst /\ dst # NoDest
  BY DEF HeapInv, NotComputingFresh, Lower
<1>5. InconsistentIsOnHeap'
  BY DEF HeapInv, TypeOK, InconsistentIsOnHeap, Untouched, Lower
<1>6. QED
  BY <1>3, <1>4, <1>5 DEF HeapInv, FreshHeapIsEmpty, NotComputingFresh

LEMMA RaiseHeap ==
    ASSUME HeapInv, NEW p \in Points, Raise(p)
    PROVE  HeapInv'
<1>1. lost' \in [Points -> SUBSET Costs]
  BY ExtractMinType DEF HeapInv, Raise
<1>2. Predecessors(p) \subseteq Points
  BY PredecessorsType
<1>3. Raised(p) \in [Points -> Costs]
  BY GraphAssumption DEF HeapInv, TypeOK, Raised, Costs
<1>4. /\ rhs' \in [Points -> Costs]
      /\ seg' \in [Points -> Segments \cup {NoSeg}]
      /\ el' \in [Points -> Costs \cup {NoKey}]
      /\ rhs'[p] # Raised(p)[p] => el'[p] # NoKey
      /\ \A q \in Points \ {p} : rhs'[q] = rhs[q] /\ el'[q] = el[q]
  BY <1>3, PointUpdateType DEF HeapInv, Raise
<1>5. TypeOK'
  BY <1>1, <1>2, <1>3, <1>4 DEF HeapInv, TypeOK, Raise, distortionVars
<1>6. dst' = dst /\ dst # NoDest
  BY DEF HeapInv, NotComputingFresh, Raise
<1>7. \A q \in Points \ {p} : value'[q] = value[q]
  BY DEF HeapInv, TypeOK, Raise, Raised
<1>8. InconsistentIsOnHeap'
  BY <1>4, <1>7 DEF HeapInv, InconsistentIsOnHeap, Untouched, Raise
<1>9. QED
  BY <1>5, <1>6, <1>8 DEF HeapInv, FreshHeapIsEmpty, NotComputingFresh

LEMMA UpdateHeap ==
    ASSUME HeapInv, NEW p \in Points, Update(p)
    PROVE  HeapInv'
<1>1. value \in [Points -> Costs] /\ PointUpdate(p, value)
  BY DEF HeapInv, TypeOK, Update
<1>2. /\ rhs' \in [Points -> Costs]
      /\ seg' \in [Points -> Segments \cup {NoSeg}]
      /\ el' \in [Points -> Costs \cup {NoKey}]
      /\ rhs'[p] # value[p] => el'[p] # NoKey
      /\ \A q \in Points \ {p} : rhs'[q] = rhs[q] /\ el'[q] = el[q]
  BY <1>1, PointUpdateType DEF HeapInv
<1>3. TypeOK'
  BY <1>2 DEF HeapInv, TypeOK, Update, distortionVars
<1>4. InconsistentIsOnHeap'
  BY <1>2 DEF HeapInv, InconsistentIsOnHeap, Untouched, Update
<1>5. ASSUME dst = NoDest
      PROVE  rhs'[p] = Inf /\ el'[p] = NoKey
  <2>1. \A q \in Points : value[q] = Inf /\ dst_val[q] = Inf
    BY <1>5 DEF HeapInv, FreshHeapIsEmpty
  <2>2. ASSUME NEW s \in SegsAt(p)
        PROVE  CostVia(s, p, value) = Inf
    <3>1. value[Other(s, p)] = Inf
      BY <2>1, OtherType DEF SegsAt
    <3>2. QED
      BY <3>1 DEF CostVia, Plus
  <2>3. Lookahead(p, value) = Inf
    BY <1>1, <2>1, <2>2, LookaheadType DEF HeapInv, TypeOK
  <2>4. Key(Lookahead(p, value), value[p]) = NoKey
    BY <2>1, <2>3 DEF Key
  <2>5. QED
    BY <1>1, <2>3, <2>4 DEF PointUpdate, HeapInv, TypeOK
<1>6. FreshHeapIsEmpty'
  BY <1>2, <1>5 DEF HeapInv, FreshHeapIsEmpty, Update
<1>7. NotComputingFresh'
  BY DEF HeapInv, NotComputingFresh, Update
<1>8. QED
  BY <1>3, <1>4, <1>6, <1>7 DEF HeapInv

\* The start and the end of a computation, and the changes of distortions,
\* leave the points alone.
LEMMA OtherHeap ==
    ASSUME HeapInv, UNCHANGED pointVars, UNCHANGED dst, TypeOK',
           computing' => computing \/ dst # NoDest
    PROVE  HeapInv'
BY DEF HeapInv, NotComputingFresh, FreshHeapIsEmpty, InconsistentIsOnHeap,
       Untouched, pointVars

LEMMA AddType ==
    ASSUME TypeOK, NEW d \in Distortions, NEW x \in Delays, Add(d, x)
    PROVE  TypeOK'
<1>1. DFrom[d] \in Points /\ DTo[d] \in Points
  BY GraphAssumption
<1>2. QED
  BY <1>1 DEF TypeOK, Add, Touched, pointVars

LEMMA RemoveType ==
    ASSUME TypeOK, NEW d \in Distortions,
           NEW then \in [item : Distortions, delay : Delays] \cup {NoChange},
           Remove(d, then)
    PROVE  TypeOK'
<1>1. DFrom[d] \in Points /\ DTo[d] \in Points
  BY GraphAssumption
<1>2. FlagsWithout(d) \in [Points -> BOOLEAN]
  BY <1>1 DEF TypeOK, FlagsWithout
<1>3. delay' \in [Distortions -> Delays \cup {0}]
  BY DEF TypeOK, Remove
<1>4. QED
  BY <1>1, <1>2, <1>3 DEF TypeOK, Remove, pointVars

LEMMA TrafficHeap == HeapInv /\ TrafficChange => HeapInv'
<1> SUFFICES ASSUME HeapInv, NEW d \in Distortions,
                    \/ RemoveDistortion(d)
                    \/ \E x \in Delays :
                           AddDistortion(d, x) \/ ChangeDistortion(d, x)
             PROVE  HeapInv'
  BY DEF TrafficChange
<1>1. TypeOK
  BY DEF HeapInv
<1>2. CASE RemoveDistortion(d)
  <2>1. Remove(d, NoChange)
    BY <1>2 DEF RemoveDistortion
  <2>2. TypeOK'
    BY <1>1, <2>1, RemoveType
  <2>3. QED
    BY <2>1, <2>2, OtherHeap DEF Remove
<1>3. ASSUME NEW x \in Delays, AddDistortion(d, x)
      PROVE  HeapInv'
  <2>1. Add(d, x)
    BY <1>3 DEF AddDistortion
  <2>2. TypeOK'
    BY <1>1, <2>1, AddType
  <2>3. QED
    BY <2>1, <2>2, OtherHeap DEF Add
<1>4. ASSUME NEW x \in Delays, ChangeDistortion(d, x)
      PROVE  HeapInv'
  <2> DEFINE then == [item |-> d, delay |-> x]
  <2>1. Remove(d, then) /\ then \in [item : Distortions, delay : Delays]
    BY <1>4 DEF ChangeDistortion
  <2> HIDE DEF then
  <2>2. TypeOK'
    BY <1>1, <2>1, RemoveType
  <2>3. QED
    BY <2>1, <2>2, OtherHeap DEF Remove
<1>5. QED
  BY <1>2, <1>3, <1>4

LEMMA ComputeHeap == HeapInv /\ Compute => HeapInv'
<1> SUFFICES ASSUME HeapInv, Compute PROVE HeapInv'
  OBVIOUS
<1>1. CASE \E p \in Points : Lower(p) \/ Raise(p) \/ Update(p)
  BY <1>1, LowerHeap, RaiseHeap, UpdateHeap
<1>2. CASE FinishChange
  <2>1. readd.item \in Distortions /\ readd.delay \in Delays
    BY <1>2 DEF HeapInv, TypeOK, FinishChange
  <2>2. Add(readd.item, readd.delay)
    BY <1>2 DEF FinishChange
  <2>3. TypeOK'
    BY <2>1, <2>2, AddType DEF HeapInv
  <2>4. QED
    BY <2>2, <2>3, OtherHeap DEF Add
<1>3. CASE Finish
  <2>1. TypeOK'
    BY <1>3 DEF HeapInv, TypeOK, Finish, pointVars, distortionVars
  <2>2. QED
    BY <1>3, <2>1, OtherHeap DEF Finish
<1>4. QED
  BY <1>1, <1>2, <1>3 DEF Compute

LEMMA NextHeap == HeapInv /\ [Next]_vars => HeapInv'
<1> SUFFICES ASSUME HeapInv, [Next]_vars PROVE HeapInv'
  OBVIOUS
<1>1. CASE Build
  BY <1>1, BuildHeap
<1>2. CASE \E d \in Dests : FirstFlood(d) \/ Reflood(d)
  BY <1>2, FirstFloodHeap, RefloodHeap
<1>3. CASE TrafficChange
  BY <1>3, TrafficHeap
<1>4. CASE Recalculate
  <2>1. TypeOK'
    BY <1>4 DEF HeapInv, TypeOK, Recalculate, pointVars, distortionVars
  <2>2. QED
    BY <1>4, <2>1, OtherHeap DEF Recalculate
<1>5. CASE Compute
  BY <1>5, ComputeHeap
<1>6. CASE UNCHANGED vars
  <2>1. TypeOK'
    BY <1>6 DEF HeapInv, TypeOK, vars, pointVars, distortionVars
  <2>2. QED
    BY <1>6, <2>1, OtherHeap DEF vars
<1>7. QED
  BY <1>1, <1>2, <1>3, <1>4, <1>5, <1>6 DEF Next

THEOREM HeapInvariant == Spec => []HeapInv
<1>1. Init => HeapInv
  BY InitHeap
<1>2. HeapInv /\ [Next]_vars => HeapInv'
  BY NextHeap
<1>3. QED
  BY <1>1, <1>2, PTL DEF Spec

\* The variables keep their types, for every graph.
THEOREM GraphTypeCorrect == Spec => []TypeOK
<1>1. HeapInv => TypeOK
  BY DEF HeapInv
<1>2. QED
  BY <1>1, HeapInvariant, PTL

\* route_graph_init finds the heap of a new graph empty, whatever the traffic
\* module did to the graph before.
THEOREM FreshHeapCorrect == Spec => []FreshHeapIsEmpty
<1>1. HeapInv => FreshHeapIsEmpty
  BY DEF HeapInv
<1>2. QED
  BY <1>1, HeapInvariant, PTL

\* However a route is flooded, recalculated and changed, no point that is not
\* locally consistent is off the heap, so that none is passed over by the next
\* computation.
THEOREM HeapCorrect == Spec => []InconsistentIsOnHeap
<1>1. HeapInv => InconsistentIsOnHeap
  BY DEF HeapInv
<1>2. QED
  BY <1>1, HeapInvariant, PTL

-----------------------------------------------------------------------------
(* The flags of the distortions *)

\* Removing a distortion takes the flag of the end of another only where one of
\* them starts and the other ends.
LEMMA FlagsStep ==
    ASSUME TypeOK, FlagsCoverDistortions, [Next]_vars
    PROVE  FlagsCoverDistortions'
<1>0. \A d \in Distortions : DFrom[d] \in Points /\ DTo[d] \in Points
  BY GraphAssumption
<1>m. \A p : Meeting(p)' = Meeting(p)
  BY DEF Meeting
<1>1. ASSUME UNCHANGED distortionVars PROVE FlagsCoverDistortions'
  BY <1>m, <1>1 DEF FlagsCoverDistortions, distortionVars
<1>2. CASE Build
  <2>1. ASSUME NEW d \in Distortions, delay[d] # 0, NEW p \in {DFrom[d], DTo[d]}
        PROVE  FlagsOf[p]
    BY <1>0, <2>1 DEF FlagsOf
  <2> QED BY <1>2, <1>m, <2>1 DEF Build, FlagsCoverDistortions
<1>3. ASSUME NEW d \in Distortions, NEW x, Add(d, x)
      PROVE  FlagsCoverDistortions'
  <2> SUFFICES ASSUME NEW e \in Distortions, delay'[e] # 0,
                      NEW p \in {DFrom[e], DTo[e]}, ~Meeting(p)
               PROVE  flag'[p]
    BY <1>m DEF FlagsCoverDistortions
  <2>1. p \in Points
    BY <1>0
  <2>2. p \in {DFrom[d], DTo[d]} => flag'[p]
    BY <1>0, <1>3, <2>1 DEF Add, TypeOK
  <2>3. p \notin {DFrom[d], DTo[d]} => flag'[p] = flag[p] /\ e # d
    BY <1>0, <1>3, <2>1 DEF Add, TypeOK
  <2>4. e # d => delay[e] # 0
    BY <1>3 DEF Add, TypeOK
  <2> QED BY <2>2, <2>3, <2>4 DEF FlagsCoverDistortions
<1>4. ASSUME NEW d \in Distortions, NEW then, Remove(d, then)
      PROVE  FlagsCoverDistortions'
  <2> SUFFICES ASSUME NEW e \in Distortions, delay'[e] # 0,
                      NEW p \in {DFrom[e], DTo[e]}, ~Meeting(p)
               PROVE  flag'[p]
    BY <1>m DEF FlagsCoverDistortions
  <2> DEFINE others == {y \in Distortions : y # d /\ delay[y] # 0}
  <2>1. e \in others
    BY <1>4 DEF Remove, TypeOK
  <2>2. flag[p] /\ p \in Points
    BY <1>0, <2>1 DEF FlagsCoverDistortions
  <2>3. /\ p = DFrom[e] => p # DTo[d]
        /\ p = DTo[e] => p # DFrom[d]
    BY <2>1 DEF Meeting
  <2> DEFINE atFrom == [flag EXCEPT ![DFrom[d]] =
                           \E y \in others : DFrom[y] = DFrom[d]]
  <2>4. flag' = [atFrom EXCEPT ![DTo[d]] = \E y \in others : DTo[y] = DTo[d]]
    BY <1>4 DEF Remove, FlagsWithout
  <2>5. CASE p = DFrom[e]
    <3>1. flag'[p] = atFrom[p]
      BY <1>0, <2>2, <2>3, <2>4, <2>5 DEF TypeOK
    <3>2. p = DFrom[d] => atFrom[p] = \E y \in others : DFrom[y] = DFrom[d]
      BY <1>0 DEF TypeOK
    <3>3. p # DFrom[d] => atFrom[p] = flag[p]
      BY <1>0, <2>2 DEF TypeOK
    <3>4. QED
      BY <2>1, <2>2, <2>5, <3>1, <3>2, <3>3
  <2>6. CASE p = DTo[e]
    <3>1. p # DTo[d] => flag'[p] = flag[p]
      BY <1>0, <2>2, <2>3, <2>4, <2>6 DEF TypeOK
    <3>2. p = DTo[d] => flag'[p] = \E y \in others : DTo[y] = DTo[d]
      BY <1>0, <2>4 DEF TypeOK
    <3>3. QED
      BY <2>1, <2>2, <2>6, <3>1, <3>2
  <2>7. QED
    BY <2>5, <2>6
<1>5. CASE \E d \in Dests : FirstFlood(d) \/ Reflood(d)
  BY <1>1, <1>5 DEF FirstFlood, Reflood
<1>6. CASE TrafficChange
  BY <1>3, <1>4, <1>6
     DEF TrafficChange, RemoveDistortion, AddDistortion, ChangeDistortion
<1>7. CASE Recalculate
  BY <1>1, <1>7 DEF Recalculate
<1>8. CASE \E p \in Points : Lower(p) \/ Raise(p) \/ Update(p)
  BY <1>1, <1>8 DEF Lower, Raise, Update
<1>9. CASE FinishChange
  <2>1. readd.item \in Distortions
    BY <1>9 DEF TypeOK, FinishChange
  <2>2. QED
    BY <1>3, <1>9, <2>1 DEF FinishChange
<1>10. CASE Finish
  BY <1>1, <1>10 DEF Finish
<1>11. CASE UNCHANGED vars
  BY <1>1, <1>11 DEF vars
<1>12. QED
  BY <1>2, <1>5, <1>6, <1>7, <1>8, <1>9, <1>10, <1>11 DEF Next, Compute

\* Whatever is added, changed and removed, a distortion in the graph has a flag
\* at each of its ends where none starts and another ends: route_value_seg passes
\* over it for want of a flag nowhere else.
THEOREM FlagsCorrect == Spec => []FlagsCoverDistortions
<1>1. Init => FlagsCoverDistortions
  <2> SUFFICES ASSUME Init, NEW d \in Distortions, delay[d] # 0,
                      NEW p \in {DFrom[d], DTo[d]}
               PROVE  flag[p]
    BY DEF FlagsCoverDistortions
  <2> QED BY GraphAssumption DEF Init, FlagsOf
<1>2. TypeOK /\ FlagsCoverDistortions /\ [Next]_vars => FlagsCoverDistortions'
  BY FlagsStep
<1>3. QED
  BY <1>1, <1>2, GraphTypeCorrect, PTL DEF Spec
-----------------------------------------------------------------------------
(* The segments to take *)

\* What is paid over a segment comes on top of the cost of its far end: no
\* segment is for nothing (route_time_seg, route.c:1945).
LEMMA CostViaAbove ==
    ASSUME delay \in [Distortions -> Delays \cup {0}],
           NEW val \in [Points -> Costs],
           NEW p \in Points, NEW s \in SegsAt(p), CostVia(s, p, val) # Inf
    PROVE  /\ ~Loop(s) /\ Time[<<s, p>>] # Inf
           /\ val[Other(s, p)] < CostVia(s, p, val)
<1>1. s \in Segments /\ Inf \in Nat \ {0}
  BY GraphAssumption DEF SegsAt
<1>2. PICK v : v = val[Other(s, p)]
  OBVIOUS
<1>3. PICK c : c = Cost(s, p)
  OBVIOUS
<1>4. PICK penalty \in Nat :
          penalty = IF SameStreet(s, Other(s, p)) THEN Penalty2 ELSE 0
  BY GraphAssumption
<1>5. v \in 0 .. Inf
  BY <1>1, <1>2, OtherType DEF Costs
<1>6. c \in 0 .. Inf
  BY <1>1, <1>3, CostType DEF Costs
<1>7. /\ ~Loop(s)
      /\ CostVia(s, p, val) = Plus(Plus(c, penalty), v)
  BY <1>2, <1>3, <1>4 DEF CostVia
<1>8. /\ c # Inf
      /\ CostVia(s, p, val) = c + penalty + v
  BY <1>1, <1>4, <1>5, <1>6, <1>7 DEF Plus
<1>9. Time[<<s, p>>] \in 1 .. Inf
  BY <1>1, GraphAssumption DEF Costs
<1>10. Time[<<s, p>>] # Inf /\ c > 0
  <2>1. CASE c = Time[<<s, p>>]
    BY <1>1, <1>8, <1>9, <2>1
  <2>2. CASE c = Plus(Time[<<s, p>>], Distortion(s, p))
    <3>1. PICK t \in 1 .. Inf : t = Time[<<s, p>>]
      BY <1>9
    <3>2. PICK x \in 0 .. Inf : x = Distortion(s, p)
      BY <1>1, DistortionType
    <3>3. t # Inf /\ c = t + x
      BY <1>1, <1>8, <2>2, <3>1, <3>2 DEF Plus
    <3> QED BY <1>1, <3>1, <3>2, <3>3
  <2> QED BY <1>3, <2>1, <2>2 DEF Cost
<1>11. v < c + penalty + v
  BY <1>1, <1>4, <1>5, <1>6, <1>10
<1> QED BY <1>2, <1>7, <1>8, <1>10, <1>11

\* From p, which has cost c, s leads to a point that has less to go.
Down(s, p, val, c) ==
    /\ s \in SegsAt(p) /\ ~Loop(s)
    /\ Time[<<s, p>>] # Inf
    /\ val[Other(s, p)] < c

\* A point that no flood and no update has reached.
Fresh(p) == rhs[p] = 0 /\ dst_val[p] = Inf

FreshIsOffHeap ==
    \A p \in Points :
        Fresh(p) => value[p] = Inf /\ el[p] = NoKey /\ lost[p] = {}

\* A route that can end at a point ends on a segment of the destination.
EndsOnDestination ==
    \A p \in Points : dst_val[p] # Inf => dst_seg[p] \in dst.segs

\* A point that has been updated since the costs around it rose has a segment
\* of the destination, or one that leads to a lower cost.
SegLeadsOn ==
    \A p \in Points \ todo :
        rhs[p] # Inf /\ ~Fresh(p)
        => seg[p] \in dst.segs \/ Down(seg[p], p, value, rhs[p])

WayInv == FreshIsOffHeap /\ EndsOnDestination /\ SegLeadsOn

\* An update finds such a segment.
LEMMA UpdateLeadsOn ==
    ASSUME TypeOK, EndsOnDestination, NEW val \in [Points -> Costs],
           NEW p \in Points, PointUpdate(p, val)
    PROVE  /\ rhs'[p] = 0 => dst_val[p] # Inf
           /\ rhs'[p] # Inf => \/ seg'[p] \in dst.segs
                               \/ Down(seg'[p], p, val, rhs'[p])
           /\ \A q \in Points \ {p} : rhs'[q] = rhs[q] /\ seg'[q] = seg[q]
                                      /\ el'[q] = el[q]
<1>1. PICK new : new = Lookahead(p, val)
  OBVIOUS
<1>2. PICK s \in BestSegs(p, val) : seg' = [seg EXCEPT ![p] = s]
  BY DEF PointUpdate
<1>3. /\ rhs'[p] = new /\ seg'[p] = s
      /\ \A q \in Points \ {p} : rhs'[q] = rhs[q] /\ seg'[q] = seg[q]
                                 /\ el'[q] = el[q]
  BY <1>1, <1>2 DEF PointUpdate, TypeOK
<1>4. \/ new = dst_val[p] /\ s = dst_seg[p]
      \/ new # dst_val[p] /\ s \in SegsAt(p) /\ CostVia(s, p, val) = new
  BY <1>1, <1>2 DEF BestSegs
<1>5. delay \in [Distortions -> Delays \cup {0}]
  BY DEF TypeOK
<1>6. CASE new = dst_val[p] /\ s = dst_seg[p]
  BY <1>3, <1>6, GraphAssumption DEF EndsOnDestination
<1>7. CASE new # dst_val[p] /\ s \in SegsAt(p) /\ CostVia(s, p, val) = new
  <2>1. new # Inf => Down(s, p, val, new)
    BY <1>5, <1>7, CostViaAbove DEF Down
  <2>2. new # 0
    <3> SUFFICES ASSUME new = 0 PROVE FALSE
      OBVIOUS
    <3>1. val[Other(s, p)] < 0
      <4>1. CostVia(s, p, val) = 0 /\ CostVia(s, p, val) # Inf
        BY <1>7, GraphAssumption
      <4> QED BY <1>5, <1>7, <4>1, CostViaAbove
    <3>2. val[Other(s, p)] \in Nat
      BY <1>7, OtherType, GraphAssumption DEF SegsAt, Costs
    <3> QED BY <3>1, <3>2
  <2> QED BY <1>3, <2>1, <2>2
<1> QED BY <1>3, <1>4, <1>6, <1>7

LEMMA ExtractedIsOnHeap ==
    ASSUME NEW p \in Points, ExtractMin(p, lost')
    PROVE  el[p] # NoKey \/ lost[p] # {}
BY DEF ExtractMin

LEMMA ExtractMinElsewhere ==
    ASSUME TypeOK, NEW p \in Points, ExtractMin(p, lost'), NEW q \in Points \ {p}
    PROVE  lost'[q] = lost[q]
BY DEF ExtractMin, TypeOK

LEMMA InitWay == Init => WayInv
BY DEF Init, All, WayInv, FreshIsOffHeap, EndsOnDestination, SegLeadsOn, Fresh

LEMMA BuildWay == Build => WayInv'
BY DEF Build, All, WayInv, FreshIsOffHeap, EndsOnDestination, SegLeadsOn, Fresh

\* A flood starts at the segments of the destination.
LEMMA FloodWay ==
    ASSUME TypeOK, NEW d \in Dests, todo = {}, todo' = todo,
           NEW oldRhs \in [Points -> {0, Inf}], NEW oldSeg,
           InitDest(d, oldRhs, oldSeg)
    PROVE  WayInv'
<1>1. PICK last \in [Offered(d) -> Offers(d)] :
        /\ \A p \in Offered(d) : last[p].pt = p
        /\ dst_val' = [p \in Points |->
                          IF p \in Offered(d) THEN last[p].val ELSE Inf]
        /\ dst_seg' = [p \in Points |->
                          IF p \in Offered(d) THEN last[p].seg ELSE NoSeg]
        /\ rhs' = [p \in Points |->
                      IF p \in Offered(d) THEN last[p].val ELSE oldRhs[p]]
        /\ seg' = [p \in Points |->
                      IF p \in Offered(d) THEN last[p].seg ELSE oldSeg[p]]
        /\ el' = [p \in Points |->
                      IF p \in Offered(d) THEN last[p].val ELSE NoKey]
        /\ lost' = [p \in Points |->
                       {o.val : o \in {x \in Offers(d) :
                                          x.pt = p /\ x # last[p]}}]
        /\ value' = All(Inf)
        /\ dst' = d
  BY DEF InitDest
<1>2. \A o \in Offers(d) : o.seg \in d.segs
  BY DEF Offers
<1>3. \A p \in Offered(d) : last[p].seg \in d.segs
  BY <1>1, <1>2
<1>4. EndsOnDestination'
  BY <1>1, <1>3 DEF EndsOnDestination
<1>5. FreshIsOffHeap'
  <2> SUFFICES ASSUME NEW p \in Points, rhs'[p] = 0, dst_val'[p] = Inf
               PROVE  value'[p] = Inf /\ el'[p] = NoKey /\ lost'[p] = {}
    BY DEF FreshIsOffHeap, Fresh
  <2>1. p \notin Offered(d)
    BY <1>1, GraphAssumption
  <2>2. \A o \in Offers(d) : o.pt # p
    BY <2>1 DEF Offered
  <2>3. lost'[p] = {o.val : o \in {x \in Offers(d) : x.pt = p /\ x # last[p]}}
    BY <1>1
  <2>4. lost'[p] = {}
    BY <2>2, <2>3
  <2> QED BY <1>1, <2>1, <2>4 DEF All
<1>6. SegLeadsOn'
  <2> SUFFICES ASSUME NEW p \in Points,
                      rhs'[p] # Inf, ~(rhs'[p] = 0 /\ dst_val'[p] = Inf)
               PROVE  seg'[p] \in dst'.segs
    BY DEF SegLeadsOn, Fresh
  <2>1. p \in Offered(d)
    BY <1>1
  <2> QED BY <1>1, <1>3, <2>1
<1> QED BY <1>4, <1>5, <1>6 DEF WayInv

LEMMA FirstFloodWay ==
    ASSUME HeapInv, NEW d \in Dests, FirstFlood(d)
    PROVE  WayInv'
<1>1. rhs \in [Points -> {0, Inf}]
  BY DEF HeapInv, TypeOK, FreshHeapIsEmpty, FirstFlood
<1> QED BY <1>1, FloodWay DEF FirstFlood, Idle, HeapInv

LEMMA RefloodWay ==
    ASSUME HeapInv, NEW d \in Dests, Reflood(d)
    PROVE  WayInv'
<1>1. All(Inf) \in [Points -> {0, Inf}]
  BY DEF All
<1> QED BY <1>1, FloodWay DEF Reflood, Idle, HeapInv

\* A cost that falls leaves every way downhill.
LEMMA LowerWay ==
    ASSUME HeapInv, WayInv, NEW p \in Points, Lower(p)
    PROVE  WayInv'
<1>1. /\ value' = [value EXCEPT ![p] = rhs[p]] /\ value[p] > rhs[p]
      /\ el' = [el EXCEPT ![p] = NoKey]
      /\ UNCHANGED <<rhs, seg, dst_val, dst_seg, dst>> /\ todo = {}
  BY DEF Lower
<1>2. TypeOK /\ ~Fresh(p)
  BY ExtractedIsOnHeap DEF Lower, HeapInv, WayInv, FreshIsOffHeap
<1>3. \A q \in Points \ {p} : lost'[q] = lost[q]
  BY <1>2, ExtractMinElsewhere DEF Lower
<1>4. FreshIsOffHeap'
  BY <1>1, <1>2, <1>3 DEF WayInv, FreshIsOffHeap, Fresh, TypeOK
<1>5. EndsOnDestination'
  BY <1>1 DEF WayInv, EndsOnDestination
<1>6. ASSUME NEW q \in Points PROVE value'[q] <= value[q]
  BY <1>1, <1>2, GraphAssumption DEF TypeOK, Costs
<1>7. SegLeadsOn'
  <2> SUFFICES ASSUME NEW q \in Points, Down(seg[q], q, value, rhs[q])
               PROVE  Down(seg[q], q, value', rhs[q])
    BY <1>1 DEF WayInv, SegLeadsOn, Fresh
  <2>1. PICK o \in Points : o = Other(seg[q], q)
    BY OtherType DEF Down, SegsAt
  <2>2. value'[o] <= value[o] /\ value[o] < rhs[q]
    BY <1>6, <2>1 DEF Down
  <2>3. value'[o] \in Nat /\ value[o] \in Nat /\ rhs[q] \in Nat
    BY <1>1, <1>2, GraphAssumption DEF TypeOK, Costs
  <2>4. value'[o] < rhs[q]
    BY <2>2, <2>3
  <2> QED BY <2>1, <2>4 DEF Down
<1> QED BY <1>4, <1>5, <1>7 DEF WayInv

\* When a cost rises, the points that went over it are to be updated.
LEMMA RaiseWay ==
    ASSUME HeapInv, WayInv, NEW p \in Points, Raise(p)
    PROVE  WayInv'
<1>1. /\ value' = Raised(p) /\ PointUpdate(p, Raised(p))
      /\ UNCHANGED <<dst_val, dst_seg, dst>>
      /\ todo = {} /\ todo' = Predecessors(p)
  BY DEF Raise
<1>2. TypeOK /\ EndsOnDestination
  BY DEF HeapInv, WayInv
<1>3. \A q \in Points \ {p} : lost'[q] = lost[q]
  BY <1>2, ExtractMinElsewhere DEF Raise
<1>4. /\ Raised(p) \in [Points -> Costs]
      /\ \A q \in Points \ {p} : Raised(p)[q] = value[q]
  BY <1>2, GraphAssumption DEF TypeOK, Raised, Costs
<1>5. /\ rhs'[p] = 0 => dst_val[p] # Inf
      /\ rhs'[p] # Inf => \/ seg'[p] \in dst.segs
                          \/ Down(seg'[p], p, Raised(p), rhs'[p])
      /\ \A q \in Points \ {p} : rhs'[q] = rhs[q] /\ seg'[q] = seg[q]
                                 /\ el'[q] = el[q]
  BY <1>1, <1>2, <1>4, UpdateLeadsOn
<1>6. FreshIsOffHeap'
  <2> SUFFICES ASSUME NEW q \in Points, Fresh(q)'
               PROVE  value'[q] = Inf /\ el'[q] = NoKey /\ lost'[q] = {}
    BY DEF FreshIsOffHeap
  <2>1. q # p
    BY <1>1, <1>5 DEF Fresh
  <2>2. Fresh(q)
    BY <1>1, <1>5, <2>1 DEF Fresh
  <2> QED BY <1>1, <1>3, <1>4, <1>5, <2>1, <2>2 DEF WayInv, FreshIsOffHeap
<1>7. EndsOnDestination'
  BY <1>1, <1>2 DEF EndsOnDestination
<1>8. SegLeadsOn'
  <2> SUFFICES ASSUME NEW q \in Points \ Predecessors(p),
                      rhs'[q] # Inf, ~Fresh(q)'
               PROVE  \/ seg'[q] \in dst.segs
                      \/ Down(seg'[q], q, Raised(p), rhs'[q])
    BY <1>1 DEF SegLeadsOn
  <2>1. CASE q = p
    BY <1>5, <2>1
  <2>2. CASE q # p
    <3>1. /\ rhs'[q] = rhs[q] /\ seg'[q] = seg[q]
          /\ rhs[q] # Inf /\ ~Fresh(q)
      BY <1>1, <1>5, <2>2 DEF Fresh
    <3>2. seg[q] \in dst.segs \/ Down(seg[q], q, value, rhs[q])
      BY <1>1, <3>1 DEF WayInv, SegLeadsOn
    <3>3. ASSUME Down(seg[q], q, value, rhs[q])
          PROVE  Other(seg[q], q) # p
      <4> SUFFICES ASSUME Other(seg[q], q) = p PROVE FALSE
        OBVIOUS
      <4>1. /\ seg[q] \in SegsAt(p) /\ Other(seg[q], p) = q
            /\ ~Loop(seg[q]) /\ Time[<<seg[q], q>>] # Inf
        BY <3>3 DEF Down, SegsAt, Other, Loop
      <4> QED BY <4>1 DEF Predecessors
    <3>4. ASSUME Down(seg[q], q, value, rhs[q])
          PROVE  Down(seg[q], q, Raised(p), rhs[q])
      <4>1. Raised(p)[Other(seg[q], q)] = value[Other(seg[q], q)]
        BY <1>4, <3>3, <3>4, OtherType DEF Down, SegsAt
      <4> QED BY <3>4, <4>1 DEF Down
    <3> QED BY <3>1, <3>2, <3>4
  <2> QED BY <2>1, <2>2
<1> QED BY <1>6, <1>7, <1>8 DEF WayInv

LEMMA UpdateWay ==
    ASSUME HeapInv, WayInv, NEW p \in Points, Update(p)
    PROVE  WayInv'
<1>1. /\ PointUpdate(p, value) /\ todo' = todo \ {p}
      /\ UNCHANGED <<value, dst_val, dst_seg, lost, dst>>
  BY DEF Update
<1>2. TypeOK /\ EndsOnDestination /\ value \in [Points -> Costs]
  BY DEF HeapInv, WayInv, TypeOK
<1>3. /\ rhs'[p] = 0 => dst_val[p] # Inf
      /\ rhs'[p] # Inf => \/ seg'[p] \in dst.segs
                          \/ Down(seg'[p], p, value, rhs'[p])
      /\ \A q \in Points \ {p} : rhs'[q] = rhs[q] /\ seg'[q] = seg[q]
                                 /\ el'[q] = el[q]
  BY <1>1, <1>2, UpdateLeadsOn
<1>4. FreshIsOffHeap'
  <2> SUFFICES ASSUME NEW q \in Points, Fresh(q)'
               PROVE  value'[q] = Inf /\ el'[q] = NoKey /\ lost'[q] = {}
    BY DEF FreshIsOffHeap
  <2>1. q # p
    BY <1>1, <1>3 DEF Fresh
  <2>2. Fresh(q)
    BY <1>1, <1>3, <2>1 DEF Fresh
  <2> QED BY <1>1, <1>3, <2>1, <2>2 DEF WayInv, FreshIsOffHeap
<1>5. EndsOnDestination'
  BY <1>1, <1>2 DEF EndsOnDestination
<1>6. SegLeadsOn'
  <2> SUFFICES ASSUME NEW q \in Points \ (todo \ {p}), rhs'[q] # Inf, ~Fresh(q)'
               PROVE  \/ seg'[q] \in dst.segs
                      \/ Down(seg'[q], q, value, rhs'[q])
    BY <1>1 DEF SegLeadsOn
  <2>1. CASE q = p
    BY <1>3, <2>1
  <2>2. CASE q # p
    <3>1. /\ rhs'[q] = rhs[q] /\ seg'[q] = seg[q]
          /\ rhs[q] # Inf /\ ~Fresh(q)
      BY <1>1, <1>3, <2>2 DEF Fresh
    <3>2. q \in Points \ todo
      BY <2>2
    <3> QED BY <3>1, <3>2 DEF WayInv, SegLeadsOn
  <2> QED BY <2>1, <2>2
<1> QED BY <1>4, <1>5, <1>6 DEF WayInv

\* What a report changes is the cost of leaving a point, not what the points
\* know; a computation starts and ends without touching them.
LEMMA OtherWay ==
    ASSUME WayInv, UNCHANGED pointVars, UNCHANGED dst, todo \subseteq todo'
    PROVE  WayInv'
BY DEF WayInv, FreshIsOffHeap, EndsOnDestination, SegLeadsOn, Fresh, pointVars

LEMMA NextWay == HeapInv /\ WayInv /\ [Next]_vars => WayInv'
<1> SUFFICES ASSUME HeapInv, WayInv, [Next]_vars PROVE WayInv'
  OBVIOUS
<1>1. CASE Build
  BY <1>1, BuildWay
<1>2. CASE \E d \in Dests : FirstFlood(d) \/ Reflood(d)
  BY <1>2, FirstFloodWay, RefloodWay
<1>3. ASSUME NEW d, NEW x, Add(d, x), todo = {} PROVE WayInv'
  BY <1>3, OtherWay DEF Add
<1>4. ASSUME NEW d, NEW then, Remove(d, then), todo = {} PROVE WayInv'
  BY <1>4, OtherWay DEF Remove
<1>5. CASE TrafficChange
  BY <1>3, <1>4, <1>5
     DEF TrafficChange, RemoveDistortion, AddDistortion, ChangeDistortion, Idle
<1>6. CASE FinishChange
  BY <1>3, <1>6 DEF FinishChange
<1>7. CASE Recalculate \/ Finish
  BY <1>7, OtherWay DEF Recalculate, Finish
<1>8. CASE \E p \in Points : Lower(p) \/ Raise(p) \/ Update(p)
  BY <1>8, LowerWay, RaiseWay, UpdateWay
<1>9. CASE UNCHANGED vars
  BY <1>9, OtherWay DEF vars
<1> QED BY <1>1, <1>2, <1>5, <1>6, <1>7, <1>8, <1>9 DEF Next, Compute

-----------------------------------------------------------------------------
(* The way *)

\* The way goes on from its last point, or has come to its end.
Onward(w) ==
    LET q == w[Len(w)]
    IN  IF seg[q] \in dst.segs \cup {NoSeg} THEN w ELSE Append(w, Other(seg[q], q))

\* g has the stages of the way from p that are numbered in D.
Stages(p, g, D) == g = [n \in D |-> IF n = 0 THEN <<p>> ELSE Onward(g[n - 1])]

LEMMA WayIs ==
    ASSUME NEW p
    PROVE  Way(p) = (CHOOSE g : Stages(p, g, Nat))[Cardinality(Points)]
BY DEF Way, Stages, Onward

LEMMA StageIs ==
    ASSUME NEW p, NEW g, NEW D, Stages(p, g, D)
    PROVE  \A n \in D : g[n] = IF n = 0 THEN <<p>> ELSE Onward(g[n - 1])
BY DEF Stages

\* A set of natural numbers that misses some has a first one that it misses.
LEMMA FirstMissing ==
    ASSUME NEW S \in SUBSET Nat, S # {}
    PROVE  \E n \in S : \A m \in Nat : m < n => m \notin S
<1>1. PICK n \in S : \A m \in S : n <= m
  BY NatMin
<1>2. \A m \in Nat : m < n => ~(n <= m)
  OBVIOUS
<1> QED BY <1>1, <1>2

\* The stages do not depend on how many there are.
LEMMA StagesAgree ==
    ASSUME NEW p, NEW n \in Nat, NEW k \in Nat, n <= k,
           NEW g, Stages(p, g, 0 .. n), NEW h, Stages(p, h, 0 .. k)
    PROVE  g[n] = h[n]
<1> DEFINE Bad == {m \in 0 .. n : g[m] # h[m]}
<1> SUFFICES ASSUME Bad # {} PROVE FALSE
  OBVIOUS
<1>1. PICK m \in Bad : \A i \in Nat : i < m => i \notin Bad
  <2>1. Bad \in SUBSET Nat
    OBVIOUS
  <2> HIDE DEF Bad
  <2> QED BY <2>1, FirstMissing
<1>2. m \in 0 .. n /\ m \in 0 .. k
  OBVIOUS
<1>3. /\ g[m] = IF m = 0 THEN <<p>> ELSE Onward(g[m - 1])
      /\ h[m] = IF m = 0 THEN <<p>> ELSE Onward(h[m - 1])
  BY <1>2, StageIs
<1>4. m # 0 => g[m - 1] = h[m - 1]
  <2> SUFFICES ASSUME m # 0 PROVE g[m - 1] = h[m - 1]
    OBVIOUS
  <2>1. m - 1 \in 0 .. n /\ m - 1 < m
    BY <1>2
  <2> QED BY <1>1, <2>1
<1> QED BY <1>3, <1>4

LEMMA StagesExist ==
    ASSUME NEW p
    PROVE  \E g : Stages(p, g, Nat)
<1> DEFINE G(n) == CHOOSE g : Stages(p, g, 0 .. n)
           Bad == {n \in Nat : ~\E g : Stages(p, g, 0 .. n)}
<1>1. ASSUME Bad # {} PROVE FALSE
  <2>1. PICK n \in Bad : \A m \in Nat : m < n => m \notin Bad
    <3>1. Bad \in SUBSET Nat
      OBVIOUS
    <3> HIDE DEF Bad
    <3> QED BY <1>1, <3>1, FirstMissing
  <2>2. CASE n = 0
    <3>1. Stages(p, [i \in 0 .. 0 |-> <<p>>], 0 .. 0)
      BY DEF Stages
    <3> QED BY <2>1, <2>2, <3>1
  <2>3. CASE n # 0
    <3>1. n - 1 \in Nat /\ n - 1 < n
      BY <2>3
    <3>2. PICK g : Stages(p, g, 0 .. (n - 1))
      BY <2>1, <3>1
    <3>3. PICK h : h = [i \in 0 .. n |-> IF i = n THEN Onward(g[n - 1]) ELSE g[i]]
      OBVIOUS
    <3>4. ASSUME NEW i \in 0 .. n
          PROVE  h[i] = IF i = 0 THEN <<p>> ELSE Onward(h[i - 1])
      <4>1. i # 0 => i - 1 \in 0 .. n /\ i - 1 # n
        OBVIOUS
      <4>2. i # 0 => h[i - 1] = g[i - 1]
        BY <3>3, <4>1
      <4>3. CASE i = n
        BY <2>3, <3>3, <4>2, <4>3
      <4>4. CASE i # n
        <5>1. i \in 0 .. (n - 1)
          BY <4>4
        <5>2. g[i] = IF i = 0 THEN <<p>> ELSE Onward(g[i - 1])
          BY <3>2, <5>1, StageIs
        <5> QED BY <3>3, <4>2, <4>4, <5>2
      <4> QED BY <4>3, <4>4
    <3>5. h = [i \in 0 .. n |-> h[i]]
      BY <3>3
    <3>6. Stages(p, h, 0 .. n)
      BY <3>4, <3>5 DEF Stages
    <3> QED BY <2>1, <3>6
  <2> QED BY <2>2, <2>3
<1>2. \A n \in Nat : Stages(p, G(n), 0 .. n)
  BY <1>1
<1> DEFINE h == [n \in Nat |-> G(n)[n]]
<1> HIDE DEF G, Bad
<1>3. ASSUME NEW n \in Nat
      PROVE  h[n] = IF n = 0 THEN <<p>> ELSE Onward(h[n - 1])
  <2>1. Stages(p, G(n), 0 .. n) /\ n \in 0 .. n
    BY <1>2
  <2>2. G(n)[n] = IF n = 0 THEN <<p>> ELSE Onward(G(n)[n - 1])
    BY <2>1, StageIs
  <2>3. n # 0 => h[n - 1] = G(n)[n - 1]
    <3> SUFFICES ASSUME n # 0 PROVE h[n - 1] = G(n)[n - 1]
      OBVIOUS
    <3>1. n - 1 \in Nat /\ n - 1 <= n
      OBVIOUS
    <3>2. Stages(p, G(n - 1), 0 .. (n - 1))
      BY <1>2, <3>1
    <3>3. G(n - 1)[n - 1] = G(n)[n - 1]
      BY <2>1, <3>1, <3>2, StagesAgree
    <3> QED BY <3>1, <3>3
  <2> QED BY <2>2, <2>3
<1>4. h = [n \in Nat |-> h[n]]
  OBVIOUS
<1> HIDE DEF h
<1> QED BY <1>3, <1>4 DEF Stages

\* From a point with a cost, once computed, one comes to the destination or to
\* a point with less to go.
LEMMA ComputedLeadsOn ==
    ASSUME HeapInv, WayInv, Computed, NEW q \in Points, value[q] # Inf
    PROVE  \/ seg[q] \in dst.segs
           \/ /\ seg[q] \notin dst.segs \cup {NoSeg}
              /\ Other(seg[q], q) \in Points
              /\ value[Other(seg[q], q)] # Inf
              /\ value[Other(seg[q], q)] < value[q]
<1>1. el[q] = NoKey /\ todo = {}
  BY DEF Computed, Keys, Idle
<1>2. value[q] = rhs[q]
  BY <1>1 DEF HeapInv, InconsistentIsOnHeap, Untouched
<1>3. ~Fresh(q)
  BY DEF WayInv, FreshIsOffHeap
<1>4. seg[q] \in dst.segs \/ Down(seg[q], q, value, rhs[q])
  BY <1>1, <1>2, <1>3 DEF WayInv, SegLeadsOn
<1>5. ASSUME Down(seg[q], q, value, rhs[q])
      PROVE  /\ seg[q] # NoSeg
             /\ Other(seg[q], q) \in Points
             /\ value[Other(seg[q], q)] # Inf
             /\ value[Other(seg[q], q)] < value[q]
  <2>1. seg[q] \in Segments
    BY <1>5 DEF Down, SegsAt
  <2>2. PICK o \in Points : o = Other(seg[q], q)
    BY <2>1, OtherType
  <2>3. value[o] < value[q]
    BY <1>2, <1>5, <2>2 DEF Down
  <2>4. value[q] \in 0 .. Inf /\ value[o] \in 0 .. Inf /\ Inf \in Nat
    BY GraphAssumption DEF HeapInv, TypeOK, Costs
  <2>5. value[o] # Inf
    BY <2>3, <2>4
  <2> QED BY <2>1, <2>2, <2>3, <2>5, GraphAssumption
<1> QED BY <1>4, <1>5

\* A way whose points have less and less to go, and that after n stages has
\* come to the destination or has n points more than the first.
Falling(w) ==
    \A i, j \in DOMAIN w : i < j => value[w[j]] < value[w[i]]

OnTheWay(w, n) ==
    /\ w \in Seq(Points) /\ Len(w) \in 1 .. (n + 1)
    /\ \A i \in DOMAIN w : value[w[i]] # Inf
    /\ Falling(w)
    /\ Len(w) = n + 1 \/ seg[w[Len(w)]] \in dst.segs

\* A point with less to go is put at the end of a way.
LEMMA FallsFurther ==
    ASSUME NEW w \in Seq(Points), w # <<>>, Falling(w),
           value \in [Points -> Nat],
           NEW o \in Points, value[o] < value[w[Len(w)]]
    PROVE  Falling(Append(w, o))
<1>1. PICK n \in Nat \ {0} : n = Len(w) /\ DOMAIN w = 1 .. n
  BY EmptySeq, LenProperties
<1>2. PICK v : v = Append(w, o)
  OBVIOUS
<1>3. /\ v \in Seq(Points) /\ Len(v) = n + 1 /\ v[n + 1] = o
      /\ \A i \in 1 .. n : v[i] = w[i]
  BY <1>1, <1>2, AppendProperties
<1>4. DOMAIN v = 1 .. (n + 1)
  BY <1>3, LenProperties
<1>5. \A i \in 1 .. n : w[i] \in Points
  BY <1>1, ElementOfSeq
<1>6. ASSUME NEW i \in 1 .. (n + 1), NEW j \in 1 .. (n + 1), i < j
      PROVE  value[v[j]] < value[v[i]]
  <2>1. i \in 1 .. n
    BY <1>6
  <2>2. CASE j \in 1 .. n
    BY <1>1, <1>3, <1>6, <2>1, <2>2 DEF Falling
  <2>3. CASE j = n + 1
    <3>1. value[w[n]] <= value[w[i]]
      <4>1. CASE i = n
        BY <1>1, <1>5, <4>1
      <4>2. CASE i # n
        <5>1. i < n /\ n \in 1 .. n
          BY <1>1, <2>1, <4>2
        <5>2. value[w[n]] < value[w[i]]
          BY <1>1, <2>1, <5>1 DEF Falling
        <5>3. value[w[n]] \in Nat /\ value[w[i]] \in Nat
          BY <1>5, <2>1, <5>1
        <5> QED BY <5>2, <5>3
      <4> QED BY <4>1, <4>2
    <3>2. value[o] < value[w[n]]
      BY <1>1
    <3>3. value[o] \in Nat /\ value[w[n]] \in Nat /\ value[w[i]] \in Nat
      BY <1>1, <1>5, <2>1
    <3>4. value[o] < value[w[i]]
      BY <3>1, <3>2, <3>3
    <3> QED BY <1>3, <2>1, <2>3, <3>4
  <2> QED BY <1>6, <2>2, <2>3
<1> QED BY <1>2, <1>4, <1>6 DEF Falling

LEMMA OnwardOnTheWay ==
    ASSUME HeapInv, WayInv, Computed, NEW n \in Nat, NEW w, OnTheWay(w, n)
    PROVE  OnTheWay(Onward(w), n + 1)
<1>1. PICK k \in 1 .. (n + 1) : k = Len(w) /\ DOMAIN w = 1 .. k
  BY LenProperties DEF OnTheWay
<1>2. PICK q \in Points : q = w[k] /\ value[q] # Inf
  BY <1>1, ElementOfSeq DEF OnTheWay
<1>3. CASE seg[q] \in dst.segs
  <2>1. Onward(w) = w
    BY <1>1, <1>2, <1>3 DEF Onward
  <2>2. Len(w) \in 1 .. (n + 1 + 1)
    BY <1>1
  <2> QED BY <1>1, <1>2, <1>3, <2>1, <2>2 DEF OnTheWay
<1>4. CASE seg[q] \notin dst.segs
  <2>1. PICK o \in Points :
            /\ o = Other(seg[q], q) /\ seg[q] \notin dst.segs \cup {NoSeg}
            /\ value[o] # Inf /\ value[o] < value[q]
    BY <1>2, <1>4, ComputedLeadsOn
  <2>2. PICK v : v = Append(w, o)
    OBVIOUS
  <2>3. Onward(w) = v
    BY <1>1, <1>2, <2>1, <2>2 DEF Onward
  <2>4. k = n + 1 /\ w \in Seq(Points) /\ Falling(w)
    BY <1>1, <1>2, <1>4 DEF OnTheWay
  <2>5. /\ v \in Seq(Points) /\ Len(v) = n + 2
        /\ DOMAIN v = 1 .. (n + 2)
        /\ v[n + 2] = o /\ \A i \in 1 .. (n + 1) : v[i] = w[i]
    <3>1. /\ v \in Seq(Points) /\ Len(v) = k + 1 /\ v[k + 1] = o
          /\ \A i \in 1 .. k : v[i] = w[i]
      BY <1>1, <2>2, <2>4, AppendProperties
    <3>2. k + 1 = n + 2
      BY <2>4
    <3> QED BY <2>4, <3>1, <3>2, LenProperties
  <2>6. Falling(v)
    <3>1. value \in [Points -> Nat]
      BY GraphAssumption DEF HeapInv, TypeOK, Costs
    <3>2. w # <<>>
      BY <1>1
    <3> QED BY <1>1, <1>2, <2>1, <2>2, <2>4, <3>1, <3>2, FallsFurther
  <2>7. \A i \in 1 .. (n + 2) : value[v[i]] # Inf
    <3>1. \A i \in 1 .. (n + 1) : value[w[i]] # Inf
      BY <1>1, <2>4 DEF OnTheWay
    <3>2. \A i \in 1 .. (n + 2) : i \in 1 .. (n + 1) \/ i = n + 2
      OBVIOUS
    <3> QED BY <2>1, <2>5, <3>1, <3>2
  <2>8. n + 2 = (n + 1) + 1 /\ n + 2 \in 1 .. ((n + 1) + 1)
    OBVIOUS
  <2> QED BY <2>3, <2>5, <2>6, <2>7, <2>8 DEF OnTheWay
<1> QED BY <1>3, <1>4

\* No point is on a falling way twice, so that it ends.
LEMMA FallingIsShort ==
    ASSUME NEW w \in Seq(Points), Falling(w), value \in [Points -> Nat]
    PROVE  Len(w) <= Cardinality(Points)
<1>1. PICK k \in Nat : k = Len(w) /\ DOMAIN w = 1 .. k
  BY LenProperties
<1>2. IsFiniteSet(Points) /\ Cardinality(Points) \in Nat
  BY GraphAssumption, FS_CardinalityType
<1>3. IsFiniteSet(1 .. k) /\ Cardinality(1 .. k) = k
  <2>1. 1 \in Int /\ k \in Int
    OBVIOUS
  <2>2. IsFiniteSet(1 .. k) /\ Cardinality(1 .. k) = IF 1 > k THEN 0 ELSE k - 1 + 1
    BY <2>1, FS_Interval
  <2> QED BY <2>2
<1>4. w \in [1 .. k -> Points]
  BY <1>1
<1>5. \A i, j \in 1 .. k : i # j => w[i] # w[j]
  <2> SUFFICES ASSUME NEW i \in 1 .. k, NEW j \in 1 .. k, i # j, w[i] = w[j]
               PROVE  FALSE
    OBVIOUS
  <2>1. value[w[i]] \in Nat
    BY <1>4
  <2>2. i < j \/ j < i
    OBVIOUS
  <2>3. value[w[i]] < value[w[i]]
    BY <1>1, <2>2 DEF Falling
  <2> QED BY <2>1, <2>3
<1> SUFFICES ASSUME Cardinality(Points) < k PROVE FALSE
  BY <1>1, <1>2
<1>6. \E i, j \in 1 .. k : i # j /\ w[i] = w[j]
  BY <1>2, <1>3, <1>4, FS_PigeonHole
<1> QED BY <1>5, <1>6

LEMMA WayEnds ==
    ASSUME HeapInv, WayInv, Computed, NEW p \in Points, value[p] # Inf
    PROVE  /\ seg[Way(p)[Len(Way(p))]] \in dst.segs
           /\ Len(Way(p)) <= Cardinality(Points)
<1>1. PICK g : g = CHOOSE h : Stages(p, h, Nat)
  OBVIOUS
<1>2. Stages(p, g, Nat)
  BY <1>1, StagesExist
<1> DEFINE Bad == {n \in Nat : ~OnTheWay(g[n], n)}
<1>3. ASSUME Bad # {} PROVE FALSE
  <2>1. PICK n \in Bad : \A m \in Nat : m < n => m \notin Bad
    <3>1. Bad \in SUBSET Nat
      OBVIOUS
    <3> HIDE DEF Bad
    <3> QED BY <1>3, <3>1, FirstMissing
  <2>2. n \in Nat /\ ~OnTheWay(g[n], n)
    OBVIOUS
  <2>3. CASE n = 0
    <3>1. g[n] = <<p>>
      BY <1>2, <2>2, <2>3, StageIs
    <3>2. OnTheWay(<<p>>, 0)
      BY DEF OnTheWay, Falling
    <3> QED BY <2>2, <2>3, <3>1, <3>2
  <2>4. CASE n # 0
    <3>1. n - 1 \in Nat /\ n - 1 < n /\ (n - 1) + 1 = n
      BY <2>2, <2>4
    <3>2. OnTheWay(g[n - 1], n - 1)
      BY <2>1, <3>1
    <3>3. g[n] = Onward(g[n - 1])
      BY <1>2, <2>2, <2>4, StageIs
    <3>4. OnTheWay(Onward(g[n - 1]), (n - 1) + 1)
      BY <3>1, <3>2, OnwardOnTheWay
    <3> QED BY <2>2, <3>1, <3>3, <3>4
  <2> QED BY <2>3, <2>4
<1>4. PICK N \in Nat : N = Cardinality(Points)
  BY GraphAssumption, FS_CardinalityType
<1>5. PICK w : w = g[N]
  OBVIOUS
<1>6. OnTheWay(w, N)
  BY <1>3, <1>5
<1>7. Way(p) = w
  BY <1>1, <1>4, <1>5, WayIs
<1>8. Len(w) <= N
  <2>1. value \in [Points -> Nat]
    BY GraphAssumption DEF HeapInv, TypeOK, Costs
  <2> QED BY <1>4, <1>6, <2>1, FallingIsShort DEF OnTheWay
<1>9. Len(w) # N + 1
  BY <1>6, <1>8 DEF OnTheWay
<1> QED BY <1>4, <1>6, <1>7, <1>8, <1>9 DEF OnTheWay

\* From every point with a cost, the segments lead to the street of the
\* destination, over each point at most once: every one of them leads to a
\* point that has less to go, whatever was reported and in whatever order the
\* points were updated.  So route_path_new never takes a way for a cycle.
THEOREM WayCorrect == Spec => []WayLeadsToDestination
<1>1. Init => WayInv
  BY InitWay
<1>2. HeapInv /\ WayInv /\ [Next]_vars => WayInv'
  BY NextWay
<1>3. HeapInv /\ WayInv => WayLeadsToDestination
  BY WayEnds DEF WayLeadsToDestination
<1> QED BY <1>1, <1>2, <1>3, HeapInvariant, PTL DEF Spec
-----------------------------------------------------------------------------
(* What the ways cost *)

\* What is taken for the cost of a segment is what it truly costs, or leaves out
\* a delay beside a point where distortions meet.
LEMMA CostIsCharged ==
    ASSUME delay \in [Distortions -> Delays \cup {0}], FlagsCoverDistortions,
           NEW p \in Points, NEW s \in SegsAt(p)
    PROVE  Cost(s, p) \in ChargedFor(s, p)
<1>1. s \in Segments /\ {From[s], To[s]} = {p, Other(s, p)}
  BY DEF SegsAt, Other
<1>2. CASE flag[From[s]] /\ flag[To[s]]
  BY <1>2 DEF Cost, TrueCost, ChargedFor
<1>3. CASE Meeting(From[s]) \/ Meeting(To[s])
  BY <1>3 DEF Cost, TrueCost, ChargedFor
<1>4. CASE /\ ~(flag[From[s]] /\ flag[To[s]])
           /\ ~Meeting(From[s]) /\ ~Meeting(To[s])
  <2>1. Matching(s, p) = {}
    <3> SUFFICES ASSUME NEW d \in Matching(s, p) PROVE FALSE
      OBVIOUS
    <3>1. d \in Distortions /\ {DFrom[d], DTo[d]} = {p, Other(s, p)}
      BY DEF Matching
    <3>2. \A q \in {DFrom[d], DTo[d]} : flag[q] \/ Meeting(q)
      BY <3>1 DEF Matching, FlagsCoverDistortions
    <3> QED BY <1>1, <1>4, <3>1, <3>2
  <2>2. Distortion(s, p) = Max({0})
    BY <2>1 DEF Distortion
  <2>3. Max({0}) = 0
    <3>1. Max({0}) \in {0}
      BY BoundedMax
    <3> QED BY <3>1
  <2>4. PICK t \in 0 .. Inf : t = Time[<<s, p>>]
    BY <1>1, GraphAssumption DEF Costs
  <2>5. Plus(t, 0) = t
    BY <2>4, GraphAssumption DEF Plus
  <2> QED BY <1>4, <2>2, <2>3, <2>4, <2>5 DEF Cost, TrueCost, ChargedFor
<1> QED BY <1>2, <1>3, <1>4

\* Where no distortion has changed, the segments cost what they did.
LEMMA ChargedStays ==
    ASSUME NEW p, NEW s,
           \A d \in Distortions : delay'[d] = delay[d] \/ p \notin Touched(d)
    PROVE  ChargedFor(s, p)' = ChargedFor(s, p)
<1>1. \A d \in Distortions :
          \/ DFrom[d] = p /\ DTo[d] = Other(s, p)
          \/ ~OneWay[d] /\ DTo[d] = p /\ DFrom[d] = Other(s, p)
          => delay'[d] = delay[d]
  BY DEF Touched
<1>2. Matching(s, p)' = Matching(s, p)
  BY <1>1 DEF Matching
<1>3. \A d \in Matching(s, p) : delay'[d] = delay[d]
  BY <1>1 DEF Matching
<1>4. {delay'[d] : d \in Matching(s, p)'} = {delay[d] : d \in Matching(s, p)}
  BY <1>2, <1>3
<1>5. Distortion(s, p)' = Distortion(s, p)
  BY <1>4 DEF Distortion
<1>6. TrueCost(s, p)' = TrueCost(s, p)
  BY <1>5 DEF TrueCost
<1> QED BY <1>6 DEF ChargedFor, Meeting

\* c is what the way of p costs: that of ending on p, or that of the segment to
\* take, which leads away from p, on top of what the far end has.
Paid(p, c) ==
    \/ c = dst_val[p] /\ seg[p] = dst_seg[p]
    \/ \E s \in SegsAt(p), penalty \in {0, Penalty2} :
          /\ s = seg[p] /\ ~Loop(s) /\ Time[<<s, p>>] # Inf
          /\ \E time \in ChargedFor(s, p) :
                c = Plus(Plus(time, penalty), value[Other(s, p)])

\* A point that has been updated since a cost around it changed knows what its
\* way costs.
RhsIsPaid ==
    \A p \in Points \ todo : rhs[p] # Inf /\ ~Fresh(p) => Paid(p, rhs[p])

\* It goes on knowing it while neither its segment, nor what that costs, nor
\* the value of the point it leads to changes.
LEMMA PaidStays ==
    ASSUME NEW p, NEW c, Paid(p, c),
           UNCHANGED <<dst_val, dst_seg>>, seg'[p] = seg[p],
           \A d \in Distortions : delay'[d] = delay[d] \/ p \notin Touched(d),
           \A s \in SegsAt(p) :
               s = seg[p] /\ ~Loop(s) /\ Time[<<s, p>>] # Inf
               => value'[Other(s, p)] = value[Other(s, p)]
    PROVE  Paid(p, c)'
<1>1. CASE c = dst_val[p] /\ seg[p] = dst_seg[p]
  BY <1>1 DEF Paid
<1>2. CASE \E s \in SegsAt(p), penalty \in {0, Penalty2} :
              /\ s = seg[p] /\ ~Loop(s) /\ Time[<<s, p>>] # Inf
              /\ \E time \in ChargedFor(s, p) :
                    c = Plus(Plus(time, penalty), value[Other(s, p)])
  <2>1. PICK s \in SegsAt(p), penalty \in {0, Penalty2} :
              /\ s = seg[p] /\ ~Loop(s) /\ Time[<<s, p>>] # Inf
              /\ \E time \in ChargedFor(s, p) :
                    c = Plus(Plus(time, penalty), value[Other(s, p)])
    BY <1>2
  <2>2. ChargedFor(s, p)' = ChargedFor(s, p)
    BY ChargedStays
  <2>3. value'[Other(s, p)] = value[Other(s, p)]
    BY <2>1
  <2>4. \E time \in ChargedFor(s, p)' :
            c = Plus(Plus(time, penalty), value'[Other(s, p)])
    BY <2>1, <2>2, <2>3
  <2> QED BY <2>1, <2>4 DEF Paid
<1> QED BY <1>1, <1>2 DEF Paid

\* An update learns it.
LEMMA UpdatePays ==
    ASSUME TypeOK, FlagsCoverDistortions, NEW p \in Points,
           value' \in [Points -> Costs], PointUpdate(p, value'),
           UNCHANGED <<dst_val, dst_seg, delay>>, rhs'[p] # Inf
    PROVE  Paid(p, rhs[p])'
<1>1. PICK val \in [Points -> Costs] : val = value'
  OBVIOUS
<1>2. PICK new : new = Lookahead(p, val)
  OBVIOUS
<1>3. PICK s \in BestSegs(p, val) : seg' = [seg EXCEPT ![p] = s]
  BY <1>1 DEF PointUpdate
<1>4. rhs'[p] = new /\ seg'[p] = s
  BY <1>1, <1>2, <1>3 DEF PointUpdate, TypeOK
<1>5. \/ new = dst_val[p] /\ s = dst_seg[p]
      \/ new # dst_val[p] /\ s \in SegsAt(p) /\ CostVia(s, p, val) = new
  BY <1>2, <1>3 DEF BestSegs
<1>6. CASE new = dst_val[p] /\ s = dst_seg[p]
  BY <1>4, <1>6 DEF Paid
<1>7. CASE s \in SegsAt(p) /\ CostVia(s, p, val) = new
  <2>1. delay \in [Distortions -> Delays \cup {0}]
    BY DEF TypeOK
  <2>2. ~Loop(s) /\ Time[<<s, p>>] # Inf
    BY <1>4, <1>7, <2>1, CostViaAbove
  <2>3. \E penalty \in {0, Penalty2} :
            new = Plus(Plus(Cost(s, p), penalty), val[Other(s, p)])
    BY <1>4, <1>7 DEF CostVia
  <2>4. PICK penalty \in {0, Penalty2} :
            new = Plus(Plus(Cost(s, p), penalty), val[Other(s, p)])
    BY <2>3
  <2>5. Cost(s, p) \in ChargedFor(s, p)'
    <3>1. ChargedFor(s, p)' = ChargedFor(s, p)
      BY ChargedStays
    <3> QED BY <1>7, <2>1, <3>1, CostIsCharged
  <2>6. \E time \in ChargedFor(s, p)' :
            rhs'[p] = Plus(Plus(time, penalty), value'[Other(s, p)])
    BY <1>1, <1>4, <2>4, <2>5
  <2> QED BY <1>4, <1>7, <2>2, <2>6 DEF Paid
<1> QED BY <1>5, <1>6, <1>7

\* What the points that are not to be updated know stays true when those whose
\* way leads over a point of another value are.
LEMMA OthersStayPaid ==
    ASSUME RhsIsPaid, NEW p \in Points,
           UNCHANGED <<dst_val, dst_seg, delay>>,
           \A q \in Points \ {p} : /\ rhs'[q] = rhs[q] /\ seg'[q] = seg[q]
                                   /\ value'[q] = value[q],
           NEW q \in Points \ {p}, q \notin todo, rhs'[q] # Inf, ~Fresh(q)',
           q \notin Predecessors(p) \/ value'[p] = value[p]
    PROVE  Paid(q, rhs[q])'
<1>1. rhs'[q] = rhs[q] /\ seg'[q] = seg[q] /\ rhs[q] # Inf /\ ~Fresh(q)
  BY DEF Fresh
<1>2. PICK c : c = rhs[q]
  OBVIOUS
<1>3. Paid(q, c)
  BY <1>1, <1>2 DEF RhsIsPaid
<1>4. ASSUME NEW s \in SegsAt(q), ~Loop(s), Time[<<s, q>>] # Inf
      PROVE  value'[Other(s, q)] = value[Other(s, q)]
  <2>1. CASE Other(s, q) = p
    <3>1. s \in SegsAt(p) /\ Other(s, p) = q
      BY <1>4, <2>1 DEF SegsAt, Other, Loop
    <3>2. q \in Predecessors(p)
      BY <1>4, <3>1 DEF Predecessors
    <3> QED BY <2>1, <3>2
  <2>2. CASE Other(s, q) # p
    BY <2>2, OtherType DEF SegsAt
  <2> QED BY <2>1, <2>2
<1>5. Paid(q, c)'
  BY <1>1, <1>3, <1>4, PaidStays
<1> QED BY <1>1, <1>2, <1>5

LEMMA FloodPays ==
    ASSUME NEW d \in Dests, NEW oldRhs \in [Points -> {0, Inf}], NEW oldSeg,
           InitDest(d, oldRhs, oldSeg)
    PROVE  RhsIsPaid'
<1>1. PICK last :
        /\ dst_val' = [p \in Points |->
                          IF p \in Offered(d) THEN last[p].val ELSE Inf]
        /\ dst_seg' = [p \in Points |->
                          IF p \in Offered(d) THEN last[p].seg ELSE NoSeg]
        /\ rhs' = [p \in Points |->
                      IF p \in Offered(d) THEN last[p].val ELSE oldRhs[p]]
        /\ seg' = [p \in Points |->
                      IF p \in Offered(d) THEN last[p].seg ELSE oldSeg[p]]
  BY DEF InitDest
<1> SUFFICES ASSUME NEW p \in Points,
                    rhs'[p] # Inf, ~(rhs'[p] = 0 /\ dst_val'[p] = Inf)
             PROVE  rhs'[p] = dst_val'[p] /\ seg'[p] = dst_seg'[p]
  BY DEF RhsIsPaid, Paid, Fresh
<1>2. p \in Offered(d)
  BY <1>1
<1> QED BY <1>1, <1>2

LEMMA LowerPays ==
    ASSUME HeapInv, WayInv, RhsIsPaid, NEW p \in Points, Lower(p)
    PROVE  RhsIsPaid'
<1>1. /\ value' = [value EXCEPT ![p] = rhs[p]] /\ todo = {}
      /\ UNCHANGED <<rhs, seg, dst_val, dst_seg, delay>>
      /\ todo' = Predecessors(p)
  BY DEF Lower, distortionVars
<1>2. \A q \in Points \ {p} : /\ rhs'[q] = rhs[q] /\ seg'[q] = seg[q]
                              /\ value'[q] = value[q]
  BY <1>1 DEF HeapInv, TypeOK
<1> SUFFICES ASSUME NEW q \in Points \ Predecessors(p), rhs'[q] # Inf, ~Fresh(q)'
             PROVE  Paid(q, rhs[q])'
  BY <1>1 DEF RhsIsPaid
<1>3. CASE q # p
  BY <1>1, <1>2, <1>3, OthersStayPaid
<1>4. CASE q = p
  <2>1. PICK c : c = rhs[q]
    OBVIOUS
  <2>2. Paid(q, c)
    BY <1>1, <2>1 DEF RhsIsPaid, Fresh
  <2>3. ASSUME NEW s \in SegsAt(q), ~Loop(s)
        PROVE  value'[Other(s, q)] = value[Other(s, q)]
    <3>1. Other(s, q) \in Points \ {p}
      BY <1>4, <2>3, OtherType DEF SegsAt, Other, Loop
    <3> QED BY <1>2, <3>1
  <2>4. Paid(q, c)'
    BY <1>1, <2>2, <2>3, PaidStays
  <2> QED BY <1>1, <2>1, <2>4
<1> QED BY <1>3, <1>4

LEMMA RaisePays ==
    ASSUME TypeOK, FlagsCoverDistortions, RhsIsPaid, NEW p \in Points, Raise(p)
    PROVE  RhsIsPaid'
<1>1. /\ value' = Raised(p) /\ PointUpdate(p, value')
      /\ UNCHANGED <<dst_val, dst_seg, delay>>
      /\ todo = {} /\ todo' = Predecessors(p)
  BY DEF Raise, distortionVars
<1>2. /\ value' \in [Points -> Costs]
      /\ \A q \in Points \ {p} : value'[q] = value[q]
  BY <1>1, GraphAssumption DEF TypeOK, Raised, Costs
<1>3. \A q \in Points \ {p} : rhs'[q] = rhs[q] /\ seg'[q] = seg[q]
  BY <1>1 DEF PointUpdate, TypeOK
<1> SUFFICES ASSUME NEW q \in Points \ Predecessors(p), rhs'[q] # Inf, ~Fresh(q)'
             PROVE  Paid(q, rhs[q])'
  BY <1>1 DEF RhsIsPaid
<1>4. CASE q = p
  BY <1>1, <1>2, <1>4, UpdatePays
<1>5. CASE q # p
  BY <1>1, <1>2, <1>3, <1>5, OthersStayPaid
<1> QED BY <1>4, <1>5

LEMMA UpdateKeepsPaid ==
    ASSUME TypeOK, FlagsCoverDistortions, RhsIsPaid, NEW p \in Points, Update(p)
    PROVE  RhsIsPaid'
<1>1. /\ value' = value /\ PointUpdate(p, value')
      /\ UNCHANGED <<dst_val, dst_seg, delay>> /\ todo' = todo \ {p}
  BY DEF Update, distortionVars
<1>2. value' \in [Points -> Costs]
  BY <1>1 DEF TypeOK
<1>3. \A q \in Points \ {p} : /\ rhs'[q] = rhs[q] /\ seg'[q] = seg[q]
                              /\ value'[q] = value[q]
  BY <1>1 DEF PointUpdate, TypeOK
<1> SUFFICES ASSUME NEW q \in Points \ (todo \ {p}), rhs'[q] # Inf, ~Fresh(q)'
             PROVE  Paid(q, rhs[q])'
  BY <1>1 DEF RhsIsPaid
<1>4. CASE q = p
  BY <1>1, <1>2, <1>4, UpdatePays
<1>5. CASE q # p
  BY <1>1, <1>3, <1>5, OthersStayPaid
<1> QED BY <1>4, <1>5

\* A change of a distortion changes what leaving its ends costs, and they are
\* to be updated.
LEMMA ChangePays ==
    ASSUME RhsIsPaid, NEW d \in Distortions, UNCHANGED pointVars,
           \A e \in Distortions \ {d} : delay'[e] = delay[e],
           todo \cup Touched(d) \subseteq todo'
    PROVE  RhsIsPaid'
<1>1. UNCHANGED <<value, rhs, seg, dst_val, dst_seg>>
  BY DEF pointVars
<1> SUFFICES ASSUME NEW p \in Points \ todo', rhs'[p] # Inf, ~Fresh(p)'
             PROVE  Paid(p, rhs[p])'
  BY DEF RhsIsPaid
<1>2. PICK c : c = rhs[p]
  OBVIOUS
<1>3. Paid(p, c)
  BY <1>1, <1>2 DEF RhsIsPaid, Fresh
<1>4. \A e \in Distortions : delay'[e] = delay[e] \/ p \notin Touched(e)
  OBVIOUS
<1>5. Paid(p, c)'
  BY <1>1, <1>3, <1>4, PaidStays
<1> QED BY <1>1, <1>2, <1>5

LEMMA OtherPays ==
    ASSUME RhsIsPaid, UNCHANGED <<pointVars, distortionVars, todo>>
    PROVE  RhsIsPaid'
<1>1. UNCHANGED <<value, rhs, seg, dst_val, dst_seg, delay, todo>>
  BY DEF pointVars, distortionVars
<1> SUFFICES ASSUME NEW p \in Points \ todo', rhs'[p] # Inf, ~Fresh(p)'
             PROVE  Paid(p, rhs[p])'
  BY DEF RhsIsPaid
<1>2. PICK c : c = rhs[p]
  OBVIOUS
<1>3. Paid(p, c)
  BY <1>1, <1>2 DEF RhsIsPaid, Fresh
<1>4. Paid(p, c)'
  BY <1>1, <1>3, PaidStays
<1> QED BY <1>1, <1>2, <1>4

LEMMA NextPays ==
    HeapInv /\ WayInv /\ FlagsCoverDistortions /\ RhsIsPaid /\ [Next]_vars
        => RhsIsPaid'
<1> SUFFICES ASSUME HeapInv, WayInv, FlagsCoverDistortions, RhsIsPaid, [Next]_vars
             PROVE  RhsIsPaid'
  OBVIOUS
<1>0. TypeOK
  BY DEF HeapInv
<1>1. CASE Build
  BY <1>1 DEF Build, All, RhsIsPaid, Fresh
<1>2. CASE \E d \in Dests : FirstFlood(d)
  <2>1. rhs \in [Points -> {0, Inf}]
    BY <1>2 DEF HeapInv, TypeOK, FreshHeapIsEmpty, FirstFlood
  <2> QED BY <1>2, <2>1, FloodPays DEF FirstFlood
<1>3. CASE \E d \in Dests : Reflood(d)
  <2>1. All(Inf) \in [Points -> {0, Inf}]
    BY DEF All
  <2> QED BY <1>3, <2>1, FloodPays DEF Reflood
<1>4. ASSUME NEW d \in Distortions, NEW x, Add(d, x), todo = {} PROVE RhsIsPaid'
  BY <1>0, <1>4, ChangePays DEF Add, TypeOK
<1>5. ASSUME NEW d \in Distortions, NEW then, Remove(d, then), todo = {}
      PROVE  RhsIsPaid'
  BY <1>0, <1>5, ChangePays DEF Remove, Touched, TypeOK
<1>6. CASE TrafficChange
  BY <1>4, <1>5, <1>6
     DEF TrafficChange, RemoveDistortion, AddDistortion, ChangeDistortion, Idle
<1>7. CASE FinishChange
  <2>1. readd.item \in Distortions
    BY <1>0, <1>7 DEF TypeOK, FinishChange
  <2> QED BY <1>4, <1>7, <2>1 DEF FinishChange
<1>8. CASE Recalculate \/ Finish
  BY <1>8, OtherPays DEF Recalculate, Finish
<1>9. CASE \E p \in Points : Lower(p) \/ Raise(p) \/ Update(p)
  BY <1>0, <1>9, LowerPays, RaisePays, UpdateKeepsPaid
<1>10. CASE UNCHANGED vars
  BY <1>10, OtherPays DEF vars
<1> QED
  BY <1>1, <1>2, <1>3, <1>6, <1>7, <1>8, <1>9, <1>10 DEF Next, Compute

\* Once the heap is empty and nothing is left to be updated, values are what
\* the lookahead said.
LEMMA ComputedIsPaid ==
    ASSUME HeapInv, WayInv, RhsIsPaid, Computed
    PROVE  ValueIsWhatTheWayCosts
<1> SUFFICES ASSUME NEW p \in Points, value[p] # Inf
             PROVE  \/ value[p] = dst_val[p] /\ seg[p] = dst_seg[p]
                    \/ seg[p] \in SegsAt(p) /\ value[p] \in CostsOver(seg[p], p)
  BY DEF ValueIsWhatTheWayCosts
<1>1. todo = {} /\ el[p] = NoKey
  BY DEF Computed, Idle, Keys
<1>2. value[p] = rhs[p]
  BY <1>1 DEF HeapInv, InconsistentIsOnHeap, Untouched
<1>3. ~Fresh(p)
  BY DEF WayInv, FreshIsOffHeap
<1>4. Paid(p, value[p])
  BY <1>1, <1>2, <1>3 DEF RhsIsPaid
<1>5. CASE value[p] = dst_val[p] /\ seg[p] = dst_seg[p]
  BY <1>5
<1>6. CASE \E s \in SegsAt(p), penalty \in {0, Penalty2} :
              /\ s = seg[p]
              /\ \E time \in ChargedFor(s, p) :
                    value[p] = Plus(Plus(time, penalty), value[Other(s, p)])
  <2>1. PICK s \in SegsAt(p), penalty \in {0, Penalty2} :
              /\ s = seg[p]
              /\ \E time \in ChargedFor(s, p) :
                    value[p] = Plus(Plus(time, penalty), value[Other(s, p)])
    BY <1>6
  <2>2. PICK time \in ChargedFor(s, p) :
              value[p] = Plus(Plus(time, penalty), value[Other(s, p)])
    BY <2>1
  <2>3. value[p] \in CostsOver(s, p)
    BY <2>2 DEF CostsOver
  <2> QED BY <2>1, <2>3
<1> QED BY <1>4, <1>5, <1>6 DEF Paid

\* The cost of every point is what its own way costs, with the distortions there
\* are, whatever was added, changed and removed in whatever order: none counts
\* that has gone, no value of a neighbour is one it had before, and no delay is
\* forgotten but beside a point where one distortion starts and another ends.
THEOREM ValueCorrect == Spec => []ValueIsWhatTheWayCosts
<1>1. Init => WayInv /\ RhsIsPaid
  <2>1. Init => RhsIsPaid
    BY DEF Init, All, RhsIsPaid, Fresh
  <2> QED BY <2>1, InitWay
<1>2. HeapInv /\ WayInv /\ [Next]_vars => WayInv'
  BY NextWay
<1>3. HeapInv /\ WayInv /\ FlagsCoverDistortions /\ RhsIsPaid /\ [Next]_vars
          => RhsIsPaid'
  BY NextPays
<1>4. HeapInv /\ WayInv /\ RhsIsPaid => ValueIsWhatTheWayCosts
  BY ComputedIsPaid DEF ValueIsWhatTheWayCosts
<1>5. Spec => []FlagsCoverDistortions
  BY FlagsCorrect
<1> QED BY <1>1, <1>2, <1>3, <1>4, <1>5, HeapInvariant, PTL DEF Spec
=============================================================================
