--------------------------- MODULE NavigationProofs ---------------------------
(***************************************************************************)
(* Proofs about the job that reads the route for its maneuvers.            *)
(*                                                                         *)
(* A job is begun when a path is done, and it must not find another one    *)
(* running.  The update that finds the path has called back before, with   *)
(* building_path, and that ended the job; but ending it closes a map rect, *)
(* which may make an update that was left for it, inside the first one,    *)
(* which finds a path and begins a job.  JobInv says why the first update  *)
(* then does not begin another: the path it is to replace has been freed,  *)
(* so that it cannot go on; or there was no path before, and then both     *)
(* set the same status, which does not call back.                          *)
(*                                                                         *)
(* PathInv says who holds the legs of the path.  ListInv relates the list  *)
(* to them, with the streets each leg spells: a list that leads up to the  *)
(* destination ends as the path does, and what a job has read and has      *)
(* still to read is the path.                                              *)
(***************************************************************************)
EXTENDS Navigation, SequenceTheorems, FiniteSetTheorems, WellFoundedInduction,
        TLAPS

Pointers == LegIds \cup {NoLeg, FreedLeg}
Legs == [way : Ways \cup WaysBetween \cup {<<>>}, live : BOOLEAN, in_use : Nat,
         update_required : 0..2, next : Pointers]
Frames == Calls \cup [call : {"path_new"}, new_graph : BOOLEAN, oldpath : Pointers]

JobTypes ==
    /\ destinations \in Int /\ current_dst \in Int
    /\ legs \in [LegIds -> Legs]
    /\ path2 \in Pointers
    /\ link_path \in BOOLEAN /\ async \in BOOLEAN
    /\ route_mr \in Rects
    /\ busy \in BOOLEAN /\ idle_ev \in BOOLEAN
    /\ stack \in Seq(Frames)

\* Some calls are the outermost one, others call nothing before they end.
Outermost == {"graph_update", "update_flags", "set_destinations", "recalculated"}
OnTop == {"navigation_update", "navigation_open", "update_done"}
StackInv ==
    \A i \in DOMAIN stack :
       /\ stack[i].call \in Outermost => i = 1
       /\ stack[i].call \in OnTop => i = Len(stack)
       /\ stack[i].call = "navigation_read" => ~async
       /\ stack[i].call = "path_new" => stack[i].oldpath \in Pointers

\* navigation_update is about to end the job, or to begin one.
Ending == Running("navigation_update") /\ Last(stack).status \notin PathDone
Opening ==
    \/ Running("navigation_open")
    \/ Running("navigation_update") /\ Last(stack).status \in PathDone

\* A job has a map rect, and reads on in an idle event or in a loop.
BusyInv ==
    /\ idle_events = IF idle_ev THEN 1 ELSE 0
    /\ busy <=> route_mr # NoRect
    /\ idle_ev => busy
    /\ busy /\ ~idle_ev =>
          \E i \in DOMAIN stack : stack[i].call = "navigation_read"
    /\ Opening => ~busy /\ route_status \in PathDone
    /\ busy /\ route_status \notin PathDone => Ending

\* An update is under way.  It cannot go on when what it is to replace has been
\* freed: nothing leads there any more.
Gone(o) ==
    \/ o = FreedLeg
    \/ /\ o \in LegIds /\ legs[o].in_use = 0
       /\ path2 # o /\ \A l \in LegIds : legs[l].next # o
Update(i) == i \in DOMAIN stack /\ stack[i].call = "path_new"
Lost(i) == graph = "none" \/ Gone(stack[i].oldpath)
Live(i) == Update(i) /\ stack[i].oldpath \in LegIds /\ ~Lost(i)
First(i) == Update(i) /\ stack[i].oldpath = NoLeg /\ ~Lost(i)

\* While a job runs, the updates below cannot go on or change nothing.
Harmless(i) ==
    Lost(i) \/ (stack[i].oldpath = NoLeg /\ route_status = "path_done_new")
LostInv ==
    /\ busy /\ ~Ending =>
          \A i \in DOMAIN stack : Update(i) =>
             \/ \E j \in i+1..Len(stack) : stack[j].call = "navigation_read"
             \/ Harmless(i)
    /\ Opening /\ async => \A i \in DOMAIN stack : Update(i) => Harmless(i)

\* Between two legs of one path only the update and what it calls run.
LinkInv ==
    /\ route_status \in PathDone /\ (\E i \in DOMAIN stack : Update(i))
          => current_dst <= 1
    /\ link_path =>
          /\ ~busy /\ stack # <<>> /\ path2 \in LegIds
          /\ LET n == Len(stack)
                 Links(i) == /\ Update(i) /\ stack[i].new_graph
                             /\ stack[i].oldpath = path2
                 Alone(m) == \A i \in DOMAIN stack : Live(i) => i = m
             IN  \/ /\ Running("update_done") /\ stack[n].new_graph
                    /\ legs[path2].in_use <= 1 /\ Alone(0)
                 \/ Links(n) /\ Alone(n)
                 \/ Ending /\ Links(n - 1) /\ Alone(n - 1)

\* Updates that can still go on are about the same path, which has no reader,
\* and nothing comes between them.
LiveInv ==
    \A i \in DOMAIN stack :
       /\ Live(i) =>
            /\ legs[stack[i].oldpath].in_use <= 1
            /\ \A j \in i+1..Len(stack)-1 : Live(j)
            /\ Live(Len(stack)) \/ Ending \/ Running("update_done")
            /\ \A j \in DOMAIN stack : Live(j) =>
                  stack[j].oldpath = stack[i].oldpath
            /\ path2 \in LegIds => path2 = stack[i].oldpath
            /\ path2 \notin LegIds => ~busy /\ ~Running("update_done")
       /\ async /\ First(i) =>
            /\ \A j \in i+1..Len(stack) :
                  Update(j) => stack[j].oldpath = NoLeg \/ stack[j].new_graph
            /\ Running("update_done") => path2 = NoLeg \/ link_path
            /\ busy /\ Ending => path2 = NoLeg
NoSelf == \A l \in LegIds : legs[l].next # l

JobInv ==
    /\ JobTypes /\ StackInv /\ BusyInv /\ LostInv /\ LinkInv /\ LiveInv
    /\ NoSelf

-----------------------------------------------------------------------------
(* Stacks *)

LEMMA PopIs ==
    ASSUME NEW s \in Seq(Frames), s # <<>>
    PROVE  /\ Len(s) \in Nat /\ Len(s) >= 1
           /\ Last(s) = s[Len(s)] /\ s[Len(s)] \in Frames
           /\ Front(s) \in Seq(Frames)
           /\ Len(Front(s)) = Len(s) - 1
           /\ \A i \in 1..Len(s)-1 : Front(s)[i] = s[i]
<1>1. Len(s) \in Nat /\ Len(s) >= 1
  OBVIOUS
<1>2. s[Len(s)] \in Frames
  BY <1>1
<1>3. Front(s) = SubSeq(s, 1, Len(s) - 1)
  BY DEF Front
<1>4. /\ Front(s) \in Seq(Frames)
      /\ Len(Front(s)) = Len(s) - 1
      /\ \A i \in 1..Len(s)-1 : Front(s)[i] = s[i]
  <2> DEFINE m == Len(s) - 1
  <2>1. m \in Nat /\ m <= Len(s)
    BY <1>1
  <2> HIDE DEF m
  <2>2. /\ SubSeq(s, 1, m) \in Seq(Frames)
        /\ Len(SubSeq(s, 1, m)) = m
        /\ \A i \in 1..m : SubSeq(s, 1, m)[i] = s[i]
    BY <2>1
  <2> QED BY <1>3, <2>2 DEF m
<1> QED BY <1>1, <1>2, <1>4 DEF Last

LEMMA PushIs ==
    ASSUME NEW s \in Seq(Frames), NEW f \in Frames
    PROVE  /\ Append(s, f) \in Seq(Frames) /\ Append(s, f) # <<>>
           /\ Len(s) \in Nat
           /\ Len(Append(s, f)) = Len(s) + 1
           /\ \A i \in 1..Len(s) : Append(s, f)[i] = s[i]
           /\ Append(s, f)[Len(s) + 1] = f
           /\ Last(Append(s, f)) = f
           /\ Front(Append(s, f)) = s
<1>1. /\ Append(s, f) \in Seq(Frames) /\ Append(s, f) # <<>>
      /\ Len(s) \in Nat
      /\ Len(Append(s, f)) = Len(s) + 1
      /\ \A i \in 1..Len(s) : Append(s, f)[i] = s[i]
      /\ Append(s, f)[Len(s) + 1] = f
  OBVIOUS
<1>2. Last(Append(s, f)) = f
  BY <1>1 DEF Last
<1>3. Front(Append(s, f)) = s
  BY <1>1 DEF Front
<1> QED BY <1>1, <1>2, <1>3

\* The calls are what they are called.
LEMMA FramesAre ==
    /\ \A status \in RouteStatus :
          [call |-> "navigation_update", status |-> status] \in Frames
    /\ \A name \in {"navigation_open", "navigation_read"}
                    \cup (Outermost \ {"update_flags"}) :
          [call |-> name] \in Frames
    /\ \A b \in BOOLEAN : UpdateDoneCall(b) \in Frames
    /\ \A b \in BOOLEAN, p \in Pointers :
          [call |-> "path_new", new_graph |-> b, oldpath |-> p] \in Frames
    /\ \A b \in BOOLEAN : [call |-> "update_flags", rebuild |-> b] \in Frames
BY DEF Frames, Calls, UpdateDoneCall, Outermost

\* The status is set, and called back when it is another.
LEMMA SetIs ==
    ASSUME NEW status, NEW s, Set(status, s)
    PROVE  /\ route_status' = status
           /\ \/ status = route_status /\ stack' = s
              \/ /\ status # route_status
                 /\ stack' = Append(s, [call |-> "navigation_update",
                                        status |-> status])
BY DEF Set

-----------------------------------------------------------------------------
(* Legs *)

LEMMA FollowingHolds ==
    ASSUME NEW S
    PROVE  /\ S \cap LegIds \subseteq Following(S)
           /\ \A l \in Following(S) : legs[l].next \in LegIds =>
                                          legs[l].next \in Following(S)
<1>1. \A l : l \in Following(S) <=>
              l \in LegIds /\ \A T \in SUBSET LegIds : Encloses(T, S) => l \in T
  BY DEF Following
<1> QED BY <1>1 DEF Encloses

\* Legs have no more readers than before, but for K, and lead nowhere new.
Milder(ls, ms, K) ==
    /\ ms \in [LegIds -> Legs]
    /\ \A l \in LegIds :
          /\ ms[l].next \in {ls[l].next, NoLeg, FreedLeg}
          /\ l \notin K => ms[l].in_use <= ls[l].in_use

LEMMA FreeLegIs == FreeLeg \in Legs /\ FreeLeg.in_use = 0 /\ FreeLeg.next = NoLeg
BY DEF FreeLeg, Legs, Pointers

LEMMA ReleaseIs ==
    ASSUME NEW ls \in [LegIds -> Legs], NEW S
    PROVE  /\ Milder(ls, Release(ls, S), {})
           /\ \A l \in S \cap LegIds : ls[l].in_use <= 1 =>
                 /\ Release(ls, S)[l].in_use = 0
                 /\ \A k \in LegIds : Release(ls, S)[k].next # l
<1> DEFINE F == {l \in S \cap LegIds : ls[l].in_use <= 1}
           R == Release(ls, S)
<1>1. R = [l \in LegIds |->
             IF l \in F THEN FreeLeg
             ELSE [ls[l] EXCEPT !.in_use = IF l \in S THEN @ - 1 ELSE @,
                                !.next = IF @ \in F THEN FreedLeg ELSE @]]
  BY DEF Release
<1>2. ASSUME NEW l \in LegIds
      PROVE  /\ R[l] \in Legs
             /\ l \in F => R[l].in_use = 0 /\ R[l].next = NoLeg
             /\ l \notin F => /\ R[l].in_use <= ls[l].in_use
                             /\ R[l].next = IF ls[l].next \in F THEN FreedLeg
                                            ELSE ls[l].next
  <2> DEFINE u == IF l \in S THEN ls[l].in_use - 1 ELSE ls[l].in_use
             x == IF ls[l].next \in F THEN FreedLeg ELSE ls[l].next
  <2>1. ls[l] \in Legs /\ ls[l].in_use \in Nat
    BY DEF Legs
  <2>2. x \in Pointers
    BY <2>1 DEF Pointers, Legs
  <2>3. CASE l \in F
    <3>1. R[l] = FreeLeg
      BY <1>1, <2>3
    <3> QED BY <2>3, <3>1, FreeLegIs
  <2>4. CASE l \notin F
    <3>1. R[l] = [ls[l] EXCEPT !.in_use = u, !.next = x]
      BY <1>1, <2>1, <2>4 DEF Legs
    <3>2. u \in Nat /\ u <= ls[l].in_use
      BY <2>1, <2>4
    <3> HIDE DEF F, R, u, x
    <3>3. R[l] \in Legs /\ R[l].in_use = u /\ R[l].next = x
      BY <2>1, <2>2, <3>1, <3>2 DEF Legs
    <3> QED BY <2>4, <3>2, <3>3 DEF x
  <2> QED BY <2>3, <2>4
<1>3. R \in [LegIds -> Legs]
  <2>1. DOMAIN R = LegIds /\ R = [l \in LegIds |-> R[l]]
    BY <1>1
  <2> HIDE DEF R
  <2> QED BY <1>2, <2>1
<1>4. FreedLeg \notin LegIds /\ NoLeg \notin LegIds
  BY NavigationAssumption
<1>5. \A l \in F : l \in LegIds /\ ls[l].in_use <= 1
  OBVIOUS
<1>6. \A l \in S \cap LegIds : ls[l].in_use <= 1 => l \in F
  OBVIOUS
<1>7. \A l \in LegIds : ls[l].in_use \in Nat
  BY DEF Legs
<1> HIDE DEF F, R
<1>8. Milder(ls, R, {})
  BY <1>2, <1>3, <1>7 DEF Milder
<1> QED BY <1>2, <1>4, <1>5, <1>6, <1>8 DEF R

LEMMA HeldIs ==
    ASSUME legs \in [LegIds -> Legs], NEW leg
    PROVE  Milder(legs, Held(leg), {leg} \cap LegIds)
<1>1. CASE leg \notin LegIds
  BY <1>1 DEF Held, Milder, Legs
<1>2. CASE leg \in LegIds
  <2>1. legs[leg] \in Legs /\ legs[leg].in_use \in Nat
    BY <1>2 DEF Legs
  <2> DEFINE new == [legs[leg] EXCEPT !.in_use = legs[leg].in_use + 1]
  <2>2. Held(leg) = [legs EXCEPT ![leg] = new]
    BY <1>2 DEF Held
  <2>3. new \in Legs /\ new.next = legs[leg].next
    <3>1. legs[leg].in_use + 1 \in Nat
      BY <2>1
    <3> QED BY <2>1, <3>1 DEF Legs
  <2> HIDE DEF new
  <2>4. \A l \in LegIds : legs[l].in_use \in Nat
    BY DEF Legs
  <2> QED BY <1>2, <2>2, <2>3, <2>4 DEF Milder
<1> QED BY <1>1, <1>2

LEMMA MilderTwice ==
    ASSUME NEW ks, NEW ls \in [LegIds -> Legs], NEW ms, NEW K,
           ks \in [LegIds -> Legs], Milder(ks, ls, K), Milder(ls, ms, {})
    PROVE  Milder(ks, ms, K)
<1>1. \A l \in LegIds : ks[l].in_use \in Nat /\ ls[l].in_use \in Nat
                         /\ ms[l].in_use \in Nat
  BY DEF Milder, Legs
<1> QED BY <1>1 DEF Milder

LEMMA DestroyedIs ==
    ASSUME legs \in [LegIds -> Legs], NEW S
    PROVE  /\ Milder(legs, Destroyed(S), {})
           /\ \A l \in S \cap LegIds : legs[l].in_use <= 1 =>
                 /\ Destroyed(S)[l].in_use = 0
                 /\ \A k \in LegIds : Destroyed(S)[k].next # l
<1> DEFINE dead == [l \in LegIds |-> IF l \in S THEN [legs[l] EXCEPT !.live = FALSE]
                                     ELSE legs[l]]
<1>1. ASSUME NEW l \in LegIds
      PROVE  dead[l] \in Legs /\ dead[l].in_use = legs[l].in_use
             /\ dead[l].next = legs[l].next
  BY DEF Legs
<1>2. dead \in [LegIds -> Legs]
  BY <1>1
<1>3. Destroyed(S) = Release(dead, S)
  BY DEF Destroyed
<1>4. \A l \in LegIds : legs[l].in_use \in Nat
  BY DEF Legs
<1> HIDE DEF dead
<1>5. Milder(legs, dead, {})
  BY <1>1, <1>2, <1>4 DEF Milder
<1>6. Milder(dead, Release(dead, S), {})
      /\ \A l \in S \cap LegIds : dead[l].in_use <= 1 =>
                 /\ Release(dead, S)[l].in_use = 0
                 /\ \A k \in LegIds : Release(dead, S)[k].next # l
  BY <1>2, ReleaseIs
<1>7. Milder(legs, Release(dead, S), {})
  BY <1>2, <1>5, <1>6, MilderTwice
<1> QED BY <1>1, <1>3, <1>6, <1>7

\* rm_rect_destroy drops its leg, and perhaps makes the update left for it.
LEMMA CloseIs ==
    ASSUME JobTypes, NEW leg, NEW s \in Seq(Frames), CloseRect(leg, s)
    PROVE  /\ Milder(legs, legs', {})
           /\ stack' \in Seq(Frames)
           /\ \/ stack' = s
              \/ /\ leg \in LegIds
                 /\ \E b \in BOOLEAN : stack' = Append(s, UpdateDoneCall(b))
<1>1. Milder(legs, legs', {})
  BY ReleaseIs DEF CloseRect, JobTypes
<1>2. \/ stack' = s
      \/ /\ leg \in LegIds
         /\ stack' = Append(s, UpdateDoneCall(legs[leg].update_required = 2))
  BY DEF CloseRect
<1>3. (legs[leg].update_required = 2) \in BOOLEAN
  OBVIOUS
<1>4. \A b \in BOOLEAN : Append(s, UpdateDoneCall(b)) \in Seq(Frames)
  BY FramesAre, PushIs
<1> QED BY <1>1, <1>2, <1>3, <1>4

LEMMA SelfKept ==
    ASSUME JobTypes, NoSelf, NEW K, Milder(legs, legs', K)
    PROVE  NoSelf'
BY NavigationAssumption DEF NoSelf, Milder

\* What has been freed, and nothing leads to, remains so.
LEMMA GoneKept ==
    ASSUME JobTypes, NEW K, Milder(legs, legs', K), NEW o, o \notin K,
           path2' = path2 \/ path2' = NoLeg, Gone(o)
    PROVE  Gone(o)'
<1>1. CASE o = FreedLeg
  BY <1>1 DEF Gone
<1>2. CASE o # FreedLeg
  <2>1. o \in LegIds /\ legs[o].in_use = 0 /\ path2 # o
        /\ \A l \in LegIds : legs[l].next # o
    BY <1>2 DEF Gone
  <2>2. legs'[o].in_use = 0
    <3>1. legs'[o].in_use \in Nat /\ legs'[o].in_use <= 0
      BY <2>1 DEF Milder, Legs
    <3> QED BY <3>1
  <2>3. \A l \in LegIds : legs'[l].next # o
    BY <2>1, NavigationAssumption DEF Milder
  <2>4. path2' # o
    BY <2>1, NavigationAssumption
  <2> QED BY <2>1, <2>2, <2>3, <2>4 DEF Gone
<1> QED BY <1>1, <1>2

-----------------------------------------------------------------------------
(* The calls below the ones that change *)

Below(m) ==
    /\ stack' \in Seq(Frames)
    /\ m \in Nat /\ m <= Len(stack) /\ m <= Len(stack')
    /\ \A i \in 1..m : stack'[i] = stack[i]
    /\ graph' = graph /\ async' = async
    /\ \A i \in 1..m : Update(i) /\ Gone(stack[i].oldpath)
                         => Gone(stack[i].oldpath)'

LEMMA BelowIs ==
    ASSUME JobTypes, NEW m, Below(m), NEW i \in 1..m
    PROVE  /\ i \in DOMAIN stack /\ i \in DOMAIN stack'
           /\ Update(i)' <=> Update(i)
           /\ Update(i) /\ Lost(i) => Lost(i)'
           /\ Live(i)' => Live(i)
           /\ First(i)' => First(i)
           /\ Update(i) /\ Harmless(i) /\ route_status' = route_status
                 => Harmless(i)'
<1>1. i \in DOMAIN stack /\ i \in DOMAIN stack' /\ stack'[i] = stack[i]
  BY DEF Below, JobTypes
<1>2. Update(i)' <=> Update(i)
  BY <1>1 DEF Update
<1>3. Update(i) /\ Lost(i) => Lost(i)'
  BY <1>1 DEF Below, Lost
<1> QED BY <1>1, <1>2, <1>3 DEF Live, First, Harmless

\* Legs that only become milder
LEMMA MilderBelow ==
    ASSUME JobTypes, stack' \in Seq(Frames),
           NEW m \in Nat, m <= Len(stack), m <= Len(stack'),
           \A i \in 1..m : stack'[i] = stack[i],
           graph' = graph, async' = async,
           NEW K, Milder(legs, legs', K),
           \A i \in 1..m : Update(i) /\ Gone(stack[i].oldpath) => stack[i].oldpath \notin K,
           path2' = path2 \/ path2' = NoLeg
    PROVE  Below(m)
<1>1. ASSUME NEW i \in 1..m, Update(i), Gone(stack[i].oldpath)
      PROVE  Gone(stack[i].oldpath)'
  <2>1. PICK o : o = stack[i].oldpath
    OBVIOUS
  <2>2. Gone(o)'
    BY <1>1, <2>1, GoneKept
  <2> QED BY <1>1, <2>1, <2>2
<1> QED BY <1>1 DEF Below

\* The call on top
LEMMA TopIs ==
    ASSUME JobInv, stack # <<>>
    PROVE  /\ Len(stack) \in Nat /\ Len(stack) >= 1 /\ Len(stack) \in DOMAIN stack
           /\ DOMAIN stack = 1..Len(stack)
           /\ Last(stack) = stack[Len(stack)]
           /\ Caller \in Seq(Frames) /\ Len(Caller) = Len(stack) - 1
           /\ \A i \in 1..Len(stack)-1 :
                 Caller[i] = stack[i] /\ stack[i].call \notin OnTop
           /\ \A call : Running(call) <=> stack[Len(stack)].call = call
<1>1. stack \in Seq(Frames)
  BY DEF JobInv, JobTypes
<1>2. DOMAIN stack = 1..Len(stack)
  BY <1>1
<1>3. /\ Len(stack) \in Nat /\ Len(stack) >= 1
      /\ Last(stack) = stack[Len(stack)]
      /\ Caller \in Seq(Frames) /\ Len(Caller) = Len(stack) - 1
      /\ \A i \in 1..Len(stack)-1 : Caller[i] = stack[i]
  BY <1>1, PopIs DEF Caller
<1>4. \A i \in 1..Len(stack)-1 : i \in DOMAIN stack /\ i # Len(stack)
  <2>1. PICK n : n = Len(stack)
    OBVIOUS
  <2>2. n \in Nat
    BY <1>3, <2>1
  <2>3. \A i \in 1..n-1 : i \in 1..n /\ i # n
    BY <2>2
  <2> QED BY <1>2, <2>1, <2>3
<1>5. \A i \in 1..Len(stack)-1 : stack[i].call \notin OnTop
  BY <1>4 DEF JobInv, StackInv
<1>6. \A call : Running(call) <=> stack[Len(stack)].call = call
  BY <1>3 DEF Running
<1> QED BY <1>2, <1>3, <1>5, <1>6

\* A frame is as it was, or one that may be there.
LEMMA StackKept ==
    ASSUME JobInv, NEW m, Below(m), \A i \in 1..m : stack[i].call \notin OnTop,
           \A i \in m+1..Len(stack') :
              /\ stack'[i].call \notin Outermost
              /\ stack'[i].call \in OnTop => i = Len(stack')
              /\ stack'[i].call = "navigation_read" => ~async
              /\ stack'[i].call = "path_new" => stack'[i].oldpath \in Pointers
    PROVE  StackInv'
<1>1. stack \in Seq(Frames) /\ stack' \in Seq(Frames)
  BY DEF JobInv, JobTypes, Below
<1>2. DOMAIN stack = 1..Len(stack) /\ DOMAIN stack' = 1..Len(stack')
      /\ Len(stack) \in Nat /\ Len(stack') \in Nat
  BY <1>1
<1>3. m \in Nat /\ m <= Len(stack) /\ m <= Len(stack') /\ async' = async
      /\ \A i \in 1..m : stack'[i] = stack[i]
  BY DEF Below
<1>4. ASSUME NEW i \in 1..m
      PROVE  /\ stack'[i].call \in Outermost => i = 1
             /\ stack'[i].call \in OnTop => i = Len(stack')
             /\ stack'[i].call = "navigation_read" => ~async'
             /\ stack'[i].call = "path_new" => stack'[i].oldpath \in Pointers
  BY <1>2, <1>3 DEF JobInv, StackInv
<1>5. ASSUME NEW i \in DOMAIN stack'
      PROVE  i \in 1..m \/ i \in m+1..Len(stack')
  <2>1. m \in Nat /\ Len(stack') \in Nat /\ i \in 1..Len(stack')
    BY <1>2, <1>3
  <2> QED BY <2>1
<1> QED BY <1>3, <1>4, <1>5 DEF StackInv

-----------------------------------------------------------------------------
(* A call returns *)

LEMMA PopStack ==
    ASSUME JobInv, stack # <<>>, stack' = Caller, Below(Len(stack) - 1)
    PROVE  /\ StackInv' /\ ~Ending' /\ ~Opening'
           /\ ~Running("update_done")'
           /\ DOMAIN stack' = 1..Len(stack)-1
<1> PICK n : n = Len(stack)
  OBVIOUS
<1>1. /\ n \in Nat /\ n >= 1 /\ Len(Caller) = n - 1 /\ Caller \in Seq(Frames)
      /\ \A i \in 1..n-1 : Caller[i] = stack[i] /\ stack[i].call \notin OnTop
  BY TopIs
<1>2. \A i \in n-1+1..n-1 : FALSE
  BY <1>1
<1>3. StackInv'
  BY <1>1, <1>2, StackKept
<1>4. DOMAIN stack' = 1..n-1
  BY <1>1
<1>5. \A call \in OnTop : ~Running(call)'
  <2> SUFFICES ASSUME NEW call \in OnTop, stack' # <<>>, Last(stack').call = call
               PROVE  FALSE
    BY DEF Running
  <2>1. n - 1 >= 1
    BY <1>1
  <2>2. Last(stack') = stack[n - 1]
    BY <1>1, <2>1 DEF Last
  <2> QED BY <1>1, <2>1, <2>2
<1> QED BY <1>3, <1>4, <1>5 DEF Ending, Opening, OnTop

\* The updates that can still go on are as they should be when one returns.
LEMMA SameLive ==
    ASSUME JobInv, NEW m, Below(m), NEW i \in 1..m, NEW j \in 1..m,
           Live(i)', Live(j), stack[j].oldpath = stack[i].oldpath
    PROVE  Live(j)'
<1>1. stack'[i] = stack[i] /\ stack'[j] = stack[j] /\ (Update(j)' <=> Update(j))
  BY BelowIs DEF Below, JobInv
<1> QED BY <1>1 DEF Live, Lost

LEMMA BelowLive ==
    ASSUME JobInv, stack # <<>>, Below(Len(stack) - 1),
           NEW i \in 1..Len(stack)-1
    PROVE  /\ Live(i)' =>
                /\ \A j \in i+1..Len(stack)-1 : Live(j)'
                /\ \A j \in 1..Len(stack)-1 : Live(j)' =>
                      stack'[j].oldpath = stack'[i].oldpath
           /\ async /\ First(i)' =>
                \A j \in i+1..Len(stack)-1 :
                   Update(j)' => stack'[j].oldpath = NoLeg \/ stack'[j].new_graph
<1> PICK n : n = Len(stack)
  OBVIOUS
<1>1. n \in Nat /\ n >= 1 /\ DOMAIN stack = 1..n /\ JobTypes
  BY TopIs DEF JobInv
<1>3. \A j \in 1..n-1 :
         /\ stack'[j] = stack[j] /\ (Update(j)' <=> Update(j))
         /\ (Live(j)' => Live(j)) /\ (First(j)' => First(j))
         /\ j \in DOMAIN stack
  BY <1>1, BelowIs DEF Below
<1>4. ASSUME Live(i)'
      PROVE  /\ \A j \in i+1..n-1 : Live(j)'
             /\ \A j \in 1..n-1 : Live(j)' => stack'[j].oldpath = stack'[i].oldpath
  <2>1. /\ Live(i)
        /\ \A j \in i+1..n-1 : Live(j)
        /\ \A j \in 1..n : Live(j) => stack[j].oldpath = stack[i].oldpath
    BY <1>1, <1>3, <1>4 DEF LiveInv, JobInv
  <2>2. \A j \in i+1..n-1 : j \in 1..n-1
    BY <1>1
  <2>3. \A j \in 1..n-1 : j \in 1..n
    BY <1>1
  <2>4. ASSUME NEW j \in i+1..n-1 PROVE Live(j)'
    BY <1>4, <2>1, <2>2, <2>3, SameLive
  <2> QED BY <1>3, <2>1, <2>3, <2>4
<1>7. ASSUME async, First(i)', NEW j \in i+1..n-1, Update(j)'
      PROVE  stack'[j].oldpath = NoLeg \/ stack'[j].new_graph
  <2>1. j \in i+1..n /\ j \in 1..n-1
    BY <1>1
  <2>2. First(i) /\ Update(j)
    BY <1>3, <1>7, <2>1
  <2> QED BY <1>1, <1>3, <1>7, <2>1, <2>2 DEF LiveInv, JobInv
<1> QED BY <1>4, <1>7

LEMMA PopLive ==
    ASSUME JobInv, stack # <<>>, stack' = Caller, Below(Len(stack) - 1),
           ASSUME NEW i \in 1..Len(stack)-1, Live(i)', Live(i)
           PROVE  /\ legs'[stack[i].oldpath].in_use <= 1
                  /\ path2' \in LegIds => path2' = stack[i].oldpath
                  /\ path2' \notin LegIds => ~busy'
    PROVE  LiveInv'
<1> PICK n : n = Len(stack)
  OBVIOUS
<1>1. /\ n \in Nat /\ n >= 1 /\ DOMAIN stack' = 1..n-1
      /\ Len(stack') = n - 1 /\ JobTypes
      /\ async' = async
  BY TopIs, PopStack DEF Below, JobInv
<1>2. ~Ending' /\ ~Opening' /\ ~Running("update_done")'
  BY PopStack
<1> SUFFICES ASSUME NEW i \in 1..n-1
             PROVE  /\ Live(i)' =>
                         /\ legs'[stack'[i].oldpath].in_use <= 1
                         /\ \A j \in i+1..n-1-1 : Live(j)'
                         /\ Live(Len(stack))'
                         /\ \A j \in 1..n-1 : Live(j)' =>
                               stack'[j].oldpath = stack'[i].oldpath
                         /\ path2' \in LegIds => path2' = stack'[i].oldpath
                         /\ path2' \notin LegIds => ~busy'
                    /\ async' /\ First(i)' =>
                         \A j \in i+1..n-1 :
                            Update(j)' => stack'[j].oldpath = NoLeg \/ stack'[j].new_graph
  BY <1>1, <1>2, SMTT(20) DEF LiveInv
<1>3. stack'[i] = stack[i] /\ (Live(i)' => Live(i))
  BY <1>1, BelowIs DEF Below
<1>4. /\ Live(i)' =>
                /\ \A j \in i+1..n-1 : Live(j)'
                /\ \A j \in 1..n-1 : Live(j)' =>
                      stack'[j].oldpath = stack'[i].oldpath
      /\ async' /\ First(i)' =>
                \A j \in i+1..n-1 :
                   Update(j)' => stack'[j].oldpath = NoLeg \/ stack'[j].new_graph
  BY <1>1, BelowLive
<1>5. ASSUME Live(i)' PROVE Live(Len(stack))'
  <2>1. n - 1 = i \/ n - 1 \in i+1..n-1
    BY <1>1
  <2> QED BY <1>1, <1>4, <1>5, <2>1
<1>6. \A j \in i+1..n-1-1 : j \in i+1..n-1
  BY <1>1
<1> QED BY <1>1, <1>3, <1>4, <1>5, <1>6

\* The same when a call of another kind takes the place of the one on top.
LEMMA UpdatesBelow ==
    ASSUME JobInv, stack # <<>>, Below(Len(stack) - 1),
           \/ Len(stack') = Len(stack) - 1
           \/ /\ Len(stack') = Len(stack)
              /\ stack'[Len(stack)].call # "path_new",
           NEW i \in DOMAIN stack', Update(i)'
    PROVE  i \in 1..Len(stack)-1 /\ i \in DOMAIN stack /\ Update(i)
<1> PICK n : n = Len(stack)
  OBVIOUS
<1>1. n \in Nat /\ n >= 1 /\ stack' \in Seq(Frames) /\ JobTypes
  BY TopIs DEF Below, JobInv
<1>2. PICK k : k = Len(stack')
  OBVIOUS
<1>3. DOMAIN stack' = 1..k /\ (k = n - 1 \/ (k = n /\ stack'[n].call # "path_new"))
  BY <1>1, <1>2
<1>4. i \in 1..n-1 \/ (k = n /\ i = n)
  BY <1>1, <1>3
<1>5. i \in 1..n-1
  BY <1>3, <1>4 DEF Update
<1> QED BY <1>1, <1>5, BelowIs

LEMMA CallLive ==
    ASSUME JobInv, stack # <<>>, Below(Len(stack) - 1),
           Len(stack') = Len(stack), stack'[Len(stack)].call # "path_new",
           ASSUME NEW i \in 1..Len(stack)-1, Live(i)', Live(i)
           PROVE  /\ legs'[stack[i].oldpath].in_use <= 1
                  /\ Ending' \/ Running("update_done")'
                  /\ path2' \in LegIds => path2' = stack[i].oldpath
                  /\ path2' \notin LegIds => ~busy' /\ ~Running("update_done")',
           ASSUME NEW i \in 1..Len(stack)-1, async, First(i)', First(i)
           PROVE  /\ Running("update_done")' => path2' = NoLeg \/ link_path'
                  /\ busy' /\ Ending' => path2' = NoLeg
    PROVE  LiveInv'
<1> PICK n : n = Len(stack)
  OBVIOUS
<1>1. /\ n \in Nat /\ n >= 1 /\ JobTypes /\ Below(n - 1) /\ async' = async
      /\ stack' \in Seq(Frames)
  BY TopIs DEF Below, JobInv
<1>2. DOMAIN stack' = 1..n
  BY <1>1
<1>3. \A i \in 1..n : Update(i)' => i \in 1..n-1
  BY <1>2, UpdatesBelow
<1>4. \A i \in 1..n : Live(i)' \/ First(i)' => Update(i)'
  BY DEF Live, First
<1> SUFFICES ASSUME NEW i \in 1..n-1
             PROVE  /\ Live(i)' =>
                         /\ legs'[stack'[i].oldpath].in_use <= 1
                         /\ \A j \in i+1..n-1 : Live(j)'
                         /\ Ending' \/ Running("update_done")'
                         /\ \A j \in 1..n : Live(j)' =>
                               stack'[j].oldpath = stack'[i].oldpath
                         /\ path2' \in LegIds => path2' = stack'[i].oldpath
                         /\ path2' \notin LegIds => ~busy' /\ ~Running("update_done")'
                    /\ async' /\ First(i)' =>
                         /\ \A j \in i+1..n :
                               Update(j)' => stack'[j].oldpath = NoLeg \/ stack'[j].new_graph
                         /\ Running("update_done")' => path2' = NoLeg \/ link_path'
                         /\ busy' /\ Ending' => path2' = NoLeg
  BY <1>2, <1>3, <1>4 DEF LiveInv
<1>5. /\ stack'[i] = stack[i]
      /\ Live(i)' => Live(i)
      /\ async' /\ First(i)' => First(i)
  BY <1>1, BelowIs DEF Below
<1>6. /\ Live(i)' =>
           /\ \A j \in i+1..n-1 : Live(j)'
           /\ \A j \in 1..n-1 : Live(j)' =>
                 stack'[j].oldpath = stack'[i].oldpath
      /\ async' /\ First(i)' =>
           \A j \in i+1..n-1 :
              Update(j)' => stack'[j].oldpath = NoLeg \/ stack'[j].new_graph
  BY <1>1, BelowLive
<1>7. \A j \in i+1..n : j \in 1..n /\ (j \in 1..n-1 => j \in i+1..n-1)
  BY <1>1
<1> QED BY <1>1, <1>3, <1>4, <1>5, <1>6, <1>7

\* The job goes on as before when a call returns that did not touch it.
LEMMA PopBusy ==
    ASSUME JobInv, stack # <<>>, stack[Len(stack)].call # "navigation_read",
           ~Ending, ~Opening, stack' = Caller, Below(Len(stack) - 1),
           UNCHANGED jobVars, route_status' = route_status
    PROVE  BusyInv' /\ LostInv'
<1> PICK n : n = Len(stack)
  OBVIOUS
<1>2. /\ n \in Nat /\ n >= 1 /\ DOMAIN stack = 1..n
      /\ \A i \in 1..n-1 : Caller[i] = stack[i]
  BY TopIs
<1>3. JobTypes /\ BusyInv /\ LostInv /\ Below(n - 1)
  BY DEF JobInv
<1>7. /\ ~Ending' /\ ~Opening' /\ DOMAIN stack' = 1..n-1 /\ Len(stack') = n - 1
  BY PopStack, TopIs
<1>10. \A i \in DOMAIN stack' : Update(i)' => i \in 1..n-1 /\ Update(i)
  BY <1>7, UpdatesBelow
<1>11. BusyInv'
  <2>1. ASSUME busy, ~idle_ev
        PROVE  \E i \in DOMAIN stack' : stack'[i].call = "navigation_read"
    <3>1. PICK i \in 1..n : stack[i].call = "navigation_read"
      BY <1>2, <1>3, <2>1 DEF BusyInv
    <3>2. i \in 1..n-1
      BY <1>2, <3>1
    <3> QED BY <1>2, <1>7, <3>1, <3>2
  <2> QED BY <1>3, <1>7, <2>1 DEF BusyInv, jobVars
<1>12. LostInv'
  <2> SUFFICES ASSUME busy, NEW i \in DOMAIN stack', Update(i)'
               PROVE  \/ \E j \in i+1..n-1 : stack'[j].call = "navigation_read"
                      \/ Harmless(i)'
    BY <1>2, <1>7 DEF LostInv, jobVars
  <2>1. i \in 1..n-1 /\ i \in DOMAIN stack /\ Update(i)
    BY <1>10, <1>2 DEF Update
  <2>2. \/ \E j \in i+1..n : stack[j].call = "navigation_read"
        \/ Harmless(i)
    BY <1>3, <2>1 DEF LostInv
  <2>3. ASSUME NEW j \in i+1..n, stack[j].call = "navigation_read"
        PROVE  j \in i+1..n-1 /\ stack'[j].call = "navigation_read"
    <3>1. j \in 1..n-1 /\ j \in i+1..n-1
      BY <1>2, <2>3, <2>1
    <3> QED BY <1>2, <2>3, <3>1
  <2> QED BY <1>3, <2>1, <2>2, <2>3, BelowIs
<1> QED BY <1>11, <1>12

\* What is known of an update that still can go on.
LEMMA LiveBefore ==
    ASSUME JobInv, NEW m, Below(m), Milder(legs, legs', {}),
           NEW i \in 1..m, Live(i)'
    PROVE  /\ Live(i) /\ i \in DOMAIN stack /\ stack'[i] = stack[i]
           /\ stack[i].oldpath \in LegIds /\ ~Harmless(i)
           /\ legs[stack[i].oldpath].in_use <= 1
           /\ legs'[stack[i].oldpath].in_use <= 1
           /\ Live(Len(stack)) \/ Ending \/ Running("update_done")
           /\ path2 \in LegIds => path2 = stack[i].oldpath
           /\ path2 \notin LegIds => ~busy /\ ~Running("update_done")
<1>1. Live(i) /\ i \in DOMAIN stack /\ stack'[i] = stack[i] /\ JobTypes
  BY BelowIs DEF JobInv, Below
<1>2. /\ legs[stack[i].oldpath].in_use <= 1
      /\ Live(Len(stack)) \/ Ending \/ Running("update_done")
      /\ path2 \in LegIds => path2 = stack[i].oldpath
      /\ path2 \notin LegIds => ~busy /\ ~Running("update_done")
  BY <1>1 DEF LiveInv, JobInv
<1>3. stack[i].oldpath \in LegIds /\ ~Harmless(i)
  BY <1>1, NavigationAssumption DEF Live, Harmless
<1>4. legs'[stack[i].oldpath].in_use <= 1
  <2>1. PICK l \in LegIds : l = stack[i].oldpath
    BY <1>3
  <2>2. legs[l].in_use \in Nat /\ legs'[l].in_use \in Nat
        /\ legs'[l].in_use <= legs[l].in_use
    BY <1>1 DEF Milder, JobTypes, Legs
  <2> QED BY <1>2, <2>1, <2>2
<1> QED BY <1>1, <1>2, <1>3, <1>4

\* There is none below a call of another kind.
LEMMA NoneLive ==
    ASSUME JobInv, stack # <<>>, stack[Len(stack)].call # "path_new",
           ~Ending, ~Running("update_done"), NEW i \in DOMAIN stack
    PROVE  ~Live(i)
BY DEF JobInv, LiveInv, Live, Update

-----------------------------------------------------------------------------
(* navigation_update and navigation_update_idle *)

LEMMA NoMapRect ==
    ASSUME JobInv, ~busy
    PROVE  route_mr.leg = Closed /\ Closed \notin LegIds
BY NavigationAssumption DEF JobInv, BusyInv, NoRect

LEMMA NavigationUpdateStep ==
    ASSUME JobInv, NavigationUpdate
    PROVE  JobInv'
<1> PICK n : n = Len(stack)
  OBVIOUS
<1> DEFINE status == Last(stack).status
           open == [call |-> "navigation_open"]
<1>1. /\ stack # <<>> /\ stack[n].call = "navigation_update"
      /\ Running("navigation_update")
  BY TopIs DEF NavigationUpdate, Running
<1>2. /\ n \in Nat /\ n >= 1 /\ DOMAIN stack = 1..n
      /\ Caller \in Seq(Frames) /\ Len(Caller) = n - 1
      /\ \A i \in 1..n-1 : Caller[i] = stack[i] /\ stack[i].call \notin OnTop
  BY <1>1, TopIs
<1>3. JobTypes /\ StackInv /\ BusyInv /\ LostInv /\ LinkInv /\ LiveInv /\ NoSelf
  BY DEF JobInv
<1>4. /\ UNCHANGED <<destinations, current_dst, graph, path2, link_path, async,
                     route_status>>
  BY DEF NavigationUpdate
<1>5. open \in Frames
  BY FramesAre
<1>6. \/ /\ status \notin PathDone /\ busy /\ EndJob(Caller)
      \/ /\ status \notin PathDone /\ ~busy
         /\ stack' = Caller /\ UNCHANGED <<legs, jobVars>>
      \/ /\ status \in PathDone /\ ~busy
         /\ CloseRect(route_mr.leg, Append(Caller, open))
         /\ route_mr' = NoRect /\ UNCHANGED <<busy, idle_ev, idle_events>>
  BY <1>1, <1>3 DEF NavigationUpdate, EndsJob, BusyInv, Opening, Then
<1> HIDE DEF status, open
<1>7. /\ Milder(legs, legs', {})
      /\ \/ stack' = Caller /\ status \notin PathDone
         \/ /\ status \notin PathDone /\ busy
            /\ \E b \in BOOLEAN : stack' = Append(Caller, UpdateDoneCall(b))
         \/ status \in PathDone /\ stack' = Append(Caller, open)
      /\ busy' = FALSE /\ idle_ev' = FALSE /\ idle_events' = 0
      /\ route_mr' = NoRect
  <2>1. CASE status \notin PathDone /\ busy /\ EndJob(Caller)
    <3>1. Milder(legs, legs', {})
          /\ (stack' = Caller \/ \E b \in BOOLEAN : stack' = Append(Caller, UpdateDoneCall(b)))
      BY <1>2, <1>3, <2>1, CloseIs DEF EndJob
    <3> QED BY <1>3, <2>1, <3>1 DEF EndJob, BusyInv
  <2>2. CASE status \notin PathDone /\ ~busy /\ stack' = Caller
             /\ UNCHANGED <<legs, jobVars>>
    <3>1. Milder(legs, legs, {})
      BY <1>3 DEF Milder, JobTypes, Legs
    <3> QED BY <1>3, <2>2, <3>1 DEF BusyInv, jobVars, JobTypes
  <2>3. CASE /\ status \in PathDone /\ ~busy
             /\ CloseRect(route_mr.leg, Append(Caller, open))
             /\ route_mr' = NoRect /\ UNCHANGED <<busy, idle_ev, idle_events>>
    <3>1. Append(Caller, open) \in Seq(Frames)
      BY <1>2, <1>5, PushIs
    <3>2. Milder(legs, legs', {}) /\ stack' = Append(Caller, open)
      BY <1>3, <2>3, <3>1, CloseIs, NoMapRect
    <3> QED BY <1>3, <2>3, <3>2 DEF BusyInv, JobTypes
  <2> QED BY <1>6, <2>1, <2>2, <2>3
<1>8. /\ stack' \in Seq(Frames)
      /\ \A i \in 1..n-1 : stack'[i] = stack[i]
      /\ \/ Len(stack') = n - 1
         \/ /\ Len(stack') = n
            /\ \/ stack'[n].call = "update_done"
               \/ stack'[n].call = "navigation_open"
  <2>1. ASSUME NEW f \in Frames
        PROVE  /\ Append(Caller, f) \in Seq(Frames)
               /\ \A i \in 1..n-1 : Append(Caller, f)[i] = stack[i]
               /\ Len(Append(Caller, f)) = n
               /\ Append(Caller, f)[n] = f
    BY <1>2, PushIs
  <2>2. \/ stack' = Caller
        \/ \E f \in Frames :
              /\ f.call = "update_done" \/ f.call = "navigation_open"
              /\ stack' = Append(Caller, f)
    <3>1. ASSUME NEW b \in BOOLEAN, stack' = Append(Caller, UpdateDoneCall(b))
          PROVE  \E f \in Frames :
                    /\ f.call = "update_done" \/ f.call = "navigation_open"
                    /\ stack' = Append(Caller, f)
      <4>1. UpdateDoneCall(b) \in Frames /\ UpdateDoneCall(b).call = "update_done"
        BY FramesAre DEF UpdateDoneCall
      <4> QED BY <3>1, <4>1
    <3>2. open.call = "navigation_open"
      BY DEF open
    <3> QED BY <1>5, <1>7, <3>1, <3>2
  <2>3. CASE stack' = Caller
    BY <1>2, <2>3
  <2>4. ASSUME NEW f \in Frames, stack' = Append(Caller, f),
               f.call = "update_done" \/ f.call = "navigation_open"
        PROVE  /\ stack' \in Seq(Frames)
               /\ \A i \in 1..n-1 : stack'[i] = stack[i]
               /\ Len(stack') = n /\ stack'[n] = f
    BY <2>1, <2>4
  <2> QED BY <2>2, <2>3, <2>4
<1>9. Below(n - 1)
  BY <1>2, <1>3, <1>4, <1>7, <1>8, MilderBelow
<1>10. JobTypes'
  BY <1>3, <1>4, <1>7, <1>8 DEF JobTypes, Milder, Rects, NoRect
<1>11. StackInv'
  <2>1. \A i \in n-1+1..Len(stack') :
           /\ i = n /\ Len(stack') = n
           /\ stack'[i].call \in {"update_done", "navigation_open"}
    BY <1>2, <1>8
  <2> QED BY <1>2, <1>9, <2>1, StackKept DEF Outermost
<1>12. NoSelf'
  BY <1>3, <1>7, SelfKept
<1>13. BusyInv'
  <2>1. ASSUME status \notin PathDone PROVE ~Opening'
    <3>1. CASE stack' = Caller
      BY <1>1, <1>9, <3>1, PopStack
    <3>2. ASSUME NEW b \in BOOLEAN, stack' = Append(Caller, UpdateDoneCall(b))
          PROVE  ~Opening'
      <4>1. Last(stack') = UpdateDoneCall(b)
        BY <1>2, <3>2, FramesAre, PushIs
      <4> QED BY <4>1 DEF Opening, Running, UpdateDoneCall
    <3> QED BY <1>7, <2>1, <3>1, <3>2
  <2>2. status \in PathDone => route_status \in PathDone
    BY <1>1, <1>3 DEF BusyInv, Opening, status
  <2> QED BY <1>4, <1>7, <2>1, <2>2 DEF BusyInv
<1>14. \A i \in DOMAIN stack' : Update(i)' => i \in 1..n-1 /\ Update(i)
  <2>1. \/ Len(stack') = n - 1
        \/ Len(stack') = n /\ stack'[n].call # "path_new"
    BY <1>8
  <2> QED BY <1>1, <1>9, <2>1, UpdatesBelow
<1>15. LostInv'
  <2>1. ASSUME Opening', async', NEW i \in DOMAIN stack', Update(i)'
        PROVE  Harmless(i)'
    <3>1. i \in 1..n-1 /\ Update(i) /\ i \in DOMAIN stack
      BY <1>2, <1>14, <2>1 DEF Update
    <3>2. status \in PathDone
      <4>1. CASE stack' = Caller
        BY <1>1, <1>9, <2>1, <4>1, PopStack
      <4>2. ASSUME NEW b \in BOOLEAN, stack' = Append(Caller, UpdateDoneCall(b))
            PROVE  FALSE
        <5>1. Last(stack') = UpdateDoneCall(b)
          BY <1>2, <4>2, FramesAre, PushIs
        <5> QED BY <2>1, <5>1 DEF Opening, Running, UpdateDoneCall
      <4> QED BY <1>7, <4>1, <4>2
    <3>3. Opening /\ async
      BY <1>1, <1>4, <2>1, <3>2 DEF Opening, status
    <3>4. Harmless(i)
      BY <1>3, <3>1, <3>3 DEF LostInv
    <3> QED BY <1>3, <1>4, <1>9, <3>1, <3>4, BelowIs
  <2> QED BY <1>7, <2>1 DEF LostInv
<1>16. LinkInv'
  <2>1. route_status' \in PathDone /\ (\E i \in DOMAIN stack' : Update(i)')
           => current_dst' <= 1
    BY <1>3, <1>4, <1>14 DEF LinkInv, Update
  <2>2. ASSUME link_path'
        PROVE  /\ ~busy' /\ stack' # <<>> /\ path2' \in LegIds
               /\ Update(n - 1)' /\ stack'[n - 1].new_graph
               /\ stack'[n - 1].oldpath = path2'
               /\ \A i \in DOMAIN stack' : Live(i)' => i = n - 1
               /\ Len(stack') = n - 1
    <3>1. /\ link_path /\ ~busy /\ path2 \in LegIds
          /\ Ending /\ Update(n - 1) /\ stack[n - 1].new_graph
          /\ stack[n - 1].oldpath = path2
          /\ \A i \in DOMAIN stack : Live(i) => i = n - 1
      BY <1>1, <1>3, <1>4, <2>2 DEF LinkInv, Update, Running
    <3>2. stack' = Caller
      BY <1>7, <3>1 DEF Ending, status
    <3>3. n - 1 \in 1..n-1 /\ Len(stack') = n - 1
      BY <1>2, <3>1, <3>2 DEF Update
    <3>4. stack'[n - 1] = stack[n - 1] /\ Update(n - 1)'
      BY <1>3, <1>8, <1>9, <3>1, <3>3, BelowIs
    <3>5. ASSUME NEW i \in DOMAIN stack', Live(i)' PROVE i = n - 1
      <4>1. i \in 1..n-1 /\ i \in DOMAIN stack
        BY <1>2, <1>14, <3>5 DEF Live, Update
      <4>2. Live(i)
        BY <1>3, <1>9, <3>5, <4>1, BelowIs
      <4> QED BY <1>4, <3>1, <3>5, <4>1, <4>2
    <3> QED BY <1>4, <1>7, <3>1, <3>3, <3>4, <3>5 DEF Update
  <2> QED BY <2>1, <2>2 DEF LinkInv
<1>17. ASSUME NEW i \in 1..n-1, Live(i)'
       PROVE  /\ Live(i) /\ legs'[stack[i].oldpath].in_use <= 1
              /\ path2' \in LegIds => path2' = stack[i].oldpath
              /\ busy => path2 \in LegIds
  BY <1>4, <1>7, <1>9, <1>17, LiveBefore
<1>18. LiveInv'
  <2>1. CASE stack' = Caller
    BY <1>1, <1>4, <1>7, <1>9, <1>17, <2>1, PopLive
  <2>2. CASE stack' # Caller
    <3>1. Len(stack') = n /\ DOMAIN stack' = 1..n
      <4>1. \A f \in Frames : Len(Append(Caller, f)) = n
        BY <1>2, PushIs
      <4> QED BY <1>2, <1>5, <1>7, <1>8, <2>2, <4>1, FramesAre
    <3>2. ~Ending'
      BY <1>7, <1>8, <2>2, <3>1 DEF Ending, Running, Last
    <3>3. ASSUME NEW i \in 1..n-1, Live(i)'
          PROVE  /\ legs'[stack'[i].oldpath].in_use <= 1
                 /\ Running("update_done")'
                 /\ path2' \in LegIds /\ path2' = stack'[i].oldpath
      <4>1. status \notin PathDone
        <5>1. Live(i) /\ i \in DOMAIN stack
          BY <1>2, <1>17, <3>3
        <5>2. Ending
          BY <1>1, <5>1, NoneLive DEF Running
        <5> QED BY <1>1, <5>2 DEF Ending, status
      <4>2. PICK b \in BOOLEAN : stack' = Append(Caller, UpdateDoneCall(b))
        BY <1>7, <2>2, <4>1
      <4>3. Last(stack') = UpdateDoneCall(b) /\ stack' # <<>>
        BY <1>2, <4>2, FramesAre, PushIs
      <4>4. Running("update_done")' /\ busy
        BY <1>7, <2>2, <4>1, <4>3 DEF Running, UpdateDoneCall
      <4> QED BY <1>4, <1>8, <1>17, <3>3, <4>4
    <3>4. ASSUME async', NEW i \in 1..n-1, First(i)', Running("update_done")'
          PROVE  path2' = NoLeg
      <4>1. status \notin PathDone
        <5>1. ASSUME stack' = Append(Caller, open) PROVE FALSE
          <6>1. Last(stack') = open
            BY <1>2, <1>5, <5>1, PushIs
          <6> QED BY <3>4, <6>1 DEF Running, open
        <5> QED BY <1>7, <2>2, <5>1
      <4>2. busy /\ Ending
        BY <1>1, <1>7, <2>2, <4>1 DEF Ending, status
      <4>3. First(i) /\ i \in DOMAIN stack
        BY <1>3, <1>9, <3>4, BelowIs
      <4> QED BY <1>3, <1>4, <3>4, <4>2, <4>3 DEF LiveInv
    <3>5. stack'[n].call # "path_new"
      BY <1>2, <1>8, <3>1
    <3> QED BY <1>1, <1>4, <1>9, <1>17, <3>1, <3>2, <3>3, <3>4, <3>5, CallLive
  <2> QED BY <2>1, <2>2
<1> QED BY <1>10, <1>11, <1>12, <1>13, <1>15, <1>16, <1>18 DEF JobInv

-----------------------------------------------------------------------------
(* route_path_update_done *)

LEMMA CallIs ==
    ASSUME NEW f \in Frames
    PROVE  /\ f.call \in {"update_done", "path_new"} => f.new_graph \in BOOLEAN
           /\ f.call = "navigation_update" => f.status \in RouteStatus
BY DEF Frames, Calls

LEMMA SameLegs ==
    ASSUME JobTypes
    PROVE  Milder(legs, legs, {})
BY DEF Milder, JobTypes, Legs

\* The update is left to the reader that returns last.
LEMMA UpdateDeferredStep ==
    ASSUME JobInv, Running("update_done"), PathInUse,
           NEW mark \in 1..2, legs' = [legs EXCEPT ![path2].update_required = mark],
           stack' = Caller,
           UNCHANGED <<destinations, current_dst, graph, path2, link_path, async,
                       jobVars, route_status>>
    PROVE  JobInv'
<1> PICK n : n = Len(stack)
  OBVIOUS
<1>1. stack # <<>> /\ stack[n].call = "update_done"
  BY TopIs DEF Running
<1>2. /\ n \in Nat /\ n >= 1 /\ DOMAIN stack = 1..n
      /\ Caller \in Seq(Frames) /\ Len(Caller) = n - 1
      /\ \A i \in 1..n-1 : Caller[i] = stack[i] /\ stack[i].call \notin OnTop
  BY <1>1, TopIs
<1>3. JobTypes /\ StackInv /\ BusyInv /\ LostInv /\ LinkInv /\ LiveInv /\ NoSelf
  BY DEF JobInv
<1>4. path2 \in LegIds /\ legs[path2].in_use > 1 /\ legs[path2].in_use \in Nat
  BY <1>3 DEF PathInUse, JobTypes, Legs
<1>5. Milder(legs, legs', {})
  <2>1. [legs[path2] EXCEPT !.update_required = mark] \in Legs
    BY <1>3, <1>4 DEF JobTypes, Legs
  <2>2. \A l \in LegIds : legs'[l].next = legs[l].next /\ legs'[l].in_use = legs[l].in_use
    BY <1>3, <1>4 DEF JobTypes, Legs
  <2>3. \A l \in LegIds : legs[l].in_use \in Nat
    BY <1>3 DEF JobTypes, Legs
  <2>4. legs' \in [LegIds -> Legs]
    BY <1>3, <1>4, <2>1 DEF JobTypes
  <2> QED BY <2>2, <2>3, <2>4 DEF Milder
<1> /\ graph' = graph /\ path2' = path2 /\ async' = async
    /\ link_path' = link_path /\ route_status' = route_status
  OBVIOUS
<1>6. Below(n - 1)
  <2>1. /\ n - 1 \in Nat /\ n - 1 <= Len(stack) /\ n - 1 <= Len(stack')
        /\ \A i \in 1..n-1 : stack'[i] = stack[i]
        /\ stack' \in Seq(Frames)
    BY <1>2
  <2> QED BY <1>3, <1>5, <2>1, MilderBelow
<1>7. /\ StackInv' /\ ~Ending' /\ ~Opening' /\ DOMAIN stack' = 1..n-1
      /\ ~Running("update_done")'
  BY <1>1, <1>6, PopStack
<1>8. ~Ending /\ ~Opening
  BY <1>1, TopIs DEF Ending, Opening
<1>9. JobTypes'
  BY <1>2, <1>3, <1>5 DEF JobTypes, Milder, jobVars
<1>10. \A i \in DOMAIN stack' : Update(i)' => i \in 1..n-1 /\ Update(i)
  BY <1>1, <1>2, <1>6, UpdatesBelow
<1>11. BusyInv' /\ LostInv'
  BY <1>1, <1>6, <1>8, PopBusy
<1>13. LinkInv'
  <2>1. ~link_path
    BY <1>1, <1>3, <1>4, <1>8 DEF LinkInv, Update
  <2> QED BY <1>3, <1>10, <2>1 DEF LinkInv, Update
<1>14. LiveInv'
  <2>1. ASSUME NEW i \in 1..n-1, Live(i)' PROVE FALSE
    <3>1. /\ legs[stack[i].oldpath].in_use <= 1
          /\ path2 \in LegIds => path2 = stack[i].oldpath
      BY <1>5, <1>6, <2>1, LiveBefore
    <3>2. legs[path2].in_use <= 1
      BY <1>4, <3>1
    <3> QED BY <1>4, <3>2
  <2> QED BY <1>1, <1>6, <2>1, PopLive
<1> QED BY <1>3, <1>5, <1>7, <1>9, <1>11, <1>13, <1>14, SelfKept DEF JobInv

\* The status is building_path, and its callbacks come before the rest.
LEMMA UpdateBuildingStep ==
    ASSUME JobInv, Running("update_done"), ~PathInUse,
           Set("building_path",
               Append(Caller, [call |-> "path_new",
                               new_graph |-> Last(stack).new_graph,
                               oldpath |-> path2])),
           UNCHANGED <<destinations, current_dst, graph, legs, path2, link_path,
                       async, jobVars>>
    PROVE  JobInv'
<1> PICK n : n = Len(stack)
  OBVIOUS
<1> DEFINE new == [call |-> "path_new", new_graph |-> Last(stack).new_graph,
                   oldpath |-> path2]
           called == [call |-> "navigation_update", status |-> "building_path"]
<1>1. stack # <<>> /\ stack[n].call = "update_done" /\ Last(stack) = stack[n]
  BY TopIs DEF Running
<1>2. /\ n \in Nat /\ n >= 1 /\ DOMAIN stack = 1..n /\ stack[n] \in Frames
      /\ Caller \in Seq(Frames) /\ Len(Caller) = n - 1
      /\ \A i \in 1..n-1 : Caller[i] = stack[i] /\ stack[i].call \notin OnTop
  BY <1>1, TopIs, PopIs DEF JobInv, JobTypes
<1>3. JobTypes /\ StackInv /\ BusyInv /\ LostInv /\ LinkInv /\ LiveInv /\ NoSelf
  BY DEF JobInv
<1> /\ graph' = graph /\ legs' = legs /\ path2' = path2 /\ async' = async
    /\ link_path' = link_path /\ busy' = busy
  BY DEF jobVars
<1>4. /\ new \in Frames /\ called \in Frames
      /\ new.call = "path_new" /\ new.oldpath = path2 /\ path2 \in Pointers
      /\ new.new_graph = stack[n].new_graph
      /\ called.call = "navigation_update" /\ called.status = "building_path"
  <2>1. stack[n].new_graph \in BOOLEAN
    BY <1>1, <1>2, CallIs
  <2> QED BY <1>1, <1>3, <2>1, FramesAre DEF JobTypes, RouteStatus
<1>5. /\ route_status' = "building_path"
      /\ \/ route_status = "building_path" /\ stack' = Append(Caller, new)
         \/ /\ route_status # "building_path"
            /\ stack' = Append(Append(Caller, new), called)
  BY SetIs
<1> HIDE DEF new, called
<1>6. /\ stack' \in Seq(Frames) /\ stack' # <<>>
      /\ \A i \in 1..n-1 : stack'[i] = stack[i]
      /\ stack'[n] = new
      /\ \/ route_status = "building_path" /\ Len(stack') = n /\ Last(stack') = new
         \/ /\ route_status # "building_path" /\ Len(stack') = n + 1
            /\ stack'[n + 1] = called /\ Last(stack') = called
  <2>1. /\ Append(Caller, new) \in Seq(Frames) /\ Append(Caller, new) # <<>>
        /\ Len(Append(Caller, new)) = n
        /\ \A i \in 1..n-1 : Append(Caller, new)[i] = stack[i]
        /\ Append(Caller, new)[n] = new /\ Last(Append(Caller, new)) = new
    BY <1>2, <1>4, PushIs
  <2> PICK s \in Seq(Frames) : s = Append(Caller, new)
    BY <2>1
  <2>2. /\ Append(s, called) \in Seq(Frames) /\ Append(s, called) # <<>>
        /\ Len(Append(s, called)) = n + 1
        /\ \A i \in 1..n : Append(s, called)[i] = s[i]
        /\ Append(s, called)[n + 1] = called /\ Last(Append(s, called)) = called
    <3>1. Len(s) = n
      BY <2>1
    <3> PICK f \in Frames : f = called
      BY <1>4
    <3>2. /\ Append(s, f) \in Seq(Frames) /\ Append(s, f) # <<>>
          /\ Len(Append(s, f)) = Len(s) + 1
          /\ \A i \in 1..Len(s) : Append(s, f)[i] = s[i]
          /\ Append(s, f)[Len(s) + 1] = f /\ Last(Append(s, f)) = f
      BY PushIs
    <3> QED BY <3>1, <3>2
  <2>3. n \in 1..n /\ \A i \in 1..n-1 : i \in 1..n
    BY <1>2
  <2> QED BY <1>5, <2>1, <2>2, <2>3
<1>7. Milder(legs, legs', {})
  BY <1>3, SameLegs
<1>8. Below(n - 1)
  <2>1. /\ n - 1 \in Nat /\ n - 1 <= Len(stack) /\ n - 1 <= Len(stack')
    BY <1>2, <1>6
  <2> QED BY <1>3, <1>6, <1>7, <2>1, MilderBelow
<1>9. JobTypes'
  BY <1>3, <1>6 DEF JobTypes, jobVars
<1>10. StackInv'
  <2>1. ASSUME NEW i \in n-1+1..Len(stack')
        PROVE  \/ i = n /\ stack'[i] = new
               \/ i = n + 1 /\ i = Len(stack') /\ stack'[i] = called
    BY <1>2, <1>6
  <2> QED BY <1>2, <1>4, <1>8, <2>1, StackKept DEF OnTop, Outermost
<1>11. /\ ~Opening' /\ ~Running("update_done")'
       /\ (Ending' <=> Len(stack') = n + 1)
  BY <1>2, <1>4, <1>6 DEF Ending, Opening, Running, PathDone
<1>12. ~Ending /\ ~Opening
  BY <1>1, TopIs DEF Ending, Opening
<1>13. busy => Ending'
  BY <1>3, <1>6, <1>11, <1>12 DEF BusyInv, PathDone
<1>14. BusyInv' /\ LostInv'
  <2>1. ASSUME busy, ~idle_ev
        PROVE  \E i \in DOMAIN stack' : stack'[i].call = "navigation_read"
    <3>1. PICK i \in 1..n : stack[i].call = "navigation_read"
      BY <1>2, <1>3, <2>1 DEF BusyInv
    <3>2. i \in 1..n-1 /\ i \in DOMAIN stack'
      BY <1>1, <1>2, <1>6, <3>1
    <3> QED BY <1>6, <3>1, <3>2
  <2> QED BY <1>3, <1>11, <1>13, <2>1 DEF BusyInv, LostInv, jobVars
<1>15. DOMAIN stack' = 1..n \/ DOMAIN stack' = 1..n+1
  BY <1>2, <1>6
<1>16. \A i \in DOMAIN stack' : Update(i)' => i \in 1..n-1 \/ i = n
  BY <1>2, <1>4, <1>6, <1>15 DEF Update
<1>17. Update(n)'
  BY <1>2, <1>4, <1>6, <1>15 DEF Update
<1>18. link_path => /\ ~busy /\ path2 \in LegIds /\ stack[n].new_graph
                    /\ \A i \in DOMAIN stack : ~Live(i)
  BY <1>1, <1>2, <1>3, <1>12 DEF LinkInv, Update
<1>19. ASSUME NEW i \in 1..n-1
       PROVE  /\ i \in DOMAIN stack /\ stack'[i] = stack[i]
              /\ Live(i)' => Live(i)
              /\ First(i)' => First(i)
  BY <1>3, <1>6, <1>8, BelowIs
<1>20. \A i \in DOMAIN stack' : Live(i)' \/ First(i)' => i \in 1..n-1 \/ i = n
  BY <1>16 DEF Live, First
<1>21. LinkInv'
  <2>1. ASSUME link_path, NEW i \in DOMAIN stack', Live(i)' PROVE i = n
    BY <1>18, <1>19, <1>20, <2>1
  <2>2. (n + 1) - 1 = n
    BY <1>2
  <2>3. route_status' \notin PathDone
    BY <1>5 DEF PathDone
  <2>4. link_path => /\ Update(n)' /\ stack'[n].new_graph
                     /\ stack'[n].oldpath = path2'
    BY <1>4, <1>6, <1>17, <1>18
  <2>5. Len(stack') = n \/ (Len(stack') = n + 1 /\ Ending')
    BY <1>6, <1>11
  <2> QED BY <1>6, <1>18, <2>1, <2>2, <2>3, <2>4, <2>5 DEF LinkInv
<1>22. ASSUME NEW i \in 1..n-1, Live(i)'
       PROVE  /\ legs[stack[i].oldpath].in_use <= 1
              /\ path2 \in LegIds /\ path2 = stack[i].oldpath
              /\ Live(n)'
  <2>1. /\ legs[stack[i].oldpath].in_use <= 1
        /\ path2 \in LegIds /\ path2 = stack[i].oldpath
    BY <1>7, <1>8, <1>22, LiveBefore
  <2>2. Live(n)'
    BY <1>4, <1>6, <1>17, <1>19, <1>22, <2>1 DEF Live, Lost
  <2> QED BY <2>1, <2>2
<1>23. ASSUME NEW i \in 1..n-1
       PROVE  /\ Live(i)' =>
                   /\ \A j \in i+1..n : Live(j)'
                   /\ \A j \in 1..n : Live(j)' => stack'[j].oldpath = path2
              /\ async /\ First(i)' =>
                   /\ \A j \in i+1..n :
                         Update(j)' => stack'[j].oldpath = NoLeg \/ stack'[j].new_graph
                   /\ busy => path2 = NoLeg
  <2>1. \A j \in i+1..n : j \in i+1..n-1 \/ j = n
    BY <1>2
  <2>2. \A j \in 1..n : j \in 1..n-1 \/ j = n
    BY <1>2
  <2>3. async /\ First(i)' => path2 = NoLeg \/ link_path
    BY <1>3, <1>19, <1>23 DEF LiveInv
  <2>4. /\ Live(i)' =>
             /\ \A j \in i+1..n-1 : Live(j)'
             /\ \A j \in 1..n-1 : Live(j)' =>
                   stack'[j].oldpath = stack'[i].oldpath
        /\ async /\ First(i)' =>
             \A j \in i+1..n-1 :
                Update(j)' => stack'[j].oldpath = NoLeg \/ stack'[j].new_graph
    BY <1>1, <1>8, <1>23, BelowLive
  <2>5. ASSUME Live(i)'
        PROVE  /\ \A j \in i+1..n : Live(j)'
               /\ \A j \in 1..n : Live(j)' => stack'[j].oldpath = path2
    <3>1. Live(n)' /\ path2 = stack[i].oldpath
      BY <1>22, <1>23, <2>5
    <3>2. stack'[i].oldpath = path2 /\ stack'[n].oldpath = path2
      BY <1>4, <1>6, <3>1
    <3> QED BY <2>1, <2>2, <2>4, <2>5, <3>1, <3>2
  <2>6. ASSUME async, First(i)'
        PROVE  /\ \A j \in i+1..n :
                     Update(j)' => stack'[j].oldpath = NoLeg \/ stack'[j].new_graph
               /\ busy => path2 = NoLeg
    <3>1. path2 = NoLeg \/ link_path
      BY <2>3, <2>6
    <3>2. stack'[n].oldpath = NoLeg \/ stack'[n].new_graph
      BY <1>4, <1>6, <1>18, <3>1
    <3> QED BY <1>18, <2>1, <2>4, <2>6, <3>1, <3>2
  <2> QED BY <2>5, <2>6
<1>24. ASSUME Live(n)'
       PROVE  /\ path2 \in LegIds /\ legs[path2].in_use <= 1
              /\ \A j \in 1..n : Live(j)' => stack'[j].oldpath = path2
  <2>1. path2 \in LegIds /\ legs[path2].in_use <= 1
    <3>1. path2 \in LegIds
      BY <1>4, <1>6, <1>24 DEF Live
    <3>2. legs[path2].in_use \in Nat
      BY <1>3, <3>1 DEF JobTypes, Legs
    <3> QED BY <3>1, <3>2 DEF PathInUse
  <2>2. \A j \in 1..n : j \in 1..n-1 \/ j = n
    BY <1>2
  <2> QED BY <1>4, <1>6, <1>19, <1>22, <1>24, <2>1, <2>2
<1>25. ASSUME First(n)' PROVE path2 = NoLeg
  BY <1>4, <1>6, <1>25 DEF First
<1>26. LiveInv'
  <2> PICK k : k = Len(stack')
    OBVIOUS
  <2>1. /\ k = n \/ k = n + 1
        /\ DOMAIN stack' = 1..k
        /\ Live(n)' => Live(k)' \/ Ending'
    BY <1>2, <1>6, <1>11
  <2>2. \A i, j \in 1..k : j \in i+1..k-1 => j \in i+1..n
    BY <1>2, <2>1
  <2>3. \A i, j \in 1..k : j \in i+1..k /\ (j \in 1..n-1 \/ j = n) => j \in i+1..n
    BY <1>2, <2>1
  <2>4. \A i \in 1..k : Live(i)' \/ First(i)' \/ Update(i)' => i \in 1..n-1 \/ i = n
    BY <1>16, <1>20, <2>1
  <2> SUFFICES ASSUME NEW i \in 1..k
               PROVE  /\ Live(i)' =>
                           /\ legs[stack'[i].oldpath].in_use <= 1
                           /\ \A j \in i+1..k-1 : Live(j)'
                           /\ Live(k)' \/ Ending'
                           /\ \A j \in 1..k : Live(j)' =>
                                 stack'[j].oldpath = stack'[i].oldpath
                           /\ path2 \in LegIds /\ path2 = stack'[i].oldpath
                      /\ async /\ First(i)' =>
                           /\ \A j \in i+1..k :
                                 Update(j)' => stack'[j].oldpath = NoLeg \/ stack'[j].new_graph
                           /\ busy => path2 = NoLeg
    BY <1>11, <2>1 DEF LiveInv
  <2>5. CASE i \in 1..n-1
    <3>1. stack'[i] = stack[i] /\ n \in 1..k
      BY <1>2, <1>19, <2>1, <2>5
    <3>2. ASSUME Live(i)'
          PROVE  /\ legs[stack'[i].oldpath].in_use <= 1
                 /\ Live(n)' /\ path2 \in LegIds /\ path2 = stack'[i].oldpath
      BY <1>22, <2>5, <3>1, <3>2
    <3>3. \A j \in 1..k : Live(j)' => j \in 1..n
      BY <1>2, <2>4
    <3>4. \A j \in i+1..k : Update(j)' => j \in i+1..n
      <4>1. \A j \in i+1..k : j \in 1..k
        BY <1>2, <2>1
      <4> QED BY <2>3, <2>4, <4>1
    <3>5. \A j \in i+1..k-1 : j \in i+1..n
      <4>1. \A j \in i+1..k-1 : j \in 1..k
        BY <1>2, <2>1
      <4> QED BY <2>2, <4>1
    <3> QED BY <1>23, <2>1, <2>5, <3>2, <3>3, <3>4, <3>5
  <2>6. CASE i = n
    <3>1. \A j \in n+1..k-1 : FALSE
      BY <1>2, <2>1
    <3>2. \A j \in n+1..k : ~Update(j)'
      <4>1. \A j \in n+1..k : j \in 1..k /\ j \notin 1..n-1 /\ j # n
        BY <1>2, <2>1
      <4> QED BY <2>4, <4>1
    <3>3. \A j \in 1..k : Live(j)' => j \in 1..n
      BY <1>2, <2>4
    <3> QED BY <1>4, <1>6, <1>24, <1>25, <2>1, <2>6, <3>1, <3>2, <3>3
  <2> QED BY <2>4, <2>5, <2>6
<1> QED BY <1>3, <1>7, <1>9, <1>10, <1>14, <1>21, <1>26, SelfKept DEF JobInv

LEMMA UpdateDoneStep ==
    ASSUME JobInv, UpdateDone
    PROVE  JobInv'
<1>1. CASE PathInUse
  <2>1. \E mark \in 1..2 :
           /\ legs' = [legs EXCEPT ![path2].update_required = mark]
           /\ stack' = Caller /\ UNCHANGED route_status
    <3>1. (IF Last(stack).new_graph THEN 2 ELSE 1) \in 1..2
      OBVIOUS
    <3> QED BY <1>1, <3>1 DEF UpdateDone
  <2> QED BY <1>1, <2>1, UpdateDeferredStep DEF UpdateDone
<1>2. CASE ~PathInUse
  BY <1>2, UpdateBuildingStep DEF UpdateDone
<1> QED BY <1>1, <1>2

\* The update on top can go on: a job that runs is one it does not disturb.
LEMMA TopUpdate ==
    ASSUME JobInv, Running("path_new"), UpdateDefined
    PROVE  /\ stack # <<>> /\ Update(Len(stack)) /\ ~Lost(Len(stack))
           /\ ~Ending /\ ~Opening /\ ~Running("update_done")
           /\ Last(stack) = stack[Len(stack)]
           /\ stack[Len(stack)].oldpath \in LegIds \cup {NoLeg}
           /\ stack[Len(stack)].oldpath \in LegIds =>
                 legs[stack[Len(stack)].oldpath].in_use > 0
           /\ busy => /\ stack[Len(stack)].oldpath = NoLeg
                      /\ route_status = "path_done_new" /\ current_dst <= 1
           /\ link_path => /\ stack[Len(stack)].oldpath = path2 /\ path2 \in LegIds
                           /\ ~busy
                           /\ \A i \in DOMAIN stack : Live(i) => i = Len(stack)
<1> PICK n : n = Len(stack)
  OBVIOUS
<1>1. /\ stack # <<>> /\ stack[n].call = "path_new" /\ Last(stack) = stack[n]
      /\ n \in Nat /\ n >= 1 /\ DOMAIN stack = 1..n /\ n \in DOMAIN stack
      /\ \A call : Running(call) <=> stack[n].call = call
  BY TopIs DEF Running
<1>2. JobTypes /\ BusyInv /\ LostInv /\ LinkInv
  BY DEF JobInv
<1>3. ~Ending /\ ~Opening /\ ~Running("update_done") /\ Update(n)
  BY <1>1 DEF Ending, Opening, Update
<1>4. /\ graph # "none"
      /\ stack[n].oldpath \in LegIds \cup {NoLeg}
      /\ stack[n].oldpath \in LegIds => legs[stack[n].oldpath].in_use > 0
  BY <1>1, NavigationAssumption DEF UpdateDefined
<1>5. ~Lost(n)
  <2>1. stack[n].oldpath \in LegIds => legs[stack[n].oldpath].in_use # 0
    BY <1>4
  <2>2. stack[n].oldpath # FreedLeg
    BY <1>4, NavigationAssumption
  <2> QED BY <1>4, <2>1, <2>2 DEF Lost, Gone
<1>6. ASSUME busy
      PROVE  stack[n].oldpath = NoLeg /\ route_status = "path_done_new" /\ current_dst <= 1
  <2>1. \A j \in n+1..n : FALSE
    BY <1>1
  <2>2. Harmless(n)
    BY <1>1, <1>2, <1>3, <1>6, <2>1 DEF LostInv
  <2>3. stack[n].oldpath = NoLeg /\ route_status = "path_done_new"
    BY <1>5, <2>2 DEF Harmless
  <2>4. current_dst <= 1
    BY <1>1, <1>2, <1>3, <2>3 DEF LinkInv, PathDone
  <2> QED BY <2>3, <2>4
<1>7. ASSUME link_path
      PROVE  /\ stack[n].oldpath = path2 /\ path2 \in LegIds /\ ~busy
             /\ \A i \in DOMAIN stack : Live(i) => i = n
  BY <1>1, <1>2, <1>3, <1>7 DEF LinkInv
<1> QED BY <1>1, <1>3, <1>4, <1>5, <1>6, <1>7

\* Without a path the updates below stay as they are.
LEMMA PathNotFoundStep ==
    ASSUME JobInv, PathNotFound
    PROVE  JobInv'
<1> PICK n : n = Len(stack)
  OBVIOUS
<1> DEFINE called == [call |-> "navigation_update", status |-> "not_found"]
<1>1. /\ stack # <<>> /\ Update(n) /\ ~Lost(n)
      /\ ~Ending /\ ~Opening /\ ~Running("update_done")
      /\ Last(stack) = stack[n]
      /\ busy => /\ stack[n].oldpath = NoLeg
                 /\ route_status = "path_done_new" /\ current_dst <= 1
      /\ link_path => /\ ~busy
                      /\ \A i \in DOMAIN stack : Live(i) => i = n
  BY TopUpdate DEF PathNotFound
<1>2. /\ n \in Nat /\ n >= 1 /\ DOMAIN stack = 1..n
      /\ Caller \in Seq(Frames) /\ Len(Caller) = n - 1
      /\ \A i \in 1..n-1 : Caller[i] = stack[i] /\ stack[i].call \notin OnTop
  BY <1>1, TopIs
<1>3. JobTypes /\ StackInv /\ BusyInv /\ LostInv /\ LinkInv /\ LiveInv /\ NoSelf
  BY DEF JobInv
<1>4. /\ UNCHANGED <<destinations, current_dst, graph, async, jobVars>>
      /\ path2' = NoLeg /\ link_path' = FALSE
      /\ Set("not_found", Caller)
      /\ legs' = legs \/ legs' = Destroyed({Last(stack).oldpath})
  BY DEF PathNotFound
<1>5. /\ called \in Frames /\ called.call = "navigation_update"
      /\ called.status = "not_found"
  BY FramesAre DEF RouteStatus
<1>6. /\ route_status' = "not_found"
      /\ \/ route_status = "not_found" /\ stack' = Caller
         \/ stack' = Append(Caller, called)
  BY <1>4, SetIs
<1>7. Milder(legs, legs', {})
  BY <1>3, <1>4, DestroyedIs, SameLegs DEF JobTypes
<1> HIDE DEF called
<1> /\ graph' = graph /\ async' = async /\ busy' = busy
  BY <1>4 DEF jobVars
<1>8. /\ stack' \in Seq(Frames)
      /\ \A i \in 1..n-1 : stack'[i] = stack[i]
      /\ \/ stack' = Caller /\ Len(stack') = n - 1 /\ route_status = "not_found"
         \/ Len(stack') = n /\ stack'[n] = called /\ Last(stack') = called /\ stack' # <<>>
  <2>1. /\ Append(Caller, called) \in Seq(Frames) /\ Append(Caller, called) # <<>>
        /\ Len(Append(Caller, called)) = n
        /\ \A i \in 1..n-1 : Append(Caller, called)[i] = stack[i]
        /\ Append(Caller, called)[n] = called /\ Last(Append(Caller, called)) = called
    BY <1>2, <1>5, PushIs
  <2> QED BY <1>2, <1>6, <2>1
<1>9. Below(n - 1)
  <2>1. n - 1 \in Nat /\ n - 1 <= Len(stack) /\ n - 1 <= Len(stack')
    BY <1>2, <1>8
  <2> QED BY <1>3, <1>4, <1>7, <1>8, <2>1, MilderBelow
<1>10. JobTypes'
  BY <1>3, <1>4, <1>7, <1>8 DEF JobTypes, jobVars, Milder, Pointers
<1>11. StackInv'
  <2>1. \A i \in n-1+1..Len(stack') : i = n /\ i = Len(stack') /\ stack'[i] = called
    BY <1>2, <1>8
  <2> QED BY <1>2, <1>5, <1>9, <2>1, StackKept DEF OnTop, Outermost
<1>12. \A i \in DOMAIN stack' : Update(i)' => i \in 1..n-1 /\ Update(i)
  BY <1>1, <1>2, <1>5, <1>8, <1>9, UpdatesBelow
<1>13. LinkInv'
  BY <1>4, <1>6 DEF LinkInv, PathDone
<1>14. ASSUME NEW i \in 1..n-1, Live(i)'
       PROVE  legs'[stack[i].oldpath].in_use <= 1 /\ ~busy
  <2>1. /\ Live(i) /\ i \in DOMAIN stack
        /\ legs'[stack[i].oldpath].in_use <= 1
        /\ Live(n)
    BY <1>1, <1>7, <1>9, <1>14, LiveBefore
  <2>2. ~busy
    BY <1>1, <2>1, NavigationAssumption DEF Live
  <2> QED BY <2>1, <2>2
<1>15. NoLeg \notin LegIds
  BY NavigationAssumption
<1>16. CASE stack' = Caller /\ route_status = "not_found"
  <2>1. BusyInv' /\ LostInv'
    BY <1>1, <1>4, <1>6, <1>9, <1>16, PopBusy DEF Update
  <2>2. ~busy
    BY <1>1, <1>3, <1>16 DEF BusyInv, PathDone
  <2>3. LiveInv'
    BY <1>1, <1>4, <1>9, <1>14, <1>15, <1>16, <2>2, PopLive
  <2> QED BY <1>3, <1>7, <1>10, <1>11, <1>13, <2>1, <2>3, SelfKept DEF JobInv
<1>17. CASE Len(stack') = n /\ stack'[n] = called /\ Last(stack') = called /\ stack' # <<>>
  <2>1. Ending' /\ ~Opening' /\ ~Running("update_done")'
    BY <1>5, <1>17 DEF Ending, Opening, Running, PathDone
  <2>2. BusyInv'
    <3>1. ASSUME busy, ~idle_ev
          PROVE  \E i \in DOMAIN stack' : stack'[i].call = "navigation_read"
      <4>1. PICK i \in 1..n : stack[i].call = "navigation_read"
        BY <1>2, <1>3, <3>1 DEF BusyInv
      <4>2. i \in 1..n-1 /\ i \in DOMAIN stack'
        BY <1>1, <1>2, <1>8, <1>17, <4>1 DEF Update
      <4> QED BY <1>8, <4>1, <4>2
    <3> QED BY <1>3, <1>4, <2>1, <3>1 DEF BusyInv, jobVars
  <2>3. LostInv'
    BY <2>1 DEF LostInv
  <2>4. LiveInv'
    <3>1. stack'[n].call # "path_new"
      BY <1>5, <1>17
    <3> QED BY <1>1, <1>4, <1>9, <1>14, <1>15, <1>17, <2>1, <3>1, CallLive
  <2> QED BY <1>3, <1>7, <1>10, <1>11, <1>13, <2>2, <2>3, <2>4, SelfKept DEF JobInv
<1> QED BY <1>8, <1>16, <1>17

\* The new leg is one that nothing has a pointer to.
LEMMA UnusedIs ==
    ASSUME JobTypes, NEW l \in UnusedLegs
    PROVE  /\ l \in LegIds /\ l # path2
           /\ \A i \in DOMAIN stack : Update(i) =>
                /\ l # stack[i].oldpath
                /\ stack[i].oldpath \in LegIds => l # legs[stack[i].oldpath].next
<1> DEFINE oldpaths == {stack[i].oldpath : i \in {j \in DOMAIN stack :
                                     stack[j].call = "path_new"}}
<1> PICK S : S = {path2, drawn, route_mr.leg} \cup oldpaths
  OBVIOUS
<1>1. l \in LegIds /\ l \notin Following(S)
  BY DEF UnusedLegs
<1>2. path2 \in S /\ \A i \in DOMAIN stack : Update(i) => stack[i].oldpath \in S
  BY DEF Update
<1> HIDE DEF oldpaths
<1>3. /\ S \cap LegIds \subseteq Following(S)
      /\ \A k \in Following(S) : legs[k].next \in LegIds =>
                                    legs[k].next \in Following(S)
  BY FollowingHolds
<1> QED BY <1>1, <1>2, <1>3

LEMMA MilderNext ==
    ASSUME NEW ls, NEW ms, NEW K, Milder(ls, ms, K),
           NEW k \in LegIds, NEW l \in LegIds, ls[k].next # l
    PROVE  ms[k].next # l
<1>1. ms[k].next \in {ls[k].next, NoLeg, FreedLeg}
  BY DEF Milder
<1>2. NoLeg # l /\ FreedLeg # l
  BY NavigationAssumption
<1> QED BY <1>1, <1>2

\* It takes the place of the old leg, or comes before it.
NewLeg(l) ==
    LET o == Last(stack).oldpath
        nx == IF link_path THEN o
              ELSE IF o = NoLeg THEN NoLeg ELSE legs[o].next
        ls == IF link_path THEN legs ELSE Destroyed({o})
    IN  /\ path2' = l
        /\ legs' = [k \in LegIds |-> legs'[k]]
        /\ nx \in Pointers =>
              /\ legs'[l] \in Legs
              /\ legs'[l].in_use = 1 /\ legs'[l].next = nx
        /\ \A k \in LegIds : k # l => legs'[k] = ls[k]

LEMMA NewLegIs ==
    ASSUME JobInv, Running("path_new"), UpdateDefined,
           NEW l \in UnusedLegs, NewLeg(l), graph' = graph, async' = async,
           stack' \in Seq(Frames), Len(stack) - 1 <= Len(stack'),
           \A i \in 1..Len(stack)-1 : stack'[i] = stack[i]
    PROVE  /\ legs' \in [LegIds -> Legs] /\ l \in LegIds /\ legs'[l].in_use = 1
           /\ Below(Len(stack) - 1) /\ NoSelf'
           /\ \A i \in 1..Len(stack)-1 : ~Live(i)'
<1> PICK o : o = Last(stack).oldpath
  OBVIOUS
<1> PICK nx : nx = IF link_path THEN o
                   ELSE IF o = NoLeg THEN NoLeg ELSE legs[o].next
  OBVIOUS
<1> PICK ls : ls = IF link_path THEN legs ELSE Destroyed({o})
  OBVIOUS
<1>0. /\ path2' = l
      /\ legs' = [k \in LegIds |-> legs'[k]]
      /\ nx \in Pointers =>
            /\ legs'[l] \in Legs
            /\ legs'[l].in_use = 1 /\ legs'[l].next = nx
      /\ \A k \in LegIds : k # l => legs'[k] = ls[k]
  BY DEF NewLeg
<1> PICK n : n = Len(stack)
  OBVIOUS
<1>1. /\ stack # <<>> /\ Update(n) /\ o = stack[n].oldpath /\ ~Lost(n)
      /\ ~Ending /\ ~Running("update_done") /\ Last(stack) = stack[n]
      /\ o \in LegIds \cup {NoLeg}
      /\ o \in LegIds => legs[o].in_use > 0
      /\ link_path => /\ o \in LegIds
                      /\ \A i \in DOMAIN stack : Live(i) => i = n
  BY TopUpdate
<1>2. n \in Nat /\ n >= 1 /\ DOMAIN stack = 1..n
  BY <1>1, TopIs
<1>3. JobTypes /\ LiveInv /\ NoSelf
  BY DEF JobInv
<1>4. /\ l \in LegIds /\ l # path2 /\ l # o
      /\ o \in LegIds => l # legs[o].next
      /\ \A i \in 1..n-1 : Update(i) => l # stack[i].oldpath
  <2>1. \A i \in 1..n-1 : i \in DOMAIN stack
    BY <1>2
  <2>2. n \in DOMAIN stack
    BY <1>2
  <2> QED BY <1>1, <1>3, <2>1, <2>2, UnusedIs
<1>5. nx # l /\ nx \in Pointers
  <2>1. nx \in Pointers
    BY <1>1, <1>3 DEF JobTypes, Legs, Pointers
  <2> QED BY <1>1, <1>4, <2>1, NavigationAssumption
<1>6. /\ Milder(legs, ls, {})
      /\ ~link_path /\ o \in LegIds /\ legs[o].in_use <= 1 =>
            /\ ls[o].in_use = 0
            /\ \A k \in LegIds : ls[k].next # o
  <2>1. legs \in [LegIds -> Legs]
    BY <1>3 DEF JobTypes
  <2>2. CASE link_path
    BY <1>3, <2>2, SameLegs
  <2>3. CASE ~link_path
    <3>1. ls = Destroyed({o})
      BY <2>3
    <3>2. /\ Milder(legs, Destroyed({o}), {})
          /\ \A k \in {o} \cap LegIds : legs[k].in_use <= 1 =>
                /\ Destroyed({o})[k].in_use = 0
                /\ \A m \in LegIds : Destroyed({o})[m].next # k
      BY <2>1, DestroyedIs
    <3> QED BY <3>1, <3>2
  <2> QED BY <2>2, <2>3
<1>7. legs'[l] \in Legs /\ legs'[l].in_use = 1 /\ legs'[l].next = nx
  BY <1>0, <1>5
<1>8. \A k \in LegIds : ls[k] \in Legs /\ ls[k].next \in {legs[k].next, NoLeg, FreedLeg}
  BY <1>6 DEF Milder
<1>9. legs' \in [LegIds -> Legs]
  <2>1. \A k \in LegIds : legs'[k] \in Legs
    BY <1>0, <1>7, <1>8
  <2> QED BY <1>0, <2>1
<1>10. ASSUME NEW i \in 1..n-1, Update(i), Gone(stack[i].oldpath)
       PROVE  Gone(stack[i].oldpath)'
  <2> PICK p : p = stack[i].oldpath
    OBVIOUS
  <2>1. CASE p = FreedLeg
    BY <2>1, <1>10 DEF Gone
  <2>2. CASE p # FreedLeg
    <3>1. p \in LegIds /\ legs[p].in_use = 0 /\ path2 # p
          /\ \A k \in LegIds : legs[k].next # p
      BY <1>10, <2>2 DEF Gone
    <3>2. p # l
      BY <1>4, <1>10
    <3>3. legs'[p].in_use = 0
      <4>1. legs'[p].in_use \in Nat /\ legs'[p].in_use <= 0
        BY <1>0, <1>6, <3>1, <3>2 DEF Milder, Legs
      <4> QED BY <4>1
    <3>4. nx # p
      BY <1>1, <3>1, NavigationAssumption
    <3>5. \A k \in LegIds : legs'[k].next # p
      <4>1. \A k \in LegIds : ls[k].next # p
        BY <1>6, <3>1, MilderNext
      <4> QED BY <1>0, <1>7, <3>4, <4>1
    <3>6. Gone(p)'
      BY <1>0, <3>1, <3>2, <3>3, <3>5 DEF Gone
    <3> QED BY <1>10, <3>6
  <2> QED BY <2>1, <2>2
<1>11. Below(n - 1)
  <2>1. n - 1 \in Nat /\ n - 1 <= Len(stack) /\ n - 1 <= Len(stack')
    BY <1>2
  <2> QED BY <1>10, <2>1 DEF Below
<1>12. NoSelf'
  <2>1. \A k \in LegIds : ls[k].next # k
    <3> SUFFICES ASSUME NEW k \in LegIds PROVE ls[k].next # k
      OBVIOUS
    <3>1. legs[k].next # k
      BY <1>3 DEF NoSelf
    <3> QED BY <1>6, <3>1, MilderNext
  <2>2. \A k \in LegIds : legs'[k].next # k
    BY <1>0, <1>5, <1>7, <2>1
  <2> QED BY <2>2 DEF NoSelf
<1>13. ASSUME NEW i \in 1..n-1, Live(i)' PROVE FALSE
  <2>1. Live(i) /\ i \in DOMAIN stack /\ stack'[i] = stack[i] /\ i # n
    BY <1>2, <1>3, <1>11, <1>13, BelowIs
  <2>2. ~link_path
    BY <1>1, <1>13, <2>1
  <2>3. Live(n) /\ legs[stack[i].oldpath].in_use <= 1 /\ stack[n].oldpath = stack[i].oldpath
    BY <1>1, <1>2, <1>3, <1>13, <2>1 DEF LiveInv
  <2>4. o \in LegIds /\ legs[o].in_use <= 1
    BY <1>1, <2>3 DEF Live
  <2>5. legs'[o].in_use = 0 /\ \A k \in LegIds : k # l => legs'[k].next # o
    BY <1>0, <1>4, <1>6, <2>2, <2>4
  <2>6. nx = legs[o].next
    BY <2>2, <2>4, NavigationAssumption
  <2>7. \A k \in LegIds : legs'[k].next # o
    <3>1. nx # o
      BY <1>3, <2>4, <2>6 DEF NoSelf
    <3> QED BY <1>7, <2>5, <3>1
  <2>8. Gone(o)'
    BY <1>0, <1>4, <2>4, <2>5, <2>7 DEF Gone
  <2>9. stack'[i].oldpath = o
    BY <1>1, <2>1, <2>3
  <2> QED BY <1>13, <2>8, <2>9 DEF Live, Lost
<1> QED BY <1>4, <1>7, <1>9, <1>11, <1>12, <1>13

LEMMA PathFoundIs ==
    ASSUME JobInv, PathFound
    PROVE  /\ Running("path_new") /\ UpdateDefined
           /\ UNCHANGED <<destinations, graph, async, jobVars>>
           /\ \E l \in UnusedLegs, status \in PathDone :
                 /\ NewLeg(l)
                 /\ status # "path_done_new" => /\ ~Last(stack).new_graph
                                               /\ Last(stack).oldpath # NoLeg
                 /\ \/ /\ current_dst > 1 /\ link_path' = TRUE
                       /\ current_dst' = current_dst - 1
                       /\ stack' = Append(Caller, UpdateDoneCall(TRUE))
                       /\ UNCHANGED route_status
                    \/ /\ current_dst <= 1 /\ link_path' = FALSE
                       /\ Set(status, Caller)
                       /\ UNCHANGED current_dst
<1> PICK l : l = CHOOSE unused \in UnusedLegs : TRUE
  OBVIOUS
<1>1. l \in UnusedLegs
  BY DEF PathFound
<1> PICK o : o = Last(stack).oldpath
  OBVIOUS
<1> PICK nx : nx = IF link_path THEN o
                   ELSE IF o = NoLeg THEN NoLeg ELSE legs[o].next
  OBVIOUS
<1> PICK ls : ls = IF link_path THEN legs ELSE Destroyed({o})
  OBVIOUS
<1> DEFINE leg(way) == [way |-> way, live |-> TRUE, in_use |-> 1,
                        update_required |-> 0, next |-> nx]
           status(way) == IF ~Last(stack).new_graph /\ UpdatedFrom(way, o)
                          THEN "path_done_incremental" ELSE "path_done_new"
<1>2. PICK way \in Ways \cup WaysBetween :
         /\ legs' = [ls EXCEPT ![l] = leg(way)] /\ path2' = l
         /\ \/ /\ current_dst > 1 /\ link_path' = TRUE
               /\ current_dst' = current_dst - 1
               /\ stack' = Append(Caller, UpdateDoneCall(TRUE))
               /\ UNCHANGED route_status
            \/ /\ current_dst <= 1 /\ link_path' = FALSE
               /\ Set(status(way), Caller)
               /\ UNCHANGED current_dst
  <2>1. \E way \in IF current_dst > 1 THEN WaysBetween ELSE Ways :
           /\ legs' = [ls EXCEPT ![l] = leg(way)] /\ path2' = l
           /\ \/ /\ current_dst > 1 /\ link_path' = TRUE
                 /\ current_dst' = current_dst - 1
                 /\ stack' = Append(Caller, UpdateDoneCall(TRUE))
                 /\ UNCHANGED route_status
              \/ /\ current_dst <= 1 /\ link_path' = FALSE
                 /\ Set(status(way), Caller)
                 /\ UNCHANGED current_dst
    BY DEF PathFound
  <2> QED BY <2>1
<1>3. /\ Running("path_new") /\ UpdateDefined
      /\ UNCHANGED <<destinations, graph, async, jobVars>>
  BY DEF PathFound
<1>4. /\ status(way) \in PathDone
      /\ status(way) # "path_done_new" => ~Last(stack).new_graph /\ o # NoLeg
  BY DEF PathDone, UpdatedFrom
<1> HIDE DEF status
<1>5. nx \in Pointers => leg(way) \in Legs
  BY DEF Legs
<1>6. leg(way).in_use = 1 /\ leg(way).next = nx
  OBVIOUS
<1> HIDE DEF leg
<1>7. ls \in [LegIds -> Legs]
  <2>1. legs \in [LegIds -> Legs]
    BY DEF JobInv, JobTypes
  <2>2. Destroyed({o}) \in [LegIds -> Legs]
    BY <2>1, DestroyedIs DEF Milder
  <2> QED BY <2>1, <2>2
<1>8. l \in LegIds
  BY <1>1 DEF UnusedLegs
<1>9. /\ path2' = l
      /\ legs' = [k \in LegIds |-> legs'[k]]
      /\ legs'[l] = leg(way)
      /\ \A k \in LegIds : k # l => legs'[k] = ls[k]
  BY <1>2, <1>7, <1>8
<1>10. NewLeg(l)
  BY <1>5, <1>6, <1>9 DEF NewLeg
<1> QED BY <1>1, <1>2, <1>3, <1>4, <1>10

LEMMA PathFoundStep ==
    ASSUME JobInv, PathFound
    PROVE  JobInv'
<1> PICK n : n = Len(stack)
  OBVIOUS
<1>1. /\ stack # <<>> /\ Update(n) /\ ~Lost(n)
      /\ ~Ending /\ ~Opening /\ ~Running("update_done")
      /\ Last(stack) = stack[n]
      /\ busy => /\ stack[n].oldpath = NoLeg
                 /\ route_status = "path_done_new" /\ current_dst <= 1
      /\ Running("path_new") /\ UpdateDefined
  BY TopUpdate, PathFoundIs
<1>2. /\ n \in Nat /\ n >= 1 /\ DOMAIN stack = 1..n
      /\ Caller \in Seq(Frames) /\ Len(Caller) = n - 1
      /\ \A i \in 1..n-1 : Caller[i] = stack[i] /\ stack[i].call \notin OnTop
  BY <1>1, TopIs
<1>3. JobTypes /\ StackInv /\ BusyInv /\ LostInv /\ LinkInv /\ LiveInv /\ NoSelf
  BY DEF JobInv
<1>4. PICK l \in UnusedLegs, status \in PathDone :
         /\ NewLeg(l)
         /\ status # "path_done_new" => /\ ~Last(stack).new_graph
                                       /\ Last(stack).oldpath # NoLeg
         /\ \/ /\ current_dst > 1 /\ link_path' = TRUE
               /\ current_dst' = current_dst - 1
               /\ stack' = Append(Caller, UpdateDoneCall(TRUE))
               /\ UNCHANGED route_status
            \/ /\ current_dst <= 1 /\ link_path' = FALSE
               /\ Set(status, Caller)
               /\ UNCHANGED current_dst
  BY PathFoundIs
<1>5. UNCHANGED <<destinations, graph, async, jobVars>>
  BY PathFoundIs
<1> PICK called : called = [call |-> "navigation_update", status |-> status]
  OBVIOUS
<1> PICK link : link = UpdateDoneCall(TRUE)
  OBVIOUS
<1>6. /\ called \in Frames /\ called.call = "navigation_update"
      /\ called.status \in PathDone
      /\ link \in Frames /\ link.call = "update_done" /\ link.new_graph
  BY FramesAre DEF RouteStatus, UpdateDoneCall
<1>7. ASSUME NEW f \in Frames, stack' = Append(Caller, f)
      PROVE  /\ stack' \in Seq(Frames) /\ stack' # <<>>
             /\ \A i \in 1..n-1 : stack'[i] = stack[i]
             /\ Len(stack') = n /\ stack'[n] = f /\ Last(stack') = f
             /\ DOMAIN stack' = 1..n
  <2>1. /\ Append(Caller, f) \in Seq(Frames) /\ Append(Caller, f) # <<>>
        /\ Len(Append(Caller, f)) = n
        /\ \A i \in 1..n-1 : Append(Caller, f)[i] = stack[i]
        /\ Append(Caller, f)[n] = f /\ Last(Append(Caller, f)) = f
    BY <1>2, PushIs
  <2> QED BY <1>2, <1>7, <2>1
<1>8. \/ stack' = Append(Caller, link)
      \/ stack' = Append(Caller, called)
      \/ stack' = Caller
  BY <1>4, SetIs
<1>9. /\ stack' \in Seq(Frames)
      /\ \A i \in 1..n-1 : stack'[i] = stack[i]
      /\ Len(stack') = n - 1 \/ Len(stack') = n
  BY <1>2, <1>6, <1>7, <1>8
<1>10. /\ legs' \in [LegIds -> Legs] /\ l \in LegIds /\ legs'[l].in_use = 1
       /\ Below(n - 1) /\ NoSelf'
       /\ \A i \in 1..n-1 : ~Live(i)'
  <2>1. Len(stack) - 1 <= Len(stack')
    BY <1>2, <1>9
  <2>2. graph' = graph /\ async' = async
    BY <1>5
  <2> QED BY <1>1, <1>4, <1>9, <2>1, <2>2, NewLegIs
<1>11. path2' = l
  BY <1>4 DEF NewLeg
<1>12. JobTypes'
  <2>1. /\ current_dst' \in Int
        /\ link_path' \in BOOLEAN
    <3>1. current_dst \in Int /\ current_dst - 1 \in Int
      BY <1>3 DEF JobTypes
    <3> QED BY <1>4, <3>1, Zenon
  <2>2. UNCHANGED <<destinations, async, route_mr, busy, idle_ev>>
    BY <1>5 DEF jobVars
  <2> QED BY <1>3, <1>9, <1>10, <1>11, <2>1, <2>2 DEF JobTypes, Pointers
<1>13. \/ Len(stack') = n - 1
       \/ Len(stack') = n /\ stack'[n].call # "path_new"
  <2>1. CASE stack' = Caller
    BY <1>2, <2>1
  <2> QED BY <1>6, <1>7, <1>8, <2>1
<1>14. \A i \in DOMAIN stack' : Update(i)' => i \in 1..n-1 /\ i \in DOMAIN stack /\ Update(i)
  BY <1>1, <1>10, <1>13, UpdatesBelow
<1>15. StackInv'
  <2>1. \A i \in n-1+1..Len(stack') :
           i = n /\ i = Len(stack') /\ stack'[i] \in {link, called}
    <3>1. CASE stack' = Caller
      <4>1. \A i \in n-1+1..n-1 : FALSE
        BY <1>2
      <4> QED BY <1>2, <3>1, <4>1
    <3>2. CASE stack' # Caller
      <4>1. Len(stack') = n /\ stack'[n] \in {link, called}
        BY <1>6, <1>7, <1>8, <3>2
      <4>2. \A i \in n-1+1..n : i = n
        BY <1>2
      <4> QED BY <4>1, <4>2
    <3> QED BY <3>1, <3>2
  <2> QED BY <1>2, <1>6, <1>10, <2>1, StackKept DEF OnTop, Outermost
<1>16. CASE current_dst > 1
  <2>1. /\ stack' = Append(Caller, link) /\ link_path' = TRUE
        /\ current_dst' = current_dst - 1 /\ route_status' = route_status
        /\ current_dst \in Int
    <3>1. current_dst \in Int /\ ~(current_dst <= 1)
      BY <1>3, <1>16 DEF JobTypes
    <3> QED BY <1>4, <3>1, Zenon
  <2>2. /\ Len(stack') = n /\ stack'[n] = link /\ Last(stack') = link /\ stack' # <<>>
    BY <1>6, <1>7, <2>1
  <2>3. Running("update_done")' /\ ~Ending' /\ ~Opening'
    BY <1>6, <2>2 DEF Running, Ending, Opening
  <2>4. ~busy
    BY <1>1, <1>3, <1>16 DEF JobTypes
  <2>5. BusyInv'
    BY <1>3, <1>5, <2>3, <2>4 DEF BusyInv, jobVars
  <2>6. LostInv'
    BY <1>5, <2>3, <2>4 DEF LostInv, jobVars
  <2>7. LinkInv'
    <3>1. route_status' \in PathDone => FALSE
      <4>1. n \in DOMAIN stack
        BY <1>2
      <4> QED BY <1>1, <1>3, <1>16, <2>1, <4>1 DEF LinkInv, JobTypes
    <3>2. \A i \in DOMAIN stack' : Live(i)' => i = 0
      BY <1>5, <1>10, <1>14 DEF Live
    <3>3. ~busy' /\ path2' \in LegIds /\ legs'[path2'].in_use <= 1
      BY <1>5, <1>10, <1>11, <2>4 DEF jobVars
    <3> QED BY <1>6, <2>2, <2>3, <3>1, <3>2, <3>3 DEF LinkInv
  <2>8. LiveInv'
    BY <1>1, <1>6, <1>10, <2>1, <2>2, <2>3, CallLive
  <2> QED BY <1>10, <1>12, <1>15, <2>5, <2>6, <2>7, <2>8 DEF JobInv
<1>17. CASE current_dst <= 1
  <2>1. /\ link_path' = FALSE /\ current_dst' = current_dst
        /\ Set(status, Caller)
    <3>1. ~(current_dst > 1)
      BY <1>3, <1>17 DEF JobTypes
    <3> QED BY <1>4, <3>1, Zenon
  <2>2. LinkInv'
    BY <1>17, <2>1 DEF LinkInv
  <2>3. CASE status = route_status
    <3>1. stack' = Caller /\ route_status' = route_status
      BY <2>1, <2>3 DEF Set
    <3>2. BusyInv' /\ LostInv'
      BY <1>1, <1>5, <1>10, <3>1, PopBusy DEF Update
    <3>3. LiveInv'
      BY <1>1, <1>10, <3>1, PopLive
    <3> QED BY <1>10, <1>12, <1>15, <2>2, <3>2, <3>3 DEF JobInv
  <2>4. CASE status # route_status
    <3>1. stack' = Append(Caller, called) /\ route_status' = status
      BY <2>1, <2>4 DEF Set
    <3>2. /\ Len(stack') = n /\ stack'[n] = called /\ Last(stack') = called /\ stack' # <<>>
      BY <1>6, <1>7, <3>1
    <3>3. ~Ending' /\ ~Running("update_done")'
      BY <1>6, <3>2 DEF Running, Ending
    <3>4. ~busy
      BY <1>1, <1>4, <2>4
    <3>5. BusyInv'
      BY <1>3, <1>5, <3>1, <3>4 DEF BusyInv, jobVars
    <3>6. LostInv'
      <4> SUFFICES ASSUME async', NEW i \in DOMAIN stack', Update(i)'
                   PROVE  Harmless(i)'
        BY <1>5, <3>4 DEF LostInv, jobVars
      <4>1. i \in 1..n-1 /\ i \in DOMAIN stack /\ Update(i)
        BY <1>14
      <4>2. stack'[i] = stack[i] /\ stack[i].oldpath \in Pointers
        BY <1>3, <1>9, <4>1 DEF StackInv, Update
      <4>3. CASE Lost(i)'
        BY <4>3 DEF Harmless
      <4>4. CASE ~Lost(i)'
        <5>1. stack[i].oldpath \notin LegIds
          BY <1>5, <1>10, <4>1, <4>2, <4>4 DEF Live
        <5>2. stack[i].oldpath # FreedLeg
          BY <4>2, <4>4 DEF Lost, Gone
        <5>3. stack[i].oldpath = NoLeg
          BY <4>2, <5>1, <5>2 DEF Pointers
        <5>4. First(i)'
          BY <4>2, <4>4, <5>3 DEF First
        <5>5. First(i)
          BY <1>3, <1>10, <4>1, <5>4, BelowIs
        <5>6. n \in i+1..n
          BY <1>2, <4>1
        <5>7. stack[n].oldpath = NoLeg \/ stack[n].new_graph
          BY <1>1, <1>3, <1>5, <4>1, <5>5, <5>6 DEF LiveInv
        <5>8. status = "path_done_new"
          BY <1>1, <1>4, <5>7
        <5> QED BY <3>1, <4>2, <5>3, <5>8 DEF Harmless
      <4> QED BY <4>3, <4>4
    <3>7. LiveInv'
      BY <1>1, <1>6, <1>10, <3>2, <3>3, CallLive
    <3> QED BY <1>10, <1>12, <1>15, <2>2, <3>5, <3>6, <3>7 DEF JobInv
  <2> QED BY <2>3, <2>4
<1>18. current_dst > 1 \/ current_dst <= 1
  BY <1>3 DEF JobTypes
<1> QED BY <1>16, <1>17, <1>18

-----------------------------------------------------------------------------
(* A job begins, reads and ends *)

LEMMA NavigationOpenStep ==
    ASSUME JobInv, NavigationOpen
    PROVE  JobInv'
<1> PICK n : n = Len(stack)
  OBVIOUS
<1> PICK K : K = {path2} \cap LegIds
  OBVIOUS
<1> PICK read : read = [call |-> "navigation_read"]
  OBVIOUS
<1>1. /\ stack # <<>> /\ stack[n].call = "navigation_open" /\ Opening
      /\ ~Ending /\ ~Running("update_done")
  <2>1. Running("navigation_open")
    BY DEF NavigationOpen
  <2>2. stack # <<>>
    BY <2>1 DEF Running
  <2> QED BY <2>1, <2>2, TopIs DEF Opening, Ending
<1>2. /\ n \in Nat /\ n >= 1 /\ DOMAIN stack = 1..n
      /\ Caller \in Seq(Frames) /\ Len(Caller) = n - 1
      /\ \A i \in 1..n-1 : Caller[i] = stack[i] /\ stack[i].call \notin OnTop
  BY <1>1, TopIs
<1>3. JobTypes /\ StackInv /\ BusyInv /\ LostInv /\ LinkInv /\ LiveInv /\ NoSelf
  BY DEF JobInv
<1>4. /\ legs' = Held(path2)
      /\ UNCHANGED <<destinations, current_dst, graph, path2, link_path, async,
                     route_status>>
      /\ route_mr' = [leg |-> path2, at |-> 1]
      /\ busy' = TRUE /\ idle_ev' = async
      /\ idle_events' = IF async THEN idle_events + 1 ELSE idle_events
      /\ stack' = IF async THEN Caller ELSE Append(Caller, read)
  BY DEF NavigationOpen, Then
<1> /\ graph' = graph /\ path2' = path2 /\ async' = async
    /\ link_path' = link_path /\ route_status' = route_status
    /\ current_dst' = current_dst
  BY <1>4
<1>5. ~busy /\ ~idle_ev /\ idle_events = 0 /\ route_status \in PathDone
  BY <1>1, <1>3 DEF BusyInv
<1>6. ~link_path
  BY <1>1, <1>3 DEF LinkInv, Update
<1>7. read \in Frames /\ read.call = "navigation_read"
  BY FramesAre
<1>8. Milder(legs, legs', K)
  BY <1>3, <1>4, HeldIs DEF JobTypes
<1>9. /\ stack' \in Seq(Frames)
      /\ \A i \in 1..n-1 : stack'[i] = stack[i]
      /\ async => stack' = Caller /\ Len(stack') = n - 1
      /\ ~async => Len(stack') = n /\ stack'[n] = read /\ Last(stack') = read
  <2>1. /\ Append(Caller, read) \in Seq(Frames)
        /\ Len(Append(Caller, read)) = n
        /\ \A i \in 1..n-1 : Append(Caller, read)[i] = stack[i]
        /\ Append(Caller, read)[n] = read /\ Last(Append(Caller, read)) = read
    BY <1>2, <1>7, PushIs
  <2> QED BY <1>2, <1>4, <2>1
<1>10. Below(n - 1)
  <2>1. n - 1 \in Nat /\ n - 1 <= Len(stack) /\ n - 1 <= Len(stack')
    BY <1>2, <1>9
  <2>2. \A i \in 1..n-1 : Update(i) /\ Gone(stack[i].oldpath) => stack[i].oldpath \notin K
    BY NavigationAssumption DEF Gone
  <2> QED BY <1>3, <1>8, <1>9, <2>1, <2>2, MilderBelow
<1>11. JobTypes' /\ NoSelf'
  <2>1. route_mr' \in Rects /\ route_mr' # NoRect
    BY <1>3, <1>4 DEF JobTypes, Rects, NoRect, Pointers
  <2>2. busy' \in BOOLEAN /\ idle_ev' \in BOOLEAN
    BY <1>3, <1>4 DEF JobTypes
  <2>3. JobTypes'
    BY <1>3, <1>4, <1>8, <1>9, <2>1, <2>2 DEF JobTypes, Milder
  <2> QED BY <1>3, <1>8, <2>3, SelfKept
<1>12. \A i \in DOMAIN stack' : Update(i)' => i \in 1..n-1 /\ i \in DOMAIN stack /\ Update(i)
  BY <1>1, <1>7, <1>9, <1>10, UpdatesBelow
<1>13. StackInv'
  <2>1. \A i \in n-1+1..Len(stack') : ~async /\ stack'[i] = read
    BY <1>2, <1>9
  <2> QED BY <1>2, <1>7, <1>10, <2>1, StackKept DEF OnTop, Outermost
<1>14. ~Ending' /\ ~Opening'
  <2>1. CASE async
    BY <1>1, <1>9, <1>10, <2>1, PopStack
  <2>2. CASE ~async
    BY <1>7, <1>9, <2>2 DEF Ending, Opening, Running
  <2> QED BY <2>1, <2>2
<1>15. ~async => \E i \in DOMAIN stack' : stack'[i].call = "navigation_read"
  <2>1. ~async => n \in DOMAIN stack'
    BY <1>2, <1>9
  <2> QED BY <1>7, <1>9, <2>1
<1>16. BusyInv'
  <2>1. route_mr' # NoRect
    BY <1>4 DEF NoRect
  <2> QED BY <1>3, <1>4, <1>5, <1>14, <1>15, <2>1 DEF BusyInv, JobTypes
<1>17. async => \A i \in 1..n-1 : Update(i) => Harmless(i)
  BY <1>1, <1>2, <1>3 DEF LostInv
<1>18. LostInv'
  <2> SUFFICES ASSUME NEW i \in DOMAIN stack', Update(i)'
               PROVE  \/ \E j \in i+1..Len(stack') : stack'[j].call = "navigation_read"
                      \/ Harmless(i)'
    BY <1>14 DEF LostInv
  <2>1. i \in 1..n-1 /\ Update(i)
    BY <1>12
  <2>2. CASE async
    BY <1>3, <1>10, <1>17, <2>1, <2>2, BelowIs
  <2>3. CASE ~async
    <3>1. n \in i+1..n
      BY <1>2, <2>1
    <3> QED BY <1>7, <1>9, <2>3, <3>1
  <2> QED BY <2>2, <2>3
<1>19. LinkInv'
  BY <1>3, <1>6, <1>12 DEF LinkInv, Update
<1>20. LiveInv'
  <2>0. \A i \in 1..n-1 : ~Live(i)
    <3>1. \A i \in 1..n-1 : i \in DOMAIN stack
      BY <1>2
    <3> QED BY <1>1, <3>1, NoneLive
  <2>1. CASE async
    BY <1>1, <1>9, <1>10, <2>0, <2>1, PopLive
  <2>2. CASE ~async
    BY <1>1, <1>7, <1>9, <1>10, <2>0, <2>2, CallLive
  <2> QED BY <2>1, <2>2
<1> QED BY <1>11, <1>13, <1>16, <1>18, <1>19, <1>20 DEF JobInv

\* A street is read, and the map rect may go on to the next leg; or the job ends.
LEMMA NextReadIs ==
    ASSUME JobTypes, NextRead.leg \in LegIds
    PROVE  /\ [NextRead EXCEPT !.at = @ + 1] \in Rects
           /\ [NextRead EXCEPT !.at = @ + 1] # NoRect
           /\ NextRead.leg # route_mr.leg =>
                 route_mr.leg \in LegIds /\ NextRead.leg = legs[route_mr.leg].next
<1>1. route_mr \in Rects /\ route_mr.at \in Nat
  BY DEF JobTypes, Rects
<1>2. NextRead \in Rects
  <2>1. CASE NextRead = route_mr
    BY <1>1, <2>1
  <2>2. CASE NextRead # route_mr
    <3>1. NextRead = [leg |-> legs[route_mr.leg].next, at |-> 1]
      BY <2>2 DEF NextRead
    <3> QED BY <3>1 DEF Rects
  <2> QED BY <2>1, <2>2
<1>3. NextRead.at \in Nat
  BY <1>2 DEF Rects
<1>4. NextRead.leg # route_mr.leg =>
         route_mr.leg \in LegIds /\ NextRead.leg = legs[route_mr.leg].next
  BY DEF NextRead, AtEndOfLeg
<1> PICK r : r = NextRead
  OBVIOUS
<1>5. [r EXCEPT !.at = r.at + 1] \in Rects /\ [r EXCEPT !.at = r.at + 1] # NoRect
  BY <1>2, <1>3 DEF Rects, NoRect
<1> QED BY <1>4, <1>5

LEMMA UpdateIdleIs ==
    ASSUME JobInv, busy, NEW s \in Seq(Frames), UpdateIdle(s)
    PROVE  /\ UNCHANGED <<destinations, current_dst, graph, path2, link_path,
                          async, route_status>>
           /\ \E K : /\ Milder(legs, legs', K)
                     /\ \A o : Gone(o) => o \notin K
           /\ route_mr' \in Rects
           /\ \/ /\ route_mr' = NoRect
                 /\ busy' = FALSE /\ idle_ev' = FALSE /\ idle_events' = 0
                 /\ \/ stack' = s
                    \/ \E b \in BOOLEAN : stack' = Append(s, UpdateDoneCall(b))
              \/ /\ route_mr' # NoRect /\ stack' = s
                 /\ UNCHANGED <<busy, idle_ev, idle_events>>
<1>1. JobTypes /\ BusyInv
  BY DEF JobInv
<1>2. UNCHANGED <<destinations, current_dst, graph, path2, link_path,
                  async, route_status>>
  BY DEF UpdateIdle
<1>3. CASE EndJob(s)
  <2>1. CloseRect(route_mr.leg, s)
    BY <1>3 DEF EndJob
  <2>2. /\ Milder(legs, legs', {})
        /\ \/ stack' = s
           \/ \E b \in BOOLEAN : stack' = Append(s, UpdateDoneCall(b))
    BY <1>1, <2>1, CloseIs
  <2>3. /\ route_mr' = NoRect
        /\ busy' = FALSE /\ idle_ev' = FALSE /\ idle_events' = 0
    BY <1>1, <1>3 DEF EndJob, BusyInv
  <2>4. NoRect \in Rects
    BY DEF NoRect, Rects
  <2> QED BY <1>2, <2>2, <2>3, <2>4
<1>4. CASE /\ NextRead.leg \in LegIds
           /\ route_mr' = [NextRead EXCEPT !.at = @ + 1]
           /\ legs' = IF NextRead.leg = route_mr.leg THEN legs
                      ELSE Release(Held(NextRead.leg), {route_mr.leg})
           /\ stack' = s
           /\ UNCHANGED <<busy, idle_ev, idle_events>>
  <2>1. route_mr' \in Rects /\ route_mr' # NoRect
    BY <1>1, <1>4, NextReadIs
  <2>2. CASE NextRead.leg = route_mr.leg
    <3>1. Milder(legs, legs', {})
      BY <1>1, <1>4, <2>2, SameLegs
    <3> QED BY <1>2, <1>4, <2>1, <3>1
  <2>3. CASE NextRead.leg # route_mr.leg
    <3> PICK l \in LegIds : l = NextRead.leg
      BY <1>4
    <3>1. legs \in [LegIds -> Legs]
      BY <1>1 DEF JobTypes
    <3>2. Milder(legs, Held(l), {l} \cap LegIds)
      BY <3>1, HeldIs
    <3>3. Held(l) \in [LegIds -> Legs]
      BY <3>2 DEF Milder
    <3>4. Milder(Held(l), legs', {})
      BY <1>4, <2>3, <3>3, ReleaseIs
    <3>5. Milder(legs, legs', {l} \cap LegIds)
      BY <3>1, <3>2, <3>3, <3>4, MilderTwice
    <3>6. \A o : Gone(o) => o \notin {l} \cap LegIds
      <4>1. route_mr.leg \in LegIds /\ l = legs[route_mr.leg].next
        BY <1>1, <1>4, <2>3, NextReadIs
      <4>2. l # FreedLeg
        BY NavigationAssumption
      <4> QED BY <4>1, <4>2 DEF Gone
    <3> QED BY <1>2, <1>4, <2>1, <3>5, <3>6
  <2> QED BY <2>2, <2>3
<1>5. EndJob(s) \/ (/\ NextRead.leg \in LegIds
                    /\ route_mr' = [NextRead EXCEPT !.at = @ + 1]
                    /\ legs' = IF NextRead.leg = route_mr.leg THEN legs
                               ELSE Release(Held(NextRead.leg), {route_mr.leg})
                    /\ stack' = s
                    /\ UNCHANGED <<busy, idle_ev, idle_events>>)
  BY DEF UpdateIdle, ReadNoGraph, ReadEnd, ReadStreet
<1> QED BY <1>3, <1>4, <1>5

LEMMA NavigationReadStep ==
    ASSUME JobInv, NavigationRead
    PROVE  JobInv'
<1> PICK n : n = Len(stack)
  OBVIOUS
<1>1. /\ stack # <<>> /\ stack[n].call = "navigation_read"
      /\ ~Ending /\ ~Opening /\ ~Running("update_done")
  <2>1. Running("navigation_read")
    BY DEF NavigationRead
  <2>2. stack # <<>>
    BY <2>1 DEF Running
  <2> QED BY <2>1, <2>2, TopIs DEF Opening, Ending
<1>2. /\ n \in Nat /\ n >= 1 /\ DOMAIN stack = 1..n
      /\ Caller \in Seq(Frames) /\ Len(Caller) = n - 1
      /\ \A i \in 1..n-1 : Caller[i] = stack[i] /\ stack[i].call \notin OnTop
      /\ Last(stack) = stack[n]
  BY <1>1, TopIs
<1>3. /\ JobTypes /\ StackInv /\ BusyInv /\ LostInv /\ LinkInv /\ LiveInv /\ NoSelf
      /\ stack \in Seq(Frames)
  BY DEF JobInv, JobTypes
<1>4. ~async
  BY <1>1, <1>2, <1>3 DEF StackInv
<1>5. ~link_path
  BY <1>1, <1>3 DEF LinkInv, Update
<1>6. CASE ~busy
  <2>1. stack' = Caller /\ UNCHANGED <<routeVars, jobVars, route_status>>
    BY <1>6 DEF NavigationRead
  <2>2. /\ graph' = graph /\ async' = async /\ path2' = path2 /\ legs' = legs
        /\ link_path' = link_path /\ current_dst' = current_dst
        /\ route_status' = route_status /\ destinations' = destinations
        /\ busy' = busy
    BY <2>1 DEF routeVars, jobVars
  <2>3. Milder(legs, legs', {})
    BY <1>3, <2>2, SameLegs
  <2>4. Below(n - 1)
    <3>1. n - 1 \in Nat /\ n - 1 <= Len(stack) /\ n - 1 <= Len(stack')
          /\ stack' \in Seq(Frames) /\ \A i \in 1..n-1 : stack'[i] = stack[i]
      BY <1>2, <2>1
    <3> QED BY <1>3, <2>2, <2>3, <3>1, MilderBelow
  <2>5. StackInv' /\ ~Ending' /\ ~Opening'
    BY <1>1, <2>1, <2>4, PopStack
  <2>6. JobTypes' /\ NoSelf'
    BY <1>2, <1>3, <2>1, <2>2, <2>3, SelfKept DEF JobTypes, jobVars
  <2>7. BusyInv' /\ LostInv'
    BY <1>3, <1>6, <2>1, <2>2, <2>5 DEF BusyInv, LostInv, jobVars
  <2>8. \A i \in DOMAIN stack' : Update(i)' => i \in DOMAIN stack /\ Update(i)
    BY <1>1, <1>2, <2>1, <2>4, UpdatesBelow
  <2>9. LinkInv'
    BY <1>3, <1>5, <2>2, <2>8 DEF LinkInv
  <2>10. LiveInv'
    <3>1. \A i \in 1..n-1 : ~Live(i)
      <4>1. \A i \in 1..n-1 : i \in DOMAIN stack
        BY <1>2
      <4> QED BY <1>1, <4>1, NoneLive
    <3> QED BY <1>1, <2>1, <2>4, <3>1, PopLive
  <2> QED BY <2>5, <2>6, <2>7, <2>9, <2>10 DEF JobInv
<1>7. CASE busy
  <2>1. UpdateIdle(stack)
    BY <1>7 DEF NavigationRead
  <2>2. /\ UNCHANGED <<destinations, current_dst, graph, path2, link_path,
                       async, route_status>>
        /\ \E K : /\ Milder(legs, legs', K)
                  /\ \A o : Gone(o) => o \notin K
        /\ route_mr' \in Rects
        /\ \/ /\ route_mr' = NoRect
              /\ busy' = FALSE /\ idle_ev' = FALSE /\ idle_events' = 0
              /\ \/ stack' = stack
                 \/ \E b \in BOOLEAN : stack' = Append(stack, UpdateDoneCall(b))
           \/ /\ route_mr' # NoRect /\ stack' = stack
              /\ UNCHANGED <<busy, idle_ev, idle_events>>
    BY <1>3, <1>7, <2>1, UpdateIdleIs
  <2> PICK K : Milder(legs, legs', K) /\ \A o : Gone(o) => o \notin K
    BY <2>2
  <2>3. /\ graph' = graph /\ async' = async /\ path2' = path2
        /\ link_path' = link_path /\ current_dst' = current_dst
        /\ route_status' = route_status
    BY <2>2
  <2>4. /\ stack' \in Seq(Frames) /\ Len(stack') \in Nat /\ n <= Len(stack')
        /\ \A i \in 1..n : stack'[i] = stack[i]
        /\ \A i \in n+1..Len(stack') : i = Len(stack') /\ stack'[i].call = "update_done"
        /\ Len(stack') \in DOMAIN stack' /\ DOMAIN stack' = 1..Len(stack')
        /\ Last(stack').call \in {"update_done", "navigation_read"}
    <3>1. CASE stack' = stack
      <4>1. \A i \in n+1..n : FALSE
        BY <1>2
      <4> QED BY <1>1, <1>2, <1>3, <3>1, <4>1
    <3>2. CASE \E b \in BOOLEAN : stack' = Append(stack, UpdateDoneCall(b))
      <4> PICK b \in BOOLEAN : stack' = Append(stack, UpdateDoneCall(b))
        BY <3>2
      <4>0. UpdateDoneCall(b) \in Frames
        BY FramesAre
      <4>1. /\ stack' \in Seq(Frames)
            /\ Len(stack') = n + 1
            /\ \A i \in 1..n : stack'[i] = stack[i]
            /\ stack'[n + 1] = UpdateDoneCall(b) /\ Last(stack') = UpdateDoneCall(b)
        BY <1>3, <4>0, PushIs
      <4>2. UpdateDoneCall(b).call = "update_done"
        BY DEF UpdateDoneCall
      <4>3. \A i \in n+1..n+1 : i = n + 1
        BY <1>2
      <4> QED BY <1>2, <4>1, <4>2, <4>3
    <3> QED BY <2>2, <3>1, <3>2
  <2> PICK k : k = Len(stack')
    OBVIOUS
  <2>5. Below(n)
    <3>1. n \in Nat /\ n <= Len(stack) /\ n <= Len(stack')
      BY <1>2, <2>4
    <3> QED BY <1>3, <2>3, <2>4, <3>1, MilderBelow
  <2>6. StackInv'
    <3>1. \A i \in 1..n : stack[i].call \notin OnTop
      <4>1. \A i \in 1..n : i \in 1..n-1 \/ i = n
        BY <1>2
      <4> QED BY <1>1, <1>2, <4>1 DEF OnTop
    <3> QED BY <2>4, <2>5, <3>1, StackKept DEF OnTop, Outermost
  <2>7. ~Ending' /\ ~Opening'
    BY <2>4 DEF Ending, Opening, Running
  <2>8. JobTypes' /\ NoSelf'
    <3>1. busy' \in BOOLEAN /\ idle_ev' \in BOOLEAN
      BY <1>3, <2>2 DEF JobTypes
    <3> QED BY <1>3, <2>2, <2>3, <2>4, <3>1, SelfKept DEF JobTypes, Milder
  <2>9. /\ n \in DOMAIN stack' /\ stack'[n].call = "navigation_read"
        /\ \A i \in DOMAIN stack' : Update(i)' => /\ i \in 1..n-1 /\ i \in DOMAIN stack
                                                  /\ Update(i)
    <3>1. n \in 1..n /\ n \in 1..Len(stack')
      BY <1>2, <2>4
    <3>2. \A i \in 1..Len(stack') : i \in 1..n-1 \/ i = n \/ i \in n+1..Len(stack')
      <4>1. k \in Nat
        BY <2>4
      <4>2. \A i \in 1..k : i \in 1..n-1 \/ i = n \/ i \in n+1..k
        BY <1>2, <4>1
      <4> QED BY <4>2
    <3>3. \A i \in 1..n-1 : i \in 1..n
      BY <1>2
    <3> QED BY <1>1, <1>2, <2>4, <3>1, <3>2, <3>3 DEF Update
  <2>10. BusyInv'
    <3>1. CASE /\ route_mr' = NoRect
               /\ busy' = FALSE /\ idle_ev' = FALSE /\ idle_events' = 0
      BY <2>7, <3>1 DEF BusyInv
    <3>2. CASE route_mr' # NoRect /\ UNCHANGED <<busy, idle_ev, idle_events>>
      BY <1>1, <1>3, <1>7, <2>3, <2>7, <2>9, <3>2 DEF BusyInv
    <3> QED BY <2>2, <3>1, <3>2
  <2>11. LostInv'
    <3> SUFFICES ASSUME NEW i \in DOMAIN stack', Update(i)'
                 PROVE  \E j \in i+1..Len(stack') : stack'[j].call = "navigation_read"
      BY <2>7 DEF LostInv
    <3>1. i \in 1..n-1
      BY <2>9
    <3>2. n \in i+1..k
      <4>1. k \in Nat /\ n <= k
        BY <2>4
      <4> QED BY <1>2, <3>1, <4>1
    <3> QED BY <2>9, <3>2
  <2>12. LinkInv'
    BY <1>3, <1>5, <2>3, <2>9 DEF LinkInv
  <2>13. LiveInv'
    <3>1. ASSUME NEW i \in DOMAIN stack', Live(i)' PROVE FALSE
      <4>1. i \in 1..n-1 /\ i \in DOMAIN stack /\ i \in 1..n
        BY <1>2, <2>9, <3>1 DEF Live
      <4>2. Live(i)
        BY <1>3, <2>5, <3>1, <4>1, BelowIs
      <4> QED BY <1>1, <4>1, <4>2, NoneLive
    <3> QED BY <1>4, <2>3, <3>1 DEF LiveInv
  <2> QED BY <2>6, <2>8, <2>10, <2>11, <2>12, <2>13 DEF JobInv
<1> QED BY <1>6, <1>7

-----------------------------------------------------------------------------
(* Between updates *)

\* The stack is empty, or holds a call that updates nothing itself.
AtBottom == stack = <<>> \/ (Len(stack) = 1 /\ stack[1].call \in Outermost)

LEMMA BottomIs ==
    ASSUME JobInv, AtBottom
    PROVE  /\ ~link_path /\ ~Ending /\ ~Opening
           /\ busy => idle_ev /\ route_status \in PathDone
<1>1. \A i \in DOMAIN stack : stack[i].call \in Outermost
  <2>1. stack \in Seq(Frames)
    BY DEF JobInv, JobTypes
  <2> QED BY <2>1 DEF AtBottom
<1>2. ~Ending /\ ~Opening /\ ~Running("update_done")
  <2> SUFFICES ASSUME NEW call, Running(call), call \notin Outermost PROVE FALSE
    BY DEF Ending, Opening, Outermost
  <2>1. stack # <<>>
    BY DEF Running
  <2> QED BY <1>1, <2>1, TopIs
<1>3. \A i \in DOMAIN stack : stack[i].call # "navigation_read" /\ ~Update(i)
  BY <1>1 DEF Outermost, Update
<1>4. ~link_path
  BY <1>2, <1>3 DEF JobInv, LinkInv, Update
<1> QED BY <1>2, <1>3, <1>4 DEF JobInv, BusyInv

LEMMA OutermostIs ==
    ASSUME JobInv, NEW call \in Outermost, Running(call)
    PROVE  AtBottom /\ Caller = <<>>
<1> PICK n : n = Len(stack)
  OBVIOUS
<1>1. /\ n \in Nat /\ n \in DOMAIN stack /\ stack[n].call = call
      /\ Caller \in Seq(Frames) /\ Len(Caller) = n - 1
  BY TopIs DEF Running
<1>2. n = 1
  BY <1>1 DEF JobInv, StackInv
<1>3. Caller = <<>>
  BY <1>1, <1>2
<1> QED BY <1>1, <1>2, <1>3 DEF AtBottom

\* The stacks that an event or such a call leaves
Shallow(s) ==
    \/ s = <<>>
    \/ \E f \in Frames : s = <<f>> /\ f.call \in Outermost \cup {"update_done"}
    \/ \E f, g \in Frames :
          /\ s = <<f, g>> /\ f.call \in Outermost
          /\ \/ g.call = "update_done"
             \/ g.call = "navigation_update" /\ g.status \notin PathDone

LEMMA ShallowIs ==
    ASSUME Shallow(stack')
    PROVE  /\ stack' \in Seq(Frames) /\ StackInv' /\ ~Opening'
           /\ \A i \in DOMAIN stack' : stack'[i].call # "path_new"
<1>1. CASE stack' = <<>>
  BY <1>1 DEF StackInv, Opening, Running
<1>2. ASSUME NEW f \in Frames, stack' = <<f>>,
             f.call \in Outermost \cup {"update_done"}
      PROVE  /\ stack' \in Seq(Frames) /\ StackInv' /\ ~Opening'
             /\ \A i \in DOMAIN stack' : stack'[i].call # "path_new"
  <2>1. /\ stack' \in Seq(Frames) /\ Len(stack') = 1 /\ stack'[1] = f
        /\ DOMAIN stack' = 1..1 /\ \A i \in 1..1 : i = 1
    BY <1>2
  <2>2. Last(stack') = f
    BY <2>1 DEF Last
  <2>3. ~Opening'
    BY <1>2, <2>2 DEF Opening, Running, Outermost
  <2> QED BY <1>2, <2>1, <2>3 DEF StackInv, Outermost, OnTop
<1>3. ASSUME NEW f \in Frames, NEW g \in Frames, stack' = <<f, g>>,
             f.call \in Outermost,
             \/ g.call = "update_done"
             \/ g.call = "navigation_update" /\ g.status \notin PathDone
      PROVE  /\ stack' \in Seq(Frames) /\ StackInv' /\ ~Opening'
             /\ \A i \in DOMAIN stack' : stack'[i].call # "path_new"
  <2>1. /\ stack' \in Seq(Frames) /\ Len(stack') = 2
        /\ stack'[1] = f /\ stack'[2] = g
        /\ DOMAIN stack' = 1..2 /\ \A i \in 1..2 : i = 1 \/ i = 2
    BY <1>3
  <2>2. Last(stack') = g
    BY <2>1 DEF Last
  <2>3. ~Opening'
    BY <1>3, <2>2 DEF Opening, Running
  <2> QED BY <1>3, <2>1, <2>3 DEF StackInv, Outermost, OnTop
<1> QED BY <1>1, <1>2, <1>3 DEF Shallow

LEMMA SetShallow ==
    ASSUME NEW f \in Frames, f.call \in Outermost,
           NEW status \in RouteStatus, status \notin PathDone,
           Set(status, <<f>>)
    PROVE  Shallow(stack') /\ (route_status' = route_status \/ Ending')
<1> PICK called \in Frames :
         /\ called = [call |-> "navigation_update", status |-> status]
         /\ called.call = "navigation_update" /\ called.status = status
  BY FramesAre
<1>1. \/ route_status' = route_status /\ stack' = <<f>>
      \/ stack' = Append(<<f>>, called)
  BY SetIs
<1>2. CASE route_status' = route_status /\ stack' = <<f>>
  BY <1>2 DEF Shallow
<1>3. CASE stack' = Append(<<f>>, called)
  <2>1. stack' = <<f, called>>
    <3>1. <<f>> \in Seq(Frames) /\ Len(<<f>>) = 1 /\ <<f>>[1] = f
      OBVIOUS
    <3>2. /\ stack' \in Seq(Frames) /\ Len(stack') = 2
          /\ stack'[1] = f /\ stack'[2] = called
      BY <1>3, <3>1, PushIs
    <3>3. \A s \in Seq(Frames) : Len(s) = 2 => s = <<s[1], s[2]>>
      OBVIOUS
    <3> QED BY <3>2, <3>3
  <2>2. /\ Last(stack') = called /\ stack' # <<>>
    BY <2>1 DEF Last
  <2>3. Shallow(stack')
    BY <2>1 DEF Shallow
  <2> QED BY <2>2, <2>3 DEF Ending, Running
<1> QED BY <1>1, <1>2, <1>3

LEMMA QuietStep ==
    ASSUME Shallow(stack'), ~link_path', JobTypes', NoSelf', BusyInv'
    PROVE  JobInv'
<1>1. /\ StackInv' /\ ~Opening' /\ \A i \in DOMAIN stack' : ~Update(i)'
  BY ShallowIs DEF Update
<1>2. LostInv' /\ LinkInv' /\ LiveInv'
  BY <1>1 DEF LostInv, LinkInv, LiveInv, Live, First
<1> QED BY <1>1, <1>2 DEF JobInv

\* A job is not disturbed by what happens to the route.
LEMMA EventStep ==
    ASSUME JobInv, AtBottom, Shallow(stack'),
           route_status' = route_status \/ Ending',
           destinations' \in Int, current_dst' \in Int, path2' \in Pointers,
           async' \in BOOLEAN, link_path' = link_path, UNCHANGED jobVars,
           NEW K, Milder(legs, legs', K)
    PROVE  JobInv'
<1>1. JobTypes /\ BusyInv /\ NoSelf
  BY DEF JobInv
<1>2. /\ ~link_path /\ ~Ending /\ ~Opening
      /\ busy => idle_ev /\ route_status \in PathDone
  BY BottomIs
<1>3. ~Opening' /\ stack' \in Seq(Frames)
  BY ShallowIs
<1>4. BusyInv'
  BY <1>1, <1>2, <1>3 DEF BusyInv, jobVars
<1>5. JobTypes' /\ NoSelf'
  BY <1>1, <1>2, <1>3, SelfKept DEF JobTypes, Milder, jobVars
<1> QED BY <1>2, <1>4, <1>5, QuietStep

LEMMA NavigationIdleStep ==
    ASSUME JobInv, NavigationIdle
    PROVE  JobInv' /\ Shallow(stack')
<1>1. stack = <<>> /\ idle_events > 0 /\ UpdateIdle(<<>>)
  BY DEF NavigationIdle
<1>2. AtBottom /\ JobTypes /\ BusyInv /\ NoSelf
  BY <1>1 DEF AtBottom, JobInv
<1>3. busy
  BY <1>1, <1>2 DEF BusyInv
<1>4. ~link_path /\ idle_ev /\ route_status \in PathDone
  BY <1>2, <1>3, BottomIs
<1>5. /\ UNCHANGED <<destinations, current_dst, graph, path2, link_path,
                     async, route_status>>
      /\ \E K : /\ Milder(legs, legs', K)
                /\ \A o : Gone(o) => o \notin K
      /\ route_mr' \in Rects
      /\ \/ /\ route_mr' = NoRect
            /\ busy' = FALSE /\ idle_ev' = FALSE /\ idle_events' = 0
            /\ \/ stack' = <<>>
               \/ \E b \in BOOLEAN : stack' = Append(<<>>, UpdateDoneCall(b))
         \/ /\ route_mr' # NoRect /\ stack' = <<>>
            /\ UNCHANGED <<busy, idle_ev, idle_events>>
  <2>1. <<>> \in Seq(Frames)
    OBVIOUS
  <2> QED BY <1>1, <1>3, <2>1, UpdateIdleIs
<1> PICK K : Milder(legs, legs', K)
  BY <1>5
<1>6. Shallow(stack')
  <2>1. ASSUME NEW b \in BOOLEAN, stack' = Append(<<>>, UpdateDoneCall(b))
        PROVE  Shallow(stack')
    <3>1. UpdateDoneCall(b) \in Frames /\ UpdateDoneCall(b).call = "update_done"
      BY FramesAre DEF UpdateDoneCall
    <3>2. stack' = <<UpdateDoneCall(b)>>
      BY <2>1
    <3> QED BY <3>1, <3>2 DEF Shallow
  <2> QED BY <1>5, <2>1 DEF Shallow
<1>7. ~Opening' /\ stack' \in Seq(Frames)
  BY <1>6, ShallowIs
<1>8. /\ link_path' = link_path /\ route_status' = route_status
      /\ path2' = path2 /\ destinations' = destinations
      /\ current_dst' = current_dst /\ async' = async
  BY <1>5
<1>9. BusyInv'
  <2>1. CASE /\ route_mr' = NoRect
             /\ busy' = FALSE /\ idle_ev' = FALSE /\ idle_events' = 0
    BY <1>7, <2>1 DEF BusyInv
  <2>2. CASE route_mr' # NoRect /\ UNCHANGED <<busy, idle_ev, idle_events>>
    <3>1. ~Opening'
      BY <1>7
    <3> QED BY <1>2, <1>3, <1>4, <1>8, <2>2, <3>1 DEF BusyInv
  <2> QED BY <1>5, <2>1, <2>2
<1>10. busy' \in BOOLEAN /\ idle_ev' \in BOOLEAN
  BY <1>2, <1>5 DEF JobTypes
<1>11. JobTypes'
  BY <1>2, <1>5, <1>7, <1>8, <1>10 DEF JobTypes, Milder
<1>12. NoSelf'
  BY <1>2, SelfKept
<1> QED BY <1>4, <1>6, <1>8, <1>9, <1>11, <1>12, QuietStep

\* The old path is destroyed, and a new graph is begun.
LEMMA CancelIs ==
    ASSUME JobTypes, NEW n, PathUpdateCancel(n, <<>>)
    PROVE  /\ Shallow(stack') /\ (route_status' = route_status \/ Ending')
           /\ path2' \in Pointers /\ Milder(legs, legs', {})
<1> PICK f \in Frames : f = [call |-> "graph_update"]
  BY FramesAre DEF Outermost
<1>1. f.call \in Outermost
  BY DEF Outermost
<1>2. \/ stack' = <<>> /\ route_status' = route_status
      \/ Set("building_graph", <<f>>)
  <2>1. Then(<<>>, "graph_update") = <<f>>
    BY DEF Then
  <2> QED BY <2>1 DEF PathUpdateCancel
<1>3. Shallow(stack') /\ (route_status' = route_status \/ Ending')
  <2>1. "building_graph" \in RouteStatus /\ "building_graph" \notin PathDone
    BY DEF RouteStatus, PathDone
  <2>2. CASE stack' = <<>> /\ route_status' = route_status
    BY <2>2 DEF Shallow
  <2> QED BY <1>1, <1>2, <2>1, <2>2, SetShallow
<1>4. path2' \in Pointers /\ Milder(legs, legs', {})
  BY DestroyedIs DEF PathUpdateCancel, DestroyPath, Pointers, JobTypes
<1> QED BY <1>3, <1>4

LEMMA DoneIs ==
    ASSUME NEW b \in BOOLEAN
    PROVE  /\ Append(<<>>, UpdateDoneCall(b)) = <<UpdateDoneCall(b)>>
           /\ UpdateDoneCall(b) \in Frames
           /\ Shallow(<<UpdateDoneCall(b)>>)
<1>1. UpdateDoneCall(b) \in Frames /\ UpdateDoneCall(b).call = "update_done"
  BY FramesAre DEF UpdateDoneCall
<1> QED BY <1>1 DEF Shallow

LEMMA RouteCallStep ==
    ASSUME JobInv,
           UpdateFlags \/ GraphUpdate \/ DestinationsSet \/ Recalculated
    PROVE  JobInv' /\ Shallow(stack')
<1>1. JobTypes /\ legs \in [LegIds -> Legs]
  BY DEF JobInv, JobTypes
<1>2. Milder(legs, legs, {})
  BY <1>1, SameLegs
<1>3. CASE UpdateFlags
  <2>1. AtBottom /\ Caller = <<>>
    BY <1>3, OutermostIs DEF UpdateFlags, Outermost
  <2> PICK f \in Frames : f = [call |-> "graph_update"]
    BY FramesAre DEF Outermost
  <2>2. Then(<<>>, "graph_update") = <<f>> /\ f.call \in Outermost
    BY DEF Then, Outermost
  <2>3. \/ Set("building_graph", <<f>>)
        \/ stack' = <<>> /\ route_status' = route_status
    BY <1>3, <2>1, <2>2 DEF UpdateFlags
  <2>4. "building_graph" \in RouteStatus /\ "building_graph" \notin PathDone
    BY DEF RouteStatus, PathDone
  <2>5. Shallow(stack') /\ (route_status' = route_status \/ Ending')
    <3>1. CASE stack' = <<>> /\ route_status' = route_status
      BY <3>1 DEF Shallow
    <3> QED BY <2>2, <2>3, <2>4, <3>1, SetShallow
  <2>6. /\ destinations' \in Int /\ current_dst' \in Int /\ path2' \in Pointers
        /\ async' \in BOOLEAN /\ link_path' = link_path /\ UNCHANGED jobVars
        /\ legs' = legs
    BY <1>1, <1>3 DEF UpdateFlags, JobTypes
  <2> QED BY <1>2, <2>1, <2>5, <2>6, EventStep
<1>4. CASE GraphUpdate
  <2>1. AtBottom /\ Caller = <<>>
    BY <1>4, OutermostIs DEF GraphUpdate, Outermost
  <2>2. stack' = <<>> \/ stack' = <<UpdateDoneCall(TRUE)>>
    BY <1>4, <2>1, DoneIs DEF GraphUpdate
  <2>3. Shallow(stack')
    BY <2>2, DoneIs DEF Shallow
  <2>4. /\ destinations' \in Int /\ current_dst' \in Int /\ path2' \in Pointers
        /\ async' \in BOOLEAN /\ link_path' = link_path /\ UNCHANGED jobVars
        /\ legs' = legs /\ route_status' = route_status
    BY <1>1, <1>4 DEF GraphUpdate, JobTypes
  <2> QED BY <1>2, <2>1, <2>3, <2>4, EventStep
<1>5. CASE DestinationsSet
  <2>1. AtBottom /\ Caller = <<>>
    BY <1>5, OutermostIs DEF DestinationsSet, Outermost
  <2>2. PathUpdateCancel(destinations, <<>>)
    BY <1>5, <2>1 DEF DestinationsSet
  <2>3. /\ Shallow(stack') /\ (route_status' = route_status \/ Ending')
        /\ path2' \in Pointers /\ Milder(legs, legs', {})
    BY <1>1, <2>2, CancelIs
  <2>4. /\ destinations' \in Int /\ current_dst' \in Int
        /\ async' \in BOOLEAN /\ link_path' = link_path /\ UNCHANGED jobVars
    BY <1>1, <1>5 DEF DestinationsSet, JobTypes
  <2> QED BY <2>1, <2>3, <2>4, EventStep
<1>6. CASE Recalculated
  <2>1. AtBottom /\ Caller = <<>>
    BY <1>6, OutermostIs DEF Recalculated, Outermost
  <2>2. stack' = <<UpdateDoneCall(FALSE)>>
    BY <1>6, <2>1, DoneIs DEF Recalculated
  <2>3. /\ destinations' \in Int /\ current_dst' \in Int /\ path2' \in Pointers
        /\ async' \in BOOLEAN /\ link_path' = link_path /\ UNCHANGED jobVars
        /\ legs' = legs /\ route_status' = route_status
    BY <1>1, <1>6 DEF Recalculated, routeVars, JobTypes
  <2>4. Shallow(stack')
    BY <2>2, DoneIs
  <2> QED BY <1>2, <2>1, <2>3, <2>4, EventStep
<1> QED BY <1>3, <1>4, <1>5, <1>6

\* What the user, the vehicle and the traffic do to the route
LEMMA RouteEventStep ==
    ASSUME JobInv,
           \/ GraphBuilt
           \/ \E count \in 0..MaxDests, n \in 0..MaxDests, a \in BOOLEAN :
                 n <= count /\ SetDestinations(count, n, a)
           \/ \E a \in BOOLEAN : AppendDestination(a)
           \/ RemoveNthWaypoint \/ RemoveWaypoint
           \/ \E a \in BOOLEAN, rebuild \in BOOLEAN : SetPosition(a, rebuild)
           \/ Recalculate
    PROVE  JobInv' /\ Shallow(stack')
<1>1. JobTypes /\ legs \in [LegIds -> Legs]
  BY DEF JobInv, JobTypes
<1>2. Milder(legs, legs, {})
  BY <1>1, SameLegs
<1>3. stack = <<>> => AtBottom
  BY DEF AtBottom
<1>4. CASE GraphBuilt
  <2>1. stack = <<>> /\ stack' = <<UpdateDoneCall(TRUE)>>
    BY <1>4 DEF GraphBuilt
  <2>2. /\ destinations' \in Int /\ current_dst' \in Int /\ path2' \in Pointers
        /\ async' \in BOOLEAN /\ link_path' = link_path /\ UNCHANGED jobVars
        /\ legs' = legs /\ route_status' = route_status
    BY <1>1, <1>4 DEF GraphBuilt, JobTypes
  <2>3. Shallow(stack')
    BY <2>1, DoneIs
  <2> QED BY <1>2, <1>3, <2>1, <2>2, <2>3, EventStep
<1>5. ASSUME NEW count \in 0..MaxDests, NEW n \in 0..MaxDests, NEW a \in BOOLEAN,
             SetDestinations(count, n, a)
      PROVE  JobInv' /\ Shallow(stack')
  <2> PICK f \in Frames : f = [call |-> "set_destinations"]
    BY FramesAre DEF Outermost
  <2>1. Then(<<>>, "set_destinations") = <<f>> /\ f.call \in Outermost
    BY DEF Then, Outermost
  <2> PICK status : status = IF count = 0 THEN "no_destination" ELSE "destination_set"
    OBVIOUS
  <2>2. stack = <<>> /\ Set(status, <<f>>)
    BY <1>5, <2>1 DEF SetDestinations, Happens
  <2>3. status \in RouteStatus /\ status \notin PathDone
    BY DEF RouteStatus, PathDone
  <2>4. Shallow(stack') /\ (route_status' = route_status \/ Ending')
    BY <2>1, <2>2, <2>3, SetShallow
  <2>5. destinations' \in Int /\ current_dst' \in Int
    <3>1. destinations' = n /\ current_dst' = n
      BY <1>5 DEF SetDestinations
    <3> QED BY <3>1
  <2>6. /\ path2' \in Pointers
        /\ async' \in BOOLEAN /\ link_path' = link_path /\ UNCHANGED jobVars
        /\ legs' = legs
    BY <1>1, <1>5 DEF SetDestinations, JobTypes
  <2> QED BY <1>2, <1>3, <2>2, <2>4, <2>5, <2>6, EventStep
<1>6. ASSUME NEW a \in BOOLEAN, AppendDestination(a)
      PROVE  JobInv' /\ Shallow(stack')
  <2>1. stack = <<>> /\ PathUpdateCancel(destinations', <<>>)
    BY <1>6 DEF AppendDestination, Happens
  <2>2. destinations' \in Int /\ current_dst' \in Int
    <3>1. destinations \in Int /\ destinations' = destinations + 1
          /\ current_dst' = destinations'
      BY <1>1, <1>6 DEF AppendDestination, JobTypes
    <3> QED BY <3>1
  <2>3. /\ async' \in BOOLEAN /\ link_path' = link_path /\ UNCHANGED jobVars
    BY <1>6 DEF AppendDestination
  <2>4. /\ Shallow(stack') /\ (route_status' = route_status \/ Ending')
        /\ path2' \in Pointers /\ Milder(legs, legs', {})
    BY <1>1, <2>1, CancelIs
  <2> QED BY <1>3, <2>1, <2>2, <2>3, <2>4, EventStep
<1>7. CASE RemoveNthWaypoint
  <2>1. stack = <<>> /\ PathUpdateCancel(destinations', <<>>)
    BY <1>7 DEF RemoveNthWaypoint, Happens
  <2>2. destinations' \in Int /\ current_dst' \in Int
    <3>1. destinations \in Int /\ destinations' = destinations - 1
          /\ current_dst' = destinations'
      BY <1>1, <1>7 DEF RemoveNthWaypoint, JobTypes
    <3> QED BY <3>1
  <2>3. /\ async' \in BOOLEAN /\ link_path' = link_path /\ UNCHANGED jobVars
    BY <1>7 DEF RemoveNthWaypoint
  <2>4. /\ Shallow(stack') /\ (route_status' = route_status \/ Ending')
        /\ path2' \in Pointers /\ Milder(legs, legs', {})
    BY <1>1, <2>1, CancelIs
  <2> QED BY <1>3, <2>1, <2>2, <2>3, <2>4, EventStep
<1>8. CASE RemoveWaypoint
  <2>1. stack = <<>> /\ stack' = <<UpdateDoneCall(TRUE)>>
    BY <1>8 DEF RemoveWaypoint, Happens
  <2>2. destinations' \in Int /\ current_dst' \in Int
    <3>1. destinations \in Int /\ destinations' = destinations - 1
          /\ current_dst' = 1
      BY <1>1, <1>8 DEF RemoveWaypoint, JobTypes
    <3> QED BY <3>1
  <2>3. /\ async' \in BOOLEAN /\ link_path' = link_path /\ UNCHANGED jobVars
        /\ route_status' = route_status
    BY <1>1, <1>8 DEF RemoveWaypoint, JobTypes
  <2>4. path2' \in Pointers /\ Milder(legs, legs', {})
    BY <1>1, <1>8, DestroyedIs DEF RemoveWaypoint, Legs
  <2>5. Shallow(stack')
    BY <2>1, DoneIs
  <2> QED BY <1>3, <2>1, <2>2, <2>3, <2>4, <2>5, EventStep
<1>9. ASSUME NEW a \in BOOLEAN, NEW rebuild \in BOOLEAN, SetPosition(a, rebuild)
      PROVE  JobInv' /\ Shallow(stack')
  <2> PICK f \in Frames : f = [call |-> "update_flags", rebuild |-> rebuild]
    BY FramesAre
  <2>1. f.call \in Outermost
    BY DEF Outermost
  <2>2. stack = <<>> /\ (stack' = <<>> \/ stack' = <<f, UpdateDoneCall(FALSE)>>)
    BY <1>9 DEF SetPosition, Happens
  <2>3. Shallow(stack')
    <3>1. UpdateDoneCall(FALSE) \in Frames /\ UpdateDoneCall(FALSE).call = "update_done"
      BY FramesAre DEF UpdateDoneCall
    <3> QED BY <2>1, <2>2, <3>1 DEF Shallow
  <2>4. /\ destinations' \in Int /\ current_dst' \in Int /\ path2' \in Pointers
        /\ async' \in BOOLEAN /\ link_path' = link_path /\ UNCHANGED jobVars
        /\ legs' = legs /\ route_status' = route_status
    BY <1>1, <1>9 DEF SetPosition, JobTypes
  <2> QED BY <1>2, <1>3, <2>2, <2>3, <2>4, EventStep
<1>10. CASE Recalculate
  <2> PICK f \in Frames : f = [call |-> "recalculated"]
    BY FramesAre DEF Outermost
  <2>1. Then(<<>>, "recalculated") = <<f>> /\ f.call \in Outermost
    BY DEF Then, Outermost
  <2>2. stack = <<>> /\ Set("building_graph", <<f>>)
    BY <1>10, <2>1 DEF Recalculate, Happens
  <2>3. "building_graph" \in RouteStatus /\ "building_graph" \notin PathDone
    BY DEF RouteStatus, PathDone
  <2>4. Shallow(stack') /\ (route_status' = route_status \/ Ending')
    BY <2>1, <2>2, <2>3, SetShallow
  <2>5. /\ destinations' \in Int /\ current_dst' \in Int /\ path2' \in Pointers
        /\ async' \in BOOLEAN /\ link_path' = link_path /\ UNCHANGED jobVars
        /\ legs' = legs
    BY <1>1, <1>10 DEF Recalculate, routeVars, JobTypes
  <2> QED BY <1>2, <1>3, <2>2, <2>4, <2>5, EventStep
<1> QED BY <1>4, <1>5, <1>6, <1>7, <1>8, <1>9, <1>10

\* The display list
LEMMA DrawStep ==
    ASSUME JobInv, Draw \/ DrawNextLeg \/ Drawn
    PROVE  JobInv' /\ Shallow(stack')
<1>1. JobTypes /\ legs \in [LegIds -> Legs] /\ stack = <<>> /\ AtBottom
  BY DEF JobInv, JobTypes, Draw, DrawNextLeg, Drawn, Happens, AtBottom
<1>2. /\ destinations' \in Int /\ current_dst' \in Int /\ path2' \in Pointers
      /\ async' \in BOOLEAN /\ link_path' = link_path /\ UNCHANGED jobVars
      /\ route_status' = route_status
  BY <1>1 DEF JobTypes, Draw, DrawNextLeg, Drawn
<1>3. CASE Draw
  <2>1. stack' = <<>> /\ legs' = Held(path2)
    BY <1>1, <1>3 DEF Draw
  <2>2. Milder(legs, legs', {path2} \cap LegIds)
    BY <1>1, <2>1, HeldIs
  <2>3. Shallow(stack')
    BY <2>1 DEF Shallow
  <2> QED BY <1>1, <1>2, <2>2, <2>3, EventStep
<1>4. CASE DrawNextLeg
  <2> PICK l : l = legs[drawn].next
    OBVIOUS
  <2>1. stack' = <<>> /\ legs' = Release(Held(l), {drawn})
    BY <1>1, <1>4 DEF DrawNextLeg
  <2>2. Milder(legs, Held(l), {l} \cap LegIds)
    BY <1>1, HeldIs
  <2>3. Held(l) \in [LegIds -> Legs]
    BY <2>2 DEF Milder
  <2>4. Milder(Held(l), legs', {})
    BY <2>1, <2>3, ReleaseIs
  <2>5. Milder(legs, legs', {l} \cap LegIds)
    BY <1>1, <2>2, <2>3, <2>4, MilderTwice
  <2>6. Shallow(stack')
    BY <2>1 DEF Shallow
  <2> QED BY <1>1, <1>2, <2>5, <2>6, EventStep
<1>5. CASE Drawn
  <2>1. CloseRect(drawn, <<>>) /\ <<>> \in Seq(Frames)
    BY <1>5 DEF Drawn
  <2>2. /\ Milder(legs, legs', {})
        /\ \/ stack' = <<>>
           \/ \E b \in BOOLEAN : stack' = Append(<<>>, UpdateDoneCall(b))
    BY <1>1, <2>1, CloseIs
  <2>3. Shallow(stack')
    BY <2>2, DoneIs DEF Shallow
  <2> QED BY <1>1, <1>2, <2>2, <2>3, EventStep
<1> QED BY <1>3, <1>4, <1>5

-----------------------------------------------------------------------------

LEMMA JobInit == Init => JobInv
<1> SUFFICES ASSUME Init PROVE JobInv
  OBVIOUS
<1>1. JobTypes
  <2>1. legs \in [LegIds -> Legs]
    BY FreeLegIs DEF Init
  <2>2. route_mr \in Rects
    BY DEF Init, NoRect, Rects
  <2>3. stack \in Seq(Frames)
    BY DEF Init
  <2>4. destinations \in Int /\ current_dst \in Int /\ path2 \in Pointers
    BY DEF Init, Pointers
  <2>5. /\ link_path \in BOOLEAN /\ async \in BOOLEAN
        /\ busy \in BOOLEAN /\ idle_ev \in BOOLEAN
    BY Zenon DEF Init
  <2> QED BY <2>1, <2>2, <2>3, <2>4, <2>5, Zenon DEF JobTypes
<1>2. stack = <<>> /\ DOMAIN stack = {}
  BY DEF Init
<1>3. StackInv /\ LostInv /\ LiveInv
  BY <1>2 DEF StackInv, LostInv, LiveInv, Update, Live, First
<1>4. BusyInv /\ LinkInv
  BY <1>2 DEF Init, BusyInv, LinkInv, Opening, Running
<1>5. NoSelf
  BY NavigationAssumption, FreeLegIs DEF Init, NoSelf
<1> QED BY <1>1, <1>3, <1>4, <1>5 DEF JobInv

LEMMA JobStep == JobInv /\ [Next]_vars => JobInv'
<1> SUFFICES ASSUME JobInv, [Next]_vars PROVE JobInv'
  OBVIOUS
<1>1. CASE RouteCall
  BY <1>1, UpdateDoneStep, PathFoundStep, PathNotFoundStep, RouteCallStep
     DEF RouteCall
<1>2. CASE NavigationCall
  BY <1>2, NavigationUpdateStep, NavigationOpenStep, NavigationReadStep
     DEF NavigationCall
<1>3. CASE NavigationIdle
  BY <1>3, NavigationIdleStep
<1>4. CASE \/ GraphBuilt
           \/ \E count \in 0..MaxDests, n \in 0..MaxDests, a \in BOOLEAN :
                 n <= count /\ SetDestinations(count, n, a)
           \/ \E a \in BOOLEAN : AppendDestination(a)
           \/ RemoveNthWaypoint \/ RemoveWaypoint
           \/ \E a \in BOOLEAN, rebuild \in BOOLEAN : SetPosition(a, rebuild)
           \/ Recalculate
  BY <1>4, RouteEventStep
<1>5. CASE Draw \/ DrawNextLeg \/ Drawn
  BY <1>5, DrawStep
<1>6. CASE UNCHANGED vars
  <2>1. /\ UNCHANGED <<destinations, current_dst, graph, legs, path2, link_path,
                       async, route_status, stack>>
        /\ UNCHANGED <<route_mr, busy, idle_ev, idle_events>>
    BY <1>6 DEF vars, routeVars, jobVars
  <2>2. JobTypes' /\ StackInv' /\ BusyInv' /\ NoSelf'
    BY <2>1 DEF JobInv, JobTypes, StackInv, BusyInv, Ending, Opening, Running, NoSelf
  <2>3. LostInv'
    BY <2>1 DEF JobInv, LostInv, Ending, Opening, Running, Update, Harmless, Lost, Gone
  <2>4. LinkInv'
    BY <2>1 DEF JobInv, LinkInv, Ending, Running, Update, Live, Lost, Gone
  <2>5. LiveInv'
    BY <2>1 DEF JobInv, LiveInv, Ending, Running, Update, Live, First, Lost, Gone
  <2> QED BY <2>2, <2>3, <2>4, <2>5 DEF JobInv
<1> QED BY <1>1, <1>2, <1>3, <1>4, <1>5, <1>6 DEF Next

\* When no call is under way the job, its map rect and its idle event are
\* there together or not at all, and there is never a second idle event:
\* navigation_update_done and the start of a job in navigation_update keep
\* them so however the updates nest.
THEOREM JobCorrect == Spec => []OneJob
<1>1. JobInv => OneJob
  <2> SUFFICES ASSUME JobInv PROVE OneJob
    OBVIOUS
  <2>1. AtRest => (busy => idle_ev)
    BY BottomIs DEF AtRest, AtBottom
  <2> QED BY <2>1 DEF JobInv, JobTypes, BusyInv, OneJob
<1> QED BY <1>1, JobInit, JobStep, PTL DEF Spec

-----------------------------------------------------------------------------
(* The path and its readers *)

\* The readers of each leg, beside the route
Readers == [l \in LegIds |-> (IF route_mr.leg = l THEN 1 ELSE 0)
                             + (IF drawn = l THEN 1 ELSE 0)]

\* From p on the legs in C lead to one another, and to the end: each is held
\* by the route and by its readers.
Leads(ls, rd, p, C) ==
    /\ C \in SUBSET LegIds /\ p \in C \cup {NoLeg}
    /\ \A l \in C : /\ ls[l].next \in C \cup {NoLeg}
                    /\ ls[l].next \in LegIds => ls[l].next # p
                    /\ ls[l].in_use >= 1 + rd[l]
    /\ \A k, l \in C : ls[k].next = ls[l].next /\ ls[k].next \in LegIds => k = l
Bounded(ls, rd) ==
    \A l \in LegIds : rd[l] <= ls[l].in_use /\ ls[l].in_use <= 1 + rd[l]

PathInv ==
    /\ drawn \in LegIds \cup {NoLeg, Closed}
    /\ \A i \in DOMAIN stack : Update(i) => stack[i].oldpath # FreedLeg
    /\ Bounded(legs, Readers)
    /\ \E p \in LegIds \cup {NoLeg}, C \in SUBSET LegIds :
          /\ Leads(legs, Readers, p, C)
          /\ path2 \in {p, NoLeg}
          /\ \A i \in DOMAIN stack : Live(i) => stack[i].oldpath = p

LEMMA ReleaseOne ==
    ASSUME NEW ls \in [LegIds -> Legs], NEW x, NEW l \in LegIds
    PROVE  /\ l # x => Release(ls, {x})[l].in_use = ls[l].in_use
           /\ l # x /\ ls[l].next # x => Release(ls, {x})[l].next = ls[l].next
           /\ l = x /\ ls[l].in_use <= 1 => Release(ls, {x})[l].in_use = 0
           /\ l = x /\ ls[l].in_use >= 2 =>
                 Release(ls, {x})[l].in_use = ls[l].in_use - 1
           /\ (x \in LegIds => ls[x].in_use >= 2) =>
                 Release(ls, {x})[l].next = ls[l].next
<1> DEFINE F == {k \in {x} \cap LegIds : ls[k].in_use <= 1}
           u == IF l \in {x} THEN ls[l].in_use - 1 ELSE ls[l].in_use
           y == IF ls[l].next \in F THEN FreedLeg ELSE ls[l].next
<1> PICK r : r = Release(ls, {x})[l]
  OBVIOUS
<1>1. /\ l \in F => r = FreeLeg
      /\ l \notin F => r = [ls[l] EXCEPT !.in_use = u, !.next = y]
  BY DEF Release, Legs
<1>2. ls[l] \in Legs /\ ls[l].in_use \in Nat
  BY DEF Legs
<1>3. x \in LegIds => ls[x].in_use \in Nat
  BY DEF Legs
<1> PICK v, z : v = u /\ z = y
  OBVIOUS
<1>4. l \notin F => r.in_use = v /\ r.next = z
  <2>1. l \notin F => r = [ls[l] EXCEPT !.in_use = v, !.next = z]
    BY <1>1
  <2> HIDE DEF F, u, y
  <2> QED BY <1>2, <2>1 DEF Legs
<1>5. l \in F => r.in_use = 0
  BY <1>1, FreeLegIs
<1>6. l \in F <=> l = x /\ ls[l].in_use <= 1
  OBVIOUS
<1>7. ls[l].next # x => ls[l].next \notin F
  OBVIOUS
<1>8. (x \in LegIds => ls[x].in_use >= 2) => F = {}
  BY <1>3
<1>9. v = IF l = x THEN ls[l].in_use - 1 ELSE ls[l].in_use
  OBVIOUS
<1>10. z = IF ls[l].next \in F THEN FreedLeg ELSE ls[l].next
  OBVIOUS
<1> HIDE DEF F, u, y
<1> QED BY <1>2, <1>4, <1>5, <1>6, <1>7, <1>8, <1>9, <1>10

\* A reader less
LEMMA ReleaseLeads ==
    ASSUME NEW ls \in [LegIds -> Legs], NEW x,
           NEW rd \in [LegIds -> Nat], NEW rs \in [LegIds -> Nat],
           \A l \in LegIds : rd[l] = rs[l] + (IF l = x THEN 1 ELSE 0)
    PROVE  /\ Bounded(ls, rd) => Bounded(Release(ls, {x}), rs)
           /\ \A p, C : Leads(ls, rd, p, C) => Leads(Release(ls, {x}), rs, p, C)
<1> PICK ms : ms = Release(ls, {x})
  OBVIOUS
<1>1. \A l \in LegIds : ls[l].in_use \in Nat
  BY DEF Legs
<1>2. ASSUME Bounded(ls, rd) PROVE Bounded(ms, rs)
  <2> SUFFICES ASSUME NEW l \in LegIds
               PROVE  rs[l] <= ms[l].in_use /\ ms[l].in_use <= 1 + rs[l]
    BY DEF Bounded
  <2>1. /\ rd[l] <= ls[l].in_use /\ ls[l].in_use <= 1 + rd[l]
        /\ ls[l].in_use \in Nat /\ rs[l] \in Nat
        /\ rd[l] = rs[l] + (IF l = x THEN 1 ELSE 0)
    BY <1>1, <1>2 DEF Bounded
  <2>2. /\ l # x => ms[l].in_use = ls[l].in_use
        /\ l = x /\ ls[l].in_use <= 1 => ms[l].in_use = 0
        /\ l = x /\ ls[l].in_use >= 2 => ms[l].in_use = ls[l].in_use - 1
    BY ReleaseOne
  <2>3. CASE l = x
    <3>1. ls[l].in_use <= 1 \/ ls[l].in_use >= 2
      BY <2>1
    <3> QED BY <2>1, <2>2, <2>3, <3>1
  <2>4. CASE l # x
    BY <2>1, <2>2, <2>4
  <2> QED BY <2>3, <2>4
<1>3. ASSUME NEW p, NEW C, Leads(ls, rd, p, C) PROVE Leads(ms, rs, p, C)
  <2>1. /\ C \in SUBSET LegIds /\ p \in C \cup {NoLeg}
        /\ \A l \in C : /\ ls[l].next \in C \cup {NoLeg}
                        /\ ls[l].next \in LegIds => ls[l].next # p
                        /\ ls[l].in_use >= 1 + rd[l]
        /\ \A k, l \in C : ls[k].next = ls[l].next /\ ls[k].next \in LegIds => k = l
    BY <1>3 DEF Leads
  <2>2. x \in C => ls[x].in_use >= 2
    <3> SUFFICES ASSUME x \in C PROVE ls[x].in_use >= 2
      OBVIOUS
    <3>1. /\ x \in LegIds /\ rd[x] = rs[x] + 1 /\ rs[x] \in Nat
          /\ ls[x].in_use >= 1 + rd[x] /\ ls[x].in_use \in Nat
      BY <1>1, <2>1
    <3> QED BY <3>1
  <2>3. ASSUME NEW l \in C
        PROVE  ms[l].next = ls[l].next /\ ms[l].in_use >= 1 + rs[l]
    <3>1. /\ l \in LegIds /\ ls[l].in_use >= 1 + rd[l] /\ ls[l].in_use \in Nat
          /\ rd[l] = rs[l] + (IF l = x THEN 1 ELSE 0) /\ rs[l] \in Nat
          /\ ls[l].next \in C \cup {NoLeg}
      BY <1>1, <2>1
    <3>2. /\ l # x => ms[l].in_use = ls[l].in_use
          /\ l # x /\ ls[l].next # x => ms[l].next = ls[l].next
          /\ l = x /\ ls[l].in_use >= 2 => ms[l].in_use = ls[l].in_use - 1
          /\ (x \in LegIds => ls[x].in_use >= 2) => ms[l].next = ls[l].next
      BY <3>1, ReleaseOne
    <3>3. ms[l].next = ls[l].next
      <4>1. CASE x \in C
        BY <2>2, <3>2, <4>1
      <4>2. CASE x \notin C /\ x # ls[l].next
        BY <3>2, <4>2
      <4>3. CASE x \notin C /\ x = ls[l].next
        <5>1. x = NoLeg
          BY <3>1, <4>3
        <5> QED BY <3>2, <5>1, NavigationAssumption
      <4> QED BY <4>1, <4>2, <4>3
    <3>4. ms[l].in_use >= 1 + rs[l]
      <4>1. CASE l = x
        BY <2>2, <3>1, <3>2, <4>1
      <4>2. CASE l # x
        BY <3>1, <3>2, <4>2
      <4> QED BY <4>1, <4>2
    <3> QED BY <3>3, <3>4
  <2>4. \A l \in C : /\ ms[l].next \in C \cup {NoLeg}
                     /\ ms[l].next \in LegIds => ms[l].next # p
                     /\ ms[l].in_use >= 1 + rs[l]
    BY <2>1, <2>3
  <2>5. ASSUME NEW k \in C, NEW l \in C, ms[k].next = ms[l].next,
               ms[k].next \in LegIds
        PROVE  k = l
    <3>1. ms[k].next = ls[k].next /\ ms[l].next = ls[l].next
      BY <2>3
    <3> QED BY <2>1, <2>5, <3>1
  <2> QED BY <2>1, <2>4, <2>5 DEF Leads
<1> QED BY <1>2, <1>3

\* A reader more
LEMMA HeldLeads ==
    ASSUME legs \in [LegIds -> Legs], NEW x,
           NEW rd \in [LegIds -> Nat], NEW rs \in [LegIds -> Nat],
           \A l \in LegIds : rs[l] = rd[l] + (IF l = x THEN 1 ELSE 0)
    PROVE  /\ Held(x) \in [LegIds -> Legs]
           /\ Bounded(legs, rd) => Bounded(Held(x), rs)
           /\ \A p, C : Leads(legs, rd, p, C) => Leads(Held(x), rs, p, C)
<1> PICK ms : ms = Held(x)
  OBVIOUS
<1>1. ASSUME NEW l \in LegIds
      PROVE  /\ legs[l].in_use \in Nat
             /\ ms[l].in_use = legs[l].in_use + (IF l = x THEN 1 ELSE 0)
             /\ ms[l].next = legs[l].next
  <2>1. legs[l] \in Legs /\ legs[l].in_use \in Nat
    BY DEF Legs
  <2>2. CASE l # x
    BY <2>1, <2>2 DEF Held
  <2>3. CASE l = x
    <3>1. ms[l] = [legs[l] EXCEPT !.in_use = legs[l].in_use + 1]
      BY <2>3 DEF Held
    <3> QED BY <2>1, <2>3, <3>1 DEF Legs
  <2> QED BY <2>1, <2>2, <2>3
<1>2. Held(x) \in [LegIds -> Legs]
  BY HeldIs DEF Milder
<1>3. Bounded(legs, rd) => Bounded(ms, rs)
  <2> SUFFICES ASSUME Bounded(legs, rd), NEW l \in LegIds
               PROVE  rs[l] <= ms[l].in_use /\ ms[l].in_use <= 1 + rs[l]
    BY DEF Bounded
  <2>1. /\ rd[l] <= legs[l].in_use /\ legs[l].in_use <= 1 + rd[l] /\ rd[l] \in Nat
        /\ rs[l] = rd[l] + (IF l = x THEN 1 ELSE 0)
    BY DEF Bounded
  <2> QED BY <1>1, <2>1
<1>4. ASSUME NEW p, NEW C, Leads(legs, rd, p, C) PROVE Leads(ms, rs, p, C)
  <2>1. ASSUME NEW l \in C
        PROVE  l \in LegIds /\ ms[l].next = legs[l].next /\ ms[l].in_use >= 1 + rs[l]
    <3>1. /\ l \in LegIds /\ legs[l].in_use >= 1 + rd[l] /\ rd[l] \in Nat
          /\ rs[l] = rd[l] + (IF l = x THEN 1 ELSE 0)
      BY <1>4 DEF Leads
    <3> QED BY <1>1, <3>1
  <2> QED BY <1>4, <2>1 DEF Leads
<1> QED BY <1>2, <1>3, <1>4

\* The readers and their legs may change together.
ReadersKept ==
    /\ Bounded(legs, Readers) => Bounded(legs', Readers')
    /\ \A p, C : Leads(legs, Readers, p, C) => Leads(legs', Readers', p, C)

LEMMA ReadersAre ==
    /\ Readers \in [LegIds -> Nat]
    /\ \A l \in LegIds : Readers[l] = (IF route_mr.leg = l THEN 1 ELSE 0)
                                      + (IF drawn = l THEN 1 ELSE 0)
BY DEF Readers

LEMMA ReadersWere ==
    /\ Readers' \in [LegIds -> Nat]
    /\ \A l \in LegIds : Readers'[l] = (IF route_mr'.leg = l THEN 1 ELSE 0)
                                       + (IF drawn' = l THEN 1 ELSE 0)
BY DEF Readers

LEMMA SameReaders ==
    ASSUME route_mr'.leg = route_mr.leg, drawn' = drawn
    PROVE  Readers' = Readers
BY DEF Readers

\* Legs that are linked and held as before
LEMMA AlikeKept ==
    ASSUME Readers' = Readers,
           \A l \in LegIds : legs'[l].in_use = legs[l].in_use
                             /\ legs'[l].next = legs[l].next
    PROVE  ReadersKept
<1>1. Bounded(legs, Readers) => Bounded(legs', Readers')
  BY DEF Bounded
<1>2. ASSUME NEW p, NEW C, Leads(legs, Readers, p, C)
      PROVE  Leads(legs', Readers', p, C)
  <2>1. \A l \in C : legs'[l].in_use = legs[l].in_use
                     /\ legs'[l].next = legs[l].next
    BY <1>2 DEF Leads
  <2> QED BY <1>2, <2>1 DEF Leads
<1> QED BY <1>1, <1>2 DEF ReadersKept

\* The map rect of the job is closed, or that of the display list.
LEMMA CloseKept ==
    ASSUME JobTypes, NEW x, legs' = Release(legs, {x}),
           \/ x = route_mr.leg /\ route_mr' = NoRect /\ drawn' = drawn
           \/ x = drawn /\ drawn' = Closed /\ route_mr' = route_mr
    PROVE  ReadersKept
<1>1. legs \in [LegIds -> Legs]
  BY DEF JobTypes
<1>2. NoRect.leg = Closed /\ Closed \notin LegIds
  BY NavigationAssumption DEF NoRect
<1>3. ASSUME NEW l \in LegIds
      PROVE  Readers[l] = Readers'[l] + (IF l = x THEN 1 ELSE 0)
  <2>1. CASE x = route_mr.leg /\ route_mr' = NoRect /\ drawn' = drawn
    BY <1>2, <2>1, ReadersAre, ReadersWere
  <2>2. CASE x = drawn /\ drawn' = Closed /\ route_mr' = route_mr
    BY <1>2, <2>2, ReadersAre, ReadersWere
  <2> QED BY <2>1, <2>2
<1> QED BY <1>1, <1>3, ReadersAre, ReadersWere, ReleaseLeads DEF ReadersKept

\* One is opened.
LEMMA OpenKept ==
    ASSUME JobTypes, NEW x, legs' = Held(x),
           \/ route_mr = NoRect /\ route_mr'.leg = x /\ drawn' = drawn
           \/ drawn = Closed /\ drawn' = x /\ route_mr' = route_mr
    PROVE  ReadersKept
<1>1. legs \in [LegIds -> Legs]
  BY DEF JobTypes
<1>2. NoRect.leg = Closed /\ Closed \notin LegIds
  BY NavigationAssumption DEF NoRect
<1>3. ASSUME NEW l \in LegIds
      PROVE  Readers'[l] = Readers[l] + (IF l = x THEN 1 ELSE 0)
  <2>1. CASE route_mr = NoRect /\ route_mr'.leg = x /\ drawn' = drawn
    BY <1>2, <2>1, ReadersAre, ReadersWere
  <2>2. CASE drawn = Closed /\ drawn' = x /\ route_mr' = route_mr
    BY <1>2, <2>2, ReadersAre, ReadersWere
  <2> QED BY <2>1, <2>2
<1> QED BY <1>1, <1>3, ReadersAre, ReadersWere, HeldLeads DEF ReadersKept

\* One goes on to the next leg.
LEMMA MoveKept ==
    ASSUME JobTypes, NEW x, NEW y, legs' = Release(Held(y), {x}),
           \/ x = route_mr.leg /\ route_mr'.leg = y /\ drawn' = drawn
           \/ x = drawn /\ drawn' = y /\ route_mr' = route_mr
    PROVE  ReadersKept
<1>1. legs \in [LegIds -> Legs]
  BY DEF JobTypes
<1> DEFINE more == [l \in LegIds |-> Readers[l] + (IF l = y THEN 1 ELSE 0)]
<1>2. /\ more \in [LegIds -> Nat]
      /\ \A l \in LegIds : more[l] = Readers[l] + (IF l = y THEN 1 ELSE 0)
  BY ReadersAre
<1> HIDE DEF more
<1>3. ASSUME NEW l \in LegIds
      PROVE  more[l] = Readers'[l] + (IF l = x THEN 1 ELSE 0)
  <2>1. CASE x = route_mr.leg /\ route_mr'.leg = y /\ drawn' = drawn
    BY <1>2, <2>1, ReadersAre, ReadersWere
  <2>2. CASE x = drawn /\ drawn' = y /\ route_mr' = route_mr
    BY <1>2, <2>2, ReadersAre, ReadersWere
  <2> QED BY <2>1, <2>2
<1>4. /\ Held(y) \in [LegIds -> Legs]
      /\ Bounded(legs, Readers) => Bounded(Held(y), more)
      /\ \A p, C : Leads(legs, Readers, p, C) => Leads(Held(y), more, p, C)
  BY <1>1, <1>2, ReadersAre, HeldLeads
<1>5. /\ Bounded(Held(y), more) => Bounded(legs', Readers')
      /\ \A p, C : Leads(Held(y), more, p, C) => Leads(legs', Readers', p, C)
  BY <1>2, <1>3, <1>4, ReadersWere, ReleaseLeads
<1> QED BY <1>4, <1>5 DEF ReadersKept

\* Steps that leave the path where it is
LEMMA PathKept ==
    ASSUME PathInv, JobInv', ReadersKept, path2' = path2,
           drawn' \in LegIds \cup {NoLeg, Closed},
           \A i \in DOMAIN stack' : Update(i)' => stack'[i].oldpath # FreedLeg,
           path2 \notin LegIds => \A i \in DOMAIN stack' : Live(i)' =>
              i \in DOMAIN stack /\ Live(i) /\ stack'[i] = stack[i]
    PROVE  PathInv'
<1>1. PICK p \in LegIds \cup {NoLeg}, C \in SUBSET LegIds :
          /\ Leads(legs, Readers, p, C)
          /\ path2 \in {p, NoLeg}
          /\ \A i \in DOMAIN stack : Live(i) => stack[i].oldpath = p
  BY DEF PathInv
<1>2. Leads(legs', Readers', p, C) /\ Bounded(legs', Readers')
  BY <1>1 DEF PathInv, ReadersKept
<1>3. ASSUME NEW i \in DOMAIN stack', Live(i)' PROVE stack'[i].oldpath = p
  <2>1. CASE path2 \in LegIds
    <3>1. path2' = stack'[i].oldpath
      BY <1>3, <2>1 DEF JobInv, LiveInv
    <3> QED BY <1>1, <2>1, <3>1, NavigationAssumption
  <2>2. CASE path2 \notin LegIds
    BY <1>1, <1>3, <2>2
  <2> QED BY <2>1, <2>2
<1> QED BY <1>1, <1>2, <1>3 DEF PathInv

\* An update that can still go on could before.
LEMMA LiveKept ==
    ASSUME JobInv, NEW K, Milder(legs, legs', K), graph' = graph,
           path2' = path2 \/ path2' = NoLeg,
           NEW i \in DOMAIN stack, stack'[i] = stack[i],
           Gone(stack[i].oldpath) => stack[i].oldpath \notin K, Live(i)'
    PROVE  Live(i)
<1>1. Gone(stack[i].oldpath) => Gone(stack[i].oldpath)'
  <2>1. PICK o : o = stack[i].oldpath
    OBVIOUS
  <2>2. Gone(o) => Gone(o)'
    BY <2>1, GoneKept DEF JobInv
  <2> QED BY <2>1, <2>2
<1> QED BY <1>1 DEF Live, Lost, Update

\* No update is begun.
NoNewUpdate ==
    \A i \in DOMAIN stack' : Update(i)' => i \in DOMAIN stack /\ stack'[i] = stack[i]

LEMMA NoNewIs ==
    ASSUME JobInv, NEW s, s = stack \/ (stack # <<>> /\ s = Caller),
           \/ stack' = s
           \/ \E f \in Frames : stack' = Append(s, f) /\ f.call # "path_new"
    PROVE  NoNewUpdate
<1>1. stack \in Seq(Frames)
  BY DEF JobInv, JobTypes
<1>2. /\ s \in Seq(Frames)
      /\ \A i \in DOMAIN s : i \in DOMAIN stack /\ s[i] = stack[i]
  <2>1. CASE s = stack
    BY <1>1, <2>1
  <2>2. CASE stack # <<>> /\ s = Caller
    <3> PICK n : n = Len(stack)
      OBVIOUS
    <3>1. /\ n \in Nat /\ n >= 1 /\ DOMAIN stack = 1..n
          /\ s \in Seq(Frames) /\ Len(s) = n - 1
          /\ \A i \in 1..n-1 : s[i] = stack[i]
      BY <2>2, TopIs
    <3>2. DOMAIN s = 1..n-1 /\ \A i \in 1..n-1 : i \in 1..n
      BY <3>1
    <3> QED BY <3>1, <3>2
  <2> QED BY <2>1, <2>2
<1>3. CASE stack' = s
  BY <1>2, <1>3 DEF NoNewUpdate, Update
<1>4. ASSUME NEW f \in Frames, stack' = Append(s, f), f.call # "path_new"
      PROVE  NoNewUpdate
  <2> PICK k : k = Len(s)
    OBVIOUS
  <2>1. /\ stack' \in Seq(Frames) /\ k \in Nat
        /\ Len(stack') = k + 1
        /\ \A i \in 1..k : stack'[i] = s[i]
        /\ stack'[k + 1] = f
    BY <1>2, <1>4, PushIs
  <2>2. DOMAIN stack' = 1..k+1 /\ DOMAIN s = 1..k
    BY <1>2, <2>1
  <2>3. \A i \in 1..k+1 : i \in 1..k \/ i = k + 1
    BY <2>1
  <2> QED BY <1>2, <1>4, <2>1, <2>2, <2>3 DEF NoNewUpdate, Update
<1> QED BY <1>3, <1>4

LEMMA ShallowNew ==
    ASSUME Shallow(stack')
    PROVE  NoNewUpdate /\ \A i \in DOMAIN stack' : ~Update(i)' /\ ~Live(i)'
BY ShallowIs DEF NoNewUpdate, Update, Live

LEMMA NoNewKept ==
    ASSUME PathInv, JobInv, JobInv', NoNewUpdate, ReadersKept, path2' = path2,
           drawn' \in LegIds \cup {NoLeg, Closed},
           \/ \A i \in DOMAIN stack' : ~Live(i)'
           \/ /\ graph' = graph
              /\ \E K : /\ Milder(legs, legs', K)
                        /\ \A o : Gone(o) => o \notin K
    PROVE  PathInv'
<1>1. \A i \in DOMAIN stack' : Update(i)' => stack'[i].oldpath # FreedLeg
  <2> SUFFICES ASSUME NEW i \in DOMAIN stack', Update(i)'
               PROVE  stack'[i].oldpath # FreedLeg
    OBVIOUS
  <2>1. i \in DOMAIN stack /\ stack'[i] = stack[i]
    BY DEF NoNewUpdate
  <2> QED BY <2>1 DEF PathInv, Update
<1>2. ASSUME NEW i \in DOMAIN stack', Live(i)'
      PROVE  i \in DOMAIN stack /\ Live(i) /\ stack'[i] = stack[i]
  <2>1. i \in DOMAIN stack /\ stack'[i] = stack[i]
    BY <1>2 DEF NoNewUpdate, Live
  <2>2. graph' = graph /\ \E K : /\ Milder(legs, legs', K)
                                 /\ \A o : Gone(o) => o \notin K
    BY <1>2
  <2> QED BY <1>2, <2>1, <2>2, LiveKept
<1> QED BY <1>1, <1>2, PathKept

LEMMA MildSame ==
    ASSUME JobInv, legs' = legs
    PROVE  \E K : Milder(legs, legs', K) /\ \A o : Gone(o) => o \notin K
<1>1. Milder(legs, legs', {})
  BY SameLegs DEF JobInv, JobTypes
<1> QED BY <1>1

LEMMA NavigationUpdatePath ==
    ASSUME PathInv, JobInv, JobInv', NavigationUpdate
    PROVE  PathInv'
<1>1. /\ JobTypes /\ stack # <<>> /\ path2' = path2 /\ drawn' = drawn /\ graph' = graph
      /\ drawn \in LegIds \cup {NoLeg, Closed}
  BY DEF JobInv, NavigationUpdate, Running, PathInv
<1>2. Caller \in Seq(Frames)
  BY <1>1, TopIs
<1> PICK open \in Frames : open = [call |-> "navigation_open"]
  BY FramesAre
<1>3. open.call # "path_new" /\ Then(Caller, "navigation_open") = Append(Caller, open)
  BY DEF Then
<1>4. \A b \in BOOLEAN : UpdateDoneCall(b) \in Frames /\ UpdateDoneCall(b).call # "path_new"
  BY FramesAre DEF UpdateDoneCall
<1>5. CASE stack' = Caller /\ UNCHANGED <<legs, jobVars>>
  <2>1. ReadersKept
    BY <1>1, <1>5, SameReaders, AlikeKept DEF jobVars
  <2>2. NoNewUpdate
    BY <1>1, <1>5, NoNewIs
  <2> QED BY <1>1, <1>5, <2>1, <2>2, MildSame, NoNewKept
<1>6. CASE EndJob(Caller)
  <2>1. CloseRect(route_mr.leg, Caller) /\ route_mr' = NoRect
    BY <1>6 DEF EndJob
  <2>2. /\ Milder(legs, legs', {})
        /\ \/ stack' = Caller
           \/ \E b \in BOOLEAN : stack' = Append(Caller, UpdateDoneCall(b))
    BY <1>1, <1>2, <2>1, CloseIs
  <2>3. ReadersKept
    BY <1>1, <2>1, CloseKept DEF CloseRect
  <2>4. NoNewUpdate
    BY <1>1, <1>4, <2>2, NoNewIs
  <2> QED BY <1>1, <2>2, <2>3, <2>4, NoNewKept
<1>7. CASE CloseRect(route_mr.leg, Then(Caller, "navigation_open")) /\ route_mr' = NoRect
           /\ ~busy
  <2>0. Append(Caller, open) \in Seq(Frames)
    BY <1>2
  <2>1. Milder(legs, legs', {}) /\ stack' = Append(Caller, open)
    BY <1>1, <1>3, <1>7, <2>0, CloseIs, NoMapRect
  <2>2. ReadersKept
    BY <1>1, <1>7, CloseKept DEF CloseRect
  <2>3. NoNewUpdate
    BY <1>1, <1>3, <2>1, NoNewIs
  <2> QED BY <1>1, <2>1, <2>2, <2>3, NoNewKept
<1>8. Last(stack).status \in PathDone => ~busy
  BY DEF NavigationUpdate, JobInv, BusyInv, Opening
<1> QED BY <1>5, <1>6, <1>7, <1>8 DEF NavigationUpdate

LEMMA NavigationOpenPath ==
    ASSUME PathInv, JobInv, JobInv', NavigationOpen
    PROVE  PathInv'
<1>1. /\ JobTypes /\ stack # <<>> /\ path2' = path2 /\ drawn' = drawn /\ graph' = graph
      /\ drawn \in LegIds \cup {NoLeg, Closed}
      /\ legs' = Held(path2) /\ route_mr' = [leg |-> path2, at |-> 1]
      /\ stack' = IF async THEN Caller ELSE Append(Caller, [call |-> "navigation_read"])
      /\ Running("navigation_open")
  BY DEF JobInv, NavigationOpen, Running, PathInv, Then
<1>2. route_mr = NoRect
  <2>1. ~busy
    BY <1>1 DEF JobInv, BusyInv, Opening
  <2> QED BY <2>1 DEF JobInv, BusyInv
<1>3. ReadersKept
  BY <1>1, <1>2, OpenKept
<1> PICK read \in Frames : read = [call |-> "navigation_read"]
  BY FramesAre
<1>4. NoNewUpdate
  <2>1. read.call # "path_new"
    OBVIOUS
  <2> QED BY <1>1, <2>1, NoNewIs
<1>5. \E K : Milder(legs, legs', K) /\ \A o : Gone(o) => o \notin K
  <2>1. Milder(legs, legs', {path2} \cap LegIds)
    BY <1>1, HeldIs DEF JobTypes
  <2>2. \A o : Gone(o) => o \notin {path2} \cap LegIds
    BY NavigationAssumption DEF Gone
  <2> QED BY <2>1, <2>2
<1> QED BY <1>1, <1>3, <1>4, <1>5, NoNewKept

LEMMA IdlePath ==
    ASSUME PathInv, JobInv, JobInv', busy, UpdateIdle(stack)
    PROVE  PathInv'
<1>1. /\ JobTypes /\ stack \in Seq(Frames)
      /\ path2' = path2 /\ drawn' = drawn /\ graph' = graph
      /\ drawn \in LegIds \cup {NoLeg, Closed}
  BY DEF JobInv, JobTypes, UpdateIdle, PathInv
<1>2. /\ \E K : /\ Milder(legs, legs', K)
                /\ \A o : Gone(o) => o \notin K
      /\ \/ stack' = stack
         \/ \E b \in BOOLEAN : stack' = Append(stack, UpdateDoneCall(b))
  BY <1>1, UpdateIdleIs
<1>3. NoNewUpdate
  <2>1. \A b \in BOOLEAN : UpdateDoneCall(b) \in Frames /\ UpdateDoneCall(b).call # "path_new"
    BY FramesAre DEF UpdateDoneCall
  <2> QED BY <1>2, <2>1, NoNewIs
<1>4. CASE EndJob(stack)
  <2>1. ReadersKept
    BY <1>1, <1>4, CloseKept DEF EndJob, CloseRect
  <2> QED BY <1>1, <1>2, <1>3, <2>1, NoNewKept
<1>5. CASE /\ route_mr' = [NextRead EXCEPT !.at = @ + 1]
           /\ NextRead.leg \in LegIds
           /\ legs' = IF NextRead.leg = route_mr.leg THEN legs
                      ELSE Release(Held(NextRead.leg), {route_mr.leg})
  <2>1. route_mr'.leg = NextRead.leg
    <3>1. DOMAIN NextRead = {"leg", "at"}
      BY <1>1 DEF NextRead, JobTypes, Rects
    <3> QED BY <1>5, <3>1
  <2>2. CASE NextRead.leg = route_mr.leg
    BY <1>1, <1>2, <1>3, <1>5, <2>1, <2>2, SameReaders, AlikeKept, NoNewKept
  <2>3. CASE NextRead.leg # route_mr.leg
    <3>1. ReadersKept
      BY <1>1, <1>5, <2>1, <2>3, MoveKept
    <3> QED BY <1>1, <1>2, <1>3, <3>1, NoNewKept
  <2> QED BY <2>2, <2>3
<1> QED BY <1>4, <1>5 DEF UpdateIdle, ReadNoGraph, ReadEnd, ReadStreet

LEMMA NavigationReadPath ==
    ASSUME PathInv, JobInv, JobInv', NavigationRead
    PROVE  PathInv'
<1>1. CASE busy /\ UpdateIdle(stack)
  BY <1>1, IdlePath
<1>2. CASE stack' = Caller /\ UNCHANGED <<routeVars, jobVars, route_status, drawn>>
  <2>1. /\ stack # <<>> /\ path2' = path2 /\ drawn' = drawn /\ graph' = graph
        /\ legs' = legs /\ route_mr' = route_mr
        /\ drawn \in LegIds \cup {NoLeg, Closed}
    BY <1>2 DEF NavigationRead, Running, routeVars, jobVars, PathInv
  <2>2. NoNewUpdate
    BY <1>2, <2>1, NoNewIs
  <2>3. ReadersKept
    BY <2>1, SameReaders, AlikeKept
  <2> QED BY <2>1, <2>2, <2>3, MildSame, NoNewKept
<1> QED BY <1>1, <1>2 DEF NavigationRead

LEMMA NavigationIdlePath ==
    ASSUME PathInv, JobInv, JobInv', NavigationIdle
    PROVE  PathInv'
<1>1. busy
  BY DEF NavigationIdle, JobInv, BusyInv
<1> QED BY <1>1, IdlePath DEF NavigationIdle

-----------------------------------------------------------------------------

LEMMA UpdateDonePath ==
    ASSUME PathInv, JobInv, JobInv', UpdateDone
    PROVE  PathInv'
<1>1. /\ JobTypes /\ stack # <<>> /\ path2' = path2 /\ drawn' = drawn /\ graph' = graph
      /\ drawn \in LegIds \cup {NoLeg, Closed}
      /\ route_mr' = route_mr
  BY DEF JobInv, UpdateDone, Running, PathInv, jobVars
<1> PICK n : n = Len(stack)
  OBVIOUS
<1>2. /\ n \in Nat /\ n >= 1 /\ DOMAIN stack = 1..n
      /\ Caller \in Seq(Frames) /\ Len(Caller) = n - 1
      /\ Last(stack) = stack[n] /\ stack[n].call = "update_done"
      /\ Last(stack).new_graph \in BOOLEAN
      /\ \A i \in 1..n-1 : Caller[i] = stack[i]
  BY <1>1, TopIs, CallIs DEF UpdateDone, Running, JobTypes
<1> PICK b \in BOOLEAN : b = Last(stack).new_graph
  BY <1>2
<1>3. CASE /\ PathInUse
           /\ legs' = [legs EXCEPT ![path2].update_required = IF b THEN 2 ELSE 1]
           /\ stack' = Caller
  <2>1. NoNewUpdate
    BY <1>1, <1>3, NoNewIs
  <2>2. \A l \in LegIds : legs'[l].in_use = legs[l].in_use
                          /\ legs'[l].next = legs[l].next
    BY <1>1, <1>3 DEF JobTypes, Legs
  <2>3. ReadersKept
    BY <1>1, <2>2, SameReaders, AlikeKept
  <2>4. path2 \in LegIds
    BY <1>3 DEF PathInUse
  <2>5. \A i \in DOMAIN stack' : Update(i)' => stack'[i].oldpath # FreedLeg
    <3> SUFFICES ASSUME NEW i \in DOMAIN stack', Update(i)'
                 PROVE  stack'[i].oldpath # FreedLeg
      OBVIOUS
    <3>1. i \in DOMAIN stack /\ stack'[i] = stack[i]
      BY <2>1 DEF NoNewUpdate
    <3> QED BY <3>1 DEF PathInv, Update
  <2> QED BY <1>1, <2>3, <2>4, <2>5, PathKept
<1>4. CASE /\ ~PathInUse /\ legs' = legs
           /\ Set("building_path",
                  Append(Caller, [call |-> "path_new", new_graph |-> b,
                                  oldpath |-> path2]))
  <2> PICK f \in Frames :
         /\ f = [call |-> "path_new", new_graph |-> b, oldpath |-> path2]
         /\ f.oldpath = path2
    BY <1>1, FramesAre DEF JobTypes
  <2>0. "building_path" \in RouteStatus
    BY DEF RouteStatus
  <2> PICK g \in Frames :
         g = [call |-> "navigation_update", status |-> "building_path"]
    BY <2>0, FramesAre
  <2>1. stack' = Append(Caller, f) \/ stack' = Append(Append(Caller, f), g)
    BY <1>4, SetIs
  <2>2. /\ Append(Caller, f) \in Seq(Frames) /\ Len(Append(Caller, f)) = n
        /\ \A i \in 1..n-1 : Append(Caller, f)[i] = stack[i]
        /\ Append(Caller, f)[n] = f
    BY <1>2, PushIs
  <2>3. /\ Len(Append(Append(Caller, f), g)) = n + 1
        /\ Append(Append(Caller, f), g) \in Seq(Frames)
        /\ \A i \in 1..n : Append(Append(Caller, f), g)[i] = Append(Caller, f)[i]
        /\ Append(Append(Caller, f), g)[n + 1] = g
    BY <2>2, PushIs
  <2>4. \A i \in DOMAIN stack' :
           \/ i \in 1..n-1 /\ i \in DOMAIN stack /\ stack'[i] = stack[i]
           \/ stack'[i] = f \/ stack'[i] = g
    <3>1. CASE stack' = Append(Caller, f)
      <4>1. DOMAIN stack' = 1..n /\ \A i \in 1..n : i \in 1..n-1 \/ i = n
        BY <1>2, <2>2, <3>1
      <4> QED BY <1>2, <2>2, <3>1, <4>1
    <3>2. CASE stack' = Append(Append(Caller, f), g)
      <4>1. /\ DOMAIN stack' = 1..n+1
            /\ \A i \in 1..n+1 : i \in 1..n-1 \/ i = n \/ i = n + 1
            /\ \A i \in 1..n-1 : i \in 1..n
            /\ n \in 1..n
        BY <1>2, <2>3, <3>2
      <4> QED BY <1>2, <2>2, <2>3, <3>2, <4>1
    <3> QED BY <2>1, <3>1, <3>2
  <2>5. path2 # FreedLeg
    BY NavigationAssumption DEF PathInv
  <2>6. \A i \in DOMAIN stack' : Update(i)' => stack'[i].oldpath # FreedLeg
    <3> SUFFICES ASSUME NEW i \in DOMAIN stack', Update(i)'
                 PROVE  stack'[i].oldpath # FreedLeg
      OBVIOUS
    <3>1. CASE i \in DOMAIN stack /\ stack'[i] = stack[i]
      BY <3>1 DEF PathInv, Update
    <3>2. CASE stack'[i] = f
      BY <2>5, <3>2
    <3>3. CASE stack'[i] = g
      <4>1. g.call # "path_new"
        OBVIOUS
      <4> QED BY <3>3, <4>1 DEF Update
    <3> QED BY <2>4, <3>1, <3>2, <3>3
  <2>7. ASSUME path2 \notin LegIds, NEW i \in DOMAIN stack', Live(i)'
        PROVE  i \in DOMAIN stack /\ Live(i) /\ stack'[i] = stack[i]
    <3>1. Update(i)' /\ stack'[i].oldpath \in LegIds
      BY <2>7 DEF Live
    <3>2. i \in DOMAIN stack /\ stack'[i] = stack[i]
      <4>1. g.call # "path_new"
        OBVIOUS
      <4>2. f.oldpath \notin LegIds
        BY <2>7
      <4> QED BY <2>4, <2>7, <3>1, <4>1, <4>2 DEF Update
    <3>3. Milder(legs, legs', {})
      BY <1>1, <1>4, SameLegs DEF JobTypes
    <3> QED BY <1>1, <2>7, <3>2, <3>3, LiveKept
  <2>8. ReadersKept
    BY <1>1, <1>4, SameReaders, AlikeKept
  <2> QED BY <1>1, <2>6, <2>7, <2>8, PathKept
<1> QED BY <1>3, <1>4 DEF UpdateDone

\* A leg that nothing leads to is not on the path.
LEMMA UnusedApart ==
    ASSUME NEW l \in UnusedLegs, NEW rd, NEW p, NEW C, Leads(legs, rd, p, C),
           \/ p = path2 \/ p = NoLeg
           \/ \E i \in DOMAIN stack : Update(i) /\ p = stack[i].oldpath
    PROVE  /\ l \in LegIds /\ l # route_mr.leg /\ l # drawn
           /\ \E D : Leads(legs, rd, p, D) /\ l \notin D
<1> DEFINE oldpaths == {stack[i].oldpath : i \in {j \in DOMAIN stack :
                                     stack[j].call = "path_new"}}
<1> PICK S : S = {path2, drawn, route_mr.leg} \cup oldpaths
  OBVIOUS
<1>1. l \in LegIds /\ l \notin Following(S)
  BY DEF UnusedLegs
<1>2. /\ path2 \in S /\ drawn \in S /\ route_mr.leg \in S
      /\ \A i \in DOMAIN stack : Update(i) => stack[i].oldpath \in S
  BY DEF Update
<1> HIDE DEF oldpaths
<1>3. /\ S \cap LegIds \subseteq Following(S)
      /\ \A k \in Following(S) : legs[k].next \in LegIds =>
                                    legs[k].next \in Following(S)
  BY FollowingHolds
<1> PICK D : D = C \cap Following(S)
  OBVIOUS
<1>4. /\ C \in SUBSET LegIds /\ p \in C \cup {NoLeg}
      /\ \A k \in C : /\ legs[k].next \in C \cup {NoLeg}
                      /\ legs[k].next \in LegIds => legs[k].next # p
                      /\ legs[k].in_use >= 1 + rd[k]
      /\ \A j, k \in C : legs[j].next = legs[k].next /\ legs[j].next \in LegIds => j = k
  BY DEF Leads
<1>5. p \in D \cup {NoLeg}
  <2>1. p # NoLeg => p \in S
    BY <1>2
  <2>2. p # NoLeg => p \in C /\ p \in LegIds
    BY <1>4
  <2> QED BY <1>3, <2>1, <2>2
<1>6. \A k \in D : legs[k].next \in D \cup {NoLeg}
  BY <1>3, <1>4
<1>7. Leads(legs, rd, p, D)
  <2>1. \A k \in D : k \in C
    OBVIOUS
  <2>2. D \in SUBSET LegIds
    BY <1>4, <2>1
  <2>3. \A k \in D : /\ legs[k].next \in LegIds => legs[k].next # p
                     /\ legs[k].in_use >= 1 + rd[k]
    BY <1>4, <2>1
  <2>4. \A j, k \in D : legs[j].next = legs[k].next /\ legs[j].next \in LegIds => j = k
    BY <1>4, <2>1
  <2> QED BY <1>5, <1>6, <2>2, <2>3, <2>4 DEF Leads
<1> QED BY <1>1, <1>2, <1>3, <1>7

\* Nothing is left of a path that has been destroyed.
LEMMA NoPath ==
    ASSUME NEW rd PROVE Leads(legs', rd, NoLeg, {})
BY DEF Leads

LEMMA ReleaseAll ==
    ASSUME NEW ls \in [LegIds -> Legs], NEW S, NEW l \in LegIds
    PROVE  /\ l \in S /\ ls[l].in_use <= 1 => Release(ls, S)[l].in_use = 0
           /\ l \in S /\ ls[l].in_use > 1 =>
                 Release(ls, S)[l].in_use = ls[l].in_use - 1
           /\ l \notin S => Release(ls, S)[l].in_use = ls[l].in_use
<1> DEFINE F == {k \in S \cap LegIds : ls[k].in_use <= 1}
           n == IF l \in S THEN ls[l].in_use - 1 ELSE ls[l].in_use
           x == IF ls[l].next \in F THEN FreedLeg ELSE ls[l].next
<1> PICK r : r = Release(ls, S)[l]
  OBVIOUS
<1>1. ls[l] \in Legs /\ ls[l].in_use \in Nat
  BY DEF Legs
<1>2. /\ l \in F => r = FreeLeg
      /\ l \notin F => r = [ls[l] EXCEPT !.in_use = n, !.next = x]
  BY DEF Release, Legs
<1>3. l \in F <=> l \in S /\ ls[l].in_use <= 1
  OBVIOUS
<1>4. /\ l \in S => n = ls[l].in_use - 1
      /\ l \notin S => n = ls[l].in_use
  OBVIOUS
<1> HIDE DEF F, n, x
<1>5. l \notin F => r.in_use = n
  BY <1>1, <1>2 DEF Legs
<1>6. CASE l \in F
  BY <1>1, <1>2, <1>3, <1>6, FreeLegIs
<1>7. CASE l \notin F
  BY <1>1, <1>3, <1>4, <1>5, <1>7
<1> QED BY <1>6, <1>7

\* A path is destroyed that the route holds.
LEMMA DestroyedBounded ==
    ASSUME legs \in [LegIds -> Legs], NEW S, NEW rd \in [LegIds -> Nat],
           Bounded(legs, rd), \A l \in S \cap LegIds : legs[l].in_use >= 1 + rd[l]
    PROVE  Bounded(Destroyed(S), rd)
<1> PICK dead : dead = [l \in LegIds |-> IF l \in S THEN [legs[l] EXCEPT !.live = FALSE]
                                         ELSE legs[l]]
  OBVIOUS
<1>1. ASSUME NEW l \in LegIds
      PROVE  dead[l] \in Legs /\ dead[l].in_use = legs[l].in_use
  BY DEF Legs
<1>2. dead \in [LegIds -> Legs]
  BY <1>1
<1>3. Destroyed(S) = Release(dead, S)
  BY DEF Destroyed
<1> SUFFICES ASSUME NEW l \in LegIds
             PROVE  /\ rd[l] <= Destroyed(S)[l].in_use
                    /\ Destroyed(S)[l].in_use <= 1 + rd[l]
  BY DEF Bounded
<1>4. /\ legs[l].in_use \in Nat /\ rd[l] \in Nat
      /\ rd[l] <= legs[l].in_use /\ legs[l].in_use <= 1 + rd[l]
      /\ l \in S => legs[l].in_use >= 1 + rd[l]
  BY DEF Legs, Bounded
<1>5. /\ l \in S /\ dead[l].in_use <= 1 => Release(dead, S)[l].in_use = 0
      /\ l \in S /\ dead[l].in_use > 1 =>
            Release(dead, S)[l].in_use = dead[l].in_use - 1
      /\ l \notin S => Release(dead, S)[l].in_use = dead[l].in_use
  BY <1>2, ReleaseAll
<1> QED BY <1>1, <1>3, <1>4, <1>5

\* route_path_destroy of one leg: the others stay, those before it aside
LEMMA DestroyedOne ==
    ASSUME legs \in [LegIds -> Legs], NEW x, NEW l \in LegIds, l # x
    PROVE  /\ Destroyed({x})[l].in_use = legs[l].in_use
           /\ legs[l].next # x => Destroyed({x})[l].next = legs[l].next
<1> DEFINE dead == [k \in LegIds |-> IF k \in {x} THEN [legs[k] EXCEPT !.live = FALSE]
                                     ELSE legs[k]]
<1>1. \A k \in LegIds : dead[k] \in Legs
  BY DEF Legs
<1>2. dead \in [LegIds -> Legs]
  BY <1>1
<1>3. dead[l] = legs[l]
  OBVIOUS
<1>4. Destroyed({x}) = Release(dead, {x})
  BY DEF Destroyed
<1> PICK ls : ls = dead
  OBVIOUS
<1> HIDE DEF dead
<1>5. /\ l # x => Release(ls, {x})[l].in_use = ls[l].in_use
      /\ l # x /\ ls[l].next # x => Release(ls, {x})[l].next = ls[l].next
  <2>1. ls \in [LegIds -> Legs]
    BY <1>2
  <2> QED BY <2>1, ReleaseOne
<1> QED BY <1>3, <1>4, <1>5

LEMMA PathNotFoundPath ==
    ASSUME PathInv, JobInv, JobInv', PathNotFound
    PROVE  PathInv'
<1> PICK n : n = Len(stack)
  OBVIOUS
<1>1. /\ JobTypes /\ legs \in [LegIds -> Legs] /\ stack # <<>>
      /\ path2' = NoLeg /\ drawn' = drawn /\ graph' = graph
      /\ drawn \in LegIds \cup {NoLeg, Closed}
      /\ route_mr' = route_mr
      /\ Set("not_found", Caller)
  BY DEF JobInv, JobTypes, PathNotFound, Running, PathInv, jobVars
<1>2. n \in Nat /\ DOMAIN stack = 1..n
  BY <1>1, TopIs
<1>3. /\ Update(n)
      /\ link_path => \A i \in DOMAIN stack : Live(i) => i = n
  BY TopUpdate DEF PathNotFound
<1>4. stack' = Caller \/ \E f \in Frames : stack' = Append(Caller, f) /\ f.call # "path_new"
  <2>1. "not_found" \in RouteStatus
    BY DEF RouteStatus
  <2> PICK f \in Frames : f = [call |-> "navigation_update", status |-> "not_found"]
    BY <2>1, FramesAre
  <2>2. f.call # "path_new"
    OBVIOUS
  <2> QED BY <1>1, <2>2, SetIs
<1>5. NoNewUpdate
  BY <1>1, <1>4, NoNewIs
<1>6. \A i \in DOMAIN stack' : Update(i)' => i \in DOMAIN stack /\ stack'[i] = stack[i] /\ i # n
  <2> SUFFICES ASSUME Update(n)' PROVE FALSE
    BY <1>5 DEF NoNewUpdate
  <2>1. /\ Caller \in Seq(Frames) /\ Len(Caller) = n - 1
    BY <1>1, TopIs
  <2>2. n \in DOMAIN stack' /\ stack'[n].call = "path_new"
    BY DEF Update
  <2>3. CASE stack' = Caller
    <3>1. DOMAIN stack' = 1..n-1
      BY <2>1, <2>3
    <3> QED BY <1>2, <2>2, <3>1
  <2>4. ASSUME NEW f \in Frames, stack' = Append(Caller, f), f.call # "path_new"
        PROVE  FALSE
    <3>1. stack'[n - 1 + 1] = f
      BY <2>1, <2>4, PushIs
    <3> QED BY <1>2, <2>2, <2>4, <3>1
  <2> QED BY <1>4, <2>3, <2>4
<1>7. Milder(legs, legs', {})
  BY <1>1, DestroyedIs, SameLegs DEF PathNotFound
<1>8. \A i \in DOMAIN stack' : Update(i)' => stack'[i].oldpath # FreedLeg
  BY <1>6 DEF PathInv, Update
<1>9. ASSUME NEW i \in DOMAIN stack', Live(i)'
      PROVE  i \in DOMAIN stack /\ Live(i) /\ stack'[i] = stack[i] /\ i # n
  BY <1>1, <1>6, <1>7, <1>9, LiveKept DEF Live
<1>10. Readers' = Readers
  BY <1>1, SameReaders
<1>11. Bounded(legs', Readers')
  <2>1. Bounded(legs, Readers)
    BY DEF PathInv
  <2>2. CASE ~link_path
    BY <1>10, <2>1, <2>2 DEF PathNotFound
  <2>3. CASE link_path
    <3> PICK o \in LegIds : o = stack[n].oldpath /\ Last(stack) = stack[n]
      BY <1>1, <2>3, TopUpdate DEF PathNotFound
    <3>1. Live(n)
      BY <1>1, TopUpdate DEF PathNotFound, Live
    <3>2. \E C : Leads(legs, Readers, o, C)
      <4>1. n \in DOMAIN stack
        BY <3>1 DEF Live, Update
      <4> QED BY <3>1, <4>1 DEF PathInv
    <3>3. legs[o].in_use >= 1 + Readers[o]
      BY <3>2, NavigationAssumption DEF Leads
    <3> QED BY <1>1, <1>10, <2>1, <2>3, <3>3, ReadersAre, DestroyedBounded DEF PathNotFound
  <2> QED BY <2>2, <2>3
<1>12. CASE link_path
  <2>1. \A i \in DOMAIN stack' : ~Live(i)'
    BY <1>3, <1>9, <1>12
  <2>2. Leads(legs', Readers', NoLeg, {})
    BY NoPath
  <2>3. \E p \in LegIds \cup {NoLeg}, C \in SUBSET LegIds :
          /\ Leads(legs', Readers', p, C)
          /\ path2' \in {p, NoLeg}
          /\ \A i \in DOMAIN stack' : Live(i)' => stack'[i].oldpath = p
    <3>1. path2' \in {NoLeg, NoLeg}
      BY <1>1
    <3> WITNESS NoLeg \in LegIds \cup {NoLeg}, {} \in SUBSET LegIds
    <3> QED BY <2>1, <2>2, <3>1
  <2>4. Bounded(legs', Readers') /\ drawn' \in LegIds \cup {NoLeg, Closed}
    BY <1>1, <1>11
  <2> QED BY <1>8, <2>3, <2>4 DEF PathInv
<1>13. CASE ~link_path
  <2>1. PICK p \in LegIds \cup {NoLeg}, C \in SUBSET LegIds :
          /\ Leads(legs, Readers, p, C)
          /\ \A i \in DOMAIN stack : Live(i) => stack[i].oldpath = p
    BY DEF PathInv
  <2>2. Leads(legs', Readers', p, C)
    BY <1>10, <1>13, <2>1 DEF PathNotFound
  <2>3. \A i \in DOMAIN stack' : Live(i)' => stack'[i].oldpath = p
    BY <1>9, <2>1
  <2> QED BY <1>1, <1>8, <1>11, <2>2, <2>3 DEF PathInv
<1> QED BY <1>12, <1>13

\* The new leg comes first: before the old path, or instead of its first leg.
LEMMA NewLegLeads ==
    ASSUME JobTypes, NEW rd \in [LegIds -> Nat], NEW l \in UnusedLegs, NewLeg(l),
           UpdateDefined, Running("path_new"), l # path2, rd[l] = 0,
           NEW C, Leads(legs, rd, Last(stack).oldpath, C), l \notin C,
           link_path => Last(stack).oldpath \in LegIds
    PROVE  /\ legs'[l].in_use = 1
           /\ \E D \in SUBSET LegIds : Leads(legs', rd, l, D)
<1> PICK o : o = Last(stack).oldpath
  OBVIOUS
<1> PICK nx : nx = IF link_path THEN o
                   ELSE IF o = NoLeg THEN NoLeg ELSE legs[o].next
  OBVIOUS
<1> PICK ls : ls = IF link_path THEN legs ELSE Destroyed({o})
  OBVIOUS
<1>0. /\ nx \in Pointers => legs'[l].in_use = 1 /\ legs'[l].next = nx
      /\ \A k \in LegIds : k # l => legs'[k] = ls[k]
  BY DEF NewLeg
<1>1. legs \in [LegIds -> Legs] /\ l \in LegIds /\ NoLeg \notin LegIds
  BY NavigationAssumption DEF JobTypes, UnusedLegs
<1>2. /\ C \in SUBSET LegIds /\ o \in C \cup {NoLeg}
      /\ \A k \in C : /\ legs[k].next \in C \cup {NoLeg}
                      /\ legs[k].next \in LegIds => legs[k].next # o
                      /\ legs[k].in_use >= 1 + rd[k]
      /\ \A j, k \in C : legs[j].next = legs[k].next /\ legs[j].next \in LegIds => j = k
  BY DEF Leads
<1> PICK B : B = IF link_path THEN C ELSE IF o = NoLeg THEN {} ELSE C \ {o}
  OBVIOUS
<1>3. /\ B \subseteq C /\ l \notin B
      /\ nx \in B \cup {NoLeg} /\ nx \in Pointers /\ nx # l
  <2>1. CASE link_path
    BY <1>1, <1>2, <2>1 DEF Pointers
  <2>2. CASE ~link_path /\ o = NoLeg
    BY <1>1, <1>2, <2>2 DEF Pointers
  <2>3. CASE ~link_path /\ o # NoLeg
    <3>1. o \in C /\ nx = legs[o].next /\ nx \in C \cup {NoLeg} /\ nx # o
      BY <1>1, <1>2, <2>3
    <3> QED BY <1>1, <1>2, <2>3, <3>1 DEF Pointers
  <2> QED BY <2>1, <2>2, <2>3
<1>4. ASSUME NEW k \in B
      PROVE  /\ k \in LegIds /\ k # l
             /\ legs'[k].next = legs[k].next /\ legs'[k].in_use = legs[k].in_use
             /\ legs[k].next \in B \cup {NoLeg} /\ legs[k].in_use >= 1 + rd[k]
             /\ nx \in LegIds => legs[k].next # nx
  <2>1. k \in C /\ k \in LegIds /\ k # l /\ legs'[k] = ls[k]
    BY <1>0, <1>2, <1>3, <1>4
  <2>2. CASE link_path
    <3>1. nx = o /\ ls = legs /\ B = C
      BY <2>2
    <3>2. nx \in LegIds => legs[k].next # nx
      BY <1>2, <2>1, <3>1
    <3> QED BY <1>2, <2>1, <3>1, <3>2
  <2>3. CASE ~link_path
    <3>1. o \in C /\ k # o /\ o # NoLeg /\ o \in LegIds /\ nx = legs[o].next /\ B = C \ {o}
      BY <1>1, <1>2, <1>4, <2>3
    <3>2. legs[k].next # o
      BY <1>2, <2>1, <3>1
    <3>3. ls = Destroyed({o})
      BY <2>3
    <3>4. ls[k].in_use = legs[k].in_use /\ ls[k].next = legs[k].next
      <4>1. k \in LegIds /\ k # o /\ legs[k].next # o
        BY <2>1, <3>1, <3>2
      <4>2. /\ Destroyed({o})[k].in_use = legs[k].in_use
            /\ Destroyed({o})[k].next = legs[k].next
        BY <1>1, <4>1, DestroyedOne
      <4> QED BY <3>3, <4>2
    <3>5. nx \in LegIds => legs[k].next # nx
      BY <1>2, <2>1, <3>1
    <3> QED BY <1>2, <2>1, <3>1, <3>2, <3>4, <3>5
  <2> QED BY <2>2, <2>3
<1>5. legs'[l].in_use = 1 /\ legs'[l].in_use >= 1 + rd[l] /\ legs'[l].next = nx
  BY <1>0, <1>3
<1> PICK D : D = B \cup {l}
  OBVIOUS
<1>6. ASSUME NEW k \in D
      PROVE  /\ legs'[k].next \in D \cup {NoLeg}
             /\ legs'[k].next \in LegIds => legs'[k].next # l
             /\ legs'[k].in_use >= 1 + rd[k]
  <2>1. CASE k = l
    BY <1>3, <1>5, <2>1
  <2>2. CASE k \in B
    <3>1. /\ legs'[k].next = legs[k].next /\ legs'[k].in_use = legs[k].in_use
          /\ legs[k].next \in B \cup {NoLeg} /\ legs[k].in_use >= 1 + rd[k]
      BY <1>4, <2>2
    <3>2. legs[k].next # l
      BY <1>1, <1>3, <3>1
    <3> QED BY <3>1, <3>2
  <2> QED BY <1>6, <2>1, <2>2
<1>7. ASSUME NEW j \in D, NEW k \in D, legs'[j].next = legs'[k].next,
             legs'[j].next \in LegIds, j # k
      PROVE  FALSE
  <2>1. CASE j \in B /\ k \in B
    <3>1. legs[j].next = legs[k].next /\ legs[j].next \in LegIds
      BY <1>4, <1>7, <2>1
    <3> QED BY <1>2, <1>3, <1>7, <2>1, <3>1
  <2>2. CASE j = l /\ k \in B
    BY <1>4, <1>5, <1>7, <2>2
  <2>3. CASE k = l /\ j \in B
    BY <1>4, <1>5, <1>7, <2>3
  <2> QED BY <1>7, <2>1, <2>2, <2>3
<1>8. D \in SUBSET LegIds /\ l \in D
  BY <1>1, <1>4
<1> QED BY <1>5, <1>6, <1>7, <1>8 DEF Leads

LEMMA PathFoundPath ==
    ASSUME PathInv, JobInv, JobInv', PathFound
    PROVE  PathInv'
<1> PICK n : n = Len(stack)
  OBVIOUS
<1>1. /\ JobTypes /\ legs \in [LegIds -> Legs] /\ stack # <<>>
      /\ drawn' = drawn /\ drawn \in LegIds \cup {NoLeg, Closed}
      /\ Running("path_new") /\ UpdateDefined
  BY DEF JobInv, JobTypes, PathFound, Running, PathInv
<1>2. PICK l \in UnusedLegs, status \in PathDone :
         /\ NewLeg(l)
         /\ \/ stack' = Append(Caller, UpdateDoneCall(TRUE))
            \/ Set(status, Caller)
  BY PathFoundIs
<1>3. path2' = l /\ l \in LegIds /\ route_mr' = route_mr
  BY <1>2, PathFoundIs DEF NewLeg, UnusedLegs, jobVars
<1>4. /\ n \in DOMAIN stack /\ Update(n) /\ ~Lost(n) /\ Last(stack) = stack[n]
      /\ stack[n].oldpath \in LegIds \cup {NoLeg}
      /\ link_path => stack[n].oldpath = path2 /\ path2 \in LegIds
  BY <1>1, TopUpdate DEF Update
<1> PICK o : o = stack[n].oldpath
  OBVIOUS
<1>5. NoNewUpdate
  <2>1. UpdateDoneCall(TRUE) \in Frames /\ UpdateDoneCall(TRUE).call # "path_new"
    BY FramesAre DEF UpdateDoneCall
  <2>2. status \in RouteStatus
    BY DEF RouteStatus
  <2> PICK f \in Frames : f = [call |-> "navigation_update", status |-> status]
    BY <2>2, FramesAre
  <2>3. f.call # "path_new"
    OBVIOUS
  <2>4. \/ stack' = Caller
        \/ \E g \in Frames : stack' = Append(Caller, g) /\ g.call # "path_new"
    BY <1>2, <2>1, <2>3, SetIs
  <2> QED BY <1>1, <2>4, NoNewIs
<1>6. \A i \in DOMAIN stack' : Update(i)' => stack'[i].oldpath # FreedLeg
  <2> SUFFICES ASSUME NEW i \in DOMAIN stack', Update(i)'
               PROVE  stack'[i].oldpath # FreedLeg
    OBVIOUS
  <2>1. i \in DOMAIN stack /\ stack'[i] = stack[i]
    BY <1>5 DEF NoNewUpdate
  <2> QED BY <2>1 DEF PathInv, Update
<1>7. PICK C : Leads(legs, Readers, o, C)
  <2>1. CASE o = NoLeg
    <3>1. Leads(legs, Readers, NoLeg, {})
      BY DEF Leads
    <3> QED BY <2>1, <3>1
  <2>2. CASE o \in LegIds
    <3>1. Live(n)
      BY <1>4, <2>2 DEF Live
    <3> QED BY <1>4, <3>1 DEF PathInv
  <2> QED BY <1>4, <2>1, <2>2
<1>8. PICK D : /\ Leads(legs, Readers, o, D) /\ l \notin D
               /\ l # route_mr.leg /\ l # drawn
  BY <1>4, <1>7, UnusedApart
<1>9. l # path2 /\ Readers[l] = 0
  BY <1>1, <1>3, <1>8, ReadersAre, UnusedIs
<1>10. PICK E \in SUBSET LegIds : Leads(legs', Readers, l, E) /\ legs'[l].in_use = 1
  BY <1>1, <1>2, <1>4, <1>8, <1>9, ReadersAre, NewLegLeads
<1>11. Readers' = Readers
  BY <1>1, <1>3, SameReaders
<1>12. Bounded(legs', Readers)
  <2> PICK ls : ls = IF link_path THEN legs ELSE Destroyed({o})
    OBVIOUS
  <2>1. Bounded(legs, Readers)
    BY DEF PathInv
  <2>2. Bounded(ls, Readers)
    <3>1. \A k \in {o} \cap LegIds : legs[k].in_use >= 1 + Readers[k]
      BY <1>7, NavigationAssumption DEF Leads
    <3>2. CASE link_path
      BY <2>1, <3>2
    <3>3. CASE ~link_path
      BY <1>1, <2>1, <3>1, <3>3, ReadersAre, DestroyedBounded
    <3> QED BY <3>2, <3>3
  <2>3. \A k \in LegIds : k # l => legs'[k] = ls[k]
    BY <1>2, <1>4 DEF NewLeg
  <2> SUFFICES ASSUME NEW k \in LegIds
               PROVE  Readers[k] <= legs'[k].in_use /\ legs'[k].in_use <= 1 + Readers[k]
    BY DEF Bounded
  <2>4. CASE k = l
    BY <1>9, <1>10, <2>4
  <2>5. CASE k # l
    BY <2>2, <2>3, <2>5 DEF Bounded
  <2> QED BY <2>4, <2>5
<1>13. ASSUME NEW i \in DOMAIN stack', Live(i)' PROVE stack'[i].oldpath = l
  <2>1. path2' = stack'[i].oldpath
    BY <1>3, <1>13 DEF JobInv, LiveInv
  <2> QED BY <1>3, <2>1
<1> QED BY <1>1, <1>3, <1>6, <1>10, <1>11, <1>12, <1>13 DEF PathInv

\* The path is destroyed, or its first leg is.
LEMMA CancelPath ==
    ASSUME PathInv, JobInv, Shallow(stack'), DestroyPath,
           drawn' = drawn, route_mr' = route_mr
    PROVE  PathInv'
<1>1. path2' = NoLeg /\ Milder(legs, legs', {}) /\ legs \in [LegIds -> Legs]
  BY DestroyedIs DEF DestroyPath, JobInv, JobTypes
<1>2. Readers' = Readers
  BY SameReaders
<1>3. Bounded(legs', Readers')
  <2>1. Bounded(legs, Readers) /\ path2 \in LegIds \cup {NoLeg}
    BY DEF PathInv
  <2>2. PICK C : Leads(legs, Readers, path2, C)
    <3>1. Leads(legs, Readers, NoLeg, {})
      BY DEF Leads
    <3> QED BY <3>1 DEF PathInv
  <2>3. Encloses(C, {path2}) /\ C \in SUBSET LegIds
    BY <2>2, NavigationAssumption DEF Leads, Encloses
  <2>4. Following({path2}) \subseteq C
    BY <2>3 DEF Following
  <2>5. \A l \in Following({path2}) \cap LegIds : legs[l].in_use >= 1 + Readers[l]
    BY <2>2, <2>4 DEF Leads
  <2> QED BY <1>1, <1>2, <2>1, <2>5, ReadersAre, DestroyedBounded DEF DestroyPath
<1>4. \A i \in DOMAIN stack' : ~Update(i)' /\ ~Live(i)'
  BY ShallowNew
<1>5. Leads(legs', Readers', NoLeg, {})
  BY NoPath
<1> QED BY <1>1, <1>3, <1>4, <1>5 DEF PathInv

LEMMA RemoveWaypointPath ==
    ASSUME PathInv, JobInv, Shallow(stack'), RemoveWaypoint
    PROVE  PathInv'
<1>1. /\ path2 \in LegIds /\ path2' = legs[path2].next
      /\ legs' = Destroyed({path2}) /\ drawn' = drawn /\ route_mr' = route_mr
      /\ legs \in [LegIds -> Legs]
      /\ drawn \in LegIds \cup {NoLeg, Closed}
  BY DEF RemoveWaypoint, jobVars, JobInv, JobTypes, PathInv
<1>2. Readers' = Readers
  BY <1>1, SameReaders
<1>4. \A i \in DOMAIN stack' : ~Update(i)' /\ ~Live(i)'
  BY ShallowNew
<1> PICK p : p = path2
  OBVIOUS
<1>5. PICK C : Leads(legs, Readers, p, C)
  <2>1. NoLeg \notin LegIds
    BY NavigationAssumption
  <2> QED BY <1>1, <2>1 DEF PathInv
<1>6. /\ C \in SUBSET LegIds /\ p \in C
      /\ \A l \in C : /\ legs[l].next \in C \cup {NoLeg}
                      /\ legs[l].next \in LegIds => legs[l].next # p
                      /\ legs[l].in_use >= 1 + Readers[l]
      /\ \A k, l \in C : legs[k].next = legs[l].next /\ legs[k].next \in LegIds => k = l
  <2>1. NoLeg \notin LegIds
    BY NavigationAssumption
  <2> QED BY <1>1, <1>5, <2>1 DEF Leads
<1>3. Bounded(legs', Readers)
  BY <1>1, <1>6, ReadersAre, DestroyedBounded DEF PathInv
<1> PICK D : D = C \ {p}
  OBVIOUS
<1>7. ASSUME NEW l \in D
      PROVE  /\ l \in C /\ l \in LegIds
             /\ legs'[l].next = legs[l].next /\ legs'[l].in_use = legs[l].in_use
             /\ legs[l].next # p
  <2>1. l \in C /\ l \in LegIds /\ l # p
    BY <1>6
  <2>2. legs[l].next # p
    BY <1>1, <1>6, <2>1
  <2>3. /\ Destroyed({p})[l].in_use = legs[l].in_use
        /\ Destroyed({p})[l].next = legs[l].next
    BY <1>1, <2>1, <2>2, DestroyedOne
  <2> QED BY <1>1, <2>1, <2>2, <2>3
<1> PICK q : q = legs[p].next
  OBVIOUS
<1>8. q \in D \cup {NoLeg} /\ q \in LegIds \cup {NoLeg}
  <2>1. q # p
    BY <1>1, <1>6
  <2> QED BY <1>6, <2>1
<1>9. ASSUME NEW l \in D
      PROVE  /\ legs'[l].next \in D \cup {NoLeg}
             /\ legs'[l].next \in LegIds => legs'[l].next # q
             /\ legs'[l].in_use >= 1 + Readers[l]
  <2>1. l \in C /\ l # p
    BY <1>9
  <2>2. legs[l].next \in LegIds => legs[l].next # q
    BY <1>6, <2>1
  <2> QED BY <1>6, <1>7, <2>1, <2>2
<1>10. ASSUME NEW k \in D, NEW l \in D, legs'[k].next = legs'[l].next,
              legs'[k].next \in LegIds
       PROVE  k = l
  BY <1>6, <1>7, <1>10
<1>11. D \in SUBSET LegIds
  BY <1>7
<1>12. Leads(legs', Readers, q, D)
  BY <1>8, <1>9, <1>10, <1>11 DEF Leads
<1> QED BY <1>1, <1>2, <1>3, <1>4, <1>8, <1>11, <1>12 DEF PathInv

LEMMA QuietPath ==
    ASSUME PathInv, JobInv, JobInv', Shallow(stack'), legs' = legs, path2' = path2,
           drawn' = drawn, route_mr' = route_mr
    PROVE  PathInv'
<1>1. ReadersKept
  BY SameReaders, AlikeKept
<1>2. drawn' \in LegIds \cup {NoLeg, Closed}
  BY DEF PathInv
<1> QED BY <1>1, <1>2, ShallowNew, NoNewKept

LEMMA RouteCallPath ==
    ASSUME PathInv, JobInv, JobInv',
           UpdateFlags \/ GraphUpdate \/ DestinationsSet \/ Recalculated
    PROVE  PathInv'
<1>1. Shallow(stack')
  BY RouteCallStep
<1>2. CASE DestinationsSet
  BY <1>1, <1>2, CancelPath DEF DestinationsSet, PathUpdateCancel, jobVars
<1>3. CASE UpdateFlags \/ GraphUpdate \/ Recalculated
  BY <1>1, <1>3, QuietPath DEF UpdateFlags, GraphUpdate, Recalculated, jobVars, routeVars
<1> QED BY <1>2, <1>3

LEMMA RouteEventPath ==
    ASSUME PathInv, JobInv, JobInv',
           \/ GraphBuilt
           \/ \E count \in 0..MaxDests, n \in 0..MaxDests, a \in BOOLEAN :
                 n <= count /\ SetDestinations(count, n, a)
           \/ \E a \in BOOLEAN : AppendDestination(a)
           \/ RemoveNthWaypoint \/ RemoveWaypoint
           \/ \E a \in BOOLEAN, rebuild \in BOOLEAN : SetPosition(a, rebuild)
           \/ Recalculate
    PROVE  PathInv'
<1>1. Shallow(stack')
  BY RouteEventStep
<1>2. CASE RemoveNthWaypoint \/ \E a \in BOOLEAN : AppendDestination(a)
  BY <1>1, <1>2, CancelPath
     DEF RemoveNthWaypoint, AppendDestination, PathUpdateCancel, jobVars
<1>3. CASE RemoveWaypoint
  BY <1>1, <1>3, RemoveWaypointPath
<1>4. CASE \E count \in 0..MaxDests, n \in 0..MaxDests, a \in BOOLEAN :
              n <= count /\ SetDestinations(count, n, a)
  BY <1>1, <1>4, QuietPath DEF SetDestinations, jobVars
<1>5. CASE GraphBuilt \/ Recalculate
           \/ \E a \in BOOLEAN, rebuild \in BOOLEAN : SetPosition(a, rebuild)
  BY <1>1, <1>5, QuietPath DEF GraphBuilt, SetPosition, Recalculate, jobVars, routeVars
<1> QED BY <1>2, <1>3, <1>4, <1>5

LEMMA DrawPath ==
    ASSUME PathInv, JobInv, JobInv', Draw \/ DrawNextLeg \/ Drawn
    PROVE  PathInv'
<1>1. Shallow(stack') /\ path2' = path2 /\ JobTypes /\ route_mr' = route_mr
  BY DrawStep DEF Draw, DrawNextLeg, Drawn, JobInv, jobVars
<1>2. path2 \in LegIds \cup {NoLeg}
  BY DEF PathInv
<1>3. CASE Draw
  <2>1. drawn = Closed /\ drawn' = path2 /\ legs' = Held(path2)
    BY <1>3 DEF Draw
  <2>2. ReadersKept
    BY <1>1, <2>1, OpenKept
  <2> QED BY <1>1, <1>2, <2>1, <2>2, ShallowNew, NoNewKept
<1>4. CASE DrawNextLeg
  <2>1. /\ drawn' = legs[drawn].next /\ drawn' \in LegIds
        /\ legs' = Release(Held(legs[drawn].next), {drawn})
    BY <1>4 DEF DrawNextLeg
  <2>2. ReadersKept
    BY <1>1, <2>1, MoveKept
  <2> QED BY <1>1, <2>1, <2>2, ShallowNew, NoNewKept
<1>5. CASE Drawn
  <2>1. drawn' = Closed /\ legs' = Release(legs, {drawn})
    BY <1>5 DEF Drawn, CloseRect
  <2>2. ReadersKept
    BY <1>1, <2>1, CloseKept
  <2> QED BY <1>1, <2>1, <2>2, ShallowNew, NoNewKept
<1> QED BY <1>3, <1>4, <1>5

LEMMA NoRectIs == NoRect.leg \notin LegIds
BY NavigationAssumption DEF NoRect

LEMMA PathStart == Init => PathInv
<1> SUFFICES ASSUME Init PROVE PathInv
  OBVIOUS
<1>1. /\ drawn = Closed /\ path2 = NoLeg /\ stack = <<>> /\ DOMAIN stack = {}
      /\ legs = [l \in LegIds |-> FreeLeg]
  BY DEF Init
<1>2. Bounded(legs, Readers)
  <2> SUFFICES ASSUME NEW l \in LegIds
               PROVE  Readers[l] <= legs[l].in_use /\ legs[l].in_use <= 1 + Readers[l]
    BY DEF Bounded
  <2>1. legs[l].in_use = 0 /\ Readers[l] = 0
    BY <1>1, FreeLegIs, ReadersAre, NoRectIs, NavigationAssumption DEF Init
  <2> QED BY <2>1
<1>3. Leads(legs, Readers, NoLeg, {})
  BY DEF Leads
<1> QED BY <1>1, <1>2, <1>3 DEF PathInv

LEMMA PathStep == PathInv /\ JobInv /\ [Next]_vars => PathInv'
<1> SUFFICES ASSUME PathInv, JobInv, [Next]_vars PROVE PathInv'
  OBVIOUS
<1>0. JobInv'
  BY JobStep
<1>1. CASE RouteCall
  BY <1>0, <1>1, UpdateDonePath, PathFoundPath, PathNotFoundPath, RouteCallPath
     DEF RouteCall
<1>2. CASE NavigationCall
  BY <1>0, <1>2, NavigationUpdatePath, NavigationOpenPath, NavigationReadPath
     DEF NavigationCall
<1>3. CASE NavigationIdle
  BY <1>0, <1>3, NavigationIdlePath
<1>4. CASE \/ GraphBuilt
           \/ \E count \in 0..MaxDests, n \in 0..MaxDests, a \in BOOLEAN :
                 n <= count /\ SetDestinations(count, n, a)
           \/ \E a \in BOOLEAN : AppendDestination(a)
           \/ RemoveNthWaypoint \/ RemoveWaypoint
           \/ \E a \in BOOLEAN, rebuild \in BOOLEAN : SetPosition(a, rebuild)
           \/ Recalculate
  BY <1>0, <1>4, RouteEventPath
<1>5. CASE Draw \/ DrawNextLeg \/ Drawn
  BY <1>0, <1>5, DrawPath
<1>6. CASE UNCHANGED vars
  <2>1. UNCHANGED <<graph, legs, path2, stack, drawn, route_mr>>
    BY <1>6 DEF vars, routeVars, jobVars
  <2>2. Readers' = Readers
    BY <2>1, SameReaders
  <2> QED BY <2>1, <2>2 DEF PathInv, Update, Live, Lost, Gone
<1> QED BY <1>1, <1>2, <1>3, <1>4, <1>5, <1>6 DEF Next

-----------------------------------------------------------------------------
(* The other variables *)

Items == Streets \cup {Arrival}

\* What is left of the types, and that a map rect on a leg counts its streets
\* from 1: the one it reads next is a street of the leg.
RestInv ==
    /\ destinations \in 0..MaxDests /\ current_dst \in 0..MaxDests
    /\ graph \in {"none", "busy", "ready"}
    /\ route_status \in RouteStatus
    /\ has_sitem \in BOOLEAN /\ overtaken \in BOOLEAN
    /\ itms \in Seq(Items) /\ nav_status \in NavStatus
    /\ events \in 0..MaxEvents
    /\ route_mr.leg \in LegIds => route_mr.at >= 1

LEMMA ShownIs ==
    ASSUME nav_status \in NavStatus, NEW status \in RouteStatus
    PROVE  Shown(status) \in NavStatus
BY DEF Shown, NavStatus, RouteStatus, PathDone

LEMMA WayIs ==
    ASSUME JobTypes, NEW l \in LegIds
    PROVE  legs[l].way \in Seq(Streets)
<1>1. legs[l].way \in Ways \cup WaysBetween \cup {<<>>}
  BY DEF JobTypes, Legs
<1>2. ASSUME NEW w \in Ways \cup WaysBetween PROVE w \in Seq(Streets)
  BY NavigationAssumption
<1>3. <<>> \in Seq(Streets)
  OBVIOUS
<1> QED BY <1>1, <1>2, <1>3

LEMMA EndIs ==
    ASSUME NEW S, NEW q \in Seq(S), NEW i \in 1..Len(q)
    PROVE  SubSeq(q, i, Len(q)) \in Seq(S)
<1>1. Len(q) \in Nat /\ \A k \in 1..Len(q) : q[k] \in S
  OBVIOUS
<1>2. i \in Int /\ \A k \in i..Len(q) : k \in 1..Len(q)
  BY <1>1
<1> QED BY <1>1, <1>2, SubSeqProperties

LEMMA ReadRest ==
    ASSUME JobTypes, RestInv, NEW s, UpdateIdle(s)
    PROVE  RestInv'
<1>1. route_mr \in Rects /\ route_mr.at \in Nat
  BY DEF JobTypes, Rects
<1>2. itms \in Seq(Items) /\ nav_status \in NavStatus
  BY DEF RestInv
<1>3. /\ UNCHANGED <<destinations, current_dst, graph, route_status, overtaken, events>>
  BY DEF UpdateIdle
<1>4. CASE ReadNoGraph(s)
  <2>1. has_sitem' = FALSE /\ route_mr' = NoRect /\ UNCHANGED <<itms, nav_status>>
    BY <1>4 DEF ReadNoGraph, EndJob, listVars
  <2> QED BY <1>3, <2>1, NoRectIs DEF RestInv
<1>5. CASE ReadEnd(s)
  <2>1. /\ has_sitem' = FALSE /\ route_mr' = NoRect
        /\ itms' = Completed /\ nav_status' = "routing"
    BY <1>5 DEF ReadEnd, EndJob
  <2>2. Arrival \in Items /\ <<>> \in Seq(Items) /\ Append(itms, Arrival) \in Seq(Items)
    <3>1. Arrival \in Items
      BY DEF Items
    <3> QED BY <1>2, <3>1
  <2>3. itms' \in Seq(Items) /\ nav_status' \in NavStatus
    BY <2>1, <2>2 DEF Completed, NavStatus
  <2> QED BY <1>3, <2>1, <2>3, NoRectIs DEF RestInv
<1>6. CASE ReadStreet(s)
  <2> PICK r : r = NextRead
    OBVIOUS
  <2>1. r.leg \in LegIds /\ r.at <= Len(legs[r.leg].way)
    BY <1>6 DEF ReadStreet
  <2>2. r \in [leg : {r.leg}, at : Nat] /\ r.at >= 1
    <3>1. CASE r = route_mr
      <4>1. r.at >= 1
        BY <2>1, <3>1 DEF RestInv
      <4> QED BY <1>1, <3>1, <4>1 DEF Rects
    <3>2. CASE r = [leg |-> legs[route_mr.leg].next, at |-> 1]
      BY <3>2
    <3> QED BY <3>1, <3>2 DEF NextRead
  <2> PICK street : street = legs[r.leg].way[r.at]
    OBVIOUS
  <2>3. street \in Items
    <3>1. legs[r.leg].way \in Seq(Streets)
      BY <2>1, WayIs
    <3>2. street \in Streets
      BY <2>1, <2>2, <3>1
    <3> QED BY <3>2 DEF Items
  <2>4. CASE /\ Found(street)
             /\ itms' = From(street)
             /\ nav_status' = "routing"
             /\ EndJob(s)
    <3> PICK i : i = CHOOSE j \in DOMAIN itms : itms[j] = street
      OBVIOUS
    <3>1. i \in DOMAIN itms
      BY <2>4 DEF Found, Range
    <3>2. itms' = SubSeq(itms, i, Len(itms))
      BY <2>4 DEF From
    <3>3. itms' \in Seq(Items)
      <4>1. i \in 1..Len(itms) /\ Len(itms) \in Nat
        BY <1>2, <3>1
      <4> QED BY <1>2, <3>2, <4>1, EndIs
    <3>4. has_sitem' = FALSE /\ route_mr' = NoRect
      BY <2>4 DEF EndJob
    <3> QED BY <1>3, <2>4, <3>3, <3>4, NoRectIs DEF RestInv, NavStatus
  <2>5. CASE /\ itms' = Append(IF has_sitem THEN itms ELSE <<>>, street)
             /\ route_mr' = [r EXCEPT !.at = r.at + 1]
             /\ has_sitem' = TRUE
             /\ UNCHANGED nav_status
    <3>1. itms' \in Seq(Items)
      <4>1. CASE has_sitem
        BY <1>2, <2>3, <2>5, <4>1
      <4>2. CASE ~has_sitem
        <5>1. itms' = Append(<<>>, street)
          BY <2>5, <4>2
        <5> QED BY <2>3, <5>1
      <4> QED BY <4>1, <4>2
    <3>2. route_mr'.at >= 1
      BY <2>2, <2>5
    <3> QED BY <1>3, <2>5, <3>1, <3>2 DEF RestInv
  <2> QED BY <1>6, <2>4, <2>5 DEF ReadStreet
<1> QED BY <1>4, <1>5, <1>6 DEF UpdateIdle

LEMMA NavigationRest ==
    ASSUME JobInv, RestInv, NavigationCall \/ NavigationIdle
    PROVE  RestInv'
<1>1. JobTypes
  BY DEF JobInv
<1>2. CASE NavigationUpdate
  <2> PICK status : status = Last(stack).status
    OBVIOUS
  <2>1. status \in RouteStatus
    <3>1. stack \in Seq(Frames) /\ stack # <<>> /\ Last(stack).call = "navigation_update"
      BY <1>1, <1>2 DEF JobTypes, NavigationUpdate, Running
    <3>2. Last(stack) \in Frames
      BY <3>1, PopIs
    <3> QED BY <3>1, <3>2, CallIs
  <2>2. nav_status' = Shown(status) /\ itms' \in {itms, <<>>}
    BY <1>2 DEF NavigationUpdate
  <2>3. nav_status' \in NavStatus
    BY <2>1, <2>2, ShownIs DEF RestInv
  <2>4. itms' \in Seq(Items)
    <3>1. <<>> \in Seq(Items)
      OBVIOUS
    <3> QED BY <2>2, <3>1 DEF RestInv
  <2>5. UNCHANGED <<destinations, current_dst, graph, route_status, overtaken, events>>
    BY <1>2 DEF NavigationUpdate
  <2>6. /\ has_sitem' \in {has_sitem, FALSE}
        /\ route_mr' \in {route_mr, NoRect}
    BY <1>2 DEF NavigationUpdate, EndJob, jobVars
  <2> QED BY <2>3, <2>4, <2>5, <2>6, NoRectIs DEF RestInv
<1>3. CASE NavigationOpen
  <2>1. /\ route_mr' = [leg |-> path2, at |-> 1] /\ has_sitem' = FALSE
        /\ UNCHANGED <<destinations, current_dst, graph, route_status, overtaken,
                       events, itms, nav_status>>
    BY <1>3 DEF NavigationOpen, listVars
  <2>2. route_mr'.at >= 1
    BY <2>1
  <2> QED BY <2>1, <2>2 DEF RestInv
<1>4. CASE NavigationRead
  <2>1. CASE UpdateIdle(stack)
    BY <1>1, <2>1, ReadRest
  <2>2. CASE UNCHANGED <<routeVars, jobVars, route_status, drawn, listVars,
                         overtaken, events>>
    BY <2>2 DEF RestInv, routeVars, jobVars, listVars
  <2> QED BY <1>4, <2>1, <2>2 DEF NavigationRead
<1>5. CASE NavigationIdle
  BY <1>1, <1>5, ReadRest DEF NavigationIdle
<1> QED BY <1>2, <1>3, <1>4, <1>5 DEF NavigationCall

LEMMA RouteRest ==
    ASSUME JobInv, RestInv, RouteCall
    PROVE  RestInv'
<1>1. UNCHANGED <<destinations, events, jobVars, listVars>>
  BY DEF RouteCall, UpdateDone, PathFound, PathNotFound, UpdateFlags, GraphUpdate,
         DestinationsSet, Recalculated, routeVars
<1>2. UNCHANGED <<has_sitem, itms, nav_status, route_mr>>
  BY <1>1 DEF jobVars, listVars
<1>3. /\ current_dst' = current_dst
         \/ (current_dst > 1 /\ current_dst' = current_dst - 1)
      /\ graph' \in {graph, "none", "busy", "ready"}
  BY DEF RouteCall, UpdateDone, PathFound, PathNotFound, UpdateFlags, GraphUpdate,
         DestinationsSet, Recalculated, PathUpdateCancel, routeVars
<1>4. /\ route_status' = route_status \/ route_status' \in RouteStatus
      /\ overtaken' = overtaken \/ overtaken' \in BOOLEAN
  BY DEF RouteCall, UpdateDone, PathFound, PathNotFound, UpdateFlags, GraphUpdate,
         DestinationsSet, Recalculated, PathUpdateCancel, routeVars, Set, RouteStatus,
         PathDone
<1>5. current_dst' \in 0..MaxDests
  BY <1>3, NavigationAssumption DEF RestInv
<1> QED BY <1>1, <1>2, <1>3, <1>4, <1>5 DEF RestInv

LEMMA EventRest ==
    ASSUME JobInv, RestInv,
           \/ GraphBuilt
           \/ \E count \in 0..MaxDests, n \in 0..MaxDests, a \in BOOLEAN :
                 n <= count /\ SetDestinations(count, n, a)
           \/ \E a \in BOOLEAN : AppendDestination(a)
           \/ RemoveNthWaypoint \/ RemoveWaypoint
           \/ \E a \in BOOLEAN, rebuild \in BOOLEAN : SetPosition(a, rebuild)
           \/ Recalculate \/ Draw \/ DrawNextLeg \/ Drawn
    PROVE  RestInv'
<1>1. UNCHANGED <<jobVars, listVars, overtaken>>
  BY DEF GraphBuilt, SetDestinations, AppendDestination, RemoveNthWaypoint,
         RemoveWaypoint, SetPosition, Recalculate, Draw, DrawNextLeg, Drawn
<1>2. UNCHANGED <<has_sitem, itms, nav_status, route_mr>>
  BY <1>1 DEF jobVars, listVars
<1>3. events' \in 0..MaxEvents
  <2>1. events' = events \/ (events < MaxEvents /\ events' = events + 1)
    BY DEF GraphBuilt, SetDestinations, AppendDestination, RemoveNthWaypoint,
           RemoveWaypoint, SetPosition, Recalculate, Draw, DrawNextLeg, Drawn, Happens
  <2> QED BY <2>1, NavigationAssumption DEF RestInv
<1>4. route_status' = route_status \/ route_status' \in RouteStatus
  BY DEF GraphBuilt, SetDestinations, AppendDestination, RemoveNthWaypoint,
         RemoveWaypoint, SetPosition, Recalculate, Draw, DrawNextLeg, Drawn,
         PathUpdateCancel, Set, RouteStatus
<1>5. graph' \in {graph, "none", "ready"}
  BY DEF GraphBuilt, SetDestinations, AppendDestination, RemoveNthWaypoint,
         RemoveWaypoint, SetPosition, Recalculate, Draw, DrawNextLeg, Drawn,
         PathUpdateCancel, routeVars
<1>6. destinations' \in 0..MaxDests /\ current_dst' \in 0..MaxDests
  <2>0. destinations \in 0..MaxDests /\ current_dst \in 0..MaxDests /\ MaxDests \in Nat
    BY NavigationAssumption DEF RestInv
  <2>1. CASE \E count \in 0..MaxDests, n \in 0..MaxDests, a \in BOOLEAN :
                n <= count /\ SetDestinations(count, n, a)
    BY <2>1 DEF SetDestinations
  <2>2. CASE \E a \in BOOLEAN : AppendDestination(a)
    BY <2>0, <2>2 DEF AppendDestination
  <2>3. CASE RemoveNthWaypoint \/ RemoveWaypoint
    <3>1. /\ destinations > 1 /\ destinations' = destinations - 1
          /\ current_dst' \in {destinations', 1}
      BY <2>3 DEF RemoveNthWaypoint, RemoveWaypoint
    <3> QED BY <2>0, <3>1
  <2>4. CASE GraphBuilt \/ Recalculate \/ Draw \/ DrawNextLeg \/ Drawn
             \/ \E a \in BOOLEAN, rebuild \in BOOLEAN : SetPosition(a, rebuild)
    BY <2>0, <2>4 DEF GraphBuilt, Recalculate, Draw, DrawNextLeg, Drawn, SetPosition,
                      routeVars
  <2> QED BY <2>1, <2>2, <2>3, <2>4
<1> QED BY <1>1, <1>2, <1>3, <1>4, <1>5, <1>6 DEF RestInv

LEMMA RestStart == Init => RestInv
<1>1. <<>> \in Seq(Items)
  OBVIOUS
<1>2. MaxDests \in Nat /\ MaxEvents \in Nat
  BY NavigationAssumption
<1>3. ASSUME Init PROVE route_mr.leg \notin LegIds
  BY <1>3, NoRectIs DEF Init
<1> SUFFICES ASSUME Init PROVE RestInv
  OBVIOUS
<1>4. itms \in Seq(Items) /\ nav_status \in NavStatus /\ route_status \in RouteStatus
  BY <1>1 DEF Init, NavStatus, RouteStatus
<1>5. /\ destinations \in 0..MaxDests /\ current_dst \in 0..MaxDests
      /\ events \in 0..MaxEvents
  BY <1>2 DEF Init
<1>6. /\ graph \in {"none", "busy", "ready"}
      /\ has_sitem \in BOOLEAN /\ overtaken \in BOOLEAN
  BY DEF Init
<1> QED BY <1>3, <1>4, <1>5, <1>6 DEF RestInv

LEMMA RestStep == RestInv /\ JobInv /\ [Next]_vars => RestInv'
<1> SUFFICES ASSUME RestInv, JobInv, [Next]_vars PROVE RestInv'
  OBVIOUS
<1>1. CASE UNCHANGED vars
  BY <1>1 DEF vars, routeVars, jobVars, listVars, RestInv
<1> QED BY <1>1, RouteRest, NavigationRest, EventRest DEF Next

\* Type correctness, which says more here than what the variables are: a leg of
\* the path is in use by the route and its two readers at most, and neither
\* route.path2 nor the local oldpath of route_path_update_done is ever a leg
\* that has been freed, though navigation_update_done and rm_rect_destroy nest
\* updates that replace the path, and route_remove_waypoint leaves it to the
\* readers to free the first leg.
THEOREM TypeCorrect == Spec => []TypeOK
<1>1. JobInv /\ PathInv /\ RestInv => TypeOK
  <2> SUFFICES ASSUME JobInv, PathInv, RestInv PROVE TypeOK
    OBVIOUS
  <2>1. JobTypes /\ StackInv /\ BusyInv
    BY DEF JobInv
  <2>2. /\ legs \in [LegIds -> Legs]
        /\ link_path \in BOOLEAN /\ async \in BOOLEAN
        /\ busy \in BOOLEAN /\ idle_ev \in BOOLEAN /\ route_mr \in Rects
    BY <2>1 DEF JobTypes
  <2>3. ASSUME NEW l \in LegIds
        PROVE  /\ legs[l].way \in Ways \cup WaysBetween \cup {<<>>}
               /\ legs[l].live \in BOOLEAN
               /\ legs[l].in_use \in 0..3
               /\ legs[l].update_required \in 0..2
               /\ legs[l].next \in LegIds \cup {NoLeg, FreedLeg}
    <3>1. legs[l] \in Legs
      BY <2>2
    <3>2. legs[l].in_use \in Nat /\ legs[l].in_use <= 1 + Readers[l]
      BY <3>1 DEF PathInv, Bounded, Legs
    <3>3. Readers[l] \in 0..2
      BY DEF Readers
    <3>4. legs[l].in_use \in 0..3
      BY <3>2, <3>3
    <3> QED BY <3>1, <3>4 DEF Legs, Pointers
  <2>4. path2 \in LegIds \cup {NoLeg, FreedLeg} /\ drawn \in LegIds \cup {NoLeg, Closed}
    BY DEF PathInv
  <2>5. idle_events \in Nat
    BY <2>1 DEF BusyInv
  <2>6. ASSUME NEW i \in DOMAIN stack PROVE stack[i] \in Calls
    <3>1. stack[i] \in Frames
      BY <2>1 DEF JobTypes
    <3>2. CASE stack[i].call = "path_new"
      <4>1. stack[i].oldpath # FreedLeg /\ stack[i].oldpath \in Pointers
        BY <2>1, <3>2 DEF PathInv, Update, StackInv
      <4> QED BY <3>1, <3>2, <4>1 DEF Frames, Pointers, Calls
    <3>3. CASE stack[i].call # "path_new"
      BY <3>1, <3>3 DEF Frames
    <3> QED BY <3>2, <3>3
  <2>7. itms \in Seq(Streets \cup {Arrival})
    BY DEF RestInv, Items
  <2> QED BY <2>2, <2>3, <2>4, <2>5, <2>6, <2>7 DEF RestInv, TypeOK
<1>2. Init => JobInv /\ PathInv /\ RestInv
  BY JobInit, PathStart, RestStart
<1>3. JobInv /\ PathInv /\ RestInv /\ [Next]_vars => (JobInv /\ PathInv /\ RestInv)'
  BY JobStep, PathStep, RestStep
<1> QED BY <1>1, <1>2, <1>3, PTL DEF Spec

-----------------------------------------------------------------------------
(* Lists *)

\* s is the end of t.
Ends(s, t) == \E u \in Seq(Items) : t = u \o s
Once(q) == \A i, j \in DOMAIN q : q[i] = q[j] => i = j

LEMMA Grouped == \A s, t, u \in Seq(Items) : (s \o t) \o u = s \o (t \o u)
BY ConcatAssociative

LEMMA EndsSelf ==
    ASSUME NEW s \in Seq(Items)
    PROVE  Ends(s, s)
<1>1. <<>> \in Seq(Items) /\ s = <<>> \o s
  BY EmptySeq, ConcatEmptySeq
<1> QED BY <1>1 DEF Ends

LEMMA EndsTwice ==
    ASSUME NEW r \in Seq(Items), NEW s, NEW t, Ends(r, s), Ends(s, t)
    PROVE  Ends(r, t)
<1> PICK u \in Seq(Items) : s = u \o r
  BY DEF Ends
<1> PICK v \in Seq(Items) : t = v \o s
  BY DEF Ends
<1>1. t = (v \o u) \o r
  BY Grouped, SMTT(20)
<1>2. v \o u \in Seq(Items)
  BY ConcatProperties
<1> QED BY <1>1, <1>2 DEF Ends

LEMMA EndsJoin ==
    ASSUME NEW r \in Seq(Items), NEW s, NEW t \in Seq(Items), Ends(r, s)
    PROVE  Ends(r \o t, s \o t)
<1> PICK u \in Seq(Items) : s = u \o r
  BY DEF Ends
<1>1. s \o t = u \o (r \o t)
  BY ConcatAssociative
<1> QED BY <1>1 DEF Ends

LEMMA TableIs ==
    ASSUME NEW T, NEW m \in Nat, NEW x \in [1..m -> T]
    PROVE  x \in Seq(T) /\ Len(x) = m
OBVIOUS

LEMMA JoinIs ==
    ASSUME NEW T, NEW s \in Seq(T), NEW t \in Seq(T), NEW k, NEW m,
           k = Len(s), m = Len(t)
    PROVE  /\ s \o t \in Seq(T) /\ Len(s \o t) = k + m
           /\ \A i \in 1..k + m : (s \o t)[i] = IF i <= k THEN s[i] ELSE t[i - k]
BY ConcatProperties

\* A list from i on
LEMMA TailIs ==
    ASSUME NEW T, NEW q \in Seq(T), NEW n, n = Len(q), NEW i \in 1..n
    PROVE  /\ SubSeq(q, i, n) \in Seq(T) /\ Len(SubSeq(q, i, n)) = n - i + 1
           /\ \A j \in 1..n - i + 1 : SubSeq(q, i, n)[j] = q[i + j - 1]
<1>1. n \in Nat /\ \A j \in 1..n : q[j] \in T
  BY LenProperties, ElementOfSeq
<1>2. i \in Int /\ n \in Int /\ i <= n /\ \A j \in i..n : q[j] \in T
  BY <1>1
<1> QED BY <1>2, SubSeqProperties

LEMMA SuffixEnds ==
    ASSUME NEW v \in Seq(Items), NEW w \in Seq(Items), IsSuffix(v, w)
    PROVE  Ends(v, w)
<1> PICK m, n : m = Len(v) /\ n = Len(w)
  OBVIOUS
<1>1. m \in Nat /\ n \in Nat /\ DOMAIN v = 1..m /\ DOMAIN w = 1..n
  BY LenProperties
<1> PICK x, y : x = Reverse(v) /\ y = Reverse(w)
  OBVIOUS
<1>2. x = [i \in 1..m |-> v[m - i + 1]] /\ y = [i \in 1..n |-> w[n - i + 1]]
  BY DEF Reverse
<1>3. x \in Seq(Items) /\ Len(x) = m /\ y \in Seq(Items) /\ Len(y) = n
  <2>1. \A i \in 1..m : v[m - i + 1] \in Items
    <3>1. \A i \in 1..m : m - i + 1 \in 1..m
      BY <1>1
    <3> QED BY <1>1, <3>1, ElementOfSeq
  <2>2. \A i \in 1..n : w[n - i + 1] \in Items
    <3>1. \A i \in 1..n : n - i + 1 \in 1..n
      BY <1>1
    <3> QED BY <1>1, <3>1, ElementOfSeq
  <2>3. x \in [1..m -> Items] /\ y \in [1..n -> Items]
    BY <1>2, <2>1, <2>2
  <2> QED BY <1>1, <2>3, TableIs
<1>4. m <= n /\ SubSeq(x, 1, m) = SubSeq(y, 1, m)
  BY <1>3 DEF IsSuffix, IsPrefix
<1>5. ASSUME NEW i \in 1..m PROVE v[m - i + 1] = w[n - i + 1]
  <2>1. \A j \in 1..m : x[j] \in Items /\ y[j] \in Items
    BY <1>1, <1>3, <1>4
  <2>2. /\ SubSeq(x, 1, m)[i] = x[1 + i - 1] /\ SubSeq(y, 1, m)[i] = y[1 + i - 1]
    <3>1. 1 \in Int /\ m \in Int /\ i \in 1..m - 1 + 1
      BY <1>1
    <3> QED BY <1>1, <2>1, <3>1, SubSeqProperties
  <2>3. x[i] = y[i]
    BY <1>1, <1>4, <2>2
  <2> QED BY <1>1, <1>2, <1>4, <2>3
<1> PICK k \in Nat : k = n - m
  BY <1>1, <1>4
<1> PICK u : u = SubSeq(w, 1, k)
  OBVIOUS
<1>6. u \in Seq(Items) /\ Len(u) = k /\ \A i \in 1..k : u[i] = w[i]
  <2>1. \A j \in 1..k : w[j] \in Items
    BY <1>1, <1>4
  <2>2. /\ u \in Seq(Items) /\ Len(u) = IF 1 <= k THEN k - 1 + 1 ELSE 0
        /\ \A i \in 1..k - 1 + 1 : u[i] = w[1 + i - 1]
    <3>1. 1 \in Int /\ k \in Int
      OBVIOUS
    <3> QED BY <2>1, <3>1, SubSeqProperties
  <2> QED BY <2>2
<1>7. /\ u \o v \in Seq(Items) /\ Len(u \o v) = k + m
      /\ \A i \in 1..k + m : (u \o v)[i] = IF i <= k THEN u[i] ELSE v[i - k]
  BY <1>6, JoinIs
<1>8. ASSUME NEW i \in 1..n PROVE w[i] = (u \o v)[i]
  <2>1. CASE i <= k
    BY <1>1, <1>6, <1>7, <2>1
  <2>2. CASE i > k
    <3>1. n - i + 1 \in 1..m
      BY <1>1, <2>2
    <3>2. v[m - (n - i + 1) + 1] = w[n - (n - i + 1) + 1]
      BY <1>5, <3>1
    <3>3. m - (n - i + 1) + 1 = i - k /\ n - (n - i + 1) + 1 = i
      BY <1>1
    <3> QED BY <1>1, <1>7, <2>2, <3>2, <3>3
  <2> QED BY <2>1, <2>2
<1>9. w = u \o v
  <2>1. Len(w) = Len(u \o v)
    BY <1>1, <1>7
  <2> QED BY <1>7, <1>8, <2>1, SeqEqual
<1> QED BY <1>6, <1>9 DEF Ends

LEMMA NotEmpty ==
    ASSUME NEW f, Len(f) >= 1
    PROVE  f # <<>>
<1>1. Len(<<>>) = 0
  OBVIOUS
<1>2. SUFFICES ASSUME f = <<>> PROVE FALSE
  OBVIOUS
<1>3. Len(<<>>) >= 1
  BY <1>2, Zenon
<1> QED BY <1>1, <1>3

LEMMA TailOf ==
    ASSUME NEW T, NEW q \in Seq(T), NEW i \in 1..Len(q), NEW f,
           f = SubSeq(q, i, Len(q))
    PROVE  /\ f \in Seq(T) /\ f # <<>> /\ Last(f) = Last(q)
           /\ Once(q) => Once(f)
<1> PICK n : n = Len(q)
  OBVIOUS
<1>1. n \in Nat /\ DOMAIN q = 1..n /\ i \in 1..n
  BY LenProperties
<1>2. /\ f \in Seq(T) /\ Len(f) = n - i + 1
      /\ \A j \in 1..n - i + 1 : f[j] = q[i + j - 1]
  BY <1>1, TailIs
<1>3. f # <<>>
  <2>1. Len(f) >= 1
    BY <1>1, <1>2
  <2> QED BY <2>1, NotEmpty
<1>4. Last(f) = Last(q)
  <2>1. n - i + 1 \in 1..n - i + 1 /\ i + (n - i + 1) - 1 = n
    BY <1>1
  <2>2. f[n - i + 1] = q[n]
    BY <1>2, <2>1
  <2> QED BY <1>2, <2>2 DEF Last
<1>5. Once(q) => Once(f)
  <2> SUFFICES ASSUME Once(q), NEW j \in DOMAIN f, NEW k \in DOMAIN f, f[j] = f[k]
               PROVE  j = k
    BY DEF Once
  <2>1. j \in 1..n - i + 1 /\ k \in 1..n - i + 1
    BY <1>2
  <2>2. i + j - 1 \in DOMAIN q /\ i + k - 1 \in DOMAIN q
    BY <1>1, <2>1
  <2>3. q[i + j - 1] = q[i + k - 1]
    BY <1>2, <2>1
  <2>4. i + j - 1 = i + k - 1
    BY <2>2, <2>3 DEF Once
  <2> QED BY <1>1, <2>1, <2>4
<1> QED BY <1>2, <1>3, <1>4, <1>5

\* The list from an item of it on
LEMMA FromIs ==
    ASSUME itms \in Seq(Items), NEW x, Found(x)
    PROVE  /\ From(x) \in Seq(Items) /\ From(x) # <<>>
           /\ Whole(From(x)) <=> Whole(itms)
           /\ Once(itms) => Once(From(x))
<1> PICK i : i = CHOOSE j \in DOMAIN itms : itms[j] = x
  OBVIOUS
<1>1. i \in DOMAIN itms
  BY DEF Found, Range
<1>2. i \in 1..Len(itms) /\ itms # <<>>
  BY <1>1
<1> PICK f : f = From(x)
  OBVIOUS
<1>3. f = SubSeq(itms, i, Len(itms))
  BY DEF From
<1>4. /\ f \in Seq(Items) /\ f # <<>> /\ Last(f) = Last(itms)
      /\ Once(itms) => Once(f)
  BY <1>2, <1>3, TailOf
<1> QED BY <1>2, <1>4 DEF Whole

\* An end of the list is found by its first item.
LEMMA FromEnd ==
    ASSUME itms \in Seq(Items), Once(itms), NEW s \in Seq(Items), s # <<>>,
           Ends(s, itms)
    PROVE  Found(s[1]) /\ From(s[1]) = s
<1> PICK u \in Seq(Items) : itms = u \o s
  BY DEF Ends
<1> PICK k, m : k = Len(u) /\ m = Len(s)
  OBVIOUS
<1>1. k \in Nat /\ m \in Nat /\ m >= 1
  BY LenProperties, EmptySeq
<1>2. /\ Len(itms) = k + m
      /\ \A i \in 1..k + m : itms[i] = IF i <= k THEN u[i] ELSE s[i - k]
  BY ConcatProperties
<1>3. DOMAIN itms = 1..k + m
  BY <1>2, LenProperties
<1>4. k + 1 \in DOMAIN itms /\ itms[k + 1] = s[1]
  BY <1>1, <1>2, <1>3
<1>5. Found(s[1])
  BY <1>4 DEF Found, Range
<1>6. (CHOOSE j \in DOMAIN itms : itms[j] = s[1]) = k + 1
  BY <1>4 DEF Once
<1>7. From(s[1]) = SubSeq(itms, k + 1, k + m)
  BY <1>2, <1>6 DEF From
<1> PICK f : f = SubSeq(itms, k + 1, k + m)
  OBVIOUS
<1>8. /\ f \in Seq(Items) /\ Len(f) = m
      /\ \A j \in 1..m : f[j] = itms[k + 1 + j - 1]
  <2>1. \A j \in k + 1..k + m : itms[j] \in Items
    BY <1>1, <1>3
  <2>2. k + 1 \in Int /\ k + m \in Int /\ k + 1 <= k + m /\ (k + m) - (k + 1) + 1 = m
    BY <1>1
  <2> QED BY <2>1, <2>2, SubSeqProperties
<1>9. \A j \in 1..m : f[j] = s[j]
  BY <1>1, <1>2, <1>8
<1>10. f = s
  BY <1>8, <1>9, SeqEqual
<1> QED BY <1>5, <1>7, <1>10

-----------------------------------------------------------------------------
(* The status of the route, and what it says of the path and of the job *)

Holds(s, call) == \E i \in DOMAIN s : s[i].call = call

\* When the path is done there is one, and a graph; an update that is to replace
\* it has not yet told so.
StatusInv ==
    /\ route_status \in PathDone => graph # "none"
    /\ route_status \in PathDone /\ ~Running("update_done") => path2 \in LegIds
    /\ Ending => route_status \notin PathDone
    /\ \A i \in DOMAIN stack :
          Update(i) /\ stack[i].oldpath = path2 => route_status \notin PathDone

\* While the destinations are set nothing is done but to tell so.
SetInv ==
    Holds(stack, "set_destinations") =>
       /\ route_status \in {"no_destination", "destination_set"}
       /\ Running("set_destinations") \/ (Ending /\ Len(stack) = 2)

\* A job reads a leg, from its first street on.
ReadInv == busy => route_mr.leg \in LegIds /\ (~has_sitem => route_mr.at = 1)

SideInv == StatusInv /\ SetInv /\ ReadInv

LEMMA HoldsPush ==
    ASSUME NEW s \in Seq(Frames), NEW f \in Frames, NEW call,
           Holds(Append(s, f), call)
    PROVE  Holds(s, call) \/ f.call = call
<1> PICK t : t = Append(s, f)
  OBVIOUS
<1> PICK k : k = Len(s)
  OBVIOUS
<1>1. /\ t \in Seq(Frames) /\ k \in Nat /\ Len(t) = k + 1
      /\ \A i \in 1..k : t[i] = s[i]
      /\ t[k + 1] = f
  BY PushIs
<1>2. DOMAIN t = 1..k + 1 /\ DOMAIN s = 1..k
  BY <1>1, LenProperties
<1> PICK i \in DOMAIN t : t[i].call = call
  BY DEF Holds
<1>3. i \in 1..k \/ i = k + 1
  BY <1>1, <1>2
<1> QED BY <1>1, <1>2, <1>3 DEF Holds

LEMMA HoldsPop ==
    ASSUME JobInv, stack # <<>>
    PROVE  \A call : Holds(Caller, call) => Holds(stack, call)
<1> PICK n : n = Len(stack)
  OBVIOUS
<1>1. /\ n \in Nat /\ DOMAIN stack = 1..n
      /\ Caller \in Seq(Frames) /\ Len(Caller) = n - 1
      /\ \A i \in 1..n-1 : Caller[i] = stack[i]
  BY TopIs
<1>2. DOMAIN Caller = 1..n-1 /\ \A i \in 1..n-1 : i \in 1..n
  BY <1>1
<1> QED BY <1>1, <1>2 DEF Holds

\* A call returns, or calls another.
LEMMA FramesKept ==
    ASSUME JobInv, NEW s, (s = stack /\ ~Ending) \/ (stack # <<>> /\ s = Caller),
           \/ stack' = s
           \/ \E f \in Frames :
                 /\ stack' = Append(s, f)
                 /\ f.call \notin {"path_new", "navigation_update", "set_destinations"}
    PROVE  /\ NoNewUpdate /\ ~Ending'
           /\ Holds(stack', "set_destinations") => Holds(stack, "set_destinations")
<1>1. NoNewUpdate
  BY NoNewIs
<1>2. s \in Seq(Frames)
  BY TopIs DEF JobInv, JobTypes
<1>3. Holds(s, "set_destinations") => Holds(stack, "set_destinations")
  BY HoldsPop
<1>4. CASE stack' = s
  <2>1. CASE s = stack /\ ~Ending
    BY <1>1, <1>3, <1>4, <2>1 DEF Ending, Running
  <2>2. CASE stack # <<>> /\ s = Caller
    <3> PICK n : n = Len(stack)
      OBVIOUS
    <3>1. /\ n \in Nat /\ Len(s) = n - 1
          /\ \A i \in 1..n-1 : s[i] = stack[i] /\ stack[i].call \notin OnTop
      BY <2>2, TopIs
    <3>2. ASSUME s # <<>> PROVE Last(s).call \notin OnTop
      <4>1. Len(s) >= 1
        BY <1>2, <3>2
      <4>2. n - 1 \in 1..n-1
        BY <3>1, <4>1
      <4> QED BY <3>1, <4>2 DEF Last
    <3>3. ~Ending'
      BY <1>4, <3>2 DEF Ending, Running, OnTop
    <3> QED BY <1>1, <1>3, <1>4, <3>3
  <2> QED BY <2>1, <2>2
<1>5. ASSUME NEW f \in Frames, stack' = Append(s, f),
             f.call \notin {"path_new", "navigation_update", "set_destinations"}
      PROVE  ~Ending' /\ (Holds(stack', "set_destinations") => Holds(s, "set_destinations"))
  <2>1. Last(stack') = f
    BY <1>2, <1>5, PushIs
  <2>2. ~Ending'
    BY <1>5, <2>1 DEF Ending, Running
  <2>3. Holds(stack', "set_destinations") => Holds(s, "set_destinations")
    BY <1>2, <1>5, HoldsPush
  <2> QED BY <2>2, <2>3
<1> QED BY <1>1, <1>3, <1>4, <1>5

\* A status is set that is not that of a path.
LEMMA SetHolds ==
    ASSUME NEW s \in Seq(Frames), NEW status \in RouteStatus, Set(status, s), NEW call,
           call # "navigation_update"
    PROVE  Holds(stack', call) => Holds(s, call)
<1> PICK f \in Frames : f = [call |-> "navigation_update", status |-> status]
  BY FramesAre
<1>1. stack' = s \/ stack' = Append(s, f)
  BY SetIs
<1>2. f.call # call
  OBVIOUS
<1> QED BY <1>1, <1>2, HoldsPush

LEMMA StatusQuiet ==
    ASSUME route_status' \notin PathDone
    PROVE  StatusInv'
BY DEF StatusInv

LEMMA StatusKept ==
    ASSUME StatusInv, UNCHANGED <<path2, route_status>>, NoNewUpdate, ~Ending',
           graph' \in {graph, "busy", "ready"},
           ~Running("update_done") \/ path2 \in LegIds
    PROVE  StatusInv'
<1>1. ASSUME NEW i \in DOMAIN stack', Update(i)', stack'[i].oldpath = path2'
      PROVE  route_status' \notin PathDone
  <2>1. i \in DOMAIN stack /\ stack'[i] = stack[i]
    BY <1>1 DEF NoNewUpdate
  <2>2. Update(i) /\ stack[i].oldpath = path2
    BY <1>1, <2>1 DEF Update
  <2> QED BY <2>1, <2>2 DEF StatusInv
<1> QED BY <1>1 DEF StatusInv

\* Nothing but setting the destinations and what it calls runs then.
LEMMA SetKept ==
    ASSUME SetInv, ~Ending, ~Running("set_destinations"),
           Holds(stack', "set_destinations") => Holds(stack, "set_destinations")
    PROVE  SetInv'
BY DEF SetInv

LEMMA NavigationUpdateSide ==
    ASSUME JobInv, SideInv, NavigationUpdate
    PROVE  SideInv'
<1>1. /\ JobTypes /\ stack # <<>> /\ Running("navigation_update")
      /\ UNCHANGED <<graph, path2, route_status>>
  BY DEF JobInv, NavigationUpdate, Running
<1>2. Caller \in Seq(Frames)
  BY <1>1, TopIs
<1>3. ~Running("update_done") /\ ~Running("set_destinations")
  BY <1>1 DEF Running
<1> PICK open \in Frames : open = [call |-> "navigation_open"]
  BY FramesAre
<1>4. Then(Caller, "navigation_open") = Append(Caller, open)
      /\ open.call \notin {"path_new", "navigation_update", "set_destinations"}
  BY DEF Then
<1>5. \A b \in BOOLEAN :
         /\ UpdateDoneCall(b) \in Frames
         /\ UpdateDoneCall(b).call \notin {"path_new", "navigation_update", "set_destinations"}
  BY FramesAre DEF UpdateDoneCall
<1>6. \/ stack' = Caller /\ UNCHANGED <<legs, jobVars>>
      \/ EndJob(Caller)
      \/ /\ Last(stack).status \in PathDone /\ ~busy
         /\ CloseRect(route_mr.leg, Append(Caller, open))
         /\ busy' = busy
  <2>1. Last(stack).status \in PathDone => ~busy
    BY DEF NavigationUpdate, JobInv, BusyInv, Opening
  <2> QED BY <1>4, <2>1 DEF NavigationUpdate
<1>7. \/ stack' = Caller
      \/ \E f \in Frames :
            /\ stack' = Append(Caller, f)
            /\ f.call \notin {"path_new", "navigation_update", "set_destinations"}
  <2>1. CASE EndJob(Caller)
    <3>1. \/ stack' = Caller
          \/ \E b \in BOOLEAN : stack' = Append(Caller, UpdateDoneCall(b))
      BY <1>1, <1>2, <2>1, CloseIs DEF EndJob
    <3> QED BY <1>5, <3>1
  <2>2. CASE ~busy /\ CloseRect(route_mr.leg, Append(Caller, open))
    <3>1. Append(Caller, open) \in Seq(Frames)
      BY <1>2
    <3>2. stack' = Append(Caller, open)
      BY <1>1, <2>2, <3>1, CloseIs, NoMapRect
    <3> QED BY <1>4, <3>2
  <2> QED BY <1>6, <2>1, <2>2
<1>8. /\ NoNewUpdate /\ ~Ending'
      /\ Holds(stack', "set_destinations") => Holds(stack, "set_destinations")
  BY <1>1, <1>7, FramesKept
<1>9. StatusInv'
  BY <1>1, <1>3, <1>8, StatusKept DEF SideInv
<1>10. SetInv'
  <2> SUFFICES ASSUME Holds(stack', "set_destinations")
               PROVE  /\ route_status' \in {"no_destination", "destination_set"}
                      /\ Running("set_destinations")'
    BY DEF SetInv
  <2> PICK n : n = Len(stack)
    OBVIOUS
  <2>1. /\ route_status \in {"no_destination", "destination_set"}
        /\ Ending /\ n = 2
    BY <1>3, <1>8 DEF SideInv, SetInv
  <2>2. Last(stack).status \notin PathDone
    BY <2>1 DEF Ending
  <2>3. stack' = Caller
    BY <1>6, <2>1, <2>2 DEF EndJob, CloseRect
  <2>4. /\ Len(stack') = 1 /\ stack' \in Seq(Frames) /\ stack'[1] = stack[1]
        /\ DOMAIN stack' = 1..1 /\ 1 \in 1..1
    <3>1. /\ Caller \in Seq(Frames) /\ Len(Caller) = n - 1
          /\ \A i \in 1..n-1 : Caller[i] = stack[i]
      BY <1>1, TopIs
    <3>2. stack' \in Seq(Frames) /\ Len(stack') = 1
      BY <2>1, <2>3, <3>1
    <3>3. DOMAIN stack' = 1..1 /\ 1 \in 1..1
      BY <3>2, LenProperties
    <3>4. stack'[1] = stack[1]
      <4>1. 1 \in 1..n-1
        BY <2>1
      <4> QED BY <2>3, <3>1, <4>1
    <3> QED BY <3>2, <3>3, <3>4
  <2>5. stack'[1].call = "set_destinations"
    <3> PICK i \in DOMAIN stack' : stack'[i].call = "set_destinations"
      BY DEF Holds
    <3> QED BY <2>4
  <2>6. stack' # <<>> /\ Last(stack') = stack'[1]
    BY <2>4 DEF Last
  <2> QED BY <1>1, <2>1, <2>5, <2>6 DEF Running
<1>11. ReadInv'
  BY <1>6 DEF EndJob, SideInv, ReadInv, jobVars
<1> QED BY <1>9, <1>10, <1>11 DEF SideInv

LEMMA NavigationOpenSide ==
    ASSUME JobInv, SideInv, NavigationOpen
    PROVE  SideInv'
<1>1. /\ stack # <<>> /\ Running("navigation_open")
      /\ UNCHANGED <<graph, path2, route_status>>
      /\ route_mr' = [leg |-> path2, at |-> 1]
      /\ stack' = IF async THEN Caller ELSE Append(Caller, [call |-> "navigation_read"])
  BY DEF NavigationOpen, Running, Then
<1>2. ~Running("update_done") /\ ~Running("set_destinations") /\ ~Ending
  BY <1>1 DEF Running, Ending
<1> PICK read \in Frames : read = [call |-> "navigation_read"]
  BY FramesAre
<1>3. read.call \notin {"path_new", "navigation_update", "set_destinations"}
  OBVIOUS
<1>4. /\ NoNewUpdate /\ ~Ending'
      /\ Holds(stack', "set_destinations") => Holds(stack, "set_destinations")
  BY <1>1, <1>3, FramesKept
<1>5. path2 \in LegIds
  <2>1. route_status \in PathDone
    BY <1>1 DEF JobInv, BusyInv, Opening
  <2> QED BY <1>2, <2>1 DEF SideInv, StatusInv
<1>6. ReadInv'
  BY <1>1, <1>5 DEF ReadInv
<1> QED BY <1>1, <1>2, <1>4, <1>6, StatusKept, SetKept DEF SideInv

LEMMA IdleSide ==
    ASSUME JobInv, SideInv, busy, UpdateIdle(stack), ~Ending,
           ~Running("update_done"), ~Running("set_destinations")
    PROVE  SideInv'
<1>1. UNCHANGED <<graph, path2, route_status>> /\ stack \in Seq(Frames) /\ JobTypes
  BY DEF UpdateIdle, JobInv, JobTypes
<1>2. \/ stack' = stack
      \/ \E b \in BOOLEAN : stack' = Append(stack, UpdateDoneCall(b))
  BY <1>1, UpdateIdleIs
<1>3. \A b \in BOOLEAN :
         /\ UpdateDoneCall(b) \in Frames
         /\ UpdateDoneCall(b).call \notin {"path_new", "navigation_update", "set_destinations"}
  BY FramesAre DEF UpdateDoneCall
<1>4. /\ NoNewUpdate /\ ~Ending'
      /\ Holds(stack', "set_destinations") => Holds(stack, "set_destinations")
  BY <1>2, <1>3, FramesKept
<1>5. ReadInv'
  <2>1. CASE EndJob(stack)
    BY <2>1 DEF EndJob, ReadInv
  <2>2. CASE /\ route_mr' = [NextRead EXCEPT !.at = @ + 1] /\ NextRead.leg \in LegIds
             /\ has_sitem' = TRUE
    <3>1. DOMAIN NextRead = {"leg", "at"}
      BY <1>1 DEF NextRead, JobTypes, Rects
    <3>2. route_mr'.leg = NextRead.leg
      BY <2>2, <3>1
    <3> QED BY <2>2, <3>2 DEF ReadInv
  <2> QED BY <2>1, <2>2 DEF UpdateIdle, ReadNoGraph, ReadEnd, ReadStreet
<1> QED BY <1>1, <1>4, <1>5, StatusKept, SetKept DEF SideInv

LEMMA NavigationReadSide ==
    ASSUME JobInv, SideInv, NavigationRead
    PROVE  SideInv'
<1>1. stack # <<>> /\ ~Running("update_done") /\ ~Running("set_destinations") /\ ~Ending
  BY DEF NavigationRead, Running, Ending
<1>2. CASE busy /\ UpdateIdle(stack)
  BY <1>1, <1>2, IdleSide
<1>3. CASE stack' = Caller /\ UNCHANGED <<routeVars, jobVars, route_status>>
  <2>1. UNCHANGED <<graph, path2, route_status>>
    BY <1>3 DEF routeVars
  <2>2. /\ NoNewUpdate /\ ~Ending'
        /\ Holds(stack', "set_destinations") => Holds(stack, "set_destinations")
    BY <1>1, <1>3, FramesKept
  <2>3. ReadInv'
    BY <1>3 DEF SideInv, ReadInv, jobVars
  <2> QED BY <1>1, <2>1, <2>2, <2>3, StatusKept, SetKept DEF SideInv
<1> QED BY <1>2, <1>3 DEF NavigationRead

LEMMA NavigationIdleSide ==
    ASSUME JobInv, SideInv, NavigationIdle
    PROVE  SideInv'
<1>1. busy /\ UpdateIdle(stack)
  BY DEF NavigationIdle, JobInv, BusyInv
<1>2. ~Ending /\ ~Running("update_done") /\ ~Running("set_destinations")
  BY DEF NavigationIdle, Running, Ending
<1> QED BY <1>1, <1>2, IdleSide

LEMMA HoldsOne ==
    ASSUME NEW f \in Frames, NEW call
    PROVE  Holds(<<f>>, call) => f.call = call
BY DEF Holds

LEMMA HoldsNone == \A call : ~Holds(<<>>, call)
BY DEF Holds

LEMMA HoldsTwo ==
    ASSUME NEW f \in Frames, NEW g \in Frames, NEW call
    PROVE  Holds(<<f, g>>, call) => f.call = call \/ g.call = call
<1> PICK s : s = <<f, g>>
  OBVIOUS
<1>1. DOMAIN s = 1..2 /\ s[1] = f /\ s[2] = g
  OBVIOUS
<1>2. \A i \in 1..2 : i = 1 \/ i = 2
  OBVIOUS
<1> QED BY <1>1, <1>2 DEF Holds

\* What happens to the route, the end of its first leg and the display list aside
RouteEvent ==
    \/ UpdateFlags \/ GraphUpdate \/ DestinationsSet \/ Recalculated \/ GraphBuilt
    \/ \E count \in 0..MaxDests, n \in 0..MaxDests, a \in BOOLEAN :
          n <= count /\ SetDestinations(count, n, a)
    \/ \E a \in BOOLEAN : AppendDestination(a)
    \/ RemoveNthWaypoint
    \/ \E a \in BOOLEAN, rebuild \in BOOLEAN : SetPosition(a, rebuild)
    \/ Recalculate

Eventful ==
    /\ AtBottom
    /\ UNCHANGED <<jobVars, itms, link_path, overtaken>>
    /\ path2' = NoLeg \/ (path2' = path2 /\ legs' = legs)
    /\ \/ route_status' \notin PathDone
       \/ /\ UNCHANGED <<route_status, path2>> /\ graph' \in {graph, "busy", "ready"}
          /\ ~Ending'
    /\ Holds(stack', "set_destinations") =>
          /\ route_status' \in {"no_destination", "destination_set"}
          /\ Running("set_destinations")' \/ (Ending' /\ Len(stack') = 2)

\* The path is destroyed, and nothing is routed any more or a new graph is built.
LEMMA CancelEvent ==
    ASSUME AtBottom, UNCHANGED <<jobVars, itms, link_path, overtaken>>,
           NEW n, PathUpdateCancel(n, <<>>), n = 0 => route_status \notin PathDone
    PROVE  Eventful
<1> PICK f \in Frames : f = [call |-> "graph_update"]
  BY FramesAre DEF Outermost
<1>1. Then(<<>>, "graph_update") = <<f>> /\ f.call # "set_destinations"
  BY DEF Then
<1>2. path2' = NoLeg
  BY DEF PathUpdateCancel, DestroyPath
<1>3. CASE n = 0 /\ stack' = <<>> /\ UNCHANGED route_status
  BY <1>2, <1>3, HoldsNone DEF Eventful
<1>4. CASE Set("building_graph", <<f>>)
  <2>1. "building_graph" \in RouteStatus /\ "building_graph" \notin PathDone
    BY DEF RouteStatus, PathDone
  <2>2. ~Holds(<<f>>, "set_destinations") /\ <<f>> \in Seq(Frames)
    BY <1>1, HoldsOne
  <2>3. ~Holds(stack', "set_destinations")
    BY <1>4, <2>1, <2>2, SetHolds
  <2>4. route_status' \notin PathDone
    BY <1>4, <2>1 DEF Set
  <2> QED BY <1>2, <2>3, <2>4 DEF Eventful
<1> QED BY <1>1, <1>3, <1>4 DEF PathUpdateCancel

LEMMA RouteEventIs ==
    ASSUME JobInv, SideInv, RouteEvent
    PROVE  Eventful
<1>1. stack = <<>> => AtBottom
  BY DEF AtBottom
<1>2. \A b \in BOOLEAN : /\ UpdateDoneCall(b) \in Frames
                         /\ UpdateDoneCall(b).call = "update_done"
  BY FramesAre DEF UpdateDoneCall
<1>3. ASSUME NEW b \in BOOLEAN, stack' = <<UpdateDoneCall(b)>>
      PROVE  ~Ending' /\ ~Holds(stack', "set_destinations")
  <2>1. Last(stack') = UpdateDoneCall(b)
    BY <1>3 DEF Last
  <2> QED BY <1>2, <1>3, <2>1, HoldsOne DEF Ending, Running
<1>4. ASSUME stack' = <<>>
      PROVE  ~Ending' /\ ~Holds(stack', "set_destinations")
  BY <1>4, HoldsNone DEF Ending, Running
<1>5. "building_graph" \in RouteStatus /\ "building_graph" \notin PathDone
  BY DEF RouteStatus, PathDone
<1>6. ASSUME NEW f \in Frames, f.call # "set_destinations",
             Set("building_graph", <<f>>)
      PROVE  route_status' \notin PathDone /\ ~Holds(stack', "set_destinations")
  <2>1. ~Holds(<<f>>, "set_destinations") /\ <<f>> \in Seq(Frames)
    BY <1>6, HoldsOne
  <2> QED BY <1>5, <1>6, <2>1, SetHolds, SetIs
<1>7. CASE UpdateFlags
  <2>1. AtBottom /\ Caller = <<>>
    BY <1>7, OutermostIs DEF UpdateFlags, Outermost
  <2> PICK f \in Frames : f = [call |-> "graph_update"]
    BY FramesAre DEF Outermost
  <2>2. Then(<<>>, "graph_update") = <<f>> /\ f.call # "set_destinations"
    BY DEF Then
  <2>3. \/ Set("building_graph", <<f>>)
        \/ stack' = <<>> /\ UNCHANGED <<graph, route_status>>
    BY <1>7, <2>1, <2>2 DEF UpdateFlags
  <2>4. UNCHANGED <<jobVars, itms, link_path, overtaken, path2, legs>>
    BY <1>7 DEF UpdateFlags, listVars
  <2> QED BY <1>4, <1>6, <2>1, <2>2, <2>3, <2>4 DEF Eventful
<1>8. CASE GraphUpdate
  <2>1. AtBottom /\ Caller = <<>>
    BY <1>8, OutermostIs DEF GraphUpdate, Outermost
  <2>2. stack' = <<>> \/ stack' = <<UpdateDoneCall(TRUE)>>
    BY <1>8, <2>1, DoneIs DEF GraphUpdate
  <2>3. /\ UNCHANGED <<jobVars, itms, link_path, overtaken, path2, legs, route_status>>
        /\ graph' \in {"busy", "ready"}
    BY <1>8 DEF GraphUpdate, listVars
  <2> QED BY <1>3, <1>4, <2>1, <2>2, <2>3 DEF Eventful
<1>9. CASE DestinationsSet
  <2>1. AtBottom /\ Caller = <<>>
    BY <1>9, OutermostIs DEF DestinationsSet, Outermost
  <2>2. PathUpdateCancel(destinations, <<>>)
    BY <1>9, <2>1 DEF DestinationsSet
  <2>3. UNCHANGED <<jobVars, itms, link_path, overtaken>>
    BY <1>9 DEF DestinationsSet, listVars
  <2>4. route_status \notin PathDone
    <3>1. stack # <<>> /\ Last(stack).call = "set_destinations"
      BY <1>9 DEF DestinationsSet, Running
    <3>2. Holds(stack, "set_destinations")
      BY <3>1, TopIs DEF Holds
    <3> QED BY <3>2 DEF SideInv, SetInv, PathDone
  <2> QED BY <2>1, <2>2, <2>3, <2>4, CancelEvent
<1>10. CASE Recalculated
  <2>1. AtBottom /\ Caller = <<>>
    BY <1>10, OutermostIs DEF Recalculated, Outermost
  <2>2. stack' = <<UpdateDoneCall(FALSE)>>
    BY <1>10, <2>1, DoneIs DEF Recalculated
  <2>3. UNCHANGED <<jobVars, itms, link_path, overtaken, path2, legs, route_status, graph>>
    BY <1>10 DEF Recalculated, routeVars, listVars
  <2> QED BY <1>3, <2>1, <2>2, <2>3 DEF Eventful
<1>11. CASE GraphBuilt
  <2>1. stack = <<>> /\ stack' = <<UpdateDoneCall(TRUE)>> /\ graph' = "ready"
    BY <1>11 DEF GraphBuilt
  <2>2. UNCHANGED <<jobVars, itms, link_path, overtaken, path2, legs, route_status>>
    BY <1>11 DEF GraphBuilt, listVars
  <2> QED BY <1>1, <1>3, <2>1, <2>2 DEF Eventful
<1>12. ASSUME NEW count \in 0..MaxDests, NEW n \in 0..MaxDests, NEW a \in BOOLEAN,
              SetDestinations(count, n, a)
       PROVE  Eventful
  <2> PICK f \in Frames : f = [call |-> "set_destinations"]
    BY FramesAre DEF Outermost
  <2>1. Then(<<>>, "set_destinations") = <<f>> /\ f.call = "set_destinations"
    BY DEF Then
  <2> PICK status : status = IF count = 0 THEN "no_destination" ELSE "destination_set"
    OBVIOUS
  <2>2. stack = <<>> /\ Set(status, <<f>>)
        /\ UNCHANGED <<jobVars, itms, link_path, overtaken, path2, legs>>
    BY <1>12, <2>1 DEF SetDestinations, Happens, listVars
  <2>3. /\ status \in RouteStatus /\ status \notin PathDone
        /\ status \in {"no_destination", "destination_set"}
    BY DEF RouteStatus, PathDone
  <2> PICK called \in Frames : called = [call |-> "navigation_update", status |-> status]
    BY <2>3, FramesAre
  <2>4. route_status' = status /\ (stack' = <<f>> \/ stack' = Append(<<f>>, called))
    BY <2>2, SetIs
  <2>5. CASE stack' = <<f>>
    <3>1. Last(stack') = f /\ stack' # <<>>
      BY <2>5 DEF Last
    <3>2. Running("set_destinations")'
      BY <2>1, <3>1 DEF Running
    <3> QED BY <1>1, <2>2, <2>3, <2>4, <3>2 DEF Eventful
  <2>6. CASE stack' = Append(<<f>>, called)
    <3>1. <<f>> \in Seq(Frames) /\ Len(<<f>>) = 1
      OBVIOUS
    <3>2. Last(stack') = called /\ stack' # <<>> /\ Len(stack') = 2
      <4>1. Len(stack') = Len(<<f>>) + 1 /\ Last(stack') = called /\ stack' # <<>>
        BY <2>6, <3>1, PushIs
      <4> QED BY <3>1, <4>1
    <3>3. Ending'
      BY <2>3, <3>2 DEF Ending, Running
    <3> QED BY <1>1, <2>2, <2>3, <2>4, <3>2, <3>3 DEF Eventful
  <2> QED BY <2>4, <2>5, <2>6
<1>13. ASSUME NEW a \in BOOLEAN, AppendDestination(a) PROVE Eventful
  <2>1. stack = <<>> /\ PathUpdateCancel(destinations', <<>>)
        /\ UNCHANGED <<jobVars, itms, link_path, overtaken>>
    BY <1>13 DEF AppendDestination, Happens, listVars
  <2>2. destinations' # 0
    <3>1. destinations \in 1..MaxDests - 1 /\ destinations' = destinations + 1
      BY <1>13 DEF AppendDestination
    <3> QED BY <3>1, NavigationAssumption
  <2> QED BY <1>1, <2>1, <2>2, CancelEvent
<1>14. CASE RemoveNthWaypoint
  <2>1. stack = <<>> /\ PathUpdateCancel(destinations', <<>>)
        /\ UNCHANGED <<jobVars, itms, link_path, overtaken>>
    BY <1>14 DEF RemoveNthWaypoint, Happens, listVars
  <2>2. destinations' # 0
    <3>1. destinations > 1 /\ destinations' = destinations - 1 /\ destinations \in Int
      BY <1>14 DEF RemoveNthWaypoint, JobInv, JobTypes
    <3> QED BY <3>1
  <2> QED BY <1>1, <2>1, <2>2, CancelEvent
<1>15. ASSUME NEW a \in BOOLEAN, NEW rebuild \in BOOLEAN, SetPosition(a, rebuild)
       PROVE  Eventful
  <2> PICK f \in Frames : f = [call |-> "update_flags", rebuild |-> rebuild]
    BY FramesAre
  <2> PICK g \in Frames : g = UpdateDoneCall(FALSE)
    BY <1>2
  <2>1. stack = <<>> /\ (stack' = <<>> \/ stack' = <<f, g>>)
        /\ UNCHANGED <<jobVars, itms, link_path, overtaken, path2, legs, route_status, graph>>
    BY <1>15 DEF SetPosition, Happens, listVars
  <2>2. CASE stack' = <<f, g>>
    <3>1. g.call = "update_done" /\ f.call # "set_destinations"
      BY <1>2
    <3>2. Last(stack') = g
      BY <2>2 DEF Last
    <3>3. ~Ending' /\ ~Holds(stack', "set_destinations")
      BY <2>2, <3>1, <3>2, HoldsTwo DEF Ending, Running
    <3> QED BY <1>1, <2>1, <3>3 DEF Eventful
  <2> QED BY <1>1, <1>4, <2>1, <2>2 DEF Eventful
<1>16. CASE Recalculate
  <2> PICK f \in Frames : f = [call |-> "recalculated"]
    BY FramesAre DEF Outermost
  <2>1. Then(<<>>, "recalculated") = <<f>> /\ f.call # "set_destinations"
    BY DEF Then
  <2>2. stack = <<>> /\ Set("building_graph", <<f>>)
        /\ UNCHANGED <<jobVars, itms, link_path, overtaken, path2, legs>>
    BY <1>16, <2>1 DEF Recalculate, Happens, routeVars, listVars
  <2> QED BY <1>1, <1>6, <2>1, <2>2 DEF Eventful
<1> QED BY <1>7, <1>8, <1>9, <1>10, <1>11, <1>12, <1>13, <1>14, <1>15, <1>16
        DEF RouteEvent

LEMMA BottomCalls ==
    ASSUME JobInv, AtBottom, NEW call, Running(call)
    PROVE  call \in Outermost
<1>1. stack # <<>>
  BY DEF Running
<1>2. Len(stack) = 1 /\ stack[1].call \in Outermost
  BY <1>1 DEF AtBottom
<1> QED BY <1>1, <1>2 DEF Running, Last

LEMMA EventSide ==
    ASSUME JobInv, SideInv, Eventful, Shallow(stack')
    PROVE  SideInv'
<1>1. ReadInv'
  BY DEF Eventful, SideInv, ReadInv, jobVars
<1>2. SetInv'
  BY DEF Eventful, SetInv
<1>3. StatusInv'
  <2>1. CASE route_status' \notin PathDone
    BY <2>1, StatusQuiet
  <2>2. CASE /\ UNCHANGED <<route_status, path2>> /\ graph' \in {graph, "busy", "ready"}
             /\ ~Ending'
    <3>1. ~Running("update_done")
      BY BottomCalls DEF Eventful, Outermost
    <3> QED BY <2>2, <3>1, ShallowNew, StatusKept DEF SideInv
  <2> QED BY <2>1, <2>2 DEF Eventful
<1> QED BY <1>1, <1>2, <1>3 DEF SideInv

LEMMA LegEventSide ==
    ASSUME JobInv, SideInv, RemoveWaypoint \/ Draw \/ DrawNextLeg \/ Drawn
    PROVE  SideInv' /\ Shallow(stack')
<1>1. /\ stack = <<>> /\ UNCHANGED <<route_status, graph, jobVars>> /\ JobTypes
  BY DEF RemoveWaypoint, Draw, DrawNextLeg, Drawn, Happens, JobInv, JobTypes
<1>2. \/ stack' = <<>>
      \/ \E b \in BOOLEAN : stack' = <<UpdateDoneCall(b)>>
  <2>1. CASE Drawn
    <3>1. CloseRect(drawn, <<>>) /\ <<>> \in Seq(Frames)
      BY <2>1 DEF Drawn
    <3> QED BY <1>1, <3>1, CloseIs, DoneIs
  <2> QED BY <1>1, <2>1 DEF RemoveWaypoint, Draw, DrawNextLeg
<1>3. Shallow(stack')
  BY <1>2, DoneIs DEF Shallow
<1>4. \A b \in BOOLEAN : /\ UpdateDoneCall(b) \in Frames
                         /\ UpdateDoneCall(b).call = "update_done"
  BY FramesAre DEF UpdateDoneCall
<1>5. ~Ending' /\ ~Holds(stack', "set_destinations")
  <2>1. CASE stack' = <<>>
    BY <2>1, HoldsNone DEF Ending, Running
  <2>2. ASSUME NEW b \in BOOLEAN, stack' = <<UpdateDoneCall(b)>>
        PROVE  ~Ending' /\ ~Holds(stack', "set_destinations")
    <3>1. Last(stack') = UpdateDoneCall(b)
      BY <2>2 DEF Last
    <3> QED BY <1>4, <2>2, <3>1, HoldsOne DEF Ending, Running
  <2> QED BY <1>2, <2>1, <2>2
<1>6. StatusInv'
  <2>1. CASE path2' = path2
    BY <1>1, <1>3, <1>5, <2>1, ShallowNew, StatusKept DEF SideInv, Running
  <2>2. CASE RemoveWaypoint
    <3>1. stack' = <<UpdateDoneCall(TRUE)>>
      BY <2>2 DEF RemoveWaypoint
    <3>2. Running("update_done")'
      <4>1. Last(stack') = UpdateDoneCall(TRUE)
        BY <3>1 DEF Last
      <4> QED BY <1>4, <3>1, <4>1 DEF Running
    <3> QED BY <1>1, <1>3, <1>5, <3>2, ShallowNew DEF SideInv, StatusInv
  <2> QED BY <2>1, <2>2 DEF Draw, DrawNextLeg, Drawn
<1>7. ReadInv' /\ SetInv'
  BY <1>1, <1>5 DEF SideInv, ReadInv, SetInv, jobVars
<1> QED BY <1>3, <1>6, <1>7 DEF SideInv

LEMMA UpdateDoneSide ==
    ASSUME JobInv, SideInv, UpdateDone
    PROVE  SideInv'
<1>1. /\ stack # <<>> /\ Running("update_done") /\ ~Ending /\ ~Running("set_destinations")
      /\ UNCHANGED <<graph, path2, jobVars>>
  BY DEF UpdateDone, Running, Ending
<1>2. Caller \in Seq(Frames)
  BY <1>1, TopIs
<1>3. ReadInv'
  BY <1>1 DEF SideInv, ReadInv, jobVars
<1>4. CASE PathInUse /\ stack' = Caller /\ UNCHANGED route_status
  <2>1. /\ NoNewUpdate /\ ~Ending'
        /\ Holds(stack', "set_destinations") => Holds(stack, "set_destinations")
    BY <1>1, <1>4, FramesKept
  <2>2. path2 \in LegIds
    BY <1>4 DEF PathInUse
  <2> QED BY <1>1, <1>3, <1>4, <2>1, <2>2, StatusKept, SetKept DEF SideInv
<1>5. CASE Set("building_path",
               Append(Caller, [call |-> "path_new",
                               new_graph |-> Last(stack).new_graph,
                               oldpath |-> path2]))
  <2> PICK f : f = [call |-> "path_new", new_graph |-> Last(stack).new_graph,
                    oldpath |-> path2]
    OBVIOUS
  <2>1. f \in Frames
    <3>1. Last(stack) \in Frames /\ Last(stack).call = "update_done"
      BY <1>1, PopIs DEF JobInv, JobTypes, Running
    <3>2. Last(stack).new_graph \in BOOLEAN /\ path2 \in Pointers
      BY <3>1, CallIs DEF JobInv, JobTypes
    <3> QED BY <3>2, FramesAre
  <2>2. "building_path" \in RouteStatus /\ "building_path" \notin PathDone
    BY DEF RouteStatus, PathDone
  <2>3. Append(Caller, f) \in Seq(Frames)
    BY <1>2, <2>1
  <2>4. Holds(stack', "set_destinations") => Holds(Append(Caller, f), "set_destinations")
    BY <1>5, <2>2, <2>3, SetHolds
  <2>5. Holds(stack', "set_destinations") => Holds(stack, "set_destinations")
    <3>1. f.call # "set_destinations"
      OBVIOUS
    <3> QED BY <1>1, <1>2, <2>1, <2>4, <3>1, HoldsPush, HoldsPop
  <2>6. route_status' \notin PathDone
    BY <1>5, <2>2 DEF Set
  <2> QED BY <1>1, <1>3, <2>5, <2>6, StatusQuiet, SetKept DEF SideInv
<1> QED BY <1>4, <1>5 DEF UpdateDone

LEMMA PathNotFoundSide ==
    ASSUME JobInv, SideInv, PathNotFound
    PROVE  SideInv'
<1>1. /\ stack # <<>> /\ ~Ending /\ ~Running("set_destinations")
      /\ UNCHANGED jobVars /\ Set("not_found", Caller)
  BY DEF PathNotFound, Running, Ending
<1>2. Caller \in Seq(Frames)
  BY <1>1, TopIs
<1>3. "not_found" \in RouteStatus /\ "not_found" \notin PathDone
  BY DEF RouteStatus, PathDone
<1>4. route_status' \notin PathDone
  BY <1>1, <1>3 DEF Set
<1>5. Holds(stack', "set_destinations") => Holds(stack, "set_destinations")
  BY <1>1, <1>2, <1>3, SetHolds, HoldsPop
<1>6. ReadInv'
  BY <1>1 DEF SideInv, ReadInv, jobVars
<1> QED BY <1>1, <1>4, <1>5, <1>6, StatusQuiet, SetKept DEF SideInv

LEMMA PathFoundSide ==
    ASSUME JobInv, SideInv, PathFound
    PROVE  SideInv'
<1>1. /\ stack # <<>> /\ ~Ending /\ ~Running("set_destinations") /\ JobTypes
  BY DEF PathFound, Running, Ending, JobInv
<1>2. graph = "ready" /\ UNCHANGED <<graph, jobVars>>
  BY DEF PathFound
<1>3. PICK l \in UnusedLegs, status \in PathDone :
         /\ NewLeg(l)
         /\ \/ stack' = Append(Caller, UpdateDoneCall(TRUE)) /\ UNCHANGED route_status
            \/ Set(status, Caller)
  BY PathFoundIs
<1>4. path2' = l /\ l \in LegIds
  BY <1>1, <1>3, UnusedIs DEF NewLeg
<1>5. Caller \in Seq(Frames)
  BY <1>1, TopIs
<1>6. ReadInv'
  BY <1>2 DEF SideInv, ReadInv, jobVars
<1>7. ASSUME NoNewUpdate, ~Ending',
             Holds(stack', "set_destinations") => Holds(stack, "set_destinations")
      PROVE  SideInv'
  <2>1. ASSUME NEW i \in DOMAIN stack', Update(i)'
        PROVE  stack'[i].oldpath # l
    <3>1. i \in DOMAIN stack /\ stack'[i] = stack[i]
      BY <1>7, <2>1 DEF NoNewUpdate
    <3>2. Update(i)
      BY <2>1, <3>1 DEF Update
    <3> QED BY <1>1, <3>1, <3>2, UnusedIs
  <2>2. StatusInv'
    BY <1>2, <1>4, <1>7, <2>1 DEF StatusInv
  <2> QED BY <1>1, <1>6, <1>7, <2>2, SetKept DEF SideInv
<1>8. CASE stack' = Append(Caller, UpdateDoneCall(TRUE))
  <2>1. /\ UpdateDoneCall(TRUE) \in Frames
        /\ UpdateDoneCall(TRUE).call \notin {"path_new", "navigation_update", "set_destinations"}
    BY FramesAre DEF UpdateDoneCall
  <2> QED BY <1>1, <1>7, <1>8, <2>1, FramesKept
<1>9. CASE Set(status, Caller)
  <2> PICK f \in Frames : f = [call |-> "navigation_update", status |-> status]
    BY FramesAre DEF RouteStatus
  <2>1. stack' = Caller \/ stack' = Append(Caller, f)
    BY <1>9, SetIs
  <2>2. CASE stack' = Caller
    BY <1>1, <1>7, <2>2, FramesKept
  <2>3. CASE stack' = Append(Caller, f)
    <3>1. NoNewUpdate
      BY <1>1, <2>3, NoNewIs
    <3>2. Last(stack') = f
      BY <1>5, <2>3, PushIs
    <3>3. ~Ending'
      BY <3>2 DEF Ending
    <3>4. Holds(stack', "set_destinations") => Holds(stack, "set_destinations")
      BY <1>1, <1>5, <1>9, SetHolds, HoldsPop DEF RouteStatus
    <3> QED BY <1>7, <3>1, <3>3, <3>4
  <2> QED BY <2>1, <2>2, <2>3
<1> QED BY <1>3, <1>8, <1>9

LEMMA SideStart == Init => SideInv
<1>1. Init => stack = <<>> /\ busy = FALSE /\ route_status = "no_destination"
  BY DEF Init
<1> QED BY <1>1, HoldsNone DEF SideInv, StatusInv, SetInv, ReadInv, PathDone

LEMMA SideStep == SideInv /\ JobInv /\ [Next]_vars => SideInv'
<1> SUFFICES ASSUME SideInv, JobInv, [Next]_vars PROVE SideInv'
  OBVIOUS
<1>1. CASE UNCHANGED vars
  <2>1. UNCHANGED <<stack, graph, path2, route_status, jobVars>>
    BY <1>1 DEF vars, routeVars
  <2>2. UNCHANGED <<busy, has_sitem, route_mr>>
    BY <2>1 DEF jobVars
  <2> QED BY <2>1, <2>2 DEF SideInv, StatusInv, SetInv, ReadInv, Ending, Running, Update, Holds
<1>2. CASE RouteEvent
  BY <1>2, RouteEventIs, RouteCallStep, RouteEventStep, EventSide DEF RouteEvent
<1> QED BY <1>1, <1>2, UpdateDoneSide, PathFoundSide, PathNotFoundSide, NavigationUpdateSide,
           NavigationOpenSide, NavigationReadSide, NavigationIdleSide, LegEventSide
        DEF Next, RouteCall, NavigationCall, RouteEvent

-----------------------------------------------------------------------------
(* The streets that the legs spell *)

\* S gives for each leg in G its streets, those of the legs after it and the
\* destination.
Spells(ls, G, S) ==
    /\ G \in SUBSET LegIds
    /\ S \in [LegIds \cup {NoLeg} -> Seq(Items)]
    /\ S[NoLeg] = <<Arrival>>
    /\ \A l \in G : /\ ls[l].way # <<>> /\ ls[l].next \in G \cup {NoLeg}
                    /\ S[l] = ls[l].way \o S[ls[l].next]
                    /\ Once(S[l])

\* From l on there is no way to the end: a leg has been freed.
Astray(ls, l) ==
    \E B \in SUBSET LegIds :
       /\ l \in B
       /\ \A k \in B : ls[k].way # <<>> /\ ls[k].next \in B \cup {FreedLeg}

\* The leg x is freed, or none.
Shed(ls, ms, x) ==
    /\ ms \in [LegIds -> Legs] /\ x \in LegIds \cup {Closed}
    /\ \A k \in LegIds \ {x} :
          /\ ms[k].way = ls[k].way /\ ms[k].update_required = ls[k].update_required
          /\ ms[k].next = IF ls[k].next = x THEN FreedLeg ELSE ls[k].next

Follows(ls, T) == \A l \in T : ls[l].next \in T \cup {NoLeg}

LEMMA ShedSpells ==
    ASSUME NEW ls, NEW ms, NEW x, Shed(ls, ms, x), NEW G, NEW S, Spells(ls, G, S)
    PROVE  \E H \in SUBSET G :
              /\ Spells(ms, H, S)
              /\ \A T \in SUBSET G : x \notin T /\ Follows(ls, T) => T \subseteq H
              /\ \A l \in G : l # x /\ l \notin H => Astray(ms, l)
<1> PICK cl : cl = {T \in SUBSET G : x \notin T /\ Follows(ls, T)}
  OBVIOUS
<1> PICK H : H = UNION cl
  OBVIOUS
<1>1. G \in SUBSET LegIds /\ H \in SUBSET G /\ x \notin H /\ Follows(ls, H)
  BY DEF Spells, Follows
<1>2. \A T \in SUBSET G : x \notin T /\ Follows(ls, T) => T \subseteq H
  OBVIOUS
<1>3. x # NoLeg /\ x # FreedLeg /\ NoLeg \notin LegIds
  BY NavigationAssumption DEF Shed
<1>4. ASSUME NEW l \in H
      PROVE  ms[l].way = ls[l].way /\ ms[l].next = ls[l].next /\ ls[l].next \in H \cup {NoLeg}
  BY <1>1, <1>3 DEF Shed, Follows
<1>5. Spells(ms, H, S)
  BY <1>1, <1>4 DEF Spells
<1>6. ASSUME NEW k \in G \ H, k # x
      PROVE  ls[k].next \in G \ H
  <2>1. ls[k].next \in G \cup {NoLeg}
    BY DEF Spells
  <2>2. ASSUME ls[k].next \in H \cup {NoLeg} PROVE FALSE
    <3> PICK T : T = H \cup {k}
      OBVIOUS
    <3>1. T \in SUBSET G /\ x \notin T
      BY <1>1, <1>6
    <3>2. Follows(ls, T)
      BY <1>1, <2>2 DEF Follows
    <3>3. T \subseteq H
      BY <1>2, <3>1, <3>2
    <3> QED BY <3>3
  <2> QED BY <2>1, <2>2
<1>7. ASSUME NEW l \in G, l # x, l \notin H
      PROVE  Astray(ms, l)
  <2> PICK B : B = (G \ H) \ {x}
    OBVIOUS
  <2>1. B \in SUBSET LegIds /\ l \in B
    BY <1>1, <1>7
  <2>2. ASSUME NEW k \in B
        PROVE  ms[k].way # <<>> /\ ms[k].next \in B \cup {FreedLeg}
    <3>1. ls[k].next \in G \ H /\ k \in G /\ k # x /\ k \in LegIds
      BY <1>6, <2>1
    <3>2. ms[k].way = ls[k].way /\ ls[k].way # <<>>
      BY <3>1 DEF Shed, Spells
    <3>3. ms[k].next = IF ls[k].next = x THEN FreedLeg ELSE ls[k].next
      BY <3>1 DEF Shed
    <3> QED BY <3>1, <3>2, <3>3
  <2> QED BY <2>1, <2>2 DEF Astray
<1> QED BY <1>1, <1>2, <1>5, <1>7

LEMMA ShedAstray ==
    ASSUME NEW ls, NEW ms, NEW x, Shed(ls, ms, x), NEW l, l # x, Astray(ls, l)
    PROVE  Astray(ms, l)
<1> PICK B \in SUBSET LegIds :
       /\ l \in B
       /\ \A k \in B : ls[k].way # <<>> /\ ls[k].next \in B \cup {FreedLeg}
  BY DEF Astray
<1> PICK C : C = B \ {x}
  OBVIOUS
<1>1. C \in SUBSET LegIds /\ l \in C
  OBVIOUS
<1>2. ASSUME NEW k \in C
      PROVE  ms[k].way # <<>> /\ ms[k].next \in C \cup {FreedLeg}
  <2>1. k \in LegIds \ {x} /\ k \in B
    OBVIOUS
  <2> QED BY <2>1 DEF Shed
<1> QED BY <1>1, <1>2 DEF Astray

\* The same legs, or held by others
Alike(ls, ms) ==
    \A k \in LegIds : /\ ms[k].way = ls[k].way /\ ms[k].next = ls[k].next
                     /\ ms[k].update_required = ls[k].update_required

LEMMA AlikeShed ==
    ASSUME NEW ls \in [LegIds -> Legs], NEW ms \in [LegIds -> Legs], Alike(ls, ms)
    PROVE  Shed(ls, ms, Closed)
<1>1. \A k \in LegIds : ls[k].next # Closed
  BY NavigationAssumption DEF Legs, Pointers
<1> QED BY <1>1 DEF Shed, Alike

LEMMA AlikeThenShed ==
    ASSUME NEW ks, NEW ls, NEW ms, NEW x, Alike(ks, ls), Shed(ls, ms, x)
    PROVE  Shed(ks, ms, x)
BY DEF Alike, Shed

LEMMA HeldAlike ==
    ASSUME legs \in [LegIds -> Legs], NEW y
    PROVE  Held(y) \in [LegIds -> Legs] /\ Alike(legs, Held(y))
<1>1. Held(y) \in [LegIds -> Legs]
  BY HeldIs DEF Milder
<1>2. CASE y \notin LegIds
  BY <1>1, <1>2 DEF Held, Alike
<1>3. CASE y \in LegIds
  <2>1. legs[y] \in Legs
    BY <1>3
  <2>2. Held(y) = [legs EXCEPT ![y] = [legs[y] EXCEPT !.in_use = legs[y].in_use + 1]]
    BY <1>3 DEF Held
  <2> PICK new : new = [legs[y] EXCEPT !.in_use = legs[y].in_use + 1]
    OBVIOUS
  <2>3. new.way = legs[y].way /\ new.next = legs[y].next
        /\ new.update_required = legs[y].update_required
    BY <2>1 DEF Legs
  <2> QED BY <1>1, <1>3, <2>2, <2>3 DEF Alike
<1> QED BY <1>2, <1>3

LEMMA ReleaseShed ==
    ASSUME NEW ls \in [LegIds -> Legs], NEW y
    PROVE  \E x \in {y, Closed} :
              /\ Shed(ls, Release(ls, {y}), x)
              /\ x \in LegIds => ls[x].in_use <= 1
<1> PICK F : F = {l \in {y} \cap LegIds : ls[l].in_use <= 1}
  OBVIOUS
<1> PICK ms : ms = Release(ls, {y})
  OBVIOUS
<1>1. ms = [l \in LegIds |->
             IF l \in F THEN FreeLeg
             ELSE [ls[l] EXCEPT !.in_use = IF l \in {y} THEN @ - 1 ELSE @,
                                !.next = IF @ \in F THEN FreedLeg ELSE @]]
  BY DEF Release
<1>2. ms \in [LegIds -> Legs]
  BY ReleaseIs DEF Milder
<1>3. ASSUME NEW k \in LegIds \ F
      PROVE  /\ ms[k].way = ls[k].way /\ ms[k].update_required = ls[k].update_required
             /\ ms[k].next = IF ls[k].next \in F THEN FreedLeg ELSE ls[k].next
  <2> DEFINE u == IF k \in {y} THEN ls[k].in_use - 1 ELSE ls[k].in_use
             z == IF ls[k].next \in F THEN FreedLeg ELSE ls[k].next
  <2>1. ls[k] \in Legs
    OBVIOUS
  <2>2. ms[k] = [ls[k] EXCEPT !.in_use = u, !.next = z]
    BY <1>1, <2>1 DEF Legs
  <2> HIDE DEF u, z
  <2>3. ms[k].way = ls[k].way /\ ms[k].next = z
        /\ ms[k].update_required = ls[k].update_required
    BY <2>1, <2>2 DEF Legs
  <2> QED BY <2>3 DEF z
<1>4. CASE y \in F
  <2>1. F = {y} /\ y \in LegIds /\ ls[y].in_use <= 1
    BY <1>4
  <2>2. Shed(ls, ms, y)
    BY <1>2, <1>3, <2>1 DEF Shed
  <2> QED BY <2>1, <2>2
<1>5. CASE y \notin F
  <2>1. F = {} /\ Closed \notin LegIds
    BY <1>5, NavigationAssumption
  <2>2. Alike(ls, ms)
    BY <1>3, <2>1 DEF Alike
  <2>3. Shed(ls, ms, Closed)
    BY <1>2, <2>2, AlikeShed
  <2> QED BY <2>1, <2>3
<1> QED BY <1>4, <1>5

LEMMA ReleaseLater ==
    ASSUME legs \in [LegIds -> Legs], NEW ls \in [LegIds -> Legs], NEW y,
           Alike(legs, ls), \A k \in LegIds : ls[k].in_use <= 1 => legs[k].in_use <= 1
    PROVE  \E x \in {y, Closed} :
              /\ Shed(legs, Release(ls, {y}), x)
              /\ x \in LegIds => legs[x].in_use <= 1
<1> PICK x \in {y, Closed} : /\ Shed(ls, Release(ls, {y}), x)
                             /\ x \in LegIds => ls[x].in_use <= 1
  BY ReleaseShed
<1>1. Shed(legs, Release(ls, {y}), x)
  BY AlikeThenShed
<1> QED BY <1>1

LEMMA DestroyedShed ==
    ASSUME legs \in [LegIds -> Legs], NEW y
    PROVE  \E x \in {y, Closed} :
              /\ Shed(legs, Destroyed({y}), x)
              /\ x \in LegIds => legs[x].in_use <= 1
<1> DEFINE dead == [l \in LegIds |-> IF l \in {y} THEN [legs[l] EXCEPT !.live = FALSE]
                                     ELSE legs[l]]
<1>1. ASSUME NEW l \in LegIds
      PROVE  /\ dead[l] \in Legs /\ dead[l].in_use = legs[l].in_use
             /\ dead[l].next = legs[l].next /\ dead[l].way = legs[l].way
             /\ dead[l].update_required = legs[l].update_required
  BY DEF Legs
<1>2. dead \in [LegIds -> Legs]
  BY <1>1
<1>3. Destroyed({y}) = Release(dead, {y})
  BY DEF Destroyed
<1> HIDE DEF dead
<1>4. Alike(legs, dead) /\ \A k \in LegIds : dead[k].in_use <= 1 => legs[k].in_use <= 1
  BY <1>1 DEF Alike
<1> QED BY <1>2, <1>3, <1>4, ReleaseLater

\* The end of the path is not freed with a leg that another has read.
LEMMA LegsKept ==
    ASSUME JobTypes, PathInv, NEW x, Shed(legs, legs', x),
           x \in LegIds => legs[x].in_use <= 1 /\ (x = drawn \/ x = route_mr.leg),
           NEW G, NEW S, Spells(legs, G, S), path2 \in LegIds => path2 \in G
    PROVE  /\ path2 # x
           /\ \E H \in SUBSET G :
              /\ Spells(legs', H, S)
              /\ path2 \in LegIds => path2 \in H
              /\ \A l \in G : l # x /\ l \notin H => Astray(legs', l)
<1>1. PICK H \in SUBSET G :
         /\ Spells(legs', H, S)
         /\ \A T \in SUBSET G : x \notin T /\ Follows(legs, T) => T \subseteq H
         /\ \A l \in G : l # x /\ l \notin H => Astray(legs', l)
  BY ShedSpells
<1>2. CASE path2 \in LegIds
  <2> PICK p \in LegIds \cup {NoLeg}, C \in SUBSET LegIds :
         Leads(legs, Readers, p, C) /\ path2 \in {p, NoLeg}
    BY DEF PathInv
  <2>1. p = path2 /\ p \in C
    BY <1>2, NavigationAssumption DEF Leads
  <2>2. x \notin C
    <3> SUFFICES ASSUME x \in C PROVE FALSE
      OBVIOUS
    <3>1. x \in LegIds /\ legs[x].in_use >= 1 + Readers[x] /\ legs[x].in_use <= 1
      BY DEF Leads
    <3>2. Readers[x] \in Nat /\ Readers[x] >= 1
      BY <3>1, ReadersAre
    <3>3. legs[x].in_use \in Nat
      BY <3>1 DEF JobTypes, Legs
    <3> QED BY <3>1, <3>2, <3>3
  <2> PICK T : T = C \cap G
    OBVIOUS
  <2>3. T \in SUBSET G /\ x \notin T /\ path2 \in T
    BY <1>2, <2>1, <2>2
  <2>4. Follows(legs, T)
    BY DEF Follows, Leads, Spells
  <2>5. path2 \in H /\ path2 # x
    BY <1>1, <2>3, <2>4
  <2> QED BY <1>1, <2>5
<1>3. CASE path2 \notin LegIds
  BY <1>1, <1>3, NavigationAssumption DEF Shed, JobTypes, Pointers
<1> QED BY <1>2, <1>3

\* The job keeps its leg when the display list closes its map rect.
LEMMA JobHolds ==
    ASSUME JobTypes, PathInv, drawn \in LegIds, legs[drawn].in_use <= 1
    PROVE  route_mr.leg # drawn
<1> SUFFICES ASSUME route_mr.leg = drawn PROVE FALSE
  OBVIOUS
<1>1. Readers[drawn] = 2 /\ Readers[drawn] <= legs[drawn].in_use
  BY ReadersAre DEF PathInv, Bounded
<1>2. legs[drawn].in_use \in Nat
  BY DEF JobTypes, Legs
<1> QED BY <1>1, <1>2

-----------------------------------------------------------------------------
(* The list *)

Working == busy /\ ~Ending
Settled == ~UpdateDue /\ ~Running("update_done")
FlushDue == Running("navigation_update") /\ Last(stack).status \in Flushing
ReadSoFar == IF has_sitem THEN itms ELSE <<>>
ReadWay == legs[route_mr.leg].way
Left(w, i, t) == SubSeq(w, i, Len(w)) \o t
Rest(S) == Left(ReadWay, route_mr.at, S[legs[route_mr.leg].next])

\* The list q ends as the path does, and is the path when that is settled.
Goes(S, q) == path2 \in LegIds => Ends(S[path2], q) /\ (Settled => q = S[path2])

\* A list that leads up to the destination
ListSays(S) ==
    Whole(itms) =>
       /\ Once(itms)
       /\ ~link_path /\ path2 \in LegIds /\ ~FlushDue => Ends(S[path2], itms)
       /\ ~busy /\ ~Opening /\ route_status \in PathDone /\ Settled => itms = S[path2]

\* A job: what it has read and has still to read is the path; and when it is to
\* find the place in the list where the path begins, it will.
JobSays(G, S) ==
    Working =>
       /\ \/ /\ route_mr.leg \in G
             /\ Once(ReadSoFar \o Rest(S)) /\ Goes(S, ReadSoFar \o Rest(S))
          \/ Astray(legs, route_mr.leg)
       /\ has_sitem => itms # <<>> /\ Last(itms) # Arrival
       /\ ~has_sitem /\ Whole(itms) => Found(ReadWay[1]) /\ Goes(S, From(ReadWay[1]))

ListInv ==
    ~overtaken =>
       \E G, S : /\ Spells(legs, G, S) /\ (path2 \in LegIds => path2 \in G)
                /\ ListSays(S) /\ JobSays(G, S)

\* The list is not touched.
LEMMA ListKept ==
    ASSUME itms' = itms, NEW S, ListSays(S),
           path2' \in LegIds =>
              /\ path2 \in LegIds /\ S[path2'] \in Seq(Items) /\ Ends(S[path2'], S[path2])
              /\ link_path => link_path'
              /\ FlushDue => FlushDue',
           ~busy' /\ ~Opening' /\ route_status' \in PathDone /\ Settled' =>
              /\ path2' = path2 /\ route_status \in PathDone /\ Settled
              /\ ~busy /\ ~Opening
    PROVE  ListSays(S)'
<1> SUFFICES ASSUME Whole(itms)
             PROVE  /\ Once(itms)
                    /\ ~link_path' /\ path2' \in LegIds /\ ~FlushDue' => Ends(S[path2'], itms)
                    /\ ~busy' /\ ~Opening' /\ route_status' \in PathDone /\ Settled' =>
                           itms = S[path2']
  BY DEF ListSays
<1>1. ASSUME ~link_path', path2' \in LegIds, ~FlushDue'
      PROVE  Ends(S[path2'], itms)
  BY <1>1, EndsTwice DEF ListSays
<1> QED BY <1>1 DEF ListSays

\* Nor is the job.
LEMMA JobKept ==
    ASSUME UNCHANGED <<itms, jobVars>>, NEW G, NEW H, NEW S, JobSays(G, S),
           Working' => /\ Working
                       /\ legs'[route_mr.leg].way = ReadWay
                       /\ \/ /\ route_mr.leg \in H
                             /\ legs'[route_mr.leg].next = legs[route_mr.leg].next
                          \/ Astray(legs', route_mr.leg)
                       /\ Astray(legs, route_mr.leg) => Astray(legs', route_mr.leg)
                       /\ path2' \in LegIds =>
                             /\ path2 \in LegIds
                             /\ S[path2'] \in Seq(Items) /\ Ends(S[path2'], S[path2])
                             /\ Settled' => Settled /\ path2' = path2
    PROVE  JobSays(H, S)'
<1> SUFFICES ASSUME Working' PROVE JobSays(H, S)'
  BY DEF JobSays
<1>1. /\ Working /\ ReadWay' = ReadWay /\ ReadSoFar' = ReadSoFar
      /\ UNCHANGED <<itms, route_mr, has_sitem>>
  BY DEF jobVars, ReadWay, ReadSoFar
<1>2. ASSUME NEW q, Goes(S, q) PROVE Goes(S, q)'
  BY <1>2, EndsTwice DEF Goes
<1>3. \/ /\ route_mr.leg \in H
         /\ Once(ReadSoFar' \o Rest(S)') /\ Goes(S, ReadSoFar \o Rest(S))'
      \/ Astray(legs', route_mr.leg)
  <2>1. CASE Astray(legs, route_mr.leg)
    BY <2>1
  <2>2. CASE /\ route_mr.leg \in H /\ legs'[route_mr.leg].next = legs[route_mr.leg].next
             /\ Once(ReadSoFar \o Rest(S)) /\ Goes(S, ReadSoFar \o Rest(S))
    <3>1. Rest(S)' = Rest(S)
      BY <1>1, <2>2 DEF Rest
    <3> QED BY <1>1, <1>2, <2>2, <3>1
  <2> QED BY <1>1, <2>1, <2>2 DEF JobSays
<1>4. (has_sitem => itms # <<>> /\ Last(itms) # Arrival)'
  BY <1>1 DEF JobSays
<1>5. ASSUME ~has_sitem', Whole(itms')
      PROVE  (Found(ReadWay[1]) /\ Goes(S, From(ReadWay[1])))'
  <2>1. Found(ReadWay[1]) /\ Goes(S, From(ReadWay[1]))
    BY <1>1, <1>5 DEF JobSays
  <2>2. Goes(S, From(ReadWay[1]))'
    <3> PICK f : f = From(ReadWay[1])
      OBVIOUS
    <3>1. From(ReadWay[1])' = f
      BY <1>1 DEF From
    <3> QED BY <1>2, <2>1, <3>1
  <2>3. Found(ReadWay[1])'
    BY <1>1, <2>1 DEF Found
  <2> QED BY <2>2, <2>3
<1>6. (\/ /\ route_mr.leg \in H
          /\ Once(ReadSoFar \o Rest(S)) /\ Goes(S, ReadSoFar \o Rest(S))
       \/ Astray(legs, route_mr.leg))'
  BY <1>1, <1>3
<1> QED BY <1>4, <1>5, <1>6 DEF JobSays

LEMMA SameSpells ==
    ASSUME NEW ls, NEW ms,
           \A k \in LegIds : ms[k].way = ls[k].way /\ ms[k].next = ls[k].next
    PROVE  /\ \A G, S : Spells(ls, G, S) => Spells(ms, G, S)
           /\ \A l : Astray(ls, l) => Astray(ms, l)
<1>1. ASSUME NEW G, NEW S, Spells(ls, G, S) PROVE Spells(ms, G, S)
  BY <1>1 DEF Spells
<1>2. ASSUME NEW l, Astray(ls, l) PROVE Astray(ms, l)
  <2> PICK B \in SUBSET LegIds :
         /\ l \in B
         /\ \A k \in B : ls[k].way # <<>> /\ ls[k].next \in B \cup {FreedLeg}
    BY <1>2 DEF Astray
  <2>1. \A k \in B : ms[k].way # <<>> /\ ms[k].next \in B \cup {FreedLeg}
    OBVIOUS
  <2> QED BY <2>1 DEF Astray
<1> QED BY <1>1, <1>2

\* A job that is not to be ended reads a path that is done.
LEMMA WorkingDone ==
    ASSUME BusyInv, Working
    PROVE  route_status \in PathDone
BY DEF BusyInv, Working

\* The path is gone.
LEMMA NoPathList ==
    ASSUME ListInv, BusyInv', ~overtaken' => ~overtaken, itms' = itms,
           path2' \notin LegIds, route_status' \notin PathDone
    PROVE  ListInv'
<1> SUFFICES ASSUME ~overtaken'
             PROVE  \E H, S : /\ Spells(legs', H, S) /\ (path2' \in LegIds => path2' \in H)
                             /\ ListSays(S)' /\ JobSays(H, S)'
  BY DEF ListInv
<1> PICK G, S : Spells(legs, G, S) /\ ListSays(S)
  BY DEF ListInv
<1>1. Spells(legs', {}, S)
  BY DEF Spells
<1>2. ListSays(S)'
  BY DEF ListSays
<1>3. JobSays({}, S)'
  BY WorkingDone DEF JobSays, BusyInv, Working
<1> QED BY <1>1, <1>2, <1>3

LEMMA EventList ==
    ASSUME ListInv, SideInv, JobInv, JobInv', Eventful
    PROVE  ListInv'
<1>1. BusyInv' /\ ~Ending /\ ~Opening /\ ~Running("update_done") /\ ~FlushDue
  BY BottomIs, BottomCalls DEF JobInv, Eventful, Outermost, FlushDue
<1>2. UNCHANGED <<itms, jobVars, overtaken, link_path>>
  BY DEF Eventful
<1>3. CASE route_status' \notin PathDone /\ path2' = NoLeg
  BY <1>1, <1>2, <1>3, NoPathList, NavigationAssumption
<1>4. ASSUME path2' = path2, legs' = legs,
             route_status' \in PathDone => route_status' = route_status
      PROVE  ListInv'
  <2> SUFFICES ASSUME ~overtaken'
               PROVE  \E H, S : /\ Spells(legs', H, S) /\ (path2' \in LegIds => path2' \in H)
                               /\ ListSays(S)' /\ JobSays(H, S)'
    BY DEF ListInv
  <2> PICK G, S : /\ Spells(legs, G, S) /\ (path2 \in LegIds => path2 \in G)
                  /\ ListSays(S) /\ JobSays(G, S)
    BY <1>2 DEF ListInv
  <2>1. Settled' => Settled
    BY <1>1, <1>4 DEF Settled, UpdateDue
  <2>2. path2 \in LegIds => S[path2] \in Seq(Items) /\ Ends(S[path2], S[path2])
    BY EndsSelf DEF Spells
  <2>3. ListSays(S)'
    <3>1. busy' = busy
      BY <1>2 DEF jobVars
    <3> QED BY <1>1, <1>2, <1>4, <2>1, <2>2, <3>1, ListKept
  <2>4. JobSays(G, S)'
    <3>1. Working' => Working
      BY <1>1, <1>2 DEF Working, jobVars
    <3>2. Working => route_mr.leg \in G \/ Astray(legs, route_mr.leg)
      BY DEF JobSays
    <3> QED BY <1>2, <1>4, <2>1, <2>2, <3>1, <3>2, JobKept DEF ReadWay
  <2> QED BY <1>4, <2>3, <2>4
<1>5. CASE path2' = NoLeg /\ UNCHANGED <<route_status, path2>> /\ route_status \in PathDone
  BY <1>1, <1>5, NavigationAssumption DEF SideInv, StatusInv
<1> QED BY <1>3, <1>4, <1>5 DEF Eventful

\* The display list opens its map rect, moves it and closes it.
LEMMA DrawList ==
    ASSUME ListInv, SideInv, PathInv, JobInv, JobInv', Draw \/ DrawNextLeg \/ Drawn
    PROVE  ListInv'
<1>1. /\ JobTypes /\ stack = <<>> /\ BusyInv'
      /\ UNCHANGED <<itms, jobVars, overtaken, link_path, path2, route_status>>
  BY DEF JobInv, Draw, DrawNextLeg, Drawn, Happens, listVars
<1>2. ~Ending /\ ~Opening /\ ~Running("update_done") /\ ~FlushDue
  BY <1>1 DEF Ending, Opening, Running, FlushDue
<1>3. legs \in [LegIds -> Legs]
  BY <1>1 DEF JobTypes
<1>4. PICK x \in {drawn, Closed} :
         Shed(legs, legs', x) /\ (x \in LegIds => legs[x].in_use <= 1)
  <2>1. CASE Draw
    <3>1. legs' = Held(path2)
      BY <2>1 DEF Draw
    <3> QED BY <1>3, <3>1, HeldAlike, AlikeShed, NavigationAssumption
  <2>2. CASE DrawNextLeg
    <3> PICK y : y = legs[drawn].next
      OBVIOUS
    <3>1. legs' = Release(Held(y), {drawn}) /\ y # drawn /\ drawn \in LegIds
      BY <2>2 DEF DrawNextLeg, JobInv, NoSelf
    <3>2. Held(y) \in [LegIds -> Legs] /\ Alike(legs, Held(y))
      BY <1>3, HeldAlike
    <3>3. PICK x \in {drawn, Closed} :
             Shed(Held(y), legs', x) /\ (x \in LegIds => Held(y)[x].in_use <= 1)
      BY <3>1, <3>2, ReleaseShed
    <3>4. Shed(legs, legs', x)
      BY <3>2, <3>3, AlikeThenShed
    <3>5. x \in LegIds => Held(y)[x].in_use = legs[x].in_use
      BY <1>3, <3>1, <3>3, NavigationAssumption DEF Held
    <3> QED BY <3>3, <3>4, <3>5
  <2>3. CASE Drawn
    <3>1. legs' = Release(legs, {drawn})
      BY <2>3 DEF Drawn, CloseRect
    <3> QED BY <1>3, <3>1, ReleaseShed
  <2> QED BY <2>1, <2>2, <2>3
<1> SUFFICES ASSUME ~overtaken'
             PROVE  \E H, S : /\ Spells(legs', H, S) /\ (path2' \in LegIds => path2' \in H)
                             /\ ListSays(S)' /\ JobSays(H, S)'
  BY DEF ListInv
<1> PICK G, S : /\ Spells(legs, G, S) /\ (path2 \in LegIds => path2 \in G)
                /\ ListSays(S) /\ JobSays(G, S)
  BY <1>1 DEF ListInv
<1>5. path2 # x /\ \E H \in SUBSET G :
              /\ Spells(legs', H, S)
              /\ path2 \in LegIds => path2 \in H
              /\ \A l \in G : l # x /\ l \notin H => Astray(legs', l)
  BY <1>1, <1>4, LegsKept, NavigationAssumption
<1> PICK H \in SUBSET G :
              /\ Spells(legs', H, S)
              /\ path2 \in LegIds => path2 \in H
              /\ \A l \in G : l # x /\ l \notin H => Astray(legs', l)
  BY <1>5
<1>6. Settled' => Settled
  <2>1. path2 \in LegIds => legs'[path2].update_required = legs[path2].update_required
    BY <1>4, <1>5 DEF Shed
  <2> QED BY <1>1, <1>2, <2>1 DEF Settled, UpdateDue
<1>7. path2 \in LegIds => S[path2] \in Seq(Items) /\ Ends(S[path2], S[path2])
  BY EndsSelf DEF Spells
<1>8. ListSays(S)'
  <2>1. busy' = busy
    BY <1>1 DEF jobVars
  <2> QED BY <1>1, <1>2, <1>6, <1>7, <2>1, ListKept
<1>9. JobSays(H, S)'
  <2> SUFFICES ASSUME Working' PROVE JobSays(H, S)'
    BY DEF JobSays
  <2>1. Working
    BY <1>1, <1>2 DEF Working, jobVars
  <2> PICK l : l = route_mr.leg
    OBVIOUS
  <2>2. l \in LegIds
    BY <2>1 DEF Working, SideInv, ReadInv
  <2>3. l # x
    BY <1>1, <1>4, <2>2, JobHolds, NavigationAssumption
  <2>4. legs'[l].way = ReadWay
    BY <1>4, <2>2, <2>3 DEF Shed, ReadWay
  <2>5. Astray(legs, l) => Astray(legs', l)
    BY <1>4, <2>3, ShedAstray
  <2>6. (l \in H /\ legs'[l].next = legs[l].next) \/ Astray(legs', l)
    <3>1. CASE Astray(legs, l)
      BY <2>5, <3>1
    <3>2. CASE l \in G /\ l \notin H
      BY <2>3, <3>2
    <3>3. CASE l \in H
      <4>1. legs'[l].next \in LegIds \cup {NoLeg} /\ legs'[l].next # FreedLeg
        <5>1. legs'[l].next \in H \cup {NoLeg} /\ H \subseteq LegIds
          BY <3>3 DEF Spells
        <5> QED BY <5>1, NavigationAssumption
      <4>2. legs'[l].next = legs[l].next
        BY <1>4, <2>2, <2>3, <4>1 DEF Shed
      <4> QED BY <3>3, <4>2
    <3> QED BY <2>1, <3>1, <3>2, <3>3 DEF JobSays
  <2> QED BY <1>1, <1>6, <1>7, <2>1, <2>4, <2>5, <2>6, JobKept
<1> QED BY <1>1, <1>8, <1>9

\* The leg of the job is not the one that is freed.
LEMMA ShedJob ==
    ASSUME NEW x, Shed(legs, legs', x), NEW G, NEW H, NEW S, Spells(legs', H, S),
           JobSays(G, S), Working, route_mr.leg \in LegIds, route_mr.leg # x,
           \A l \in G : l # x /\ l \notin H => Astray(legs', l)
    PROVE  /\ legs'[route_mr.leg].way = ReadWay
           /\ \/ /\ route_mr.leg \in H
                 /\ legs'[route_mr.leg].next = legs[route_mr.leg].next
              \/ Astray(legs', route_mr.leg)
           /\ Astray(legs, route_mr.leg) => Astray(legs', route_mr.leg)
<1> PICK l : l = route_mr.leg
  OBVIOUS
<1>1. legs'[l].way = ReadWay
  BY DEF Shed, ReadWay
<1>2. Astray(legs, l) => Astray(legs', l)
  BY ShedAstray
<1>3. (l \in H /\ legs'[l].next = legs[l].next) \/ Astray(legs', l)
  <2>1. CASE Astray(legs, l)
    BY <1>2, <2>1
  <2>2. CASE l \in G /\ l \notin H
    BY <2>2
  <2>3. CASE l \in H
    <3>1. legs'[l].next \in LegIds \cup {NoLeg} /\ legs'[l].next # FreedLeg
      BY <2>3, NavigationAssumption DEF Spells
    <3>2. legs'[l].next = legs[l].next
      BY <3>1 DEF Shed
    <3> QED BY <2>3, <3>2
  <2> QED BY <2>1, <2>2, <2>3 DEF JobSays
<1> QED BY <1>1, <1>2, <1>3

\* The first leg is dropped: the route leads on from the next.
LEMMA RemoveWaypointList ==
    ASSUME ListInv, SideInv, PathInv, JobInv, JobInv', RemoveWaypoint
    PROVE  ListInv'
<1>1. /\ JobTypes /\ stack = <<>>
      /\ path2 \in LegIds /\ path2' = legs[path2].next
      /\ stack' = <<UpdateDoneCall(TRUE)>>
      /\ UNCHANGED <<itms, jobVars, overtaken, link_path, route_status>>
  BY DEF JobInv, RemoveWaypoint, Happens, listVars
<1>2. ~Ending /\ ~Opening /\ ~Running("update_done") /\ ~FlushDue
  BY <1>1 DEF Ending, Opening, Running, FlushDue
<1>3. legs \in [LegIds -> Legs]
  BY <1>1 DEF JobTypes
<1>4. ~Settled'
  <2>1. UpdateDoneCall(TRUE).call = "update_done"
    BY DEF UpdateDoneCall
  <2>2. Last(stack') = UpdateDoneCall(TRUE)
    BY <1>1 DEF Last
  <2> QED BY <1>1, <2>1, <2>2 DEF Settled, Running
<1> PICK p : p = path2
  OBVIOUS
<1>5. PICK x \in {p, Closed} :
         Shed(legs, legs', x) /\ (x \in LegIds => legs[x].in_use <= 1)
  BY <1>1, <1>3, DestroyedShed DEF RemoveWaypoint
<1> PICK C : Leads(legs, Readers, p, C)
  BY <1>1, NavigationAssumption DEF PathInv
<1>6. /\ C \in SUBSET LegIds /\ p \in C
      /\ \A l \in C : /\ legs[l].next \in C \cup {NoLeg}
                      /\ legs[l].next \in LegIds => legs[l].next # p
                      /\ legs[l].in_use >= 1 + Readers[l]
  BY <1>1, NavigationAssumption DEF Leads
<1> SUFFICES ASSUME ~overtaken'
             PROVE  \E H, S : /\ Spells(legs', H, S) /\ (path2' \in LegIds => path2' \in H)
                             /\ ListSays(S)' /\ JobSays(H, S)'
  BY DEF ListInv
<1> PICK G, S : /\ Spells(legs, G, S) /\ (path2 \in LegIds => path2 \in G)
                /\ ListSays(S) /\ JobSays(G, S)
  BY <1>1 DEF ListInv
<1> PICK H \in SUBSET G :
         /\ Spells(legs', H, S)
         /\ \A T \in SUBSET G : x \notin T /\ Follows(legs, T) => T \subseteq H
         /\ \A l \in G : l # x /\ l \notin H => Astray(legs', l)
  BY <1>5, ShedSpells
<1>7. p \in G /\ path2' \in G \cup {NoLeg} /\ S[p] = legs[p].way \o S[path2']
  BY <1>1 DEF Spells
<1>8. path2' \in LegIds => path2' \in H
  <2> PICK T : T = (C \cap G) \ {p}
    OBVIOUS
  <2>1. Follows(legs, T)
    <3> SUFFICES ASSUME NEW l \in T PROVE legs[l].next \in T \cup {NoLeg}
      BY DEF Follows
    <3>1. legs[l].next \in G \cup {NoLeg} /\ legs[l].next \in C \cup {NoLeg}
      BY <1>6 DEF Spells
    <3>2. legs[l].next = NoLeg \/ legs[l].next # p
      BY <1>6
    <3> QED BY <3>1, <3>2
  <2>2. T \in SUBSET G /\ x \notin T
    BY <1>5, <1>6, NavigationAssumption
  <2>3. T \subseteq H
    BY <2>1, <2>2
  <2>4. path2' \in LegIds => path2' \in T
    BY <1>1, <1>6, <1>7, NavigationAssumption
  <2> QED BY <2>3, <2>4
<1>9. S[path2'] \in Seq(Items) /\ Ends(S[path2'], S[path2])
  <2>1. S[path2'] \in Seq(Items)
    BY <1>7 DEF Spells
  <2>2. legs[p].way \in Seq(Items)
    BY <1>1, <1>3, WayIs DEF Items, Legs
  <2> QED BY <1>7, <2>1, <2>2 DEF Ends
<1>10. ListSays(S)'
  <2>1. link_path => link_path'
    BY <1>1
  <2> QED BY <1>1, <1>2, <1>4, <1>9, <2>1, ListKept
<1>11. JobSays(H, S)'
  <2> SUFFICES ASSUME Working' PROVE JobSays(H, S)'
    BY DEF JobSays
  <2>1. Working
    BY <1>1, <1>2 DEF Working, jobVars
  <2> PICK l : l = route_mr.leg
    OBVIOUS
  <2>2. l \in LegIds
    BY <2>1 DEF Working, SideInv, ReadInv
  <2>3. l # x
    <3> SUFFICES ASSUME l = x PROVE FALSE
      OBVIOUS
    <3>1. l = p /\ legs[p].in_use <= 1 /\ legs[p].in_use >= 1 + Readers[p]
      BY <1>5, <1>6, <2>2, NavigationAssumption
    <3>2. Readers[p] \in Nat /\ Readers[p] >= 1 /\ legs[p].in_use \in Nat
      BY <1>1, <1>3, <3>1, ReadersAre DEF Legs
    <3> QED BY <3>1, <3>2
  <2>4. /\ legs'[l].way = ReadWay
        /\ (l \in H /\ legs'[l].next = legs[l].next) \/ Astray(legs', l)
        /\ Astray(legs, l) => Astray(legs', l)
    BY <1>5, <2>1, <2>2, <2>3, ShedJob
  <2> QED BY <1>1, <1>4, <1>9, <2>1, <2>4, JobKept
<1> QED BY <1>8, <1>10, <1>11

\* An update is left for the reader, or begins.
LEMMA UpdateDoneList ==
    ASSUME ListInv, JobInv, JobInv', UpdateDone
    PROVE  ListInv'
<1>1. /\ JobTypes /\ BusyInv' /\ stack # <<>> /\ Running("update_done") /\ ~Ending
      /\ ~FlushDue
      /\ UNCHANGED <<itms, jobVars, overtaken, link_path, path2>>
  BY DEF JobInv, UpdateDone, Running, Ending, FlushDue, listVars
<1>2. legs \in [LegIds -> Legs]
  BY <1>1 DEF JobTypes
<1> SUFFICES ASSUME ~overtaken'
             PROVE  \E H, S : /\ Spells(legs', H, S) /\ (path2' \in LegIds => path2' \in H)
                             /\ ListSays(S)' /\ JobSays(H, S)'
  BY DEF ListInv
<1> PICK G, S : /\ Spells(legs, G, S) /\ (path2 \in LegIds => path2 \in G)
                /\ ListSays(S) /\ JobSays(G, S)
  BY <1>1 DEF ListInv
<1>3. path2 \in LegIds => S[path2] \in Seq(Items) /\ Ends(S[path2], S[path2])
  BY EndsSelf DEF Spells
<1>4. CASE PathInUse /\ legs' = [legs EXCEPT ![path2].update_required =
                                    IF Last(stack).new_graph THEN 2 ELSE 1]
           /\ stack' = Caller /\ UNCHANGED route_status
  <2> PICK r \in {1, 2} : r = IF Last(stack).new_graph THEN 2 ELSE 1
    OBVIOUS
  <2>1. path2 \in LegIds /\ legs' = [legs EXCEPT ![path2].update_required = r]
    BY <1>4 DEF PathInUse
  <2>2. \A k \in LegIds : legs'[k].way = legs[k].way /\ legs'[k].next = legs[k].next
    BY <1>2, <2>1 DEF Legs
  <2>3. ~Settled'
    <3>1. legs[path2] \in Legs
      BY <1>2, <2>1
    <3>2. legs'[path2].update_required = r
      BY <1>2, <2>1, <3>1 DEF Legs
    <3> QED BY <1>1, <2>1, <3>2 DEF Settled, UpdateDue
  <2>4. Spells(legs', G, S) /\ \A l : Astray(legs, l) => Astray(legs', l)
    BY <2>2, SameSpells
  <2>5. ListSays(S)'
    BY <1>1, <1>3, <2>3, ListKept
  <2>6. JobSays(G, S)'
    <3>1. Working' => Working
      BY <1>1 DEF Working, jobVars
    <3>2. Working => route_mr.leg \in G \/ Astray(legs, route_mr.leg)
      BY DEF JobSays
    <3>3. route_mr.leg \in G \/ Astray(legs, route_mr.leg) => route_mr.leg \in LegIds
      BY DEF Spells, Astray
    <3>4. Working => legs'[route_mr.leg].way = ReadWay
                     /\ legs'[route_mr.leg].next = legs[route_mr.leg].next
      BY <2>2, <3>2, <3>3 DEF ReadWay
    <3> QED BY <1>1, <1>3, <2>3, <2>4, <3>1, <3>2, <3>4, JobKept
  <2> QED BY <1>1, <2>4, <2>5, <2>6
<1>5. CASE legs' = legs /\ route_status' = "building_path"
  <2>1. route_status' \notin PathDone
    BY <1>5 DEF PathDone
  <2>2. ListSays(S)'
    BY <1>1, <1>3, <2>1, ListKept
  <2>3. JobSays(G, S)'
    BY <1>1, <2>1 DEF JobSays, Working, BusyInv
  <2> QED BY <1>1, <1>5, <2>2, <2>3
<1> QED BY <1>4, <1>5 DEF UpdateDone, Set

LEMMA PathNotFoundList ==
    ASSUME ListInv, JobInv', PathNotFound
    PROVE  ListInv'
<1>1. /\ BusyInv' /\ (~overtaken' => ~overtaken) /\ itms' = itms /\ path2' = NoLeg
      /\ route_status' = "not_found"
  BY DEF JobInv, PathNotFound, listVars, Set
<1>2. route_status' \notin PathDone /\ NoLeg \notin LegIds
  BY <1>1, NavigationAssumption DEF PathDone
<1> QED BY <1>1, <1>2, NoPathList

\* The list is dropped, or kept for the path that is done now; a job ends.
LEMMA NavigationUpdateList ==
    ASSUME ListInv, SideInv, PathInv, JobInv, NavigationUpdate
    PROVE  ListInv'
<1> PICK status : status = Last(stack).status
  OBVIOUS
<1>1. /\ JobTypes /\ BusyInv /\ stack # <<>> /\ Running("navigation_update")
      /\ UNCHANGED <<overtaken, link_path, path2, route_status>>
      /\ itms' = IF status \in Flushing THEN <<>> ELSE itms
  BY DEF JobInv, NavigationUpdate, Running
<1>2. legs \in [LegIds -> Legs]
  BY <1>1 DEF JobTypes
<1>3. ASSUME status \in PathDone
      PROVE  ~busy' /\ Opening' /\ legs' = Release(legs, {route_mr.leg})
  <2>1. Opening /\ ~busy /\ route_mr = NoRect
    BY <1>1, <1>3 DEF Opening, BusyInv
  <2>2. /\ CloseRect(route_mr.leg, Then(Caller, "navigation_open")) /\ busy' = busy
    BY <1>1, <1>3 DEF NavigationUpdate
  <2>3. route_mr.leg \notin LegIds
    BY <2>1, NoRectIs
  <2>4. stack' = Append(Caller, [call |-> "navigation_open"])
    BY <2>2, <2>3 DEF CloseRect, Then
  <2> PICK open \in Frames : open = [call |-> "navigation_open"]
    BY FramesAre
  <2>5. stack' # <<>> /\ Last(stack') = open
    BY <1>1, <2>4, TopIs, PushIs
  <2>6. Opening'
    BY <2>5 DEF Opening, Running
  <2>7. legs' = Release(legs, {route_mr.leg})
    BY <2>2 DEF CloseRect
  <2> QED BY <2>1, <2>2, <2>6, <2>7
<1>4. ASSUME status \notin PathDone
      PROVE  /\ ~busy' /\ route_status \notin PathDone
             /\ legs' = legs \/ legs' = Release(legs, {route_mr.leg})
  <2>1. route_status \notin PathDone
    BY <1>1, <1>4 DEF SideInv, StatusInv, Ending
  <2>2. \/ EndJob(Caller)
        \/ ~(busy /\ EndsJob(status)) /\ UNCHANGED <<legs, jobVars>>
    BY <1>4 DEF NavigationUpdate
  <2> QED BY <1>4, <2>1, <2>2 DEF EndJob, CloseRect, EndsJob, jobVars
<1>5. ~busy' /\ (Opening' \/ route_status' \notin PathDone)
  BY <1>1, <1>3, <1>4
<1>6. PICK x \in {route_mr.leg, Closed} :
         Shed(legs, legs', x) /\ (x \in LegIds => legs[x].in_use <= 1)
  <2>1. CASE legs' = legs
    <3>1. Alike(legs, legs') /\ Closed \notin LegIds
      BY <2>1, NavigationAssumption DEF Alike
    <3> QED BY <1>2, <2>1, <3>1, AlikeShed
  <2>2. CASE legs' = Release(legs, {route_mr.leg})
    BY <1>2, <2>2, ReleaseShed
  <2> QED BY <1>3, <1>4, <2>1, <2>2
<1> SUFFICES ASSUME ~overtaken'
             PROVE  \E H, S : /\ Spells(legs', H, S) /\ (path2' \in LegIds => path2' \in H)
                             /\ ListSays(S)' /\ JobSays(H, S)'
  BY DEF ListInv
<1> PICK G, S : /\ Spells(legs, G, S) /\ (path2 \in LegIds => path2 \in G)
                /\ ListSays(S) /\ JobSays(G, S)
  BY <1>1 DEF ListInv
<1>7. PICK H \in SUBSET G : Spells(legs', H, S) /\ (path2 \in LegIds => path2 \in H)
  BY <1>1, <1>6, LegsKept, NavigationAssumption
<1>8. path2 \in LegIds => S[path2] \in Seq(Items) /\ Ends(S[path2], S[path2])
  BY EndsSelf DEF Spells
<1>9. ListSays(S)'
  <2>1. CASE status \in Flushing
    BY <1>1, <2>1 DEF ListSays, Whole
  <2>2. CASE status \notin Flushing
    <3>1. ~FlushDue
      BY <2>2 DEF FlushDue
    <3> QED BY <1>1, <1>5, <1>8, <2>2, <3>1, ListKept
  <2> QED BY <2>1, <2>2
<1>10. JobSays(H, S)'
  BY <1>5 DEF JobSays, Working
<1> QED BY <1>1, <1>7, <1>9, <1>10

LEMMA WholeIs ==
    ASSUME NEW T, NEW w \in Seq(T)
    PROVE  SubSeq(w, 1, Len(w)) = w
BY SubSeqFull

LEMMA JoinFirst ==
    ASSUME NEW T, NEW s \in Seq(T), NEW t \in Seq(T), s # <<>>
    PROVE  (s \o t)[1] = s[1] /\ s \o t # <<>>
<1> PICK k, m : k = Len(s) /\ m = Len(t)
  OBVIOUS
<1>1. k \in Nat /\ m \in Nat /\ k >= 1
  BY EmptySeq
<1>2. /\ Len(s \o t) = k + m
      /\ \A i \in 1..k + m : (s \o t)[i] = IF i <= k THEN s[i] ELSE t[i - k]
  BY JoinIs
<1>3. 1 \in 1..k + m /\ Len(s \o t) >= 1
  BY <1>1, <1>2
<1> QED BY <1>1, <1>2, <1>3, NotEmpty

\* A job begins: it is to read the path.
LEMMA NavigationOpenList ==
    ASSUME ListInv, SideInv, RestInv, JobInv, NavigationOpen
    PROVE  ListInv'
<1>1. /\ JobTypes /\ BusyInv /\ Running("navigation_open") /\ stack # <<>>
      /\ UNCHANGED <<overtaken, link_path, path2, route_status, itms>>
      /\ legs' = Held(path2) /\ route_mr' = [leg |-> path2, at |-> 1]
      /\ busy' = TRUE /\ has_sitem' = FALSE
  BY DEF JobInv, NavigationOpen, Running, listVars
<1>2. legs \in [LegIds -> Legs] /\ itms \in Seq(Items)
  BY <1>1 DEF JobTypes, RestInv
<1>3. Last(stack).call = "navigation_open" /\ ~FlushDue /\ ~Ending
  BY <1>1 DEF Running, FlushDue, Ending
<1>4. path2 \in LegIds
  BY <1>1, <1>3 DEF BusyInv, Opening, SideInv, StatusInv, Running
<1>5. ~link_path
  <2>1. Last(stack) = stack[Len(stack)]
    BY DEF Last
  <2>2. ~Running("update_done")
    BY <1>3 DEF Running
  <2> QED BY <1>3, <2>1, <2>2 DEF JobInv, LinkInv, Update
<1> SUFFICES ASSUME ~overtaken'
             PROVE  \E H, S : /\ Spells(legs', H, S) /\ (path2' \in LegIds => path2' \in H)
                             /\ ListSays(S)' /\ JobSays(H, S)'
  BY DEF ListInv
<1> PICK G, S : /\ Spells(legs, G, S) /\ (path2 \in LegIds => path2 \in G)
                /\ ListSays(S) /\ JobSays(G, S)
  BY <1>1 DEF ListInv
<1>6. /\ \A k \in LegIds : legs'[k].way = legs[k].way /\ legs'[k].next = legs[k].next
      /\ legs' \in [LegIds -> Legs]
  BY <1>1, <1>2, HeldAlike DEF Alike
<1>7. Spells(legs', G, S)
  BY <1>6, SameSpells
<1> PICK w, t, s : w = legs[path2].way /\ t = S[legs[path2].next] /\ s = S[path2]
  OBVIOUS
<1>8. /\ w \in Seq(Items) /\ w # <<>> /\ t \in Seq(Items) /\ s \in Seq(Items)
      /\ s = w \o t /\ Once(s)
  <2>1. legs[path2].way \in Seq(Items)
    BY <1>1, <1>4, WayIs DEF Items
  <2> QED BY <1>4, <2>1 DEF Spells
<1>9. Ends(s, s) /\ s # <<>> /\ s[1] = w[1]
  BY <1>8, EndsSelf, JoinFirst
<1>10. ListSays(S)'
  BY <1>1, <1>3, <1>8, <1>9, ListKept
<1>11. ReadWay' = w /\ ReadSoFar' = <<>> /\ Rest(S)' = s
  <2>1. ReadWay' = w /\ ReadSoFar' = <<>>
    BY <1>1, <1>4, <1>6 DEF ReadWay, ReadSoFar
  <2>2. Rest(S)' = SubSeq(w, 1, Len(w)) \o t
    BY <1>1, <1>4, <1>6, <2>1 DEF Rest, Left
  <2> QED BY <1>8, <2>1, <2>2, WholeIs
<1>12. <<>> \o s = s
  BY <1>8, ConcatEmptySeq
<1>13. Goes(S, s)'
  BY <1>1, <1>9 DEF Goes
<1>14. ASSUME Whole(itms)
       PROVE  Found(w[1]) /\ From(w[1]) = s
  <2>1. Once(itms) /\ Ends(s, itms)
    BY <1>3, <1>4, <1>5, <1>14 DEF ListSays
  <2> QED BY <1>2, <1>8, <1>9, <2>1, FromEnd
<1>15. JobSays(G, S)'
  <2>1. (~has_sitem /\ Whole(itms) => Found(ReadWay[1]) /\ Goes(S, From(ReadWay[1])))'
    <3> SUFFICES ASSUME Whole(itms)
                 PROVE  Found(w[1])' /\ Goes(S, From(w[1]))'
      BY <1>1, <1>11
    <3>1. Found(w[1]) /\ From(w[1]) = s
      BY <1>14
    <3>2. Found(w[1])' /\ From(w[1])' = s
      BY <1>1, <3>1 DEF Found, From
    <3> QED BY <1>13, <3>2
  <2> QED BY <1>1, <1>4, <1>8, <1>11, <1>12, <1>13, <2>1 DEF JobSays
<1> QED BY <1>1, <1>7, <1>10, <1>15

-----------------------------------------------------------------------------
(* The job reads on *)

LEMMA Regroup ==
    ASSUME NEW a \in Seq(Items), NEW b \in Seq(Items), NEW d \in Seq(Items),
           NEW c \in Seq(Items)
    PROVE  (a \o b) \o (d \o c) = a \o ((b \o d) \o c)
<1>1. PICK e \in Seq(Items) : e = d \o c
  BY ConcatProperties
<1>2. (a \o b) \o e = a \o (b \o e)
  BY Grouped, SMTT(20)
<1>3. (b \o d) \o c = b \o e
  BY <1>1, Grouped, SMTT(20)
<1> QED BY <1>1, <1>2, <1>3

\* A street is read: what has been read and what is left are the same together.
LEMMA ReadOn ==
    ASSUME NEW a \in Seq(Items), NEW w \in Seq(Items), NEW i \in 1..Len(w),
           NEW c \in Seq(Items)
    PROVE  Append(a, w[i]) \o Left(w, i + 1, c) = a \o Left(w, i, c)
<1> PICK n : n = Len(w)
  OBVIOUS
<1>d. PICK d : d = SubSeq(w, i + 1, n)
  OBVIOUS
<1>1. n \in Nat /\ i \in 1..n /\ w[i] \in Items
  BY LenProperties, ElementOfSeq
<1>2. d \in Seq(Items)
  <2>1. CASE i = n
    <3>1. i + 1 \in Int /\ n \in Int /\ n < i + 1
      BY <1>1, <2>1
    <3>2. d = <<>>
      BY <1>d, <3>1, SubSeqEmpty
    <3> QED BY <3>2
  <2>2. CASE i < n
    <3>1. i + 1 \in 1..n
      BY <1>1, <2>2
    <3> QED BY <1>d, <3>1, TailIs
  <2> QED BY <1>1, <2>1, <2>2
<1>b. PICK b : b = <<w[i]>>
  OBVIOUS
<1>3. b \in Seq(Items)
  BY <1>1, <1>b
<1>4. SubSeq(w, i, n) = b \o d
  <2>1. i \in 1..Len(w) /\ n \in i..Len(w)
    BY <1>1
  <2> QED BY <1>d, <1>b, <2>1, SubSeqRecursiveFirst
<1>5. Append(a, w[i]) = a \o b
  BY <1>1, <1>b, AppendIsConcat
<1>6. (a \o b) \o (d \o c) = a \o ((b \o d) \o c)
  <2>1. \A y, u, v \in Seq(Items) : (a \o y) \o (u \o v) = a \o ((y \o u) \o v)
    BY Regroup
  <2>2. \A u, v \in Seq(Items) : (a \o b) \o (u \o v) = a \o ((b \o u) \o v)
    BY <1>3, <2>1
  <2> QED BY <1>2, <2>2
<1> QED BY <1>d, <1>4, <1>5, <1>6 DEF Left

\* The job closes its map rect, or moves it to the next leg, or stays on its own.
LEMMA IdleShed ==
    ASSUME JobInv, NEW s, UpdateIdle(s)
    PROVE  \E x \in {route_mr.leg, Closed} :
              Shed(legs, legs', x) /\ (x \in LegIds => legs[x].in_use <= 1)
<1>1. legs \in [LegIds -> Legs] /\ Closed \notin LegIds
  BY NavigationAssumption DEF JobInv, JobTypes
<1> PICK l, y : l = route_mr.leg /\ y = NextRead.leg
  OBVIOUS
<1>2. \/ legs' = Release(legs, {l})
      \/ legs' = legs
      \/ y # l /\ legs' = Release(Held(y), {l})
  BY DEF UpdateIdle, ReadNoGraph, ReadEnd, ReadStreet, EndJob, CloseRect
<1>3. CASE legs' = Release(legs, {l})
  BY <1>1, <1>3, ReleaseShed
<1>4. CASE legs' = legs
  <2>1. Alike(legs, legs')
    BY <1>4 DEF Alike
  <2> QED BY <1>1, <1>4, <2>1, AlikeShed
<1>5. CASE y # l /\ legs' = Release(Held(y), {l})
  <2>1. Held(y) \in [LegIds -> Legs] /\ Alike(legs, Held(y))
    BY <1>1, HeldAlike
  <2>2. PICK x \in {l, Closed} :
           Shed(Held(y), legs', x) /\ (x \in LegIds => Held(y)[x].in_use <= 1)
    BY <1>5, <2>1, ReleaseShed
  <2>3. Shed(legs, legs', x)
    BY <2>1, <2>2, AlikeThenShed
  <2>4. x \in LegIds => Held(y)[x].in_use = legs[x].in_use
    BY <1>1, <1>5, <2>2 DEF Held
  <2> QED BY <2>2, <2>3, <2>4
<1> QED BY <1>2, <1>3, <1>4, <1>5

LEMMA IdleIs ==
    ASSUME SideInv, RestInv, JobInv, busy, NEW s, UpdateIdle(s),
           stack = <<>> \/ Running("navigation_read")
    PROVE  /\ ~NoGraph /\ path2 \in LegIds /\ route_status \in PathDone /\ Working
           /\ ~Running("update_done") /\ ~Ending /\ ~FlushDue
           /\ UNCHANGED <<path2, link_path, route_status, overtaken>>
           /\ route_mr.leg \in LegIds /\ route_mr.at \in Nat /\ route_mr.at >= 1
           /\ ~has_sitem => route_mr.at = 1
<1>1. BusyInv /\ JobTypes
  BY DEF JobInv
<1>2. ~Running("update_done") /\ ~Ending /\ ~FlushDue
  BY DEF Running, Ending, FlushDue
<1>3. Working /\ route_status \in PathDone
  BY <1>1, <1>2, WorkingDone DEF Working
<1>4. graph # "none" /\ path2 \in LegIds
  BY <1>2, <1>3 DEF SideInv, StatusInv
<1>5. /\ route_mr.leg \in LegIds /\ (~has_sitem => route_mr.at = 1)
      /\ route_mr.at \in Nat /\ route_mr.at >= 1
  BY <1>1 DEF SideInv, ReadInv, JobTypes, Rects, RestInv
<1> QED BY <1>2, <1>3, <1>4, <1>5 DEF UpdateIdle, NoGraph

LEMMA ShedSettled ==
    ASSUME NEW x, Shed(legs, legs', x), path2 # x, path2' = path2, ~Running("update_done")
    PROVE  Settled' => Settled
<1>1. path2 \in LegIds => legs'[path2].update_required = legs[path2].update_required
  BY DEF Shed
<1> QED BY <1>1 DEF Settled, UpdateDue

\* The job is done: the list that it leaves is that of the path.
LEMMA IdleEndList ==
    ASSUME ListInv, SideInv, PathInv, RestInv, JobInv, busy, NEW s, UpdateIdle(s),
           stack = <<>> \/ Running("navigation_read"), ~busy',
           \A G, S : Spells(legs, G, S) /\ ListSays(S) /\ JobSays(G, S) /\ Whole(itms')
                        => Once(itms') /\ Goes(S, itms')
    PROVE  ListInv'
<1>1. /\ path2 \in LegIds /\ ~Running("update_done")
      /\ UNCHANGED <<path2, link_path, route_status, overtaken>>
  BY IdleIs
<1>2. PICK x \in {route_mr.leg, Closed} :
         Shed(legs, legs', x) /\ (x \in LegIds => legs[x].in_use <= 1)
  BY IdleShed
<1> SUFFICES ASSUME ~overtaken'
             PROVE  \E H, S : /\ Spells(legs', H, S) /\ (path2' \in LegIds => path2' \in H)
                             /\ ListSays(S)' /\ JobSays(H, S)'
  BY DEF ListInv
<1> PICK G, S : /\ Spells(legs, G, S) /\ (path2 \in LegIds => path2 \in G)
                /\ ListSays(S) /\ JobSays(G, S)
  BY <1>1 DEF ListInv
<1>3. /\ path2 # x
      /\ \E H \in SUBSET G : Spells(legs', H, S) /\ (path2 \in LegIds => path2 \in H)
  BY <1>2, LegsKept, NavigationAssumption DEF JobInv
<1> PICK H \in SUBSET G : Spells(legs', H, S) /\ (path2 \in LegIds => path2 \in H)
  BY <1>3
<1>4. Settled' => Settled
  BY <1>1, <1>2, <1>3, ShedSettled
<1>5. ListSays(S)'
  <2> SUFFICES ASSUME Whole(itms')
               PROVE  /\ Once(itms')
                      /\ Ends(S[path2], itms')
                      /\ Settled' => itms' = S[path2]
    BY <1>1 DEF ListSays
  <2>1. Once(itms') /\ Goes(S, itms')
    OBVIOUS
  <2> QED BY <1>1, <1>4, <2>1 DEF Goes
<1>6. JobSays(H, S)'
  BY DEF JobSays, Working
<1> QED BY <1>1, <1>5, <1>6

\* The leg that the job reads has streets.
LEMMA ReadWayIs ==
    ASSUME JobInv, RestInv, route_mr.leg \in LegIds, NEW G, NEW S, Spells(legs, G, S),
           JobSays(G, S), Working
    PROVE  /\ ReadWay \in Seq(Items) /\ ReadWay # <<>> /\ Len(ReadWay) \in Nat
           /\ Len(ReadWay) >= 1 /\ ReadSoFar \in Seq(Items)
<1>1. ReadWay \in Seq(Items)
  BY WayIs DEF Items, ReadWay, JobInv
<1>2. ReadWay # <<>>
  BY DEF JobSays, Spells, Astray, ReadWay
<1>3. ReadSoFar \in Seq(Items)
  BY EmptySeq DEF RestInv, ReadSoFar
<1> QED BY <1>1, <1>2, <1>3, LenProperties, EmptySeq

LEMMA ReadEndSays ==
    ASSUME SideInv, RestInv, JobInv, busy, NEW s, UpdateIdle(s), ReadEnd(s),
           stack = <<>> \/ Running("navigation_read"),
           NEW G, NEW S, Spells(legs, G, S), JobSays(G, S)
    PROVE  Whole(itms') /\ Once(itms') /\ Goes(S, itms')
<1> PICK l, w : l = route_mr.leg /\ w = ReadWay
  OBVIOUS
<1>1. /\ Working /\ l \in LegIds /\ (~has_sitem => route_mr.at = 1)
      /\ route_mr.at \in Nat
  BY IdleIs
<1>2. /\ w \in Seq(Items) /\ Len(w) \in Nat /\ Len(w) >= 1
      /\ ReadSoFar \in Seq(Items)
  BY <1>1, ReadWayIs
<1>3. AtEndOfLeg /\ NextRead = route_mr
  BY <1>1, NavigationAssumption DEF ReadEnd, AtEndOfPath
<1>4. legs[l].next = NoLeg
  <2> SUFFICES ASSUME legs[l].next # NoLeg PROVE FALSE
    OBVIOUS
  <2>1. NextRead = [leg |-> legs[l].next, at |-> 1]
    BY <1>3 DEF NextRead
  <2>2. legs[l].next # l
    BY <1>1 DEF JobInv, NoSelf
  <2> QED BY <1>3, <2>1, <2>2
<1>5. route_mr.at > Len(w) /\ has_sitem
  BY <1>1, <1>2, <1>3 DEF AtEndOfLeg, ReadWay
<1>6. /\ Once(ReadSoFar \o Rest(S)) /\ Goes(S, ReadSoFar \o Rest(S))
  <2>1. ~Astray(legs, l)
    BY <1>4, NavigationAssumption DEF Astray
  <2> QED BY <1>1, <2>1 DEF JobSays
<1>7. Rest(S) = <<Arrival>>
  <2>1. SubSeq(w, route_mr.at, Len(w)) = <<>>
    BY <1>1, <1>2, <1>5, SubSeqEmpty
  <2>2. S[NoLeg] = <<Arrival>>
    BY DEF Spells
  <2>3. <<>> \o <<Arrival>> = <<Arrival>>
    OBVIOUS
  <2> QED BY <1>4, <2>1, <2>2, <2>3 DEF Rest, Left
<1> PICK q : q = ReadSoFar
  OBVIOUS
<1>8. itms' = Append(q, Arrival) /\ Arrival \in Items
  BY <1>5 DEF ReadEnd, Completed, ReadSoFar, Items
<1>9. itms' = q \o <<Arrival>>
  BY <1>2, <1>8, AppendIsConcat
<1>10. Whole(itms')
  <2>1. Last(Append(q, Arrival)) = Arrival /\ Append(q, Arrival) # <<>>
    BY <1>2, <1>8, AppendProperties DEF Last
  <2> QED BY <1>8, <2>1 DEF Whole
<1> QED BY <1>6, <1>7, <1>9, <1>10

\* Where the next street is
LEMMA StreetIs ==
    ASSUME SideInv, RestInv, JobInv, busy, NEW s, UpdateIdle(s), ReadStreet(s),
           stack = <<>> \/ Running("navigation_read"),
           NEW G, NEW S, Spells(legs, G, S), JobSays(G, S)
    PROVE  \/ NextRead = route_mr /\ route_mr.at \in 1..Len(ReadWay)
           \/ /\ has_sitem /\ route_mr.at > Len(ReadWay)
              /\ legs[route_mr.leg].next \in LegIds
              /\ legs[route_mr.leg].next # route_mr.leg
              /\ NextRead = [leg |-> legs[route_mr.leg].next, at |-> 1]
<1> PICK l, w : l = route_mr.leg /\ w = ReadWay
  OBVIOUS
<1>1. /\ Working /\ l \in LegIds /\ (~has_sitem => route_mr.at = 1)
      /\ route_mr.at \in Nat /\ route_mr.at >= 1
  BY IdleIs
<1>2. Len(w) \in Nat /\ Len(w) >= 1
  BY <1>1, ReadWayIs
<1>3. NextRead.leg \in LegIds /\ NextRead.at <= Len(legs[NextRead.leg].way)
  BY DEF ReadStreet
<1>4. CASE AtEndOfLeg /\ legs[l].next # NoLeg
  <2>1. NextRead = [leg |-> legs[l].next, at |-> 1] /\ route_mr.at > Len(w)
    BY <1>4 DEF NextRead, AtEndOfLeg, ReadWay
  <2>2. legs[l].next \in LegIds /\ legs[l].next # l
    BY <1>1, <1>3, <2>1 DEF JobInv, NoSelf
  <2>3. has_sitem
    BY <1>1, <1>2, <2>1
  <2> QED BY <2>1, <2>2, <2>3
<1>5. CASE ~(AtEndOfLeg /\ legs[l].next # NoLeg)
  <2>1. NextRead = route_mr
    BY <1>5 DEF NextRead
  <2>2. route_mr.at <= Len(w)
    BY <1>3, <2>1 DEF ReadWay
  <2> QED BY <1>1, <1>2, <2>1, <2>2
<1> QED BY <1>4, <1>5

\* The place in the list where the path begins has been found.
LEMMA FoundSays ==
    ASSUME SideInv, RestInv, JobInv, busy, NEW s, UpdateIdle(s), ReadStreet(s),
           stack = <<>> \/ Running("navigation_read"), ~has_sitem,
           Found(legs[NextRead.leg].way[NextRead.at]),
           NEW G, NEW S, Spells(legs, G, S), JobSays(G, S), ListSays(S)
    PROVE  /\ Whole(itms') <=> Whole(itms)
           /\ Whole(itms) => Once(itms') /\ Goes(S, itms')
<1>1. Working /\ route_mr.at = 1
  BY IdleIs
<1>2. NextRead = route_mr
  BY StreetIs
<1> PICK x : x = ReadWay[1]
  OBVIOUS
<1>3. Found(x) /\ itms' = From(x)
  BY <1>1, <1>2 DEF ReadStreet, ReadWay
<1>4. /\ Whole(From(x)) <=> Whole(itms)
      /\ Once(itms) => Once(From(x))
  BY <1>3, FromIs DEF RestInv
<1>5. Whole(itms) => Goes(S, From(x)) /\ Once(itms)
  BY <1>1 DEF JobSays, ListSays
<1> QED BY <1>3, <1>4, <1>5

LEMMA GoesKept ==
    ASSUME path2' = path2, Settled' => Settled, NEW S, NEW q, Goes(S, q)
    PROVE  Goes(S, q)'
BY DEF Goes

\* A street of the path is put to the list.
LEMMA AppendIs ==
    ASSUME SideInv, RestInv, JobInv, busy, NEW s, UpdateIdle(s), ReadStreet(s),
           stack = <<>> \/ Running("navigation_read"), busy',
           NEW G, NEW S, Spells(legs, G, S), JobSays(G, S)
    PROVE  LET street == legs[NextRead.leg].way[NextRead.at]
           IN  /\ NextRead.at \in 1..Len(legs[NextRead.leg].way)
               /\ itms' = Append(ReadSoFar, street) /\ itms' # <<>>
               /\ Last(itms') # Arrival /\ ~Whole(itms')
               /\ route_mr' = [leg |-> NextRead.leg, at |-> NextRead.at + 1]
               /\ has_sitem' /\ ReadSoFar' = itms'
               /\ has_sitem \/ ~Found(street)
<1> PICK y, i, w : y = NextRead.leg /\ i = NextRead.at /\ w = legs[y].way
  OBVIOUS
<1> PICK street : street = w[i]
  OBVIOUS
<1>1. /\ y \in LegIds /\ i <= Len(w)
      /\ has_sitem \/ ~Found(street)
      /\ itms' = Append(IF has_sitem THEN itms ELSE <<>>, street)
      /\ route_mr' = [NextRead EXCEPT !.at = @ + 1]
      /\ has_sitem' = TRUE
  BY DEF ReadStreet, EndJob
<1>2. /\ Working /\ route_mr.leg \in LegIds /\ route_mr.at \in Nat /\ route_mr.at >= 1
      /\ JobTypes
  BY IdleIs DEF JobInv
<1>3. \/ NextRead = route_mr
      \/ NextRead = [leg |-> legs[route_mr.leg].next, at |-> 1]
  BY StreetIs
<1>4. i \in Nat /\ i >= 1 /\ NextRead = [leg |-> y, at |-> i]
  <2>1. CASE NextRead = route_mr
    BY <1>2, <2>1 DEF JobTypes, Rects
  <2>2. CASE NextRead = [leg |-> legs[route_mr.leg].next, at |-> 1]
    BY <2>2
  <2> QED BY <1>3, <2>1, <2>2
<1>5. w \in Seq(Streets) /\ Len(w) \in Nat
  BY <1>1, <1>2, WayIs, LenProperties
<1>6. i \in 1..Len(w) /\ street \in Streets
  <2>1. i \in 1..Len(w)
    BY <1>1, <1>4, <1>5
  <2> QED BY <1>5, <2>1, ElementOfSeq
<1>7. street # Arrival /\ street \in Items
  BY <1>6, NavigationAssumption DEF Items
<1>8. itms' = Append(ReadSoFar, street)
  BY <1>1 DEF ReadSoFar
<1> PICK q \in Seq(Items) : q = ReadSoFar
  BY <1>2, ReadWayIs
<1>9. Append(q, street) # <<>> /\ Last(Append(q, street)) = street
  BY <1>7, AppendProperties DEF Last
<1>10. itms' # <<>> /\ Last(itms') # Arrival /\ ~Whole(itms')
  BY <1>7, <1>8, <1>9 DEF Whole
<1>11. route_mr' = [leg |-> y, at |-> i + 1]
  BY <1>1, <1>4
<1>12. ReadSoFar' = itms'
  BY <1>1 DEF ReadSoFar
<1> QED BY <1>1, <1>6, <1>8, <1>10, <1>11, <1>12

LEMMA AppendList ==
    ASSUME ListInv, SideInv, PathInv, RestInv, JobInv, busy, NEW s, UpdateIdle(s),
           ReadStreet(s), stack = <<>> \/ Running("navigation_read"), busy'
    PROVE  ListInv'
<1> PICK l, w, q : l = route_mr.leg /\ w = ReadWay /\ q = ReadSoFar
  OBVIOUS
<1>1. /\ path2 \in LegIds /\ ~Running("update_done") /\ Working /\ JobTypes
      /\ UNCHANGED <<path2, link_path, route_status, overtaken>>
      /\ l \in LegIds
  BY IdleIs DEF JobInv
<1>2. PICK x \in {l, Closed} :
         Shed(legs, legs', x) /\ (x \in LegIds => legs[x].in_use <= 1)
  BY IdleShed
<1> SUFFICES ASSUME ~overtaken'
             PROVE  \E H, S : /\ Spells(legs', H, S) /\ (path2' \in LegIds => path2' \in H)
                             /\ ListSays(S)' /\ JobSays(H, S)'
  BY DEF ListInv
<1> PICK G, S : /\ Spells(legs, G, S) /\ (path2 \in LegIds => path2 \in G)
                /\ ListSays(S) /\ JobSays(G, S)
  BY <1>1 DEF ListInv
<1>3. PICK y, i, v : /\ y = NextRead.leg /\ i = NextRead.at /\ v = legs[y].way
                     /\ i \in 1..Len(v)
                     /\ itms' = Append(q, v[i]) /\ itms' # <<>>
                     /\ Last(itms') # Arrival /\ ~Whole(itms')
                     /\ route_mr' = [leg |-> y, at |-> i + 1]
                     /\ has_sitem' /\ ReadSoFar' = itms'
  BY AppendIs
<1>4. y \in LegIds /\ legs' = IF y = l THEN legs ELSE Release(Held(y), {l})
  BY <1>3 DEF ReadStreet, EndJob
<1>5. ListSays(S)'
  BY <1>3 DEF ListSays
<1>6. /\ w \in Seq(Items) /\ Len(w) \in Nat /\ q \in Seq(Items)
      /\ v \in Seq(Items)
  BY <1>1, <1>3, <1>4, ReadWayIs, WayIs DEF Items
<1>11. ASSUME NEW t \in Seq(Items)
       PROVE  Append(q, v[i]) \o Left(v, i + 1, t) = q \o Left(v, i, t)
  <2>1. i \in 1..Len(v)
    BY <1>3
  <2>2. \A p \in Seq(Items) : \A j \in 1..Len(p), u \in Seq(Items) :
           Append(q, p[j]) \o Left(p, j + 1, u) = q \o Left(p, j, u)
    BY <1>6, ReadOn
  <2> QED BY <1>6, <2>1, <2>2
<1>7. /\ path2 # x
      /\ \E H \in SUBSET G : /\ Spells(legs', H, S) /\ (path2 \in LegIds => path2 \in H)
                             /\ \A k \in G : k # x /\ k \notin H => Astray(legs', k)
  BY <1>1, <1>2, LegsKept, NavigationAssumption
<1>8. Settled' => Settled
  BY <1>1, <1>2, <1>7, ShedSettled
<1>9. CASE y = l
  <2>1. NextRead = route_mr /\ v = w /\ i = route_mr.at
    <3>1. NextRead = route_mr \/ (legs[l].next # l /\ NextRead.leg = legs[l].next)
      BY StreetIs
    <3>2. NextRead = route_mr
      BY <1>3, <1>9, <3>1
    <3> QED BY <1>3, <1>9, <3>2 DEF ReadWay
  <2>2. legs' = legs
    BY <1>4, <1>9
  <2>3. Spells(legs', G, S) /\ (Astray(legs, l) => Astray(legs', l))
    BY <2>2
  <2>4. ASSUME l \in G, Once(q \o Rest(S)), Goes(S, q \o Rest(S))
        PROVE  Once(ReadSoFar' \o Rest(S)') /\ Goes(S, ReadSoFar \o Rest(S))'
    <3> PICK t \in Seq(Items) : t = S[legs[l].next]
      BY <2>4 DEF Spells
    <3>1. Rest(S) = Left(w, i, t)
      BY <2>1 DEF Rest
    <3>2. Rest(S)' = Left(w, i + 1, t)
      BY <1>3, <1>9, <2>2 DEF Rest, ReadWay
    <3>3. ReadSoFar' \o Rest(S)' = q \o Rest(S)
      BY <1>3, <1>11, <2>1, <3>1, <3>2
    <3>4. (ReadSoFar \o Rest(S))' = q \o Rest(S)
      BY <3>3
    <3> PICK r : r = q \o Rest(S)
      OBVIOUS
    <3>5. Goes(S, r)'
      BY <1>1, <1>8, <2>4, GoesKept
    <3> QED BY <2>4, <3>4, <3>5
  <2>5. JobSays(G, S)'
    BY <1>1, <1>3, <1>9, <2>3, <2>4 DEF JobSays
  <2> QED BY <1>1, <1>5, <2>3, <2>5
<1>10. CASE y # l
  <2>1. /\ route_mr.at > Len(w) /\ legs[l].next = y /\ i = 1
    BY <1>3, <1>10, StreetIs
  <2> PICK H \in SUBSET G : /\ Spells(legs', H, S) /\ (path2 \in LegIds => path2 \in H)
                            /\ \A k \in G : k # x /\ k \notin H => Astray(legs', k)
    BY <1>7
  <2>2. y # x
    BY <1>2, <1>4, <1>10, NavigationAssumption
  <2>3. Astray(legs, l) => Astray(legs', y)
    <3>1. Astray(legs, l) => Astray(legs, y)
      BY <1>4, <2>1, NavigationAssumption DEF Astray
    <3> QED BY <1>2, <2>2, <3>1, ShedAstray
  <2>4. l \in G => y \in G
    BY <1>4, <2>1, NavigationAssumption DEF Spells
  <2>5. legs'[y].way = v
    BY <1>2, <1>3, <1>4, <2>2 DEF Shed
  <2>6. ASSUME y \in H, l \in G, Once(q \o Rest(S)), Goes(S, q \o Rest(S))
        PROVE  Once(ReadSoFar' \o Rest(S)') /\ Goes(S, ReadSoFar \o Rest(S))'
    <3> PICK t \in Seq(Items) : t = S[legs'[y].next]
      BY <2>6 DEF Spells
    <3>1. Rest(S) = S[y]
      <4>1. SubSeq(w, route_mr.at, Len(w)) = <<>>
        BY <1>1, <1>6, <2>1, SubSeqEmpty, IdleIs
      <4>2. S[y] \in Seq(Items)
        BY <2>6 DEF Spells
      <4>3. Rest(S) = <<>> \o S[y]
        BY <2>1, <4>1 DEF Rest, Left
      <4> QED BY <4>2, <4>3, ConcatEmptySeq
    <3>2. S[y] = v \o t
      BY <2>5, <2>6 DEF Spells
    <3>3. Rest(S) = Left(v, i, t)
      BY <1>6, <2>1, <3>1, <3>2, WholeIs DEF Left
    <3>4. Rest(S)' = Left(v, i + 1, t)
      BY <1>3, <2>5 DEF Rest, ReadWay
    <3>5. ReadSoFar' \o Rest(S)' = q \o Rest(S)
      BY <1>3, <1>11, <3>3, <3>4
    <3>6. (ReadSoFar \o Rest(S))' = q \o Rest(S)
      BY <3>5
    <3> PICK r : r = q \o Rest(S)
      OBVIOUS
    <3>7. Goes(S, r)'
      BY <1>1, <1>8, <2>6, GoesKept
    <3> QED BY <2>6, <3>6, <3>7
  <2>7. JobSays(H, S)'
    BY <1>1, <1>3, <2>2, <2>3, <2>4, <2>6 DEF JobSays
  <2> QED BY <1>1, <1>5, <2>7
<1> QED BY <1>9, <1>10

LEMMA IdleList ==
    ASSUME ListInv, SideInv, PathInv, RestInv, JobInv, busy, NEW s, UpdateIdle(s),
           stack = <<>> \/ Running("navigation_read")
    PROVE  ListInv'
<1>1. ReadEnd(s) \/ ReadStreet(s)
  BY IdleIs DEF UpdateIdle, ReadNoGraph
<1>2. CASE ReadEnd(s)
  <2>1. ~busy'
    BY <1>2 DEF ReadEnd, EndJob
  <2>2. ASSUME NEW G, NEW S, Spells(legs, G, S), ListSays(S), JobSays(G, S), Whole(itms')
        PROVE  Once(itms') /\ Goes(S, itms')
    BY <1>2, <2>2, ReadEndSays
  <2> QED BY <2>1, <2>2, IdleEndList
<1>3. CASE ReadStreet(s) /\ busy'
  BY <1>3, AppendList
<1>4. CASE ReadStreet(s) /\ ~busy'
  <2>1. ~has_sitem /\ Found(legs[NextRead.leg].way[NextRead.at])
    BY <1>4 DEF ReadStreet
  <2>2. ASSUME NEW G, NEW S, Spells(legs, G, S), ListSays(S), JobSays(G, S), Whole(itms')
        PROVE  Once(itms') /\ Goes(S, itms')
    BY <1>4, <2>1, <2>2, FoundSays
  <2> QED BY <1>4, <2>2, IdleEndList
<1> QED BY <1>1, <1>2, <1>3, <1>4

LEMMA NavigationReadList ==
    ASSUME ListInv, SideInv, PathInv, RestInv, JobInv, NavigationRead
    PROVE  ListInv'
<1>1. CASE busy
  <2>1. UpdateIdle(stack) /\ Running("navigation_read")
    BY <1>1 DEF NavigationRead
  <2> QED BY <1>1, <2>1, IdleList
<1>2. CASE ~busy
  <2>1. /\ UNCHANGED <<legs, itms, overtaken, link_path, path2, route_status, busy>>
    BY <1>2 DEF NavigationRead, routeVars, jobVars, listVars
  <2>2. ~Running("update_done") /\ ~Opening /\ ~FlushDue
    BY DEF NavigationRead, Running, Opening, FlushDue
  <2> SUFFICES ASSUME ~overtaken'
               PROVE  \E H, S : /\ Spells(legs', H, S) /\ (path2' \in LegIds => path2' \in H)
                               /\ ListSays(S)' /\ JobSays(H, S)'
    BY DEF ListInv
  <2> PICK G, S : /\ Spells(legs, G, S) /\ (path2 \in LegIds => path2 \in G)
                  /\ ListSays(S)
    BY <2>1 DEF ListInv
  <2>3. path2 \in LegIds => S[path2] \in Seq(Items) /\ Ends(S[path2], S[path2])
    BY EndsSelf DEF Spells
  <2>4. Settled' => Settled
    BY <2>1, <2>2 DEF Settled, UpdateDue
  <2>5. ListSays(S)'
    BY <1>2, <2>1, <2>2, <2>3, <2>4, ListKept
  <2>6. JobSays(G, S)'
    BY <1>2, <2>1 DEF JobSays, Working
  <2> QED BY <2>1, <2>5, <2>6
<1> QED BY <1>1, <1>2

LEMMA NavigationIdleList ==
    ASSUME ListInv, SideInv, PathInv, RestInv, JobInv, NavigationIdle
    PROVE  ListInv'
<1>1. stack = <<>> /\ UpdateIdle(<<>>)
  BY DEF NavigationIdle
<1>2. busy
  BY DEF NavigationIdle, JobInv, BusyInv
<1> QED BY <1>1, <1>2, IdleList

-----------------------------------------------------------------------------
(* A path is found *)

LEMMA LeastIs ==
    ASSUME NEW T, T \subseteq Nat, T # {}
    PROVE  \E m \in T : \A k \in T : m <= k
<1> DEFINE R == {x \in Nat \X Nat : x[1] < x[2]}
<1>1. IsWellFoundedOn(R, Nat)
  BY NatLessThanWellFounded DEF OpToRel
<1>2. PICK m \in T : \A k \in T : <<k, m>> \notin R
  BY <1>1, WFMin
<1>3. \A k \in T : m <= k
  <2>1. TAKE k \in T
  <2>2. <<k, m>> \in Nat \X Nat /\ ~(k < m)
    BY <1>2
  <2>3. QED
    BY <2>2
<1> QED BY <1>3

LEMMA JoinOnce ==
    ASSUME NEW s \in Seq(Items), NEW t \in Seq(Items), NEW r, r = s \o t
    PROVE  /\ \A x \in Range(r) : x \in Range(s) \/ x \in Range(t)
           /\ Once(s) /\ Once(t) /\ Range(s) \cap Range(t) = {} => Once(r)
<1> PICK k, m : k = Len(s) /\ m = Len(t)
  OBVIOUS
<1>1. /\ r \in Seq(Items) /\ Len(r) = k + m
      /\ \A i \in 1..k + m : r[i] = IF i <= k THEN s[i] ELSE t[i - k]
  BY JoinIs
<1>2. /\ k \in Nat /\ m \in Nat /\ DOMAIN s = 1..k /\ DOMAIN t = 1..m
      /\ DOMAIN r = 1..k + m
  BY <1>1, LenProperties
<1>3. ASSUME NEW i \in DOMAIN r
      PROVE  \/ i \in DOMAIN s /\ i <= k /\ r[i] = s[i] /\ r[i] \in Range(s)
             \/ i - k \in DOMAIN t /\ i > k /\ r[i] = t[i - k] /\ r[i] \in Range(t)
  <2>1. CASE i <= k
    <3>1. i \in DOMAIN s /\ r[i] = s[i]
      BY <1>1, <1>2, <2>1
    <3> QED BY <2>1, <3>1 DEF Range
  <2>2. CASE i > k
    <3>1. i - k \in DOMAIN t /\ r[i] = t[i - k]
      BY <1>1, <1>2, <2>2
    <3> QED BY <2>2, <3>1 DEF Range
  <2> QED BY <1>2, <2>1, <2>2
<1>4. \A x \in Range(r) : x \in Range(s) \/ x \in Range(t)
  BY <1>3 DEF Range
<1>5. ASSUME Once(s), Once(t), Range(s) \cap Range(t) = {}, NEW i \in DOMAIN r,
             NEW j \in DOMAIN r, r[i] = r[j]
      PROVE  i = j
  <2>1. \/ i \in DOMAIN s /\ j \in DOMAIN s /\ s[i] = s[j]
        \/ i - k \in DOMAIN t /\ j - k \in DOMAIN t /\ t[i - k] = t[j - k]
    BY <1>3, <1>5
  <2>2. i = j \/ i - k = j - k
    BY <1>5, <2>1 DEF Once
  <2> QED BY <1>2, <2>2
<1> QED BY <1>4, <1>5 DEF Once

\* What a leg spells are the streets that can be reached from it.
LEMMA StreetsFromIs ==
    ASSUME JobTypes, NEW G, NEW S, Spells(legs, G, S), NEW p \in G \cup {NoLeg}
    PROVE  \A x \in Range(S[p]) : x \in StreetsFrom(p) \/ x = Arrival
<1> PICK F : F = Following({p})
  OBVIOUS
<1>1. /\ F \subseteq LegIds /\ (p \in LegIds => p \in F)
      /\ \A k \in F : legs[k].next \in LegIds => legs[k].next \in F
  <2>1. {p} \cap LegIds \subseteq F
        /\ \A k \in F : legs[k].next \in LegIds => legs[k].next \in F
    BY FollowingHolds
  <2>2. F \subseteq LegIds
    BY DEF Following
  <2> QED BY <2>1, <2>2
<1>2. \A k \in F : Range(legs[k].way) \subseteq StreetsFrom(p)
  BY DEF StreetsFrom
<1>3. \A x \in Range(S[NoLeg]) : x = Arrival
  <2>1. S[NoLeg] = <<Arrival>>
    BY DEF Spells
  <2>2. DOMAIN <<Arrival>> = {1} /\ <<Arrival>>[1] = Arrival
    OBVIOUS
  <2> QED BY <2>1, <2>2 DEF Range
<1> DEFINE Good(k) == \A x \in Range(S[k]) : x \in StreetsFrom(p) \/ x = Arrival
<1>4. Good(NoLeg)
  BY <1>3
<1> HIDE DEF Good
<1>5. ASSUME NEW k \in F, k \in G
      PROVE  /\ Len(S[k]) \in Nat
             /\ legs[k].next \in (F \cap G) \cup {NoLeg}
             /\ Len(S[legs[k].next]) < Len(S[k])
             /\ Good(legs[k].next) => Good(k)
  <2> PICK nx, w, s, t : nx = legs[k].next /\ w = legs[k].way /\ s = S[k] /\ t = S[nx]
    OBVIOUS
  <2>1. /\ nx \in G \cup {NoLeg} /\ s = w \o t /\ w # <<>>
        /\ s \in Seq(Items) /\ t \in Seq(Items) /\ G \in SUBSET LegIds
    BY <1>5 DEF Spells
  <2>2. w \in Seq(Items)
    <3>1. k \in LegIds
      BY <1>1
    <3>2. legs[k].way \in Seq(Items)
      BY <3>1, WayIs DEF Items
    <3> QED BY <3>2
  <2>3. nx \in (F \cap G) \cup {NoLeg}
    BY <1>1, <2>1
  <2>4. Len(w) \in Nat /\ Len(w) >= 1 /\ Len(t) \in Nat /\ Len(s) = Len(w) + Len(t)
    <3>1. Len(w) \in Nat /\ Len(w) >= 1 /\ Len(t) \in Nat
      BY <2>1, <2>2, LenProperties, EmptySeq
    <3> QED BY <2>1, <2>2, <3>1, JoinIs
  <2>5. \A x \in Range(s) : x \in Range(w) \/ x \in Range(t)
    BY <2>1, <2>2, JoinOnce
  <2>6. Good(nx) => Good(k)
    BY <1>2, <2>5 DEF Good
  <2>7. Len(s) \in Nat /\ Len(t) < Len(s)
    <3>1. \A a, b \in Nat : a >= 1 => a + b \in Nat /\ b < a + b
      OBVIOUS
    <3> QED BY <2>4, <3>1, Zenon
  <2> QED BY <2>3, <2>6, <2>7, Zenon
<1> PICK Bad : Bad = {k \in F \cap G : ~Good(k)}
  OBVIOUS
<1>6. Bad = {}
  <2> SUFFICES ASSUME Bad # {} PROVE FALSE
    OBVIOUS
  <2> PICK T : T = {Len(S[k]) : k \in Bad}
    OBVIOUS
  <2>1. T # {} /\ T \subseteq Nat
    <3>1. \A k \in Bad : Len(S[k]) \in Nat
      BY <1>5
    <3>2. T # {}
      OBVIOUS
    <3> QED BY <3>1, <3>2
  <2> PICK m \in T : \A i \in T : m <= i
    BY <2>1, LeastIs
  <2> PICK k \in Bad : m = Len(S[k])
    OBVIOUS
  <2>2. /\ k \in F /\ k \in G /\ ~Good(k) /\ Len(S[k]) \in Nat
        /\ legs[k].next \in (F \cap G) \cup {NoLeg}
        /\ Len(S[legs[k].next]) < Len(S[k])
        /\ Good(legs[k].next) => Good(k)
    BY <1>5
  <2>3. legs[k].next \in Bad
    BY <1>4, <2>2
  <2>4. Len(S[k]) <= Len(S[legs[k].next]) /\ Len(S[legs[k].next]) \in Nat
    BY <2>1, <2>3
  <2> QED BY <2>2, <2>4
<1>7. Good(p)
  <2>1. p \in F \cap G \/ p = NoLeg
    BY <1>1 DEF Spells
  <2> QED BY <1>4, <1>6, <2>1
<1> QED BY <1>7 DEF Good

\* The leg l has the streets of way, and nx comes after it.
Finds(l, way, nx) ==
    LET o == Last(stack).oldpath
    IN  /\ nx = IF link_path THEN o
                ELSE IF o = NoLeg THEN NoLeg ELSE legs[o].next
        /\ Joins(way, nx)
        /\ path2' = l /\ legs'[l].way = way /\ legs'[l].next = nx
        /\ \A k \in LegIds : k # l =>
              legs'[k] = (IF link_path THEN legs ELSE Destroyed({o}))[k]
        /\ \/ link_path' /\ stack' = Append(Caller, UpdateDoneCall(TRUE))
           \/ /\ ~link_path'
              /\ \E status \in PathDone :
                    /\ Set(status, Caller)
                    /\ status # "path_done_new" =>
                          /\ way \in Ways /\ ~link_path /\ o # NoLeg
                          /\ Range(way) \subseteq Range(legs[o].way)

LEMMA FindsIs ==
    ASSUME JobInv, PathFound
    PROVE  \E l \in UnusedLegs, way \in Ways \cup WaysBetween :
              \E nx : Finds(l, way, nx)
<1> PICK l : l = CHOOSE unused \in UnusedLegs : TRUE
  OBVIOUS
<1>1. l \in UnusedLegs /\ l \in LegIds
  BY DEF PathFound, UnusedLegs
<1> PICK o : o = Last(stack).oldpath
  OBVIOUS
<1> PICK nx : nx = IF link_path THEN o
                   ELSE IF o = NoLeg THEN NoLeg ELSE legs[o].next
  OBVIOUS
<1> PICK ls : ls = IF link_path THEN legs ELSE Destroyed({o})
  OBVIOUS
<1> DEFINE leg(way) == [way |-> way, live |-> TRUE, in_use |-> 1,
                        update_required |-> 0, next |-> nx]
           status(way) == IF ~Last(stack).new_graph /\ UpdatedFrom(way, o)
                          THEN "path_done_incremental" ELSE "path_done_new"
<1>2. PICK way \in Ways \cup WaysBetween :
         /\ way \in IF current_dst > 1 THEN WaysBetween ELSE Ways
         /\ Joins(way, nx)
         /\ legs' = [ls EXCEPT ![l] = leg(way)] /\ path2' = l
         /\ \/ /\ link_path' = TRUE
               /\ stack' = Append(Caller, UpdateDoneCall(TRUE))
            \/ /\ current_dst <= 1 /\ link_path' = FALSE
               /\ Set(status(way), Caller)
  <2>1. \E way \in IF current_dst > 1 THEN WaysBetween ELSE Ways :
           /\ Joins(way, nx)
           /\ legs' = [ls EXCEPT ![l] = leg(way)] /\ path2' = l
           /\ \/ /\ link_path' = TRUE
                 /\ stack' = Append(Caller, UpdateDoneCall(TRUE))
              \/ /\ current_dst <= 1 /\ link_path' = FALSE
                 /\ Set(status(way), Caller)
    BY DEF PathFound
  <2> QED BY <2>1
<1>3. /\ status(way) \in PathDone
      /\ status(way) # "path_done_new" =>
            /\ ~link_path /\ o # NoLeg /\ Range(way) \subseteq Range(legs[o].way)
  BY DEF PathDone, UpdatedFrom
<1> HIDE DEF status
<1>4. leg(way).way = way /\ leg(way).next = nx
  OBVIOUS
<1> HIDE DEF leg
<1>5. ls \in [LegIds -> Legs]
  <2>1. legs \in [LegIds -> Legs]
    BY DEF JobInv, JobTypes
  <2>2. Destroyed({o}) \in [LegIds -> Legs]
    BY <2>1, DestroyedIs DEF Milder
  <2> QED BY <2>1, <2>2
<1>6. legs'[l] = leg(way) /\ \A k \in LegIds : k # l => legs'[k] = ls[k]
  BY <1>1, <1>2, <1>5
<1>7. current_dst <= 1 => way \in Ways
  <2>1. current_dst \in Int
    BY DEF JobInv, JobTypes
  <2> QED BY <1>2, <2>1
<1>8. \/ link_path' /\ stack' = Append(Caller, UpdateDoneCall(TRUE))
      \/ /\ ~link_path'
         /\ \E st \in PathDone :
               /\ Set(st, Caller)
               /\ st # "path_done_new" =>
                     /\ way \in Ways /\ ~link_path /\ o # NoLeg
                     /\ Range(way) \subseteq Range(legs[o].way)
  BY <1>2, <1>3, <1>7
<1>9. Finds(l, way, nx)
  BY <1>2, <1>4, <1>6, <1>8 DEF Finds
<1> QED BY <1>1, <1>9

\* The new leg spells a path that goes over each street once.
LEMMA FoundSpells ==
    ASSUME JobInv, PathInv, Running("path_new"), UpdateDefined,
           NEW l \in UnusedLegs, NEW way \in Ways \cup WaysBetween, NEW nx,
           Finds(l, way, nx), Last(stack).oldpath = path2,
           NEW G, NEW S, Spells(legs, G, S), path2 \in LegIds => path2 \in G
    PROVE  /\ nx \in G \cup {NoLeg} /\ l \in LegIds
           /\ way \in Seq(Items) /\ way # <<>> /\ S[nx] \in Seq(Items)
           /\ \E H, R : Spells(legs', H, R) /\ l \in H /\ R[l] = way \o S[nx]
<1> PICK n : n = Len(stack)
  OBVIOUS
<1> PICK o : o = path2
  OBVIOUS
<1> PICK ls : ls = IF link_path THEN legs ELSE Destroyed({o})
  OBVIOUS
<1>1. /\ n \in DOMAIN stack /\ Update(n) /\ ~Lost(n) /\ stack[n].oldpath = o
      /\ o \in LegIds \cup {NoLeg} /\ (link_path => o \in LegIds)
  BY TopUpdate DEF Update
<1>2. JobTypes /\ legs \in [LegIds -> Legs] /\ NoLeg \notin LegIds
  BY NavigationAssumption DEF JobInv, JobTypes
<1>3. PICK C : Leads(legs, Readers, o, C)
  <2>1. CASE o = NoLeg
    <3>1. Leads(legs, Readers, NoLeg, {})
      BY DEF Leads
    <3> QED BY <2>1, <3>1
  <2>2. CASE o \in LegIds
    <3>1. Live(n)
      BY <1>1, <2>2 DEF Live
    <3> QED BY <1>1, <3>1 DEF PathInv
  <2> QED BY <1>1, <2>1, <2>2
<1>4. PICK D : Leads(legs, Readers, o, D) /\ l \notin D /\ l \in LegIds
  BY <1>1, <1>3, UnusedApart
<1>5. /\ D \in SUBSET LegIds /\ o \in D \cup {NoLeg}
      /\ \A k \in D : /\ legs[k].next \in D \cup {NoLeg}
                      /\ legs[k].next \in LegIds => legs[k].next # o
  BY <1>4 DEF Leads
<1>6. /\ G \in SUBSET LegIds
      /\ \A k \in G : legs[k].next \in G \cup {NoLeg}
      /\ S \in [LegIds \cup {NoLeg} -> Seq(Items)]
  BY DEF Spells
<1>7. /\ nx = IF link_path THEN o ELSE IF o = NoLeg THEN NoLeg ELSE legs[o].next
      /\ Joins(way, nx)
      /\ path2' = l /\ legs'[l].way = way /\ legs'[l].next = nx
      /\ \A k \in LegIds : k # l => legs'[k] = ls[k]
  BY DEF Finds
<1> PICK T : T = IF link_path THEN D \cap G ELSE (D \cap G) \ {o}
  OBVIOUS
<1>8. T \subseteq D /\ T \subseteq G /\ T \in SUBSET LegIds /\ l \notin T
  BY <1>4, <1>5, <1>6
<1>9. nx \in T \cup {NoLeg}
  <2>1. CASE link_path
    BY <1>1, <1>2, <1>5, <1>7, <2>1
  <2>2. CASE ~link_path /\ o = NoLeg
    BY <1>7, <2>2
  <2>3. CASE ~link_path /\ o # NoLeg
    <3>1. o \in D /\ o \in G /\ nx = legs[o].next
      BY <1>1, <1>5, <1>7, <2>3
    <3>2. nx \in D \cup {NoLeg} /\ nx \in G \cup {NoLeg} /\ (nx \in LegIds => nx # o)
      BY <1>5, <1>6, <3>1
    <3> QED BY <1>5, <2>3, <3>2
  <2> QED BY <2>1, <2>2, <2>3
<1>10. ASSUME NEW k \in T
       PROVE  /\ ls[k].way = legs[k].way /\ ls[k].next = legs[k].next
              /\ legs[k].next \in T \cup {NoLeg}
  <2>1. k \in D /\ k \in G /\ k \in LegIds
    BY <1>8
  <2>2. /\ legs[k].next \in D \cup {NoLeg} /\ legs[k].next \in G \cup {NoLeg}
        /\ legs[k].next \in LegIds => legs[k].next # o
    BY <1>5, <1>6, <2>1
  <2>3. legs[k].next \in T \cup {NoLeg}
    BY <1>5, <2>2
  <2>4. CASE link_path
    BY <2>3, <2>4
  <2>5. CASE ~link_path
    <3>1. PICK x \in {o, Closed} : Shed(legs, ls, x)
      BY <1>2, <2>5, DestroyedShed
    <3>3. k # o
      BY <2>5
    <3>4. legs[k].next \in LegIds \cup {NoLeg} /\ (legs[k].next \in LegIds => legs[k].next # o)
      BY <1>8, <2>2, <2>3
    <3>5. x \in LegIds \cup {Closed} /\ Closed \notin LegIds \cup {NoLeg}
      BY <3>1, NavigationAssumption DEF Shed
    <3>2. k # x /\ legs[k].next # x
      BY <1>2, <2>1, <3>3, <3>4, <3>5
    <3> QED BY <2>1, <2>3, <3>1, <3>2 DEF Shed
  <2> QED BY <2>4, <2>5
<1>11. /\ way \in Seq(Streets) /\ way \in Seq(Items) /\ way # <<>> /\ Once(way)
  BY NavigationAssumption DEF Items, Once
<1>12. nx \in G \cup {NoLeg} /\ S[nx] \in Seq(Items) /\ Once(S[nx])
  <2>1. nx \in G \cup {NoLeg} /\ S[nx] \in Seq(Items)
    BY <1>6, <1>8, <1>9
  <2>2. Once(<<Arrival>>)
    BY DEF Once
  <2> QED BY <2>1, <2>2 DEF Spells
<1> PICK r : r = way \o S[nx]
  OBVIOUS
<1>13. r \in Seq(Items) /\ Once(r)
  <2>1. r \in Seq(Items)
    BY <1>11, <1>12, ConcatProperties
  <2>2. Range(way) \cap Range(S[nx]) = {}
    <3>1. \A x \in Range(S[nx]) : x \in StreetsFrom(nx) \/ x = Arrival
      BY <1>2, <1>12, StreetsFromIs
    <3>2. Range(way) \cap StreetsFrom(nx) = {}
      BY <1>7 DEF Joins
    <3>3. Arrival \notin Range(way)
      <4>1. \A i \in DOMAIN way : way[i] \in Streets
        BY <1>11
      <4> QED BY <4>1, NavigationAssumption DEF Range
    <3> QED BY <3>1, <3>2, <3>3
  <2> QED BY <1>11, <1>12, <2>1, <2>2, JoinOnce
<1> PICK H, R : H = T \cup {l} /\ R = [S EXCEPT ![l] = r]
  OBVIOUS
<1>14. /\ R \in [LegIds \cup {NoLeg} -> Seq(Items)] /\ R[l] = r
       /\ \A k \in T \cup {NoLeg} : R[k] = S[k]
  BY <1>2, <1>4, <1>6, <1>8, <1>13
<1>15. Spells(legs', H, R)
  <2>1. H \in SUBSET LegIds /\ R[NoLeg] = <<Arrival>>
    BY <1>4, <1>8, <1>14 DEF Spells
  <2>2. ASSUME NEW k \in H
        PROVE  /\ legs'[k].way # <<>> /\ legs'[k].next \in H \cup {NoLeg}
               /\ R[k] = legs'[k].way \o R[legs'[k].next]
               /\ Once(R[k])
    <3>1. CASE k = l
      <4>1. legs'[k].way = way /\ legs'[k].next = nx /\ way # <<>>
        BY <1>7, <1>11, <3>1
      <4>2. nx \in H \cup {NoLeg} /\ R[nx] = S[nx]
        BY <1>9, <1>14
      <4>3. R[k] = way \o S[nx] /\ Once(R[k])
        BY <1>13, <1>14, <3>1
      <4> QED BY <4>1, <4>2, <4>3
    <3>2. CASE k \in T
      <4>1. legs'[k].way = legs[k].way /\ legs'[k].next = legs[k].next
            /\ legs[k].next \in T \cup {NoLeg} /\ k \in G
        BY <1>7, <1>8, <1>10, <3>2
      <4>2. /\ legs[k].way # <<>> /\ S[k] = legs[k].way \o S[legs[k].next]
            /\ Once(S[k])
        BY <4>1 DEF Spells
      <4> QED BY <1>14, <3>2, <4>1, <4>2
    <3> QED BY <3>1, <3>2
  <2> QED BY <1>14, <2>1, <2>2 DEF Spells
<1>16. l \in H /\ R[l] = way \o S[nx]
  BY <1>14
<1>17. \E U, Z : Spells(legs', U, Z) /\ l \in U /\ Z[l] = way \o S[nx]
  BY <1>15, <1>16
<1> QED BY <1>4, <1>11, <1>12, <1>17

\* The new path ends as the old one does when it has only been driven on.
LEMMA UpdatedEnds ==
    ASSUME JobTypes, NEW o \in LegIds, NEW way \in Ways,
           Range(way) \subseteq Range(legs[o].way), legs[o].way # <<>>,
           NEW t \in Seq(Items)
    PROVE  Ends(way \o t, legs[o].way \o t)
<1>1. legs[o].way \in Ways \cup WaysBetween /\ legs[o].way \in Seq(Items)
  <2>1. legs[o] \in Legs
    BY DEF JobTypes
  <2>2. legs[o].way \in Seq(Streets)
    BY WayIs
  <2> QED BY <2>1, <2>2 DEF Legs, Items
<1>2. way \in Seq(Items)
  BY NavigationAssumption DEF Items
<1>3. IsSuffix(way, legs[o].way)
  BY <1>1, NavigationAssumption
<1> QED BY <1>1, <1>2, <1>3, SuffixEnds, EndsJoin

\* A new path begins the list anew; one that was driven on is an end of the
\* list, as the one before was.
LEMMA PathFoundList ==
    ASSUME ListInv, SideInv, PathInv, JobInv, PathFound
    PROVE  ListInv'
<1>1. /\ Running("path_new") /\ UpdateDefined /\ UNCHANGED <<jobVars, itms>>
      /\ overtaken' = (overtaken \/ Last(stack).oldpath # path2)
  BY DEF PathFound, listVars
<1> SUFFICES ASSUME ~overtaken'
             PROVE  \E H, R : /\ Spells(legs', H, R) /\ (path2' \in LegIds => path2' \in H)
                             /\ ListSays(R)' /\ JobSays(H, R)'
  BY DEF ListInv
<1>2. ~overtaken /\ Last(stack).oldpath = path2
  BY <1>1
<1>3. /\ stack # <<>> /\ Update(Len(stack)) /\ ~Ending /\ ~FlushDue
      /\ stack[Len(stack)].oldpath = path2 /\ path2 \in LegIds \cup {NoLeg}
  BY <1>1, <1>2, TopUpdate DEF FlushDue, Running
<1>4. JobTypes /\ BusyInv /\ Caller \in Seq(Frames)
  BY <1>3, TopIs DEF JobInv
<1>5. route_status \notin PathDone /\ ~busy /\ ~busy'
  <2>1. Len(stack) \in DOMAIN stack
    BY <1>3 DEF Update
  <2>2. route_status \notin PathDone
    BY <1>3, <2>1 DEF SideInv, StatusInv
  <2> QED BY <1>1, <1>3, <1>4, <2>2 DEF BusyInv, jobVars
<1> PICK G, S : /\ Spells(legs, G, S) /\ (path2 \in LegIds => path2 \in G)
                /\ ListSays(S) /\ JobSays(G, S)
  BY <1>2 DEF ListInv
<1>5a. PICK l \in UnusedLegs, way \in Ways \cup WaysBetween :
          \E nx : Finds(l, way, nx)
  BY FindsIs
<1>6. PICK nx : Finds(l, way, nx)
  BY <1>5a
<1>7. PICK H, R :
        /\ nx \in G \cup {NoLeg} /\ l \in LegIds
        /\ way \in Seq(Items) /\ way # <<>> /\ S[nx] \in Seq(Items)
        /\ Spells(legs', H, R) /\ l \in H /\ R[l] = way \o S[nx]
  <2>1. /\ nx \in G \cup {NoLeg} /\ l \in LegIds
        /\ way \in Seq(Items) /\ way # <<>> /\ S[nx] \in Seq(Items)
        /\ \E H, R : Spells(legs', H, R) /\ l \in H /\ R[l] = way \o S[nx]
    BY <1>1, <1>2, <1>6, FoundSpells
  <2> QED BY <2>1
<1>8. path2' = l
  BY <1>6 DEF Finds
<1>9. JobSays(H, R)'
  BY <1>5 DEF JobSays, Working
<1>10. CASE link_path' /\ stack' = Append(Caller, UpdateDoneCall(TRUE))
  <2>1. stack' # <<>> /\ Last(stack') = UpdateDoneCall(TRUE)
    <3>1. UpdateDoneCall(TRUE) \in Frames
      BY FramesAre DEF UpdateDoneCall
    <3> QED BY <1>4, <1>10, <3>1, PushIs
  <2>2. Running("update_done")'
    BY <2>1 DEF Running, UpdateDoneCall
  <2>3. ListSays(R)'
    BY <1>1, <1>10, <2>2 DEF ListSays, Settled
  <2> QED BY <1>7, <1>8, <1>9, <2>3
<1>11. CASE ~link_path' /\ \E status \in PathDone :
               /\ Set(status, Caller)
               /\ status # "path_done_new" =>
                     /\ way \in Ways /\ ~link_path /\ path2 # NoLeg
                     /\ Range(way) \subseteq Range(legs[path2].way)
  <2> PICK status \in PathDone :
               /\ Set(status, Caller)
               /\ status # "path_done_new" =>
                     /\ way \in Ways /\ ~link_path /\ path2 # NoLeg
                     /\ Range(way) \subseteq Range(legs[path2].way)
    BY <1>11
  <2> PICK f \in Frames : f = [call |-> "navigation_update", status |-> status]
    BY FramesAre DEF PathDone, RouteStatus
  <2>1. stack' = Append(Caller, f)
    BY <1>5 DEF Set
  <2>2. stack' # <<>> /\ Last(stack') = f
    BY <1>4, <2>1, PushIs
  <2>3. Opening' /\ (status = "path_done_new" => FlushDue')
    BY <2>2 DEF Opening, FlushDue, Running, Flushing
  <2>4. ASSUME Whole(itms), status # "path_done_new" PROVE Ends(R[l], itms)
    <3>1. /\ path2 \in LegIds /\ path2 \in G /\ ~link_path /\ way \in Ways
          /\ Range(way) \subseteq Range(legs[path2].way)
      BY <1>3, <2>4
    <3>2. Ends(S[path2], itms)
      BY <1>3, <2>4, <3>1 DEF ListSays
    <3>3. nx = legs[path2].next
      BY <1>2, <1>6, <3>1, <2>4 DEF Finds
    <3>4. legs[path2].way # <<>> /\ S[path2] = legs[path2].way \o S[nx]
      BY <3>1, <3>3 DEF Spells
    <3>5. Ends(R[l], S[path2])
      BY <1>4, <1>7, <3>1, <3>4, UpdatedEnds
    <3>6. R[l] \in Seq(Items)
      BY <1>7 DEF Spells
    <3> QED BY <3>2, <3>5, <3>6, EndsTwice
  <2>5. ListSays(R)'
    <3>1. itms' = itms
      BY <1>1
    <3>2. Whole(itms) => Once(itms)
      BY DEF ListSays
    <3> QED BY <1>8, <2>3, <2>4, <3>1, <3>2 DEF ListSays
  <2> QED BY <1>7, <1>8, <1>9, <2>5
<1>12. \/ link_path' /\ stack' = Append(Caller, UpdateDoneCall(TRUE))
       \/ ~link_path' /\ \E status \in PathDone :
               /\ Set(status, Caller)
               /\ status # "path_done_new" =>
                     /\ way \in Ways /\ ~link_path /\ path2 # NoLeg
                     /\ Range(way) \subseteq Range(legs[path2].way)
  BY <1>2, <1>6 DEF Finds
<1> QED BY <1>10, <1>11, <1>12

LEMMA ListStart == Init => ListInv
<1> SUFFICES ASSUME Init PROVE ListInv
  OBVIOUS
<1>1. itms = <<>> /\ path2 = NoLeg /\ busy = FALSE /\ NoLeg \notin LegIds
  BY NavigationAssumption DEF Init
<1> PICK S : S = [l \in LegIds \cup {NoLeg} |-> <<Arrival>>]
  OBVIOUS
<1>2. Spells(legs, {}, S)
  BY DEF Spells, Items
<1>3. ListSays(S) /\ JobSays({}, S)
  BY <1>1 DEF ListSays, JobSays, Working, Whole
<1> QED BY <1>1, <1>2, <1>3 DEF ListInv

LEMMA ListStep ==
    ASSUME ListInv, SideInv, PathInv, RestInv, JobInv, [Next]_vars
    PROVE  ListInv'
<1>1. JobInv'
  BY JobStep
<1>2. CASE UNCHANGED vars
  <2>1. UNCHANGED <<stack, legs, path2, link_path, route_status, busy, has_sitem,
                    route_mr, itms, overtaken>>
    BY <1>2 DEF vars, routeVars, jobVars, listVars
  <2>2. UNCHANGED <<Opening, Ending, FlushDue, Settled, ReadSoFar>>
    BY <2>1 DEF Opening, Ending, FlushDue, Settled, UpdateDue, Running, ReadSoFar
  <2>3. ASSUME NEW S, ListSays(S) PROVE ListSays(S)'
    BY <2>1, <2>2, <2>3 DEF ListSays
  <2>4. ASSUME NEW G, NEW S, JobSays(G, S) PROVE JobSays(G, S)'
    <3>1. Working' = Working /\ ReadWay' = ReadWay
      BY <2>1, <2>2 DEF Working, ReadWay
    <3>2. Rest(S)' = Rest(S) /\ Found(ReadWay[1])' = Found(ReadWay[1])
          /\ From(ReadWay[1])' = From(ReadWay[1])
      BY <2>1, <3>1 DEF Rest, Found, From
    <3>4. Goes(S, ReadSoFar \o Rest(S))' = Goes(S, ReadSoFar \o Rest(S))
          /\ Goes(S, From(ReadWay[1]))' = Goes(S, From(ReadWay[1]))
      BY <2>1, <2>2, <3>2 DEF Goes
    <3> QED BY <2>1, <2>2, <2>4, <3>1, <3>2, <3>4 DEF JobSays
  <2> QED BY <2>1, <2>3, <2>4 DEF ListInv
<1>3. CASE RouteEvent
  BY <1>1, <1>3, RouteEventIs, EventList
<1> QED BY <1>1, <1>2, <1>3, UpdateDoneList, PathFoundList, PathNotFoundList,
           NavigationUpdateList, NavigationOpenList, NavigationReadList, NavigationIdleList,
           RemoveWaypointList, DrawList
        DEF Next, RouteCall, NavigationCall, RouteEvent

-----------------------------------------------------------------------------
(* What the properties say *)

\* g[m] has the streets of each leg and of the next m - 1, up to m = n.
Spelled(g, n) ==
    g = [m \in 0 .. n |->
           [l \in LegIds \cup {NoLeg, FreedLeg} |->
              IF l \notin LegIds \/ m = 0 THEN <<Arrival>>
              ELSE legs[l].way \o g[m - 1][legs[l].next]]]

LEMMA ItineraryIs ==
    Itinerary = (CHOOSE g : Spelled(g, Cardinality(LegIds)))[Cardinality(LegIds)][path2]
BY DEF Itinerary, Spelled

LEMMA SpelledIs ==
    ASSUME NEW n \in Nat, NEW g, Spelled(g, n), NEW m \in 0 .. n,
           NEW l \in LegIds \cup {NoLeg, FreedLeg}
    PROVE  g[m][l] = IF l \notin LegIds \/ m = 0 THEN <<Arrival>>
                     ELSE legs[l].way \o g[m - 1][legs[l].next]
<1> DEFINE entry(k, p) == IF p \notin LegIds \/ k = 0 THEN <<Arrival>>
                          ELSE legs[p].way \o g[k - 1][legs[p].next]
           row(k) == [p \in LegIds \cup {NoLeg, FreedLeg} |-> entry(k, p)]
<1>1. g = [k \in 0 .. n |-> row(k)]
  BY Zenon DEF Spelled
<1>2. row(m)[l] = entry(m, l)
  <2> HIDE DEF entry
  <2> QED OBVIOUS
<1>3. g[m] = row(m)
  <2> HIDE DEF row
  <2> QED BY <1>1
<1> QED BY <1>2, <1>3, Zenon

LEMMA SpelledExists ==
    ASSUME NEW N \in Nat
    PROVE  \E g : Spelled(g, N)
<1> DEFINE Bad == {n \in Nat : ~\E g : Spelled(g, n)}
<1> SUFFICES ASSUME Bad # {} PROVE FALSE
  OBVIOUS
<1>1. PICK n \in Bad : \A m \in Bad : n <= m
  <2>1. Bad \subseteq Nat
    OBVIOUS
  <2> HIDE DEF Bad
  <2> QED BY <2>1, LeastIs
<1>2. CASE n = 0
  <2> DEFINE h == [m \in 0 .. 0 |-> [l \in LegIds \cup {NoLeg, FreedLeg} |-> <<Arrival>>]]
             row(m) == [l \in LegIds \cup {NoLeg, FreedLeg} |->
                          IF l \notin LegIds \/ m = 0 THEN <<Arrival>>
                          ELSE legs[l].way \o h[m - 1][legs[l].next]]
  <2>1. h = [m \in 0 .. 0 |-> row(m)]
    <3>1. \A m \in 0 .. 0 : m = 0
      OBVIOUS
    <3>2. \A m : m = 0 => row(m) = [l \in LegIds \cup {NoLeg, FreedLeg} |-> <<Arrival>>]
      OBVIOUS
    <3> HIDE DEF row
    <3> QED BY <3>1, <3>2
  <2>2. Spelled(h, 0)
    BY <2>1, Zenon DEF Spelled
  <2> QED BY <1>1, <1>2, <2>2
<1>3. CASE n # 0
  <2>1. n \in Nat /\ n - 1 \in Nat /\ ~(n <= n - 1)
    BY <1>3
  <2>2. PICK g : Spelled(g, n - 1)
    BY <1>1, <2>1
  <2> DEFINE row(f) == [l \in LegIds \cup {NoLeg, FreedLeg} |->
                          IF l \notin LegIds THEN <<Arrival>>
                          ELSE legs[l].way \o f[legs[l].next]]
             row0 == [l \in LegIds \cup {NoLeg, FreedLeg} |-> <<Arrival>>]
             line(f, m) == IF m = 0 THEN row0 ELSE row(f[m - 1])
  <2>3. \A f, k : Spelled(f, k) <=> f = [m \in 0 .. k |-> line(f, m)]
    <3>1. \A f, m : line(f, m) = [l \in LegIds \cup {NoLeg, FreedLeg} |->
                                    IF l \notin LegIds \/ m = 0 THEN <<Arrival>>
                                    ELSE legs[l].way \o f[m - 1][legs[l].next]]
      OBVIOUS
    <3> HIDE DEF line
    <3> QED BY <3>1, Zenon DEF Spelled
  <2> HIDE DEF row, row0
  <2>4. PICK h : h = [m \in 0 .. n |-> IF m = n THEN row(g[n - 1]) ELSE g[m]]
    OBVIOUS
  <2>5. ASSUME NEW m \in 0 .. n PROVE h[m] = line(h, m)
    <3>1. m # 0 => h[m - 1] = g[m - 1]
      BY <2>1, <2>4
    <3>2. CASE m = n
      BY <1>3, <2>4, <3>1, <3>2
    <3>3. CASE m # n
      <4>1. m \in 0 .. (n - 1)
        BY <2>1, <3>3
      <4>2. g = [i \in 0 .. (n - 1) |-> line(g, i)]
        BY <2>2, <2>3
      <4>3. g[m] = line(g, m)
        BY <4>1, <4>2
      <4> QED BY <2>4, <3>1, <3>3, <4>3
    <3> QED BY <3>2, <3>3
  <2>6. h = [m \in 0 .. n |-> h[m]]
    BY <2>4
  <2> HIDE DEF line
  <2>7. h = [m \in 0 .. n |-> line(h, m)]
    BY <2>5, <2>6
  <2> QED BY <1>1, <2>3, <2>7
<1> QED BY <1>2, <1>3

\* What a leg spells is found in as many steps as there are legs that spell no
\* more.
LEMMA SpelledSays ==
    ASSUME IsFiniteSet(LegIds), NEW N \in Nat, NEW g, Spelled(g, N),
           NEW G, NEW S, Spells(legs, G, S), JobTypes,
           NoLeg \notin LegIds
    PROVE  \A n \in 0 .. N, l \in G :
              Cardinality({k \in G : Len(S[k]) <= Len(S[l])}) <= n => g[n][l] = S[l]
<1> DEFINE short(l) == {k \in G : Len(S[k]) <= Len(S[l])}
           Bad == {n \in 0 .. N : \E l \in G : Cardinality(short(l)) <= n /\ g[n][l] # S[l]}
<1> SUFFICES ASSUME Bad # {} PROVE FALSE
  OBVIOUS
<1>1. PICK n \in Bad : \A m \in Bad : n <= m
  <2>1. Bad \subseteq Nat
    OBVIOUS
  <2> HIDE DEF Bad
  <2> QED BY <2>1, LeastIs
<1>2. n \in 0 .. N
  BY <1>1
<1>3. PICK l \in G : Cardinality(short(l)) <= n /\ g[n][l] # S[l]
  BY <1>1
<1>4. \A m \in 0 .. N : m < n => m \notin Bad
  <2>1. \A m \in 0 .. N : m < n => ~(n <= m)
    BY <1>2
  <2> HIDE DEF Bad
  <2> QED BY <1>1, <2>1
<1>5. /\ G \in SUBSET LegIds /\ l \in LegIds /\ S[NoLeg] = <<Arrival>>
      /\ \A k \in G : S[k] \in Seq(Items) /\ Len(S[k]) \in Nat
  BY DEF Spells
<1>6. \A k \in G : IsFiniteSet(short(k)) /\ Cardinality(short(k)) \in Nat
  <2>1. IsFiniteSet(G)
    BY <1>5, FS_Subset
  <2>2. TAKE k \in G
  <2>3. short(k) \subseteq G
    OBVIOUS
  <2> QED BY <2>1, <2>3, FS_Subset, FS_CardinalityType
<1>7. l \in short(l)
  BY <1>5
<1>8. Cardinality(short(l) \ {l}) = Cardinality(short(l)) - 1
  BY <1>6, <1>7, FS_RemoveElement
<1>9. /\ IsFiniteSet(short(l) \ {l}) /\ Cardinality(short(l) \ {l}) \in Nat
  BY <1>6, FS_RemoveElement, FS_CardinalityType
<1>14. \A k \in G : Cardinality(short(k)) <= n - 1 /\ n - 1 \in 0 .. N => g[n - 1][k] = S[k]
  <2>1. TAKE k \in G
  <2>2. HAVE Cardinality(short(k)) <= n - 1 /\ n - 1 \in 0 .. N
  <2>3. n - 1 < n
    BY <1>2
  <2>4. n - 1 \notin Bad
    BY <1>4, <2>2, <2>3
  <2>5. n - 1 \in Bad <=> /\ n - 1 \in 0 .. N
                          /\ \E i \in G : Cardinality(short(i)) <= n - 1 /\ g[n - 1][i] # S[i]
    OBVIOUS
  <2> HIDE DEF Bad, short
  <2> QED BY <2>2, <2>4, <2>5
<1>15. \A k : short(k) = {i \in G : Len(S[i]) <= Len(S[k])}
  OBVIOUS
<1> HIDE DEF short, Bad
<1>16. PICK c, d : c = Cardinality(short(l)) /\ d = Cardinality(short(l) \ {l})
  OBVIOUS
<1>17. c \in Nat /\ d \in Nat /\ d = c - 1 /\ c <= n
  BY <1>3, <1>6, <1>8, <1>9, <1>16
<1>10. n # 0 /\ n - 1 \in 0 .. N /\ n - 1 < n /\ d <= n - 1
  BY <1>2, <1>17
<1>18. PICK nx, w : nx = legs[l].next /\ w = legs[l].way
  OBVIOUS
<1>11. /\ nx \in G \cup {NoLeg} /\ S[l] = w \o S[nx] /\ w # <<>> /\ w \in Seq(Items)
  <2>1. nx \in G \cup {NoLeg} /\ S[l] = w \o S[nx] /\ w # <<>>
    BY <1>18 DEF Spells
  <2>2. w \in Seq(Streets)
    BY <1>5, <1>18, WayIs
  <2> QED BY <2>1, <2>2 DEF Items
<1>12. g[n][l] = w \o g[n - 1][nx]
  <2>1. g[n][l] = IF l \notin LegIds \/ n = 0 THEN <<Arrival>>
                  ELSE legs[l].way \o g[n - 1][legs[l].next]
    BY <1>2, <1>5, SpelledIs
  <2> QED BY <1>5, <1>10, <1>18, <2>1
<1>13. g[n - 1][nx] = S[nx]
  <2>1. CASE nx = NoLeg
    BY <1>5, <1>10, <2>1, SpelledIs
  <2>2. CASE nx \in G
    <3>1. Len(S[nx]) \in Nat /\ S[nx] \in Seq(Items)
      BY <1>5, <2>2
    <3>2. Len(S[l]) = Len(w) + Len(S[nx])
      BY <1>11, <3>1, JoinIs
    <3>3. Len(w) \in Nat /\ Len(w) >= 1
      BY <1>11, EmptySeq
    <3>4. short(nx) \subseteq short(l) \ {l}
      <4>1. ASSUME NEW k \in short(nx) PROVE k \in short(l) \ {l}
        <5>1. k \in G /\ Len(S[k]) <= Len(S[nx])
          BY <1>15, <4>1
        <5>2. PICK a, b, e \in Nat : a = Len(S[k]) /\ b = Len(S[nx]) /\ e = Len(w)
          BY <1>5, <3>1, <3>3, <5>1
        <5>3. a <= b /\ Len(S[l]) = e + b /\ e >= 1
          BY <3>2, <3>3, <5>1, <5>2
        <5>4. a <= Len(S[l]) /\ a # Len(S[l])
          BY <5>2, <5>3
        <5> QED BY <1>15, <5>1, <5>2, <5>4
      <4> QED BY <4>1
    <3>5. Cardinality(short(nx)) <= Cardinality(short(l) \ {l})
      BY <1>9, <3>4, FS_Subset
    <3>8. PICK e \in Nat : e = Cardinality(short(nx))
      BY <1>6, <2>2
    <3>6. e <= n - 1
      BY <1>2, <1>10, <1>16, <1>17, <3>5, <3>8
    <3> QED BY <1>10, <1>14, <2>2, <3>6, <3>8
  <2> QED BY <1>11, <2>1, <2>2
<1> QED BY <1>3, <1>11, <1>12, <1>13

\* The list of an order of steps that is settled: it is what the path spells.
LEMMA PathSpelled ==
    ASSUME JobTypes, NEW G, NEW S, Spells(legs, G, S), path2 \in G
    PROVE  Itinerary = S[path2]
<1>1. /\ IsFiniteSet(LegIds) /\ NoLeg \notin LegIds /\ legs \in [LegIds -> Legs]
  BY NavigationAssumption DEF JobTypes
<1>2. PICK N \in Nat : N = Cardinality(LegIds)
  BY <1>1, FS_CardinalityType
<1>3. PICK g : g = CHOOSE h : Spelled(h, N)
  OBVIOUS
<1>4. Spelled(g, N)
  BY <1>3, SpelledExists
<1>5. Itinerary = g[N][path2]
  BY <1>2, <1>3, ItineraryIs
<1> PICK A : A = {k \in G : Len(S[k]) <= Len(S[path2])}
  OBVIOUS
<1>6. A \subseteq LegIds
  BY DEF Spells
<1>7. Cardinality(A) <= N
  BY <1>1, <1>2, <1>6, FS_Subset
<1>8. N \in 0 .. N
  OBVIOUS
<1> QED BY <1>1, <1>4, <1>5, <1>7, <1>8, SpelledSays

Guided == JobInv /\ PathInv /\ RestInv /\ SideInv /\ ListInv

LEMMA GuidedStart == Init => Guided
BY JobInit, PathStart, RestStart, SideStart, ListStart DEF Guided

LEMMA GuidedStep == Guided /\ [Next]_vars => Guided'
BY JobStep, PathStep, RestStep, SideStep, ListStep DEF Guided

\* Whenever the route is settled, a list of maneuvers that leads up to the
\* destination is that of the path, street by street: whether it was read from
\* it, or kept while the position moved along it, destinations were passed, the
\* display list held the path and updates were left to it and made later.
THEOREM GuidanceCorrect == Spec => []GuidanceFollowsRoute
<1>1. Guided => GuidanceFollowsRoute
  <2> SUFFICES ASSUME Guided, stack = <<>>, ~busy, route_status \in PathDone, ~UpdateDue,
                      ~overtaken, Whole(itms)
               PROVE  itms = Itinerary
    BY DEF GuidanceFollowsRoute, AtRest
  <2> PICK G, S : /\ Spells(legs, G, S) /\ (path2 \in LegIds => path2 \in G)
                  /\ ListSays(S)
    BY DEF Guided, ListInv
  <2>1. Settled /\ ~Opening
    BY DEF Settled, Opening, Running
  <2>2. path2 \in LegIds
    BY DEF Guided, SideInv, StatusInv, Running
  <2>3. itms = S[path2]
    BY <2>1 DEF ListSays
  <2>4. Itinerary = S[path2]
    BY <2>2, PathSpelled DEF Guided, JobInv
  <2> QED BY <2>3, <2>4
<1> QED BY <1>1, GuidedStart, GuidedStep, PTL DEF Spec

\* A job that finds its place in the list keeps the end of it, and one that does
\* not find it never meets a list that leads up to the destination.
LEMMA IdleStays ==
    ASSUME Guided, busy, NEW s, UpdateIdle(s), stack = <<>> \/ Running("navigation_read"),
           ~overtaken, Whole(itms)
    PROVE  Whole(itms')
<1>1. JobInv /\ PathInv /\ RestInv /\ SideInv /\ ListInv
  BY DEF Guided
<1> PICK G, S : Spells(legs, G, S) /\ ListSays(S) /\ JobSays(G, S)
  BY <1>1 DEF ListInv
<1>2. CASE ReadNoGraph(s)
  BY <1>2 DEF ReadNoGraph, listVars
<1>3. CASE ReadEnd(s)
  BY <1>1, <1>3, ReadEndSays
<1>4. CASE ReadStreet(s)
  <2>1. Working /\ (~has_sitem => route_mr.at = 1)
    BY <1>1, IdleIs
  <2>2. ~has_sitem
    BY <2>1 DEF JobSays, Whole
  <2>3. NextRead = route_mr /\ route_mr.at = 1
    BY <1>1, <1>4, <2>1, <2>2, StreetIs
  <2>4. Found(legs[NextRead.leg].way[NextRead.at])
    BY <2>1, <2>2, <2>3 DEF JobSays, ReadWay
  <2> QED BY <1>1, <1>4, <2>2, <2>4, FoundSays
<1> QED BY <1>2, <1>3, <1>4 DEF UpdateIdle

\* A list that leads up to the destination is only dropped when navigation_update
\* is told that there is a new path or none.
THEOREM ManeuversCorrect == Spec => ManeuversStay
<1> DEFINE Stay == ~overtaken /\ Whole(itms) /\ ~Whole(itms') =>
                      Running("navigation_update") /\ Last(stack).status \in Flushing
<1>1. Guided /\ [Next]_vars => [Stay]_vars
  <2> SUFFICES ASSUME Guided, Next PROVE Stay
    OBVIOUS
  <2>1. CASE NavigationUpdate
    BY <2>1 DEF NavigationUpdate
  <2>2. CASE NavigationRead
    BY <2>2, IdleStays DEF NavigationRead, listVars
  <2>3. CASE NavigationIdle
    <3>1. busy
      BY <2>3 DEF Guided, JobInv, NavigationIdle, BusyInv
    <3> QED BY <2>3, <3>1, IdleStays DEF NavigationIdle
  <2>4. CASE ~(NavigationUpdate \/ NavigationRead \/ NavigationIdle)
    <3>1. itms' = itms
      BY <2>4 DEF Next, RouteCall, NavigationCall, UpdateDone, PathFound, PathNotFound,
                  UpdateFlags, GraphUpdate, DestinationsSet, Recalculated, NavigationOpen,
                  GraphBuilt, SetDestinations, AppendDestination, RemoveNthWaypoint,
                  RemoveWaypoint, SetPosition, Recalculate, Draw, DrawNextLeg, Drawn, listVars
    <3> QED BY <3>1
  <2> QED BY <2>1, <2>2, <2>3, <2>4
<1> QED BY <1>1, GuidedStart, GuidedStep, PTL DEF Spec, ManeuversStay
=============================================================================
