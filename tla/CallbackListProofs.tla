------------------------ MODULE CallbackListProofs --------------------------
(***************************************************************************)
(* Theorems about CallbackList, for every set of callbacks and types and   *)
(* walks nested to any depth.                                              *)
(***************************************************************************)
EXTENDS CallbackList, SequenceTheorems, TLAPS

-----------------------------------------------------------------------------
(* The walks *)

LEMMA FirstOfType ==
    ASSUME NEW S, S \subseteq Cbs
    PROVE  FirstOf(S) \subseteq Cbs \cup {NoItem} /\ FirstOf(S) \subseteq S \cup {NoItem}
BY DEF FirstOf

LEMMA InnerType ==
    ASSUME walks \in Seq(Walk), Walking
    PROVE  /\ Len(walks) \in Nat \ {0} /\ DOMAIN walks = 1..Len(walks)
           /\ Inner \in Walk
BY EmptySeq DEF Walking, Inner

LEMMA SetInnerType ==
    ASSUME walks \in Seq(Walk), Walking, NEW w \in Walk
    PROVE  /\ SetInner(w) \in Seq(Walk) /\ Len(SetInner(w)) = Len(walks)
           /\ SetInner(w) # <<>>
           /\ \A i \in 1..Len(walks) :
                  SetInner(w)[i] = IF i = Len(walks) THEN w ELSE walks[i]
BY InnerType DEF SetInner

LEMMA OuterType ==
    ASSUME walks \in Seq(Walk), Walking
    PROVE  /\ Outer \in Seq(Walk) /\ Len(Outer) = Len(walks) - 1
           /\ Outer # <<>> => Len(walks) # 1
           /\ \A i \in 1..Len(Outer) : Outer[i] = walks[i]
BY InnerType DEF Outer

LEMMA FreeingType ==
    ASSUME walks \in Seq(Walk), NEW S
    PROVE  /\ Freeing(S) \in Seq(Walk) /\ Len(Freeing(S)) = Len(walks)
           /\ Freeing(S) = <<>> <=> walks = <<>>
<1>1. \A i \in 1..Len(walks) : walks[i] \in Walk
  OBVIOUS
<1>2. \A i \in 1..Len(walks) : Freeing(S)[i] \in Walk
  <2>1. TAKE i \in 1..Len(walks)
  <2>2. walks[i] \in Walk /\ i \in DOMAIN walks
    BY <1>1
  <2>3. [walks[i] EXCEPT !.next = FreedItem] \in Walk
    BY <2>2 DEF Walk
  <2>4. QED
    BY <2>2, <2>3 DEF Freeing
<1>3. DOMAIN Freeing(S) = 1..Len(walks) /\ Len(walks) \in Nat
  BY DEF Freeing
<1>4. Freeing(S) \in Seq(Walk) /\ Len(Freeing(S)) = Len(walks)
  <2>1. Freeing(S) = [i \in 1..Len(walks) |-> Freeing(S)[i]]
    BY <1>3 DEF Freeing
  <2>2. QED
    BY <1>2, <1>3, <2>1, IsASeq, LenProperties
<1>5. QED
  BY <1>4, EmptySeq

-----------------------------------------------------------------------------
(* A list that is walked is not freed *)

\* A list is freed only as a zombie: that is what keeps a new walk, which does
\* not start on a zombie, from starting on a list that is freed.
WalksInv == TypeOK /\ ListOutlivesWalks /\ (freed => zombie)

LEMMA InitWalks == Init => WalksInv
<1>1. Len(<<>>) = 0 /\ <<>> \in Seq(Walk)
  OBVIOUS
<1>2. Init => TypeOK
  <2>1. {} \subseteq Cbs /\ {} \subseteq {} \X {} /\ 0 \in Int
    OBVIOUS
  <2>2. QED
    BY <1>1, <2>1, Zenon DEF Init, TypeOK
<1>3. Init => ListOutlivesWalks /\ ~freed
  BY <1>1 DEF Init, ListOutlivesWalks, Walking
<1>4. QED
  BY <1>2, <1>3 DEF WalksInv

LEMMA AddWalks == ASSUME NEW c \in Cbs, WalksInv, Add(c) PROVE WalksInv'
BY DEF Add, Prepended, WalksInv, TypeOK, ListOutlivesWalks, Walking, Walk

LEMMA RemoveWalks == ASSUME NEW c \in Cbs, WalksInv, Remove(c) PROVE WalksInv'
BY FreeingType DEF Remove, Unlinked, WalksInv, TypeOK, ListOutlivesWalks, Walking, Walk

LEMMA DestroyWalks == ASSUME WalksInv, Destroy PROVE WalksInv'
BY FreeingType, InnerType
   DEF Destroy, KeptWhileWalked, WalksInv, TypeOK, ListOutlivesWalks, Walking

LEMMA CallWalks ==
    ASSUME NEW t \in Types \cup {AnyType}, WalksInv, Call(t)
    PROVE  WalksInv'
<1>1. PICK c \in FirstOf(list) :
          walks' = Append(walks, [type |-> t, running |-> FALSE,
                                  cb |-> NoItem, next |-> c])
  BY DEF Call
<1>2. [type |-> t, running |-> FALSE, cb |-> NoItem, next |-> c] \in Walk
  BY <1>1, FirstOfType DEF WalksInv, TypeOK, Walk
<1>3. walks' \in Seq(Walk) /\ Len(walks') = Len(walks) + 1
  BY <1>1, <1>2, AppendProperties DEF WalksInv, TypeOK
<1>4. QED
  BY <1>3 DEF Call, WalksInv, TypeOK, ListOutlivesWalks, Walking

LEMMA VisitWalks == ASSUME WalksInv, Visit PROVE WalksInv'
<1>1. PICK d \in FirstOf(After(Inner.next)) :
          walks' = SetInner(
              [Inner EXCEPT !.next = d,
                            !.running = Matches(Inner.next, Inner.type),
                            !.cb = IF Matches(Inner.next, Inner.type)
                                   THEN Inner.next ELSE NoItem])
  BY DEF Visit
<1> DEFINE w == [Inner EXCEPT !.next = d,
                              !.running = Matches(Inner.next, Inner.type),
                              !.cb = IF Matches(Inner.next, Inner.type)
                                     THEN Inner.next ELSE NoItem]
<1>2. d \in Cbs \cup {NoItem}
  BY FirstOfType DEF After, WalksInv, TypeOK
<1>3. Matches(Inner.next, Inner.type) \in BOOLEAN
  BY DEF Matches
<1>4. w \in Walk
  BY <1>2, <1>3, InnerType DEF Visit, Walk, WalksInv, TypeOK
<1>5. walks' \in Seq(Walk) /\ Len(walks') = Len(walks) /\ walks' # <<>>
  BY <1>1, <1>4, SetInnerType DEF Visit, WalksInv, TypeOK
<1>6. QED
  BY <1>5 DEF Visit, WalksInv, TypeOK, ListOutlivesWalks, Walking

LEMMA ReadFreedWalks == ASSUME WalksInv, ReadFreed PROVE WalksInv'
<1>1. PICK c \in Cbs \cup {NoItem} : walks' = SetInner([Inner EXCEPT !.next = c])
  BY DEF ReadFreed
<1>2. [Inner EXCEPT !.next = c] \in Walk
  BY InnerType DEF ReadFreed, Walk, WalksInv, TypeOK
<1>3. walks' \in Seq(Walk) /\ Len(walks') = Len(walks) /\ walks' # <<>>
  BY <1>1, <1>2, SetInnerType DEF ReadFreed, WalksInv, TypeOK
<1>4. QED
  BY <1>3 DEF ReadFreed, WalksInv, TypeOK, ListOutlivesWalks, Walking

LEMMA LeaveWalks == ASSUME WalksInv, Walking, Leave PROVE WalksInv'
BY OuterType, InnerType
   DEF Leave, LastOut, WalksInv, TypeOK, ListOutlivesWalks, Walking

LEMMA ReturnWalks == ASSUME WalksInv, Return PROVE WalksInv'
<1>1. CASE zombie
  BY <1>1, LeaveWalks DEF Return
<1>2. CASE ~zombie
  <2>1. [Inner EXCEPT !.running = FALSE, !.cb = NoItem] \in Walk
    BY InnerType DEF Return, Walk, WalksInv, TypeOK
  <2>2. walks' \in Seq(Walk) /\ Len(walks') = Len(walks) /\ walks' # <<>>
    BY <1>2, <2>1, SetInnerType DEF Return, WalksInv, TypeOK
  <2>3. QED
    BY <1>2, <2>2 DEF Return, WalksInv, TypeOK, ListOutlivesWalks, Walking
<1>3. QED
  BY <1>1, <1>2

LEMMA NextWalks == WalksInv /\ [Next]_vars => WalksInv'
<1> SUFFICES ASSUME WalksInv, [Next]_vars PROVE WalksInv'
  OBVIOUS
<1>1. CASE UNCHANGED vars
  BY <1>1 DEF vars, WalksInv, TypeOK, ListOutlivesWalks, Walking, Walk
<1>2. CASE Finish
  BY <1>2, LeaveWalks DEF Finish
<1>3. QED
  BY <1>1, <1>2, AddWalks, RemoveWalks, DestroyWalks, CallWalks, VisitWalks,
     ReadFreedWalks, ReturnWalks DEF Next

\* However walks nest and whatever callbacks do, the struct callback_list is
\* there as long as a callback_list_call_attr reads it, and iterating counts
\* the walks.
THEOREM OutlivesCorrect == Spec => []ListOutlivesWalks
<1>1. WalksInv => ListOutlivesWalks
  BY DEF WalksInv
<1>2. QED
  BY <1>1, InitWalks, NextWalks, PTL DEF Spec

\* The list, its order and every walk keep their form: a pointer of a walk is
\* to an item, to one that has been freed, or NULL.
THEOREM ListTypeCorrect == Spec => []TypeOK
<1>1. WalksInv => TypeOK
  BY DEF WalksInv
<1>2. QED
  BY <1>1, InitWalks, NextWalks, PTL DEF Spec

-----------------------------------------------------------------------------
(* The list keeps its promise *)

\* The items are in a strict order: those after an item are the next one and
\* those after that, and never the item itself.
NoLoops == \A e \in before : e[1] # e[2]
OrderInv ==
    /\ NoLoops
    /\ \A c, d \in list : c = d \/ <<c, d>> \in before \/ <<d, c>> \in before
    /\ \A c, d, e \in list :
           <<c, d>> \in before /\ <<d, e>> \in before => <<c, e>> \in before
    /\ zombie => list = {}

ListInv == TypeOK /\ OrderInv

LEMMA NextOrder ==
    ASSUME TypeOK, OrderInv, [Next]_vars
    PROVE  OrderInv'
<1>1. CASE UNCHANGED <<list, before, zombie>>
  BY <1>1 DEF OrderInv, NoLoops
<1>2. ASSUME NEW c \in Cbs, Add(c) PROVE OrderInv'
  BY <1>2 DEF Add, Prepended, OrderInv, NoLoops, TypeOK
<1>3. ASSUME NEW c \in Cbs, Remove(c) PROVE OrderInv'
  BY <1>3 DEF Remove, Unlinked, OrderInv, NoLoops
<1>4. CASE Destroy
  BY <1>4 DEF Destroy, KeptWhileWalked, OrderInv, NoLoops
<1>5. QED
  BY <1>1, <1>2, <1>3, <1>4
     DEF Next, Call, Visit, ReadFreed, Return, Finish, Leave, vars

LEMMA DueType ==
    ASSUME TypeOK
    PROVE  /\ Due \in Seq(SUBSET Cbs) /\ Len(Due) = Len(walks)
           /\ DOMAIN Due = 1..Len(walks) /\ Len(walks) \in Nat
           /\ \A i \in 1..Len(walks) : Due[i] = DueOf(walks[i])
<1>1. DOMAIN walks = 1..Len(walks) /\ Len(walks) \in Nat
  BY DEF TypeOK
<1>2. Due = [i \in 1..Len(walks) |-> DueOf(walks[i])]
  BY <1>1 DEF Due
<1>3. \A i \in 1..Len(walks) : DueOf(walks[i]) \in SUBSET Cbs
  BY DEF DueOf, TypeOK
<1> HIDE DEF Due
<1>4. QED
  BY <1>1, <1>2, <1>3, IsASeq, LenProperties

LEMMA DueTypeNext ==
    ASSUME TypeOK'
    PROVE  /\ Due' \in Seq(SUBSET Cbs) /\ Len(Due') = Len(walks')
           /\ \A i \in 1..Len(walks') : Due'[i] = DueOf(walks[i])'
<1>1. DOMAIN walks' = 1..Len(walks') /\ Len(walks') \in Nat
  BY DEF TypeOK
<1>2. Due' = [i \in 1..Len(walks') |-> DueOf(walks[i])']
  BY <1>1 DEF Due
<1>3. \A i \in 1..Len(walks') : DueOf(walks[i])' \in SUBSET Cbs
  BY DEF DueOf, TypeOK
<1> HIDE DEF Due
<1>4. QED
  BY <1>1, <1>2, <1>3, IsASeq, LenProperties

\* A callback that is added comes before the items the walks go on with.
LEMMA AddPromise ==
    ASSUME NEW c \in Cbs, ListInv, NextIsAnItem, Add(c)
    PROVE  Promise!Add(c)
<1>1. \A i \in DOMAIN walks : DueOf(walks[i])' = DueOf(walks[i])
  <2>1. TAKE i \in DOMAIN walks
  <2>2. walks[i].next \in list \cup {NoItem}
    BY DEF Add, NextIsAnItem
  <2>3. walks[i].next # c
    BY <2>2, CallbackAssumption DEF Add
  <2>4. <<walks[i].next, c>> \notin before' /\ walks' = walks
    BY <2>3 DEF Add, Prepended, ListInv, TypeOK
  <2>5. \A x \in list : <<walks[i].next, x>> \in before' <=> <<walks[i].next, x>> \in before
    BY <2>3 DEF Add, Prepended
  <2>6. QED
    BY <2>3, <2>4, <2>5 DEF Add, DueOf, Matches
<1>2. Due' = Due
  BY <1>1 DEF Due, Add
<1>3. QED
  BY <1>2 DEF Promise!Add, Add

\* No walk is left with the item of a callback that is removed.
LEMMA RemovePromise ==
    ASSUME NEW c \in Cbs, ListInv, NextIsAnItem', Remove(c)
    PROVE  Promise!Remove(c)
<1>1. /\ DOMAIN walks' = DOMAIN walks
      /\ \A i \in DOMAIN walks :
             walks'[i] = IF walks[i].next = c
                         THEN [walks[i] EXCEPT !.next = FreedItem] ELSE walks[i]
  BY DEF Remove, Freeing
<1>2. ~zombie /\ ~zombie'
  BY DEF ListInv, OrderInv, Remove
<1>3. \A i \in DOMAIN walks : walks[i].next # c
  <2>1. SUFFICES ASSUME NEW i \in DOMAIN walks, walks[i].next = c PROVE FALSE
    OBVIOUS
  <2>2. walks[i] \in Walk
    BY DEF ListInv, TypeOK
  <2>3. walks'[i].next = FreedItem
    BY <1>1, <2>1, <2>2 DEF Walk
  <2>4. walks'[i].next \in list' \cup {NoItem}
    BY <1>1, <1>2, <2>1 DEF NextIsAnItem
  <2>5. list' \subseteq Cbs
    BY DEF Remove, ListInv, TypeOK
  <2>6. QED
    BY <2>3, <2>4, <2>5, CallbackAssumption
<1>4. \A i \in DOMAIN walks : DueOf(walks[i])' = DueOf(walks[i]) \ {c}
  BY <1>1, <1>3 DEF Remove, Unlinked, DueOf, Matches
<1>5. Due' = [i \in DOMAIN Due |-> Due[i] \ {c}]
  BY <1>1, <1>4 DEF Due
<1>6. QED
  BY <1>5 DEF Promise!Remove, Remove

LEMMA DestroyPromise ==
    ASSUME ListInv, Destroy
    PROVE  Promise!Destroy
<1>1. DOMAIN walks' = DOMAIN walks
  BY DEF Destroy, Freeing
<1>2. \A i \in DOMAIN walks : DueOf(walks[i])' = {}
  BY <1>1 DEF Destroy, DueOf
<1>3. Due' = [i \in DOMAIN Due |-> {}]
  BY <1>1, <1>2 DEF Due
<1>4. QED
  BY <1>3 DEF Promise!Destroy, Destroy, KeptWhileWalked

\* What is after an item is the first item after it and what is after that.
LEMMA AfterFirst ==
    ASSUME ListInv, NEW S, S \subseteq list, NEW d \in FirstOf(S),
           \A x \in S, y \in list : <<x, y>> \in before => y \in S
    PROVE  S = {x \in list : d \in Cbs /\ (x = d \/ <<d, x>> \in before)}
<1>1. CASE S = {}
  BY <1>1, CallbackAssumption DEF FirstOf
<1>2. CASE S # {}
  <2>1. d \in S /\ \A x \in S : <<x, d>> \notin before
    BY <1>2 DEF FirstOf
  <2>2. list \subseteq Cbs /\ S \subseteq list
    BY DEF ListInv, TypeOK
  <2>3. \A x \in S : x = d \/ <<d, x>> \in before
    BY <2>1, <2>2 DEF ListInv, OrderInv
  <2>4. \A y \in list : y = d \/ <<d, y>> \in before => y \in S
    BY <2>1
  <2>5. d \in Cbs
    BY <2>1, <2>2
  <2>6. QED
    BY <2>2, <2>3, <2>4, <2>5
<1>3. QED
  BY <1>1, <1>2

LEMMA CallPromise ==
    ASSUME NEW t \in Types \cup {AnyType}, ListInv, TypeOK', Call(t)
    PROVE  Promise!Begin(t)
<1>1. PICK c \in FirstOf(list) :
          walks' = Append(walks, [type |-> t, running |-> FALSE,
                                  cb |-> NoItem, next |-> c])
  BY DEF Call
<1> DEFINE w == [type |-> t, running |-> FALSE, cb |-> NoItem, next |-> c]
<1>n. PICK n \in Nat : n = Len(walks)
  BY DEF ListInv, TypeOK
<1>2. w \in Walk
  BY <1>1, FirstOfType DEF ListInv, TypeOK, Walk
<1>3. /\ Len(walks') = n + 1 /\ DOMAIN walks' = 1..(n + 1)
      /\ \A i \in 1..n : walks'[i] = walks[i]
      /\ walks'[n + 1] = w
  BY <1>1, <1>2, <1>n, AppendProperties DEF ListInv, TypeOK
<1>4. list = {x \in list : c \in Cbs /\ (x = c \/ <<c, x>> \in before)}
  BY <1>1, AfterFirst
<1>5. DueOf(w) = {x \in list : Matches(x, t)}
  BY <1>4 DEF DueOf
<1> HIDE DEF w
<1>6. \A i \in 1..n : DueOf(walks[i])' = DueOf(walks[i])
  BY <1>3 DEF Call, DueOf, Matches
<1>7. DueOf(walks[n + 1])' = {x \in list : Matches(x, t)}
  BY <1>3, <1>5 DEF Call, DueOf, Matches
<1>8. {x \in list : Matches(x, t)} \in SUBSET Cbs
  BY DEF ListInv, TypeOK
<1>9. Due' = Append(Due, {x \in list : Matches(x, t)})
  <2> DEFINE A == Append(Due, {x \in list : Matches(x, t)})
  <2>1. /\ A \in Seq(SUBSET Cbs) /\ Len(A) = n + 1
        /\ \A i \in 1..n : A[i] = Due[i]
        /\ A[n + 1] = {x \in list : Matches(x, t)}
    BY <1>8, <1>n, DueType, AppendProperties DEF ListInv
  <2> HIDE DEF A
  <2>2. Due' \in Seq(SUBSET Cbs) /\ Len(Due') = n + 1
    BY <1>3, DueTypeNext
  <2>3. \A i \in 1..n : Due'[i] = A[i]
    BY <1>3, <1>6, <1>n, <2>1, DueType, DueTypeNext DEF ListInv
  <2>4. Due'[n + 1] = A[n + 1]
    BY <1>3, <1>7, <2>1, DueTypeNext
  <2>5. \A i \in 1..(n + 1) : Due'[i] = A[i]
    BY <1>3, <2>3, <2>4
  <2>6. Due' = A
    BY <2>1, <2>2, <2>5, SeqEqual
  <2>7. QED
    BY <2>6 DEF A
<1>10. QED
  BY <1>9 DEF Promise!Begin, Promise!Matches, Matches, Call

\* The walk that is at a callback of its type reaches it; otherwise it goes on
\* without a trace.
LEMMA VisitPromise ==
    ASSUME ListInv, TypeOK', Visit
    PROVE  (\E c \in Cbs : Promise!Reach(c)) \/ UNCHANGED Promise!vars
<1>1. PICK d \in FirstOf(After(Inner.next)) :
          walks' = SetInner(
              [Inner EXCEPT !.next = d,
                            !.running = Matches(Inner.next, Inner.type),
                            !.cb = IF Matches(Inner.next, Inner.type)
                                   THEN Inner.next ELSE NoItem])
  BY DEF Visit
<1> DEFINE c == Inner.next
           w == [Inner EXCEPT !.next = d,
                              !.running = Matches(Inner.next, Inner.type),
                              !.cb = IF Matches(Inner.next, Inner.type)
                                     THEN Inner.next ELSE NoItem]
<1>2. PICK n \in Nat \ {0} : n = Len(walks) /\ Inner \in Walk /\ c \in Cbs
  BY InnerType DEF Visit, ListInv, TypeOK
<1>3. Matches(c, Inner.type) \in BOOLEAN
  BY DEF Matches
<1>4. w \in Walk /\ w.type = Inner.type /\ w.next = d
  BY <1>1, <1>2, <1>3, FirstOfType DEF After, Walk, ListInv, TypeOK
<1>5. /\ Len(walks') = n
      /\ \A i \in 1..n : walks'[i] = IF i = n THEN w ELSE walks[i]
  BY <1>1, <1>2, <1>4, SetInnerType DEF Visit, ListInv, TypeOK
<1> HIDE DEF w
<1>6. \A i \in 1..n : i # n => DueOf(walks[i])' = DueOf(walks[i])
  BY <1>5 DEF Visit, DueOf, Matches
<1>7. After(c) = {x \in list : d \in Cbs /\ (x = d \/ <<d, x>> \in before)}
  <2>1. After(c) \subseteq list
    BY DEF After
  <2>2. CASE c \in list
    <3>1. \A x \in After(c), y \in list : <<x, y>> \in before => y \in After(c)
      BY <2>2 DEF After, ListInv, OrderInv
    <3>2. QED
      BY <1>1, <2>1, <3>1, AfterFirst
  <2>3. CASE c \notin list
    <3>1. After(c) = {}
      BY <2>3 DEF After, ListInv, TypeOK
    <3>2. d = NoItem
      BY <1>1, <3>1 DEF FirstOf
    <3>3. QED
      BY <3>1, <3>2, CallbackAssumption
  <2>4. QED
    BY <2>2, <2>3
<1>8. DueOf(walks[n])' = DueOf(walks[n]) \ {c}
  <2>1. c \notin After(c)
    BY DEF After, ListInv, OrderInv, NoLoops
  <2>2. DueOf(walks[n])' = {x \in After(c) : Matches(x, Inner.type)}
    <3>1. walks'[n] = w /\ list' = list /\ before' = before
      BY <1>2, <1>5 DEF Visit
    <3>2. DueOf(walks[n])' = {x \in list : /\ d \in Cbs
                                           /\ x = d \/ <<d, x>> \in before
                                           /\ Matches(x, Inner.type)}
      BY <1>4, <3>1 DEF DueOf, Matches
    <3> QED BY <1>7, <3>2
  <2>3. DueOf(walks[n]) = {x \in list : (x = c \/ x \in After(c))
                                        /\ Matches(x, Inner.type)}
    BY <1>2 DEF DueOf, Inner, After
  <2>4. QED
    BY <2>1, <2>2, <2>3 DEF After
<1>9. Len(Due) = n /\ Due # <<>>
  BY <1>2, DueType DEF ListInv
<1>10. Due' = [Due EXCEPT ![n] = Due[n] \ {c}]
  <2>1. \A i \in 1..n : Due'[i] = IF i = n THEN Due[n] \ {c} ELSE Due[i]
    BY <1>2, <1>5, <1>6, <1>8, DueType, DueTypeNext DEF ListInv
  <2>2. DOMAIN Due' = 1..n /\ DOMAIN Due = 1..n
    BY <1>2, <1>5, DueType, DueTypeNext DEF ListInv
  <2>3. Due' = [i \in DOMAIN Due' |-> Due'[i]]
    BY DEF Due
  <2> HIDE DEF c
  <2>4. QED
    BY <2>1, <2>2, <2>3
<1>11. CASE c \in Due[n]
  <2>1. PICK k \in Cbs : k = c
    BY <1>2
  <2> HIDE DEF c
  <2>2. Due' = [Due EXCEPT ![Len(Due)] = Due[Len(Due)] \ {k}]
    BY <1>9, <1>10, <2>1
  <2>3. Promise!Reach(k)
    BY <1>9, <1>11, <2>1, <2>2 DEF Promise!Reach, Visit
  <2>4. QED
    BY <2>3
<1>12. CASE c \notin Due[n]
  <2>1. Due[n] \ {c} = Due[n]
    BY <1>12
  <2>2. Due' = Due
    BY <1>9, <1>10, <2>1, DueType DEF ListInv
  <2>3. QED
    BY <2>2 DEF Promise!vars, Visit
<1>13. QED
  BY <1>11, <1>12

\* A walk ends when it is at the end of the list or the list is a zombie.
LEMMA LeavePromise ==
    ASSUME ListInv, TypeOK', Walking, Leave, Inner.next = NoItem \/ zombie
    PROVE  Promise!End
<1>1. PICK n \in Nat \ {0} : n = Len(walks)
  BY InnerType DEF ListInv, TypeOK
<1>2. /\ Len(walks') = n - 1
      /\ \A i \in 1..(n - 1) : walks'[i] = walks[i]
  BY <1>1, OuterType DEF Leave, ListInv, TypeOK
<1>3. \A i \in 1..(n - 1) : DueOf(walks[i])' = DueOf(walks[i])
  BY <1>2 DEF Leave, DueOf, Matches
<1>4. Len(Due) = n /\ Due # <<>>
  BY <1>1, DueType DEF ListInv
<1>5. Due[n] = {}
  <2>1. DueOf(Inner) = {}
    BY CallbackAssumption DEF DueOf, ListInv, OrderInv
  <2>2. QED
    BY <1>1, <2>1, DueType DEF Inner, ListInv
<1>6. Due' = SubSeq(Due, 1, n - 1)
  <2> DEFINE S == SubSeq(Due, 1, n - 1)
  <2>1. \A i \in 1..(n - 1) : Due[i] \in SUBSET Cbs
    BY <1>1, DueType DEF ListInv
  <2>2. /\ S \in Seq(SUBSET Cbs) /\ Len(S) = n - 1
        /\ \A i \in 1..(n - 1) : S[i] = Due[i]
    BY <1>1, <2>1, SubSeqProperties
  <2>3. Due' \in Seq(SUBSET Cbs) /\ Len(Due') = n - 1
    BY <1>2, DueTypeNext
  <2>4. \A i \in 1..(n - 1) : Due'[i] = S[i]
    BY <1>1, <1>2, <1>3, <2>2, DueType, DueTypeNext DEF ListInv
  <2> HIDE DEF S
  <2>5. Due' = S
    BY <2>2, <2>3, <2>4, SeqEqual
  <2>6. QED
    BY <2>5 DEF S
<1>7. QED
  BY <1>4, <1>5, <1>6 DEF Promise!End, Leave

\* A callback that returns to a list that is still there leaves its walk where
\* it was.
LEMMA ReturnPromise ==
    ASSUME ListInv, TypeOK', Return
    PROVE  Promise!End \/ UNCHANGED Promise!vars
<1>1. CASE zombie
  BY <1>1, LeavePromise DEF Return
<1>2. CASE ~zombie
  <2> DEFINE w == [Inner EXCEPT !.running = FALSE, !.cb = NoItem]
  <2>1. PICK n \in Nat \ {0} : n = Len(walks) /\ Inner \in Walk
    BY InnerType DEF Return, ListInv, TypeOK
  <2>2. w \in Walk /\ w.type = Inner.type /\ w.next = Inner.next
    BY <2>1 DEF Walk
  <2>3. /\ Len(walks') = n
        /\ \A i \in 1..n : walks'[i] = IF i = n THEN w ELSE walks[i]
    BY <1>2, <2>1, <2>2, SetInnerType DEF Return, ListInv, TypeOK
  <2> HIDE DEF w
  <2>4. \A i \in 1..n : DueOf(walks[i])' = DueOf(walks[i])
    BY <1>2, <2>1, <2>2, <2>3 DEF Inner, Return, DueOf, Matches
  <2>5. \A i \in 1..n : Due'[i] = Due[i]
    BY <2>1, <2>3, <2>4, DueType, DueTypeNext DEF ListInv
  <2>6. Due' = Due
    BY <2>1, <2>3, <2>5, DueType, DueTypeNext, SeqEqual DEF ListInv
  <2>7. QED
    BY <1>2, <2>6 DEF Return, Promise!vars
<1>3. QED
  BY <1>1, <1>2

LEMMA InitPromise == Init => Promise!Init
<1>1. SUFFICES ASSUME Init PROVE Promise!Init
  OBVIOUS
<1>2. TypeOK /\ Len(walks) = 0
  BY <1>1, InitWalks DEF WalksInv, ListOutlivesWalks, Init
<1>3. Due = <<>>
  BY <1>2, DueType, EmptySeq
<1>4. QED
  BY <1>1, <1>3 DEF Init, Promise!Init

LEMMA NextPromise ==
    ASSUME ListInv, TypeOK', NextIsAnItem, NextIsAnItem', [Next]_vars
    PROVE  [Promise!Next]_(Promise!vars)
<1>1. CASE UNCHANGED vars
  <2>1. \A i \in DOMAIN walks : DueOf(walks[i])' = DueOf(walks[i])
    BY <1>1 DEF vars, DueOf, Matches
  <2>2. Due' = Due
    BY <1>1, <2>1 DEF vars, Due
  <2>3. QED
    BY <1>1, <2>2 DEF vars, Promise!vars
<1>2. ASSUME NEW c \in Cbs, Add(c) \/ Remove(c) PROVE Promise!Next
  BY <1>2, AddPromise, RemovePromise DEF Promise!Next
<1>3. CASE Destroy
  BY <1>3, DestroyPromise DEF Promise!Next
<1>4. ASSUME NEW t \in Types \cup {AnyType}, Call(t) PROVE Promise!Next
  BY <1>4, CallPromise DEF Promise!Next
<1>5. CASE Visit
  BY <1>5, VisitPromise DEF Promise!Next
<1>6. CASE Return
  BY <1>6, ReturnPromise DEF Promise!Next
<1>7. CASE Finish
  BY <1>7, LeavePromise DEF Promise!Next, Finish
<1>8. CASE ReadFreed
  <2>1. Inner.next = FreedItem /\ Len(walks) \in DOMAIN walks /\ ~zombie
    BY <1>8, InnerType DEF ReadFreed, ListInv, TypeOK
  <2>2. FreedItem \in list \cup {NoItem}
    BY <2>1 DEF NextIsAnItem, Inner
  <2>3. QED
    BY <2>2, CallbackAssumption DEF ListInv, TypeOK
<1>9. QED
  BY <1>1, <1>2, <1>3, <1>4, <1>5, <1>6, <1>7, <1>8 DEF Next

\* Whatever the callbacks do, the list keeps what CallbackCalls promises as long
\* as no walk of callback_list_call_attr is left with an item that is gone: a
\* call reaches every callback of its type that is on the list, once, unless
\* the callback is removed first or the list destroyed.
THEOREM PromiseKept == Spec => EachIsReachedOnce
<1>1. Init => OrderInv
  BY DEF Init, OrderInv, NoLoops
<1>2. TypeOK /\ OrderInv /\ [Next]_vars => OrderInv'
  BY NextOrder
<1>3. TypeOK /\ TypeOK' /\ OrderInv /\ [Next]_vars
          => [Promise!Next \/ ~NextIsAnItem \/ ~NextIsAnItem']_(Promise!vars)
  BY NextPromise DEF ListInv
<1>4. QED
  BY <1>1, <1>2, <1>3, InitPromise, ListTypeCorrect, PTL
     DEF Spec, EachIsReachedOnce
=============================================================================
