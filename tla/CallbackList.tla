---------------------------- MODULE CallbackList ----------------------------
(***************************************************************************)
(* A list of callbacks of src/navit/callback.c.  callback_list_call_attr   *)
(* walks the list and keeps a pointer to the next item over each call; the *)
(* callback may add and remove callbacks, call the list again and destroy  *)
(* it.  A list that is destroyed while it is walked is a zombie, which the *)
(* outermost walk frees.                                                   *)
(*                                                                         *)
(* The list is a set and the order of its items.  A callback is on the     *)
(* list once.  The list is not added to, removed from or walked once it    *)
(* is freed: that is up to its owner.                                      *)
(***************************************************************************)
EXTENDS Integers, Sequences

CONSTANTS
    Cbs,        \* struct callback
    Types, AnyType, \* enum attr_type and attr_any
    Type,       \* [Cbs -> Types \cup {AnyType}]
    Removes,    \* which callbacks may remove which others while they run
    Calls,      \* <<c, t>>: c may call the list with type t while it runs
    Destroys,   \* the callbacks that may destroy the list while they run
    MaxDepth,   \* bound: walks within one another
    NoItem,     \* NULL
    FreedItem   \* an item that has been freed

ASSUME CallbackAssumption ==
    /\ AnyType \notin Types
    /\ Type \in [Cbs -> Types \cup {AnyType}]
    /\ Removes \subseteq Cbs \X Cbs
    /\ Calls \subseteq Cbs \X (Types \cup {AnyType})
    /\ Destroys \subseteq Cbs
    /\ MaxDepth \in Nat
    /\ NoItem \notin Cbs /\ FreedItem \notin Cbs /\ NoItem # FreedItem

VARIABLES
    list,      \* the callbacks that have an item on the list
    before,    \* the order of the items
    walks,     \* the calls of callback_list_call_attr, innermost last
    iterating, zombie,
    freed      \* the struct callback_list has been freed

vars == <<list, before, walks, iterating, zombie, freed>>

\* A walk: the type it is for, whether a callback is running, which one, and
\* the item it is to go on with, that is cbi between two callbacks and
\* next_item while one is running.
Walk == [type : Types \cup {AnyType}, running : BOOLEAN, cb : Cbs \cup {NoItem},
         next : Cbs \cup {NoItem, FreedItem}]

TypeOK ==
    /\ list \subseteq Cbs /\ before \subseteq list \X list
    /\ walks \in Seq(Walk)
    /\ iterating \in Int /\ zombie \in BOOLEAN /\ freed \in BOOLEAN

-----------------------------------------------------------------------------
Matches(c, t) == t = AnyType \/ Type[c] = AnyType \/ Type[c] = t

\* The items after c, and the first of them.
After(c) == {d \in list : <<c, d>> \in before}
FirstOf(S) ==
    IF S = {} THEN {NoItem}
    ELSE {d \in S : \A e \in S : <<e, d>> \notin before}

Walking == walks # <<>>
Inner == walks[Len(walks)]
SetInner(w) == [walks EXCEPT ![Len(walks)] = w]
Outer == SubSeq(walks, 1, Len(walks) - 1)

\* Callbacks are added and removed and the list is called and destroyed by the
\* callback that is running, or by the rest of the program when none is.
Running(S) == Walking /\ Inner.running /\ Inner.cb \in S
MayRemove(c) == Walking => Running({r \in Cbs : <<r, c>> \in Removes})
MayCall(t) == Walking => Running({r \in Cbs : <<r, t>> \in Calls})

Init ==
    /\ list = {} /\ before = {} /\ walks = <<>>
    /\ iterating = 0 /\ zombie = FALSE /\ freed = FALSE

\* callback_list_add prepends: no walk that is going on reaches the new item.
Appended(c) == before \cup (list \X {c})      \* an error: the walks do
Prepended(c) == before \cup ({c} \X list)

Add(c) ==
    /\ ~zombie /\ c \notin list
    /\ Walking => Inner.running
    /\ list' = list \cup {c}
    /\ before' = Prepended(c)
    /\ UNCHANGED <<walks, iterating, zombie, freed>>

\* A walk that was to go on with one of the items freed is left with a pointer
\* to it.
Freeing(S) ==
    [i \in DOMAIN walks |->
        IF walks[i].next \in S THEN [walks[i] EXCEPT !.next = FreedItem]
        ELSE walks[i]]

\* callback_list_remove frees the item of c.
Unlinked(c) == {e \in before : c \notin {e[1], e[2]}}

Remove(c) ==
    /\ c \in list /\ MayRemove(c)
    /\ list' = list \ {c}
    /\ before' = Unlinked(c)
    /\ walks' = Freeing({c})
    /\ UNCHANGED <<iterating, zombie, freed>>

\* callback_list_destroy frees the items and, unless it is walked, the list.
FreedAtOnce ==                    \* an error: a walk is going on
    /\ zombie' = TRUE /\ freed' = TRUE
KeptWhileWalked ==
    /\ zombie' = TRUE
    /\ freed' = (iterating = 0)

Destroy ==
    /\ ~zombie
    /\ Walking => Running(Destroys)
    /\ list' = {} /\ before' = {}
    /\ walks' = Freeing(list)
    /\ KeptWhileWalked
    /\ UNCHANGED iterating

\* callback_list_call_attr up to its loop.
Call(t) ==
    /\ ~zombie /\ MayCall(t) /\ Len(walks) < MaxDepth
    /\ iterating' = iterating + 1
    /\ \E c \in FirstOf(list) :
           walks' = Append(walks, [type |-> t, running |-> FALSE,
                                   cb |-> NoItem, next |-> c])
    /\ UNCHANGED <<list, before, zombie, freed>>

\* The item the walk is at: its callback is called if its type matches, and the
\* walk keeps the one after it.
Visit ==
    /\ Walking /\ ~Inner.running /\ Inner.next \in Cbs
    /\ \E d \in FirstOf(After(Inner.next)) :
           walks' = SetInner(
               [Inner EXCEPT !.next = d,
                             !.running = Matches(Inner.next, Inner.type),
                             !.cb = IF Matches(Inner.next, Inner.type)
                                    THEN Inner.next ELSE NoItem])
    /\ UNCHANGED <<list, before, iterating, zombie, freed>>

\* The end of a walk: the last one frees a zombie.
NotCountedDown == iterating = 0   \* an error: tested before the decrement
LastOut == iterating = 1

Leave ==
    /\ walks' = Outer
    /\ iterating' = iterating - 1
    /\ freed' = (freed \/ (zombie /\ LastOut))
    /\ UNCHANGED <<list, before, zombie>>

\* A callback returns: the walk goes on, unless the list is a zombie.
Return ==
    /\ Walking /\ Inner.running
    /\ \/ zombie /\ Leave
       \/ /\ ~zombie
          /\ walks' = SetInner([Inner EXCEPT !.running = FALSE, !.cb = NoItem])
          /\ UNCHANGED <<list, before, iterating, zombie, freed>>

Finish ==
    /\ Walking /\ ~Inner.running /\ Inner.next = NoItem
    /\ Leave

\* A walk that goes on from an item that has been freed reads whatever the
\* memory holds: what it held, with a callback that is off the list and no next
\* item, an item of the list that has been put there, or the program is gone,
\* which is no step.
ReadFreed ==
    /\ Walking /\ ~Inner.running /\ Inner.next = FreedItem /\ ~zombie
    /\ \E c \in Cbs \cup {NoItem} : walks' = SetInner([Inner EXCEPT !.next = c])
    /\ UNCHANGED <<list, before, iterating, zombie, freed>>

Next ==
    \/ \E c \in Cbs : Add(c) \/ Remove(c)
    \/ Destroy
    \/ \E t \in Types \cup {AnyType} : Call(t)
    \/ Visit
    \/ ReadFreed
    \/ Return
    \/ Finish

Spec == Init /\ [][Next]_vars

\* The program goes on, and callbacks return.
FairSpec == Spec /\ WF_vars(Visit \/ Return \/ Finish)

-----------------------------------------------------------------------------
(* Properties *)

\* The struct is there as long as a walk reads it: callback_list_destroy and
\* the walks leave it to the outermost one to free a zombie.
ListOutlivesWalks == (Walking => ~freed) /\ iterating = Len(walks)

\* No walk is to go on with an item that is gone.  callback_list_call_attr saves
\* next_item over the call so that callbacks can alter the list; a callback
\* that removes the one saved, or a walk within it that does, breaks this.
NextIsAnItem ==
    ~zombie =>
        \A i \in DOMAIN walks : walks[i].next \in list \cup {NoItem}

\* A list that is destroyed is freed in the end.
ZombieIsFreed == zombie ~> freed

\* Every call reaches the callbacks it promises to, and each of them once,
\* whatever the callbacks add, remove, call and destroy; nothing is said of
\* steps to and from states where a walk points to an item that is gone.
DueOf(w) ==
    {c \in list : /\ w.next \in Cbs
                  /\ c = w.next \/ <<w.next, c>> \in before
                  /\ Matches(c, w.type)}
Due == [i \in DOMAIN walks |-> DueOf(walks[i])]

Promise ==
    INSTANCE CallbackCalls
    WITH registered <- list, alive <- ~zombie, due <- Due
EachIsReachedOnce ==
    /\ Promise!Init
    /\ [][Promise!Next \/ ~NextIsAnItem \/ ~NextIsAnItem']_(Promise!vars)
=============================================================================
