--------------------------- MODULE CallbackCalls ----------------------------
(***************************************************************************)
(* What a list of callbacks promises: a call reaches every callback of its *)
(* type that is on the list when it begins, once, unless the callback is   *)
(* removed first or the list is destroyed; and none else.  Calls nest,     *)
(* since a callback may call the list it is on.                            *)
(***************************************************************************)
EXTENDS Sequences, Naturals

CONSTANTS
    Cbs,        \* the callbacks
    Types,      \* types of attributes
    AnyType,        \* attr_any
    Type        \* [Cbs -> Types \cup {AnyType}]

VARIABLES
    registered,  \* the callbacks on the list
    alive,       \* the list is not destroyed
    due          \* for each call, the callbacks it has still to reach

vars == <<registered, alive, due>>

Matches(c, t) == t = AnyType \/ Type[c] = AnyType \/ Type[c] = t

Init == registered = {} /\ alive = TRUE /\ due = <<>>

Add(c) ==
    /\ alive /\ c \notin registered
    /\ registered' = registered \cup {c}
    /\ UNCHANGED <<alive, due>>

Remove(c) ==
    /\ c \in registered
    /\ registered' = registered \ {c}
    /\ due' = [i \in DOMAIN due |-> due[i] \ {c}]
    /\ UNCHANGED alive

Destroy ==
    /\ alive
    /\ registered' = {} /\ alive' = FALSE
    /\ due' = [i \in DOMAIN due |-> {}]

Begin(t) ==
    /\ alive
    /\ due' = Append(due, {c \in registered : Matches(c, t)})
    /\ UNCHANGED <<registered, alive>>

Reach(c) ==
    /\ due # <<>> /\ c \in due[Len(due)]
    /\ due' = [due EXCEPT ![Len(due)] = @ \ {c}]
    /\ UNCHANGED <<registered, alive>>

End ==
    /\ due # <<>> /\ due[Len(due)] = {}
    /\ due' = SubSeq(due, 1, Len(due) - 1)
    /\ UNCHANGED <<registered, alive>>

Next ==
    \/ \E c \in Cbs : Add(c) \/ Remove(c) \/ Reach(c)
    \/ \E t \in Types \cup {AnyType} : Begin(t)
    \/ Destroy
    \/ End

Spec == Init /\ [][Next]_vars
=============================================================================
