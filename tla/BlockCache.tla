----------------------------- MODULE BlockCache -----------------------------
(***************************************************************************)
(* What file.c promises the map drivers that read through it: a block that *)
(* is handed out stays where it is until it is given back, and a block     *)
(* that nobody uses may go at any time.  How the cache chooses the blocks  *)
(* it lets go is not part of the promise (ArcCache).                       *)
(***************************************************************************)
EXTENDS Naturals

CONSTANTS
    Block,      \* identities of blocks: offset, size, file and method
    MaxHeld     \* bound: how often a block may be in use at once

VARIABLES
    cached,     \* the blocks in memory
    held        \* how many users hold each block

vars == <<cached, held>>

\* Type correctness of the promise.
TypeOK ==
    /\ cached \in SUBSET Block
    /\ held \in [Block -> 0 .. MaxHeld]

Init ==
    /\ cached = {}
    /\ held = [b \in Block |-> 0]

Unused == {b \in Block : held[b] = 0}

\* A block in memory is shared with those who use it already.
Share(b) ==
    /\ b \in cached
    /\ held[b] < MaxHeld
    /\ held' = [held EXCEPT ![b] = @ + 1]
    /\ UNCHANGED cached

\* A block is read; unused blocks may be let go to make room.
Load(b) ==
    /\ b \notin cached
    /\ \E out \in SUBSET (cached \cap Unused) : cached' = (cached \ out) \cup {b}
    /\ held' = [held EXCEPT ![b] = 1]

\* A block could not be read: room was made, and what there is of the block
\* may or may not be kept; nobody gets it.
Fail(b) ==
    /\ b \notin cached
    /\ \E out \in SUBSET (cached \cap Unused), kept \in SUBSET {b} :
           cached' = (cached \ out) \cup kept
    /\ UNCHANGED held

Release(b) ==
    /\ held[b] > 0
    /\ held' = [held EXCEPT ![b] = @ - 1]
    /\ UNCHANGED cached

\* Unused blocks are dropped, because the file is written or the program ends.
Drop ==
    /\ \E out \in SUBSET (cached \cap Unused) : cached' = cached \ out
    /\ UNCHANGED held

Next ==
    \/ \E b \in Block : Share(b) \/ Load(b) \/ Fail(b) \/ Release(b)
    \/ Drop

Spec == Init /\ [][Next]_vars
=============================================================================
