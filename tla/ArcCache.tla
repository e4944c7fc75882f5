------------------------------ MODULE ArcCache ------------------------------
(***************************************************************************)
(* The block cache of navit: cache.c, an adaptive replacement cache, and   *)
(* the reads of file.c that go through it.                                 *)
(*                                                                         *)
(* Blocks in memory are in t1 (asked for once) or t2 (asked for again);    *)
(* the identities of blocks that went are remembered in b1 and b2, and a   *)
(* request for one of those moves the share of t1, t1_target.  All sizes   *)
(* are bytes.  Navit has one thread, so that a read is one step.           *)
(***************************************************************************)
EXTENDS Integers, Sequences, FiniteSets, SequencesExt

CONSTANTS
    Block,      \* identities of blocks: offset, size, file and method
    Packed,     \* the blocks read by file_data_read_method
    DataSize,   \* the bytes of each block
    EntrySize,  \* the bytes of an entry without data
    Sizes,      \* the cache sizes the configuration may set
    MaxHeld     \* bound: how often a block may be in use at once

ASSUME BlockAssumption ==
    /\ Packed \subseteq Block
    /\ DataSize \in [Block -> Nat]
    /\ EntrySize \in Nat \ {0}
    /\ Sizes \subseteq Nat /\ \E n \in Sizes : \A m \in Sizes : m <= n
    /\ MaxHeld \in Nat \ {0}

VARIABLES
    list,       \* t1, t2, b1 and b2, most recently used entry first
    hash,       \* the identities with an entry
    usage,      \* the use count of each entry
    target,     \* t1_target
    size,       \* the size of the cache
    content,    \* what the data of an entry is
    held        \* how many users have each block

vars == <<list, hash, usage, target, size, content, held>>

Data == {"t1", "t2"}
Ghosts == {"b1", "b2"}
Lists == Data \cup Ghosts
Ghost(l) == IF l = "t1" THEN "b1" ELSE "b2"

InitSize == CHOOSE n \in Sizes : \A m \in Sizes : m <= n
EmptyLists == [l \in Lists |-> <<>>]

\* Type correctness: among the rest, counts of users stay in their range, and
\* the target of the first list neither falls below zero nor exceeds the greatest
\* size the cache may have been given: it stays when the size is set anew.
TypeOK ==
    /\ list \in [Lists -> Seq(Block)]
    /\ hash \in SUBSET Block
    /\ usage \in [Block -> 0 .. MaxHeld]
    /\ target \in 0 .. InitSize
    /\ size \in Sizes
    /\ content \in [Block -> {"none", "read", "garbage"}]
    /\ held \in [Block -> 0 .. MaxHeld]

Init ==
    /\ list = EmptyLists
    /\ hash = {}
    /\ usage = [b \in Block |-> 0]
    /\ target = 0
    /\ size = InitSize
    /\ content = [b \in Block |-> "none"]
    /\ held = [b \in Block |-> 0]

-----------------------------------------------------------------------------
(***************************************************************************)
(* cache.c, as functions of a cache.                                       *)
(***************************************************************************)
Least(x, y) == IF x < y THEN x ELSE y
Greatest(x, y) == IF x < y THEN y ELSE x

Members(c, l) == {c.list[l][i] : i \in DOMAIN c.list[l]}
Where(c, b) == CHOOSE l \in Lists : b \in Members(c, l)

EntryBytes(l, b) == EntrySize + IF l \in Data THEN DataSize[b] ELSE 0
Bytes(c, l) ==
    FoldFunction(+, 0, [i \in DOMAIN c.list[l] |-> EntryBytes(l, c.list[l][i])])

PutFirst(c, l, b) == [c EXCEPT !.list[l] = <<b>> \o @]
Position(c, l, b) == CHOOSE i \in DOMAIN c.list[l] : c.list[l][i] = b
TakeOut(c, l, b) == [c EXCEPT !.list[l] = RemoveAt(@, Position(c, l, b))]

\* an error: entries in use are not passed over
EvenInUse(c, l) == DOMAIN c.list[l]
\* cache_remove_lru: entries in use go from the end of the list to its front
\* until one is found that is not; the list comes round when there is none.
Idle(c, l) == {i \in DOMAIN c.list[l] : c.usage[c.list[l][i]] = 0}
LastIdle(c, l) == CHOOSE i \in Idle(c, l) : \A j \in Idle(c, l) : j <= i
Lru(c, l) == c.list[l][LastIdle(c, l)]
WithoutLru(c, l) ==
    LET s == c.list[l]
        i == LastIdle(c, l)
    IN  [c EXCEPT !.list[l] = SubSeq(s, i + 1, Len(s)) \o SubSeq(s, 1, i - 1)]

\* an error: the hash keeps the entry
RemoveLruUnhashed(c, l) ==
    IF Idle(c, l) = {} THEN c ELSE WithoutLru(c, l)
RemoveLru(c, l) ==
    IF Idle(c, l) = {} THEN c
    ELSE [WithoutLru(c, l) EXCEPT !.hash = @ \ {Lru(c, l)}]

\* cache_move: the data goes, the identity is remembered
Move(c, l) ==
    IF Idle(c, l) = {} THEN c
    ELSE PutFirst(WithoutLru(c, l), Ghost(l), Lru(c, l))

\* an error: the other list is not tried
ReplaceInOne(c) == Move(c, IF Bytes(c, "t1") >= Greatest(1, c.target) THEN "t1" ELSE "t2")
\* cache_replace: from the list that exceeds its share, or else the other one
Replace(c) ==
    LET first == IF Bytes(c, "t1") >= Greatest(1, c.target) THEN "t1" ELSE "t2"
        other == IF first = "t1" THEN "t2" ELSE "t1"
    IN  Move(c, IF Idle(c, first) # {} THEN first ELSE other)

\* an error: the new user is not counted
HitUncounted(c, b) == PutFirst(TakeOut(c, Where(c, b), b), "t2", b)
\* cache_lookup of an entry with data
Hit(c, b) ==
    LET out == TakeOut(c, Where(c, b), b)
    IN  [PutFirst(out, "t2", b) EXCEPT !.usage[b] = @ + 1]

\* an error: the share is not kept above zero
GhostHitUnbounded(c, b) ==
    LET l == Where(c, b)
        moved == IF l = "b1" THEN c.target + Greatest(Bytes(c, "b2") \div Bytes(c, "b1"), 1)
                             ELSE c.target - Greatest(Bytes(c, "b1") \div Bytes(c, "b2"), 1)
        room == Replace([TakeOut(c, l, b) EXCEPT !.target = moved])
    IN  [room EXCEPT !.hash = @ \ {b}]
\* cache_lookup of an identity without data: the list it was in was too short
GhostHit(c, b) ==
    LET l == Where(c, b)
        moved == IF l = "b1"
                 THEN Least(c.target + Greatest(Bytes(c, "b2") \div Bytes(c, "b1"), 1), c.size)
                 ELSE Greatest(c.target - Greatest(Bytes(c, "b1") \div Bytes(c, "b2"), 1), 0)
        room == Replace([TakeOut(c, l, b) EXCEPT !.target = moved])
    IN  [room EXCEPT !.hash = @ \ {b}]

\* cache_insert, the part that makes room for an identity that is new
MakeRoom(c) ==
    LET recent == Bytes(c, "t1") + Bytes(c, "b1")
        all == recent + Bytes(c, "t2") + Bytes(c, "b2")
    IN  CASE recent >= c.size /\ Bytes(c, "t1") < c.size -> Replace(RemoveLru(c, "b1"))
          [] recent >= c.size /\ Bytes(c, "t1") >= c.size -> RemoveLru(c, "t1")
          [] recent < c.size /\ all >= 2 * c.size -> Replace(RemoveLru(c, "b2"))
          [] recent < c.size /\ all >= c.size /\ all < 2 * c.size -> Replace(c)
          [] OTHER -> c

\* cache_lookup of what is not there, then cache_insert_new
Fetch(c, b) ==
    LET room == IF b \in c.hash THEN GhostHit(c, b) ELSE MakeRoom(c)
        l == IF b \in c.hash THEN "t2" ELSE "t1"
    IN  [PutFirst(room, l, b) EXCEPT !.hash = @ \cup {b}, !.usage[b] = 1]

\* cache_flush and cache_flush_data: the entry goes, whoever uses it
Flush(c, b) ==
    IF b \in c.hash
    THEN [TakeOut(c, Where(c, b), b) EXCEPT !.hash = @ \ {b}, !.usage[b] = 0]
    ELSE c

-----------------------------------------------------------------------------
(***************************************************************************)
(* file.c: reading, giving back and writing blocks.                        *)
(***************************************************************************)
TheCache == [list |-> list, hash |-> hash, usage |-> usage,
             target |-> target, size |-> size]

InMemory(c) == Members(c, "t1") \cup Members(c, "t2")

\* The cache becomes c; b is the block whose data, d, was written.
Becomes(c, b, d) ==
    /\ list' = c.list
    /\ hash' = c.hash
    /\ usage' = c.usage
    /\ target' = c.target
    /\ content' = [x \in Block |-> IF x \notin InMemory(c) THEN "none"
                                   ELSE IF x = b THEN d ELSE content[x]]
    /\ UNCHANGED size

\* A read that finds the block in memory.
ReadCached(b) ==
    /\ b \in InMemory(TheCache)
    /\ held[b] < MaxHeld
    /\ Becomes(Hit(TheCache, b), b, content[b])
    /\ held' = [held EXCEPT ![b] = @ + 1]

\* A read that has to go to the file, and succeeds.
ReadFile(b) ==
    /\ b \notin InMemory(TheCache)
    /\ Becomes(Fetch(TheCache, b), b, "read")
    /\ held' = [held EXCEPT ![b] = 1]

\* file_data_read of a block the file does not have: the entry made for it is
\* given back, and stays.
ReadFails(b) ==
    /\ b \notin Packed
    /\ b \notin InMemory(TheCache)
    /\ Becomes([Fetch(TheCache, b) EXCEPT !.usage[b] = @ - 1], b, "garbage")
    /\ UNCHANGED held

\* an error: it is only given back
UnpackFailsKept(b) ==
    /\ b \in Packed
    /\ b \notin InMemory(TheCache)
    /\ Becomes([Fetch(TheCache, b) EXCEPT !.usage[b] = @ - 1], b, "garbage")
    /\ UNCHANGED held
\* file_data_read_method of a block that cannot be read or unpacked: the entry
\* made for it is removed.
UnpackFails(b) ==
    /\ b \in Packed
    /\ b \notin InMemory(TheCache)
    /\ Becomes(Flush(Fetch(TheCache, b), b), b, "none")
    /\ UNCHANGED held

\* file_data_free
FileDataFree(b) ==
    /\ held[b] > 0
    /\ usage' = [usage EXCEPT ![b] = @ - 1]
    /\ held' = [held EXCEPT ![b] = @ - 1]
    /\ UNCHANGED <<list, hash, target, size, content>>

\* file_data_write: only vehicle_file.c writes, to a file it does not read.
FileDataWrite(b) ==
    /\ held[b] = 0
    /\ Becomes(Flush(TheCache, b), b, "none")
    /\ UNCHANGED held

\* config_set_attr: the size is a number, nothing is let go for it
FileSetCacheSize(n) ==
    /\ size' = n
    /\ UNCHANGED <<list, hash, usage, target, content, held>>

\* file_deinit at the end of the program, file_init when it starts again
FileDeinit ==
    /\ \A b \in Block : held[b] = 0
    /\ list' = EmptyLists
    /\ hash' = {}
    /\ usage' = [b \in Block |-> 0]
    /\ target' = 0
    /\ size' = InitSize
    /\ content' = [b \in Block |-> "none"]
    /\ UNCHANGED held

Next ==
    \/ \E b \in Block :
           \/ ReadCached(b)
           \/ ReadFile(b)
           \/ ReadFails(b)
           \/ UnpackFails(b)
           \/ FileDataFree(b)
           \/ FileDataWrite(b)
    \/ \E n \in Sizes : FileSetCacheSize(n)
    \/ FileDeinit

Spec == Init /\ [][Next]_vars

-----------------------------------------------------------------------------
(***************************************************************************)
(* Properties.                                                             *)
(***************************************************************************)
\* A block that somebody uses is in memory, and its use count is the number of
\* its users: making room never takes it (cache_remove_lru, cache.c:144).
InUseIsKept ==
    \A b \in Block : /\ held[b] > 0 => b \in InMemory(TheCache)
                     /\ usage[b] = held[b]

\* An identity has one entry, in one list, exactly when the hash knows it.
OneEntryEach ==
    /\ \A l \in Lists : \A i, j \in DOMAIN list[l] : list[l][i] = list[l][j] => i = j
    /\ \A l, m \in Lists : l # m => Members(TheCache, l) \cap Members(TheCache, m) = {}
    /\ hash = UNION {Members(TheCache, l) : l \in Lists}

\* A packed block that is handed out holds what was unpacked: a failure leaves
\* no entry that a later read would find (file.c:535).
UnpackedIsRead ==
    \A b \in Packed : b \in InMemory(TheCache) => content[b] = "read"

\* A block that is read when the cache is full takes the place of one that is
\* not in use, in whichever list, unless t1 alone fills the cache: then only
\* t1 is searched (cache_insert, cache_replace).
MakesRoom ==
    [][\A b \in Block :
          ( /\ b \in InMemory(TheCache)' \ InMemory(TheCache)
            /\ Bytes(TheCache, "t1") < size
            /\ Bytes(TheCache, "t1") + Bytes(TheCache, "t2") >= size
            /\ \E x \in InMemory(TheCache) : held[x] = 0 )
          => ~(InMemory(TheCache) \subseteq InMemory(TheCache)')]_vars

\* The cache keeps the promise of BlockCache, whatever it lets go.
Promise == INSTANCE BlockCache WITH cached <- InMemory(TheCache)
KeepsPromise == Promise!Spec
=============================================================================
