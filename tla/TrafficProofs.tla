--------------------------- MODULE TrafficProofs ---------------------------
(***************************************************************************)
(* Proofs about Traffic, for any messages, locations and segments: what    *)
(* the graph has of the messages is all there, and no more.                *)
(*                                                                         *)
(* The invariant follows the build of the graph.  Once it has opened the   *)
(* traffic map, what was reported is in the graph or about to be read, and *)
(* every message ahead has been matched; at its end nothing is left to be  *)
(* read.  Reports that come in between change the graph and the items to   *)
(* be read together (ChangeGraph), which is one lemma for all of them.     *)
(* A second invariant follows the messages between store, file and queue.  *)
(***************************************************************************)
EXTENDS Traffic, FiniteSetTheorems, SequenceTheorems, TLAPS

\* Without a graph there are neither distortions nor items to be read.
NoGraphIsEmpty == ~HasGraph => dist = {} /\ unread = {}

\* A graph is ready when the traffic map has been opened and read.
ReadyIsRead == route = "ready" => opened /\ unread = {}

\* What is reported is in the graph or about to be read into it, unless the
\* rect of the build was cut off.
InForceOnceOpened ==
    HasGraph /\ opened /\ ~astray =>
        \A i \in Reported(AllItems(messages)) :
            i.seg \notin lifted => i \in dist \cup unread

Matched(ms) ==
    \A id \in Id : ms[id] # None /\ ms[id].loc \in Ahead
                       => ms[id].items # "unresolved"

MatchedOnceOpened == HasGraph /\ opened => Matched(messages)

GraphInv == /\ NoGraphIsEmpty /\ ReadyIsRead
            /\ NoneOutstaysItsMessage /\ InForceOnceOpened

IInv == TypeOK /\ GraphInv /\ MatchedOnceOpened

Stores == [Id -> Stored \cup {None}]

-----------------------------------------------------------------------------
(* Items and messages *)

\* None is not taken for a message.
LEMMA NoneIsNoMessage ==
    ASSUME NEW m \in Stored
    PROVE  m # None /\ m.items # "no message"
<1>1. m.items \in {"unresolved", "reported", "restored"}
  BY DEF Stored
<1>2. None.items = "no message"
  BY DEF None
<1> QED BY <1>1, <1>2

\* The items of a message are items of its id, with its data.
LEMMA ItemsOfType ==
    ASSUME NEW id \in Id, NEW m \in Stored \cup {None}
    PROVE  /\ ItemsOf(id, m) \in SUBSET Item
           /\ \A i \in ItemsOf(id, m) : i.id = id
<1>1. CASE m = None
  BY <1>1 DEF ItemsOf
<1>2. CASE m \in Stored /\ m.items = "unresolved"
  BY <1>2 DEF ItemsOf
<1>3. CASE m \in Stored /\ m.items # "unresolved"
  <2>1. m.items \in {"reported", "restored"} /\ m.data \in Data /\ m.loc \in Loc
    BY <1>3 DEF Stored
  <2>2. Covers[m.loc] \in SUBSET Seg
    BY <2>1, TrafficAssumption
  <2>3. ItemsOf(id, m) = {[seg |-> s, id |-> id, data |-> m.data,
                           made |-> m.items] : s \in Covers[m.loc]}
    BY <1>3, NoneIsNoMessage DEF ItemsOf
  <2> QED BY <2>1, <2>2, <2>3 DEF Item
<1> QED BY <1>1, <1>2, <1>3

LEMMA AllItemsType ==
    ASSUME NEW ms \in Stores
    PROVE  AllItems(ms) \in SUBSET Item
<1>1. \A id \in Id : ItemsOf(id, ms[id]) \in SUBSET Item
  BY ItemsOfType DEF Stores
<1> QED BY <1>1 DEF AllItems

\* When the messages in gone change, their items go and new ones come.
LEMMA ItemsAfter ==
    ASSUME NEW ms \in Stores, NEW after \in Stores, NEW gone \in SUBSET Id,
           \A id \in Id \ gone : after[id] = ms[id]
    PROVE  AllItems(after) = (AllItems(ms)
                                \ UNION {ItemsOf(id, ms[id]) : id \in gone})
                             \cup UNION {ItemsOf(id, after[id]) : id \in gone}
<1> DEFINE old == UNION {ItemsOf(id, ms[id]) : id \in gone}
           new == UNION {ItemsOf(id, after[id]) : id \in gone}
<1>1. \A id \in Id : \A i \in ItemsOf(id, ms[id]) : i.id = id
  BY ItemsOfType DEF Stores
<1>2. ASSUME NEW i \in AllItems(after), i \notin new
      PROVE  i \in AllItems(ms) /\ i \notin old
  <2>1. PICK id \in Id : i \in ItemsOf(id, after[id])
    BY <1>2 DEF AllItems
  <2>2. id \notin gone
    BY <1>2, <2>1
  <2>3. i \in ItemsOf(id, ms[id])
    BY <2>1, <2>2
  <2>4. i \notin old
    BY <1>1, <2>2, <2>3
  <2> QED BY <2>3, <2>4 DEF AllItems
<1>3. ASSUME NEW i \in AllItems(ms), i \notin old
      PROVE  i \in AllItems(after)
  <2>1. PICK id \in Id : i \in ItemsOf(id, ms[id])
    BY <1>3 DEF AllItems
  <2>2. id \notin gone
    BY <1>3, <2>1
  <2> QED BY <2>1, <2>2 DEF AllItems
<1>4. new \subseteq AllItems(after)
  BY DEF AllItems
<1> QED BY <1>2, <1>3, <1>4

\* Matching a message adds items, and takes none away.
LEMMA ResolutionsType ==
    ASSUME NEW m \in Stored, NEW r \in Resolutions(m)
    PROVE  /\ r \in Stored
           /\ r.items # "unresolved"
           /\ m.items # "unresolved" => r = m
           /\ r.loc = m.loc /\ r.data = m.data /\ r.expires = m.expires
<1>1. CASE m.items # "unresolved"
  BY <1>1 DEF Resolutions
<1>2. CASE m.items = "unresolved"
  <2>1. PICK how \in {"reported", "restored"} :
                r = [m EXCEPT !.items = how, !.text = FALSE]
    BY <1>2 DEF Resolutions
  <2> QED BY <1>2, <2>1 DEF Stored
<1> QED BY <1>1, <1>2

LEMMA ResolvedType ==
    ASSUME NEW ms \in Stores, NEW locs \in SUBSET Loc,
           NEW r \in Resolved(ms, locs)
    PROVE  /\ r \in Stores
           /\ \A id \in Id :
                /\ r[id] = None <=> ms[id] = None
                /\ ms[id] # None => /\ r[id].loc = ms[id].loc
                                    /\ r[id].data = ms[id].data
                                    /\ r[id].expires = ms[id].expires
                /\ ms[id] # None /\ ms[id].items # "unresolved" => r[id] = ms[id]
                /\ ms[id] # None /\ ms[id].loc \in locs
                       => r[id].items # "unresolved"
<1>1. /\ DOMAIN r = Id /\ r = [id \in Id |-> r[id]]
      /\ \A id \in Id :
           r[id] \in IF ms[id] # None /\ ms[id].loc \in locs
                     THEN Resolutions(ms[id]) ELSE {ms[id]}
  BY DEF Resolved
<1>2. ASSUME NEW id \in Id
      PROVE  /\ r[id] \in Stored \cup {None}
             /\ r[id] = None <=> ms[id] = None
             /\ ms[id] # None => /\ r[id].loc = ms[id].loc
                                 /\ r[id].data = ms[id].data
                                 /\ r[id].expires = ms[id].expires
             /\ ms[id] # None /\ ms[id].items # "unresolved" => r[id] = ms[id]
             /\ ms[id] # None /\ ms[id].loc \in locs
                    => r[id].items # "unresolved"
  <2>1. ms[id] \in Stored \cup {None}
    BY DEF Stores
  <2>2. CASE ms[id] # None /\ ms[id].loc \in locs
    <3>1. ms[id] \in Stored /\ r[id] \in Resolutions(ms[id])
      BY <1>1, <2>1, <2>2
    <3>2. /\ r[id] \in Stored /\ r[id].items # "unresolved"
          /\ ms[id].items # "unresolved" => r[id] = ms[id]
          /\ r[id].loc = ms[id].loc
          /\ r[id].data = ms[id].data /\ r[id].expires = ms[id].expires
      BY <3>1, ResolutionsType
    <3> QED BY <2>2, <3>2, NoneIsNoMessage
  <2>3. CASE ~(ms[id] # None /\ ms[id].loc \in locs)
    BY <1>1, <2>1, <2>3
  <2> QED BY <2>2, <2>3
<1> QED BY <1>1, <1>2 DEF Stores

\* Whoever is not matched yet has no items.
LEMMA ItemsGrow ==
    ASSUME NEW ms \in Stores, NEW r \in Stores,
           \A id \in Id : ms[id] # None /\ ms[id].items # "unresolved"
                              => r[id] = ms[id]
    PROVE  AllItems(ms) \subseteq AllItems(r)
<1>1. ASSUME NEW i \in AllItems(ms) PROVE i \in AllItems(r)
  <2>1. PICK id \in Id : i \in ItemsOf(id, ms[id])
    BY <1>1 DEF AllItems
  <2>2. ms[id] # None /\ ms[id].items # "unresolved"
    BY <2>1 DEF ItemsOf
  <2> QED BY <2>1, <2>2 DEF AllItems
<1> QED BY <1>1

\* What is saved is a store without items.
LEMMA DumpedType ==
    ASSUME NEW ms \in Stores
    PROVE  Dumped(ms) \in Stores
<1>1. ASSUME NEW id \in Id, ms[id] # None
      PROVE  [ms[id] EXCEPT !.text = @ \/ ms[id].items # "unresolved",
                            !.items = "unresolved"] \in Stored
  <2>1. ms[id] \in Stored
    BY <1>1 DEF Stores
  <2> QED BY <2>1 DEF Stored
<1> QED BY <1>1 DEF Dumped, Stores

-----------------------------------------------------------------------------
(* The graph follows the items *)

\* What is added to the items of messages, and what is taken from them, is
\* added to and taken from the graph.
LEMMA ChangeKeeps ==
    ASSUME TypeOK, GraphInv, messages' \in Stores,
           NEW new \in SUBSET Item, NEW old \in SUBSET Item,
           AllItems(messages') = (AllItems(messages) \ old) \cup new,
           ChangeGraph(new, old)
    PROVE  /\ dist' \in SUBSET Item /\ unread' \in SUBSET Item
           /\ lifted' \in SUBSET Seg /\ astray' \in BOOLEAN
           /\ GraphInv'
<1> DEFINE cleared == Segs(Reported(old))
<1>1. /\ dist' = IF HasGraph
                 THEN {i \in dist \cup Reported(new) : i.seg \notin cleared}
                 ELSE dist
      /\ ChangeList(new, old)
      /\ lifted' = lifted \cup Segs(old)
      /\ route' = route /\ opened' = opened
  BY DEF ChangeGraph
<1>1a. /\ astray' \in BOOLEAN /\ unread' \subseteq unread \cup new
       /\ ~astray' => ~astray /\ unread' = IF unread = {} THEN {}
                                           ELSE (unread \ old) \cup new
       /\ route # "building" => unread' = IF unread = {} THEN {}
                                          ELSE (unread \ old) \cup new
  <2>1. astray \in BOOLEAN
    BY DEF TypeOK
  <2>2. ChangeList(new, old)
    BY <1>1
  <2>3. CASE /\ ~CutsOffRect(old)
             /\ unread' = IF unread = {} THEN {} ELSE (unread \ old) \cup new
             /\ UNCHANGED astray
    BY <2>1, <2>3
  <2>4. CASE MayCutOffRect(old) /\ unread' \in SUBSET (unread \cup new) /\ astray' = TRUE
    BY <2>4 DEF MayCutOffRect
  <2> QED BY <2>2, <2>3, <2>4 DEF ChangeList
<1>2. /\ Reported(new) \subseteq new
      /\ \A i \in old : i.seg \in Segs(old)
      /\ \A i \in old : i.made = "reported" => i.seg \in cleared
      /\ cleared \subseteq Segs(old)
  BY DEF Reported, Segs
<1>3. dist \in SUBSET Item /\ unread \in SUBSET Item /\ lifted \in SUBSET Seg
  BY DEF TypeOK
<1>4. Segs(old) \in SUBSET Seg
  BY DEF Segs, Item
<1>5. dist' \in SUBSET Item /\ unread' \in SUBSET Item /\ lifted' \in SUBSET Seg
  BY <1>1, <1>1a, <1>2, <1>3, <1>4
<1>6. HasGraph' <=> HasGraph
  BY <1>1 DEF HasGraph
<1>7. NoGraphIsEmpty' /\ ReadyIsRead'
  BY <1>1, <1>1a, <1>6 DEF GraphInv, NoGraphIsEmpty, ReadyIsRead, HasGraph
<1>8. NoneOutstaysItsMessage'
  <2> SUFFICES ASSUME ~astray' PROVE Reported(dist' \cup unread') \subseteq AllItems(messages')
    BY DEF NoneOutstaysItsMessage
  <2>0. ~astray /\ unread' = IF unread = {} THEN {} ELSE (unread \ old) \cup new
    BY <1>1a
  <2>1. ASSUME NEW i \in dist', i.made = "reported"
        PROVE  i \in AllItems(messages')
    <3>1. CASE HasGraph /\ i \in Reported(new)
      BY <1>2, <3>1
    <3>2. CASE HasGraph /\ i \in dist
      <4>1. i \in AllItems(messages)
        BY <2>0, <2>1, <3>2 DEF GraphInv, NoneOutstaysItsMessage, Reported
      <4>2. i.seg \notin cleared
        BY <1>1, <2>1, <3>2
      <4> QED BY <1>2, <2>1, <4>1, <4>2
    <3>3. HasGraph
      BY <1>1, <2>1 DEF GraphInv, NoGraphIsEmpty
    <3> QED BY <1>1, <2>1, <3>1, <3>2, <3>3
  <2>2. ASSUME NEW i \in unread', i.made = "reported"
        PROVE  i \in AllItems(messages')
    <3>1. i \in new \/ (i \in unread /\ i \notin old)
      BY <2>0, <2>2
    <3>2. i \in unread => i \in AllItems(messages)
      BY <2>0, <2>2 DEF GraphInv, NoneOutstaysItsMessage, Reported
    <3> QED BY <3>1, <3>2
  <2> QED BY <2>1, <2>2 DEF Reported
<1>9. InForceOnceOpened'
  <2> SUFFICES ASSUME HasGraph, opened, ~astray',
                      NEW i \in AllItems(messages'), i.made = "reported",
                      i.seg \notin lifted'
               PROVE  i \in dist' \cup unread'
    BY <1>1, <1>6 DEF InForceOnceOpened, Reported
  <2>0. ~astray /\ unread' = IF unread = {} THEN {} ELSE (unread \ old) \cup new
    BY <1>1a
  <2>1. i.seg \notin Segs(old) /\ i.seg \notin lifted
    BY <1>1
  <2>2. i.seg \notin cleared
    BY <1>2, <2>1
  <2>3. CASE i \in new
    <3>1. i \in Reported(new)
      BY <2>3 DEF Reported
    <3> QED BY <1>1, <2>2, <3>1
  <2>4. CASE i \in AllItems(messages) /\ i \notin old
    <3>1. i \in Reported(AllItems(messages))
      BY <2>4 DEF Reported
    <3>2. i \in dist \cup unread
      BY <2>0, <2>1, <3>1 DEF GraphInv, InForceOnceOpened
    <3> QED BY <1>1, <2>0, <2>2, <2>4, <3>2
  <2> QED BY <2>3, <2>4
<1> QED BY <1>1a, <1>5, <1>7, <1>8, <1>9 DEF GraphInv

\* Matching messages, which adds to their items, and nothing else.
LEMMA MatchingKeeps ==
    ASSUME TypeOK, GraphInv, messages' \in Stores,
           \A id \in Id : messages[id] # None /\ messages[id].items # "unresolved"
                              => messages'[id] = messages[id],
           ChangeGraph(AllItems(messages') \ AllItems(messages), {})
    PROVE  /\ dist' \in SUBSET Item /\ unread' \in SUBSET Item
           /\ lifted' \in SUBSET Seg /\ astray' \in BOOLEAN
           /\ GraphInv'
<1>1. messages \in Stores
  BY DEF TypeOK, Stores
<1>2. AllItems(messages') \in SUBSET Item
  BY AllItemsType
<1>3. AllItems(messages) \subseteq AllItems(messages')
  BY <1>1, ItemsGrow
<1> DEFINE new == AllItems(messages') \ AllItems(messages)
<1>4. new \in SUBSET Item /\ {} \in SUBSET Item
  BY <1>2
<1>5. AllItems(messages') = (AllItems(messages) \ {}) \cup new
  BY <1>3
<1> HIDE DEF new
<1>6. ChangeGraph(new, {})
  BY DEF new
<1> QED BY <1>4, <1>5, <1>6, ChangeKeeps

\* What is stored for a message: it is matched if it may concern the route,
\* unless it confirms one that has not been, and then has the same items.
LEMMA StoredAsType ==
    ASSUME messages \in Stores, NEW m \in Message, NEW new \in StoredAs(m)
    PROVE  /\ new \in Stored \cup {None}
           /\ m.data # NoData /\ SwapCandidate(m) =>
                /\ messages[m.id] # None /\ new # None
                /\ new.items = messages[m.id].items
                /\ new.loc = messages[m.id].loc
                /\ new.data = messages[m.id].data
           /\ route # "none" /\ new # None /\ new.loc \in Ahead
                  /\ ~SwapCandidate(m)
              => new.items # "unresolved"
<1>1. /\ m.id \in Id /\ m.loc \in Loc /\ m.data \in Data \cup {NoData}
      /\ m.expires \in Nat /\ m.text \in BOOLEAN
  BY DEF Message
<1>2. messages[m.id] \in Stored \cup {None}
  BY <1>1 DEF Stores
<1>3. CASE m.data = NoData
  BY <1>3 DEF StoredAs
<1>4. CASE m.data # NoData /\ SwapCandidate(m)
  <2>1. messages[m.id] # None /\ messages[m.id] \in Stored
    BY <1>2, <1>4 DEF SwapCandidate
  <2>2. new = [messages[m.id] EXCEPT !.expires = m.expires]
    BY <1>4 DEF StoredAs
  <2>3. /\ new \in Stored /\ new.items = messages[m.id].items
        /\ new.loc = messages[m.id].loc /\ new.data = messages[m.id].data
    BY <1>1, <2>1, <2>2 DEF Stored
  <2> QED BY <1>4, <2>1, <2>3, NoneIsNoMessage
<1>5. CASE m.data # NoData /\ ~SwapCandidate(m)
  <2> DEFINE plain == [loc |-> m.loc, data |-> m.data, expires |-> m.expires,
                       text |-> m.text, items |-> "unresolved"]
  <2>1. plain \in Stored /\ plain.loc = m.loc
    BY <1>1, <1>5 DEF Stored
  <2>2. new \in IF MatchedAtOnce(m) THEN Resolutions(plain) ELSE {plain}
    BY <1>5 DEF StoredAs
  <2> HIDE DEF plain
  <2>3. CASE MatchedAtOnce(m)
    <3>1. new \in Stored /\ new.items # "unresolved"
      BY <2>1, <2>2, <2>3, ResolutionsType
    <3> QED BY <1>5, <3>1
  <2>4. CASE ~MatchedAtOnce(m)
    BY <1>5, <2>1, <2>2, <2>4 DEF MatchedAtOnce
  <2> QED BY <2>3, <2>4
<1> QED BY <1>3, <1>4, <1>5

\* A message that is stored, with its items or with those it takes over.
LEMMA StoreKeeps ==
    ASSUME TypeOK, GraphInv, NEW m \in Message,
           NEW new \in StoredAs(m), Store(m, new)
    PROVE  /\ messages' \in Stores
           /\ dist' \in SUBSET Item /\ unread' \in SUBSET Item
           /\ lifted' \in SUBSET Seg /\ astray' \in BOOLEAN
           /\ GraphInv'
           /\ MatchedOnceOpened => MatchedOnceOpened'
<1>1. messages \in Stores /\ m.id \in Id
  BY DEF TypeOK, Stores, Message
<1>2. messages[m.id] \in Stored \cup {None}
  BY <1>1 DEF Stores
<1>3. messages' = [messages EXCEPT ![m.id] = new]
  BY DEF Store
<1>4. new \in Stored \cup {None}
  BY <1>1, StoredAsType
<1>5. /\ messages' \in Stores /\ messages'[m.id] = new
      /\ \A id \in Id \ {m.id} : messages'[id] = messages[id]
  BY <1>1, <1>3, <1>4 DEF Stores
<1>6. /\ ItemsOf(m.id, new) \in SUBSET Item
      /\ ItemsOf(m.id, messages[m.id]) \in SUBSET Item
  BY <1>1, <1>2, <1>4, ItemsOfType
<1>7. AllItems(messages') = (AllItems(messages)
                               \ ItemsOf(m.id, messages[m.id]))
                            \cup ItemsOf(m.id, new)
  <2>1. AllItems(messages') =
            (AllItems(messages)
                \ UNION {ItemsOf(id, messages[id]) : id \in {m.id}})
            \cup UNION {ItemsOf(id, messages'[id]) : id \in {m.id}}
    <3>1. {m.id} \in SUBSET Id
      BY <1>1
    <3> QED BY <1>1, <1>5, <3>1, ItemsAfter
  <2> QED BY <1>5, <2>1
<1>8. CASE SwapCandidate(m)
  <2>0. m.data # NoData
    BY <1>2, <1>8, TrafficAssumption DEF SwapCandidate, Stored
  <2>1. /\ messages[m.id] # None /\ new # None
        /\ new.items = messages[m.id].items
        /\ new.loc = messages[m.id].loc
        /\ new.data = messages[m.id].data
    BY <1>1, <1>8, <2>0, StoredAsType
  <2>2. ItemsOf(m.id, new) = ItemsOf(m.id, messages[m.id])
    BY <2>1 DEF ItemsOf
  <2>3. ItemsOf(m.id, messages[m.id]) \subseteq AllItems(messages)
    BY <1>1 DEF AllItems
  <2>4. AllItems(messages') = (AllItems(messages) \ {}) \cup {}
    BY <1>7, <2>2, <2>3
  <2>5. ChangeGraph({}, {})
    BY <1>8 DEF Store
  <2>6. ASSUME MatchedOnceOpened PROVE MatchedOnceOpened'
    <3>1. HasGraph' <=> HasGraph
      BY <2>5 DEF HasGraph, ChangeGraph
    <3>2. opened' = opened
      BY <2>5 DEF ChangeGraph
    <3> QED BY <1>1, <1>5, <2>1, <2>6, <3>1, <3>2 DEF MatchedOnceOpened, Matched
  <2> QED BY <1>5, <2>4, <2>5, <2>6, ChangeKeeps
<1>9. CASE ~SwapCandidate(m)
  <2>1. ChangeGraph(ItemsOf(m.id, new), ItemsOf(m.id, messages[m.id]))
    BY <1>9 DEF Store
  <2>2. /\ dist' \in SUBSET Item /\ unread' \in SUBSET Item
        /\ lifted' \in SUBSET Seg /\ astray' \in BOOLEAN
        /\ GraphInv'
    BY <1>5, <1>6, <1>7, <2>1, ChangeKeeps
  <2>3. ASSUME MatchedOnceOpened PROVE MatchedOnceOpened'
    <3>1. HasGraph' <=> HasGraph
      BY <2>1 DEF HasGraph, ChangeGraph
    <3>2. opened' = opened
      BY <2>1 DEF ChangeGraph
    <3>3. ASSUME HasGraph, new # None, new.loc \in Ahead
          PROVE  new.items # "unresolved"
      BY <1>1, <1>9, <3>3, StoredAsType DEF HasGraph
    <3> QED BY <1>1, <1>5, <2>3, <3>1, <3>2, <3>3 DEF MatchedOnceOpened, Matched
  <2> QED BY <1>5, <2>2, <2>3
<1> QED BY <1>8, <1>9

\* The end of a pass: messages that expired go, with their items.
LEMMA FinishPassKeeps ==
    ASSUME IInv, NEW purge \in BOOLEAN, NEW dump \in BOOLEAN, NEW ret \in BOOLEAN,
           FinishPass(purge, dump, ret)
    PROVE  /\ messages' \in Stores /\ disk' \in Stores
           /\ dist' \in SUBSET Item /\ unread' \in SUBSET Item
           /\ lifted' \in SUBSET Seg /\ astray' \in BOOLEAN
           /\ dirty' \in BOOLEAN /\ cut' \in BOOLEAN
           /\ route' = route /\ opened' = opened
           /\ GraphInv' /\ MatchedOnceOpened'
<1>1. messages \in Stores /\ disk \in Stores
  BY DEF IInv, TypeOK, Stores
<1> DEFINE goneNow == {id \in Id : purge /\ messages[id] # None
                                         /\ Expired(messages[id])}
<1>2. PICK gone \in SUBSET Id : gone = goneNow
  OBVIOUS
<1>3. PICK old : old = UNION {ItemsOf(id, messages[id]) : id \in gone}
  OBVIOUS
<1>4. /\ messages' = [id \in Id |-> IF id \in gone THEN None ELSE messages[id]]
      /\ ChangeGraph({}, old)
      /\ dirty' = FALSE
  BY <1>2, <1>3 DEF FinishPass
<1>5. PICK save \in BOOLEAN : /\ disk' = IF save THEN Dumped(messages') ELSE disk
                              /\ cut' = (cut /\ ~save)
  <2>1. \E save \in BOOLEAN :
            save = (dump /\ (ret \/ \E id \in gone :
                                        messages[id].items # "unresolved"))
    OBVIOUS
  <2> QED BY <1>2, <2>1 DEF FinishPass
<1>6. messages' \in Stores
  BY <1>1, <1>4 DEF Stores
<1>7. disk' \in Stores
  BY <1>1, <1>5, <1>6, DumpedType
<1>8. cut' \in BOOLEAN
  <2>1. cut \in BOOLEAN
    BY DEF IInv, TypeOK
  <2> QED BY <1>5, <2>1
<1>9. old \in SUBSET Item
  <2>1. \A id \in gone : ItemsOf(id, messages[id]) \in SUBSET Item
    BY <1>1, ItemsOfType DEF Stores
  <2> QED BY <1>3, <2>1
<1>10. AllItems(messages') = (AllItems(messages) \ old) \cup {}
  <2>1. \A id \in Id \ gone : messages'[id] = messages[id]
    BY <1>4
  <2>2. AllItems(messages') =
            (AllItems(messages) \ old)
            \cup UNION {ItemsOf(id, messages'[id]) : id \in gone}
    BY <1>1, <1>3, <1>6, <2>1, ItemsAfter
  <2>3. \A id \in gone : ItemsOf(id, messages'[id]) = {}
    BY <1>4 DEF ItemsOf
  <2> QED BY <2>2, <2>3
<1>11. /\ dist' \in SUBSET Item /\ unread' \in SUBSET Item
       /\ lifted' \in SUBSET Seg /\ astray' \in BOOLEAN
       /\ GraphInv'
  BY <1>4, <1>6, <1>9, <1>10, ChangeKeeps DEF IInv
<1>12. route' = route /\ opened' = opened
  BY <1>4 DEF ChangeGraph
<1>13. MatchedOnceOpened'
  BY <1>4, <1>12 DEF IInv, MatchedOnceOpened, Matched, HasGraph
<1> QED BY <1>4, <1>6, <1>7, <1>8, <1>11, <1>12, <1>13

\* The map is opened: the store stays a store, and what was matched stays.
LEMMA OpenKeeps ==
    ASSUME IInv, NEW locs \in SUBSET Loc, OpenTrafficMap(locs)
    PROVE  /\ messages' \in Stores /\ disk' \in Stores
           /\ \A id \in Id : messages[id] # None /\ messages[id].items # "unresolved"
                                 => messages'[id] = messages[id]
           /\ Matched(messages) => Matched(messages')
           /\ locs = Ahead => Matched(messages')
<1>1. messages \in Stores /\ disk \in Stores
  BY DEF IInv, TypeOK, Stores
<1>2. messages' \in Resolved(messages, locs)
  BY DEF OpenTrafficMap
<1>3. PICK r \in Resolved(messages, locs) : r = messages'
  BY <1>2
<1>4. /\ r \in Stores
      /\ \A id \in Id :
           /\ r[id] = None <=> messages[id] = None
           /\ messages[id] # None => r[id].loc = messages[id].loc
           /\ messages[id] # None /\ messages[id].items # "unresolved"
                  => r[id] = messages[id]
           /\ messages[id] # None /\ messages[id].loc \in locs
                  => r[id].items # "unresolved"
  BY <1>1, <1>3, ResolvedType
<1>5. disk' \in Stores
  <2>1. disk' = IF messages' # messages THEN Dumped(messages') ELSE disk
    BY DEF OpenTrafficMap
  <2> QED BY <1>1, <1>3, <1>4, <2>1, DumpedType
<1>6. Matched(messages) => Matched(r)
  BY <1>4 DEF Matched
<1>7. locs = Ahead => Matched(r)
  BY <1>4 DEF Matched
<1> QED BY <1>3, <1>4, <1>5, <1>6, <1>7

-----------------------------------------------------------------------------
(* The invariant *)

LEMMA InitInv == Init => IInv
<1> SUFFICES ASSUME Init PROVE IInv
  OBVIOUS
<1>1. TypeOK
  <2>1. Nothing \in [Id -> Stored \cup {None}]
    BY DEF Nothing
  <2>2. 0 \in 0 .. MaxTime /\ 0 \in 0 .. MaxReceived /\ 0 \in 0 .. MaxRestarts
    BY TrafficAssumption
  <2>3. message_queue \in Seq(Message)
    BY DEF Init
  <2> QED BY <2>1, <2>2, <2>3 DEF Init, TypeOK
<1>2. dist = {} /\ unread = {} /\ route = "none"
  BY DEF Init
<1> QED BY <1>1, <1>2
        DEF IInv, GraphInv, NoGraphIsEmpty, ReadyIsRead, NoneOutstaysItsMessage,
            InForceOnceOpened, MatchedOnceOpened, HasGraph, Reported

\* What a change of the graph leaves as it was.
LEMMA SameBuild ==
    ASSUME NEW new, NEW old, ChangeGraph(new, old)
    PROVE  route' = route /\ opened' = opened
BY DEF ChangeGraph

LEMMA DirtyIsBoolean ==
    ASSUME dirty \in BOOLEAN, MarkDirty
    PROVE  dirty' \in BOOLEAN
BY DEF MarkDirty

LEMMA ProcessMessageInv == IInv /\ ProcessMessage => IInv'
<1> SUFFICES ASSUME IInv, ProcessMessage PROVE IInv'
  OBVIOUS
<1>1. PICK m : m = Head(message_queue)
  OBVIOUS
<1>2. m \in Message /\ Tail(message_queue) \in Seq(Message)
  BY <1>1 DEF IInv, TypeOK, ProcessMessage
<1>3. /\ message_queue' \in Seq(Message) /\ running' \in BOOLEAN
      /\ idle' \in {"none", "load", "api", "timer"}
      /\ disk' \in Stores /\ now' \in 0 .. MaxTime
      /\ received' \in 0 .. MaxReceived /\ restarts' \in 0 .. MaxRestarts
      /\ cut' \in BOOLEAN
  BY <1>2 DEF IInv, TypeOK, ProcessMessage, boundVars, Stores
<1>4. updated \in BOOLEAN /\ running \in BOOLEAN /\ dirty \in BOOLEAN
  BY DEF IInv, TypeOK
<1>5. CASE /\ updated' = (running /\ updated)
           /\ UNCHANGED <<messages, graphVars>>
  <2>1. updated' \in BOOLEAN
    BY <1>4, <1>5
  <2>2. TypeOK'
    BY <1>3, <1>5, <2>1 DEF IInv, TypeOK, graphVars, Stores
  <2> QED BY <1>5, <2>2
          DEF IInv, GraphInv, NoGraphIsEmpty, ReadyIsRead, graphVars,
              NoneOutstaysItsMessage, InForceOnceOpened, MatchedOnceOpened,
              HasGraph
<1>6. ASSUME NEW new \in StoredAs(m), Store(m, new), MarkDirty, updated' = TRUE
      PROVE  IInv'
  <2>1. /\ messages' \in Stores
        /\ dist' \in SUBSET Item /\ unread' \in SUBSET Item
        /\ lifted' \in SUBSET Seg /\ astray' \in BOOLEAN
        /\ GraphInv' /\ MatchedOnceOpened'
    BY <1>2, <1>6, StoreKeeps DEF IInv
  <2>2. dirty' \in BOOLEAN
    BY <1>4, <1>6, DirtyIsBoolean
  <2>3. route' = route /\ opened' = opened
    BY <1>6, SameBuild DEF Store
  <2>4. TypeOK'
    BY <1>3, <1>6, <2>1, <2>2, <2>3 DEF IInv, TypeOK, Stores
  <2> QED BY <2>1, <2>4 DEF IInv
<1> QED BY <1>1, <1>5, <1>6 DEF ProcessMessage

LEMMA SliceEndsInv == IInv /\ SliceEnds => IInv'
<1> SUFFICES ASSUME IInv, SliceEnds PROVE IInv'
  OBVIOUS
<1>1. TypeOK'
  BY DEF IInv, TypeOK, SliceEnds, graphVars, boundVars
<1> QED BY <1>1
        DEF IInv, SliceEnds, graphVars, GraphInv, NoGraphIsEmpty, ReadyIsRead,
            NoneOutstaysItsMessage, InForceOnceOpened, MatchedOnceOpened, HasGraph

LEMMA PassEndsInv == IInv /\ PassEnds => IInv'
<1> SUFFICES ASSUME IInv, PassEnds PROVE IInv'
  OBVIOUS
<1>1. PICK purge \in BOOLEAN, dump \in BOOLEAN, ret \in BOOLEAN :
          FinishPass(purge, dump, ret)
  <2>1. PICK purge \in BOOLEAN : purge = (idle = "timer")
    OBVIOUS
  <2>2. PICK dump \in BOOLEAN : dump = (idle # "load")
    OBVIOUS
  <2>3. updated \in BOOLEAN
    BY DEF IInv, TypeOK
  <2>4. FinishPass(purge, dump, updated)
    BY <2>1, <2>2 DEF PassEnds
  <2> QED BY <2>3, <2>4
<1>2. /\ messages' \in Stores /\ disk' \in Stores
      /\ dist' \in SUBSET Item /\ unread' \in SUBSET Item
      /\ lifted' \in SUBSET Seg /\ astray' \in BOOLEAN
      /\ dirty' \in BOOLEAN /\ cut' \in BOOLEAN
      /\ route' = route /\ opened' = opened
      /\ GraphInv' /\ MatchedOnceOpened'
  BY <1>1, FinishPassKeeps
<1>3. TypeOK'
  BY <1>2 DEF IInv, TypeOK, PassEnds, boundVars, Stores
<1> QED BY <1>2, <1>3 DEF IInv

LEMMA PollInv ==
    ASSUME IInv, NEW new \in Seq(Message), Poll(new)
    PROVE  IInv'
<1>1. /\ message_queue' \in Seq(Message)
      /\ received' \in 0 .. MaxReceived
      /\ running' = running /\ updated' = updated /\ now' = now
      /\ restarts' = restarts
  <2>1. message_queue \in Seq(Message) /\ received \in 0 .. MaxReceived
    BY DEF IInv, TypeOK
  <2>2. Len(new) \in Nat
    OBVIOUS
  <2>3. received + Len(new) <= MaxReceived /\ received' = received + Len(new)
    BY DEF Poll
  <2> QED BY <2>1, <2>2, <2>3, TrafficAssumption DEF Poll
<1>2. CASE /\ idle' = "timer"
           /\ UNCHANGED <<messages, disk, graphVars, cut>>
  <2>1. TypeOK'
    BY <1>1, <1>2 DEF IInv, TypeOK, graphVars
  <2> QED BY <1>2, <2>1
          DEF IInv, graphVars, GraphInv, NoGraphIsEmpty, ReadyIsRead,
              NoneOutstaysItsMessage, InForceOnceOpened, MatchedOnceOpened,
              HasGraph
<1>3. CASE FinishPass(TRUE, TRUE, FALSE) /\ UNCHANGED idle
  <2>1. /\ messages' \in Stores /\ disk' \in Stores
        /\ dist' \in SUBSET Item /\ unread' \in SUBSET Item
        /\ lifted' \in SUBSET Seg /\ astray' \in BOOLEAN
        /\ dirty' \in BOOLEAN /\ cut' \in BOOLEAN
        /\ route' = route /\ opened' = opened
        /\ GraphInv' /\ MatchedOnceOpened'
    BY <1>3, FinishPassKeeps
  <2>2. TypeOK'
    BY <1>1, <1>3, <2>1 DEF IInv, TypeOK, Stores
  <2> QED BY <2>1, <2>2 DEF IInv
<1> QED BY <1>2, <1>3 DEF Poll

LEMMA ReceiveInv == IInv /\ Receive => IInv'
<1> SUFFICES ASSUME IInv, Receive PROVE IInv'
  OBVIOUS
<1>1. PICK m \in Feed : message_queue' = Append(message_queue, m)
  BY DEF Receive
<1>2. message_queue' \in Seq(Message)
  BY <1>1, TrafficAssumption DEF IInv, TypeOK
<1>3. received' \in 0 .. MaxReceived
  BY TrafficAssumption DEF IInv, TypeOK, Receive
<1>4. TypeOK'
  BY <1>2, <1>3 DEF IInv, TypeOK, Receive, graphVars
<1> QED BY <1>4
        DEF IInv, Receive, graphVars, GraphInv, NoGraphIsEmpty, ReadyIsRead,
            NoneOutstaysItsMessage, InForceOnceOpened, MatchedOnceOpened, HasGraph

LEMMA DrawMapInv == IInv /\ DrawMap => IInv'
<1> SUFFICES ASSUME IInv, DrawMap PROVE IInv'
  OBVIOUS
<1>1. PICK locs \in SUBSET Loc : OpenTrafficMap(locs)
  BY DEF DrawMap
<1>2. /\ messages' \in Stores /\ disk' \in Stores
      /\ \A id \in Id : messages[id] # None /\ messages[id].items # "unresolved"
                            => messages'[id] = messages[id]
      /\ Matched(messages) => Matched(messages')
  BY <1>1, OpenKeeps
<1>3. ChangeGraph(AllItems(messages') \ AllItems(messages), {})
  BY DEF DrawMap
<1>4. /\ dist' \in SUBSET Item /\ unread' \in SUBSET Item
      /\ lifted' \in SUBSET Seg /\ astray' \in BOOLEAN
      /\ GraphInv'
  BY <1>2, <1>3, MatchingKeeps DEF IInv
<1>5. route' = route /\ opened' = opened
  BY <1>3 DEF ChangeGraph
<1>6. dirty' \in BOOLEAN
  BY DirtyIsBoolean DEF DrawMap, IInv, TypeOK
<1>7. MatchedOnceOpened'
  <2>1. MatchedOnceOpened
    BY DEF IInv
  <2> QED BY <1>2, <1>5, <2>1 DEF MatchedOnceOpened, HasGraph, Matched
<1>8. TypeOK'
  BY <1>2, <1>4, <1>5, <1>6
     DEF IInv, TypeOK, DrawMap, queueVars, boundVars, Stores
<1> QED BY <1>4, <1>7, <1>8 DEF IInv

LEMMA GetStoredInv == IInv /\ GetStoredMessages => IInv'
<1> SUFFICES ASSUME IInv, GetStoredMessages PROVE IInv'
  OBVIOUS
<1>1. messages \in Stores
  BY DEF IInv, TypeOK, Stores
<1>2. messages' = [id \in Id |->
          IF messages[id] # None /\ messages[id].items = "unresolved"
          THEN [messages[id] EXCEPT !.items = "reported"] ELSE messages[id]]
  BY DEF GetStoredMessages
<1>3. messages' \in Stores
  <2>1. ASSUME NEW id \in Id, messages[id] # None
        PROVE  [messages[id] EXCEPT !.items = "reported"] \in Stored
    BY <1>1, <2>1 DEF Stores, Stored
  <2> QED BY <1>1, <1>2, <2>1 DEF Stores
<1>4. \A id \in Id : messages[id] # None /\ messages[id].items # "unresolved"
                         => messages'[id] = messages[id]
  BY <1>2
<1>5. ChangeGraph(AllItems(messages') \ AllItems(messages), {})
  BY DEF GetStoredMessages
<1>6. /\ dist' \in SUBSET Item /\ unread' \in SUBSET Item
      /\ lifted' \in SUBSET Seg /\ astray' \in BOOLEAN
      /\ GraphInv'
  BY <1>3, <1>4, <1>5, MatchingKeeps DEF IInv
<1>7. route' = route /\ opened' = opened
  BY <1>5 DEF ChangeGraph
<1>8. dirty' \in BOOLEAN
  BY DirtyIsBoolean DEF GetStoredMessages, IInv, TypeOK
<1>9. Matched(messages')
  <2>1. ASSUME NEW id \in Id, messages'[id] # None
        PROVE  messages'[id].items # "unresolved"
    <3>1. messages[id] \in Stored
      BY <1>1, <1>2, <2>1 DEF Stores
    <3> QED BY <1>2, <2>1, <3>1, NoneIsNoMessage DEF Stored
  <2> QED BY <2>1 DEF Matched
<1>10. TypeOK'
  BY <1>3, <1>6, <1>7, <1>8
     DEF IInv, TypeOK, GetStoredMessages, queueVars, boundVars, Stores
<1> QED BY <1>6, <1>9, <1>10 DEF IInv, MatchedOnceOpened, Matched

LEMMA RestartInv == IInv /\ Restart => IInv'
<1> SUFFICES ASSUME IInv, Restart PROVE IInv'
  OBVIOUS
<1>1. PICK saved : saved = {id \in Id : disk[id] # None}
  OBVIOUS
<1>2. PICK q \in SetToSeqs(saved) :
          message_queue' = [i \in DOMAIN q |->
              [id |-> q[i], loc |-> disk[q[i]].loc, data |-> disk[q[i]].data,
               expires |-> disk[q[i]].expires, text |-> disk[q[i]].text]]
  BY <1>1 DEF Restart
<1>3. PICK n \in Nat : n = Cardinality(saved)
  <2>1. saved \in SUBSET Id /\ IsFiniteSet(Id)
    BY <1>1, TrafficAssumption
  <2>2. IsFiniteSet(saved)
    BY <2>1, FS_Subset
  <2> QED BY <2>2, FS_CardinalityType
<1>4. q \in [1 .. n -> saved]
  BY <1>2, <1>3 DEF SetToSeqs
<1>5. ASSUME NEW i \in 1 .. n
      PROVE  [id |-> q[i], loc |-> disk[q[i]].loc, data |-> disk[q[i]].data,
              expires |-> disk[q[i]].expires, text |-> disk[q[i]].text] \in Message
  <2>1. q[i] \in Id /\ disk[q[i]] # None
    BY <1>1, <1>4, <1>5
  <2>2. disk[q[i]] \in Stored
    BY <2>1 DEF IInv, TypeOK
  <2> QED BY <2>1, <2>2 DEF Stored, Message
<1>6. message_queue' \in Seq(Message)
  <2>1. DOMAIN q = 1 .. n
    BY <1>4
  <2>2. message_queue' = [i \in 1 .. n |->
              [id |-> q[i], loc |-> disk[q[i]].loc, data |-> disk[q[i]].data,
               expires |-> disk[q[i]].expires, text |-> disk[q[i]].text]]
    BY <1>2, <2>1
  <2>3. message_queue' \in [1 .. n -> Message]
    BY <1>5, <2>2
  <2> QED BY <1>3, <2>3, SeqDef
<1>7. messages' \in Stores
  BY DEF Restart, Nothing, Stores
<1>8. restarts' \in 0 .. MaxRestarts
  BY TrafficAssumption DEF IInv, TypeOK, Restart
<1>9. TypeOK'
  BY <1>6, <1>7, <1>8 DEF IInv, TypeOK, Restart, Stores
<1>10. dist' = {} /\ unread' = {} /\ ~HasGraph' /\ route' = "none"
  BY DEF Restart, HasGraph
<1> QED BY <1>9, <1>10
        DEF IInv, GraphInv, NoGraphIsEmpty, ReadyIsRead, NoneOutstaysItsMessage,
            InForceOnceOpened, MatchedOnceOpened, Reported

LEMMA TickInv == IInv /\ Tick => IInv'
<1> SUFFICES ASSUME IInv, Tick PROVE IInv'
  OBVIOUS
<1>1. now' \in 0 .. MaxTime
  BY TrafficAssumption DEF IInv, TypeOK, Tick
<1>2. TypeOK'
  BY <1>1 DEF IInv, TypeOK, Tick, queueVars, graphVars
<1> QED BY <1>2
        DEF IInv, Tick, graphVars, GraphInv, NoGraphIsEmpty, ReadyIsRead,
            NoneOutstaysItsMessage, InForceOnceOpened, MatchedOnceOpened, HasGraph

\* Without items in the graph, and before the map is opened, all is kept.
LEMMA DropGraphInv ==
    ASSUME IInv, NEW becomes \in {"none", "set", "building"}, DropGraph(becomes)
    PROVE  IInv'
<1>1. TypeOK'
  BY DEF IInv, TypeOK, DropGraph, queueVars, boundVars
<1>2. /\ dist' = {} /\ unread' = {} /\ opened' = FALSE
      /\ route' # "ready"
  BY DEF DropGraph
<1> QED BY <1>1, <1>2
        DEF IInv, GraphInv, NoGraphIsEmpty, ReadyIsRead, NoneOutstaysItsMessage,
            InForceOnceOpened, MatchedOnceOpened, Reported

LEMMA BuildOpensMapInv == IInv /\ BuildOpensMap => IInv'
<1> SUFFICES ASSUME IInv, BuildOpensMap PROVE IInv'
  OBVIOUS
<1>1. messages \in Stores /\ Ahead \in SUBSET Loc /\ OpenTrafficMap(Ahead)
  BY TrafficAssumption DEF IInv, TypeOK, Stores, BuildOpensMap
<1>2. /\ messages' \in Stores /\ disk' \in Stores
      /\ \A id \in Id : messages[id] # None /\ messages[id].items # "unresolved"
                            => messages'[id] = messages[id]
      /\ Matched(messages')
  BY <1>1, OpenKeeps
<1>3. AllItems(messages') \in SUBSET Item
  BY <1>2, AllItemsType
<1>4. AllItems(messages) \subseteq AllItems(messages')
  BY <1>1, <1>2, ItemsGrow
<1>5. /\ dist' = dist \cup Reported(AllItems(messages') \ AllItems(messages))
      /\ unread' = AllItems(messages') /\ opened' = TRUE
      /\ route = "building" /\ route' = route /\ astray' = astray
  BY DEF BuildOpensMap
<1>6. dist' \in SUBSET Item
  BY <1>3, <1>5 DEF IInv, TypeOK, Reported
<1>7. TypeOK'
  BY <1>2, <1>3, <1>5, <1>6
     DEF IInv, TypeOK, BuildOpensMap, queueVars, boundVars, Stores
<1>8. NoneOutstaysItsMessage'
  BY <1>4, <1>5 DEF IInv, GraphInv, NoneOutstaysItsMessage, Reported
<1>9. InForceOnceOpened'
  BY <1>5 DEF InForceOnceOpened, Reported
<1>10. NoGraphIsEmpty' /\ ReadyIsRead' /\ MatchedOnceOpened'
  BY <1>2, <1>5 DEF NoGraphIsEmpty, ReadyIsRead, MatchedOnceOpened, HasGraph,
                    Matched
<1> QED BY <1>7, <1>8, <1>9, <1>10 DEF IInv, GraphInv

LEMMA BuildReadsInv == IInv /\ BuildReads => IInv'
<1> SUFFICES ASSUME IInv, BuildReads PROVE IInv'
  OBVIOUS
<1>1. PICK read \in SUBSET unread : dist' = dist \cup read /\ unread' = unread \ read
  BY DEF BuildReads
<1>2. dist' \cup unread' = dist \cup unread
  BY <1>1
<1>3. TypeOK'
  <2>1. dist' \in SUBSET Item /\ unread' \in SUBSET Item
    BY <1>1 DEF IInv, TypeOK
  <2> QED BY <2>1 DEF IInv, TypeOK, BuildReads, queueVars, boundVars
<1>4. NoneOutstaysItsMessage' /\ InForceOnceOpened'
  BY <1>2 DEF IInv, GraphInv, NoneOutstaysItsMessage, InForceOnceOpened,
              BuildReads, HasGraph, Reported
<1> QED BY <1>3, <1>4
        DEF IInv, GraphInv, NoGraphIsEmpty, ReadyIsRead, MatchedOnceOpened,
            Matched, HasGraph, BuildReads

LEMMA BuildDoneInv == IInv /\ BuildDone => IInv'
<1> SUFFICES ASSUME IInv, BuildDone PROVE IInv'
  OBVIOUS
<1>1. TypeOK'
  BY DEF IInv, TypeOK, BuildDone, queueVars, boundVars
<1> QED BY <1>1
        DEF IInv, BuildDone, GraphInv, NoGraphIsEmpty, ReadyIsRead,
            NoneOutstaysItsMessage, InForceOnceOpened, MatchedOnceOpened,
            Matched, HasGraph

LEMMA NextInv == IInv /\ [Next]_vars => IInv'
<1> SUFFICES ASSUME IInv, [Next]_vars PROVE IInv'
  OBVIOUS
<1>1. CASE PollQuietly
  <2>1. <<>> \in Seq(Message)
    OBVIOUS
  <2> QED BY <1>1, <2>1, PollInv DEF PollQuietly
<1>2. CASE PollReceives
  <2>1. PICK m \in Feed : Poll(<<m>>)
    BY <1>2 DEF PollReceives
  <2>2. <<m>> \in Seq(Message)
    BY TrafficAssumption
  <2> QED BY <2>1, <2>2, PollInv
<1>3. CASE SetDestination
  BY <1>3, DropGraphInv DEF SetDestination
<1>4. CASE ClearDestination
  BY <1>4, DropGraphInv DEF ClearDestination
<1>5. CASE BuildGraph
  BY <1>5, DropGraphInv DEF BuildGraph
<1>6. CASE UNCHANGED vars
  <2>1. TypeOK'
    BY <1>6 DEF IInv, TypeOK, vars, queueVars, graphVars, boundVars
  <2> QED BY <1>6, <2>1
          DEF IInv, vars, graphVars, GraphInv, NoGraphIsEmpty, ReadyIsRead,
              NoneOutstaysItsMessage, InForceOnceOpened, MatchedOnceOpened,
              HasGraph
<1> QED BY <1>1, <1>2, <1>3, <1>4, <1>5, <1>6, ProcessMessageInv, SliceEndsInv,
           PassEndsInv, ReceiveInv, DrawMapInv, GetStoredInv, RestartInv,
           TickInv, BuildOpensMapInv, BuildReadsInv, BuildDoneInv DEF Next

LEMMA InductiveInv == Spec => []IInv
<1> QED BY InitInv, NextInv, PTL DEF Spec

-----------------------------------------------------------------------------
\* The queue and the store hold messages, no cancellation is ever stored, and
\* the items in the graph and in the list it reads are items of messages.
THEOREM TypeCorrect == Spec => []TypeOK
<1>1. IInv => TypeOK
  BY DEF IInv
<1> QED BY <1>1, InductiveInv, PTL

\* Once a message is cancelled, replaced or expired, the graph has none of
\* the distortions made from it, nor does a build of the graph still come
\* upon them: route_remove_traffic_distortion undoes all that was reported.
\* The exception is a build whose rect was cut off.
THEOREM NoneOutstaysCorrect == Spec => []NoneOutstaysItsMessage
<1>1. IInv => NoneOutstaysItsMessage
  BY DEF IInv, GraphInv
<1> QED BY <1>1, InductiveInv, PTL

\* A graph that has been built has every distortion that was reported, before,
\* during or after the build, on the segments from which none was taken,
\* unless the rect of the build was cut off by a removal.
THEOREM InForceCorrect == Spec => []ReportedIsInForce
<1>1. IInv => ReportedIsInForce
  <2> SUFFICES ASSUME IInv, route = "ready", ~astray,
                      NEW i \in Reported(AllItems(messages)), i.seg \notin lifted
               PROVE  i \in dist
    BY DEF ReportedIsInForce
  <2>1. opened /\ unread = {} /\ HasGraph
    BY DEF IInv, GraphInv, ReadyIsRead, HasGraph
  <2> QED BY <2>1 DEF IInv, GraphInv, InForceOnceOpened
<1> QED BY <1>1, InductiveInv, PTL

\* Whatever is ahead of the route has been matched when its graph is ready.
THEOREM MatchedCorrect == Spec => []RouteHasMatchedAhead
<1>1. IInv => RouteHasMatchedAhead
  BY DEF IInv, GraphInv, ReadyIsRead, MatchedOnceOpened, Matched, HasGraph,
         RouteHasMatchedAhead
<1> QED BY <1>1, InductiveInv, PTL

\* A message that only confirms a stored one, for longer perhaps, changes
\* nothing in the graph and makes nothing be recomputed.
THEOREM ConfirmationCorrect == Spec => ConfirmationIsQuiet
<1>1. ASSUME IInv, ProcessMessage, SwapCandidate(Head(message_queue))
      PROVE  UNCHANGED <<dist, unread, dirty>>
  <2>1. PICK m : m = Head(message_queue)
    OBVIOUS
  <2>2. CASE UNCHANGED graphVars
    BY <2>2 DEF graphVars
  <2>3. ASSUME NEW new \in StoredAs(m), Store(m, new), MarkDirty
        PROVE  UNCHANGED <<dist, unread, dirty>>
    <3>1. ChangeGraph({}, {})
      BY <1>1, <2>1, <2>3 DEF Store
    <3>2. Reported({}) = {} /\ Segs({}) = {}
      BY DEF Reported, Segs
    <3>3. dist' = dist /\ unread' = unread
      BY <3>1, <3>2 DEF ChangeGraph, ChangeList, MayCutOffRect
    <3>4. dirty \in BOOLEAN
      BY <1>1 DEF IInv, TypeOK
    <3>5. dirty' = dirty
      BY <2>3, <3>3, <3>4 DEF MarkDirty
    <3> QED BY <3>3, <3>5
  <2> QED BY <1>1, <2>1, <2>2, <2>3 DEF ProcessMessage
<1> QED BY <1>1, InductiveInv, PTL DEF ConfirmationIsQuiet, Spec

-----------------------------------------------------------------------------
(***************************************************************************)
(* What is saved.  While no pass has been cut short, the store and the file *)
(* differ only by what the pass going on will save at its end, and after a  *)
(* start by what the queue has yet to bring back from the file.             *)
(***************************************************************************)
SaysTheSame(m, stored) ==
    /\ stored # None
    /\ m.loc = stored.loc /\ m.data = stored.data /\ m.expires = stored.expires

\* a queue that was read from the file has nothing else
LoadIsFromFile ==
    idle = "load" /\ ~cut =>
        \A i \in DOMAIN message_queue :
            SaysTheSame(message_queue[i], disk[message_queue[i].id])

\* a message of the file is in the store, or will be
Saved(id) == Said(messages[id]) = Said(disk[id])
Returns(id) ==
    /\ messages[id] = None
    /\ \E i \in DOMAIN message_queue :
          message_queue[i].id = id /\ SaysTheSame(message_queue[i], disk[id])

SaveInv ==
    /\ ~running => ~updated
    /\ ~running /\ idle = "load" => message_queue # <<>> /\ (~cut => messages = Nothing)
    /\ LoadIsFromFile
    /\ ~cut /\ (updated => idle = "load") => \A id \in Id : Saved(id) \/ Returns(id)

\* What is said of a message has no more to do with it than when it expires.
LEMMA SaidIs ==
    /\ Said(None) = <<>>
    /\ \A m \in Stored :
         Said(m) = IF m.expires < now THEN <<>> ELSE <<m.loc, m.data, m.expires>>
<1>1. \A m \in Stored : m # None
  BY NoneIsNoMessage
<1> QED BY <1>1 DEF Said, Live, Expired

\* The file says of each message what the store said when it was dumped.
LEMMA DumpedSays ==
    ASSUME NEW ms \in Stores, NEW id \in Id
    PROVE  Said(Dumped(ms)[id]) = Said(ms[id])
<1>1. CASE ms[id] = None
  BY <1>1 DEF Dumped
<1>2. CASE ms[id] # None
  <2>1. ms[id] \in Stored
    BY <1>2 DEF Stores
  <2>2. PICK d : d = [ms[id] EXCEPT !.text = @ \/ ms[id].items # "unresolved",
                                    !.items = "unresolved"]
    OBVIOUS
  <2>3. d \in Stored /\ d.loc = ms[id].loc /\ d.data = ms[id].data
        /\ d.expires = ms[id].expires
    BY <2>1, <2>2 DEF Stored
  <2>4. Dumped(ms)[id] = d
    BY <1>2, <2>2 DEF Dumped
  <2> QED BY <2>1, <2>3, <2>4, SaidIs
<1> QED BY <1>1, <1>2

\* While the clock stands, the same is said of the same messages.
LEMMA SaidStays ==
    ASSUME now' = now, NEW id \in Id,
           messages'[id] = messages[id], disk'[id] = disk[id]
    PROVE  Saved(id)' <=> Saved(id)
BY DEF Saved, Said, Live, Expired

\* The clock cannot tell messages apart that it did not tell apart before.
LEMMA TickSave ==
    ASSUME IInv, SaveInv, Tick
    PROVE  SaveInv'
<1>1. /\ UNCHANGED <<message_queue, idle, running, updated, messages, disk, cut>>
      /\ now \in Nat /\ now' = now + 1
  BY TrafficAssumption DEF IInv, TypeOK, Tick, queueVars
<1>2. ASSUME NEW id \in Id, Saved(id) PROVE Saved(id)'
  <2>1. messages[id] \in Stored \cup {None} /\ disk[id] \in Stored \cup {None}
    BY DEF IInv, TypeOK
  <2>2. \A m \in Stored \cup {None} :
          /\ m \in Stored => m.expires \in Nat /\ m # None
          /\ Said(m) = IF m = None \/ m.expires < now
                       THEN <<>> ELSE <<m.loc, m.data, m.expires>>
          /\ Said(m)' = IF m = None \/ m.expires < now + 1
                        THEN <<>> ELSE <<m.loc, m.data, m.expires>>
    BY <1>1, NoneIsNoMessage DEF Said, Live, Expired, Stored
  <2>3. PICK m \in Stored \cup {None}, d \in Stored \cup {None} :
            m = messages[id] /\ d = disk[id]
    BY <2>1
  <2>4. Said(m) = Said(d)
    BY <1>2, <2>3 DEF Saved
  <2>5. Said(m)' = Said(d)'
    BY <1>1, <2>2, <2>4
  <2> QED BY <1>1, <2>3, <2>5 DEF Saved
<1>3. \A id \in Id : Returns(id)' <=> Returns(id)
  BY <1>1 DEF Returns, SaysTheSame
<1>4. LoadIsFromFile'
  BY <1>1 DEF SaveInv, LoadIsFromFile, SaysTheSame
<1> QED BY <1>1, <1>2, <1>3, <1>4 DEF SaveInv

\* What a message of the file leaves in the store says the same.
LEMMA StoredFromFile ==
    ASSUME messages \in Stores, NEW m \in Message, NEW new \in StoredAs(m),
           NEW d \in Stored, SaysTheSame(m, d)
    PROVE  new \in Stored /\ Said(new) = Said(d)
<1>1. /\ m.id \in Id /\ m.loc \in Loc /\ m.expires \in Nat /\ m.text \in BOOLEAN
      /\ m.data = d.data /\ m.loc = d.loc /\ m.expires = d.expires
      /\ m.data \in Data
  BY DEF Message, SaysTheSame, Stored
<1>2. m.data # NoData
  BY <1>1, TrafficAssumption
<1>3. new \in Stored /\ new.loc = m.loc /\ new.data = m.data
      /\ new.expires = m.expires
  <2>1. CASE SwapCandidate(m)
    <3>1. /\ messages[m.id] \in Stored
          /\ messages[m.id].loc = m.loc /\ messages[m.id].data = m.data
      BY <1>1, <2>1 DEF SwapCandidate, Stores
    <3>2. new = [messages[m.id] EXCEPT !.expires = m.expires]
      BY <1>2, <2>1 DEF StoredAs
    <3> QED BY <1>1, <3>1, <3>2 DEF Stored
  <2>2. CASE ~SwapCandidate(m)
    <3> DEFINE plain == [loc |-> m.loc, data |-> m.data, expires |-> m.expires,
                         text |-> m.text, items |-> "unresolved"]
    <3>1. /\ plain \in Stored /\ plain.loc = m.loc /\ plain.data = m.data
          /\ plain.expires = m.expires
      BY <1>1 DEF Stored
    <3>2. new \in IF MatchedAtOnce(m) THEN Resolutions(plain) ELSE {plain}
      BY <1>2, <2>2 DEF StoredAs
    <3> HIDE DEF plain
    <3>3. new = plain \/ new \in Resolutions(plain)
      BY <3>2
    <3>4. ASSUME new \in Resolutions(plain)
          PROVE  /\ new \in Stored /\ new.loc = plain.loc
                 /\ new.data = plain.data /\ new.expires = plain.expires
      BY <3>1, <3>4, ResolutionsType
    <3> QED BY <3>1, <3>3, <3>4
  <2> QED BY <2>1, <2>2
<1> QED BY <1>1, <1>3, SaidIs

\* A message of the queue: the pass will save it, or it came from the file.
LEMMA ProcessMessageSave ==
    ASSUME IInv, SaveInv, ProcessMessage
    PROVE  SaveInv'
<1>1. PICK m : m = Head(message_queue)
  OBVIOUS
<1>2. PICK q : q = message_queue
  OBVIOUS
<1>3. /\ q \in Seq(Message) /\ q # <<>> /\ m = q[1] /\ m \in Message
      /\ message_queue' = Tail(q)
      /\ UNCHANGED <<idle, disk, now, cut>> /\ running' = TRUE
  BY <1>1, <1>2 DEF IInv, TypeOK, ProcessMessage, boundVars
<1>4. /\ 1 \in DOMAIN q
      /\ \A i \in DOMAIN q : i # 1 => i - 1 \in DOMAIN Tail(q)
                                      /\ Tail(q)[i - 1] = q[i]
      /\ \A i \in DOMAIN Tail(q) : i + 1 \in DOMAIN q /\ Tail(q)[i] = q[i + 1]
  BY <1>3
<1>5. LoadIsFromFile'
  <2> SUFFICES ASSUME idle = "load", ~cut, NEW i \in DOMAIN Tail(q)
               PROVE  SaysTheSame(Tail(q)[i], disk[Tail(q)[i].id])
    BY <1>3 DEF LoadIsFromFile, SaysTheSame
  <2> QED BY <1>2, <1>4 DEF SaveInv, LoadIsFromFile
<1>6. ASSUME NEW id \in Id, messages'[id] = None, NEW i \in DOMAIN q, i # 1,
             q[i].id = id, SaysTheSame(q[i], disk[id])
      PROVE  Returns(id)'
  <2>1. /\ i - 1 \in DOMAIN message_queue' /\ message_queue'[i - 1] = q[i]
        /\ disk' = disk
    BY <1>3, <1>4, <1>6
  <2>2. SaysTheSame(q[i], disk'[id])
    BY <1>6, <2>1
  <2>3. \E j \in DOMAIN message_queue' :
           message_queue'[j].id = id /\ SaysTheSame(message_queue'[j], disk'[id])
    BY <1>6, <2>1, <2>2
  <2> QED BY <1>6, <2>3 DEF Returns, SaysTheSame
<1>7. ASSUME NEW id \in Id, Returns(id), messages'[id] = messages[id],
             id # m.id \/ Said(disk[id]) = <<>>
      PROVE  Saved(id)' \/ Returns(id)'
  <2>1. PICK i \in DOMAIN q : q[i].id = id /\ SaysTheSame(q[i], disk[id])
    BY <1>2, <1>7 DEF Returns
  <2>2. messages'[id] = None
    BY <1>7 DEF Returns
  <2>3. CASE i # 1
    BY <1>6, <2>1, <2>2, <2>3
  <2>4. CASE i = 1
    <3>1. Said(disk[id]) = <<>> /\ Said(messages[id]) = <<>>
      BY <1>3, <1>7, <2>1, <2>2, <2>4, SaidIs
    <3> QED BY <1>3, <1>7, <3>1, SaidStays DEF Saved
  <2> QED BY <2>3, <2>4
<1>8. SaveInv => (~running => ~updated) /\ updated \in BOOLEAN /\ running \in BOOLEAN
  BY DEF SaveInv, IInv, TypeOK
<1>9. CASE /\ Expired(m) /\ updated' = (running /\ updated)
           /\ UNCHANGED <<messages, graphVars>>
  <2>1. updated' = updated
    BY <1>8, <1>9
  <2>2. ASSUME ~cut, updated => idle = "load", NEW id \in Id
        PROVE  Saved(id)' \/ Returns(id)'
    <3>1. CASE Saved(id)
      BY <1>3, <1>9, <3>1, SaidStays
    <3>2. CASE Returns(id) /\ ~(\E i \in DOMAIN q : /\ i # 1 /\ q[i].id = id
                                                    /\ SaysTheSame(q[i], disk[id]))
      <4>1. SaysTheSame(m, disk[id])
        BY <1>2, <1>3, <3>2 DEF Returns
      <4>2. disk[id] \in Stored /\ disk[id].expires < now
        BY <1>9, <4>1 DEF SaysTheSame, Expired, IInv, TypeOK
      <4>3. Said(disk[id]) = <<>>
        BY <4>2, SaidIs
      <4> QED BY <1>7, <1>9, <3>2, <4>3
    <3>3. ASSUME Returns(id), NEW i \in DOMAIN q, i # 1, q[i].id = id,
                 SaysTheSame(q[i], disk[id])
          PROVE  Returns(id)'
      BY <1>9, <1>6, <3>3 DEF Returns
    <3>4. Saved(id) \/ Returns(id)
      BY <2>2 DEF SaveInv
    <3> QED BY <3>1, <3>2, <3>3, <3>4
  <2> QED BY <1>3, <1>5, <2>1, <2>2 DEF SaveInv
<1>10. ASSUME NEW new \in StoredAs(m), Store(m, new), updated' = TRUE
      PROVE  SaveInv'
  <2>1. ASSUME ~cut, idle = "load", NEW id \in Id
        PROVE  Saved(id)' \/ Returns(id)'
    <3>1. messages \in Stores /\ disk \in Stores /\ m.id \in Id
      BY <1>3 DEF IInv, TypeOK, Stores, Message
    <3>2. messages' = [messages EXCEPT ![m.id] = new]
      BY <1>10 DEF Store
    <3>3. CASE id = m.id
      <4>1. SaysTheSame(m, disk[id])
        BY <1>2, <1>3, <1>4, <2>1, <3>3 DEF SaveInv, LoadIsFromFile
      <4>2. disk[id] \in Stored
        BY <3>1, <4>1 DEF SaysTheSame, Stores
      <4>3. Said(new) = Said(disk[id])
        BY <1>3, <1>10, <3>1, <4>1, <4>2, StoredFromFile
      <4>4. messages'[id] = new
        BY <3>1, <3>2, <3>3 DEF Stores
      <4>5. Said(messages'[id]) = Said(disk'[id])
        BY <1>3, <4>3, <4>4
      <4> QED BY <1>3, <4>5 DEF Saved, Said, Live, Expired
    <3>4. CASE id # m.id
      <4>1. messages'[id] = messages[id]
        BY <3>1, <3>2, <3>4 DEF Stores
      <4>2. CASE Saved(id)
        BY <1>3, <4>1, <4>2, SaidStays
      <4>3. CASE Returns(id)
        BY <1>7, <3>4, <4>1, <4>3
      <4> QED BY <2>1, <4>2, <4>3 DEF SaveInv
    <3> QED BY <3>3, <3>4
  <2> QED BY <1>3, <1>5, <1>10, <2>1 DEF SaveInv
<1> QED BY <1>1, <1>9, <1>10 DEF ProcessMessage

\* Where nothing changes but the graph, nothing changes.
LEMMA SameSave ==
    ASSUME SaveInv, now' = now, messages' = messages, disk' = disk, cut' = cut,
           UNCHANGED queueVars
    PROVE  SaveInv'
<1>1. \A id \in Id : (Saved(id)' <=> Saved(id)) /\ (Returns(id)' <=> Returns(id))
  BY SaidStays DEF Returns, SaysTheSame, queueVars
<1>2. LoadIsFromFile' <=> LoadIsFromFile
  BY DEF LoadIsFromFile, SaysTheSame, queueVars
<1> QED BY <1>1, <1>2 DEF SaveInv, queueVars

LEMMA SliceEndsSave ==
    ASSUME SliceEnds PROVE SaveInv'
BY DEF SaveInv, SliceEnds, LoadIsFromFile

\* What a pass that ends has changed is in the file: there is no more to say
\* of messages that expire.
LEMMA FinishPassSays ==
    ASSUME IInv, NEW purge \in BOOLEAN, NEW dump \in BOOLEAN, NEW ret \in BOOLEAN,
           FinishPass(purge, dump, ret), now' = now
    PROVE  \/ /\ disk' = disk /\ cut' = cut /\ ~(dump /\ ret)
              /\ \A id \in Id : Saved(id)' <=> Saved(id)
              /\ messages = Nothing => messages' = Nothing
           \/ \A id \in Id : Saved(id)'
<1> DEFINE goneNow == {id \in Id : purge /\ messages[id] # None
                                         /\ Expired(messages[id])}
           saveNow == dump /\ (ret \/ \E id \in goneNow :
                                         messages[id].items # "unresolved")
<1>1. PICK gone \in SUBSET Id : gone = goneNow
  OBVIOUS
<1>2. PICK save \in BOOLEAN : save = saveNow
  OBVIOUS
<1>3. /\ messages' = [id \in Id |-> IF id \in gone THEN None ELSE messages[id]]
      /\ disk' = IF save THEN Dumped(messages') ELSE disk
      /\ cut' = (cut /\ ~save)
  BY <1>1, <1>2 DEF FinishPass
<1>4. messages \in Stores /\ disk \in Stores /\ messages' \in Stores
      /\ cut \in BOOLEAN
  BY FinishPassKeeps DEF IInv, TypeOK, Stores
<1>5. CASE save
  <2>1. disk' = Dumped(messages')
    BY <1>3, <1>5
  <2>2. PICK ms \in Stores : ms = messages'
    BY <1>4
  <2>3. \A id \in Id : Said(Dumped(ms)[id]) = Said(ms[id])
    BY DumpedSays
  <2>4. \A id \in Id : Saved(id)'
    BY <2>1, <2>2, <2>3 DEF Saved, Said, Live, Expired
  <2> QED BY <2>4
<1>6. CASE ~save
  <2>1. disk' = disk /\ cut' = cut /\ ~(dump /\ ret)
    BY <1>2, <1>3, <1>4, <1>6
  <2>2. ASSUME NEW id \in Id PROVE Saved(id)' <=> Saved(id)
    <3>1. CASE id \in gone
      <4>1. messages'[id] = None /\ messages[id] \in Stored
            /\ messages[id].expires < now
        BY <1>1, <1>3, <1>4, <3>1 DEF Stores, Expired
      <4>2. Said(messages[id]) = Said(None)
        BY <4>1, SaidIs
      <4> QED BY <2>1, <4>1, <4>2 DEF Saved, Said, Live, Expired
    <3>2. CASE id \notin gone
      BY <1>3, <2>1, <3>2, SaidStays
    <3> QED BY <3>1, <3>2
  <2>3. messages = Nothing => messages' = Nothing
    BY <1>3 DEF Nothing
  <2> QED BY <2>1, <2>2, <2>3
<1> QED BY <1>5, <1>6

LEMMA PassEndsSave ==
    ASSUME IInv, SaveInv, PassEnds
    PROVE  SaveInv'
<1>1. /\ message_queue = <<>> /\ message_queue' = <<>> /\ now' = now
      /\ idle' = "none" /\ running' = FALSE /\ updated' = FALSE
  BY DEF PassEnds, boundVars
<1>2. PICK purge \in BOOLEAN, dump \in BOOLEAN, ret \in BOOLEAN :
          /\ FinishPass(purge, dump, ret)
          /\ dump = (idle # "load") /\ ret = updated
  <2>1. PICK purge \in BOOLEAN : purge = (idle = "timer")
    OBVIOUS
  <2>2. PICK dump \in BOOLEAN : dump = (idle # "load")
    OBVIOUS
  <2>3. updated \in BOOLEAN
    BY DEF IInv, TypeOK
  <2>4. FinishPass(purge, dump, updated)
    BY <2>1, <2>2 DEF PassEnds
  <2> QED BY <2>2, <2>3, <2>4
<1>3. \/ /\ disk' = disk /\ cut' = cut /\ ~(dump /\ ret)
         /\ \A id \in Id : Saved(id)' <=> Saved(id)
      \/ \A id \in Id : Saved(id)'
  BY <1>1, <1>2, FinishPassSays
<1>4. LoadIsFromFile'
  BY <1>1 DEF LoadIsFromFile
<1>5. \A id \in Id : ~Returns(id)
  BY <1>1 DEF Returns
<1>6. ASSUME ~cut' PROVE \A id \in Id : Saved(id)'
  BY <1>2, <1>3, <1>5, <1>6 DEF SaveInv
<1> QED BY <1>1, <1>4, <1>6 DEF SaveInv

\* What the service sends comes after what the queue has.
LEMMA PollSave ==
    ASSUME IInv, SaveInv, NEW new \in Seq(Message), Poll(new)
    PROVE  SaveInv'
<1>1. PICK q \in Seq(Message) : q = message_queue
  BY DEF IInv, TypeOK
<1>2. /\ message_queue' = q \o new
      /\ ~running /\ UNCHANGED <<running, updated, now>>
  BY <1>1 DEF Poll
<1>3. CASE idle' = "timer" /\ UNCHANGED <<messages, disk, graphVars, cut>>
  <2>1. ASSUME NEW id \in Id, Returns(id) PROVE Returns(id)'
    <3>1. PICK i \in DOMAIN q : q[i].id = id /\ SaysTheSame(q[i], disk[id])
      BY <1>1, <2>1 DEF Returns
    <3>2. i \in DOMAIN (q \o new) /\ (q \o new)[i] = q[i]
      BY <1>1
    <3>3. SaysTheSame(message_queue'[i], disk'[id]) /\ messages'[id] = None
          /\ i \in DOMAIN message_queue' /\ message_queue'[i].id = id
      BY <1>2, <1>3, <2>1, <3>1, <3>2 DEF Returns
    <3> QED BY <3>3 DEF Returns, SaysTheSame
  <2>2. \A id \in Id : Saved(id)' <=> Saved(id)
    BY <1>2, <1>3, SaidStays
  <2>3. LoadIsFromFile'
    BY <1>3 DEF LoadIsFromFile
  <2> QED BY <1>2, <1>3, <2>1, <2>2, <2>3 DEF SaveInv
<1>4. CASE /\ message_queue' = <<>>
           /\ FinishPass(TRUE, TRUE, FALSE) /\ UNCHANGED idle
  <2>1. q = <<>>
    <3>1. Len(q \o new) = Len(q) + Len(new) /\ Len(q \o new) = 0
      <4>1. q \o new = <<>>
        BY <1>2, <1>4
      <4> QED BY <4>1, ConcatProperties, EmptySeq
    <3>2. Len(q) \in Nat /\ Len(new) \in Nat
      BY <1>1
    <3>3. Len(q) = 0
      BY <3>1, <3>2
    <3> QED BY <1>1, <3>3
  <2>2. idle # "load" /\ \A id \in Id : ~Returns(id)
    BY <1>1, <1>2, <2>1 DEF SaveInv, Returns
  <2>3. \/ /\ cut' = cut /\ \A id \in Id : Saved(id)' <=> Saved(id)
        \/ \A id \in Id : Saved(id)'
    BY <1>2, <1>4, FinishPassSays
  <2>4. ~cut' => \A id \in Id : Saved(id)'
    BY <1>2, <2>2, <2>3 DEF SaveInv
  <2> QED BY <1>2, <1>4, <2>2, <2>4 DEF SaveInv, LoadIsFromFile
<1> QED BY <1>3, <1>4 DEF Poll

LEMMA ReceiveSave ==
    ASSUME IInv, SaveInv, Receive
    PROVE  SaveInv'
<1>1. PICK q \in Seq(Message) : q = message_queue
  BY DEF IInv, TypeOK
<1>2. PICK m \in Message : message_queue' = Append(q, m)
  BY <1>1, TrafficAssumption DEF Receive
<1>3. /\ ~running /\ idle' = "api"
      /\ UNCHANGED <<running, updated, now, messages, disk, cut>>
  BY DEF Receive
<1>4. ASSUME NEW id \in Id, Returns(id) PROVE Returns(id)'
  <2>1. PICK i \in DOMAIN q : q[i].id = id /\ SaysTheSame(q[i], disk[id])
    BY <1>1, <1>4 DEF Returns
  <2>2. i \in DOMAIN Append(q, m) /\ Append(q, m)[i] = q[i]
    BY <1>1
  <2>3. SaysTheSame(message_queue'[i], disk'[id]) /\ messages'[id] = None
        /\ i \in DOMAIN message_queue' /\ message_queue'[i].id = id
    BY <1>2, <1>3, <1>4, <2>1, <2>2 DEF Returns
  <2> QED BY <2>3 DEF Returns, SaysTheSame
<1>5. \A id \in Id : Saved(id)' <=> Saved(id)
  BY <1>3, SaidStays
<1> QED BY <1>3, <1>4, <1>5 DEF SaveInv, LoadIsFromFile

\* When messages are matched the store is saved, or nothing has changed.
LEMMA OpenSave ==
    ASSUME IInv, SaveInv, NEW locs \in SUBSET Loc, OpenTrafficMap(locs),
           ~running, now' = now, cut' = cut, UNCHANGED queueVars
    PROVE  SaveInv'
<1>1. messages \in Stores /\ messages' \in Resolved(messages, locs)
  BY DEF IInv, TypeOK, Stores, OpenTrafficMap
<1>2. /\ messages' \in Stores
      /\ \A id \in Id : messages'[id] = None <=> messages[id] = None
  BY <1>1, ResolvedType
<1>3. CASE messages' = messages
  <2>1. disk' = disk
    BY <1>3 DEF OpenTrafficMap
  <2> QED BY <1>3, <2>1, SameSave
<1>4. CASE messages' # messages
  <2>1. disk' = Dumped(messages')
    BY <1>4 DEF OpenTrafficMap
  <2>2. PICK ms \in Stores : ms = messages'
    BY <1>2
  <2>3. \A id \in Id : Said(Dumped(ms)[id]) = Said(ms[id])
    BY DumpedSays
  <2>4. \A id \in Id : Saved(id)'
    BY <2>1, <2>2, <2>3 DEF Saved, Said, Live, Expired
  <2>5. messages # Nothing
    <3>1. ASSUME messages = Nothing PROVE FALSE
      <4>1. \A id \in Id : messages'[id] = messages[id]
        BY <1>2, <3>1 DEF Nothing
      <4> QED BY <1>1, <1>2, <1>4, <4>1 DEF Stores
    <3> QED BY <3>1
  <2> QED BY <2>4, <2>5 DEF SaveInv, LoadIsFromFile, queueVars
<1> QED BY <1>3, <1>4

LEMMA DrawMapSave ==
    ASSUME IInv, SaveInv, DrawMap
    PROVE  SaveInv'
<1>1. PICK locs \in SUBSET Loc : OpenTrafficMap(locs)
  BY DEF DrawMap
<1> QED BY <1>1, OpenSave DEF DrawMap, boundVars

LEMMA BuildOpensMapSave ==
    ASSUME IInv, SaveInv, BuildOpensMap
    PROVE  SaveInv'
<1>1. Ahead \in SUBSET Loc
  BY TrafficAssumption
<1> QED BY <1>1, OpenSave DEF BuildOpensMap, boundVars

LEMMA GetStoredSave ==
    ASSUME IInv, SaveInv, GetStoredMessages
    PROVE  SaveInv'
<1>1. /\ messages' = [id \in Id |->
             IF messages[id] # None /\ messages[id].items = "unresolved"
             THEN [messages[id] EXCEPT !.items = "reported"] ELSE messages[id]]
      /\ now' = now /\ cut' = cut /\ disk' = disk /\ UNCHANGED queueVars
      /\ messages' # messages
  BY DEF GetStoredMessages, boundVars
<1>2. messages \in Stores
  BY DEF IInv, TypeOK, Stores
<1>3. ASSUME NEW id \in Id
      PROVE  /\ Saved(id)' <=> Saved(id)
             /\ messages'[id] = None <=> messages[id] = None
  <2>1. CASE messages[id] # None /\ messages[id].items = "unresolved"
    <3>1. messages[id] \in Stored
      BY <1>2, <2>1 DEF Stores
    <3>2. PICK r : r = [messages[id] EXCEPT !.items = "reported"]
      OBVIOUS
    <3>3. r \in Stored /\ r.loc = messages[id].loc /\ r.data = messages[id].data
          /\ r.expires = messages[id].expires
      BY <3>1, <3>2 DEF Stored
    <3>4. messages'[id] = r
      BY <1>1, <2>1, <3>2
    <3>5. Said(r) = Said(messages[id]) /\ r # None
      BY <3>1, <3>3, SaidIs, NoneIsNoMessage
    <3> QED BY <1>1, <2>1, <3>4, <3>5 DEF Saved, Said, Live, Expired
  <2>2. CASE ~(messages[id] # None /\ messages[id].items = "unresolved")
    BY <1>1, <2>2, SaidStays
  <2> QED BY <2>1, <2>2
<1>4. \A id \in Id : Returns(id)' <=> Returns(id)
  BY <1>1, <1>3 DEF Returns, SaysTheSame, queueVars
<1>5. LoadIsFromFile' <=> LoadIsFromFile
  BY <1>1 DEF LoadIsFromFile, SaysTheSame, queueVars
<1>6. messages # Nothing
  <2>1. ASSUME messages = Nothing PROVE FALSE
    BY <1>1, <2>1 DEF Nothing
  <2> QED BY <2>1
<1> QED BY <1>1, <1>3, <1>4, <1>5, <1>6 DEF SaveInv, queueVars

\* After a start the queue brings back what the file has.
LEMMA RestartSave ==
    ASSUME IInv, SaveInv, Restart
    PROVE  SaveInv'
<1>1. PICK saved : saved = {id \in Id : disk[id] # None}
  OBVIOUS
<1>2. PICK q \in SetToSeqs(saved) :
          message_queue' = [i \in DOMAIN q |->
              [id |-> q[i], loc |-> disk[q[i]].loc, data |-> disk[q[i]].data,
               expires |-> disk[q[i]].expires, text |-> disk[q[i]].text]]
  BY <1>1 DEF Restart
<1>3. PICK n \in Nat : n = Cardinality(saved)
  <2>1. saved \in SUBSET Id /\ IsFiniteSet(Id)
    BY <1>1, TrafficAssumption
  <2>2. IsFiniteSet(saved)
    BY <2>1, FS_Subset
  <2> QED BY <2>2, FS_CardinalityType
<1>4. q \in [1 .. n -> saved]
  BY <1>2, <1>3 DEF SetToSeqs
<1>5. /\ disk' = disk /\ now' = now /\ cut' = FALSE /\ messages' = Nothing
      /\ running' = running /\ updated' = updated /\ ~running
      /\ idle' = IF message_queue' = <<>> THEN "none" ELSE "load"
  BY DEF Restart
<1>6. \A i \in DOMAIN message_queue' :
         /\ i \in 1 .. n /\ message_queue'[i].id = q[i]
         /\ SaysTheSame(message_queue'[i], disk[q[i]])
  BY <1>1, <1>2, <1>4 DEF SaysTheSame
<1>7. LoadIsFromFile'
  BY <1>5, <1>6 DEF LoadIsFromFile, SaysTheSame
<1>8. ASSUME NEW id \in Id PROVE Saved(id)' \/ Returns(id)'
  <2>1. messages'[id] = None
    BY <1>5 DEF Nothing
  <2>2. CASE disk[id] = None
    BY <1>5, <2>1, <2>2 DEF Saved, Said, Live, Expired
  <2>3. CASE disk[id] # None
    <3>1. PICK i \in 1 .. n : q[i] = id
      <4>1. id \in saved /\ IsFiniteSet(saved)
        <5>1. saved \in SUBSET Id /\ IsFiniteSet(Id) /\ id \in saved
          BY <1>1, <2>3, TrafficAssumption
        <5> QED BY <5>1, FS_Subset
      <4>2. q \in Injection(1 .. n, saved)
        BY <1>2, <1>3 DEF SetToSeqs, Injection, IsInjective
      <4>3. Cardinality(1 .. n) = Cardinality(saved)
        BY <1>3, FS_Interval
      <4>4. q \in Surjection(1 .. n, saved)
        BY <4>1, <4>2, <4>3, FS_Injection
      <4> QED BY <4>1, <4>4 DEF Surjection
    <3>2. i \in DOMAIN message_queue'
      BY <1>2, <1>4, <3>1
    <3>3. message_queue'[i].id = id /\ SaysTheSame(message_queue'[i], disk'[id])
      BY <1>5, <1>6, <3>1, <3>2
    <3> QED BY <2>1, <3>2, <3>3 DEF Returns, SaysTheSame
  <2> QED BY <2>2, <2>3
<1> QED BY <1>5, <1>7, <1>8 DEF SaveInv

LEMMA NextSave == IInv /\ SaveInv /\ [Next]_vars => SaveInv'
<1> SUFFICES ASSUME IInv, SaveInv, [Next]_vars PROVE SaveInv'
  OBVIOUS
<1>1. CASE PollQuietly
  <2>1. <<>> \in Seq(Message)
    OBVIOUS
  <2> QED BY <1>1, <2>1, PollSave DEF PollQuietly
<1>2. CASE PollReceives
  <2>1. PICK m \in Feed : Poll(<<m>>)
    BY <1>2 DEF PollReceives
  <2>2. <<m>> \in Seq(Message)
    BY TrafficAssumption
  <2> QED BY <2>1, <2>2, PollSave
<1>3. CASE SetDestination \/ ClearDestination \/ BuildGraph
  BY <1>3, SameSave DEF SetDestination, ClearDestination, BuildGraph, DropGraph,
                        boundVars
<1>4. CASE BuildReads \/ BuildDone
  BY <1>4, SameSave DEF BuildReads, BuildDone, boundVars
<1>5. CASE UNCHANGED vars
  BY <1>5, SameSave DEF vars, boundVars
<1> QED BY <1>1, <1>2, <1>3, <1>4, <1>5, ProcessMessageSave, SliceEndsSave,
           PassEndsSave, ReceiveSave, DrawMapSave, GetStoredSave, RestartSave,
           TickSave, BuildOpensMapSave DEF Next

\* At rest a restart would find in the file what is in the store, and nothing
\* that was cancelled, as long as no pass was cut short: for any messages
\* that come in any order, are put off, saved by the drawing of a map, or come
\* back from the file.
THEOREM SavedCorrect == Spec => []SavedInOneSlice
<1>1. Init => SaveInv
  BY SaidIs DEF Init, SaveInv, LoadIsFromFile, Saved, Nothing
<1>2. SaveInv => SavedInOneSlice
  <2> SUFFICES ASSUME SaveInv, ~cut, ~running, message_queue = <<>>, NEW id \in Id
               PROVE  Saved(id)
    BY DEF SavedInOneSlice, SavedAtRest, Saved
  <2>1. ~Returns(id)
    BY DEF Returns
  <2> QED BY <2>1 DEF SaveInv
<1> QED BY <1>1, <1>2, InductiveInv, NextSave, PTL DEF Spec

=============================================================================
