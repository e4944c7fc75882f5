------------------------------ MODULE Traffic -------------------------------
(***************************************************************************)
(* Traffic messages, from the service that reports them to the distortions *)
(* of the route graph: traffic.c, with the functions of route.c it calls.  *)
(*                                                                         *)
(* Messages wait in a queue, which is worked off in slices of idle time,   *)
(* and are then kept in a store until they expire.  The location of a      *)
(* message is matched to street segments at once if it may touch the       *)
(* route, else when the traffic map is first opened for an area that it    *)
(* touches.  The segments are items of the traffic map, and distortions of *)
(* the route graph, which reads the map when it is built and is told of    *)
(* what changes later.  The store is saved to a file and read at startup.  *)
(*                                                                         *)
(* tm_find_item never finds an item, for tm_add_item always gives it       *)
(* flags, so that every message has items of its own.  They carry the id   *)
(* of their street, by which route_graph_remove_traffic_distortion finds   *)
(* what to remove.                                                         *)
(*                                                                         *)
(* The build of the graph keeps a rect of the traffic map open from one    *)
(* idle event to the next, with pointers to the item it has read and to    *)
(* the node of the next one.  A message that goes meanwhile frees its      *)
(* items, and only a rect of tm_item_unref's own is taken past them: the   *)
(* build may go on from freed memory (astray).                             *)
(***************************************************************************)
EXTENDS Integers, Sequences, FiniteSets, SequencesExt

CONSTANTS
    Id,           \* the ids of messages
    Seg,          \* street segments
    Loc,          \* locations
    Covers,       \* the segments each location matches
    Ahead,        \* the locations in the map selection of the route
    Data,         \* what a message may report: speeds and delays
    NoData,       \* that it reports no more: a cancellation
    Feed,         \* the messages the service may send
    MaxReceived,  \* bound: how many it sends
    MaxTime,      \* bound on the clock
    MaxRestarts   \* bound on the restarts

None == [items |-> "no message"]
\* text says that matched segments were saved with the message (txt_data)
Message == [id : Id, loc : Loc, data : Data \cup {NoData}, expires : Nat,
            text : BOOLEAN]

ASSUME TrafficAssumption ==
    /\ IsFiniteSet(Id) /\ NoData \notin Data
    /\ Covers \in [Loc -> SUBSET Seg]
    /\ Ahead \subseteq Loc
    /\ Feed \subseteq Message
    /\ \A m \in Feed : ~m.text
    /\ MaxReceived \in Nat /\ MaxTime \in Nat /\ MaxRestarts \in Nat

\* A message in the store: its items are in the traffic map once they are
\* known, and those that were reported to the route have their rt set; text
\* says that segments matched before the restart are at hand (txt_data).
Stored == [loc : Loc, data : Data, expires : Nat, text : BOOLEAN,
           items : {"unresolved", "reported", "restored"}]

\* an item of the traffic map, and the graph segment made from it
Item == [seg : Seg, id : Id, data : Data, made : {"reported", "restored"}]

VARIABLES
    message_queue,  \* messages waiting to be processed
    messages,       \* the store: the message with each id
    idle,           \* the idle event, named for the flags it was made with
    running,        \* whether a slice is being worked off
    updated,        \* ret of traffic_process_messages_int: anything to save
    disk,           \* traffic.xml
    route,          \* what the route has: a destination, a graph
    unread,         \* items the build of the graph has yet to read
    opened,         \* whether that build has opened the traffic map
    dist,           \* the traffic distortions of the route graph
    dirty,          \* whether the route graph has points to recompute
    astray,         \* whether item or next_item of the build's rect was freed
    now,            \* the clock
    received,       \* messages the service has sent
    restarts,
    lifted,         \* history: segments that lost an item since the build began
    cut             \* history: a slice ended early since the store was saved

queueVars == <<message_queue, idle, running, updated>>
graphVars == <<route, unread, opened, dist, dirty, astray, lifted>>
boundVars == <<now, received, restarts>>
vars == <<queueVars, messages, disk, graphVars, boundVars, cut>>

\* Type correctness: the queue and the store hold messages, a cancellation is
\* never stored, and items are as the graph and the map describe them.
TypeOK ==
    /\ message_queue \in Seq(Message)
    /\ messages \in [Id -> Stored \cup {None}]
    /\ idle \in {"none", "load", "api", "timer"}
    /\ running \in BOOLEAN
    /\ updated \in BOOLEAN
    /\ disk \in [Id -> Stored \cup {None}]
    /\ route \in {"none", "set", "building", "ready"}
    /\ unread \in SUBSET Item
    /\ opened \in BOOLEAN
    /\ dist \in SUBSET Item
    /\ dirty \in BOOLEAN
    /\ astray \in BOOLEAN
    /\ now \in 0 .. MaxTime
    /\ received \in 0 .. MaxReceived
    /\ restarts \in 0 .. MaxRestarts
    /\ lifted \in SUBSET Seg
    /\ cut \in BOOLEAN

Nothing == [id \in Id |-> None]

Init ==
    /\ message_queue = <<>>
    /\ messages = Nothing
    /\ idle = "none"
    /\ running = FALSE
    /\ updated = FALSE
    /\ disk = Nothing
    /\ route = "none"
    /\ unread = {}
    /\ opened = FALSE
    /\ dist = {}
    /\ dirty = FALSE
    /\ astray = FALSE
    /\ now = 0
    /\ received = 0
    /\ restarts = 0
    /\ lifted = {}
    /\ cut = FALSE

-----------------------------------------------------------------------------
(***************************************************************************)
(* The items of messages, and what the route graph makes of them.          *)
(***************************************************************************)
HasGraph == route \in {"building", "ready"}

ItemsOf(id, m) ==
    IF m = None \/ m.items = "unresolved" THEN {}
    ELSE {[seg |-> s, id |-> id, data |-> m.data, made |-> m.items] :
              s \in Covers[m.loc]}

AllItems(ms) == UNION {ItemsOf(id, ms[id]) : id \in Id}

Reported(items) == {i \in items : i.made = "reported"}
Segs(items) == {i.seg : i \in items}

\* The rect of the build points at the item read last and at the next one.
\* Which ones these are is open, but for the next one being yet to be read.
MayCutOffRect(old) == route = "building" /\ opened /\ old # {}
CutsOffRect(old) == MayCutOffRect(old) /\ unread # {} /\ unread \subseteq old

\* an error: an item that goes stays in the list
KeepInList(new, old) ==
    \/ /\ ~CutsOffRect(old)
       /\ unread' = IF unread = {} THEN {} ELSE unread \cup new
       /\ UNCHANGED astray
    \/ /\ MayCutOffRect(old)
       /\ unread' \in SUBSET (unread \cup new)
       /\ astray' = TRUE

\* New items are appended to the list a build is reading, and those of
\* messages that are destroyed removed from it and freed.  If the rect of the
\* build points at one, it may read that item still, or lose any other.
ChangeList(new, old) ==
    \/ /\ ~CutsOffRect(old)
       /\ unread' = IF unread = {} THEN {} ELSE (unread \ old) \cup new
       /\ UNCHANGED astray
    \/ /\ MayCutOffRect(old)
       /\ unread' \in SUBSET (unread \cup new)
       /\ astray' = TRUE

\* an error: what is reported while the graph is built is left to the build
ChangeBuiltGraph(new, old) ==
    /\ dist' = IF route = "ready"
               THEN {i \in dist \cup Reported(new) :
                         i.seg \notin Segs(Reported(old))}
               ELSE {i \in dist : i.seg \notin Segs(Reported(old))}
    /\ ChangeList(new, old)
    /\ lifted' = lifted \cup Segs(old)
    /\ UNCHANGED <<route, opened>>

\* route_add_traffic_distortion for the new items, then, as their messages
\* are destroyed, route_remove_traffic_distortion for the old ones, which
\* clears every distortion of the same street.
ChangeGraph(new, old) ==
    /\ dist' = IF HasGraph
               THEN {i \in dist \cup Reported(new) :
                         i.seg \notin Segs(Reported(old))}
               ELSE dist
    /\ ChangeList(new, old)
    /\ lifted' = lifted \cup Segs(old)
    /\ UNCHANGED <<route, opened>>

\* how a location may be matched: to the segments saved with it, unless the
\* map has changed since, or from scratch, which reports them to the route
Resolutions(m) ==
    IF m.items # "unresolved" THEN {m}
    ELSE {[m EXCEPT !.items = how, !.text = FALSE] :
              how \in {"reported"} \cup IF m.text THEN {"restored"} ELSE {}}

\* the store when those in locs have been matched
Resolved(ms, locs) ==
    {r \in [Id -> UNION {IF ms[id] = None THEN {None} ELSE {ms[id]} \cup Resolutions(ms[id])
                            : id \in Id}] :
        \A id \in Id :
            r[id] \in IF ms[id] # None /\ ms[id].loc \in locs
                      THEN Resolutions(ms[id]) ELSE {ms[id]}}

\* traffic_dump_messages_to_xml
Dumped(ms) ==
    [id \in Id |->
        IF ms[id] = None THEN None
        ELSE [ms[id] EXCEPT !.text = @ \/ ms[id].items # "unresolved",
                            !.items = "unresolved"]]

\* what changes in a finished graph waits for route_recalculate_partial
MarkDirty == dirty' = (dirty \/ (route = "ready" /\ dist' # dist))

-----------------------------------------------------------------------------
(***************************************************************************)
(* traffic_process_messages_int.                                           *)
(***************************************************************************)
Expired(m) == m.expires < now

\* the stored message that the new one only confirms: its items are reused
SwapCandidate(m) ==
    LET old == messages[m.id] IN
    old # None /\ old.data = m.data /\ old.loc = m.loc

\* an error: only a finished graph counts as a route
MatchedOnceBuilt(m) == route = "ready" /\ m.loc \in Ahead

\* a new message is matched at once if it may have an effect on the route
MatchedAtOnce(m) == route # "none" /\ m.loc \in Ahead

\* what may be stored for a message from the queue
StoredAs(m) ==
    IF m.data = NoData THEN {None}
    ELSE IF SwapCandidate(m)
    THEN {[messages[m.id] EXCEPT !.expires = m.expires]}
    ELSE LET new == [loc |-> m.loc, data |-> m.data, expires |-> m.expires,
                     text |-> m.text, items |-> "unresolved"]
         IN  IF MatchedAtOnce(m) THEN Resolutions(new) ELSE {new}

\* an error: the items are not handed over to the message that confirms
StoreAnew(m, new) ==
    /\ messages' = [messages EXCEPT ![m.id] = new]
    /\ ChangeGraph(ItemsOf(m.id, new), ItemsOf(m.id, messages[m.id]))

Store(m, new) ==
    /\ messages' = [messages EXCEPT ![m.id] = new]
    /\ IF SwapCandidate(m) THEN ChangeGraph({}, {})
       ELSE ChangeGraph(ItemsOf(m.id, new), ItemsOf(m.id, messages[m.id]))

\* an error: only a message that is stored counts as a change to be saved
ProcessCancellationUnsaved ==
    /\ running \/ idle # "none"
    /\ message_queue # <<>>
    /\ LET m == Head(message_queue) IN
       \/ /\ Expired(m)
          /\ updated' = (running /\ updated)
          /\ UNCHANGED <<messages, graphVars>>
       \/ /\ ~Expired(m)
          /\ \E new \in StoredAs(m) : Store(m, new)
          /\ MarkDirty
          /\ updated' = ((running /\ updated) \/ m.data # NoData)
    /\ message_queue' = Tail(message_queue)
    /\ running' = TRUE
    /\ UNCHANGED <<idle, disk, boundVars, cut>>

\* One turn of the loop; the first one starts a slice.
ProcessMessage ==
    /\ running \/ idle # "none"
    /\ message_queue # <<>>
    /\ LET m == Head(message_queue) IN
       \/ /\ Expired(m)
          /\ updated' = (running /\ updated)
          /\ UNCHANGED <<messages, graphVars>>
       \/ /\ ~Expired(m)
          /\ \E new \in StoredAs(m) : Store(m, new)
          /\ MarkDirty
          /\ updated' = TRUE
    /\ message_queue' = Tail(message_queue)
    /\ running' = TRUE
    /\ UNCHANGED <<idle, disk, boundVars, cut>>

\* The slice is used up with messages left: ret is lost.
SliceEnds ==
    /\ running
    /\ message_queue # <<>>
    /\ running' = FALSE
    /\ updated' = FALSE
    /\ cut' = TRUE
    /\ UNCHANGED <<message_queue, messages, idle, disk, graphVars, boundVars>>

\* an error: the route is recomputed only after new messages
FinishPassIfUpdated(purge, dump, ret) ==
    LET gone == {id \in Id : purge /\ messages[id] # None /\ Expired(messages[id])}
        old == UNION {ItemsOf(id, messages[id]) : id \in gone}
        save == dump /\ (ret \/ \E id \in gone : messages[id].items # "unresolved")
    IN  /\ messages' = [id \in Id |-> IF id \in gone THEN None ELSE messages[id]]
        /\ ChangeGraph({}, old)
        /\ dirty' = (dirty /\ ~ret)
        /\ disk' = IF save THEN Dumped(messages') ELSE disk
        /\ cut' = (cut /\ ~save)

\* The end of a pass that has emptied the queue: expired messages go if this
\* is asked for, the store is saved, the route recomputed.
FinishPass(purge, dump, ret) ==
    LET gone == {id \in Id : purge /\ messages[id] # None /\ Expired(messages[id])}
        old == UNION {ItemsOf(id, messages[id]) : id \in gone}
        save == dump /\ (ret \/ \E id \in gone : messages[id].items # "unresolved")
    IN  /\ messages' = [id \in Id |-> IF id \in gone THEN None ELSE messages[id]]
        /\ ChangeGraph({}, old)
        /\ dirty' = FALSE
        /\ disk' = IF save THEN Dumped(messages') ELSE disk
        /\ cut' = (cut /\ ~save)

PassEnds ==
    /\ running
    /\ message_queue = <<>>
    /\ FinishPass(idle = "timer", idle # "load", updated)
    /\ idle' = "none"
    /\ running' = FALSE
    /\ updated' = FALSE
    /\ UNCHANGED <<message_queue, boundVars>>

-----------------------------------------------------------------------------
(***************************************************************************)
(* What calls it: the timer, other parts of navit, the start.              *)
(***************************************************************************)
\* an error: expired messages are left to the passes that have messages
PollWithoutPurge(new) ==
    /\ ~running
    /\ received + Len(new) <= MaxReceived
    /\ received' = received + Len(new)
    /\ message_queue' = message_queue \o new
    /\ IF message_queue' # <<>>
       THEN /\ idle' = "timer"
            /\ UNCHANGED <<messages, disk, graphVars, cut>>
       ELSE /\ FinishPass(FALSE, TRUE, FALSE)
            /\ UNCHANGED idle
    /\ UNCHANGED <<running, updated, now, restarts>>

\* traffic_loop, every second, with what the service has sent.
Poll(new) ==
    /\ ~running
    /\ received + Len(new) <= MaxReceived
    /\ received' = received + Len(new)
    /\ message_queue' = message_queue \o new
    /\ IF message_queue' # <<>>
       THEN /\ idle' = "timer"
            /\ UNCHANGED <<messages, disk, graphVars, cut>>
       ELSE /\ FinishPass(TRUE, TRUE, FALSE)
            /\ UNCHANGED idle
    /\ UNCHANGED <<running, updated, now, restarts>>

PollQuietly == Poll(<<>>)
PollReceives == \E m \in Feed : Poll(<<m>>)

\* traffic_process_messages, with messages that came another way.
Receive ==
    /\ ~running
    /\ received < MaxReceived
    /\ received' = received + 1
    /\ \E m \in Feed : message_queue' = Append(message_queue, m)
    /\ idle' = "api"
    /\ UNCHANGED <<messages, running, updated, disk, graphVars, now, restarts, cut>>

\* tm_rect_new: the traffic map is opened for an area, the messages that
\* touch it are matched, and the store is saved if there were any.
OpenTrafficMap(locs) ==
    /\ messages' \in Resolved(messages, locs)
    /\ disk' = IF messages' # messages THEN Dumped(messages') ELSE disk

\* a map is drawn
DrawMap ==
    /\ ~running
    /\ \E locs \in SUBSET Loc : OpenTrafficMap(locs)
    /\ messages' # messages
    /\ ChangeGraph(AllItems(messages') \ AllItems(messages), {})
    /\ MarkDirty
    /\ UNCHANGED <<queueVars, boundVars, cut>>

\* traffic_get_stored_messages: all are matched, from scratch.
GetStoredMessages ==
    /\ ~running
    /\ messages' = [id \in Id |->
           IF messages[id] # None /\ messages[id].items = "unresolved"
           THEN [messages[id] EXCEPT !.items = "reported"] ELSE messages[id]]
    /\ messages' # messages
    /\ ChangeGraph(AllItems(messages') \ AllItems(messages), {})
    /\ MarkDirty
    /\ UNCHANGED <<queueVars, disk, boundVars, cut>>

\* Navit ends, or crashes, and is started: traffic_get_map queues what the
\* file has.
Restart ==
    /\ ~running
    /\ restarts < MaxRestarts
    /\ restarts' = restarts + 1
    /\ \E q \in SetToSeqs({id \in Id : disk[id] # None}) :
           message_queue' = [i \in DOMAIN q |->
               [id |-> q[i], loc |-> disk[q[i]].loc, data |-> disk[q[i]].data,
                expires |-> disk[q[i]].expires, text |-> disk[q[i]].text]]
    /\ idle' = IF message_queue' = <<>> THEN "none" ELSE "load"
    /\ messages' = Nothing
    /\ route' = "none"
    /\ unread' = {}
    /\ opened' = FALSE
    /\ dist' = {}
    /\ dirty' = FALSE
    /\ astray' = FALSE
    /\ lifted' = {}
    /\ cut' = FALSE
    /\ UNCHANGED <<running, updated, disk, now, received>>

Tick ==
    /\ ~running
    /\ now < MaxTime
    /\ now' = now + 1
    /\ UNCHANGED <<queueVars, messages, disk, graphVars, received, restarts, cut>>

-----------------------------------------------------------------------------
(***************************************************************************)
(* The route, as far as it concerns traffic.                               *)
(***************************************************************************)
\* The graph is dropped, with the destination or to be built again.
DropGraph(becomes) ==
    /\ ~running
    /\ route' = becomes
    /\ unread' = {}
    /\ opened' = FALSE
    /\ dist' = {}
    /\ dirty' = FALSE
    /\ astray' = FALSE
    /\ lifted' = {}
    /\ UNCHANGED <<queueVars, messages, disk, boundVars, cut>>

SetDestination == route = "none" /\ DropGraph("set")
ClearDestination == route # "none" /\ DropGraph("none")

\* route_graph_update
BuildGraph == route # "none" /\ DropGraph("building")

\* route_graph_build_next_map comes to the traffic map.
BuildOpensMap ==
    /\ ~running
    /\ route = "building"
    /\ ~opened
    /\ OpenTrafficMap(Ahead)
    /\ dist' = dist \cup Reported(AllItems(messages') \ AllItems(messages))
    /\ unread' = AllItems(messages')
    /\ opened' = TRUE
    /\ UNCHANGED <<queueVars, route, dirty, astray, lifted, boundVars, cut>>

\* route_graph_build_idle reads items, as many as it gets to.
BuildReads ==
    /\ ~running
    /\ route = "building"
    /\ \E read \in SUBSET unread :
        /\ read # {}
        /\ dist' = dist \cup read
        /\ unread' = unread \ read
    /\ UNCHANGED <<queueVars, messages, disk, route, opened, dirty, astray,
                   lifted, boundVars, cut>>

\* route_graph_build_done, and the graph is flooded.
BuildDone ==
    /\ ~running
    /\ route = "building"
    /\ opened
    /\ unread = {}
    /\ route' = "ready"
    /\ UNCHANGED <<queueVars, messages, disk, unread, opened, dist, dirty,
                   astray, lifted, boundVars, cut>>

Next ==
    \/ ProcessMessage \/ SliceEnds \/ PassEnds
    \/ PollQuietly \/ PollReceives \/ Receive
    \/ DrawMap \/ GetStoredMessages \/ Restart \/ Tick
    \/ SetDestination \/ ClearDestination
    \/ BuildGraph \/ BuildOpensMap \/ BuildReads \/ BuildDone

\* A slice ends by itself, the idle event runs when nothing else does, and
\* the timer is served every second.
Fairness ==
    /\ WF_vars(ProcessMessage)
    /\ WF_vars(PassEnds)
    /\ WF_vars(PollQuietly)

Spec == Init /\ [][Next]_vars /\ Fairness

-----------------------------------------------------------------------------
\* What is reported is in force: the items of a stored message that were
\* reported to the route are distortions of the graph once it is built, on
\* every segment from which no item was removed meanwhile.  It takes the
\* build, the reports made during it and those made later to be complete, and
\* holds as long as no removal has cut off the rect of the build.
ReportedIsInForce ==
    route = "ready" /\ ~astray =>
        \A i \in Reported(AllItems(messages)) : i.seg \notin lifted => i \in dist

\* Nothing of a message stays behind when it is cancelled, replaced or
\* expires: an item that was reported to the route is in the graph, or about
\* to be read into it, only while its message is stored.  The exception is a
\* build whose rect was cut off, which may read an item that was freed.
NoneOutstaysItsMessage ==
    ~astray => Reported(dist \cup unread) \subseteq AllItems(messages)

\* Matching may be put off, but not past the point where the route needs it.
RouteHasMatchedAhead ==
    route = "ready" =>
        \A id \in Id : messages[id] # None /\ messages[id].loc \in Ahead
                           => messages[id].items # "unresolved"

Live(m) == m # None /\ ~Expired(m)
Said(m) == IF Live(m) THEN <<m.loc, m.data, m.expires>> ELSE <<>>

\* At rest, a restart would find the messages that are in the store, and no
\* message that was cancelled.
SavedAtRest ==
    ~running /\ message_queue = <<>> =>
        \A id \in Id : Said(disk[id]) = Said(messages[id])

\* The same, but for a queue that took more than one slice.
SavedInOneSlice == ~cut => SavedAtRest

\* A message that confirms another leaves the route as it is.
ConfirmationIsQuiet ==
    [][ProcessMessage /\ SwapCandidate(Head(message_queue))
           => UNCHANGED <<dist, unread, dirty>>]_vars

\* A message that has expired is dropped, while the clock stands.
ExpiredIsDropped ==
    \A id \in Id :
        (messages[id] # None /\ Expired(messages[id]))
            ~> ~(messages[id] # None /\ Expired(messages[id]))

\* What traffic changes in the graph reaches the route.
ChangeReachesRoute == dirty ~> ~dirty

\* What the comments say of messages that share a segment, or replace each
\* other: the remaining ones determine its attributes.
RemainingIsInForce ==
    route = "ready" => Reported(AllItems(messages)) \subseteq dist

=============================================================================
