----------------------------- MODULE Bookmarks -----------------------------
(***************************************************************************)
(* Bookmarks and the file they are kept in: src/navit/bookmarks.c.         *)
(*                                                                         *)
(* Bookmarks are kept in a list and in a tree of folders.  Each operation  *)
(* changes the list, writes all of it to a working file, removes the saved *)
(* file, renames the working file to it and loads the list again from      *)
(* there.  The program may end at any of these steps, and a step may fail; *)
(* the working file it leaves behind is appended to next time.  Of what is *)
(* written any part may get to the disk, down to a line that is cut off,   *)
(* and the line appended to this one is then read as one line with it.     *)
(*                                                                         *)
(* An item is a name below its folders (the label of the code, each with   *)
(* the labels of its parents before it) and a place.  Children belong to   *)
(* the first item of their parent's name, which is also the one a label is *)
(* looked up to, so that names are enough to tell parents apart.           *)
(*                                                                         *)
(* Left out: a working file that cannot be opened, after which the freed   *)
(* list is appended to (bookmarks_load_hash), and an fprintf that fails,   *)
(* after which the name it was to write is freed twice; and names with a   *)
(* slash in them.  The failure that shows only in fclose is WriteFails.    *)
(***************************************************************************)
EXTENDS Integers, Sequences, FiniteSets, SequencesExt

CONSTANTS
    Labels,      \* names of bookmarks and folders
    Places,      \* coordinates
    Folder,      \* stands for the place of a folder
    Missing,     \* there is no such file; nothing has been copied
    MaxDepth,    \* bound: folders the user goes down
    MaxOps,      \* bound: operations that are saved
    MaxFaults    \* bound: crashes and failures

ASSUME BookmarksAssumption ==
    /\ MaxDepth \in Nat /\ MaxOps \in Nat /\ MaxFaults \in Nat
    /\ Folder \notin Places
    /\ Missing \notin Seq([path : Seq(Labels), place : Places \cup {Folder}])

VARIABLES
    file,        \* bookmark.txt
    tmp,         \* bookmark.txt.tmp, its lines
    torn,        \* whether the working file has a line without an end after them
    list,        \* bookmarks_list
    current,     \* the folder the user is in
    clipboard,   \* a label and a place, or Missing
    pc,          \* the step of the operation that comes next
    subject,     \* history: the name the operation is about, and where to
    before,      \* history: the items when the operation began
    flaw,        \* history: what happened to the write of the operation
    saved,       \* history: what was written when the file was last removed
    ops, faults  \* operations, and crashes and failures

diskVars == <<file, tmp, torn>>
historyVars == <<subject, before, flaw, saved>>
vars == <<diskVars, list, current, clipboard, pc, historyVars, ops, faults>>

Init ==
    /\ file = Missing /\ tmp = Missing /\ torn = FALSE
    /\ list = <<>> /\ current = <<>> /\ clipboard = Missing
    /\ pc = "idle"
    /\ subject = [from |-> <<>>, to |-> <<>>] /\ before = {}
    /\ flaw = "none" /\ saved = [items |-> <<>>, flaw |-> "none"]
    /\ ops = 0 /\ faults = 0

-----------------------------------------------------------------------------
(* Lists *)

Named(items, path) == \E i \in DOMAIN items : items[i].path = path

\* The items of the current folder with this label; the first one is meant.
Here(label) == Append(current, label)
FirstIndex(path) == CHOOSE i \in DOMAIN list :
                        /\ list[i].path = path
                        /\ \A j \in 1..i-1 : list[j].path # path
HasChildren(path) == \E i \in DOMAIN list : IsStrictPrefix(path, list[i].path)

\* Where an item of a list is from: <<i, n>> stands for the first n labels of
\* line i, for the line itself when these are all of them, else for a folder.
Item(lines, d) ==
    IF d[2] = Len(lines[d[1]].path) THEN lines[d[1]]
    ELSE [path |-> SubSeq(lines[d[1]].path, 1, d[2]), place |-> Folder]
Earlier(d, e) == d[1] < e[1] \/ (d[1] = e[1] /\ d[2] < e[2])
Rank(d, D) == Cardinality({e \in D : Earlier(e, d)}) + 1
Listed(lines, D) ==
    [n \in 1..Cardinality(D) |-> Item(lines, CHOOSE d \in D : Rank(d, D) = n)]

\* What is written: of several items of one name the first.
FirstOfName(items) ==
    {i \in DOMAIN items : \A j \in 1..i-1 : items[j].path # items[i].path}
Written(items) ==
    Listed(items, {<<i, Len(items[i].path)>> : i \in FirstOfName(items)})

\* bookmarks_load_hash: before a line, folders are made for the parents that
\* no line so far has been or has been in.
Known(lines, i, path) == \E j \in 1..i-1 : IsPrefix(path, lines[j].path)
Entries(lines, i) ==
    {<<i, n>> : n \in {k \in 1..Len(lines[i].path) :
                          k < Len(lines[i].path) =>
                              ~Known(lines, i, SubSeq(lines[i].path, 1, k))}}
\* an error: only the folder is looked up, and the item put into the root
LoadedAtRoot(lines) ==
    [i \in DOMAIN lines |-> [lines[i] EXCEPT !.path = <<Last(@)>>]]
Loaded(lines) == Listed(lines, UNION {Entries(lines, i) : i \in DOMAIN lines})

LinesOf(f) == IF f = Missing THEN <<>> ELSE f

-----------------------------------------------------------------------------
(* Operations *)

\* The list has been changed; it is about to be saved.
Save(items, from, to) ==
    /\ ops < MaxOps /\ ops' = ops + 1
    /\ list' = items
    /\ pc' = "write"
    /\ subject' = [from |-> from, to |-> to]
    /\ before' = ToSet(list)
    /\ UNCHANGED <<diskVars, current, flaw, saved, faults>>

\* bookmarks_add_bookmark
AddBookmark(label, place) ==
    /\ pc = "idle"
    /\ Save(Append(list, [path |-> Here(label), place |-> place]),
            Here(label), Here(label))
    /\ UNCHANGED clipboard

\* bookmarks_copy_bookmark.  Pasting a folder with children frees them
\* twice, which is left open.
Copied(label) ==
    /\ Named(list, Here(label)) /\ ~HasChildren(Here(label))
    /\ clipboard' = [path |-> <<label>>,
                     place |-> list[FirstIndex(Here(label))].place]
CopyBookmark(label) ==
    /\ pc = "idle" /\ Copied(label)
    /\ UNCHANGED <<diskVars, list, current, pc, historyVars, ops, faults>>

\* bookmarks_paste_bookmark
PasteBookmark ==
    /\ pc = "idle" /\ clipboard # Missing
    /\ LET name == Here(clipboard.path[1])
       IN  Save(Append(list, [path |-> name, place |-> clipboard.place]),
                name, name)
    /\ UNCHANGED clipboard

\* bookmarks_delete_bookmark: the children of a folder stay in the list.
WithoutSubtree(path) ==         \* an error: what is below it goes, too
    SelectSeq(list, LAMBDA item : ~IsPrefix(path, item.path))
WithoutFirst(path) == RemoveAt(list, FirstIndex(path))

Deleted(label) ==
    /\ Named(list, Here(label))
    /\ Save(WithoutFirst(Here(label)), Here(label), <<>>)

DeleteBookmark(label) == pc = "idle" /\ Deleted(label) /\ UNCHANGED clipboard
CutBookmark(label) == pc = "idle" /\ Copied(label) /\ Deleted(label)

\* bookmarks_rename_bookmark: what is below the item moves with it.
Renamed(from, to) ==
    [i \in DOMAIN list |->
        IF i = FirstIndex(from) \/ IsStrictPrefix(from, list[i].path)
        THEN [list[i] EXCEPT !.path = to \o SubSeq(@, Len(from) + 1, Len(@))]
        ELSE list[i]]

RenameBookmark(old, new) ==
    /\ pc = "idle" /\ Named(list, Here(old))
    /\ Save(Renamed(Here(old), Here(new)), Here(old), Here(new))
    /\ UNCHANGED clipboard

\* bookmarks_move_down, bookmarks_move_up
MoveDown(label) ==
    /\ pc = "idle" /\ Named(list, Here(label)) /\ Len(current) < MaxDepth
    /\ current' = Here(label)
    /\ UNCHANGED <<diskVars, list, clipboard, pc, historyVars, ops, faults>>
MoveUp ==
    /\ pc = "idle" /\ current # <<>>
    /\ current' = Front(current)
    /\ UNCHANGED <<diskVars, list, clipboard, pc, historyVars, ops, faults>>

-----------------------------------------------------------------------------
(* bookmarks_store_bookmarks_to_file, bookmarks_load_hash *)

Truncated == <<>>               \* an error: the working file is opened with "w+"
Appended == LinesOf(tmp)        \* "a+"

Fault == faults < MaxFaults /\ faults' = faults + 1

\* A line that was cut off, by itself or with another that was appended to it,
\* is skipped or read as an item with what is left of the two.
Readings ==
    {<<>>} \cup {<<item>> : item \in
        [path : UNION {[1..n -> Labels] : n \in 1..MaxDepth+1},
         place : Places \cup {Folder}]}

\* these lines after what the working file has
Joined(lines) ==
    IF torn /\ lines # <<>> THEN {r \o Tail(lines) : r \in Readings}
    ELSE {lines}

Write ==
    /\ pc = "write" /\ pc' = "unlink"
    /\ \E lines \in Joined(Written(list)) : tmp' = Appended \o lines
    /\ torn' = (torn /\ Written(list) = <<>>)
    /\ flaw' = IF torn THEN "joined" ELSE "none"
    /\ UNCHANGED <<file, list, current, clipboard, subject, before, saved,
                   ops, faults>>

\* A part gets to the disk, as the program ends or the disk is full.
WritePart ==
    \E n \in 0..Len(Written(list)) :
        /\ \E lines \in Joined(SubSeq(Written(list), 1, n)) :
              tmp' = Appended \o lines
        /\ torn' \in {torn /\ n = 0, n < Len(Written(list))}

\* What fclose returns is not looked at: all goes on as if it had succeeded.
WriteFails ==
    /\ pc = "write" /\ Fault /\ pc' = "unlink"
    /\ WritePart
    /\ flaw' = "failed"
    /\ UNCHANGED <<file, list, current, clipboard, subject, before, saved, ops>>

Unlink ==
    /\ pc = "unlink" /\ pc' = "rename"
    /\ file' = Missing
    /\ saved' = [items |-> Written(list), flaw |-> flaw]
    /\ UNCHANGED <<tmp, torn, list, current, clipboard, subject, before, flaw,
                   ops, faults>>

\* an error: the working file is copied and stays
Copy ==
    /\ pc = "rename" /\ pc' = "load"
    /\ file' = tmp /\ tmp' = tmp /\ torn' = torn
    /\ UNCHANGED <<list, current, clipboard, historyVars, ops, faults>>
Rename ==
    /\ pc = "rename" /\ pc' = "load"
    /\ \E r \in IF torn THEN Readings ELSE {<<>>} : file' = tmp \o r
    /\ tmp' = Missing /\ torn' = FALSE
    /\ UNCHANGED <<list, current, clipboard, historyVars, ops, faults>>

RenameFails ==
    /\ pc = "rename" /\ Fault /\ pc' = "load"
    /\ UNCHANGED <<diskVars, list, current, clipboard, historyVars, ops>>

Load ==
    /\ pc = "load" /\ pc' = "idle"
    /\ list' = Loaded(LinesOf(file)) /\ current' = <<>>
    /\ UNCHANGED <<diskVars, clipboard, historyVars, ops, faults>>

\* The program ends and starts again; some of the list has been written.
Crash ==
    /\ Fault
    /\ pc' = "idle"
    /\ list' = Loaded(LinesOf(file)) /\ current' = <<>> /\ clipboard' = Missing
    /\ UNCHANGED <<tmp, torn>> \/ (pc = "write" /\ WritePart)
    /\ UNCHANGED <<file, historyVars, ops>>

-----------------------------------------------------------------------------
Operation ==
    \/ \E label \in Labels, place \in Places \cup {Folder} :
          AddBookmark(label, place)
    \/ \E label \in Labels : CopyBookmark(label) \/ DeleteBookmark(label)
                             \/ CutBookmark(label) \/ MoveDown(label)
    \/ \E old \in Labels, new \in Labels : RenameBookmark(old, new)
    \/ PasteBookmark \/ MoveUp

Step == Write \/ Unlink \/ Rename \/ Load
Failure == WriteFails \/ RenameFails \/ Crash

Next == Operation \/ Step \/ Failure

Spec == Init /\ [][Next]_vars

-----------------------------------------------------------------------------
(* Properties *)

\* What was written last is on disk at any time, in the file or in the working
\* file: however often the program ends and the renaming fails, the next
\* operation that is saved brings it back.  A write that ran into a line that
\* was cut off may lose its first item to it; of one that failed nothing can be
\* said, for the saved file is removed as if it had succeeded.
SavedIsOnDisk ==
    saved.flaw # "failed" =>
        \A i \in DOMAIN saved.items :
            \/ saved.items[i] \in ToSet(LinesOf(file)) \cup ToSet(LinesOf(tmp))
            \/ i = 1 /\ saved.flaw = "joined"

\* An operation leaves the items it is not about in the list, and those in a
\* folder that is renamed move with it: none is lost on the way through the
\* working file, except when a folder is given a name that is taken.
Moved(item) ==
    LET from == subject.from  to == subject.to
    IN  IF to # <<>> /\ IsPrefix(from, item.path)
        THEN [item EXCEPT !.path = to \o SubSeq(@, Len(from) + 1, Len(@))]
        ELSE item
NameTaken ==
    subject.from # subject.to /\ \E item \in before : item.path = subject.to
OthersStay ==
    pc = "idle" /\ faults = 0 =>
        \A item \in before :
            \/ item.path = subject.from
            \/ Moved(item) \in ToSet(list)
            \/ /\ NameTaken
               /\ IsPrefix(subject.from, item.path) \/ IsPrefix(subject.to, item.path)

\* A bookmark that has been deleted or renamed is gone, and a new one is
\* there, unless its name was taken.
OperationHasEffect ==
    pc = "idle" /\ faults = 0 /\ subject.from # <<>> =>
        /\ \A item \in ToSet(list) :
             item.place # Folder /\ item.path = subject.from =>
                 subject.to = subject.from
        /\ subject.to # <<>> => Named(list, subject.to)

\* The list on screen is the one that is saved, but for the folders made for
\* what is in them, and nothing is left in the working file.
ListIsSaved ==
    pc = "idle" /\ faults = 0 =>
        /\ ToSet(saved.items) \subseteq ToSet(list) /\ tmp = Missing
        /\ \A item \in ToSet(list) \ ToSet(saved.items) :
             /\ item.place = Folder
             /\ \E child \in ToSet(saved.items) : IsStrictPrefix(item.path, child.path)
=============================================================================
