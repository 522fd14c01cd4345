------------------------------ MODULE Restart ------------------------------
(***************************************************************************)
(* The end of a node and its next start, on top of module FileSystem.  The *)
(* process may be killed, or an assertion may end it, between any two      *)
(* steps of its threads, and with one of the files of the file system      *)
(* truncated or rewritten up to some line; an orderly end writes the maps  *)
(* and then the LRU list while receive threads still run.  The next start  *)
(* reads what the files say.                                               *)
(***************************************************************************)
EXTENDS FileSystem

CONSTANTS
    MaxRestarts,    \* bound: how often the node starts again
    MaxKills        \* bound: how many of the first starts may follow a kill
                    \* in the middle of a file
ASSUME RestartAssumption == MaxRestarts \in Nat /\ MaxKills \in Nat

VARIABLES
    mode,       \* "up", "closing" between the two writes of close_filesys, "closed"
    restarts,   \* how often the node has started again
    stored,     \* history: <<index, file>> of the user's files on record
    ahead,      \* history: indices that some start found in a map or in the
                \* cacheList file, or that hold a file on record, although
                \* the index file said they are free
    cut         \* history: indices on record whose line some kill left out of a
                \* file that was being rewritten, although its map listed them

rvars == <<vars, mode, restarts, stored, ahead, cut>>

RInit == Init /\ mode = "up" /\ restarts = 0 /\ stored = {} /\ ahead = {} /\ cut = {}

OnRecord(i) == \E p \in stored : p[1] = i

-----------------------------------------------------------------------------
(* A running node.                                                         *)

\* A file under a new index can only be what an earlier life left behind.
Leftover(t) ==
    /\ At(t, "recv")
    /\ metaOf[th[t].idx] # NoFile \/ dataOf[th[t].idx] # NoFile

\* recv_metaDataFile opens the .meta file with "a+" and writes it at once, so a
\* whole .meta file of an earlier life stays in front, and is what is read.
Appended(t) ==
    IF metaOf[th[t].idx] \in Files THEN metaOf[th[t].idx] ELSE th[t].file

\* Mutant: the SHA1 is not compared.
SameSHA1_Any(t) == TRUE

\* The data that arrives is what the .meta file in front describes.
SameSHA1(t) == Appended(t) = th[t].file

\* The data is kept, or both files are deleted, or the transfer is cut.
RecvOver(t) ==
    /\ Leftover(t)
    /\ LET i == th[t].idx IN
       \/ /\ SameSHA1(t)
          /\ metaOf' = [metaOf EXCEPT ![i] = Appended(t)]
          /\ dataOf' = [dataOf EXCEPT ![i] = th[t].file]
          /\ Goto(t, IF th[t].op = "store" THEN "decide" ELSE "lookup")
          /\ UNCHANGED orphans
       \/ RemoveFiles(i) /\ Finish(t) /\ UNCHANGED orphans
       \/ /\ \/ metaOf' = [metaOf EXCEPT ![i] = IF @ = NoFile THEN Partial ELSE @]
                /\ UNCHANGED dataOf
             \/ /\ metaOf' = [metaOf EXCEPT ![i] = Appended(t)]
                /\ dataOf' = [dataOf EXCEPT ![i] = Partial]
          /\ Finish(t)
          /\ orphans' = orphans \cup {i}
    /\ UNCHANGED <<index, cache, owned, saved, fileIDs, outgoing, crash>>

\* A file is on record once its store command has written the index files, and
\* until a delete command has chosen it.
InMaps(i) ==
    /\ entry[i] # NoFile
    /\ \A t \in Threads : ~(At(t, "unindex") /\ th[t].op = "delete" /\ th[t].cur = i)
Recorded(t) ==
    (stored \cup IF At(t, "persist") /\ th[t].op = "keep" /\ InMaps(th[t].idx)
                 THEN {<<th[t].idx, th[t].file>>} ELSE {})
    \ (IF th[t].pc = "nonce" /\ th'[t].pc = "unindex" THEN {th'[t].cur} \X Files ELSE {})

\* cleanup has joined the keyboard thread, but not the receive threads.
Run ==
    /\ crash = "no"
    /\ \/ \E t \in Threads :
             /\ mode = "up" \/ t # Keyboard
             /\ (Step(t) /\ ~Leftover(t)) \/ RecvOver(t)
             /\ stored' = Recorded(t)
       \/ /\ \E m \in outgoing : SendFile(m) \/ SendFails(m) \/ SendQueueCleared(m)
          /\ UNCHANGED stored
    /\ UNCHANGED <<mode, restarts, ahead, cut>>

-----------------------------------------------------------------------------
(* The end.                                                                *)

\* close_filesys: update_filesys ...
CloseMaps ==
    /\ mode = "up" /\ crash = "no" /\ At(Keyboard, "idle")
    /\ savedEntry' = entry /\ savedMaps' = maps /\ savedIndex' = nextIndex
    /\ mode' = "closing"
    /\ UNCHANGED <<index, cache, disk, savedList, sending, th, crash, restarts, stored,
                   ahead, cut>>

\* ... and then update_cacheList_filesys.
CloseList ==
    /\ mode = "closing" /\ crash = "no" /\ cacheLock = NoThread
    /\ savedList' = cacheList
    /\ mode' = "closed"
    /\ UNCHANGED <<index, cache, disk, savedEntry, savedMaps, savedIndex, sending, th,
                   crash, restarts, stored, ahead, cut>>

-----------------------------------------------------------------------------
(* The next start.                                                         *)

\* The sizes of the files that the cacheList file names, added up.
Bytes(list) == FoldLeft(LAMBDA n, i : n + DiskSize(i), 0, list)

\* read_filesys, but for the index file.
LoadLists ==
    /\ entry' = savedEntry' /\ maps' = savedMaps'
    /\ cacheList' = savedList' /\ cacheBytes' = Bytes(savedList')

\* Mutant: the index file is not read.
Load_NoIndex == LoadLists /\ nextIndex' = 0

\* Mutant: the last file of the index is not counted.
Load_Behind == LoadLists /\ nextIndex' = IF savedIndex' = 0 THEN 0 ELSE savedIndex' - 1

\* Mutant: the cacheList file is not read.
Load_NoList ==
    /\ entry' = savedEntry' /\ maps' = savedMaps' /\ nextIndex' = savedIndex'
    /\ cacheList' = <<>> /\ cacheBytes' = 0

\* read_filesys; an index file that is empty leaves the index at 0.
Load == LoadLists /\ nextIndex' = savedIndex'

\* Threads, queues and FileIDs are gone; what no map lists is lost on the disk.
Begin ==
    /\ restarts < MaxRestarts
    /\ restarts' = restarts + 1 /\ mode' = "up"
    /\ th' = [t \in Threads |-> Idle] /\ cacheLock' = NoThread
    /\ fileIDs' = {} /\ outgoing' = {} /\ crash' = "no"

LoadFiles ==
    /\ Begin
    /\ Load
    /\ ahead' = ahead \cup {i \in Index : /\ i >= savedIndex'
                                          /\ \/ savedEntry'[i] # NoFile
                                             \/ i \in ToSet(savedList') \/ OnRecord(i)}
    /\ orphans' = {i \in Index : /\ savedEntry'[i] = NoFile
                                 /\ metaOf[i] # NoFile \/ dataOf[i] # NoFile}
    /\ UNCHANGED <<disk, stored>>

\* The process ends, in whatever state it is, and is started again.
Restarted == UNCHANGED <<saved, cut>> /\ LoadFiles

\* What the files file an index under: the lines of the maps up to k are new.
Mixed(k) ==
    [i \in Index |-> IF \E m \in Maps : m <= k /\ i \in savedMaps'[m] THEN entry[i]
                     ELSE IF \E m \in Maps : i \in savedMaps'[m] THEN savedEntry[i]
                     ELSE NoFile]

\* update_filesys is under way, for a thread or for close_filesys.  It truncates
\* and rewrites, line by line, the three files and then the index file: a kill
\* finds the files before one of them new, that one with some of its lines or
\* none, and those after it old.
Saving == (\E t \in Threads : At(t, "persist")) \/ (mode = "up" /\ At(Keyboard, "idle"))
MapsHalfSaved ==
    /\ Saving
    /\ \/ \E k \in Maps : \E kept \in SUBSET maps[k] :
             /\ savedMaps' = [m \in Maps |-> IF m < k THEN maps[m]
                                            ELSE IF m = k THEN kept ELSE savedMaps[m]]
             /\ savedEntry' = Mixed(k)
             /\ cut' = cut \cup {i \in maps[k] \ kept : OnRecord(i)}
             /\ UNCHANGED savedIndex
       \/ /\ savedMaps' = maps /\ savedEntry' = entry
          /\ savedIndex' \in {savedIndex, 0}
          /\ UNCHANGED cut

\* update_cacheList_filesys is under way: its file has some of the lines.
ListHalfSaved ==
    /\ cacheLock = NoThread
    /\ (\E t \in Threads : At(t, "persistList")) \/ mode = "closing"
    /\ \E n \in 0 .. Len(cacheList) : savedList' = SubSeq(cacheList, 1, n)

\* The process is killed while one of the two, or both, are under way.
KilledWhileSaving ==
    /\ crash = "no" /\ restarts < MaxKills
    /\ \/ MapsHalfSaved /\ UNCHANGED savedList
       \/ ListHalfSaved /\ UNCHANGED <<savedEntry, savedMaps, savedIndex, cut>>
       \/ MapsHalfSaved /\ ListHalfSaved
    /\ LoadFiles

\* -reset: reset_filesys removes all files first.
Reset ==
    /\ Begin
    /\ nextIndex' = 0 /\ entry' = [i \in Index |-> NoFile] /\ maps' = [m \in Maps |-> {}]
    /\ cacheList' = <<>> /\ cacheBytes' = 0
    /\ metaOf' = [i \in Index |-> NoFile] /\ dataOf' = [i \in Index |-> NoFile]
    /\ owned' = {}
    /\ savedEntry' = [i \in Index |-> NoFile] /\ savedMaps' = [m \in Maps |-> {}]
    /\ savedIndex' = 0 /\ savedList' = <<>>
    /\ orphans' = {} /\ stored' = {} /\ ahead' = {} /\ cut' = {}

RNext == Run \/ CloseMaps \/ CloseList \/ Restarted \/ KilledWhileSaving \/ Reset

RSpec == RInit /\ [][RNext]_rvars

-----------------------------------------------------------------------------
(* Properties.                                                             *)

\* Kills, failed assertions and orderly ends cost no byte of a file that the user
\* stored: it is whole on the disk, its index is not free and out of the cache's
\* reach.  The exception is an index that the index file calls free at a start,
\* because it is handed out a second time.  The file stays listed, in the maps
\* and in their files, unless a kill cut its line out of a file that was being
\* rewritten (fileSystem.cpp:257-318, 97-160).
Durable ==
    \A p \in stored : p[1] \notin ahead =>
        /\ metaOf[p[1]] = p[2] /\ dataOf[p[1]] = p[2]
        /\ p[1] < savedIndex /\ p[1] \notin Cached
        /\ p[1] \notin cut => /\ entry[p[1]] = p[2] /\ savedEntry[p[1]] = p[2]
                              /\ \A m \in Maps : p[1] \in maps[m] \cap savedMaps[m]

\* The same exception is the only way in which a thread gets an index that is
\* in use (handler2.cpp:577-580, fileSystem.cpp:189-193).
FreshAfterRestart ==
    \A t \in Threads : Private(t) /\ th[t].idx \notin ahead =>
        /\ entry[th[t].idx] = NoFile
        /\ th[t].idx \notin Cached \cup {m[1] : m \in outgoing}

\* No file is listed under the description of another, although a new .meta
\* file is appended to the one that an earlier life may have left under its
\* index: then the SHA1 that is read is the old one (handler2.cpp:165, 592, 407).
ListedAsDescribed ==
    \A i \in Index : entry[i] # NoFile /\ metaOf[i] # NoFile /\ i \notin ahead =>
        metaOf[i] = entry[i] /\ dataOf[i] = entry[i]

\* A node that ends while no operation is under way, orderly or not, starts
\* with the maps and the cached files it had (fileSystem.cpp:97-180).
IdleRestart ==
    [][Restarted /\ Quiet => /\ entry' = entry /\ maps' = maps
                             /\ ToSet(cacheList') = Cached]_rvars

=============================================================================
