----------------------------- MODULE FileSystem -----------------------------
(***************************************************************************)
(* The file system of one node (src/filesys/fileSystem.cpp) together with  *)
(* the message handlers and keyboard commands that use it.  Every receive  *)
(* thread and the keyboard thread runs its operation step by step; a step  *)
(* is what the thread does under one lock, or one access to the disk, so   *)
(* the steps of different threads interleave as they do in the program.    *)
(***************************************************************************)
EXTENDS Naturals, Sequences, FiniteSets, SequencesExt

CONSTANTS
    RecvThreads,    \* child_recv_thread, one per connection
    Keyboard,       \* keyboard_thread
    Files,          \* file identities: file name, SHA1 and nonce together
    SizeOf,         \* bytes of the .data file of each identity
    CacheBytes,     \* cacheSize * 1024
    NoFile,         \* "there is no such file", "there is no such entry"
    Partial,        \* what a transfer that was cut leaves on the disk
    NoThread,       \* "nobody holds cacheFile_list_lock"
    Ops,            \* bound: the operations that the threads perform
    MaxIndex        \* bound: how many file indices are ever handed out

Threads == RecvThreads \cup {Keyboard}
Index == 0 .. MaxIndex - 1

\* The three maps that list an index, in the order in which they are written.
NameMap == 1    \* name_map, by file name
Sha1Map == 2    \* sha1_map, by SHA1
KwrdMap == 3    \* kwrd_map, by keywords
Maps == {NameMap, Sha1Map, KwrdMap}

AllOps == {"store", "relay", "own", "keep", "delete", "search", "get"}

ASSUME FilesAssumption ==
    /\ NoFile \notin Files /\ Partial \notin Files /\ NoFile # Partial
    /\ SizeOf \in [Files -> Nat]
ASSUME ThreadAssumption == Keyboard \notin RecvThreads /\ NoThread \notin Threads
ASSUME BoundAssumption == CacheBytes \in Nat /\ MaxIndex \in Nat \ {0} /\ Ops \subseteq AllOps

VARIABLES
    nextIndex,      \* filesys_index
    entry,          \* the file under whose name, SHA1 and keywords an index is filed
    maps,           \* the indices that each of the three maps lists
    cacheList,      \* cacheFile_index_list, least recently used first
    cacheBytes,     \* currentCacheSize_Bytes
    cacheLock,      \* who holds cacheFile_list_lock between two steps
    metaOf,         \* <index>.meta
    dataOf,         \* <index>.data
    owned,          \* the indices that have a .pass file
    savedEntry,     \* name_index, sha1_index and kwrd_index: what an index is filed under
    savedMaps,      \* the indices that each of the three files lists
    savedIndex,     \* the index file
    savedList,      \* the cacheList file
    fileIDs,        \* the indices that fileIDIndex_map points to
    outgoing,       \* messages in a send queue whose payload is a file
    orphans,        \* indices whose files the program has lost track of
    th,             \* what each thread is doing
    crash           \* the assertion or null pointer that ended the process

index   == <<nextIndex, entry, maps>>
cache   == <<cacheList, cacheBytes, cacheLock>>
disk    == <<metaOf, dataOf, owned>>
saved   == <<savedEntry, savedMaps, savedIndex, savedList>>
sending == <<fileIDs, outgoing, orphans>>
vars    == <<index, cache, disk, saved, sending, th, crash>>

Labels == {"idle", "recv", "lookup", "nonce", "decide", "evict", "unindex",
           "probe", "unlink", "create", "insert", "copy", "keep", "persist",
           "persistList", "send", "bySHA1", "uncache", "hits", "touch", "respond"}

Payloads == {"file", "temp", "meta"}
Contents == Files \cup {NoFile, Partial}

\* A thread: its next step, its operation, the index it took, the index it is
\* removing, the file it is about, the indices to be looked at and those that
\* matched.
ThreadState == [pc : Labels, op : AllOps \cup {"none"}, idx : Index, cur : Index,
                file : Files \cup {NoFile}, todo : SUBSET Index, found : SUBSET Index]

Idle == [pc |-> "idle", op |-> "none", idx |-> 0, cur |-> 0, file |-> NoFile,
         todo |-> {}, found |-> {}]

Init ==
    /\ nextIndex = 0 /\ entry = [i \in Index |-> NoFile] /\ maps = [m \in Maps |-> {}]
    /\ cacheList = <<>> /\ cacheBytes = 0 /\ cacheLock = NoThread
    /\ metaOf = [i \in Index |-> NoFile] /\ dataOf = [i \in Index |-> NoFile]
    /\ owned = {}
    /\ savedEntry = [i \in Index |-> NoFile] /\ savedMaps = [m \in Maps |-> {}]
    /\ savedIndex = 0 /\ savedList = <<>>
    /\ fileIDs = {} /\ outgoing = {} /\ orphans = {}
    /\ th = [t \in Threads |-> Idle]
    /\ crash = "no"

-----------------------------------------------------------------------------
(* Helpers.                                                                *)

At(t, label) == th[t].pc = label
Become(t, state) == th' = [th EXCEPT ![t] = state]
Goto(t, label) == Become(t, [th[t] EXCEPT !.pc = label])
Finish(t) == Become(t, Idle)

\* doCacheFile was called for the file in hand.
Caching(t) == th[t].op \in {"store", "relay"}

\* An assert, or a NULL FILE*, ends the process where it is.
Crash(site) ==
    /\ crash' = site
    /\ UNCHANGED <<index, cache, disk, saved, sending, th>>

Cached == ToSet(cacheList)

\* What a search for one of the files S finds in a map.
Find(m, S) == {i \in Index : i \in maps[m] /\ entry[i] \in S}

\* The index enters, or leaves, all three maps, under filesys_lock.
EnterMaps(i, f) ==
    /\ entry' = [entry EXCEPT ![i] = f]
    /\ maps' = [m \in Maps |-> maps[m] \cup {i}]
LeaveMaps(i) ==
    /\ entry' = [entry EXCEPT ![i] = NoFile]
    /\ maps' = [m \in Maps |-> maps[m] \ {i}]

\* list::remove; an index is never in the list twice (CacheDistinct).
Without(list, i) ==
    LET k == CHOOSE n \in 1..Len(list) : list[n] = i
    IN  [n \in 1 .. Len(list) - 1 |-> IF n < k THEN list[n] ELSE list[n + 1]]

\* getFilesize: what stat says of the .data file, 0 when there is none.
DiskSize(i) == IF dataOf[i] \in Files THEN SizeOf[dataOf[i]] ELSE 0

RemoveFiles(i) ==
    /\ metaOf' = [metaOf EXCEPT ![i] = NoFile]
    /\ dataOf' = [dataOf EXCEPT ![i] = NoFile]

-----------------------------------------------------------------------------
(* A STOR or GTRS message that was not seen before brings a file.  "store" *)
(* is a STOR, "relay" a GTRS to forward, "own" any other GTRS.             *)

\* Mutant: the index is incremented first.
RecvNew_Next(t) ==
    /\ t \in RecvThreads /\ At(t, "idle") /\ nextIndex < MaxIndex
    /\ \E k \in {"store", "relay", "own"} \cap Ops, f \in Files :
          Become(t, [Idle EXCEPT !.pc = "recv", !.op = k, !.file = f, !.idx = nextIndex + 1])
    /\ nextIndex' = nextIndex + 1
    /\ UNCHANGED <<entry, maps, cache, disk, saved, sending, crash>>

\* Mutant: the index is not incremented.
RecvNew_Same(t) ==
    /\ t \in RecvThreads /\ At(t, "idle") /\ nextIndex < MaxIndex
    /\ \E k \in {"store", "relay", "own"} \cap Ops, f \in Files :
          Become(t, [Idle EXCEPT !.pc = "recv", !.op = k, !.file = f, !.idx = nextIndex])
    /\ UNCHANGED nextIndex
    /\ UNCHANGED <<entry, maps, cache, disk, saved, sending, crash>>

\* A fresh index is taken under filesys_lock, before the payload arrives.
RecvNew(t) ==
    /\ t \in RecvThreads /\ At(t, "idle") /\ nextIndex < MaxIndex
    /\ \E k \in {"store", "relay", "own"} \cap Ops, f \in Files :
          Become(t, [Idle EXCEPT !.pc = "recv", !.op = k, !.file = f, !.idx = nextIndex])
    /\ nextIndex' = nextIndex + 1
    /\ UNCHANGED <<entry, maps, cache, disk, saved, sending, crash>>

RecvPayload(t) ==
    /\ At(t, "recv")
    /\ metaOf' = [metaOf EXCEPT ![th[t].idx] = th[t].file]
    /\ dataOf' = [dataOf EXCEPT ![th[t].idx] = th[t].file]
    /\ Goto(t, IF th[t].op = "store" THEN "decide" ELSE "lookup")
    /\ UNCHANGED <<index, cache, owned, saved, sending, crash>>

\* The connection closes or times out: the handler returns at once and what
\* has been written stays behind.
RecvCut(t) ==
    /\ At(t, "recv")
    /\ \/ metaOf' = [metaOf EXCEPT ![th[t].idx] = Partial] /\ UNCHANGED dataOf
       \/ /\ metaOf' = [metaOf EXCEPT ![th[t].idx] = th[t].file]
          /\ dataOf' = [dataOf EXCEPT ![th[t].idx] = Partial]
    /\ orphans' = orphans \cup {th[t].idx}
    /\ Finish(t)
    /\ UNCHANGED <<index, cache, owned, saved, fileIDs, outgoing, crash>>

\* The disk is full or the SHA1 is wrong: both files are written and deleted.
RecvRejected(t) ==
    /\ At(t, "recv")
    /\ Finish(t)
    /\ UNCHANGED <<index, cache, disk, saved, sending, crash>>

\* GTRS: search_SHA1 lists the stored files with the same content, and the
\* nonce of each is read from its .meta file, without any lock.
Lookup(t) ==
    /\ At(t, "lookup")
    /\ Become(t, [th[t] EXCEPT !.pc = "nonce", !.todo = Find(Sha1Map, {th[t].file})])
    /\ UNCHANGED <<index, cache, disk, saved, sending, crash>>

Nonce(t) ==
    /\ At(t, "nonce")
    /\ \E i \in th[t].todo :
          IF metaOf[i] = NoFile
          THEN Crash("getNonce_metaData")
          ELSE /\ Become(t, [th[t] EXCEPT
                         !.todo = @ \ {i},
                         !.found = IF metaOf[i] = th[t].file THEN @ \cup {i} ELSE @])
               /\ UNCHANGED <<index, cache, disk, saved, sending, crash>>

NonceDone(t) ==
    /\ At(t, "nonce") /\ th[t].todo = {} /\ th[t].op # "delete"
    /\ Goto(t, "decide")
    /\ UNCHANGED <<index, cache, disk, saved, sending, crash>>

\* Mutant: the .meta file stays.
Drop_Meta(t) ==
    /\ At(t, "decide")
    /\ dataOf' = [dataOf EXCEPT ![th[t].idx] = NoFile] /\ UNCHANGED metaOf
    /\ Finish(t)
    /\ UNCHANGED <<index, cache, owned, saved, sending, crash>>

\* The file is not to be kept: deleteDiskFile on files only this thread knows.
Drop(t) ==
    /\ At(t, "decide")
    /\ RemoveFiles(th[t].idx)
    /\ Finish(t)
    /\ UNCHANGED <<index, cache, owned, saved, sending, crash>>

\* Mutant: the files are deleted as those of a dropped file are.
HandOver_Deletes(t) ==
    /\ At(t, "decide") /\ th[t].op = "relay"
    /\ RemoveFiles(th[t].idx)
    /\ outgoing' = outgoing \cup {<<th[t].idx, "temp">>}
    /\ Finish(t)
    /\ UNCHANGED <<index, cache, owned, saved, fileIDs, orphans, crash>>

\* A GTRS that is forwarded but not cached: the send thread deletes the files.
HandOver(t) ==
    /\ At(t, "decide") /\ th[t].op = "relay"
    /\ outgoing' = outgoing \cup {<<th[t].idx, "temp">>}
    /\ Finish(t)
    /\ UNCHANGED <<index, cache, disk, saved, fileIDs, orphans, crash>>

\* The answer to this node's own get goes to permanent space, not to the cache.
KeepGot(t) ==
    /\ At(t, "decide") /\ th[t].op = "own" /\ th[t].found = {}
    /\ Goto(t, "create")
    /\ UNCHANGED <<index, cache, disk, saved, sending, crash>>

-----------------------------------------------------------------------------
(* doCacheFile.                                                            *)

CacheStart(t) ==
    /\ At(t, "decide") /\ Caching(t) /\ th[t].found = {}
    /\ SizeOf[th[t].file] <= CacheBytes
    /\ cacheLock = NoThread
    /\ cacheLock' = t
    /\ Goto(t, "evict")
    /\ UNCHANGED <<index, cacheList, cacheBytes, disk, saved, sending, crash>>

\* Mutant: the new file is not counted.
NoRoom_Before(t) == cacheBytes > CacheBytes

NoRoom(t) == SizeOf[th[t].file] + cacheBytes > CacheBytes

\* Mutant: the most recently used file goes.
Evict_Newest(t) ==
    /\ At(t, "evict") /\ NoRoom(t)
    /\ cacheList # <<>> /\ cacheBytes >= SizeOf[th[t].file]
    /\ Become(t, [th[t] EXCEPT !.todo = @ \cup {Last(cacheList)}])
    /\ cacheList' = Front(cacheList)
    /\ cacheBytes' = cacheBytes - SizeOf[th[t].file]
    /\ UNCHANGED <<index, cacheLock, disk, saved, sending, crash>>

\* Mutant: the front is read and not popped.
Evict_Peek(t) ==
    /\ At(t, "evict") /\ NoRoom(t)
    /\ cacheList # <<>> /\ cacheBytes >= SizeOf[th[t].file]
    /\ Become(t, [th[t] EXCEPT !.todo = @ \cup {Head(cacheList)}])
    /\ cacheBytes' = cacheBytes - SizeOf[th[t].file]
    /\ UNCHANGED <<index, cacheList, cacheLock, disk, saved, sending, crash>>

\* One turn of the while loop: what is subtracted is the size of the new file.
Evict(t) ==
    /\ At(t, "evict") /\ NoRoom(t)
    /\ cacheList # <<>> /\ cacheBytes >= SizeOf[th[t].file]
    /\ Become(t, [th[t] EXCEPT !.todo = @ \cup {Head(cacheList)}])
    /\ cacheList' = Tail(cacheList)
    /\ cacheBytes' = cacheBytes - SizeOf[th[t].file]
    /\ UNCHANGED <<index, cacheLock, disk, saved, sending, crash>>

\* The head of an empty list is undefined; the assertion on the size comes
\* after the head is popped.
EvictFails(t) ==
    /\ At(t, "evict") /\ NoRoom(t)
    /\ \/ cacheList = <<>> /\ Crash("front of an empty list")
       \/ /\ cacheList # <<>> /\ cacheBytes < SizeOf[th[t].file]
          /\ Crash("doCacheFile")

CachePush(t) ==
    /\ At(t, "evict") /\ ~NoRoom(t)
    /\ cacheList' = Append(cacheList, th[t].idx)
    /\ cacheBytes' = cacheBytes + SizeOf[th[t].file]
    /\ cacheLock' = NoThread
    /\ Goto(t, IF th[t].todo = {} THEN "create" ELSE "unindex")
    /\ UNCHANGED <<index, disk, saved, sending, crash>>

\* Mutant: the victim stays in the maps.
VictimUnindex_Not(t) ==
    /\ At(t, "unindex") /\ Caching(t)
    /\ \E i \in th[t].todo :
          /\ UNCHANGED <<entry, maps>>
          /\ Become(t, [th[t] EXCEPT !.pc = "probe", !.cur = i, !.todo = @ \ {i}])
    /\ UNCHANGED <<nextIndex, cache, disk, saved, sending, crash>>

\* deleteFile_filesys of a victim, which has left the list; the list is
\* unlocked by now.
VictimUnindex(t) ==
    /\ At(t, "unindex") /\ Caching(t)
    /\ \E i \in th[t].todo :
          /\ LeaveMaps(i)
          /\ Become(t, [th[t] EXCEPT !.pc = "probe", !.cur = i, !.todo = @ \ {i}])
    /\ UNCHANGED <<nextIndex, cache, disk, saved, sending, crash>>

\* deleteDiskFile: the files are opened, and removed, or the assertion fails.  The
\* program removes .meta before it opens .data; here both are opened first.
Probe(t) ==
    /\ At(t, "probe")
    /\ IF NoFile \in {metaOf[th[t].cur], dataOf[th[t].cur]}
       THEN Crash("deleteDiskFile")
       ELSE /\ Goto(t, "unlink")
            /\ UNCHANGED <<index, cache, disk, saved, sending, crash>>

\* The owner's delete command also removes the .pass file.
Unlink(t) ==
    /\ At(t, "unlink")
    /\ RemoveFiles(th[t].cur)
    /\ \/ th[t].op = "delete" /\ Finish(t)
       \/ th[t].op # "delete" /\ Goto(t, IF th[t].todo = {} THEN "create" ELSE "unindex")
    /\ owned' = IF t = Keyboard THEN owned \ {th[t].cur} ELSE owned
    /\ UNCHANGED <<index, cache, saved, sending, crash>>

\* createFile_filesys reads the .meta file, then files the index under it.
Create(t) ==
    /\ At(t, "create")
    /\ IF metaOf[th[t].idx] = NoFile
       THEN Crash("get_threeIndex")
       ELSE /\ Goto(t, "insert")
            /\ UNCHANGED <<index, cache, disk, saved, sending, crash>>

Insert(t) ==
    /\ At(t, "insert")
    /\ EnterMaps(th[t].idx, th[t].file)
    /\ Goto(t, "persist")
    /\ UNCHANGED <<nextIndex, cache, disk, saved, sending, crash>>

\* update_filesys: the whole maps and the index, under filesys_lock.
Persist(t) ==
    /\ At(t, "persist")
    /\ savedEntry' = entry /\ savedMaps' = maps /\ savedIndex' = nextIndex
    /\ \/ Caching(t) /\ Goto(t, "persistList")
       \/ th[t].op = "keep" /\ Goto(t, "send")
       \/ th[t].op = "delete" /\ Goto(t, "uncache")
       \/ th[t].op \in {"own", "none"} /\ Finish(t)
    /\ UNCHANGED <<index, cache, disk, savedList, sending, crash>>

\* Mutant: nothing is written.
PersistList_Not(t) ==
    /\ At(t, "persistList") /\ cacheLock = NoThread
    /\ UNCHANGED savedList
    /\ \/ Caching(t) /\ Goto(t, "send")
       \/ th[t].op = "delete" /\ Goto(t, "probe")
       \/ th[t].op = "search" /\ Goto(t, "respond")
       \/ th[t].op = "get" /\ Finish(t)
    /\ UNCHANGED <<index, cache, disk, savedEntry, savedMaps, savedIndex, sending, crash>>

\* update_cacheList_filesys.
PersistList(t) ==
    /\ At(t, "persistList") /\ cacheLock = NoThread
    /\ savedList' = cacheList
    /\ \/ Caching(t) /\ Goto(t, "send")
       \/ th[t].op = "delete" /\ Goto(t, "probe")
       \/ th[t].op = "search" /\ Goto(t, "respond")
       \/ th[t].op = "get" /\ Finish(t)
    /\ UNCHANGED <<index, cache, disk, savedEntry, savedMaps, savedIndex, sending, crash>>

\* create_storeMsg or the GTRS that is forwarded; the TTL, the probabilities
\* or a lack of neighbours may mean that no message is sent.
Send(t) ==
    /\ At(t, "send")
    /\ outgoing' \in {outgoing, outgoing \cup {<<th[t].idx, "file">>}}
    /\ Finish(t)
    /\ UNCHANGED <<index, cache, disk, saved, fileIDs, orphans, crash>>

-----------------------------------------------------------------------------
(* The keyboard's store command: storeFile_filesys, then update_filesys.   *)

KeepStart(t) ==
    /\ t = Keyboard /\ At(t, "idle") /\ "keep" \in Ops /\ nextIndex < MaxIndex
    /\ \E f \in Files :
          Become(t, [Idle EXCEPT !.pc = "copy", !.op = "keep", !.file = f, !.idx = nextIndex])
    /\ nextIndex' = nextIndex + 1
    /\ UNCHANGED <<entry, maps, cache, disk, saved, sending, crash>>

\* There is no such file: its null FILE* is closed.
KeepMissing(t) ==
    /\ t = Keyboard /\ At(t, "idle") /\ "keep" \in Ops
    /\ Crash("storeFile_filesys")

KeepCopy(t) ==
    /\ At(t, "copy")
    /\ dataOf' = [dataOf EXCEPT ![th[t].idx] = th[t].file]
    /\ Goto(t, "keep")
    /\ UNCHANGED <<index, cache, metaOf, owned, saved, sending, crash>>

\* Mutant: the file also enters the cache.
Keep_Cached(t) ==
    /\ At(t, "keep")
    /\ metaOf' = [metaOf EXCEPT ![th[t].idx] = th[t].file]
    /\ cacheList' = Append(cacheList, th[t].idx)
    /\ owned' = owned \cup {th[t].idx}
    /\ EnterMaps(th[t].idx, th[t].file)
    /\ Goto(t, "persist")
    /\ UNCHANGED <<nextIndex, cacheBytes, cacheLock, dataOf, saved, sending, crash>>

Keep(t) ==
    /\ At(t, "keep")
    /\ metaOf' = [metaOf EXCEPT ![th[t].idx] = th[t].file]
    /\ owned' = owned \cup {th[t].idx}
    /\ EnterMaps(th[t].idx, th[t].file)
    /\ Goto(t, "persist")
    /\ UNCHANGED <<nextIndex, cache, dataOf, saved, sending, crash>>

\* The source file vanished: meta.init fails, update_filesys still runs.
KeepFails(t) ==
    /\ At(t, "keep")
    /\ orphans' = orphans \cup {th[t].idx}
    /\ Become(t, [Idle EXCEPT !.pc = "persist"])
    /\ UNCHANGED <<index, cache, disk, saved, fileIDs, outgoing, crash>>

-----------------------------------------------------------------------------
(* delete: get_matchFileIndex, then deleteFile_command.                    *)

\* search_filename, under filesys_lock.
DeleteStart(t) ==
    /\ At(t, "idle") /\ "delete" \in Ops
    /\ \E f \in Files :
          Become(t, [Idle EXCEPT !.pc = "bySHA1", !.op = "delete", !.file = f,
                                !.todo = Find(NameMap, {f})])
    /\ UNCHANGED <<index, cache, disk, saved, sending, crash>>

\* search_SHA1 takes the lock again; Nonce looks at what is in both.
DeleteBySHA1(t) ==
    /\ At(t, "bySHA1")
    /\ Become(t, [th[t] EXCEPT !.pc = "nonce", !.todo = @ \cap Find(Sha1Map, {th[t].file})])
    /\ UNCHANGED <<index, cache, disk, saved, sending, crash>>

\* No match, or a DELT with the wrong password.
DeleteRefused(t) ==
    /\ At(t, "nonce") /\ th[t].todo = {} /\ th[t].op = "delete"
    /\ th[t].found = {} \/ (Cardinality(th[t].found) = 1 /\ t # Keyboard)
    /\ Finish(t)
    /\ UNCHANGED <<index, cache, disk, saved, sending, crash>>

DeleteChosen(t) ==
    /\ At(t, "nonce") /\ th[t].todo = {} /\ th[t].op = "delete"
    /\ \E i \in th[t].found :
          /\ th[t].found = {i} /\ (t = Keyboard => i \in owned)
          /\ Become(t, [th[t] EXCEPT !.pc = "unindex", !.cur = i])
    /\ UNCHANGED <<index, cache, disk, saved, sending, crash>>

\* Two files with this name, SHA1 and nonce fail an assertion; the keyboard
\* command closes the null FILE* of a .pass file that is not there.
DeleteFails(t) ==
    /\ At(t, "nonce") /\ th[t].todo = {} /\ th[t].op = "delete"
    /\ \/ Cardinality(th[t].found) > 1 /\ Crash("get_matchFileIndex")
       \/ /\ Cardinality(th[t].found) = 1 /\ t = Keyboard /\ th[t].found \cap owned = {}
          /\ Crash("fclose of a null pointer")

DeleteUnindex(t) ==
    /\ At(t, "unindex") /\ th[t].op = "delete"
    /\ LeaveMaps(th[t].cur)
    /\ Goto(t, "persist")
    /\ UNCHANGED <<nextIndex, cache, disk, saved, sending, crash>>

\* Mutant: the list keeps the index.
Uncache_Stays(t) ==
    /\ At(t, "uncache") /\ cacheLock = NoThread
    /\ th[t].cur \in Cached /\ cacheBytes >= DiskSize(th[t].cur)
    /\ UNCHANGED cacheList
    /\ cacheBytes' = cacheBytes - DiskSize(th[t].cur)
    /\ Goto(t, "persistList")
    /\ UNCHANGED <<index, cacheLock, disk, saved, sending, crash>>

\* Mutant: the size is not subtracted.
Uncache_Size(t) ==
    /\ At(t, "uncache") /\ cacheLock = NoThread
    /\ th[t].cur \in Cached /\ cacheBytes >= DiskSize(th[t].cur)
    /\ cacheList' = Without(cacheList, th[t].cur)
    /\ UNCHANGED cacheBytes
    /\ Goto(t, "persistList")
    /\ UNCHANGED <<index, cacheLock, disk, saved, sending, crash>>

\* remove_cacheList_if_needed, for delete and for a get of a local file.
Uncache(t) ==
    /\ At(t, "uncache") /\ cacheLock = NoThread
    /\ th[t].cur \in Cached /\ cacheBytes >= DiskSize(th[t].cur)
    /\ cacheList' = Without(cacheList, th[t].cur)
    /\ cacheBytes' = cacheBytes - DiskSize(th[t].cur)
    /\ Goto(t, "persistList")
    /\ UNCHANGED <<index, cacheLock, disk, saved, sending, crash>>

UncacheNotNeeded(t) ==
    /\ At(t, "uncache") /\ cacheLock = NoThread /\ th[t].cur \notin Cached
    /\ \/ th[t].op = "delete" /\ Goto(t, "probe")
       \/ th[t].op = "get" /\ Finish(t)
    /\ UNCHANGED <<index, cache, disk, saved, sending, crash>>

UncacheFails(t) ==
    /\ At(t, "uncache") /\ cacheLock = NoThread
    /\ th[t].cur \in Cached /\ cacheBytes < DiskSize(th[t].cur)
    /\ Crash("remove_cacheList_if_needed")

-----------------------------------------------------------------------------
(* search: search_filesys, search_update_cacheList, then the answer.       *)

SearchStart(t) ==
    /\ At(t, "idle") /\ "search" \in Ops
    /\ \E m \in Maps, Q \in SUBSET Files :
          /\ Find(m, Q) # {}
          /\ Become(t, [Idle EXCEPT !.pc = "hits", !.op = "search", !.found = Find(m, Q)])
    /\ UNCHANGED <<index, cache, disk, saved, sending, crash>>

SearchHits(t) ==
    /\ At(t, "hits") /\ cacheLock = NoThread
    /\ LET hits == th[t].found \cap Cached
       IN  Become(t, [th[t] EXCEPT !.todo = hits,
                                   !.pc = IF hits = {} THEN "respond" ELSE "touch"])
    /\ UNCHANGED <<index, cache, disk, saved, sending, crash>>

\* Mutant: the hit is not removed first.
Touch_Twice(t) ==
    /\ At(t, "touch") /\ cacheLock = NoThread
    /\ \E i \in th[t].todo \cap Cached :
          /\ cacheList' = Append(cacheList, i)
          /\ Become(t, [th[t] EXCEPT !.todo = @ \ {i}])
    /\ UNCHANGED <<index, cacheBytes, cacheLock, disk, saved, sending, crash>>

\* update_cacheList: the hit moves to the recently used end of the list.
Touch(t) ==
    /\ At(t, "touch") /\ cacheLock = NoThread
    /\ \E i \in th[t].todo \cap Cached :
          /\ cacheList' = Append(Without(cacheList, i), i)
          /\ Become(t, [th[t] EXCEPT !.todo = @ \ {i}])
    /\ UNCHANGED <<index, cacheBytes, cacheLock, disk, saved, sending, crash>>

TouchFails(t) ==
    /\ At(t, "touch") /\ cacheLock = NoThread
    /\ th[t].todo \ Cached # {}
    /\ Crash("update_cacheList")

\* The cacheList file is written once in four times.
TouchDone(t) ==
    /\ At(t, "touch") /\ th[t].todo = {}
    /\ \E label \in {"persistList", "respond"} : Goto(t, label)
    /\ UNCHANGED <<index, cache, disk, saved, sending, crash>>

\* create_searchResMsg queues the .meta files of the matches; the keyboard's
\* show_searchResponse prints them.
Respond(t) ==
    /\ At(t, "respond")
    /\ t = Keyboard => \A i \in th[t].found : metaOf[i] # NoFile
    /\ fileIDs' = fileIDs \cup th[t].found
    /\ outgoing' = IF t = Keyboard THEN outgoing
                   ELSE outgoing \cup (th[t].found \X {"meta"})
    /\ Finish(t)
    /\ UNCHANGED <<index, cache, disk, saved, orphans, crash>>

RespondFails(t) ==
    /\ At(t, "respond") /\ t = Keyboard
    /\ \E i \in th[t].found : metaOf[i] = NoFile
    /\ Crash("print_search_metaDataFile")

-----------------------------------------------------------------------------
(* get, and the send threads.                                              *)

\* handle_getMsg: FileIDs are never taken out of fileIDIndex_map.
GetRequest(t) ==
    /\ t \in RecvThreads /\ At(t, "idle") /\ "get" \in Ops
    /\ \E i \in fileIDs : outgoing' = outgoing \cup {<<i, "file">>}
    /\ UNCHANGED <<index, cache, disk, saved, fileIDs, orphans, th, crash>>

\* The keyboard's get of a file that this node has: it leaves the cache first.
GetLocal(t) ==
    /\ t = Keyboard /\ At(t, "idle") /\ "get" \in Ops
    /\ \E i \in fileIDs :
          Become(t, [Idle EXCEPT !.pc = "uncache", !.op = "get", !.cur = i])
    /\ UNCHANGED <<index, cache, disk, saved, sending, crash>>

\* send_file_payload: the files are opened when the message leaves the queue.
Sendable(m) == metaOf[m[1]] # NoFile /\ (m[2] = "meta" \/ dataOf[m[1]] # NoFile)

SendFile(m) ==
    /\ Sendable(m)
    /\ outgoing' = outgoing \ {m}
    /\ IF m[2] = "temp" THEN RemoveFiles(m[1]) ELSE UNCHANGED <<metaOf, dataOf>>
    /\ UNCHANGED <<index, cache, owned, saved, fileIDs, orphans, th, crash>>

SendFails(m) == ~Sendable(m) /\ Crash("send_file_data")

\* The connection closes and its send queue is emptied.
SendQueueCleared(m) ==
    /\ outgoing' = outgoing \ {m}
    /\ orphans' = IF m[2] = "temp" THEN orphans \cup {m[1]} ELSE orphans
    /\ UNCHANGED <<index, cache, disk, saved, fileIDs, th, crash>>

-----------------------------------------------------------------------------

Step(t) ==
    \/ RecvNew(t) \/ RecvPayload(t) \/ RecvCut(t) \/ RecvRejected(t)
    \/ Lookup(t) \/ Nonce(t) \/ NonceDone(t)
    \/ Drop(t) \/ HandOver(t) \/ KeepGot(t)
    \/ CacheStart(t) \/ Evict(t) \/ EvictFails(t) \/ CachePush(t)
    \/ VictimUnindex(t) \/ Probe(t) \/ Unlink(t)
    \/ Create(t) \/ Insert(t) \/ Persist(t) \/ PersistList(t) \/ Send(t)
    \/ KeepStart(t) \/ KeepMissing(t) \/ KeepCopy(t) \/ Keep(t) \/ KeepFails(t)
    \/ DeleteStart(t) \/ DeleteBySHA1(t) \/ DeleteRefused(t) \/ DeleteChosen(t)
    \/ DeleteFails(t) \/ DeleteUnindex(t)
    \/ Uncache(t) \/ UncacheNotNeeded(t) \/ UncacheFails(t)
    \/ SearchStart(t) \/ SearchHits(t) \/ Touch(t) \/ TouchFails(t) \/ TouchDone(t)
    \/ Respond(t) \/ RespondFails(t)
    \/ GetRequest(t) \/ GetLocal(t)

Next ==
    /\ crash = "no"
    /\ \/ \E t \in Threads : Step(t)
       \/ \E m \in outgoing : SendFile(m) \/ SendFails(m) \/ SendQueueCleared(m)

Spec == Init /\ [][Next]_vars

-----------------------------------------------------------------------------
(* Properties.                                                             *)

\* Every variable has its type; what a thread remembers are indices.
Typed ==
    /\ nextIndex \in 0 .. MaxIndex
    /\ entry \in [Index -> Files \cup {NoFile}] /\ maps \in [Maps -> SUBSET Index]
    /\ cacheList \in Seq(Index)
    /\ cacheLock \in Threads \cup {NoThread}
    /\ metaOf \in [Index -> Contents] /\ dataOf \in [Index -> Contents]
    /\ owned \subseteq Index
    /\ savedEntry \in [Index -> Files \cup {NoFile}] /\ savedMaps \in [Maps -> SUBSET Index]
    /\ savedIndex \in 0 .. MaxIndex /\ savedList \in Seq(Index)
    /\ fileIDs \subseteq Index /\ outgoing \subseteq Index \X Payloads
    /\ orphans \subseteq Index
    /\ th \in [Threads -> ThreadState]

\* The unsigned counter never wraps: every subtraction is tested first.
TypeOK == Typed /\ cacheBytes \in Nat

\* The files that a thread is about to unlink.
Doomed(t) ==
    IF Caching(t) /\ th[t].pc \in {"evict", "unindex", "probe", "unlink"}
    THEN th[t].todo \cup (IF th[t].pc \in {"probe", "unlink"} THEN {th[t].cur} ELSE {})
    ELSE IF th[t].op = "delete" /\ th[t].pc \in {"probe", "unlink"} THEN {th[t].cur} ELSE {}

\* Whoever is evicting, deleting, searching or still receiving, a file in the
\* LRU list is whole on the disk and no thread is going to unlink it: a victim
\* and a deleted file leave the list first (fileSystem.cpp:483-512, 378-395).
CachedOnDisk ==
    \A i \in Cached : /\ metaOf[i] \in Files /\ dataOf[i] = metaOf[i]
                      /\ \A t \in Threads : i \notin Doomed(t)

\* No index is twice in the LRU list, so list::remove takes one element and
\* its size is subtracted once (fileSystem.cpp:494, 562, 584-585).
CacheDistinct == \A m, n \in DOMAIN cacheList : cacheList[m] = cacheList[n] => m = n

\* The size the program believes the cache has never exceeds CacheSize, even
\* though what an eviction subtracts is not the size of what it evicts.
CounterWithinCacheSize == cacheBytes <= CacheBytes

\* A file that this node's user stored is never a candidate for eviction.
OwnedNotCached ==
    \A i \in owned : i \notin Cached /\ \A t \in Threads :
        Caching(t) => i \notin Doomed(t)

\* Threads that are between taking an index and publishing it own it: it is
\* in no map, list or message and in the hands of no other thread.
Private(t) ==
    \/ th[t].pc \in {"recv", "lookup", "decide", "evict", "copy", "keep"}
    \/ th[t].pc = "nonce" /\ th[t].op # "delete"

IndexNotShared ==
    \A t \in Threads : Private(t) =>
        /\ th[t].idx \notin Cached \cup fileIDs \cup {m[1] : m \in outgoing}
        /\ entry[th[t].idx] = NoFile
        /\ \A u \in Threads \ {t} : Private(u) => th[u].idx # th[t].idx

Quiet == crash = "no" /\ \A t \in Threads : th[t].pc = "idle"

\* When no operation is under way the index files on disk are what the maps
\* say, and the cacheList file names the cached files, whatever the order in
\* which the operations wrote them.
SavedWhenQuiet ==
    Quiet => savedEntry = entry /\ savedMaps = maps /\ ToSet(savedList) = Cached

\* Every file on disk can be found again once the operations are over, but for
\* those of a cut transfer and of a relayed answer whose connection closed.
NoDiskLeak ==
    Quiet => \A i \in Index \ (orphans \cup {m[1] : m \in outgoing}) :
                 metaOf[i] # NoFile \/ dataOf[i] # NoFile => entry[i] # NoFile

\* When all files have one size, the size the program believes the cache has is
\* the size it has; what an eviction subtracts is wrong only for other sizes.
ExactForOneSize ==
    \A s \in {SizeOf[f] : f \in Files} :
        (\A f \in Files : SizeOf[f] = s) => cacheBytes = s * Len(cacheList)

\* When all files have one size none of the assertions on the counter can fail
\* (fileSystem.cpp:490, 564), nor is the front of an empty list taken (486).
OneSizeNeverFails ==
    (\A f, g \in Files : SizeOf[f] = SizeOf[g]) =>
        crash \notin {"doCacheFile", "front of an empty list", "remove_cacheList_if_needed"}

\* Two connections that make room at the same time have different victims, so
\* deleteDiskFile's assertion on files that are gone (fileSystem.cpp:359-366) takes
\* a delete command: whoever evicts takes the front off the list under the lock.
EvictionsApart ==
    \A t, u \in Threads :
        t # u /\ Caching(t) /\ Caching(u) => Doomed(t) \cap Doomed(u) = {}

\* A file that was received only to be forwarded is whole on the disk until its
\* message is sent, however long it is queued: no search, deletion or eviction
\* finds it, and its index is not used again (handler2.cpp:1124, message.cpp:110).
RelayedOnDisk ==
    \A i \in Index : <<i, "temp">> \in outgoing =>
        metaOf[i] \in Files /\ dataOf[i] = metaOf[i]

\* With a single connection, a file that the maps list is on the disk: only
\* another receive thread could evict it between doCacheFile's push and its
\* createFile_filesys, and leave an entry for files that are gone.
IndexedOnDisk ==
    Cardinality(RecvThreads) = 1 =>
        \A i \in Index : entry[i] # NoFile => metaOf[i] = entry[i] /\ dataOf[i] = entry[i]

=============================================================================
