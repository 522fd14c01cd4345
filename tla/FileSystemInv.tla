--------------------------- MODULE FileSystemInv ---------------------------
(***************************************************************************)
(* The inductive invariant of FileSystem: what relates the index that a    *)
(* thread has taken, the indices that the rest of the node can reach and   *)
(* the LRU list, and so keeps the files of the list on the disk.           *)
(***************************************************************************)
EXTENDS FileSystem

\* The operations that bring a file in, and those that look for one.
Incoming == {"store", "relay", "own"}

\* Which operation is at which step, that it has a file in hand if it brings one in,
\* and that nothing is left to look at before doCacheFile starts to collect victims.
OpOK ==
    \A t \in Threads :
        /\ th[t].op \in Incoming \cup {"keep"} => th[t].file \in Files
        /\ th[t].pc \in {"recv", "decide", "create", "insert"} => th[t].op \in Incoming
        /\ th[t].pc \in {"recv", "decide"} => th[t].todo = {}
        /\ th[t].pc = "lookup" => th[t].op \in {"relay", "own"}
        /\ th[t].pc = "nonce" => th[t].op \in {"relay", "own", "delete"}
        /\ th[t].pc = "evict" => Caching(t)
        /\ th[t].pc \in {"unindex", "probe", "unlink"} => Caching(t) \/ th[t].op = "delete"
        /\ th[t].pc \in {"copy", "keep"} => th[t].op = "keep"
        /\ th[t].pc = "persistList" => Caching(t) \/ th[t].op \in {"delete", "search", "get"}
        /\ th[t].pc = "send" => Caching(t) \/ th[t].op = "keep"
        /\ th[t].pc = "bySHA1" => th[t].op = "delete"
        /\ th[t].pc = "uncache" => th[t].op \in {"delete", "get"}
        /\ th[t].pc \in {"hits", "touch", "respond"} => th[t].op = "search"
        /\ th[t].pc = "idle" => th[t] = Idle

\* doCacheFile holds the lock of the list from its first test to its push.
LockOK == \A t \in Threads : cacheLock = t <=> At(t, "evict")

\* The thread has published the index that it took, or is about to.
Publishing(t) ==
    /\ th[t].op \in Incoming \cup {"keep"}
    /\ th[t].pc \in {"unindex", "probe", "unlink", "create", "insert", "persist",
                     "persistList", "send"}

Targeting(t) ==
    \/ th[t].op = "get"
    \/ th[t].op = "delete" /\ th[t].pc \in {"unindex", "persist", "uncache",
                                            "persistList", "probe", "unlink"}
    \/ th[t].pc \in {"probe", "unlink"}

\* The thread may still use the index, which is not (any longer) its own.
Holds(t, i) ==
    \/ i \in th[t].todo \cup th[t].found
    \/ Targeting(t) /\ i = th[t].cur
    \/ Publishing(t) /\ i = th[t].idx

\* The maps, the LRU list, a message or the user's .pass files name the index.
Named(i) ==
    \/ i \in Cached \cup fileIDs
    \/ entry[i] # NoFile
    \/ \E p \in Payloads : <<i, p>> \in outgoing
Listed(i) == Named(i) \/ i \in owned

\* Somebody other than the thread that took the index can reach it.
Known(i) == Listed(i) \/ \E t \in Threads : Holds(t, i)

\* An index is known, or private to one thread, only once it has been taken.
KnownTaken == \A i \in Index : Known(i) => i < nextIndex
PrivateTaken ==
    \A t \in Threads, i \in Index :
        Private(t) /\ th[t].idx = i => i < nextIndex /\ ~Known(i)
PrivateApart ==
    \A t, u \in Threads : Private(t) /\ Private(u) /\ t # u => th[t].idx # th[u].idx

\* A file that has been received and not been published is whole on the disk.
Received(t) ==
    \/ th[t].pc \in {"lookup", "decide", "evict"}
    \/ th[t].pc = "nonce" /\ th[t].op # "delete"

ReceivedOnDisk ==
    \A t \in Threads :
        Received(t) => metaOf[th[t].idx] = th[t].file /\ dataOf[th[t].idx] = th[t].file

\* A file that left the LRU list to be deleted does not come back to it.
DeletedNotCached ==
    \A t \in Threads :
        th[t].op = "delete" /\ th[t].pc = "persistList" => th[t].cur \notin Cached

TempNotCached == \A i \in Index : <<i, "temp">> \in outgoing => i \notin Cached

\* Each step of each operation preserves it (FileSystem_proofs); it implies
\* CachedOnDisk, CacheDistinct, OwnedNotCached and IndexNotShared.
IndInv ==
    /\ Typed /\ cacheBytes \in Nat /\ OpOK /\ LockOK
    /\ KnownTaken /\ PrivateTaken /\ PrivateApart
    /\ ReceivedOnDisk /\ DeletedNotCached /\ TempNotCached
    /\ CacheDistinct /\ CachedOnDisk /\ OwnedNotCached

-----------------------------------------------------------------------------
(* Further invariants, each kept together with IndInv.                     *)

\* The thread has still to write the maps, or the list, to the disk.
PersistPending(t) ==
    \/ th[t].pc = "persist"
    \/ Caching(t) /\ th[t].pc \in {"probe", "unlink", "unindex", "create", "insert"}

ListPending(t) ==
    \/ th[t].pc = "persistList"
    \/ /\ Caching(t)
       /\ th[t].pc \in {"evict", "unindex", "probe", "unlink", "create", "insert", "persist"}

\* What the files of the file system do not say yet, some thread will write; it
\* implies SavedWhenQuiet.
SavedOrPending ==
    /\ savedEntry # entry \/ savedMaps # maps => \E t \in Threads : PersistPending(t)
    /\ ToSet(savedList) # Cached => \E t \in Threads : ListPending(t)

\* The thread has taken the index and not filed it yet.
Unfiled(t) ==
    \/ Received(t) \/ th[t].pc = "keep"
    \/ th[t].op \in Incoming /\ th[t].pc \in {"unindex", "probe", "unlink", "create", "insert"}

\* The thread has taken the index out of the maps, and is to unlink its files.
Removing(t) ==
    \/ th[t].pc \in {"probe", "unlink"}
    \/ th[t].op = "delete" /\ th[t].pc \in {"persist", "uncache", "persistList"}

Tracks(t, i) ==
    \/ Unfiled(t) /\ i = th[t].idx
    \/ Removing(t) /\ i = th[t].cur

OnDisk(i) == metaOf[i] # NoFile \/ dataOf[i] # NoFile

\* Files that nobody lists have a thread that will list or unlink them, or a
\* message after which they are unlinked, or are lost for good; it implies
\* NoDiskLeak.
Accounted(i) ==
    OnDisk(i) =>
        \/ entry[i] # NoFile \/ i \in orphans \/ <<i, "temp">> \in outgoing
        \/ \E t \in Threads : Tracks(t, i)

\* An index that is not taken yet, or only just, has no files.
Fresh == \A i \in Index : i >= nextIndex => ~OnDisk(i)
Blank == \A t \in Threads : th[t].pc \in {"recv", "copy"} => ~OnDisk(th[t].idx)

AllAccounted == Fresh /\ Blank /\ \A i \in Index : Accounted(i)

\* The thread has published the index to the LRU list, and not filed it.
Awaited(t) == th[t].op \in Incoming /\ Unfiled(t) /\ ~Private(t)

\* The thread may come to unlink, or to list, the index, which it did not take.
Reaches(t, i) ==
    \/ i \in th[t].todo \cup th[t].found
    \/ (Targeting(t) \/ Removing(t)) /\ i = th[t].cur

\* With one receive thread: an index that is awaited is in the LRU list at most,
\* and its files are whole; so are those of an index that is filed, and what
\* is about to be unlinked is not filed.
Alone(t) ==
    /\ entry[th[t].idx] = NoFile /\ th[t].idx \notin fileIDs
    /\ \A p \in Payloads : <<th[t].idx, p>> \notin outgoing
    /\ \A u \in Threads : ~Reaches(u, th[t].idx)
    /\ metaOf[th[t].idx] = th[t].file /\ dataOf[th[t].idx] = th[t].file
AwaitedAlone == \A t \in Threads : Awaited(t) => Alone(t)
FiledWhole ==
    \A i \in Index : entry[i] # NoFile => metaOf[i] = entry[i] /\ dataOf[i] = entry[i]
RemovedUnfiled == \A t \in Threads : Removing(t) => entry[th[t].cur] = NoFile
TempUnfiled == \A i \in Index : <<i, "temp">> \in outgoing => entry[i] = NoFile
CopiedOnDisk == \A t \in Threads : th[t].pc = "keep" => dataOf[th[t].idx] = th[t].file
WhoBrings == \A t \in Threads : th[t].op \in Incoming => t \in RecvThreads

\* No index has two takers, not even after one has published it.
Takes(t) == Private(t) \/ Publishing(t)
TakersApart ==
    \A t, u \in Threads : Takes(t) /\ Takes(u) /\ t # u => th[t].idx # th[u].idx

FiledInv ==
    /\ WhoBrings /\ TakersApart /\ CopiedOnDisk
    /\ AwaitedAlone /\ FiledWhole /\ RemovedUnfiled /\ TempUnfiled

\* A file that waits to be forwarded is whole, and its message alone names it; it
\* implies RelayedOnDisk.
Lone(i) ==
    /\ entry[i] = NoFile /\ i \notin fileIDs
    /\ \A t \in Threads : ~Reaches(t, i) /\ ~(Takes(t) /\ th[t].idx = i)

RelayedLone ==
    \A i \in Index : <<i, "temp">> \in outgoing =>
        Lone(i) /\ metaOf[i] \in Files /\ dataOf[i] = metaOf[i]

\* doCacheFile begins with a file that fits in the cache (with OneSizeNeverFails).
EvictorFits == \A t \in Threads : At(t, "evict") => SizeOf[th[t].file] <= CacheBytes

=============================================================================
