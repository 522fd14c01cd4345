-------------------------- MODULE FileSystemCache --------------------------
(***************************************************************************)
(* FileSystem with files of one size implements the LRU cache of module    *)
(* Cache.  The slots are the file indices, their order is the list of      *)
(* fileSystem.cpp, and what a slot holds is its .data file on the disk:    *)
(* the program keeps the three apart under two locks and a file system.    *)
(***************************************************************************)
EXTENDS FileSystemInv

\* The size of the files, when they have but one.
FileSize == CHOOSE s \in {SizeOf[f] : f \in Files} : TRUE

CachedData == [i \in Cached |-> dataOf[i]]

LRU == INSTANCE Cache WITH
    Slots <- Index, Contents <- Files, Capacity <- CacheBytes \div FileSize,
    lru <- cacheList, content <- CachedData, filling <- (cacheLock # NoThread)

\* Whatever receive threads and keyboard do at once, the list is an LRU cache:
\* at most CacheBytes / size files, an eviction only when the next file needs
\* the room and only of the least recently used, a search hit moves to the end,
\* and the bytes of a cached file do not change (fileSystem.cpp:472-528, 550-587).
ImplementsCache == LRU!Spec

=============================================================================
