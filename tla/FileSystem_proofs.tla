-------------------------- MODULE FileSystem_proofs --------------------------
(***************************************************************************)
(* Proofs about FileSystem: its type invariant, the inductive invariants   *)
(* of FileSystemInv and what they imply, and that its cache is the one of  *)
(* Cache, for any number of connections, files, sizes and indices and any  *)
(* cache size.                                                             *)
(***************************************************************************)
EXTENDS FileSystemCache, SequenceTheorems, FiniteSetTheorems, TLAPS

-----------------------------------------------------------------------------
(* What a step does to the threads: the steps of the other proofs cite     *)
(* these facts and never look into the record again.                       *)

Moved(t, pc, op, idx, cur, file, todo, found) ==
    /\ th' \in [Threads -> ThreadState]
    /\ th'[t].pc = pc /\ th'[t].op = op /\ th'[t].idx = idx /\ th'[t].cur = cur
    /\ th'[t].file = file /\ th'[t].todo = todo /\ th'[t].found = found
    /\ \A u \in Threads \ {t} : th'[u] = th[u]

LEMMA FieldTypes ==
    ASSUME Typed, NEW t \in Threads
    PROVE  /\ th[t] \in ThreadState
           /\ th[t].pc \in Labels /\ th[t].op \in AllOps \cup {"none"}
           /\ th[t].idx \in Index /\ th[t].cur \in Index
           /\ th[t].file \in Files \cup {NoFile}
           /\ th[t].todo \subseteq Index /\ th[t].found \subseteq Index
BY DEF Typed, ThreadState

LEMMA GotoEffect ==
    ASSUME Typed, NEW t \in Threads, NEW label \in Labels, Goto(t, label)
    PROVE  Moved(t, label, th[t].op, th[t].idx, th[t].cur, th[t].file,
                 th[t].todo, th[t].found)
<1>1. [th[t] EXCEPT !.pc = label] \in ThreadState
  BY DEF Typed, ThreadState
<1> QED BY <1>1 DEF Moved, Goto, Become, Typed, ThreadState

LEMMA IdleType == Idle \in ThreadState
BY BoundAssumption DEF Idle, ThreadState, Index, Labels

LEMMA ZeroIndex == 0 \in Index
BY BoundAssumption DEF Index

LEMMA FinishEffect ==
    ASSUME Typed, NEW t \in Threads, Finish(t)
    PROVE  th'[t] = Idle /\ Moved(t, "idle", "none", 0, 0, NoFile, {}, {})
BY IdleType DEF Moved, Finish, Become, Typed, Idle

LEMMA RecvNewEffect ==
    ASSUME Typed, NEW t \in Threads, RecvNew(t)
    PROVE  /\ t \in RecvThreads /\ th[t].pc = "idle" /\ nextIndex < MaxIndex
           /\ nextIndex' = nextIndex + 1
           /\ UNCHANGED <<entry, maps, cache, disk, saved, sending>>
           /\ \E k \in {"store", "relay", "own"} \cap Ops, f \in Files : Moved(t, "recv", k, nextIndex, 0, f, {}, {})
<1>0. /\ t \in RecvThreads /\ th[t].pc = "idle" /\ nextIndex < MaxIndex
      /\ nextIndex' = nextIndex + 1
      /\ UNCHANGED <<entry, maps, cache, disk, saved, sending>>
  BY Zenon DEF At, RecvNew
<1>1. PICK k \in {"store", "relay", "own"} \cap Ops, f \in Files :
        Become(t, [Idle EXCEPT !.pc = "recv", !.op = k, !.file = f, !.idx = nextIndex])
  BY DEF RecvNew
<1>2. "recv" \in Labels /\ k \in AllOps /\ nextIndex \in Index
  BY BoundAssumption DEF RecvNew, Labels, AllOps, Typed, Index
<1>3. [Idle EXCEPT !.pc = "recv", !.op = k, !.file = f, !.idx = nextIndex] \in ThreadState
  BY <1>1, <1>2, FieldTypes, ZeroIndex
  DEF ThreadState, Idle
<1> QED BY <1>0, <1>1, <1>3 DEF Moved, Become, Typed, ThreadState, Idle

LEMMA LookupEffect ==
    ASSUME Typed, NEW t \in Threads, Lookup(t)
    PROVE  /\ th[t].pc = "lookup"
           /\ UNCHANGED <<index, cache, disk, saved, sending>>
           /\ Moved(t, "nonce", th[t].op, th[t].idx, th[t].cur, th[t].file, Find(Sha1Map, {th[t].file}), th[t].found)
<1>0. /\ th[t].pc = "lookup"
      /\ UNCHANGED <<index, cache, disk, saved, sending>>
  BY Zenon DEF At, Lookup
<1>1. "nonce" \in Labels /\ Find(Sha1Map, {th[t].file}) \subseteq Index
  BY DEF Labels, Find
<1>2. [th[t] EXCEPT !.pc = "nonce", !.todo = Find(Sha1Map, {th[t].file})] \in ThreadState
  BY FieldTypes, ZeroIndex, <1>1 DEF ThreadState
<1> QED BY <1>0, <1>2 DEF Lookup, Moved, Become, Typed, ThreadState

LEMMA NonceEffect ==
    ASSUME Typed, NEW t \in Threads, Nonce(t)
    PROVE  /\ th[t].pc = "nonce" /\ UNCHANGED <<index, cache, disk, saved, sending>>
           /\ \/ UNCHANGED th
              \/ \E i \in th[t].todo, found \in SUBSET (th[t].todo \cup th[t].found) :
                    Moved(t, th[t].pc, th[t].op, th[t].idx, th[t].cur, th[t].file,
                          th[t].todo \ {i}, found)
<1> DEFINE next(i) ==
      [th[t] EXCEPT !.todo = @ \ {i},
                    !.found = IF metaOf[i] = th[t].file THEN @ \cup {i} ELSE @]
<1>1. /\ th[t].pc = "nonce" /\ UNCHANGED <<index, cache, disk, saved, sending>>
      /\ UNCHANGED th \/ \E i \in th[t].todo : Become(t, next(i))
  BY Zenon DEF Nonce, Crash, At
<1>2. ASSUME NEW i \in th[t].todo, Become(t, next(i))
      PROVE  \E found \in SUBSET (th[t].todo \cup th[t].found) :
                Moved(t, th[t].pc, th[t].op, th[t].idx, th[t].cur, th[t].file,
                      th[t].todo \ {i}, found)
  <2> DEFINE found == IF metaOf[i] = th[t].file THEN th[t].found \cup {i} ELSE th[t].found
  <2>1. next(i) \in ThreadState
    BY <1>2, FieldTypes DEF ThreadState
  <2>2. Moved(t, th[t].pc, th[t].op, th[t].idx, th[t].cur, th[t].file,
              th[t].todo \ {i}, found)
    BY <1>2, <2>1 DEF Moved, Become, Typed, ThreadState
  <2>3. found \in SUBSET (th[t].todo \cup th[t].found)
    BY <1>2
  <2> QED BY <2>2, <2>3
<1> QED BY <1>1, <1>2

LEMMA EvictEffect ==
    ASSUME Typed, NEW t \in Threads, Evict(t)
    PROVE  /\ th[t].pc = "evict" /\ cacheList # <<>> /\ cacheBytes >= SizeOf[th[t].file]
           /\ cacheList' = Tail(cacheList)
           /\ cacheBytes' = cacheBytes - SizeOf[th[t].file]
           /\ UNCHANGED <<index, cacheLock, disk, saved, sending>>
           /\ Moved(t, th[t].pc, th[t].op, th[t].idx, th[t].cur, th[t].file, th[t].todo \cup {Head(cacheList)}, th[t].found)
<1>0. /\ th[t].pc = "evict" /\ cacheList # <<>> /\ cacheBytes >= SizeOf[th[t].file]
      /\ cacheList' = Tail(cacheList)
      /\ cacheBytes' = cacheBytes - SizeOf[th[t].file]
      /\ UNCHANGED <<index, cacheLock, disk, saved, sending>>
  BY Zenon DEF At, Evict
<1>1. Head(cacheList) \in Index
  BY DEF Evict, Typed
<1>2. [th[t] EXCEPT !.todo = @ \cup {Head(cacheList)}] \in ThreadState
  BY FieldTypes, ZeroIndex, <1>1 DEF ThreadState
<1> QED BY <1>0, <1>2 DEF Evict, Moved, Become, Typed, ThreadState

LEMMA VictimUnindexEffect ==
    ASSUME Typed, NEW t \in Threads, VictimUnindex(t)
    PROVE  /\ th[t].pc = "unindex" /\ Caching(t)
           /\ UNCHANGED <<nextIndex, cache, disk, saved, sending>>
           /\ \E i \in th[t].todo : entry' = [entry EXCEPT ![i] = NoFile] /\ maps' = [m \in Maps |-> maps[m] \ {i}] /\ Moved(t, "probe", th[t].op, th[t].idx, i, th[t].file, th[t].todo \ {i}, th[t].found)
<1>0. /\ th[t].pc = "unindex" /\ Caching(t)
      /\ UNCHANGED <<nextIndex, cache, disk, saved, sending>>
  BY Zenon DEF At, VictimUnindex, LeaveMaps
<1>1. PICK i \in th[t].todo :
        LeaveMaps(i) /\ Become(t, [th[t] EXCEPT !.pc = "probe", !.cur = i, !.todo = @ \ {i}])
  BY DEF VictimUnindex, LeaveMaps
<1>2. "probe" \in Labels
  BY DEF Labels
<1>3. [th[t] EXCEPT !.pc = "probe", !.cur = i, !.todo = @ \ {i}] \in ThreadState
  BY <1>1, <1>2, FieldTypes, ZeroIndex
  DEF ThreadState
<1> QED BY <1>0, <1>1, <1>3 DEF LeaveMaps, Moved, Become, Typed, ThreadState

LEMMA KeepStartEffect ==
    ASSUME Typed, NEW t \in Threads, KeepStart(t)
    PROVE  /\ t = Keyboard /\ th[t].pc = "idle" /\ nextIndex < MaxIndex
           /\ nextIndex' = nextIndex + 1
           /\ UNCHANGED <<entry, maps, cache, disk, saved, sending>>
           /\ \E f \in Files : Moved(t, "copy", "keep", nextIndex, 0, f, {}, {})
<1>0. /\ t = Keyboard /\ th[t].pc = "idle" /\ nextIndex < MaxIndex
      /\ nextIndex' = nextIndex + 1
      /\ UNCHANGED <<entry, maps, cache, disk, saved, sending>>
  BY Zenon DEF At, KeepStart
<1>1. PICK f \in Files :
        Become(t, [Idle EXCEPT !.pc = "copy", !.op = "keep", !.file = f, !.idx = nextIndex])
  BY DEF KeepStart
<1>2. "copy" \in Labels /\ "keep" \in AllOps /\ nextIndex \in Index
  BY BoundAssumption DEF KeepStart, Labels, AllOps, Typed, Index
<1>3. [Idle EXCEPT !.pc = "copy", !.op = "keep", !.file = f, !.idx = nextIndex] \in ThreadState
  BY <1>1, <1>2, FieldTypes, ZeroIndex
  DEF ThreadState, Idle
<1> QED BY <1>0, <1>1, <1>3 DEF Moved, Become, Typed, ThreadState, Idle

LEMMA KeepFailsEffect ==
    ASSUME Typed, NEW t \in Threads, KeepFails(t)
    PROVE  /\ th[t].pc = "keep"
           /\ orphans' = orphans \cup {th[t].idx}
           /\ UNCHANGED <<index, cache, disk, saved, fileIDs, outgoing>>
           /\ Moved(t, "persist", "none", 0, 0, NoFile, {}, {})
<1>0. /\ th[t].pc = "keep"
      /\ orphans' = orphans \cup {th[t].idx}
      /\ UNCHANGED <<index, cache, disk, saved, fileIDs, outgoing>>
  BY Zenon DEF At, KeepFails
<1>1. "persist" \in Labels
  BY DEF Labels
<1>2. [Idle EXCEPT !.pc = "persist"] \in ThreadState
  BY FieldTypes, ZeroIndex, <1>1 DEF ThreadState, Idle
<1> QED BY <1>0, <1>2 DEF KeepFails, Moved, Become, Typed, ThreadState, Idle

LEMMA DeleteStartEffect ==
    ASSUME Typed, NEW t \in Threads, DeleteStart(t)
    PROVE  /\ th[t].pc = "idle"
           /\ UNCHANGED <<index, cache, disk, saved, sending>>
           /\ \E f \in Files : Moved(t, "bySHA1", "delete", 0, 0, f, Find(NameMap, {f}), {})
<1>0. /\ th[t].pc = "idle"
      /\ UNCHANGED <<index, cache, disk, saved, sending>>
  BY Zenon DEF At, DeleteStart
<1>1. PICK f \in Files :
        Become(t, [Idle EXCEPT !.pc = "bySHA1", !.op = "delete", !.file = f, !.todo = Find(NameMap, {f})])
  BY DEF DeleteStart
<1>2. "bySHA1" \in Labels /\ "delete" \in AllOps /\ Find(NameMap, {f}) \subseteq Index
  BY DEF Labels, AllOps, Find
<1>3. [Idle EXCEPT !.pc = "bySHA1", !.op = "delete", !.file = f, !.todo = Find(NameMap, {f})] \in ThreadState
  BY <1>1, <1>2, FieldTypes, ZeroIndex
  DEF ThreadState, Idle
<1> QED BY <1>0, <1>1, <1>3 DEF Moved, Become, Typed, ThreadState, Idle

LEMMA DeleteBySHA1Effect ==
    ASSUME Typed, NEW t \in Threads, DeleteBySHA1(t)
    PROVE  /\ th[t].pc = "bySHA1"
           /\ UNCHANGED <<index, cache, disk, saved, sending>>
           /\ Moved(t, "nonce", th[t].op, th[t].idx, th[t].cur, th[t].file, th[t].todo \cap Find(Sha1Map, {th[t].file}), th[t].found)
<1>0. /\ th[t].pc = "bySHA1"
      /\ UNCHANGED <<index, cache, disk, saved, sending>>
  BY Zenon DEF At, DeleteBySHA1
<1>1. "nonce" \in Labels
  BY DEF Labels
<1>2. [th[t] EXCEPT !.pc = "nonce", !.todo = @ \cap Find(Sha1Map, {th[t].file})] \in ThreadState
  BY FieldTypes, ZeroIndex, <1>1 DEF ThreadState
<1> QED BY <1>0, <1>2 DEF DeleteBySHA1, Moved, Become, Typed, ThreadState

LEMMA DeleteChosenEffect ==
    ASSUME Typed, NEW t \in Threads, DeleteChosen(t)
    PROVE  /\ th[t].pc = "nonce" /\ th[t].todo = {} /\ th[t].op = "delete"
           /\ UNCHANGED <<index, cache, disk, saved, sending>>
           /\ \E i \in th[t].found : th[t].found = {i} /\ (t = Keyboard => i \in owned) /\ Moved(t, "unindex", th[t].op, th[t].idx, i, th[t].file, th[t].todo, th[t].found)
<1>0. /\ th[t].pc = "nonce" /\ th[t].todo = {} /\ th[t].op = "delete"
      /\ UNCHANGED <<index, cache, disk, saved, sending>>
  BY Zenon DEF At, DeleteChosen
<1>1. PICK i \in th[t].found :
        th[t].found = {i} /\ (t = Keyboard => i \in owned) /\ Become(t, [th[t] EXCEPT !.pc = "unindex", !.cur = i])
  BY DEF DeleteChosen
<1>2. "unindex" \in Labels
  BY DEF Labels
<1>3. [th[t] EXCEPT !.pc = "unindex", !.cur = i] \in ThreadState
  BY <1>1, <1>2, FieldTypes, ZeroIndex
  DEF ThreadState
<1> QED BY <1>0, <1>1, <1>3 DEF Moved, Become, Typed, ThreadState

LEMMA SearchStartEffect ==
    ASSUME Typed, NEW t \in Threads, SearchStart(t)
    PROVE  /\ th[t].pc = "idle"
           /\ UNCHANGED <<index, cache, disk, saved, sending>>
           /\ \E m \in Maps, Q \in SUBSET Files : Find(m, Q) # {} /\ Moved(t, "hits", "search", 0, 0, NoFile, {}, Find(m, Q))
<1>0. /\ th[t].pc = "idle"
      /\ UNCHANGED <<index, cache, disk, saved, sending>>
  BY Zenon DEF At, SearchStart
<1>1. PICK m \in Maps, Q \in SUBSET Files :
        Find(m, Q) # {} /\ Become(t, [Idle EXCEPT !.pc = "hits", !.op = "search", !.found = Find(m, Q)])
  BY DEF SearchStart
<1>2. "hits" \in Labels /\ "search" \in AllOps /\ Find(m, Q) \subseteq Index
  BY DEF Labels, AllOps, Find
<1>3. [Idle EXCEPT !.pc = "hits", !.op = "search", !.found = Find(m, Q)] \in ThreadState
  BY <1>1, <1>2, FieldTypes, ZeroIndex
  DEF ThreadState, Idle
<1> QED BY <1>0, <1>1, <1>3 DEF Moved, Become, Typed, ThreadState, Idle

LEMMA SearchHitsEffect ==
    ASSUME Typed, NEW t \in Threads, SearchHits(t)
    PROVE  /\ th[t].pc = "hits"
           /\ UNCHANGED <<index, cache, disk, saved, sending>>
           /\ Moved(t, IF th[t].found \cap Cached = {} THEN "respond" ELSE "touch", th[t].op, th[t].idx, th[t].cur, th[t].file, th[t].found \cap Cached, th[t].found)
<1>0. /\ th[t].pc = "hits"
      /\ UNCHANGED <<index, cache, disk, saved, sending>>
  BY Zenon DEF At, SearchHits
<1>1. "respond" \in Labels /\ "touch" \in Labels
  BY DEF Labels
<1>2. [th[t] EXCEPT !.pc = IF th[t].found \cap Cached = {} THEN "respond" ELSE "touch", !.todo = th[t].found \cap Cached] \in ThreadState
  BY FieldTypes, ZeroIndex, <1>1 DEF ThreadState
<1> QED BY <1>0, <1>2 DEF SearchHits, Moved, Become, Typed, ThreadState

LEMMA TouchEffect ==
    ASSUME Typed, NEW t \in Threads, Touch(t)
    PROVE  /\ th[t].pc = "touch" /\ cacheLock = NoThread
           /\ UNCHANGED <<index, cacheBytes, cacheLock, disk, saved, sending>>
           /\ \E i \in th[t].todo \cap Cached : cacheList' = Append(Without(cacheList, i), i) /\ Moved(t, th[t].pc, th[t].op, th[t].idx, th[t].cur, th[t].file, th[t].todo \ {i}, th[t].found)
<1>0. /\ th[t].pc = "touch" /\ cacheLock = NoThread
      /\ UNCHANGED <<index, cacheBytes, cacheLock, disk, saved, sending>>
  BY Zenon DEF At, Touch
<1>1. PICK i \in th[t].todo \cap Cached :
        cacheList' = Append(Without(cacheList, i), i) /\ Become(t, [th[t] EXCEPT !.todo = @ \ {i}])
  BY DEF Touch
<1>2. [th[t] EXCEPT !.todo = @ \ {i}] \in ThreadState
  BY <1>1, FieldTypes, ZeroIndex
  DEF ThreadState
<1> QED BY <1>0, <1>1, <1>2 DEF Moved, Become, Typed, ThreadState

LEMMA GetLocalEffect ==
    ASSUME Typed, NEW t \in Threads, GetLocal(t)
    PROVE  /\ t = Keyboard /\ th[t].pc = "idle"
           /\ UNCHANGED <<index, cache, disk, saved, sending>>
           /\ \E i \in fileIDs : Moved(t, "uncache", "get", 0, i, NoFile, {}, {})
<1>0. /\ t = Keyboard /\ th[t].pc = "idle"
      /\ UNCHANGED <<index, cache, disk, saved, sending>>
  BY Zenon DEF At, GetLocal
<1>1. PICK i \in fileIDs :
        Become(t, [Idle EXCEPT !.pc = "uncache", !.op = "get", !.cur = i])
  BY DEF GetLocal
<1>2. "uncache" \in Labels /\ "get" \in AllOps /\ i \in Index
  BY DEF Labels, AllOps, Typed
<1>3. [Idle EXCEPT !.pc = "uncache", !.op = "get", !.cur = i] \in ThreadState
  BY <1>1, <1>2, FieldTypes, ZeroIndex
  DEF ThreadState, Idle
<1> QED BY <1>0, <1>1, <1>3 DEF Moved, Become, Typed, ThreadState, Idle

LEMMA LabelNames ==
    /\ "recv" \in Labels /\ "lookup" \in Labels /\ "nonce" \in Labels
    /\ "decide" \in Labels /\ "evict" \in Labels /\ "unindex" \in Labels
    /\ "probe" \in Labels /\ "unlink" \in Labels /\ "create" \in Labels
    /\ "insert" \in Labels /\ "copy" \in Labels /\ "keep" \in Labels
    /\ "persist" \in Labels /\ "persistList" \in Labels /\ "send" \in Labels
    /\ "bySHA1" \in Labels /\ "uncache" \in Labels /\ "hits" \in Labels
    /\ "touch" \in Labels /\ "respond" \in Labels
BY DEF Labels

-----------------------------------------------------------------------------
(* The type invariant.                                                     *)

LEMMA WithoutType ==
    ASSUME NEW S, NEW list \in Seq(S), NEW i \in ToSet(list)
    PROVE  /\ Without(list, i) \in Seq(S)
           /\ Len(Without(list, i)) = Len(list) - 1
BY DEF Without, ToSet

LEMMA InitType == Init => Typed /\ cacheBytes \in Nat
BY FilesAssumption, ThreadAssumption, BoundAssumption, IdleType
DEF Init, Typed, Index, Contents

LEMMA StepType ==
    ASSUME Typed, NEW t \in Threads, Step(t)
    PROVE  Typed'
<1> USE DEF Typed, index, cache, disk, saved, sending
<1>1. CASE RecvNew(t)
  BY <1>1, RecvNewEffect, BoundAssumption DEF Moved
<1>2. CASE RecvPayload(t)
  BY <1>2, LabelNames, GotoEffect, FieldTypes DEF RecvPayload, Moved, Contents
<1>3. CASE RecvCut(t)
  <2>1. metaOf' \in [Index -> Contents] /\ dataOf' \in [Index -> Contents]
    BY <1>3, FieldTypes DEF RecvCut, Contents
  <2> QED BY <2>1, <1>3, FinishEffect, FieldTypes DEF RecvCut, Moved
<1>4. CASE RecvRejected(t)
  BY <1>4, FinishEffect DEF RecvRejected, Moved
<1>5. CASE Lookup(t)
  BY <1>5, LookupEffect DEF Moved
<1>6. CASE Nonce(t)
  BY <1>6, NonceEffect DEF Moved, Crash
<1>7. CASE NonceDone(t)
  BY <1>7, LabelNames, GotoEffect DEF NonceDone, Moved
<1>8. CASE Drop(t)
  BY <1>8, FinishEffect, FieldTypes DEF Drop, Moved, RemoveFiles, Contents
<1>9. CASE HandOver(t)
  BY <1>9, FinishEffect, FieldTypes DEF HandOver, Moved, Payloads
<1>10. CASE KeepGot(t)
  BY <1>10, LabelNames, GotoEffect DEF KeepGot, Moved
<1>11. CASE CacheStart(t)
  BY <1>11, LabelNames, GotoEffect DEF CacheStart, Moved
<1>12. CASE Evict(t)
  <2>0. cacheList # <<>> /\ cacheList' = Tail(cacheList)
    BY <1>12, EvictEffect
  <2>1. cacheList' \in Seq(Index)
    BY <2>0, HeadTailProperties
  <2>3. th' \in [Threads -> ThreadState] /\ UNCHANGED <<index, cacheLock, disk, saved, sending>>
    BY <1>12, EvictEffect DEF Moved
  <2> QED BY <2>1, <2>3
<1>13. CASE EvictFails(t)
  BY <1>13 DEF EvictFails, Crash
<1>14. CASE CachePush(t)
  BY <1>14, LabelNames, GotoEffect, FieldTypes, AppendProperties DEF CachePush, Moved
<1>15. CASE VictimUnindex(t)
  BY <1>15, VictimUnindexEffect DEF Moved
<1>16. CASE Probe(t)
  BY <1>16, LabelNames, GotoEffect DEF Probe, Moved, Crash
<1>17. CASE Unlink(t)
  BY <1>17, LabelNames, GotoEffect, FinishEffect, FieldTypes DEF Unlink, Moved, RemoveFiles, Contents
<1>18. CASE Create(t)
  BY <1>18, LabelNames, GotoEffect DEF Create, Moved, Crash
<1>19. CASE Insert(t)
  BY <1>19, LabelNames, GotoEffect, FieldTypes DEF Insert, EnterMaps, Moved
<1>20. CASE Persist(t)
  BY <1>20, LabelNames, GotoEffect, FinishEffect DEF Persist, Moved
<1>21. CASE PersistList(t)
  BY <1>21, LabelNames, GotoEffect, FinishEffect DEF PersistList, Moved
<1>22. CASE Send(t)
  <2>1. outgoing' \subseteq Index \X Payloads
    <3>1. <<th[t].idx, "file">> \in Index \X Payloads
      BY FieldTypes DEF Payloads
    <3> QED BY <3>1, <1>22 DEF Send
  <2> QED BY <2>1, <1>22, FinishEffect DEF Send, Moved
<1>23. CASE KeepStart(t)
  BY <1>23, KeepStartEffect, BoundAssumption DEF Moved
<1>24. CASE KeepMissing(t)
  BY <1>24 DEF KeepMissing, Crash
<1>25. CASE KeepCopy(t)
  BY <1>25, LabelNames, GotoEffect, FieldTypes DEF KeepCopy, Moved, Contents
<1>26. CASE Keep(t)
  BY <1>26, LabelNames, GotoEffect, FieldTypes DEF Keep, EnterMaps, Moved, Contents
<1>27. CASE KeepFails(t)
  BY <1>27, KeepFailsEffect, FieldTypes DEF Moved
<1>28. CASE DeleteStart(t)
  BY <1>28, DeleteStartEffect DEF Moved
<1>29. CASE DeleteBySHA1(t)
  BY <1>29, DeleteBySHA1Effect DEF Moved
<1>30. CASE DeleteRefused(t)
  BY <1>30, FinishEffect DEF DeleteRefused, Moved
<1>31. CASE DeleteChosen(t)
  BY <1>31, DeleteChosenEffect DEF Moved
<1>32. CASE DeleteFails(t)
  BY <1>32 DEF DeleteFails, Crash
<1>33. CASE DeleteUnindex(t)
  BY <1>33, LabelNames, GotoEffect DEF DeleteUnindex, LeaveMaps, Moved
<1>34. CASE Uncache(t)
  BY <1>34, LabelNames, GotoEffect, FieldTypes, WithoutType, FilesAssumption DEF Uncache, Moved, Cached, DiskSize
<1>35. CASE UncacheNotNeeded(t)
  BY <1>35, LabelNames, GotoEffect, FinishEffect DEF UncacheNotNeeded, Moved
<1>36. CASE UncacheFails(t)
  BY <1>36 DEF UncacheFails, Crash
<1>37. CASE SearchStart(t)
  BY <1>37, SearchStartEffect DEF Moved
<1>38. CASE SearchHits(t)
  BY <1>38, SearchHitsEffect DEF Moved
<1>39. CASE Touch(t)
  <2>1. \A i \in Cached : Append(Without(cacheList, i), i) \in Seq(Index)
    <3> TAKE i \in Cached
    <3>1. i \in ToSet(cacheList) /\ i \in Index
      BY DEF Cached, ToSet
    <3> QED BY <3>1, WithoutType, AppendProperties
  <2>2. cacheList' \in Seq(Index)
    BY <2>1, <1>39, TouchEffect
  <2>3. /\ th' \in [Threads -> ThreadState]
        /\ UNCHANGED <<index, cacheBytes, cacheLock, disk, saved, sending>>
    BY <1>39, TouchEffect DEF Moved
  <2> QED BY <2>2, <2>3
<1>40. CASE TouchFails(t)
  BY <1>40 DEF TouchFails, Crash
<1>41. CASE TouchDone(t)
  BY <1>41, LabelNames, GotoEffect DEF TouchDone, Moved
<1>42. CASE Respond(t)
  BY <1>42, FinishEffect, FieldTypes DEF Respond, Moved, Payloads
<1>43. CASE RespondFails(t)
  BY <1>43 DEF RespondFails, Crash
<1>44. CASE GetRequest(t)
  BY <1>44, FieldTypes DEF GetRequest, Payloads
<1>45. CASE GetLocal(t)
  BY <1>45, GetLocalEffect DEF Moved
<1> QED
  BY <1>1, <1>2, <1>3, <1>4, <1>5, <1>6, <1>7, <1>8, <1>9, <1>10, <1>11, <1>12, <1>13, <1>14,
     <1>15, <1>16, <1>17, <1>18, <1>19, <1>20, <1>21, <1>22, <1>23, <1>24, <1>25, <1>26,
     <1>27, <1>28, <1>29, <1>30, <1>31, <1>32, <1>33, <1>34, <1>35, <1>36, <1>37, <1>38,
     <1>39, <1>40, <1>41, <1>42, <1>43, <1>44, <1>45 DEF Step

-----------------------------------------------------------------------------
(* The LRU list as a sequence without duplicates.                          *)

\* No element comes twice.
Distinct(s) == \A m, n \in DOMAIN s : s[m] = s[n] => m = n

\* What Tail leaves: everything but the first element.
LEMMA TailFacts ==
    ASSUME NEW S, NEW s \in Seq(S), s # <<>>
    PROVE  /\ ToSet(s) = {Head(s)} \cup ToSet(Tail(s))
           /\ Distinct(s) => Distinct(Tail(s)) /\ Head(s) \notin ToSet(Tail(s))
<1>1. /\ Len(s) \in Nat \ {0} /\ DOMAIN s = 1 .. Len(s)
      /\ Tail(s) \in Seq(S) /\ DOMAIN Tail(s) = 1 .. Len(s) - 1
      /\ \A n \in 1 .. Len(s) - 1 : Tail(s)[n] = s[n + 1]
      /\ Head(s) = s[1]
  OBVIOUS
<1>2. ToSet(s) = {Head(s)} \cup ToSet(Tail(s))
  <2>1. \A n \in DOMAIN s : n = 1 \/ (n - 1 \in DOMAIN Tail(s) /\ Tail(s)[n - 1] = s[n])
    BY <1>1
  <2>2. \A n \in DOMAIN Tail(s) : n + 1 \in DOMAIN s /\ Tail(s)[n] = s[n + 1]
    BY <1>1
  <2>3. 1 \in DOMAIN s
    BY <1>1
  <2>4. ToSet(s) \subseteq {Head(s)} \cup ToSet(Tail(s))
    BY <1>1, <2>1 DEF ToSet
  <2>5. {Head(s)} \cup ToSet(Tail(s)) \subseteq ToSet(s)
    BY <1>1, <2>2, <2>3 DEF ToSet
  <2> QED BY <2>4, <2>5
<1>3. Distinct(s) => Distinct(Tail(s)) /\ Head(s) \notin ToSet(Tail(s))
  BY <1>1 DEF Distinct, ToSet
<1> QED BY <1>2, <1>3

\* What Append adds: one element, a new one if it was not there.
LEMMA AppendFacts ==
    ASSUME NEW S, NEW s \in Seq(S), NEW e \in S
    PROVE  /\ ToSet(Append(s, e)) = ToSet(s) \cup {e}
           /\ Distinct(s) /\ e \notin ToSet(s) => Distinct(Append(s, e))
<1>1. /\ Len(s) \in Nat /\ DOMAIN s = 1 .. Len(s)
      /\ DOMAIN Append(s, e) = 1 .. Len(s) + 1
      /\ \A n \in 1 .. Len(s) : Append(s, e)[n] = s[n]
      /\ Append(s, e)[Len(s) + 1] = e
  OBVIOUS
<1>2. ToSet(Append(s, e)) = ToSet(s) \cup {e}
  BY <1>1 DEF ToSet
<1>3. Distinct(s) /\ e \notin ToSet(s) => Distinct(Append(s, e))
  BY <1>1 DEF Distinct, ToSet
<1> QED BY <1>2, <1>3

\* The empty sequence has no elements.
LEMMA EmptyFacts == ToSet(<<>>) = {} /\ Distinct(<<>>)
BY DEF ToSet, Distinct

LEMMA WithoutFacts ==
    ASSUME NEW S, NEW s \in Seq(S), NEW i \in ToSet(s)
    PROVE  /\ ToSet(Without(s, i)) \subseteq ToSet(s)
           /\ ToSet(s) \subseteq ToSet(Without(s, i)) \cup {i}
           /\ Distinct(s) => /\ ToSet(Without(s, i)) = ToSet(s) \ {i}
                             /\ Distinct(Without(s, i))
<1> DEFINE k == CHOOSE n \in 1 .. Len(s) : s[n] = i
           r == Without(s, i)
<1>1. Len(s) \in Nat /\ DOMAIN s = 1 .. Len(s)
  OBVIOUS
<1>2. k \in 1 .. Len(s) /\ s[k] = i
  BY <1>1 DEF ToSet
<1>3. /\ DOMAIN r = 1 .. Len(s) - 1
      /\ \A n \in DOMAIN r : r[n] = IF n < k THEN s[n] ELSE s[n + 1]
  BY DEF Without
<1> HIDE DEF k, r
<1>4. Distinct(s) => \A n \in 1 .. Len(s) : s[n] = i => n = k
  BY <1>1, <1>2 DEF Distinct
<1>5. \A n \in DOMAIN r : /\ r[n] \in ToSet(s)
                          /\ Distinct(s) => r[n] # i
  BY <1>1, <1>2, <1>3, <1>4 DEF ToSet
<1>6. \A n \in DOMAIN s : n = k \/ \E m \in DOMAIN r : r[m] = s[n]
  <2> TAKE n \in DOMAIN s
  <2>1. CASE n < k
    <3>1. n \in DOMAIN r /\ r[n] = s[n]
      BY <1>1, <1>2, <1>3, <2>1
    <3> QED BY <3>1
  <2>2. CASE n > k
    <3>1. n - 1 \in DOMAIN r /\ r[n - 1] = s[n]
      BY <1>1, <1>2, <1>3, <2>2
    <3> QED BY <3>1
  <2> QED BY <1>1, <1>2, <2>1, <2>2
<1>7. ToSet(r) \subseteq ToSet(s) /\ (Distinct(s) => i \notin ToSet(r))
  BY <1>5 DEF ToSet
<1>8. ToSet(s) \subseteq ToSet(r) \cup {i}
  BY <1>2, <1>6 DEF ToSet
<1>9. Distinct(s) => Distinct(r)
  BY <1>1, <1>2, <1>3 DEF Distinct
<1> QED BY <1>7, <1>8, <1>9 DEF r

\* What each action that changes the list does to the set of cached files.
LEMMA EvictCached ==
    ASSUME Typed, NEW t \in Threads, Evict(t)
    PROVE  /\ Head(cacheList) \in Cached /\ Cached' \subseteq Cached
           /\ CacheDistinct => Cached' = Cached \ {Head(cacheList)} /\ CacheDistinct'
<1>1. cacheList # <<>> /\ cacheList' = Tail(cacheList)
  BY EvictEffect
<1> QED BY <1>1, TailFacts DEF Typed, CacheDistinct, Distinct, Cached

LEMMA CachePushCached ==
    ASSUME Typed, NEW t \in Threads, CachePush(t)
    PROVE  /\ Cached' = Cached \cup {th[t].idx}
           /\ CacheDistinct /\ th[t].idx \notin Cached => CacheDistinct'
<1>1. cacheList' = Append(cacheList, th[t].idx)
  BY Zenon DEF CachePush
<1> QED BY <1>1, AppendFacts, FieldTypes DEF Typed, CacheDistinct, Distinct, Cached

LEMMA UncacheCached ==
    ASSUME Typed, NEW t \in Threads, Uncache(t)
    PROVE  /\ Cached' \subseteq Cached
           /\ CacheDistinct => Cached' = Cached \ {th[t].cur} /\ CacheDistinct'
<1>1. th[t].cur \in Cached /\ cacheList' = Without(cacheList, th[t].cur)
  BY Zenon DEF Uncache
<1> QED BY <1>1, WithoutFacts DEF Typed, CacheDistinct, Distinct, Cached

LEMMA TouchCached ==
    ASSUME Typed, NEW t \in Threads, Touch(t)
    PROVE  Cached' = Cached /\ (CacheDistinct => CacheDistinct')
<1>1. PICK i \in Cached : cacheList' = Append(Without(cacheList, i), i)
  BY TouchEffect
<1>2. i \in ToSet(cacheList) /\ i \in Index
  BY DEF Cached, ToSet, Typed
<1> DEFINE rest == Without(cacheList, i)
<1>3. /\ rest \in Seq(Index)
      /\ ToSet(rest) \cup {i} = Cached
      /\ CacheDistinct => i \notin ToSet(rest) /\ Distinct(rest)
  <2>1. cacheList \in Seq(Index) /\ (CacheDistinct <=> Distinct(cacheList))
    BY DEF Typed, CacheDistinct, Distinct
  <2>2. rest \in Seq(Index)
    BY <1>2, <2>1, WithoutType
  <2>3. /\ ToSet(rest) \subseteq ToSet(cacheList)
        /\ ToSet(cacheList) \subseteq ToSet(rest) \cup {i}
        /\ Distinct(cacheList) => ToSet(rest) = ToSet(cacheList) \ {i} /\ Distinct(rest)
    BY <1>2, <2>1, WithoutFacts
  <2> HIDE DEF rest
  <2> QED BY <1>2, <2>1, <2>2, <2>3 DEF Cached
<1>4. cacheList' = Append(rest, i)
  BY <1>1
<1> HIDE DEF rest
<1>5. /\ ToSet(Append(rest, i)) = ToSet(rest) \cup {i}
      /\ CacheDistinct => Distinct(Append(rest, i))
  BY <1>2, <1>3, AppendFacts
<1> QED BY <1>1, <1>3, <1>4, <1>5 DEF CacheDistinct, Distinct, Cached

-----------------------------------------------------------------------------
(* Which actions change which variables.                                   *)

LEMMA StepFrame ==
    ASSUME Typed, NEW t \in Threads, Step(t)
    PROVE  /\ \A u \in Threads \ {t} : th'[u] = th[u]
           /\ (UNCHANGED entry /\ UNCHANGED maps) \/ VictimUnindex(t) \/ Insert(t) \/ Keep(t) \/ DeleteUnindex(t)
           /\ UNCHANGED cacheList \/ Evict(t) \/ CachePush(t) \/ Uncache(t) \/ Touch(t)
           /\ UNCHANGED cacheBytes \/ Evict(t) \/ CachePush(t) \/ Uncache(t)
           /\ UNCHANGED cacheLock \/ CacheStart(t) \/ CachePush(t)
           /\ UNCHANGED <<metaOf, dataOf>> \/ RecvPayload(t) \/ RecvCut(t) \/ Drop(t)
                                           \/ Unlink(t) \/ KeepCopy(t) \/ Keep(t)
           /\ UNCHANGED owned \/ Unlink(t) \/ Keep(t)
           /\ UNCHANGED fileIDs \/ Respond(t)
           /\ UNCHANGED outgoing \/ HandOver(t) \/ Send(t) \/ Respond(t) \/ GetRequest(t)
<1> USE DEF index, cache, disk, saved, sending
<1>1. CASE RecvNew(t)
  BY <1>1, RecvNewEffect DEF Moved
<1>2. CASE RecvPayload(t)
  BY <1>2, LabelNames, GotoEffect DEF RecvPayload, Moved, At
<1>3. CASE RecvCut(t)
  BY <1>3, FinishEffect DEF RecvCut, Moved, At
<1>4. CASE RecvRejected(t)
  BY <1>4, FinishEffect DEF RecvRejected, Moved, At
<1>5. CASE Lookup(t)
  BY <1>5, LookupEffect DEF Moved, Find
<1>6. CASE Nonce(t)
  BY <1>6, NonceEffect DEF Moved
<1>7. CASE NonceDone(t)
  BY <1>7, LabelNames, GotoEffect DEF NonceDone, Moved, At
<1>8. CASE Drop(t)
  BY <1>8, FinishEffect DEF Drop, Moved, At
<1>9. CASE HandOver(t)
  BY <1>9, FinishEffect DEF HandOver, Moved, At
<1>10. CASE KeepGot(t)
  BY <1>10, LabelNames, GotoEffect DEF KeepGot, Moved, At
<1>11. CASE CacheStart(t)
  BY <1>11, LabelNames, GotoEffect DEF CacheStart, Moved, At
<1>12. CASE Evict(t)
  BY <1>12, EvictEffect DEF Moved
<1>13. CASE EvictFails(t)
  BY <1>13 DEF EvictFails, Crash, At
<1>14. CASE CachePush(t)
  BY <1>14, LabelNames, GotoEffect DEF CachePush, Moved, At
<1>15. CASE VictimUnindex(t)
  BY <1>15, VictimUnindexEffect DEF Moved
<1>16. CASE Probe(t)
  BY <1>16, LabelNames, GotoEffect DEF Probe, Moved, Crash, At
<1>17. CASE Unlink(t)
  BY <1>17, LabelNames, GotoEffect, FinishEffect DEF Unlink, Moved, At
<1>18. CASE Create(t)
  BY <1>18, LabelNames, GotoEffect DEF Create, Moved, Crash, At
<1>19. CASE Insert(t)
  BY <1>19, LabelNames, GotoEffect DEF Insert, EnterMaps, Moved, At
<1>20. CASE Persist(t)
  BY <1>20, LabelNames, GotoEffect, FinishEffect DEF Persist, Moved, At
<1>21. CASE PersistList(t)
  BY <1>21, LabelNames, GotoEffect, FinishEffect DEF PersistList, Moved, At
<1>22. CASE Send(t)
  BY <1>22, FinishEffect DEF Send, Moved, At
<1>23. CASE KeepStart(t)
  BY <1>23, KeepStartEffect DEF Moved
<1>24. CASE KeepMissing(t)
  BY <1>24 DEF KeepMissing, Crash
<1>25. CASE KeepCopy(t)
  BY <1>25, LabelNames, GotoEffect DEF KeepCopy, Moved, At
<1>26. CASE Keep(t)
  BY <1>26, LabelNames, GotoEffect DEF Keep, EnterMaps, Moved, At
<1>27. CASE KeepFails(t)
  BY <1>27, KeepFailsEffect DEF Moved
<1>28. CASE DeleteStart(t)
  BY <1>28, DeleteStartEffect DEF Moved, Find
<1>29. CASE DeleteBySHA1(t)
  BY <1>29, DeleteBySHA1Effect DEF Moved, Find
<1>30. CASE DeleteRefused(t)
  BY <1>30, FinishEffect DEF DeleteRefused, Moved, At
<1>31. CASE DeleteChosen(t)
  BY <1>31, DeleteChosenEffect DEF Moved
<1>32. CASE DeleteFails(t)
  BY <1>32 DEF DeleteFails, Crash
<1>33. CASE DeleteUnindex(t)
  BY <1>33, LabelNames, GotoEffect DEF DeleteUnindex, LeaveMaps, Moved, At
<1>34. CASE Uncache(t)
  BY <1>34, LabelNames, GotoEffect DEF Uncache, Moved, At
<1>35. CASE UncacheNotNeeded(t)
  BY <1>35, LabelNames, GotoEffect, FinishEffect DEF UncacheNotNeeded, Moved, At
<1>36. CASE UncacheFails(t)
  BY <1>36 DEF UncacheFails, Crash
<1>37. CASE SearchStart(t)
  BY <1>37, SearchStartEffect DEF Moved, Find
<1>38. CASE SearchHits(t)
  BY <1>38, SearchHitsEffect DEF Moved
<1>39. CASE Touch(t)
  BY <1>39, TouchEffect DEF Moved
<1>40. CASE TouchFails(t)
  BY <1>40 DEF TouchFails, Crash
<1>41. CASE TouchDone(t)
  BY <1>41, LabelNames, GotoEffect DEF TouchDone, Moved, At
<1>42. CASE Respond(t)
  BY <1>42, FinishEffect DEF Respond, Moved, At
<1>43. CASE RespondFails(t)
  BY <1>43 DEF RespondFails, Crash
<1>44. CASE GetRequest(t)
  BY <1>44 DEF GetRequest, At
<1>45. CASE GetLocal(t)
  BY <1>45, GetLocalEffect DEF Moved
<1> QED
  BY <1>1, <1>2, <1>3, <1>4, <1>5, <1>6, <1>7, <1>8, <1>9, <1>10, <1>11, <1>12, <1>13, <1>14,
     <1>15, <1>16, <1>17, <1>18, <1>19, <1>20, <1>21, <1>22, <1>23, <1>24, <1>25, <1>26,
     <1>27, <1>28, <1>29, <1>30, <1>31, <1>32, <1>33, <1>34, <1>35, <1>36, <1>37, <1>38,
     <1>39, <1>40, <1>41, <1>42, <1>43, <1>44, <1>45 DEF Step

-----------------------------------------------------------------------------
(* The steps of the threads keep the inductive invariant.                  *)

LEMMA StepOp ==
    ASSUME Typed, OpOK, NEW t \in Threads, Step(t)
    PROVE  OpOK'
<1> USE DEF OpOK, Caching, Incoming, index, cache, disk, saved, sending
<1>1. CASE RecvNew(t)
  BY <1>1, RecvNewEffect DEF Moved
<1>2. CASE RecvPayload(t)
  BY <1>2, LabelNames, GotoEffect DEF RecvPayload, Moved, At
<1>3. CASE RecvCut(t)
  BY <1>3, FinishEffect DEF RecvCut, Moved, At
<1>4. CASE RecvRejected(t)
  BY <1>4, FinishEffect DEF RecvRejected, Moved, At
<1>5. CASE Lookup(t)
  BY <1>5, LookupEffect DEF Moved, Find
<1>6. CASE Nonce(t)
  BY <1>6, NonceEffect DEF Moved
<1>7. CASE NonceDone(t)
  BY <1>7, LabelNames, GotoEffect DEF NonceDone, Moved, At
<1>8. CASE Drop(t)
  BY <1>8, FinishEffect DEF Drop, Moved, At
<1>9. CASE HandOver(t)
  BY <1>9, FinishEffect DEF HandOver, Moved, At
<1>10. CASE KeepGot(t)
  BY <1>10, LabelNames, GotoEffect DEF KeepGot, Moved, At
<1>11. CASE CacheStart(t)
  BY <1>11, LabelNames, GotoEffect DEF CacheStart, Moved, At
<1>12. CASE Evict(t)
  BY <1>12, EvictEffect DEF Moved
<1>13. CASE EvictFails(t)
  <2>1. UNCHANGED th
    BY <1>13 DEF EvictFails, Crash
  <2> QED BY <2>1
<1>14. CASE CachePush(t)
  BY <1>14, LabelNames, GotoEffect DEF CachePush, Moved, At
<1>15. CASE VictimUnindex(t)
  BY <1>15, VictimUnindexEffect DEF Moved
<1>16. CASE Probe(t)
  BY <1>16, LabelNames, GotoEffect DEF Probe, Moved, Crash, At
<1>17. CASE Unlink(t)
  BY <1>17, LabelNames, GotoEffect, FinishEffect DEF Unlink, Moved, At
<1>18. CASE Create(t)
  BY <1>18, LabelNames, GotoEffect DEF Create, Moved, Crash, At
<1>19. CASE Insert(t)
  BY <1>19, LabelNames, GotoEffect DEF Insert, EnterMaps, Moved, At
<1>20. CASE Persist(t)
  BY <1>20, LabelNames, GotoEffect, FinishEffect DEF Persist, Moved, At
<1>21. CASE PersistList(t)
  BY <1>21, LabelNames, GotoEffect, FinishEffect DEF PersistList, Moved, At
<1>22. CASE Send(t)
  BY <1>22, FinishEffect DEF Send, Moved, At
<1>23. CASE KeepStart(t)
  BY <1>23, KeepStartEffect DEF Moved
<1>24. CASE KeepMissing(t)
  <2>1. UNCHANGED th
    BY <1>24 DEF KeepMissing, Crash
  <2> QED BY <2>1
<1>25. CASE KeepCopy(t)
  BY <1>25, LabelNames, GotoEffect DEF KeepCopy, Moved, At
<1>26. CASE Keep(t)
  BY <1>26, LabelNames, GotoEffect DEF Keep, EnterMaps, Moved, At
<1>27. CASE KeepFails(t)
  BY <1>27, KeepFailsEffect DEF Moved
<1>28. CASE DeleteStart(t)
  BY <1>28, DeleteStartEffect DEF Moved, Find
<1>29. CASE DeleteBySHA1(t)
  BY <1>29, DeleteBySHA1Effect DEF Moved, Find
<1>30. CASE DeleteRefused(t)
  BY <1>30, FinishEffect DEF DeleteRefused, Moved, At
<1>31. CASE DeleteChosen(t)
  BY <1>31, DeleteChosenEffect DEF Moved
<1>32. CASE DeleteFails(t)
  <2>1. UNCHANGED th
    BY <1>32 DEF DeleteFails, Crash
  <2> QED BY <2>1
<1>33. CASE DeleteUnindex(t)
  BY <1>33, LabelNames, GotoEffect DEF DeleteUnindex, LeaveMaps, Moved, At
<1>34. CASE Uncache(t)
  BY <1>34, LabelNames, GotoEffect DEF Uncache, Moved, At
<1>35. CASE UncacheNotNeeded(t)
  BY <1>35, LabelNames, GotoEffect, FinishEffect DEF UncacheNotNeeded, Moved, At
<1>36. CASE UncacheFails(t)
  <2>1. UNCHANGED th
    BY <1>36 DEF UncacheFails, Crash
  <2> QED BY <2>1
<1>37. CASE SearchStart(t)
  BY <1>37, SearchStartEffect DEF Moved, Find
<1>38. CASE SearchHits(t)
  BY <1>38, SearchHitsEffect DEF Moved
<1>39. CASE Touch(t)
  BY <1>39, TouchEffect DEF Moved
<1>40. CASE TouchFails(t)
  <2>1. UNCHANGED th
    BY <1>40 DEF TouchFails, Crash
  <2> QED BY <2>1
<1>41. CASE TouchDone(t)
  BY <1>41, LabelNames, GotoEffect DEF TouchDone, Moved, At
<1>42. CASE Respond(t)
  BY <1>42, FinishEffect DEF Respond, Moved, At
<1>43. CASE RespondFails(t)
  <2>1. UNCHANGED th
    BY <1>43 DEF RespondFails, Crash
  <2> QED BY <2>1
<1>44. CASE GetRequest(t)
  BY <1>44 DEF GetRequest, At
<1>45. CASE GetLocal(t)
  BY <1>45, GetLocalEffect DEF Moved
<1> QED
  BY <1>1, <1>2, <1>3, <1>4, <1>5, <1>6, <1>7, <1>8, <1>9, <1>10, <1>11, <1>12, <1>13, <1>14,
     <1>15, <1>16, <1>17, <1>18, <1>19, <1>20, <1>21, <1>22, <1>23, <1>24, <1>25, <1>26,
     <1>27, <1>28, <1>29, <1>30, <1>31, <1>32, <1>33, <1>34, <1>35, <1>36, <1>37, <1>38,
     <1>39, <1>40, <1>41, <1>42, <1>43, <1>44, <1>45 DEF Step

LEMMA StepLock ==
    ASSUME Typed, LockOK, NEW t \in Threads, Step(t)
    PROVE  LockOK'
<1> USE ThreadAssumption DEF LockOK, At, index, cache, disk, saved, sending
<1>1. CASE RecvNew(t)
  BY <1>1, RecvNewEffect DEF Moved
<1>2. CASE RecvPayload(t)
  BY <1>2, LabelNames, GotoEffect DEF RecvPayload, Moved, At
<1>3. CASE RecvCut(t)
  BY <1>3, FinishEffect DEF RecvCut, Moved, At
<1>4. CASE RecvRejected(t)
  BY <1>4, FinishEffect DEF RecvRejected, Moved, At
<1>5. CASE Lookup(t)
  BY <1>5, LookupEffect DEF Moved, Find
<1>6. CASE Nonce(t)
  BY <1>6, NonceEffect DEF Moved
<1>7. CASE NonceDone(t)
  BY <1>7, LabelNames, GotoEffect DEF NonceDone, Moved, At
<1>8. CASE Drop(t)
  BY <1>8, FinishEffect DEF Drop, Moved, At
<1>9. CASE HandOver(t)
  BY <1>9, FinishEffect DEF HandOver, Moved, At
<1>10. CASE KeepGot(t)
  BY <1>10, LabelNames, GotoEffect DEF KeepGot, Moved, At
<1>11. CASE CacheStart(t)
  BY <1>11, LabelNames, GotoEffect DEF CacheStart, Moved, At
<1>12. CASE Evict(t)
  BY <1>12, EvictEffect DEF Moved
<1>13. CASE EvictFails(t)
  BY <1>13 DEF EvictFails, Crash, At
<1>14. CASE CachePush(t)
  BY <1>14, LabelNames, GotoEffect DEF CachePush, Moved, At
<1>15. CASE VictimUnindex(t)
  BY <1>15, VictimUnindexEffect DEF Moved
<1>16. CASE Probe(t)
  BY <1>16, LabelNames, GotoEffect DEF Probe, Moved, Crash, At
<1>17. CASE Unlink(t)
  BY <1>17, LabelNames, GotoEffect, FinishEffect DEF Unlink, Moved, At
<1>18. CASE Create(t)
  BY <1>18, LabelNames, GotoEffect DEF Create, Moved, Crash, At
<1>19. CASE Insert(t)
  BY <1>19, LabelNames, GotoEffect DEF Insert, EnterMaps, Moved, At
<1>20. CASE Persist(t)
  BY <1>20, LabelNames, GotoEffect, FinishEffect DEF Persist, Moved, At
<1>21. CASE PersistList(t)
  BY <1>21, LabelNames, GotoEffect, FinishEffect DEF PersistList, Moved, At
<1>22. CASE Send(t)
  BY <1>22, FinishEffect DEF Send, Moved, At
<1>23. CASE KeepStart(t)
  BY <1>23, KeepStartEffect DEF Moved
<1>24. CASE KeepMissing(t)
  BY <1>24 DEF KeepMissing, Crash
<1>25. CASE KeepCopy(t)
  BY <1>25, LabelNames, GotoEffect DEF KeepCopy, Moved, At
<1>26. CASE Keep(t)
  BY <1>26, LabelNames, GotoEffect DEF Keep, EnterMaps, Moved, At
<1>27. CASE KeepFails(t)
  BY <1>27, KeepFailsEffect DEF Moved
<1>28. CASE DeleteStart(t)
  BY <1>28, DeleteStartEffect DEF Moved, Find
<1>29. CASE DeleteBySHA1(t)
  BY <1>29, DeleteBySHA1Effect DEF Moved, Find
<1>30. CASE DeleteRefused(t)
  BY <1>30, FinishEffect DEF DeleteRefused, Moved, At
<1>31. CASE DeleteChosen(t)
  BY <1>31, DeleteChosenEffect DEF Moved
<1>32. CASE DeleteFails(t)
  BY <1>32 DEF DeleteFails, Crash
<1>33. CASE DeleteUnindex(t)
  BY <1>33, LabelNames, GotoEffect DEF DeleteUnindex, LeaveMaps, Moved, At
<1>34. CASE Uncache(t)
  BY <1>34, LabelNames, GotoEffect DEF Uncache, Moved, At
<1>35. CASE UncacheNotNeeded(t)
  BY <1>35, LabelNames, GotoEffect, FinishEffect DEF UncacheNotNeeded, Moved, At
<1>36. CASE UncacheFails(t)
  BY <1>36 DEF UncacheFails, Crash
<1>37. CASE SearchStart(t)
  BY <1>37, SearchStartEffect DEF Moved, Find
<1>38. CASE SearchHits(t)
  BY <1>38, SearchHitsEffect DEF Moved
<1>39. CASE Touch(t)
  BY <1>39, TouchEffect DEF Moved
<1>40. CASE TouchFails(t)
  BY <1>40 DEF TouchFails, Crash
<1>41. CASE TouchDone(t)
  BY <1>41, LabelNames, GotoEffect DEF TouchDone, Moved, At
<1>42. CASE Respond(t)
  BY <1>42, FinishEffect DEF Respond, Moved, At
<1>43. CASE RespondFails(t)
  BY <1>43 DEF RespondFails, Crash
<1>44. CASE GetRequest(t)
  BY <1>44 DEF GetRequest, At
<1>45. CASE GetLocal(t)
  BY <1>45, GetLocalEffect DEF Moved
<1> QED
  BY <1>1, <1>2, <1>3, <1>4, <1>5, <1>6, <1>7, <1>8, <1>9, <1>10, <1>11, <1>12, <1>13, <1>14,
     <1>15, <1>16, <1>17, <1>18, <1>19, <1>20, <1>21, <1>22, <1>23, <1>24, <1>25, <1>26,
     <1>27, <1>28, <1>29, <1>30, <1>31, <1>32, <1>33, <1>34, <1>35, <1>36, <1>37, <1>38,
     <1>39, <1>40, <1>41, <1>42, <1>43, <1>44, <1>45 DEF Step

\* An index becomes private to a thread when the thread takes it, and stays so.
LEMMA PrivateSteps ==
    ASSUME Typed, OpOK, NEW t \in Threads, Step(t)
    PROVE  /\ nextIndex' \in {nextIndex, nextIndex + 1}
           /\ \A u \in Threads : Private(u)' =>
                 \/ Private(u) /\ th'[u].idx = th[u].idx
                 \/ /\ u = t /\ ~Private(t) /\ th'[t].idx = nextIndex
                    /\ nextIndex' = nextIndex + 1
<1> USE DEF OpOK, Private, Caching, Incoming, index, cache, disk, saved, sending
<1>1. CASE RecvNew(t)
  BY <1>1, RecvNewEffect DEF Moved
<1>2. CASE RecvPayload(t)
  BY <1>2, LabelNames, GotoEffect DEF RecvPayload, Moved, At
<1>3. CASE RecvCut(t)
  BY <1>3, FinishEffect DEF RecvCut, Moved, At
<1>4. CASE RecvRejected(t)
  BY <1>4, FinishEffect DEF RecvRejected, Moved, At
<1>5. CASE Lookup(t)
  BY <1>5, LookupEffect DEF Moved, Find
<1>6. CASE Nonce(t)
  BY <1>6, NonceEffect DEF Moved
<1>7. CASE NonceDone(t)
  BY <1>7, LabelNames, GotoEffect DEF NonceDone, Moved, At
<1>8. CASE Drop(t)
  BY <1>8, FinishEffect DEF Drop, Moved, At
<1>9. CASE HandOver(t)
  BY <1>9, FinishEffect DEF HandOver, Moved, At
<1>10. CASE KeepGot(t)
  BY <1>10, LabelNames, GotoEffect DEF KeepGot, Moved, At
<1>11. CASE CacheStart(t)
  BY <1>11, LabelNames, GotoEffect DEF CacheStart, Moved, At
<1>12. CASE Evict(t)
  BY <1>12, EvictEffect DEF Moved
<1>13. CASE EvictFails(t)
  BY <1>13 DEF EvictFails, Crash, At
<1>14. CASE CachePush(t)
  BY <1>14, LabelNames, GotoEffect DEF CachePush, Moved, At
<1>15. CASE VictimUnindex(t)
  BY <1>15, VictimUnindexEffect DEF Moved
<1>16. CASE Probe(t)
  BY <1>16, LabelNames, GotoEffect DEF Probe, Moved, Crash, At
<1>17. CASE Unlink(t)
  BY <1>17, LabelNames, GotoEffect, FinishEffect DEF Unlink, Moved, At
<1>18. CASE Create(t)
  BY <1>18, LabelNames, GotoEffect DEF Create, Moved, Crash, At
<1>19. CASE Insert(t)
  BY <1>19, LabelNames, GotoEffect DEF Insert, EnterMaps, Moved, At
<1>20. CASE Persist(t)
  BY <1>20, LabelNames, GotoEffect, FinishEffect DEF Persist, Moved, At
<1>21. CASE PersistList(t)
  BY <1>21, LabelNames, GotoEffect, FinishEffect DEF PersistList, Moved, At
<1>22. CASE Send(t)
  BY <1>22, FinishEffect DEF Send, Moved, At
<1>23. CASE KeepStart(t)
  BY <1>23, KeepStartEffect DEF Moved
<1>24. CASE KeepMissing(t)
  BY <1>24 DEF KeepMissing, Crash
<1>25. CASE KeepCopy(t)
  BY <1>25, LabelNames, GotoEffect DEF KeepCopy, Moved, At
<1>26. CASE Keep(t)
  BY <1>26, LabelNames, GotoEffect DEF Keep, EnterMaps, Moved, At
<1>27. CASE KeepFails(t)
  BY <1>27, KeepFailsEffect DEF Moved
<1>28. CASE DeleteStart(t)
  BY <1>28, DeleteStartEffect DEF Moved, Find
<1>29. CASE DeleteBySHA1(t)
  BY <1>29, DeleteBySHA1Effect DEF Moved, Find
<1>30. CASE DeleteRefused(t)
  BY <1>30, FinishEffect DEF DeleteRefused, Moved, At
<1>31. CASE DeleteChosen(t)
  BY <1>31, DeleteChosenEffect DEF Moved
<1>32. CASE DeleteFails(t)
  BY <1>32 DEF DeleteFails, Crash
<1>33. CASE DeleteUnindex(t)
  BY <1>33, LabelNames, GotoEffect DEF DeleteUnindex, LeaveMaps, Moved, At
<1>34. CASE Uncache(t)
  BY <1>34, LabelNames, GotoEffect DEF Uncache, Moved, At
<1>35. CASE UncacheNotNeeded(t)
  BY <1>35, LabelNames, GotoEffect, FinishEffect DEF UncacheNotNeeded, Moved, At
<1>36. CASE UncacheFails(t)
  BY <1>36 DEF UncacheFails, Crash
<1>37. CASE SearchStart(t)
  BY <1>37, SearchStartEffect DEF Moved, Find
<1>38. CASE SearchHits(t)
  BY <1>38, SearchHitsEffect DEF Moved
<1>39. CASE Touch(t)
  BY <1>39, TouchEffect DEF Moved
<1>40. CASE TouchFails(t)
  BY <1>40 DEF TouchFails, Crash
<1>41. CASE TouchDone(t)
  BY <1>41, LabelNames, GotoEffect DEF TouchDone, Moved, At
<1>42. CASE Respond(t)
  BY <1>42, FinishEffect DEF Respond, Moved, At
<1>43. CASE RespondFails(t)
  BY <1>43 DEF RespondFails, Crash
<1>44. CASE GetRequest(t)
  BY <1>44 DEF GetRequest, At
<1>45. CASE GetLocal(t)
  BY <1>45, GetLocalEffect DEF Moved
<1> QED
  BY <1>1, <1>2, <1>3, <1>4, <1>5, <1>6, <1>7, <1>8, <1>9, <1>10, <1>11, <1>12, <1>13, <1>14,
     <1>15, <1>16, <1>17, <1>18, <1>19, <1>20, <1>21, <1>22, <1>23, <1>24, <1>25, <1>26,
     <1>27, <1>28, <1>29, <1>30, <1>31, <1>32, <1>33, <1>34, <1>35, <1>36, <1>37, <1>38,
     <1>39, <1>40, <1>41, <1>42, <1>43, <1>44, <1>45 DEF Step

\* What the maps, the list and the messages name after a step was named before,
\* or the thread of the step holds it, or publishes it.
LEMMA NamedGrows ==
    ASSUME Typed, OpOK, NEW t \in Threads, Step(t), NEW i \in Index, Named(i)'
    PROVE  Named(i) \/ Holds(t, i) \/ (Private(t) /\ ~Private(t)' /\ i = th[t].idx)
<1> DEFINE Publishes == Private(t) /\ ~Private(t)' /\ i = th[t].idx
<1>1. ASSUME i \in Cached' PROVE i \in Cached \/ Publishes
  <2>1. CASE CachePush(t)
    BY <1>1, <2>1, CachePushCached, LabelNames, GotoEffect DEF CachePush, Moved, At, Private
  <2> QED BY <1>1, <2>1, StepFrame, EvictCached, UncacheCached, TouchCached DEF Cached
<1>2. ASSUME i \in fileIDs' PROVE i \in fileIDs \/ Holds(t, i)
  BY <1>2, StepFrame DEF Respond, Holds
<1>3. ASSUME entry'[i] # NoFile PROVE entry[i] # NoFile \/ Holds(t, i) \/ Publishes
  <2>1. CASE Keep(t)
    BY <1>3, <2>1, FieldTypes, LabelNames, GotoEffect DEF Keep, EnterMaps, Moved, At, Private, Typed
  <2>2. CASE Insert(t)
    BY <1>3, <2>2, FieldTypes DEF Insert, EnterMaps, At, Typed, OpOK, Holds, Publishing, Incoming
  <2>3. CASE VictimUnindex(t)
    <3>1. PICK j \in th[t].todo : entry' = [entry EXCEPT ![j] = NoFile]
      BY <2>3, VictimUnindexEffect
    <3> QED BY <1>3, <3>1, FieldTypes DEF Typed
  <2>4. CASE DeleteUnindex(t)
    BY <1>3, <2>4, FieldTypes DEF DeleteUnindex, LeaveMaps, Typed
  <2> QED BY <1>3, <2>1, <2>2, <2>3, <2>4, StepFrame
<1>4. ASSUME NEW p \in Payloads, <<i, p>> \in outgoing'
      PROVE  <<i, p>> \in outgoing \/ i \in fileIDs \/ Holds(t, i) \/ Publishes
  <2>1. CASE HandOver(t)
    BY <1>4, <2>1, FinishEffect DEF HandOver, Moved, At, Private
  <2>2. CASE Send(t)
    BY <1>4, <2>2 DEF Send, At, OpOK, Holds, Publishing, Incoming, Caching
  <2>3. CASE Respond(t)
    BY <1>4, <2>3 DEF Respond, Holds
  <2>4. CASE GetRequest(t)
    BY <1>4, <2>4 DEF GetRequest
  <2> QED BY <1>4, <2>1, <2>2, <2>3, <2>4, StepFrame
<1> QED BY <1>1, <1>2, <1>3, <1>4 DEF Named

LEMMA ListedGrows ==
    ASSUME Typed, OpOK, NEW t \in Threads, Step(t), NEW i \in Index, Listed(i)'
    PROVE  Listed(i) \/ Holds(t, i) \/ (Private(t) /\ ~Private(t)' /\ i = th[t].idx)
<1> DEFINE Publishes == Private(t) /\ ~Private(t)' /\ i = th[t].idx
<1>1. ASSUME i \in owned' PROVE i \in owned \/ Publishes
  <2>1. CASE Keep(t)
    BY <1>1, <2>1, LabelNames, GotoEffect DEF Keep, EnterMaps, Moved, At, Private
  <2>2. CASE Unlink(t)
    BY <1>1, <2>2 DEF Unlink
  <2> QED BY <1>1, <2>1, <2>2, StepFrame
<1> QED BY <1>1, NamedGrows DEF Listed

\* What a thread holds after a step it held before, or the maps, the list or a
\* message named it, or the thread publishes it.
LEMMA HoldsGrows ==
    ASSUME Typed, OpOK, NEW t \in Threads, Step(t), NEW i \in Index, Holds(t, i)'
    PROVE  Named(i) \/ Holds(t, i) \/ (Private(t) /\ ~Private(t)' /\ i = th[t].idx)
<1> USE DEF OpOK, Holds, Targeting, Publishing, Private, Incoming, Caching, index, cache, disk, saved, sending
<1>1. CASE RecvNew(t)
  BY <1>1, RecvNewEffect DEF Moved
<1>2. CASE RecvPayload(t)
  BY <1>2, LabelNames, GotoEffect DEF RecvPayload, Moved, At
<1>3. CASE RecvCut(t)
  BY <1>3, FinishEffect DEF RecvCut, Moved, At
<1>4. CASE RecvRejected(t)
  BY <1>4, FinishEffect DEF RecvRejected, Moved, At
<1>5. CASE Lookup(t)
  BY <1>5, LookupEffect, FilesAssumption DEF Moved, Find, Named
<1>6. CASE Nonce(t)
  BY <1>6, NonceEffect DEF Moved
<1>7. CASE NonceDone(t)
  BY <1>7, LabelNames, GotoEffect DEF NonceDone, Moved, At
<1>8. CASE Drop(t)
  BY <1>8, FinishEffect DEF Drop, Moved, At
<1>9. CASE HandOver(t)
  BY <1>9, FinishEffect DEF HandOver, Moved, At
<1>10. CASE KeepGot(t)
  BY <1>10, LabelNames, GotoEffect DEF KeepGot, Moved, At
<1>11. CASE CacheStart(t)
  BY <1>11, LabelNames, GotoEffect DEF CacheStart, Moved, At
<1>12. CASE Evict(t)
  BY <1>12, EvictEffect, EvictCached DEF Moved, Named
<1>13. CASE EvictFails(t)
  BY <1>13 DEF EvictFails, Crash, At
<1>14. CASE CachePush(t)
  BY <1>14, LabelNames, GotoEffect DEF CachePush, Moved, At
<1>15. CASE VictimUnindex(t)
  BY <1>15, VictimUnindexEffect DEF Moved
<1>16. CASE Probe(t)
  BY <1>16, LabelNames, GotoEffect DEF Probe, Moved, Crash, At
<1>17. CASE Unlink(t)
  BY <1>17, LabelNames, GotoEffect, FinishEffect DEF Unlink, Moved, At
<1>18. CASE Create(t)
  BY <1>18, LabelNames, GotoEffect DEF Create, Moved, Crash, At
<1>19. CASE Insert(t)
  BY <1>19, LabelNames, GotoEffect DEF Insert, EnterMaps, Moved, At
<1>20. CASE Persist(t)
  BY <1>20, LabelNames, GotoEffect, FinishEffect DEF Persist, Moved, At
<1>21. CASE PersistList(t)
  BY <1>21, LabelNames, GotoEffect, FinishEffect DEF PersistList, Moved, At
<1>22. CASE Send(t)
  BY <1>22, FinishEffect DEF Send, Moved, At
<1>23. CASE KeepStart(t)
  BY <1>23, KeepStartEffect DEF Moved
<1>24. CASE KeepMissing(t)
  BY <1>24 DEF KeepMissing, Crash
<1>25. CASE KeepCopy(t)
  BY <1>25, LabelNames, GotoEffect DEF KeepCopy, Moved, At
<1>26. CASE Keep(t)
  BY <1>26, LabelNames, GotoEffect DEF Keep, EnterMaps, Moved, At
<1>27. CASE KeepFails(t)
  BY <1>27, KeepFailsEffect DEF Moved
<1>28. CASE DeleteStart(t)
  BY <1>28, DeleteStartEffect, FilesAssumption DEF Moved, Find, Named
<1>29. CASE DeleteBySHA1(t)
  BY <1>29, DeleteBySHA1Effect DEF Moved, Find
<1>30. CASE DeleteRefused(t)
  BY <1>30, FinishEffect DEF DeleteRefused, Moved, At
<1>31. CASE DeleteChosen(t)
  BY <1>31, DeleteChosenEffect DEF Moved
<1>32. CASE DeleteFails(t)
  BY <1>32 DEF DeleteFails, Crash
<1>33. CASE DeleteUnindex(t)
  BY <1>33, LabelNames, GotoEffect DEF DeleteUnindex, LeaveMaps, Moved, At
<1>34. CASE Uncache(t)
  BY <1>34, LabelNames, GotoEffect DEF Uncache, Moved, At
<1>35. CASE UncacheNotNeeded(t)
  BY <1>35, LabelNames, GotoEffect, FinishEffect DEF UncacheNotNeeded, Moved, At
<1>36. CASE UncacheFails(t)
  BY <1>36 DEF UncacheFails, Crash
<1>37. CASE SearchStart(t)
  BY <1>37, SearchStartEffect, FilesAssumption DEF Moved, Find, Named
<1>38. CASE SearchHits(t)
  BY <1>38, SearchHitsEffect DEF Moved
<1>39. CASE Touch(t)
  BY <1>39, TouchEffect DEF Moved
<1>40. CASE TouchFails(t)
  BY <1>40 DEF TouchFails, Crash
<1>41. CASE TouchDone(t)
  BY <1>41, LabelNames, GotoEffect DEF TouchDone, Moved, At
<1>42. CASE Respond(t)
  BY <1>42, FinishEffect DEF Respond, Moved, At
<1>43. CASE RespondFails(t)
  BY <1>43 DEF RespondFails, Crash
<1>44. CASE GetRequest(t)
  BY <1>44 DEF GetRequest, At
<1>45. CASE GetLocal(t)
  BY <1>45, GetLocalEffect DEF Moved, Named
<1> QED
  BY <1>1, <1>2, <1>3, <1>4, <1>5, <1>6, <1>7, <1>8, <1>9, <1>10, <1>11, <1>12, <1>13, <1>14,
     <1>15, <1>16, <1>17, <1>18, <1>19, <1>20, <1>21, <1>22, <1>23, <1>24, <1>25, <1>26,
     <1>27, <1>28, <1>29, <1>30, <1>31, <1>32, <1>33, <1>34, <1>35, <1>36, <1>37, <1>38,
     <1>39, <1>40, <1>41, <1>42, <1>43, <1>44, <1>45 DEF Step

\* The only index that others come to know of in a step is the one that the
\* thread publishes.
LEMMA KnownGrows ==
    ASSUME Typed, OpOK, NEW t \in Threads, Step(t), NEW i \in Index, Known(i)'
    PROVE  Known(i) \/ (Private(t) /\ ~Private(t)' /\ i = th[t].idx)
<1>1. CASE Listed(i)'
  BY <1>1, ListedGrows DEF Known
<1>2. CASE Holds(t, i)'
  BY <1>2, HoldsGrows DEF Known, Listed
<1>3. ASSUME NEW u \in Threads \ {t}, Holds(u, i)'
      PROVE  Holds(u, i)
  BY <1>3, StepFrame DEF Holds, Targeting, Publishing, Incoming
<1> QED BY <1>1, <1>2, <1>3 DEF Known

LEMMA StepTaken ==
    ASSUME Typed, OpOK, KnownTaken, PrivateTaken, PrivateApart, NEW t \in Threads, Step(t)
    PROVE  KnownTaken' /\ PrivateTaken' /\ PrivateApart'
<1>1. /\ nextIndex' \in {nextIndex, nextIndex + 1} /\ nextIndex \in Nat
      /\ \A u \in Threads : Private(u)' =>
            \/ Private(u) /\ th'[u].idx = th[u].idx
            \/ /\ u = t /\ ~Private(t) /\ th'[t].idx = nextIndex
               /\ nextIndex' = nextIndex + 1
  BY PrivateSteps DEF Typed
<1>2. \A i \in Index : Known(i)' => Known(i) \/ (Private(t) /\ ~Private(t)' /\ i = th[t].idx)
  BY KnownGrows
<1>3. Typed'
  BY StepType
<1>4. \A u \in Threads : th[u].idx \in Index /\ th'[u].idx \in Index
  BY FieldTypes, <1>3 DEF Typed, ThreadState
<1>5. KnownTaken'
  <2> SUFFICES ASSUME NEW i \in Index, Known(i)' PROVE i < nextIndex'
    BY DEF KnownTaken
  <2>1. i < nextIndex
    BY <1>2 DEF KnownTaken, PrivateTaken
  <2> QED BY <1>1, <2>1 DEF Index
<1>6. PrivateTaken'
  <2> SUFFICES ASSUME NEW u \in Threads, NEW i \in Index, Private(u)', th'[u].idx = i
               PROVE  i < nextIndex' /\ ~Known(i)'
    BY DEF PrivateTaken
  <2>1. CASE Private(u) /\ th[u].idx = i
    <3>1. i < nextIndex /\ ~Known(i)
      BY <2>1 DEF PrivateTaken
    <3>2. ~(Private(t) /\ ~Private(t)' /\ i = th[t].idx)
      BY <2>1 DEF PrivateApart
    <3> QED BY <1>1, <1>2, <3>1, <3>2 DEF Index
  <2>2. CASE u = t /\ ~Private(t) /\ i = nextIndex /\ nextIndex' = nextIndex + 1
    <3>1. ~Known(i)
      BY <1>1, <2>2 DEF KnownTaken
    <3> QED BY <1>1, <1>2, <2>2, <3>1
  <2> QED BY <1>1, <2>1, <2>2
<1>7. PrivateApart'
  <2>1. ASSUME NEW u \in Threads, NEW v \in Threads, Private(u)', Private(v)', u # v
        PROVE  th'[u].idx # th'[v].idx
    <3>1. \A x \in Threads : Private(x) => th[x].idx < nextIndex /\ th[x].idx # nextIndex
      BY <1>1, <1>4 DEF PrivateTaken, Index
    <3> QED BY <1>1, <2>1, <3>1 DEF PrivateApart
  <2> QED BY <2>1 DEF PrivateApart
<1> QED BY <1>5, <1>6, <1>7

LEMMA CachedGrows ==
    ASSUME Typed, NEW t \in Threads, Step(t)
    PROVE  \/ Cached' \subseteq Cached
           \/ CachePush(t) /\ Cached' = Cached \cup {th[t].idx}
BY StepFrame, EvictCached, CachePushCached, UncacheCached, TouchCached DEF Cached

LEMMA StepDistinct ==
    ASSUME Typed, CacheDistinct, PrivateTaken, NEW t \in Threads, Step(t)
    PROVE  CacheDistinct'
<1>1. CASE CachePush(t)
  <2>1. th[t].idx \notin Cached
    BY <1>1, FieldTypes DEF CachePush, At, Private, PrivateTaken, Known, Listed, Named
  <2> QED BY <1>1, <2>1, CachePushCached
<1>2. CASE Evict(t) \/ Uncache(t) \/ Touch(t)
  BY <1>2, EvictCached, UncacheCached, TouchCached
<1>3. CASE UNCHANGED cacheList
  BY <1>3 DEF CacheDistinct
<1> QED BY <1>1, <1>2, <1>3, StepFrame

\* A step writes the files of the thread's own index, or removes those that the
\* thread was about to unlink.
LEMMA DiskSteps ==
    ASSUME Typed, OpOK, NEW t \in Threads, Step(t), NEW i \in Index
    PROVE  \/ metaOf'[i] = metaOf[i] /\ dataOf'[i] = dataOf[i]
           \/ Private(t) /\ i = th[t].idx
           \/ At(t, "unlink") /\ i = th[t].cur
<1>1. CASE RecvPayload(t) \/ RecvCut(t) \/ KeepCopy(t) \/ Keep(t)
  BY <1>1, FieldTypes DEF RecvPayload, RecvCut, KeepCopy, Keep, EnterMaps, At, Private, Typed
<1>2. CASE Drop(t) \/ Unlink(t)
  BY <1>2, FieldTypes DEF Drop, Unlink, RemoveFiles, At, Private, Typed
<1> QED BY <1>1, <1>2, StepFrame

-----------------------------------------------------------------------------
(* The files of the cached indices.                                        *)

LEMMA DoomedHeld ==
    ASSUME OpOK, NEW t \in Threads, NEW i \in Doomed(t)
    PROVE  Holds(t, i)
BY DEF Doomed, Holds, Targeting, OpOK, Caching

LEMMA StepReceivedOwn ==
    ASSUME Typed, OpOK, NEW t \in Threads, Step(t),
           Received(t) => metaOf[th[t].idx] = th[t].file /\ dataOf[th[t].idx] = th[t].file
    PROVE  Received(t)' => /\ metaOf'[th'[t].idx] = th'[t].file
                           /\ dataOf'[th'[t].idx] = th'[t].file
<1> USE DEF OpOK, Received, Caching, Incoming, index, cache, disk, saved, sending
<1>1. CASE RecvNew(t)
  BY <1>1, RecvNewEffect DEF Moved
<1>2. CASE RecvPayload(t)
  BY <1>2, LabelNames, GotoEffect, FieldTypes DEF RecvPayload, Moved, At, Typed
<1>3. CASE RecvCut(t)
  BY <1>3, FinishEffect DEF RecvCut, Moved, At
<1>4. CASE RecvRejected(t)
  BY <1>4, FinishEffect DEF RecvRejected, Moved, At
<1>5. CASE Lookup(t)
  BY <1>5, LookupEffect DEF Moved, Find
<1>6. CASE Nonce(t)
  BY <1>6, NonceEffect DEF Moved
<1>7. CASE NonceDone(t)
  BY <1>7, LabelNames, GotoEffect DEF NonceDone, Moved, At
<1>8. CASE Drop(t)
  BY <1>8, FinishEffect DEF Drop, Moved, At
<1>9. CASE HandOver(t)
  BY <1>9, FinishEffect DEF HandOver, Moved, At
<1>10. CASE KeepGot(t)
  BY <1>10, LabelNames, GotoEffect DEF KeepGot, Moved, At
<1>11. CASE CacheStart(t)
  BY <1>11, LabelNames, GotoEffect DEF CacheStart, Moved, At
<1>12. CASE Evict(t)
  BY <1>12, EvictEffect DEF Moved
<1>13. CASE EvictFails(t)
  BY <1>13 DEF EvictFails, Crash, At
<1>14. CASE CachePush(t)
  BY <1>14, LabelNames, GotoEffect DEF CachePush, Moved, At
<1>15. CASE VictimUnindex(t)
  BY <1>15, VictimUnindexEffect DEF Moved
<1>16. CASE Probe(t)
  BY <1>16, LabelNames, GotoEffect DEF Probe, Moved, Crash, At
<1>17. CASE Unlink(t)
  BY <1>17, LabelNames, GotoEffect, FinishEffect DEF Unlink, Moved, At
<1>18. CASE Create(t)
  BY <1>18, LabelNames, GotoEffect DEF Create, Moved, Crash, At
<1>19. CASE Insert(t)
  BY <1>19, LabelNames, GotoEffect DEF Insert, EnterMaps, Moved, At
<1>20. CASE Persist(t)
  BY <1>20, LabelNames, GotoEffect, FinishEffect DEF Persist, Moved, At
<1>21. CASE PersistList(t)
  BY <1>21, LabelNames, GotoEffect, FinishEffect DEF PersistList, Moved, At
<1>22. CASE Send(t)
  BY <1>22, FinishEffect DEF Send, Moved, At
<1>23. CASE KeepStart(t)
  BY <1>23, KeepStartEffect DEF Moved
<1>24. CASE KeepMissing(t)
  BY <1>24 DEF KeepMissing, Crash
<1>25. CASE KeepCopy(t)
  BY <1>25, LabelNames, GotoEffect DEF KeepCopy, Moved, At
<1>26. CASE Keep(t)
  BY <1>26, LabelNames, GotoEffect DEF Keep, EnterMaps, Moved, At
<1>27. CASE KeepFails(t)
  BY <1>27, KeepFailsEffect DEF Moved
<1>28. CASE DeleteStart(t)
  BY <1>28, DeleteStartEffect DEF Moved, Find
<1>29. CASE DeleteBySHA1(t)
  BY <1>29, DeleteBySHA1Effect DEF Moved, Find
<1>30. CASE DeleteRefused(t)
  BY <1>30, FinishEffect DEF DeleteRefused, Moved, At
<1>31. CASE DeleteChosen(t)
  BY <1>31, DeleteChosenEffect DEF Moved
<1>32. CASE DeleteFails(t)
  BY <1>32 DEF DeleteFails, Crash
<1>33. CASE DeleteUnindex(t)
  BY <1>33, LabelNames, GotoEffect DEF DeleteUnindex, LeaveMaps, Moved, At
<1>34. CASE Uncache(t)
  BY <1>34, LabelNames, GotoEffect DEF Uncache, Moved, At
<1>35. CASE UncacheNotNeeded(t)
  BY <1>35, LabelNames, GotoEffect, FinishEffect DEF UncacheNotNeeded, Moved, At
<1>36. CASE UncacheFails(t)
  BY <1>36 DEF UncacheFails, Crash
<1>37. CASE SearchStart(t)
  BY <1>37, SearchStartEffect DEF Moved, Find
<1>38. CASE SearchHits(t)
  BY <1>38, SearchHitsEffect DEF Moved
<1>39. CASE Touch(t)
  BY <1>39, TouchEffect DEF Moved
<1>40. CASE TouchFails(t)
  BY <1>40 DEF TouchFails, Crash
<1>41. CASE TouchDone(t)
  BY <1>41, LabelNames, GotoEffect DEF TouchDone, Moved, At
<1>42. CASE Respond(t)
  BY <1>42, FinishEffect DEF Respond, Moved, At
<1>43. CASE RespondFails(t)
  BY <1>43 DEF RespondFails, Crash
<1>44. CASE GetRequest(t)
  BY <1>44 DEF GetRequest, At
<1>45. CASE GetLocal(t)
  BY <1>45, GetLocalEffect DEF Moved
<1> QED
  BY <1>1, <1>2, <1>3, <1>4, <1>5, <1>6, <1>7, <1>8, <1>9, <1>10, <1>11, <1>12, <1>13, <1>14,
     <1>15, <1>16, <1>17, <1>18, <1>19, <1>20, <1>21, <1>22, <1>23, <1>24, <1>25, <1>26,
     <1>27, <1>28, <1>29, <1>30, <1>31, <1>32, <1>33, <1>34, <1>35, <1>36, <1>37, <1>38,
     <1>39, <1>40, <1>41, <1>42, <1>43, <1>44, <1>45 DEF Step

LEMMA StepReceived ==
    ASSUME Typed, OpOK, ReceivedOnDisk, PrivateTaken, PrivateApart,
           NEW t \in Threads, Step(t)
    PROVE  ReceivedOnDisk'
<1>1. ASSUME NEW u \in Threads \ {t}
      PROVE  Received(u)' => /\ metaOf'[th'[u].idx] = th'[u].file
                             /\ dataOf'[th'[u].idx] = th'[u].file
  <2>1. th'[u] = th[u] /\ th[u].idx \in Index
    BY StepFrame, FieldTypes
  <2>2. Received(u) => Private(u)
    BY DEF Received, Private
  <2>3. Received(u) => /\ metaOf'[th[u].idx] = metaOf[th[u].idx]
                       /\ dataOf'[th[u].idx] = dataOf[th[u].idx]
    <3>1. ASSUME Received(u), At(t, "unlink"), th[u].idx = th[t].cur
          PROVE  FALSE
      <4>1. Known(th[u].idx)
        BY <3>1 DEF Known, Holds, Targeting, At
      <4> QED BY <2>1, <2>2, <3>1, <4>1 DEF PrivateTaken
    <3> QED BY <2>1, <2>2, <3>1, DiskSteps DEF PrivateApart
  <2> QED BY <2>1, <2>3 DEF ReceivedOnDisk, Received
<1>2. Received(t)' => /\ metaOf'[th'[t].idx] = th'[t].file
                      /\ dataOf'[th'[t].idx] = th'[t].file
  BY StepReceivedOwn DEF ReceivedOnDisk
<1> QED BY <1>1, <1>2 DEF ReceivedOnDisk

LEMMA StepDoomed ==
    ASSUME Typed, OpOK, CacheDistinct, DeletedNotCached, NEW t \in Threads, Step(t),
           NEW i \in Index, i \in Doomed(t)'
    PROVE  /\ i \in Doomed(t) \/ i \notin Cached'
           /\ Caching(t)' => (Caching(t) /\ i \in Doomed(t)) \/ i \in Cached
<1> USE DEF OpOK, Doomed, Caching, Incoming, index, cache, disk, saved, sending
<1>1. CASE RecvNew(t)
  BY <1>1, RecvNewEffect DEF Moved, Cached
<1>2. CASE RecvPayload(t)
  BY <1>2, LabelNames, GotoEffect DEF RecvPayload, Moved, At, Cached
<1>3. CASE RecvCut(t)
  BY <1>3, FinishEffect DEF RecvCut, Moved, At, Cached
<1>4. CASE RecvRejected(t)
  BY <1>4, FinishEffect DEF RecvRejected, Moved, At, Cached
<1>5. CASE Lookup(t)
  BY <1>5, LookupEffect DEF Moved, Find, Cached
<1>6. CASE Nonce(t)
  BY <1>6, NonceEffect DEF Moved, Cached
<1>7. CASE NonceDone(t)
  BY <1>7, LabelNames, GotoEffect DEF NonceDone, Moved, At, Cached
<1>8. CASE Drop(t)
  BY <1>8, FinishEffect DEF Drop, Moved, At, Cached
<1>9. CASE HandOver(t)
  BY <1>9, FinishEffect DEF HandOver, Moved, At, Cached
<1>10. CASE KeepGot(t)
  BY <1>10, LabelNames, GotoEffect DEF KeepGot, Moved, At, Cached
<1>11. CASE CacheStart(t)
  BY <1>11, LabelNames, GotoEffect DEF CacheStart, Moved, At, Cached
<1>12. CASE Evict(t)
  BY <1>12, EvictEffect, EvictCached DEF Moved
<1>13. CASE EvictFails(t)
  BY <1>13 DEF EvictFails, Crash, At, Cached
<1>14. CASE CachePush(t)
  BY <1>14, LabelNames, GotoEffect, CachePushCached DEF CachePush, Moved, At
<1>15. CASE VictimUnindex(t)
  BY <1>15, VictimUnindexEffect DEF Moved, Cached
<1>16. CASE Probe(t)
  BY <1>16, LabelNames, GotoEffect DEF Probe, Moved, Crash, At, Cached
<1>17. CASE Unlink(t)
  BY <1>17, LabelNames, GotoEffect, FinishEffect DEF Unlink, Moved, At, Cached
<1>18. CASE Create(t)
  BY <1>18, LabelNames, GotoEffect DEF Create, Moved, Crash, At, Cached
<1>19. CASE Insert(t)
  BY <1>19, LabelNames, GotoEffect DEF Insert, EnterMaps, Moved, At, Cached
<1>20. CASE Persist(t)
  BY <1>20, LabelNames, GotoEffect, FinishEffect DEF Persist, Moved, At, Cached
<1>21. CASE PersistList(t)
  BY <1>21, LabelNames, GotoEffect, FinishEffect DEF PersistList, Moved, At, Cached, DeletedNotCached
<1>22. CASE Send(t)
  BY <1>22, FinishEffect DEF Send, Moved, At, Cached
<1>23. CASE KeepStart(t)
  BY <1>23, KeepStartEffect DEF Moved, Cached
<1>24. CASE KeepMissing(t)
  BY <1>24 DEF KeepMissing, Crash, Cached
<1>25. CASE KeepCopy(t)
  BY <1>25, LabelNames, GotoEffect DEF KeepCopy, Moved, At, Cached
<1>26. CASE Keep(t)
  BY <1>26, LabelNames, GotoEffect DEF Keep, EnterMaps, Moved, At, Cached
<1>27. CASE KeepFails(t)
  BY <1>27, KeepFailsEffect DEF Moved, Cached
<1>28. CASE DeleteStart(t)
  BY <1>28, DeleteStartEffect DEF Moved, Find, Cached
<1>29. CASE DeleteBySHA1(t)
  BY <1>29, DeleteBySHA1Effect DEF Moved, Find, Cached
<1>30. CASE DeleteRefused(t)
  BY <1>30, FinishEffect DEF DeleteRefused, Moved, At, Cached
<1>31. CASE DeleteChosen(t)
  BY <1>31, DeleteChosenEffect DEF Moved, Cached
<1>32. CASE DeleteFails(t)
  BY <1>32 DEF DeleteFails, Crash, Cached
<1>33. CASE DeleteUnindex(t)
  BY <1>33, LabelNames, GotoEffect DEF DeleteUnindex, LeaveMaps, Moved, At, Cached
<1>34. CASE Uncache(t)
  BY <1>34, LabelNames, GotoEffect, UncacheCached DEF Uncache, Moved, At
<1>35. CASE UncacheNotNeeded(t)
  BY <1>35, LabelNames, GotoEffect, FinishEffect DEF UncacheNotNeeded, Moved, At, Cached
<1>36. CASE UncacheFails(t)
  BY <1>36 DEF UncacheFails, Crash, Cached
<1>37. CASE SearchStart(t)
  BY <1>37, SearchStartEffect DEF Moved, Find, Cached
<1>38. CASE SearchHits(t)
  BY <1>38, SearchHitsEffect DEF Moved, Cached
<1>39. CASE Touch(t)
  BY <1>39, TouchEffect, TouchCached DEF Moved
<1>40. CASE TouchFails(t)
  BY <1>40 DEF TouchFails, Crash, Cached
<1>41. CASE TouchDone(t)
  BY <1>41, LabelNames, GotoEffect DEF TouchDone, Moved, At, Cached
<1>42. CASE Respond(t)
  BY <1>42, FinishEffect DEF Respond, Moved, At, Cached
<1>43. CASE RespondFails(t)
  BY <1>43 DEF RespondFails, Crash, Cached
<1>44. CASE GetRequest(t)
  BY <1>44 DEF GetRequest, At, Cached
<1>45. CASE GetLocal(t)
  BY <1>45, GetLocalEffect DEF Moved, Cached
<1> QED
  BY <1>1, <1>2, <1>3, <1>4, <1>5, <1>6, <1>7, <1>8, <1>9, <1>10, <1>11, <1>12, <1>13, <1>14,
     <1>15, <1>16, <1>17, <1>18, <1>19, <1>20, <1>21, <1>22, <1>23, <1>24, <1>25, <1>26,
     <1>27, <1>28, <1>29, <1>30, <1>31, <1>32, <1>33, <1>34, <1>35, <1>36, <1>37, <1>38,
     <1>39, <1>40, <1>41, <1>42, <1>43, <1>44, <1>45 DEF Step

LEMMA StepCachedOnDisk ==
    ASSUME Typed, OpOK, CacheDistinct, DeletedNotCached, CachedOnDisk, ReceivedOnDisk,
           PrivateTaken, NEW t \in Threads, Step(t)
    PROVE  CachedOnDisk'
<1>1. CachedOnDisk' <=> \A i \in Cached' : /\ metaOf'[i] \in Files /\ dataOf'[i] = metaOf'[i]
                                           /\ \A u \in Threads : i \notin Doomed(u)'
  BY DEF CachedOnDisk
<1>2. SUFFICES ASSUME NEW i \in Cached'
               PROVE  /\ metaOf'[i] \in Files /\ dataOf'[i] = metaOf'[i]
                      /\ \A u \in Threads : i \notin Doomed(u)'
  BY <1>1
<1>3. \A u \in Threads \ {t} : Doomed(u)' = Doomed(u)
  BY StepFrame DEF Doomed, Caching
<1>4. Cached \subseteq Index
  BY DEF Typed, Cached, ToSet
<1>5. CASE i \in Cached
  <2>1. ~(Private(t) /\ i = th[t].idx)
    BY <1>4, <1>5 DEF PrivateTaken, Known, Listed, Named
  <2>2. ~(At(t, "unlink") /\ i = th[t].cur)
    BY <1>5 DEF CachedOnDisk, Doomed, At, OpOK
  <2>3. metaOf'[i] = metaOf[i] /\ dataOf'[i] = dataOf[i]
    BY <1>4, <1>5, <2>1, <2>2, DiskSteps
  <2>4. i \notin Doomed(t)'
    BY <1>2, <1>4, <1>5, StepDoomed DEF CachedOnDisk
  <2> QED BY <1>3, <1>5, <2>3, <2>4 DEF CachedOnDisk
<1>6. CASE i \notin Cached
  <2>1. At(t, "evict") /\ i = th[t].idx /\ Private(t)
    BY <1>2, <1>6, CachedGrows DEF At, Private, CachePush
  <2>2. i \in Index /\ ~Known(i)
    BY <2>1, FieldTypes DEF PrivateTaken
  <2>3. \A u \in Threads : i \notin Doomed(u)
    BY <2>2, DoomedHeld DEF Known
  <2>4. i \notin Doomed(t)'
    BY <1>2, <2>2, <2>3, StepDoomed
  <2>5. th[t].file \in Files /\ metaOf[i] = th[t].file /\ dataOf[i] = th[t].file
    BY <2>1 DEF ReceivedOnDisk, Received, At, OpOK, Caching, Incoming
  <2>6. CachePush(t)
    BY <1>2, <1>6, StepFrame, EvictCached, UncacheCached, TouchCached DEF Cached
  <2>7. UNCHANGED <<metaOf, dataOf>>
    BY <2>6 DEF CachePush, disk
  <2> QED BY <1>3, <2>3, <2>4, <2>5, <2>7
<1> QED BY <1>5, <1>6

LEMMA StepOwnedSet ==
    ASSUME Typed, NEW t \in Threads, Step(t)
    PROVE  \A i \in owned' : i \in owned \/ (Private(t) /\ At(t, "keep") /\ i = th[t].idx)
BY StepFrame DEF Keep, EnterMaps, Unlink, At, Private

LEMMA StepDeletedOwn ==
    ASSUME Typed, OpOK, CacheDistinct, DeletedNotCached, NEW t \in Threads, Step(t),
           th'[t].op = "delete", th'[t].pc = "persistList"
    PROVE  th'[t].cur \notin Cached'
<1> USE DEF OpOK, DeletedNotCached, Caching, index, cache, disk, saved, sending
<1>1. CASE RecvNew(t)
  BY <1>1, RecvNewEffect DEF Moved, Cached
<1>2. CASE RecvPayload(t)
  BY <1>2, LabelNames, GotoEffect DEF RecvPayload, Moved, At, Cached
<1>3. CASE RecvCut(t)
  BY <1>3, FinishEffect DEF RecvCut, Moved, At, Cached
<1>4. CASE RecvRejected(t)
  BY <1>4, FinishEffect DEF RecvRejected, Moved, At, Cached
<1>5. CASE Lookup(t)
  BY <1>5, LookupEffect DEF Moved, Find, Cached
<1>6. CASE Nonce(t)
  BY <1>6, NonceEffect DEF Moved, Cached
<1>7. CASE NonceDone(t)
  BY <1>7, LabelNames, GotoEffect DEF NonceDone, Moved, At, Cached
<1>8. CASE Drop(t)
  BY <1>8, FinishEffect DEF Drop, Moved, At, Cached
<1>9. CASE HandOver(t)
  BY <1>9, FinishEffect DEF HandOver, Moved, At, Cached
<1>10. CASE KeepGot(t)
  BY <1>10, LabelNames, GotoEffect DEF KeepGot, Moved, At, Cached
<1>11. CASE CacheStart(t)
  BY <1>11, LabelNames, GotoEffect DEF CacheStart, Moved, At, Cached
<1>12. CASE Evict(t)
  BY <1>12, EvictEffect DEF Moved
<1>13. CASE EvictFails(t)
  BY <1>13 DEF EvictFails, Crash, At, Cached
<1>14. CASE CachePush(t)
  BY <1>14, LabelNames, GotoEffect DEF CachePush, Moved, At
<1>15. CASE VictimUnindex(t)
  BY <1>15, VictimUnindexEffect DEF Moved, Cached
<1>16. CASE Probe(t)
  BY <1>16, LabelNames, GotoEffect DEF Probe, Moved, Crash, At, Cached
<1>17. CASE Unlink(t)
  BY <1>17, LabelNames, GotoEffect, FinishEffect DEF Unlink, Moved, At, Cached
<1>18. CASE Create(t)
  BY <1>18, LabelNames, GotoEffect DEF Create, Moved, Crash, At, Cached
<1>19. CASE Insert(t)
  BY <1>19, LabelNames, GotoEffect DEF Insert, EnterMaps, Moved, At, Cached
<1>20. CASE Persist(t)
  BY <1>20, LabelNames, GotoEffect, FinishEffect DEF Persist, Moved, At, Cached
<1>21. CASE PersistList(t)
  BY <1>21, LabelNames, GotoEffect, FinishEffect DEF PersistList, Moved, At, Cached
<1>22. CASE Send(t)
  BY <1>22, FinishEffect DEF Send, Moved, At, Cached
<1>23. CASE KeepStart(t)
  BY <1>23, KeepStartEffect DEF Moved, Cached
<1>24. CASE KeepMissing(t)
  BY <1>24 DEF KeepMissing, Crash, Cached
<1>25. CASE KeepCopy(t)
  BY <1>25, LabelNames, GotoEffect DEF KeepCopy, Moved, At, Cached
<1>26. CASE Keep(t)
  BY <1>26, LabelNames, GotoEffect DEF Keep, EnterMaps, Moved, At, Cached
<1>27. CASE KeepFails(t)
  BY <1>27, KeepFailsEffect DEF Moved, Cached
<1>28. CASE DeleteStart(t)
  BY <1>28, DeleteStartEffect DEF Moved, Find, Cached
<1>29. CASE DeleteBySHA1(t)
  BY <1>29, DeleteBySHA1Effect DEF Moved, Find, Cached
<1>30. CASE DeleteRefused(t)
  BY <1>30, FinishEffect DEF DeleteRefused, Moved, At, Cached
<1>31. CASE DeleteChosen(t)
  BY <1>31, DeleteChosenEffect DEF Moved, Cached
<1>32. CASE DeleteFails(t)
  BY <1>32 DEF DeleteFails, Crash, Cached
<1>33. CASE DeleteUnindex(t)
  BY <1>33, LabelNames, GotoEffect DEF DeleteUnindex, LeaveMaps, Moved, At, Cached
<1>34. CASE Uncache(t)
  BY <1>34, LabelNames, GotoEffect, UncacheCached DEF Uncache, Moved, At
<1>35. CASE UncacheNotNeeded(t)
  BY <1>35, LabelNames, GotoEffect, FinishEffect DEF UncacheNotNeeded, Moved, At, Cached
<1>36. CASE UncacheFails(t)
  BY <1>36 DEF UncacheFails, Crash, Cached
<1>37. CASE SearchStart(t)
  BY <1>37, SearchStartEffect DEF Moved, Find, Cached
<1>38. CASE SearchHits(t)
  BY <1>38, SearchHitsEffect DEF Moved, Cached
<1>39. CASE Touch(t)
  BY <1>39, TouchEffect DEF Moved
<1>40. CASE TouchFails(t)
  BY <1>40 DEF TouchFails, Crash, Cached
<1>41. CASE TouchDone(t)
  BY <1>41, LabelNames, GotoEffect DEF TouchDone, Moved, At, Cached
<1>42. CASE Respond(t)
  BY <1>42, FinishEffect DEF Respond, Moved, At, Cached
<1>43. CASE RespondFails(t)
  BY <1>43 DEF RespondFails, Crash, Cached
<1>44. CASE GetRequest(t)
  BY <1>44 DEF GetRequest, At, Cached
<1>45. CASE GetLocal(t)
  BY <1>45, GetLocalEffect DEF Moved, Cached
<1> QED
  BY <1>1, <1>2, <1>3, <1>4, <1>5, <1>6, <1>7, <1>8, <1>9, <1>10, <1>11, <1>12, <1>13, <1>14,
     <1>15, <1>16, <1>17, <1>18, <1>19, <1>20, <1>21, <1>22, <1>23, <1>24, <1>25, <1>26,
     <1>27, <1>28, <1>29, <1>30, <1>31, <1>32, <1>33, <1>34, <1>35, <1>36, <1>37, <1>38,
     <1>39, <1>40, <1>41, <1>42, <1>43, <1>44, <1>45 DEF Step

LEMMA StepTempSet ==
    ASSUME Typed, NEW t \in Threads, Step(t), NEW i \in Index, <<i, "temp">> \in outgoing'
    PROVE  <<i, "temp">> \in outgoing \/ (HandOver(t) /\ i = th[t].idx)
BY StepFrame DEF HandOver, Send, Respond, GetRequest

LEMMA StepOwned ==
    ASSUME Typed, OpOK, CacheDistinct, DeletedNotCached, OwnedNotCached,
           PrivateTaken, NEW t \in Threads, Step(t)
    PROVE  OwnedNotCached'
<1>1. SUFFICES ASSUME NEW i \in owned'
               PROVE  /\ i \notin Cached'
                      /\ \A u \in Threads : Caching(u)' => i \notin Doomed(u)'
  BY DEF OwnedNotCached
<1>2. \A u \in Threads \ {t} : Doomed(u)' = Doomed(u) /\ Caching(u)' = Caching(u)
  BY StepFrame DEF Doomed, Caching
<1>3. i \in owned \/ (Private(t) /\ At(t, "keep") /\ i = th[t].idx)
  BY StepOwnedSet
<1>4. i \in Index
  BY <1>3, FieldTypes DEF Typed
<1>5. i \notin Cached
  BY <1>3, <1>4 DEF OwnedNotCached, PrivateTaken, Known, Listed, Named
<1>6. \A u \in Threads : Caching(u) => i \notin Doomed(u)
  BY <1>3, <1>4, DoomedHeld DEF OwnedNotCached, PrivateTaken, Known
<1>7. i \notin Cached'
  <2>1. ~(CachePush(t) /\ i = th[t].idx)
    BY <1>3, <1>4 DEF PrivateTaken, Known, Listed, Named, Private, At, CachePush
  <2> QED BY <1>5, <2>1, CachedGrows
<1>8. Caching(t)' => i \notin Doomed(t)'
  BY <1>4, <1>5, <1>6, StepDoomed
<1> QED BY <1>2, <1>6, <1>7, <1>8

LEMMA StepDeleted ==
    ASSUME Typed, OpOK, CacheDistinct, DeletedNotCached, PrivateTaken, NEW t \in Threads, Step(t)
    PROVE  DeletedNotCached'
<1>1. ASSUME NEW u \in Threads \ {t}, th[u].op = "delete", th[u].pc = "persistList"
      PROVE  th[u].cur \notin Cached'
  <2>1. Known(th[u].cur) /\ th[u].cur \in Index
    BY <1>1, FieldTypes DEF Known, Holds, Targeting
  <2>2. ~(CachePush(t) /\ th[u].cur = th[t].idx)
    BY <2>1 DEF PrivateTaken, Private, At, CachePush
  <2> QED BY <1>1, <2>2, CachedGrows DEF DeletedNotCached
<1>2. ASSUME th'[t].op = "delete", th'[t].pc = "persistList"
      PROVE  th'[t].cur \notin Cached'
  BY <1>2, StepDeletedOwn
<1> QED BY <1>1, <1>2, StepFrame DEF DeletedNotCached

LEMMA StepTemp ==
    ASSUME Typed, OpOK, CacheDistinct, TempNotCached, PrivateTaken, NEW t \in Threads, Step(t)
    PROVE  TempNotCached'
<1>1. SUFFICES ASSUME NEW i \in Index, <<i, "temp">> \in outgoing'
               PROVE  i \notin Cached'
  BY DEF TempNotCached
<1>2. <<i, "temp">> \in outgoing \/ (HandOver(t) /\ i = th[t].idx)
  BY <1>1, StepTempSet
<1>3. CASE <<i, "temp">> \in outgoing
  <2>1. Known(i)
    BY <1>3 DEF Known, Listed, Named, Payloads
  <2>2. ~(CachePush(t) /\ i = th[t].idx)
    BY <2>1 DEF PrivateTaken, Private, At, CachePush
  <2> QED BY <1>3, <2>2, CachedGrows DEF TempNotCached
<1>4. CASE HandOver(t) /\ i = th[t].idx
  <2>1. Private(t) /\ UNCHANGED cacheList
    BY <1>4 DEF HandOver, At, Private, cache
  <2>2. i \notin Cached
    BY <1>4, <2>1 DEF PrivateTaken, Known, Listed, Named
  <2> QED BY <2>1, <2>2 DEF Cached
<1> QED BY <1>2, <1>3, <1>4

-----------------------------------------------------------------------------
(* The send threads, and the theorems.                                     *)

Message(m) == SendFile(m) \/ SendFails(m) \/ SendQueueCleared(m)

\* A message that is sent or dropped leaves the threads and the list alone, and
\* only the files of a "temp" message go with it.
LEMMA MessageFrame ==
    ASSUME Typed, NEW m \in outgoing, Message(m)
    PROVE  /\ UNCHANGED <<nextIndex, entry, maps, cacheList, cacheBytes, cacheLock, owned, saved,
                       fileIDs, th>>
           /\ outgoing' \subseteq outgoing
           /\ m[1] \in Index /\ \E p \in Payloads : <<m[1], p>> \in outgoing
           /\ \A i \in Index : \/ metaOf'[i] = metaOf[i] /\ dataOf'[i] = dataOf[i]
                               \/ i = m[1] /\ m = <<i, "temp">>
<1>1. m = <<m[1], m[2]>> /\ m[1] \in Index /\ m[2] \in Payloads
  BY DEF Typed
<1>2. CASE SendFile(m)
  BY <1>1, <1>2 DEF SendFile, RemoveFiles, Typed, index, cache
<1>3. CASE SendFails(m)
  BY <1>1, <1>3 DEF SendFails, Crash, index, cache, disk, sending
<1>4. CASE SendQueueCleared(m)
  BY <1>1, <1>4 DEF SendQueueCleared, index, cache, disk
<1> QED BY <1>2, <1>3, <1>4 DEF Message

LEMMA MessageType ==
    ASSUME Typed, NEW m \in outgoing, Message(m)
    PROVE  Typed'
<1>1. m[1] \in Index
  BY DEF Typed
<1>2. metaOf' \in [Index -> Contents] /\ dataOf' \in [Index -> Contents]
  BY <1>1 DEF Message, SendFile, SendFails, SendQueueCleared, RemoveFiles, Crash, disk,
              Typed, Contents
<1>3. orphans' \subseteq Index
  BY <1>1 DEF Message, SendFile, SendFails, SendQueueCleared, Crash, sending, Typed
<1> QED BY <1>2, <1>3, MessageFrame DEF Typed, saved

LEMMA MessageInv ==
    ASSUME IndInv, NEW m \in outgoing, Message(m)
    PROVE  IndInv'
<1> USE DEF IndInv
<1>1. /\ UNCHANGED <<nextIndex, entry, cacheList, cacheBytes, cacheLock, owned, fileIDs, th>>
      /\ outgoing' \subseteq outgoing
      /\ m[1] \in Index /\ \E p \in Payloads : <<m[1], p>> \in outgoing
      /\ \A i \in Index : \/ metaOf'[i] = metaOf[i] /\ dataOf'[i] = dataOf[i]
                          \/ i = m[1] /\ m = <<i, "temp">>
  BY MessageFrame
<1>2. Typed' /\ cacheBytes' \in Nat /\ OpOK' /\ LockOK'
  BY <1>1, MessageType DEF OpOK, LockOK, Caching, At
<1>3. \A i \in Index : Known(i)' => Known(i)
  <2>1. \A i \in Index : Listed(i)' => Listed(i)
    BY <1>1 DEF Listed, Named, Cached
  <2>2. \A i \in Index, u \in Threads : Holds(u, i)' => Holds(u, i)
    BY <1>1 DEF Holds, Targeting, Publishing, Incoming
  <2> QED BY <2>1, <2>2 DEF Known
<1>4. \A u \in Threads : Private(u)' <=> Private(u)
  BY <1>1 DEF Private
<1>5. KnownTaken' /\ PrivateTaken' /\ PrivateApart'
  BY <1>1, <1>3, <1>4 DEF KnownTaken, PrivateTaken, PrivateApart
<1>6. ReceivedOnDisk'
  <2>1. Known(m[1])
    BY <1>1 DEF Known, Listed, Named
  <2>2. \A u \in Threads : Received(u) => Private(u) /\ th[u].idx \in Index
    BY FieldTypes DEF Received, Private
  <2>3. \A u \in Threads : Received(u) => /\ metaOf'[th[u].idx] = metaOf[th[u].idx]
                                          /\ dataOf'[th[u].idx] = dataOf[th[u].idx]
    BY <1>1, <2>1, <2>2 DEF PrivateTaken
  <2> QED BY <1>1, <2>3 DEF ReceivedOnDisk, Received
<1>7. DeletedNotCached' /\ TempNotCached' /\ CacheDistinct' /\ OwnedNotCached'
  BY <1>1 DEF DeletedNotCached, TempNotCached, CacheDistinct, OwnedNotCached, Cached,
              Doomed, Caching
<1>8. CachedOnDisk'
  <2>1. Cached \subseteq Index
    BY DEF Typed, Cached, ToSet
  <2>2. \A i \in Cached : metaOf'[i] = metaOf[i] /\ dataOf'[i] = dataOf[i]
    BY <1>1, <2>1 DEF TempNotCached
  <2>3. Cached' = Cached /\ \A u \in Threads : Doomed(u)' = Doomed(u)
    BY <1>1 DEF Cached, Doomed, Caching
  <2> QED BY <2>2, <2>3 DEF CachedOnDisk
<1> QED BY <1>2, <1>5, <1>6, <1>7, <1>8

\* What is subtracted from the counter is compared with it first.
LEMMA StepBytes ==
    ASSUME Typed, OpOK, cacheBytes \in Nat, NEW t \in Threads, Step(t)
    PROVE  cacheBytes' \in Nat
<1>0. At(t, "evict") => SizeOf[th[t].file] \in Nat
  BY FilesAssumption DEF OpOK, At, Caching, Incoming
<1>1. CASE Evict(t)
  <2>1. /\ th[t].pc = "evict" /\ cacheBytes >= SizeOf[th[t].file]
        /\ cacheBytes' = cacheBytes - SizeOf[th[t].file]
    BY <1>1, EvictEffect
  <2> QED BY <1>0, <2>1 DEF At
<1>2. CASE CachePush(t)
  BY <1>0, <1>2 DEF CachePush
<1>3. CASE Uncache(t)
  BY <1>3, FilesAssumption DEF Uncache, DiskSize
<1> QED BY <1>1, <1>2, <1>3, StepFrame

LEMMA StepInv ==
    ASSUME IndInv, NEW t \in Threads, Step(t)
    PROVE  IndInv'
<1>1. Typed' /\ cacheBytes' \in Nat
  BY StepType, StepBytes DEF IndInv
<1> QED BY <1>1, StepOp, StepLock, StepTaken, StepReceived, StepDeleted, StepTemp,
           StepDistinct, StepCachedOnDisk, StepOwned DEF IndInv

LEMMA InitInv == Init => IndInv
<1> SUFFICES ASSUME Init PROVE IndInv
  OBVIOUS
<1>1. Typed /\ cacheBytes \in Nat
  BY InitType
<1>2. Cached = {}
  BY DEF Init, Cached, ToSet
<1>3. \A t \in Threads : th[t] = Idle
  BY DEF Init
<1>4. OpOK /\ LockOK
  BY <1>3, ThreadAssumption DEF Init, OpOK, LockOK, At, Idle, Caching, Incoming
<1>5. \A i \in Index : ~Known(i)
  BY <1>2, <1>3 DEF Init, Known, Listed, Named, Holds, Targeting, Publishing, Idle, Incoming
<1>6. \A t \in Threads : ~Private(t) /\ ~Received(t)
  BY <1>3 DEF Private, Received, Idle
<1>7. KnownTaken /\ PrivateTaken /\ PrivateApart /\ ReceivedOnDisk
  BY <1>3, <1>5, <1>6 DEF KnownTaken, PrivateTaken, PrivateApart, ReceivedOnDisk
<1>8. DeletedNotCached /\ TempNotCached /\ CacheDistinct /\ CachedOnDisk /\ OwnedNotCached
  BY <1>2 DEF Init, DeletedNotCached, TempNotCached, CacheDistinct, CachedOnDisk, OwnedNotCached
<1> QED BY <1>1, <1>4, <1>7, <1>8 DEF IndInv

LEMMA StutterInv == IndInv /\ UNCHANGED vars => IndInv'
<1> SUFFICES ASSUME IndInv, UNCHANGED vars PROVE IndInv'
  OBVIOUS
<1> USE DEF vars, index, cache, disk, saved, sending
<1>1. Typed' /\ cacheBytes' \in Nat /\ OpOK' /\ LockOK'
  BY DEF IndInv, Typed, OpOK, LockOK, Caching, At
<1>2. \A i \in Index : Known(i)' <=> Known(i)
  <2>1. \A i \in Index : Listed(i)' <=> Listed(i)
    BY DEF Listed, Named, Cached
  <2>2. \A i \in Index, u \in Threads : Holds(u, i)' <=> Holds(u, i)
    BY DEF Holds, Targeting, Publishing, Incoming
  <2> QED BY <2>1, <2>2 DEF Known
<1>3. \A u \in Threads : (Private(u)' <=> Private(u)) /\ Doomed(u)' = Doomed(u)
  BY DEF Private, Doomed, Caching
<1>4. KnownTaken' /\ PrivateTaken' /\ PrivateApart' /\ ReceivedOnDisk'
  BY <1>2, <1>3 DEF IndInv, KnownTaken, PrivateTaken, PrivateApart, ReceivedOnDisk, Received
<1>5. DeletedNotCached' /\ TempNotCached' /\ CacheDistinct' /\ CachedOnDisk' /\ OwnedNotCached'
  BY <1>3 DEF IndInv, DeletedNotCached, TempNotCached, CacheDistinct, CachedOnDisk,
              OwnedNotCached, Cached, Caching
<1> QED BY <1>1, <1>4, <1>5 DEF IndInv

\* The inductive invariant holds in every reachable state of every node: its
\* steps are those of the threads, of the send queues, and stuttering.
THEOREM Invariance == Spec => []IndInv
<1>1. IndInv /\ [Next]_vars => IndInv'
  BY StepInv, MessageInv, StutterInv DEF Next, Message
<1> QED BY <1>1, InitInv, PTL DEF Spec

\* Every variable keeps its type; in particular no thread ever uses a number
\* that is not the index of a file, and the cache's counter is not negative.
THEOREM TypeCorrect == Spec => []TypeOK
<1>1. IndInv => TypeOK
  BY DEF IndInv, TypeOK
<1> QED BY <1>1, Invariance, PTL

\* However the threads interleave, a file in the LRU list is whole on the disk
\* and nobody is about to unlink it.
THEOREM CachedFilesSafe == Spec => []CachedOnDisk
<1>1. IndInv => CachedOnDisk
  BY DEF IndInv
<1> QED BY <1>1, Invariance, PTL

\* No index is twice in the LRU list.
THEOREM NoDuplicates == Spec => []CacheDistinct
<1>1. IndInv => CacheDistinct
  BY DEF IndInv
<1> QED BY <1>1, Invariance, PTL

\* The user's own files are never in the LRU list, nor victims of an eviction.
THEOREM OwnedFilesKept == Spec => []OwnedNotCached
<1>1. IndInv => OwnedNotCached
  BY DEF IndInv
<1> QED BY <1>1, Invariance, PTL

\* An index that a thread has taken and not published is in no map, list or
\* message, and no other thread has taken it.
THEOREM IndexExclusive == Spec => []IndexNotShared
<1>1. IndInv => IndexNotShared
  <2> SUFFICES ASSUME IndInv, NEW t \in Threads, Private(t)
               PROVE  /\ th[t].idx \notin Cached \cup fileIDs \cup {m[1] : m \in outgoing}
                      /\ entry[th[t].idx] = NoFile
                      /\ \A u \in Threads \ {t} : Private(u) => th[u].idx # th[t].idx
    BY DEF IndexNotShared
  <2>1. th[t].idx \in Index /\ ~Known(th[t].idx)
    BY FieldTypes DEF IndInv, PrivateTaken
  <2>2. \A m \in outgoing : m = <<m[1], m[2]>> /\ m[2] \in Payloads
    BY DEF IndInv, Typed
  <2>3. th[t].idx \notin {m[1] : m \in outgoing}
    BY <2>1, <2>2 DEF Known, Listed, Named
  <2> QED BY <2>1, <2>3 DEF Known, Listed, Named, IndInv, PrivateApart
<1> QED BY <1>1, Invariance, PTL

-----------------------------------------------------------------------------
(* The size that the program believes the cache has.                       *)

LEMMA CachingFile ==
    ASSUME IndInv, NEW t \in Threads, At(t, "evict")
    PROVE  th[t].file \in Files /\ SizeOf[th[t].file] \in Nat
BY FilesAssumption DEF IndInv, OpOK, Caching, Incoming, At

LEMMA CounterStep ==
    ASSUME IndInv, NEW t \in Threads, Step(t), CounterWithinCacheSize
    PROVE  CounterWithinCacheSize'
<1> USE BoundAssumption DEF CounterWithinCacheSize, IndInv, Typed
<1>1. CASE Evict(t)
  BY <1>1, EvictEffect, CachingFile DEF At, Moved
<1>2. CASE CachePush(t)
  BY <1>2, CachingFile DEF CachePush, NoRoom
<1>3. CASE Uncache(t)
  BY <1>3, FilesAssumption DEF Uncache, DiskSize
<1> QED BY <1>1, <1>2, <1>3, StepFrame

\* The counter never exceeds CacheSize, whatever the sizes of the files.
THEOREM CounterBounded == Spec => []CounterWithinCacheSize
<1>1. Init => CounterWithinCacheSize
  BY BoundAssumption DEF Init, CounterWithinCacheSize
<1>2. IndInv /\ CounterWithinCacheSize /\ [Next]_vars => CounterWithinCacheSize'
  <2> SUFFICES ASSUME IndInv, CounterWithinCacheSize, [Next]_vars
               PROVE  CounterWithinCacheSize'
    OBVIOUS
  <2>1. ASSUME NEW m \in outgoing, Message(m) PROVE CounterWithinCacheSize'
    BY <2>1, MessageFrame DEF IndInv, CounterWithinCacheSize
  <2>2. CASE UNCHANGED vars
    BY <2>2 DEF vars, cache, CounterWithinCacheSize
  <2> QED BY <2>1, <2>2, CounterStep DEF Next, Message
<1> QED BY <1>1, <1>2, Invariance, PTL DEF Spec

LEMMA ExactStep ==
    ASSUME IndInv, NEW t \in Threads, Step(t), NEW s \in Nat, \A f \in Files : SizeOf[f] = s,
           cacheBytes = s * Len(cacheList)
    PROVE  cacheBytes' = s * Len(cacheList')
<1>1. cacheList \in Seq(Index) /\ Len(cacheList) \in Nat /\ cacheBytes \in Nat
  BY DEF IndInv, Typed
<1>2. \A n \in Nat : s * (n + 1) = s * n + s /\ (n > 0 => s * (n - 1) = s * n - s)
  OBVIOUS
<1>3. CASE Evict(t)
  <2>1. cacheBytes' = cacheBytes - s
    BY <1>3, EvictEffect, CachingFile DEF IndInv, At, Moved
  <2>2. cacheList # <<>> /\ cacheList' = Tail(cacheList)
    BY <1>3, EvictEffect DEF IndInv
  <2>3. Len(cacheList) > 0 /\ Len(cacheList') = Len(cacheList) - 1
    BY <1>1, <2>2
  <2> QED BY <1>1, <1>2, <2>1, <2>3
<1>4. CASE CachePush(t)
  <2>1. cacheBytes' = cacheBytes + s /\ cacheList' = Append(cacheList, th[t].idx)
    BY <1>4, CachingFile DEF CachePush
  <2>2. Len(cacheList') = Len(cacheList) + 1
    BY <1>1, <2>1
  <2> QED BY <1>1, <1>2, <2>1, <2>2
<1>5. CASE Uncache(t)
  <2>1. /\ th[t].cur \in Cached
        /\ cacheBytes' = cacheBytes - DiskSize(th[t].cur)
        /\ cacheList' = Without(cacheList, th[t].cur)
    BY <1>5 DEF Uncache
  <2>2. DiskSize(th[t].cur) = s
    BY <2>1 DEF IndInv, CachedOnDisk, DiskSize
  <2>3. Len(cacheList') = Len(cacheList) - 1
    BY <1>1, <2>1, WithoutType DEF Cached
  <2>4. Len(cacheList) > 0
    BY <1>1, <2>1 DEF Cached, ToSet
  <2> QED BY <1>1, <1>2, <2>1, <2>2, <2>3, <2>4
<1>6. CASE Touch(t)
  <2>1. PICK i \in Cached : cacheList' = Append(Without(cacheList, i), i)
    BY <1>6, TouchEffect DEF IndInv
  <2>2. i \in ToSet(cacheList) /\ i \in Index /\ Len(cacheList) > 0
    BY <1>1, <2>1 DEF Cached, ToSet
  <2> DEFINE rest == Without(cacheList, i)
  <2>3. rest \in Seq(Index) /\ Len(rest) = Len(cacheList) - 1
    BY <1>1, <2>2, WithoutType
  <2>4. cacheList' = Append(rest, i)
    BY <2>1
  <2> HIDE DEF rest
  <2>5. Len(cacheList') = Len(cacheList)
    BY <1>1, <2>2, <2>3, <2>4
  <2>6. UNCHANGED cacheBytes
    BY <1>6, TouchEffect DEF IndInv
  <2> QED BY <2>5, <2>6
<1> QED BY <1>3, <1>4, <1>5, <1>6, StepFrame DEF IndInv

\* When all files have one size the counter is exactly the size of the cache: the
\* accounting of doCacheFile goes wrong only between files of different sizes.
THEOREM UniformAccounting == Spec => []ExactForOneSize
<1>1. Init => ExactForOneSize
  BY FilesAssumption DEF Init, ExactForOneSize
<1>2. IndInv /\ ExactForOneSize /\ [Next]_vars => ExactForOneSize'
  <2> SUFFICES ASSUME IndInv, ExactForOneSize, [Next]_vars,
                      NEW s \in {SizeOf[f] : f \in Files}, \A f \in Files : SizeOf[f] = s
               PROVE  cacheBytes' = s * Len(cacheList')
    BY DEF ExactForOneSize
  <2>1. s \in Nat /\ cacheBytes = s * Len(cacheList)
    BY FilesAssumption DEF ExactForOneSize
  <2>2. ASSUME NEW m \in outgoing, Message(m) PROVE cacheBytes' = s * Len(cacheList')
    BY <2>1, <2>2, MessageFrame DEF IndInv
  <2>3. CASE UNCHANGED vars
    BY <2>1, <2>3 DEF vars, cache
  <2> QED BY <2>1, <2>2, <2>3, ExactStep DEF Next, Message
<1> QED BY <1>1, <1>2, Invariance, PTL DEF Spec

-----------------------------------------------------------------------------
(* The refinement of module Cache.                                         *)

\* The files have but one size, as ImplementsCache supposes.
OneFileSize == Files # {} /\ \E s \in Nat \ {0} : \A f \in Files : SizeOf[f] = s

LEMMA UniformSize ==
    ASSUME OneFileSize
    PROVE  FileSize \in Nat \ {0} /\ \A f \in Files : SizeOf[f] = FileSize
<1>1. PICK s \in Nat \ {0} : \A f \in Files : SizeOf[f] = s
  BY DEF OneFileSize
<1>2. {SizeOf[f] : f \in Files} = {s}
  BY <1>1 DEF OneFileSize
<1> QED BY <1>1, <1>2 DEF FileSize

\* A list of files of size s is full when one more has no room.
LEMMA FullWhenNoRoom ==
    ASSUME NEW s \in Nat \ {0}, NEW n \in Nat, s * n <= CacheBytes
    PROVE  /\ s + s * n > CacheBytes => n = CacheBytes \div s
           /\ s + s * n <= CacheBytes => n < CacheBytes \div s
<1> DEFINE q == CacheBytes \div s
           r == CacheBytes % s
<1>1. CacheBytes \in Nat
  BY BoundAssumption
<1>2. q \in Nat /\ r \in 0 .. s - 1 /\ CacheBytes = s * q + r
  BY <1>1
<1> HIDE DEF q, r
<1>3. ASSUME NEW k \in Nat, s * (k + 1) > CacheBytes, s * k <= CacheBytes PROVE k = q
  <2>1. CASE k < q
    <3>1. PICK d \in Nat : q = k + 1 + d
      BY <1>2, <2>1
    <3>2. s * q = s * (k + 1) + s * d
      BY <3>1
    <3> QED BY <1>1, <1>2, <1>3, <3>2
  <2>2. CASE k > q
    <3>1. PICK d \in Nat : k = q + 1 + d
      BY <1>2, <2>2
    <3>2. s * k = s * q + s + s * d
      BY <1>2, <3>1
    <3> QED BY <1>1, <1>2, <1>3, <3>2
  <2> QED BY <1>2, <2>1, <2>2
<1>4. s * (n + 1) = s + s * n
  OBVIOUS
<1>5. s + s * n > CacheBytes => n = q
  BY <1>1, <1>3, <1>4
<1>6. ASSUME s + s * n <= CacheBytes PROVE n < q
  <2>1. SUFFICES ASSUME n >= q PROVE FALSE
    BY <1>2
  <2>2. PICK d \in Nat : n = q + d
    BY <1>2, <2>1
  <2>3. s * n = s * q + s * d
    BY <1>2, <2>2
  <2> QED BY <1>1, <1>2, <1>6, <2>3
<1> QED BY <1>5, <1>6 DEF q


\* The bytes of a cached file do not change while it is cached.
LEMMA CachedKept ==
    ASSUME IndInv, NEW t \in Threads, Step(t), NEW i \in Cached
    PROVE  i \in Index /\ dataOf'[i] = dataOf[i]
<1>1. i \in Index
  BY DEF IndInv, Typed, Cached, ToSet
<1>2. ~(Private(t) /\ i = th[t].idx)
  BY <1>1 DEF IndInv, PrivateTaken, Known, Listed, Named
<1>3. ~(At(t, "unlink") /\ i = th[t].cur)
  BY DEF IndInv, CachedOnDisk, Doomed, At, OpOK
<1> QED BY <1>1, <1>2, <1>3, DiskSteps DEF IndInv

LEMMA SameList ==
    ASSUME NEW list, NEW i
    PROVE  LRU!Members(list) = ToSet(list) /\ LRU!Dropped(list, i) = Without(list, i)
BY DEF LRU!Members, LRU!Dropped, Without, ToSet

\* What the actions of Cache are, in terms of FileSystem.
LEMMA RetainFacts ==
    ASSUME IndInv, NEW t \in Threads, Step(t), Cached' \subseteq Cached
    PROVE  LRU!Retain
<1>1. LRU!Members(cacheList') = Cached'
  BY SameList DEF Cached
<1>2. CachedData' = [i \in Cached' |-> CachedData[i]]
  BY CachedKept DEF CachedData
<1> QED BY <1>1, <1>2 DEF LRU!Retain

LEMMA BeginStep ==
    ASSUME IndInv, NEW t \in Threads, CacheStart(t)
    PROVE  LRU!Begin
<1>1. cacheLock = NoThread /\ cacheLock' # NoThread
  BY ThreadAssumption DEF CacheStart
<1>2. UNCHANGED <<cacheList, dataOf>>
  BY DEF CacheStart, disk
<1> QED BY <1>1, <1>2 DEF LRU!Begin, CachedData, Cached

LEMMA EvictStep ==
    ASSUME OneFileSize, IndInv, CounterWithinCacheSize, ExactForOneSize,
           NEW t \in Threads, Evict(t)
    PROVE  LRU!Evict
<1>1. cacheLock # NoThread /\ cacheLock' = cacheLock
  <2>1. At(t, "evict") /\ cacheLock' = cacheLock
    BY Zenon DEF Evict
  <2> QED BY <2>1, ThreadAssumption DEF IndInv, LockOK
<1>2. cacheList # <<>> /\ cacheList' = Tail(cacheList) /\ Len(cacheList) \in Nat
  <2>1. cacheList # <<>> /\ cacheList' = Tail(cacheList)
    BY Zenon DEF Evict
  <2>2. cacheList \in Seq(Index)
    BY DEF IndInv, Typed
  <2> QED BY <2>1, <2>2
<1>3. Len(cacheList) = CacheBytes \div FileSize
  <2>1. th[t].file \in Files
    BY EvictEffect, CachingFile DEF IndInv, At
  <2>2. SizeOf[th[t].file] = FileSize /\ cacheBytes = FileSize * Len(cacheList)
    BY <2>1, UniformSize DEF ExactForOneSize
  <2>3. FileSize + FileSize * Len(cacheList) > CacheBytes
        /\ FileSize * Len(cacheList) <= CacheBytes
    BY <2>2 DEF Evict, NoRoom, CounterWithinCacheSize
  <2> QED BY <1>2, <2>3, UniformSize, FullWhenNoRoom
<1>4. LRU!Retain
  BY EvictCached, RetainFacts DEF IndInv, Step
<1> QED BY <1>1, <1>2, <1>3, <1>4 DEF LRU!Evict

LEMMA AdmitStep ==
    ASSUME OneFileSize, IndInv, CounterWithinCacheSize, ExactForOneSize,
           NEW t \in Threads, CachePush(t)
    PROVE  \E i \in Index, f \in Files : LRU!Admit(i, f)
<1>1. At(t, "evict") /\ cacheLock # NoThread /\ cacheLock' = NoThread
  BY ThreadAssumption DEF IndInv, LockOK, CachePush
<1>2. /\ th[t].idx \in Index /\ th[t].file \in Files /\ th[t].idx \notin Cached
      /\ dataOf[th[t].idx] = th[t].file
  <2>1. th[t].idx \in Index /\ th[t].file \in Files
    BY <1>1, FieldTypes, CachingFile DEF IndInv
  <2>2. th[t].idx \notin Cached
    BY <1>1, <2>1 DEF IndInv, At, Private, PrivateTaken, Known, Listed, Named
  <2>3. dataOf[th[t].idx] = th[t].file
    BY <1>1 DEF IndInv, OpOK, Caching, Incoming, ReceivedOnDisk, Received, At
  <2> QED BY <2>1, <2>2, <2>3
<1>3. /\ cacheList' = Append(cacheList, th[t].idx) /\ Cached' = Cached \cup {th[t].idx}
      /\ UNCHANGED dataOf
  BY CachePushCached DEF CachePush, disk, IndInv
<1>4. Len(cacheList) < CacheBytes \div FileSize
  <2>1. SizeOf[th[t].file] = FileSize /\ cacheBytes = FileSize * Len(cacheList)
    BY <1>2, UniformSize DEF ExactForOneSize
  <2>2. Len(cacheList) \in Nat
    BY DEF IndInv, Typed
  <2>3. FileSize + FileSize * Len(cacheList) <= CacheBytes
        /\ FileSize * Len(cacheList) <= CacheBytes
    BY <2>1, <2>2, UniformSize, BoundAssumption
    DEF CachePush, NoRoom, CounterWithinCacheSize
  <2> QED BY <2>2, <2>3, UniformSize, FullWhenNoRoom
<1>5. CachedData' = [j \in Cached' |-> IF j = th[t].idx THEN th[t].file ELSE CachedData[j]]
  BY <1>2, <1>3 DEF CachedData
<1>6. LRU!Members(cacheList) = Cached /\ LRU!Members(cacheList') = Cached'
  BY SameList DEF Cached
<1>7. LRU!Admit(th[t].idx, th[t].file)
  BY <1>1, <1>2, <1>3, <1>4, <1>5, <1>6 DEF LRU!Admit
<1> QED BY <1>2, <1>7

LEMMA UseStep ==
    ASSUME IndInv, NEW t \in Threads, Touch(t)
    PROVE  \E i \in LRU!Members(cacheList) : LRU!Use(i)
<1>1. PICK i \in Cached : cacheList' = Append(Without(cacheList, i), i)
  BY TouchEffect DEF IndInv
<1>2. cacheLock = NoThread /\ cacheLock' = NoThread
  BY TouchEffect DEF IndInv
<1>3. LRU!Retain
  BY TouchCached, RetainFacts DEF IndInv, Step
<1>4. i \in LRU!Members(cacheList) /\ LRU!Dropped(cacheList, i) = Without(cacheList, i)
  BY <1>1, SameList DEF Cached
<1> QED BY <1>1, <1>2, <1>3, <1>4 DEF LRU!Use

LEMMA WithdrawStep ==
    ASSUME IndInv, NEW t \in Threads, Uncache(t)
    PROVE  \E i \in LRU!Members(cacheList) : LRU!Withdraw(i)
<1>1. /\ th[t].cur \in Cached /\ cacheList' = Without(cacheList, th[t].cur)
      /\ cacheLock = NoThread /\ cacheLock' = NoThread
  BY DEF Uncache
<1>2. LRU!Retain
  BY UncacheCached, RetainFacts DEF IndInv, Step
<1>3. /\ th[t].cur \in LRU!Members(cacheList)
      /\ LRU!Dropped(cacheList, th[t].cur) = Without(cacheList, th[t].cur)
  BY <1>1, SameList DEF Cached
<1> QED BY <1>1, <1>2, <1>3 DEF LRU!Withdraw

\* Every step of a thread is a step of the cache, or the cache does not see it.
LEMMA CacheStep ==
    ASSUME OneFileSize, IndInv, CounterWithinCacheSize, ExactForOneSize,
           NEW t \in Threads, Step(t)
    PROVE  [LRU!Next]_(LRU!cacheVars)
<1>1. CASE CacheStart(t)
  BY <1>1, BeginStep DEF LRU!Next
<1>2. CASE Evict(t)
  BY <1>2, EvictStep DEF LRU!Next
<1>3. CASE CachePush(t)
  BY <1>3, AdmitStep DEF LRU!Next
<1>4. CASE Touch(t)
  BY <1>4, UseStep DEF LRU!Next
<1>5. CASE Uncache(t)
  BY <1>5, WithdrawStep DEF LRU!Next
<1>6. CASE UNCHANGED <<cacheList, cacheLock>>
  <2>1. Cached' = Cached
    BY <1>6 DEF Cached
  <2>2. CachedData' = CachedData
    BY <2>1, CachedKept DEF CachedData
  <2> QED BY <1>6, <2>2 DEF LRU!cacheVars
<1> QED BY <1>1, <1>2, <1>3, <1>4, <1>5, <1>6, StepFrame DEF IndInv

LEMMA CacheMessage ==
    ASSUME IndInv, NEW m \in outgoing, Message(m)
    PROVE  UNCHANGED LRU!cacheVars
<1>1. UNCHANGED <<cacheList, cacheLock>>
  BY MessageFrame DEF IndInv
<1>2. \A i \in Cached : dataOf'[i] = dataOf[i]
  BY MessageFrame DEF IndInv, Typed, Cached, ToSet, TempNotCached
<1>3. Cached' = Cached
  BY <1>1 DEF Cached
<1>4. CachedData' = CachedData
  BY <1>2, <1>3 DEF CachedData
<1> QED BY <1>1, <1>4 DEF LRU!cacheVars

LEMMA CacheInit == Init => LRU!Init
<1> SUFFICES ASSUME Init PROVE LRU!Init
  OBVIOUS
<1>1. cacheList = <<>> /\ cacheLock = NoThread
  BY DEF Init
<1>2. Cached = {}
  BY <1>1, EmptyFacts DEF Cached
<1>3. CachedData = [i \in {} |-> 0]
  BY <1>2 DEF CachedData
<1> QED BY <1>1, <1>3 DEF LRU!Init

\* When the files have one size, the node's cache is an LRU cache of the capacity that
\* CacheSize gives: whatever receive threads, keyboard and send queues do, in whatever
\* order, the list, its lock and the disk together take the steps of module Cache.
THEOREM CacheIsLRU == OneFileSize => (Spec => ImplementsCache)
<1> SUFFICES ASSUME OneFileSize PROVE Spec => ImplementsCache
  OBVIOUS
<1>1. Init => LRU!Init
  BY CacheInit
<1>2. /\ IndInv /\ CounterWithinCacheSize /\ ExactForOneSize
      /\ [Next]_vars
      => [LRU!Next]_(LRU!cacheVars)
  <2> SUFFICES ASSUME IndInv, CounterWithinCacheSize, ExactForOneSize, [Next]_vars
               PROVE  [LRU!Next]_(LRU!cacheVars)
    OBVIOUS
  <2>1. ASSUME NEW t \in Threads, Step(t) PROVE [LRU!Next]_(LRU!cacheVars)
    BY <2>1, CacheStep
  <2>2. ASSUME NEW m \in outgoing, Message(m) PROVE [LRU!Next]_(LRU!cacheVars)
    BY <2>2, CacheMessage
  <2>3. CASE UNCHANGED vars
    BY <2>3 DEF vars, cache, disk, LRU!cacheVars, CachedData, Cached
  <2> QED BY <2>1, <2>2, <2>3 DEF Next, Message
<1> QED BY <1>1, <1>2, Invariance, CounterBounded, UniformAccounting, PTL
        DEF Spec, ImplementsCache, LRU!Spec

-----------------------------------------------------------------------------
(* What is written to the files of the file system.                        *)

\* Only Persist and PersistList write them, and a thread that is to write does not
\* stop before it has written.
LEMMA SavedCourse ==
    ASSUME Typed, OpOK, NEW t \in Threads, Step(t)
    PROVE  /\ \/ UNCHANGED savedEntry /\ UNCHANGED savedMaps
              \/ savedEntry' = entry' /\ savedMaps' = maps'
           /\ UNCHANGED savedList \/ savedList' = cacheList'
           /\ \/ PersistPending(t) => PersistPending(t)'
              \/ savedEntry' = entry' /\ savedMaps' = maps'
           /\ ListPending(t) => ListPending(t)' \/ savedList' = cacheList'
<1> USE DEF OpOK, PersistPending, ListPending, Caching, index, cache, disk, saved, sending
<1>1. CASE RecvNew(t)
  BY <1>1, RecvNewEffect DEF Moved
<1>2. CASE RecvPayload(t)
  BY <1>2, LabelNames, GotoEffect DEF RecvPayload, Moved, At
<1>3. CASE RecvCut(t)
  BY <1>3, FinishEffect DEF RecvCut, Moved, At
<1>4. CASE RecvRejected(t)
  BY <1>4, FinishEffect DEF RecvRejected, Moved, At
<1>5. CASE Lookup(t)
  BY <1>5, LookupEffect DEF Moved, Find
<1>6. CASE Nonce(t)
  BY <1>6, NonceEffect DEF Moved
<1>7. CASE NonceDone(t)
  BY <1>7, LabelNames, GotoEffect DEF NonceDone, Moved, At
<1>8. CASE Drop(t)
  BY <1>8, FinishEffect DEF Drop, Moved, At
<1>9. CASE HandOver(t)
  BY <1>9, FinishEffect DEF HandOver, Moved, At
<1>10. CASE KeepGot(t)
  BY <1>10, LabelNames, GotoEffect DEF KeepGot, Moved, At
<1>11. CASE CacheStart(t)
  BY <1>11, LabelNames, GotoEffect DEF CacheStart, Moved, At
<1>12. CASE Evict(t)
  BY <1>12, EvictEffect DEF Moved
<1>13. CASE EvictFails(t)
  BY <1>13 DEF EvictFails, Crash, At
<1>14. CASE CachePush(t)
  BY <1>14, LabelNames, GotoEffect DEF CachePush, Moved, At
<1>15. CASE VictimUnindex(t)
  BY <1>15, VictimUnindexEffect DEF Moved
<1>16. CASE Probe(t)
  BY <1>16, LabelNames, GotoEffect DEF Probe, Moved, Crash, At
<1>17. CASE Unlink(t)
  BY <1>17, LabelNames, GotoEffect, FinishEffect DEF Unlink, Moved, At
<1>18. CASE Create(t)
  BY <1>18, LabelNames, GotoEffect DEF Create, Moved, Crash, At
<1>19. CASE Insert(t)
  BY <1>19, LabelNames, GotoEffect DEF Insert, EnterMaps, Moved, At
<1>20. CASE Persist(t)
  BY <1>20, LabelNames, GotoEffect, FinishEffect DEF Persist, Moved, At
<1>21. CASE PersistList(t)
  BY <1>21, LabelNames, GotoEffect, FinishEffect DEF PersistList, Moved, At
<1>22. CASE Send(t)
  BY <1>22, FinishEffect DEF Send, Moved, At
<1>23. CASE KeepStart(t)
  BY <1>23, KeepStartEffect DEF Moved
<1>24. CASE KeepMissing(t)
  BY <1>24 DEF KeepMissing, Crash
<1>25. CASE KeepCopy(t)
  BY <1>25, LabelNames, GotoEffect DEF KeepCopy, Moved, At
<1>26. CASE Keep(t)
  BY <1>26, LabelNames, GotoEffect DEF Keep, EnterMaps, Moved, At
<1>27. CASE KeepFails(t)
  BY <1>27, KeepFailsEffect DEF Moved
<1>28. CASE DeleteStart(t)
  BY <1>28, DeleteStartEffect DEF Moved, Find
<1>29. CASE DeleteBySHA1(t)
  BY <1>29, DeleteBySHA1Effect DEF Moved, Find
<1>30. CASE DeleteRefused(t)
  BY <1>30, FinishEffect DEF DeleteRefused, Moved, At
<1>31. CASE DeleteChosen(t)
  BY <1>31, DeleteChosenEffect DEF Moved
<1>32. CASE DeleteFails(t)
  BY <1>32 DEF DeleteFails, Crash
<1>33. CASE DeleteUnindex(t)
  BY <1>33, LabelNames, GotoEffect DEF DeleteUnindex, LeaveMaps, Moved, At
<1>34. CASE Uncache(t)
  BY <1>34, LabelNames, GotoEffect DEF Uncache, Moved, At
<1>35. CASE UncacheNotNeeded(t)
  BY <1>35, LabelNames, GotoEffect, FinishEffect DEF UncacheNotNeeded, Moved, At
<1>36. CASE UncacheFails(t)
  BY <1>36 DEF UncacheFails, Crash
<1>37. CASE SearchStart(t)
  BY <1>37, SearchStartEffect DEF Moved, Find
<1>38. CASE SearchHits(t)
  BY <1>38, SearchHitsEffect DEF Moved
<1>39. CASE Touch(t)
  BY <1>39, TouchEffect DEF Moved
<1>40. CASE TouchFails(t)
  BY <1>40 DEF TouchFails, Crash
<1>41. CASE TouchDone(t)
  BY <1>41, LabelNames, GotoEffect DEF TouchDone, Moved, At
<1>42. CASE Respond(t)
  BY <1>42, FinishEffect DEF Respond, Moved, At
<1>43. CASE RespondFails(t)
  BY <1>43 DEF RespondFails, Crash
<1>44. CASE GetRequest(t)
  BY <1>44 DEF GetRequest, At
<1>45. CASE GetLocal(t)
  BY <1>45, GetLocalEffect DEF Moved
<1> QED
  BY <1>1, <1>2, <1>3, <1>4, <1>5, <1>6, <1>7, <1>8, <1>9, <1>10, <1>11, <1>12, <1>13, <1>14,
     <1>15, <1>16, <1>17, <1>18, <1>19, <1>20, <1>21, <1>22, <1>23, <1>24, <1>25, <1>26,
     <1>27, <1>28, <1>29, <1>30, <1>31, <1>32, <1>33, <1>34, <1>35, <1>36, <1>37, <1>38,
     <1>39, <1>40, <1>41, <1>42, <1>43, <1>44, <1>45 DEF Step

\* A thread that changes the maps, or the set of cached files, is to write them.
LEMMA ChangesPend ==
    ASSUME Typed, OpOK, NEW t \in Threads, Step(t)
    PROVE  /\ (UNCHANGED entry /\ UNCHANGED maps) \/ PersistPending(t)'
           /\ Cached' = Cached \/ ListPending(t)'
<1> USE DEF OpOK, PersistPending, ListPending, Caching
<1>1. (UNCHANGED entry /\ UNCHANGED maps) \/ PersistPending(t)'
  <2>1. CASE VictimUnindex(t)
    BY <2>1, VictimUnindexEffect DEF Moved
  <2>2. CASE Insert(t)
    BY <2>2, LabelNames, GotoEffect DEF Insert, EnterMaps, Moved
  <2>3. CASE Keep(t)
    BY <2>3, LabelNames, GotoEffect DEF Keep, EnterMaps, Moved
  <2>4. CASE DeleteUnindex(t)
    BY <2>4, LabelNames, GotoEffect DEF DeleteUnindex, LeaveMaps, Moved
  <2> QED BY <2>1, <2>2, <2>3, <2>4, StepFrame
<1>2. Cached' = Cached \/ ListPending(t)'
  <2>1. CASE Evict(t)
    BY <2>1, EvictEffect DEF Moved
  <2>2. CASE CachePush(t)
    BY <2>2, LabelNames, GotoEffect DEF CachePush, Moved, At
  <2>3. CASE Uncache(t)
    BY <2>3, LabelNames, GotoEffect DEF Uncache, Moved
  <2>4. CASE Touch(t)
    BY <2>4, TouchCached
  <2>5. CASE UNCHANGED cacheList
    BY <2>5 DEF Cached
  <2> QED BY <2>1, <2>2, <2>3, <2>4, <2>5, StepFrame
<1> QED BY <1>1, <1>2

LEMMA SavedStep ==
    ASSUME Typed, OpOK, SavedOrPending, NEW t \in Threads, Step(t)
    PROVE  SavedOrPending'
<1>1. ASSUME NEW u \in Threads \ {t}
      PROVE  /\ PersistPending(u)' <=> PersistPending(u)
             /\ ListPending(u)' <=> ListPending(u)
  BY StepFrame DEF PersistPending, ListPending, Caching
<1>2. savedEntry' # entry' \/ savedMaps' # maps' => \E u \in Threads : PersistPending(u)'
  BY <1>1, SavedCourse, ChangesPend DEF SavedOrPending
<1>3. ToSet(savedList') # Cached' => \E u \in Threads : ListPending(u)'
  <2>1. savedList' = cacheList' => ToSet(savedList') = Cached'
    BY DEF Cached
  <2> QED BY <1>1, <2>1, SavedCourse, ChangesPend DEF SavedOrPending
<1> QED BY <1>2, <1>3 DEF SavedOrPending

\* Whatever the order in which threads write, once all operations are over the files
\* of the file system say what the maps and the LRU list say.
THEOREM SavedAtRest == Spec => []SavedWhenQuiet
<1>1. Init => SavedOrPending
  BY EmptyFacts DEF Init, SavedOrPending, Cached
<1>2. IndInv /\ SavedOrPending /\ [Next]_vars => SavedOrPending'
  <2> SUFFICES ASSUME IndInv, SavedOrPending, [Next]_vars PROVE SavedOrPending'
    OBVIOUS
  <2>1. ASSUME NEW m \in outgoing, Message(m) PROVE SavedOrPending'
    <3>1. UNCHANGED <<entry, maps, cacheList, saved, th>>
      BY <2>1, MessageFrame DEF IndInv
    <3> QED BY <3>1 DEF SavedOrPending, PersistPending, ListPending, Caching, Cached, saved
  <2>2. CASE UNCHANGED vars
    BY <2>2 DEF vars, index, cache, saved, SavedOrPending, PersistPending, ListPending, Caching,
                Cached
  <2> QED BY <2>1, <2>2, SavedStep DEF Next, Message, IndInv
<1>3. SavedOrPending => SavedWhenQuiet
  BY DEF SavedOrPending, SavedWhenQuiet, Quiet, PersistPending, ListPending
<1> QED BY <1>1, <1>2, <1>3, Invariance, PTL DEF Spec

-----------------------------------------------------------------------------
(* No file is lost on the disk.                                            *)

\* What is lost for good stays so, threads only add messages, and an index that a
\* thread is about to write to for the first time is one that it has just taken.
LEMMA LostGrows ==
    ASSUME Typed, OpOK, NEW t \in Threads, Step(t)
    PROVE  /\ orphans \subseteq orphans' /\ outgoing \subseteq outgoing'
           /\ th'[t].pc \in {"recv", "copy"} => RecvNew(t) \/ KeepStart(t)
<1> USE DEF OpOK, Caching, Incoming, index, cache, disk, saved, sending
<1>1. CASE RecvNew(t)
  BY <1>1, RecvNewEffect DEF Moved
<1>2. CASE RecvPayload(t)
  BY <1>2, LabelNames, GotoEffect DEF RecvPayload, Moved, At
<1>3. CASE RecvCut(t)
  BY <1>3, FinishEffect DEF RecvCut, Moved, At
<1>4. CASE RecvRejected(t)
  BY <1>4, FinishEffect DEF RecvRejected, Moved, At
<1>5. CASE Lookup(t)
  BY <1>5, LookupEffect DEF Moved, Find
<1>6. CASE Nonce(t)
  BY <1>6, NonceEffect DEF Moved
<1>7. CASE NonceDone(t)
  BY <1>7, LabelNames, GotoEffect DEF NonceDone, Moved, At
<1>8. CASE Drop(t)
  BY <1>8, FinishEffect DEF Drop, Moved, At
<1>9. CASE HandOver(t)
  BY <1>9, FinishEffect DEF HandOver, Moved, At
<1>10. CASE KeepGot(t)
  BY <1>10, LabelNames, GotoEffect DEF KeepGot, Moved, At
<1>11. CASE CacheStart(t)
  BY <1>11, LabelNames, GotoEffect DEF CacheStart, Moved, At
<1>12. CASE Evict(t)
  BY <1>12, EvictEffect DEF Moved
<1>13. CASE EvictFails(t)
  BY <1>13 DEF EvictFails, Crash, At
<1>14. CASE CachePush(t)
  BY <1>14, LabelNames, GotoEffect DEF CachePush, Moved, At
<1>15. CASE VictimUnindex(t)
  BY <1>15, VictimUnindexEffect DEF Moved
<1>16. CASE Probe(t)
  BY <1>16, LabelNames, GotoEffect DEF Probe, Moved, Crash, At
<1>17. CASE Unlink(t)
  BY <1>17, LabelNames, GotoEffect, FinishEffect DEF Unlink, Moved, At
<1>18. CASE Create(t)
  BY <1>18, LabelNames, GotoEffect DEF Create, Moved, Crash, At
<1>19. CASE Insert(t)
  BY <1>19, LabelNames, GotoEffect DEF Insert, EnterMaps, Moved, At
<1>20. CASE Persist(t)
  BY <1>20, LabelNames, GotoEffect, FinishEffect DEF Persist, Moved, At
<1>21. CASE PersistList(t)
  BY <1>21, LabelNames, GotoEffect, FinishEffect DEF PersistList, Moved, At
<1>22. CASE Send(t)
  BY <1>22, FinishEffect DEF Send, Moved, At
<1>23. CASE KeepStart(t)
  BY <1>23, KeepStartEffect DEF Moved
<1>24. CASE KeepMissing(t)
  BY <1>24 DEF KeepMissing, Crash, At
<1>25. CASE KeepCopy(t)
  BY <1>25, LabelNames, GotoEffect DEF KeepCopy, Moved, At
<1>26. CASE Keep(t)
  BY <1>26, LabelNames, GotoEffect DEF Keep, EnterMaps, Moved, At
<1>27. CASE KeepFails(t)
  BY <1>27, KeepFailsEffect DEF Moved
<1>28. CASE DeleteStart(t)
  BY <1>28, DeleteStartEffect DEF Moved, Find
<1>29. CASE DeleteBySHA1(t)
  BY <1>29, DeleteBySHA1Effect DEF Moved, Find
<1>30. CASE DeleteRefused(t)
  BY <1>30, FinishEffect DEF DeleteRefused, Moved, At
<1>31. CASE DeleteChosen(t)
  BY <1>31, DeleteChosenEffect DEF Moved
<1>32. CASE DeleteFails(t)
  BY <1>32 DEF DeleteFails, Crash
<1>33. CASE DeleteUnindex(t)
  BY <1>33, LabelNames, GotoEffect DEF DeleteUnindex, LeaveMaps, Moved, At
<1>34. CASE Uncache(t)
  BY <1>34, LabelNames, GotoEffect DEF Uncache, Moved, At
<1>35. CASE UncacheNotNeeded(t)
  BY <1>35, LabelNames, GotoEffect, FinishEffect DEF UncacheNotNeeded, Moved, At
<1>36. CASE UncacheFails(t)
  BY <1>36 DEF UncacheFails, Crash, At
<1>37. CASE SearchStart(t)
  BY <1>37, SearchStartEffect DEF Moved, Find
<1>38. CASE SearchHits(t)
  BY <1>38, SearchHitsEffect DEF Moved
<1>39. CASE Touch(t)
  BY <1>39, TouchEffect DEF Moved
<1>40. CASE TouchFails(t)
  BY <1>40 DEF TouchFails, Crash, At
<1>41. CASE TouchDone(t)
  BY <1>41, LabelNames, GotoEffect DEF TouchDone, Moved, At
<1>42. CASE Respond(t)
  BY <1>42, FinishEffect DEF Respond, Moved, At
<1>43. CASE RespondFails(t)
  BY <1>43 DEF RespondFails, Crash, At
<1>44. CASE GetRequest(t)
  BY <1>44 DEF GetRequest, At
<1>45. CASE GetLocal(t)
  BY <1>45, GetLocalEffect DEF Moved
<1> QED
  BY <1>1, <1>2, <1>3, <1>4, <1>5, <1>6, <1>7, <1>8, <1>9, <1>10, <1>11, <1>12, <1>13, <1>14,
     <1>15, <1>16, <1>17, <1>18, <1>19, <1>20, <1>21, <1>22, <1>23, <1>24, <1>25, <1>26,
     <1>27, <1>28, <1>29, <1>30, <1>31, <1>32, <1>33, <1>34, <1>35, <1>36, <1>37, <1>38,
     <1>39, <1>40, <1>41, <1>42, <1>43, <1>44, <1>45 DEF Step

\* A thread that has an unlisted file in hand lists it, unlinks it, hands it over,
\* leaves it for lost, or keeps it in hand.
LEMMA TrackCourse ==
    ASSUME Typed, OpOK, NEW t \in Threads, Step(t), NEW i \in Index, Tracks(t, i)
    PROVE  \/ Tracks(t, i)' \/ ~OnDisk(i)' \/ entry'[i] # NoFile
           \/ i \in orphans' \/ <<i, "temp">> \in outgoing'
<1> USE DEF OpOK, Tracks, Unfiled, Removing, Received, Caching, Incoming,
            index, cache, disk, saved, sending
<1>1. CASE RecvNew(t)
  BY <1>1, RecvNewEffect DEF Moved
<1>2. CASE RecvPayload(t)
  BY <1>2, LabelNames, GotoEffect DEF RecvPayload, Moved, At
<1>3. CASE RecvCut(t)
  BY <1>3, FinishEffect DEF RecvCut, Moved, At
<1>4. CASE RecvRejected(t)
  BY <1>4, FinishEffect DEF RecvRejected, Moved, At
<1>5. CASE Lookup(t)
  BY <1>5, LookupEffect DEF Moved, Find
<1>6. CASE Nonce(t)
  BY <1>6, NonceEffect DEF Moved
<1>7. CASE NonceDone(t)
  BY <1>7, LabelNames, GotoEffect DEF NonceDone, Moved, At
<1>8. CASE Drop(t)
  <2>1. i = th[t].idx
    BY <1>8 DEF Drop, At
  <2> QED BY <1>8, <2>1, FieldTypes DEF Drop, RemoveFiles, OnDisk, Typed
<1>9. CASE HandOver(t)
  BY <1>9, FinishEffect DEF HandOver, Moved, At
<1>10. CASE KeepGot(t)
  BY <1>10, LabelNames, GotoEffect DEF KeepGot, Moved, At
<1>11. CASE CacheStart(t)
  BY <1>11, LabelNames, GotoEffect DEF CacheStart, Moved, At
<1>12. CASE Evict(t)
  BY <1>12, EvictEffect DEF Moved
<1>13. CASE EvictFails(t)
  BY <1>13 DEF EvictFails, Crash, At
<1>14. CASE CachePush(t)
  BY <1>14, LabelNames, GotoEffect DEF CachePush, Moved, At
<1>15. CASE VictimUnindex(t)
  BY <1>15, VictimUnindexEffect DEF Moved
<1>16. CASE Probe(t)
  BY <1>16, LabelNames, GotoEffect DEF Probe, Moved, Crash, At
<1>17. CASE Unlink(t)
  <2>1. CASE i = th[t].cur
    BY <1>17, <2>1, FieldTypes DEF Unlink, RemoveFiles, OnDisk, Typed
  <2>2. CASE i # th[t].cur
    <3>1. At(t, "unlink") /\ th[t].op \in Incoming /\ i = th[t].idx
      BY <1>17, <2>2, Zenon DEF Unlink, At
    <3>2. Goto(t, "create") \/ Goto(t, "unindex")
      BY <1>17, <3>1 DEF Unlink
    <3> QED BY <3>1, <3>2, LabelNames, GotoEffect DEF Moved
  <2> QED BY <2>1, <2>2
<1>18. CASE Create(t)
  BY <1>18, LabelNames, GotoEffect DEF Create, Moved, Crash, At
<1>19. CASE Insert(t)
  <2>1. i = th[t].idx /\ entry'[i] = th[t].file /\ th[t].file \in Files
    BY <1>19, FieldTypes DEF Insert, EnterMaps, At, Typed
  <2> QED BY <2>1, FilesAssumption
<1>20. CASE Persist(t)
  BY <1>20, LabelNames, GotoEffect, FinishEffect DEF Persist, Moved, At
<1>21. CASE PersistList(t)
  BY <1>21, LabelNames, GotoEffect, FinishEffect DEF PersistList, Moved, At
<1>22. CASE Send(t)
  BY <1>22, FinishEffect DEF Send, Moved, At
<1>23. CASE KeepStart(t)
  BY <1>23, KeepStartEffect DEF Moved
<1>24. CASE KeepMissing(t)
  BY <1>24 DEF KeepMissing, Crash
<1>25. CASE KeepCopy(t)
  BY <1>25, LabelNames, GotoEffect DEF KeepCopy, Moved, At
<1>26. CASE Keep(t)
  <2>1. i = th[t].idx /\ entry'[i] = th[t].file /\ th[t].file \in Files
    BY <1>26, FieldTypes DEF Keep, EnterMaps, At, Typed
  <2> QED BY <2>1, FilesAssumption
<1>27. CASE KeepFails(t)
  BY <1>27, KeepFailsEffect DEF Moved
<1>28. CASE DeleteStart(t)
  BY <1>28, DeleteStartEffect DEF Moved, Find
<1>29. CASE DeleteBySHA1(t)
  BY <1>29, DeleteBySHA1Effect DEF Moved, Find
<1>30. CASE DeleteRefused(t)
  BY <1>30, FinishEffect DEF DeleteRefused, Moved, At
<1>31. CASE DeleteChosen(t)
  BY <1>31, DeleteChosenEffect DEF Moved
<1>32. CASE DeleteFails(t)
  BY <1>32 DEF DeleteFails, Crash
<1>33. CASE DeleteUnindex(t)
  BY <1>33, LabelNames, GotoEffect DEF DeleteUnindex, LeaveMaps, Moved, At
<1>34. CASE Uncache(t)
  BY <1>34, LabelNames, GotoEffect DEF Uncache, Moved, At
<1>35. CASE UncacheNotNeeded(t)
  BY <1>35, LabelNames, GotoEffect, FinishEffect DEF UncacheNotNeeded, Moved, At
<1>36. CASE UncacheFails(t)
  BY <1>36 DEF UncacheFails, Crash
<1>37. CASE SearchStart(t)
  BY <1>37, SearchStartEffect DEF Moved, Find
<1>38. CASE SearchHits(t)
  BY <1>38, SearchHitsEffect DEF Moved
<1>39. CASE Touch(t)
  BY <1>39, TouchEffect DEF Moved
<1>40. CASE TouchFails(t)
  BY <1>40 DEF TouchFails, Crash
<1>41. CASE TouchDone(t)
  BY <1>41, LabelNames, GotoEffect DEF TouchDone, Moved, At
<1>42. CASE Respond(t)
  BY <1>42, FinishEffect DEF Respond, Moved, At
<1>43. CASE RespondFails(t)
  BY <1>43 DEF RespondFails, Crash
<1>44. CASE GetRequest(t)
  BY <1>44 DEF GetRequest, At
<1>45. CASE GetLocal(t)
  BY <1>45, GetLocalEffect DEF Moved
<1> QED
  BY <1>1, <1>2, <1>3, <1>4, <1>5, <1>6, <1>7, <1>8, <1>9, <1>10, <1>11, <1>12, <1>13, <1>14,
     <1>15, <1>16, <1>17, <1>18, <1>19, <1>20, <1>21, <1>22, <1>23, <1>24, <1>25, <1>26,
     <1>27, <1>28, <1>29, <1>30, <1>31, <1>32, <1>33, <1>34, <1>35, <1>36, <1>37, <1>38,
     <1>39, <1>40, <1>41, <1>42, <1>43, <1>44, <1>45 DEF Step

\* A file that appears on the disk is in the hands of the thread that wrote it, or
\* left for lost.
LEMMA AppearsTracked ==
    ASSUME Typed, OpOK, NEW t \in Threads, Step(t), NEW i \in Index,
           ~OnDisk(i), OnDisk(i)'
    PROVE  Tracks(t, i)' \/ i \in orphans' \/ entry'[i] # NoFile
<1> USE DEF OnDisk, Tracks, Unfiled, Received
<1>1. CASE RecvPayload(t)
  <2>1. i = th[t].idx
    BY <1>1, FieldTypes DEF RecvPayload, Typed
  <2>2. th'[t].pc \in {"decide", "lookup"} /\ th'[t].idx = th[t].idx
    BY <1>1, LabelNames, GotoEffect DEF RecvPayload, Moved
  <2> QED BY <2>1, <2>2
<1>2. CASE RecvCut(t)
  BY <1>2, FieldTypes DEF RecvCut, Typed
<1>3. CASE Drop(t) \/ Unlink(t)
  BY <1>3, FieldTypes DEF Drop, Unlink, RemoveFiles, Typed
<1>4. CASE KeepCopy(t)
  <2>1. i = th[t].idx
    BY <1>4, FieldTypes DEF KeepCopy, Typed
  <2>2. th'[t].pc = "keep" /\ th'[t].idx = th[t].idx
    BY <1>4, LabelNames, GotoEffect DEF KeepCopy, Moved
  <2> QED BY <2>1, <2>2
<1>5. CASE Keep(t)
  <2>1. i = th[t].idx /\ entry'[i] = th[t].file
    BY <1>5, FieldTypes DEF Keep, EnterMaps, Typed
  <2>2. th[t].file \in Files
    BY <1>5 DEF Keep, EnterMaps, At, OpOK
  <2> QED BY <2>1, <2>2, FilesAssumption
<1>6. CASE UNCHANGED <<metaOf, dataOf>>
  BY <1>6
<1> QED BY <1>1, <1>2, <1>3, <1>4, <1>5, <1>6, StepFrame

\* What leaves the maps is in the hands of the thread that takes it out.
LEMMA RemovedTracked ==
    ASSUME Typed, OpOK, NEW t \in Threads, Step(t), NEW i \in Index,
           entry[i] # NoFile, entry'[i] = NoFile
    PROVE  Tracks(t, i)'
<1> USE DEF Tracks, Removing
<1>1. CASE VictimUnindex(t)
  <2>1. PICK v \in th[t].todo :
            /\ entry' = [entry EXCEPT ![v] = NoFile]
            /\ Moved(t, "probe", th[t].op, th[t].idx, v, th[t].file, th[t].todo \ {v}, th[t].found)
    BY <1>1, VictimUnindexEffect
  <2> QED BY <2>1 DEF Moved, Typed
<1>2. CASE Insert(t) \/ Keep(t)
  <2>1. th[t].file \in Files
    BY <1>2 DEF Insert, Keep, EnterMaps, At, OpOK
  <2> QED BY <1>2, <2>1, FilesAssumption, FieldTypes DEF Insert, Keep, EnterMaps, Typed
<1>3. CASE DeleteUnindex(t)
  <2>1. i = th[t].cur
    BY <1>3, FieldTypes DEF DeleteUnindex, LeaveMaps, Typed
  <2>2. th'[t].pc = "persist" /\ th'[t].op = "delete" /\ th'[t].cur = th[t].cur
    BY <1>3, LabelNames, GotoEffect DEF DeleteUnindex, LeaveMaps, Moved
  <2> QED BY <2>1, <2>2
<1> QED BY <1>1, <1>2, <1>3, StepFrame

LEMMA AccountedStep ==
    ASSUME Typed, OpOK, NEW t \in Threads, Step(t), NEW i \in Index, Accounted(i)
    PROVE  Accounted(i)'
<1>1. \A u \in Threads \ {t} : Tracks(u, i) => Tracks(u, i)'
  BY StepFrame DEF Tracks, Unfiled, Received, Removing, Incoming
<1>2. ~OnDisk(i) /\ OnDisk(i)' => Tracks(t, i)' \/ i \in orphans' \/ entry'[i] # NoFile
  BY AppearsTracked
<1>3. entry[i] # NoFile /\ entry'[i] = NoFile => Tracks(t, i)'
  BY RemovedTracked
<1>4. Tracks(t, i) => \/ Tracks(t, i)' \/ ~OnDisk(i)' \/ entry'[i] # NoFile
                      \/ i \in orphans' \/ <<i, "temp">> \in outgoing'
  BY TrackCourse
<1>5. orphans \subseteq orphans' /\ outgoing \subseteq outgoing'
  BY LostGrows
<1> QED BY <1>1, <1>2, <1>3, <1>4, <1>5 DEF Accounted

\* Nobody writes to an index that is not taken, nor to one that another thread took.
LEMMA FreshStep ==
    ASSUME IndInv, Fresh, NEW t \in Threads, Step(t)
    PROVE  Fresh'
<1> SUFFICES ASSUME NEW i \in Index, i >= nextIndex' PROVE ~OnDisk(i)'
  BY DEF Fresh
<1>1. nextIndex \in Nat /\ i \in Nat /\ nextIndex' \in {nextIndex, nextIndex + 1}
  BY PrivateSteps, BoundAssumption DEF IndInv, Typed, Index
<1>2. i >= nextIndex
  BY <1>1
<1>3. ~(Private(t) /\ i = th[t].idx)
  BY <1>1, <1>2 DEF IndInv, PrivateTaken
<1>4. ~(At(t, "unlink") /\ i = th[t].cur)
  BY <1>1, <1>2 DEF IndInv, KnownTaken, Known, Holds, Targeting, At
<1> QED BY <1>2, <1>3, <1>4, DiskSteps DEF IndInv, Fresh, OnDisk

LEMMA BlankStep ==
    ASSUME IndInv, Fresh, Blank, NEW t \in Threads, Step(t)
    PROVE  Blank'
<1> SUFFICES ASSUME NEW u \in Threads, th'[u].pc \in {"recv", "copy"}
             PROVE  metaOf'[th'[u].idx] = NoFile /\ dataOf'[th'[u].idx] = NoFile
  BY DEF Blank, OnDisk
<1>1. CASE u # t
  <2>1. th'[u] = th[u] /\ th[u].idx \in Index /\ Private(u)
    BY <1>1, StepFrame, FieldTypes DEF IndInv, Private
  <2>2. ~(Private(t) /\ th[u].idx = th[t].idx)
    BY <1>1, <2>1 DEF IndInv, PrivateApart
  <2>3. ~(At(t, "unlink") /\ th[u].idx = th[t].cur)
    BY <2>1 DEF IndInv, PrivateTaken, Known, Holds, Targeting, At
  <2> QED BY <2>1, <2>2, <2>3, DiskSteps DEF IndInv, Blank, OnDisk
<1>2. CASE u = t
  <2>1. RecvNew(t) \/ KeepStart(t)
    BY <1>2, LostGrows DEF IndInv
  <2>2. nextIndex \in Index /\ nextIndex >= nextIndex
    <3>1. nextIndex < MaxIndex
      BY <2>1, RecvNewEffect, KeepStartEffect DEF IndInv
    <3> QED BY <3>1, BoundAssumption DEF IndInv, Typed, Index
  <2>3. th'[t].idx = nextIndex /\ UNCHANGED <<metaOf, dataOf>>
    <3>1. CASE RecvNew(t)
      BY <3>1, RecvNewEffect DEF IndInv, Moved, disk
    <3>2. CASE KeepStart(t)
      BY <3>2, KeepStartEffect DEF IndInv, Moved, disk
    <3> QED BY <2>1, <3>1, <3>2
  <2> QED BY <1>2, <2>2, <2>3 DEF Fresh, OnDisk
<1> QED BY <1>1, <1>2

\* A message that is sent takes its "temp" files along; one that is not leaves them
\* for lost.
LEMMA AccountedMessage ==
    ASSUME Typed, AllAccounted, NEW m \in outgoing, Message(m)
    PROVE  AllAccounted'
<1>1. /\ UNCHANGED <<nextIndex, entry, th>>
      /\ m = <<m[1], m[2]>> /\ m[1] \in Index
      /\ \A i \in Index : \/ metaOf'[i] = metaOf[i] /\ dataOf'[i] = dataOf[i]
                          \/ i = m[1] /\ m = <<i, "temp">>
  BY MessageFrame DEF Typed
<1>2. /\ \A i \in Index : OnDisk(i)' => OnDisk(i)
      /\ orphans \subseteq orphans'
      /\ outgoing' = outgoing \/ outgoing' = outgoing \ {m}
      /\ m[2] = "temp" /\ outgoing' # outgoing => ~OnDisk(m[1])' \/ m[1] \in orphans'
  <2>1. CASE SendFile(m)
    BY <1>1, <2>1 DEF SendFile, RemoveFiles, OnDisk, Typed
  <2>2. CASE SendFails(m)
    BY <1>1, <2>2 DEF SendFails, Crash, OnDisk, disk, sending
  <2>3. CASE SendQueueCleared(m)
    BY <1>1, <2>3 DEF SendQueueCleared, OnDisk, disk
  <2> QED BY <2>1, <2>2, <2>3 DEF Message
<1>3. Fresh' /\ Blank'
  BY <1>1, <1>2, FieldTypes DEF AllAccounted, Fresh, Blank
<1>4. ASSUME NEW i \in Index PROVE Accounted(i)'
  <2>1. \A t \in Threads : Tracks(t, i)' <=> Tracks(t, i)
    BY <1>1 DEF Tracks, Unfiled, Received, Removing
  <2>2. <<i, "temp">> \in outgoing /\ <<i, "temp">> \notin outgoing'
        => ~OnDisk(i)' \/ i \in orphans'
    BY <1>1, <1>2
  <2> QED BY <1>1, <1>2, <2>1, <2>2 DEF AllAccounted, Accounted
<1> QED BY <1>3, <1>4 DEF AllAccounted

\* However operations interleave, and wherever one of them fails: once all are over,
\* the files on the disk are listed, or in a message, or counted as lost.
THEOREM NoFileLost == Spec => []NoDiskLeak
<1>1. Init => AllAccounted
  <2> SUFFICES ASSUME Init PROVE AllAccounted
    OBVIOUS
  <2>1. \A i \in Index : ~OnDisk(i)
    BY DEF Init, OnDisk
  <2>2. \A t \in Threads : th[t] = Idle
    BY DEF Init
  <2> QED BY <2>1, <2>2 DEF AllAccounted, Fresh, Blank, Accounted, Idle, Incoming
<1>2. IndInv /\ AllAccounted /\ [Next]_vars => AllAccounted'
  <2> SUFFICES ASSUME IndInv, AllAccounted, [Next]_vars PROVE AllAccounted'
    OBVIOUS
  <2>1. ASSUME NEW t \in Threads, Step(t) PROVE AllAccounted'
    BY <2>1, FreshStep, BlankStep, LostGrows, AccountedStep DEF IndInv, AllAccounted
  <2>2. ASSUME NEW m \in outgoing, Message(m) PROVE AllAccounted'
    BY <2>2, AccountedMessage DEF IndInv
  <2>3. CASE UNCHANGED vars
    BY <2>3 DEF vars, index, disk, sending, AllAccounted, Fresh, Blank, Accounted,
                OnDisk, Tracks, Unfiled, Received, Removing
  <2> QED BY <2>1, <2>2, <2>3 DEF Next, Message
<1>3. IndInv /\ AllAccounted => NoDiskLeak
  <2> SUFFICES ASSUME IndInv, AllAccounted, Quiet,
                      NEW i \in Index \ (orphans \cup {m[1] : m \in outgoing}), OnDisk(i)
               PROVE  entry[i] # NoFile
    BY DEF NoDiskLeak, OnDisk
  <2>1. <<i, "temp">> \notin outgoing
    OBVIOUS
  <2>2. \A t \in Threads : ~Tracks(t, i)
    BY DEF Quiet, IndInv, OpOK, Tracks, Unfiled, Received, Removing
  <2> QED BY <2>1, <2>2 DEF AllAccounted, Accounted
<1> QED BY <1>1, <1>2, <1>3, Invariance, PTL DEF Spec

-----------------------------------------------------------------------------
(* With one connection the maps list no file that is not on the disk.      *)

OneReceiver == \A t, u \in RecvThreads : t = u

\* How a thread comes to where FiledInv says something of it.
LEMMA FiledCourse ==
    ASSUME Typed, OpOK, NEW t \in Threads, Step(t)
    PROVE  /\ th'[t].op \in Incoming => th[t].op = th'[t].op \/ t \in RecvThreads
           /\ th'[t].pc = "keep" => KeepCopy(t) /\ th'[t].idx = th[t].idx /\ th'[t].file = th[t].file
           /\ Awaited(t)' => /\ Awaited(t) \/ CachePush(t) \/ KeepGot(t)
                             /\ th[t].pc # "insert"
                             /\ th'[t].idx = th[t].idx /\ th'[t].file = th[t].file
           /\ Removing(t)' => \/ Removing(t) /\ th'[t].cur = th[t].cur
                              \/ entry'[th'[t].cur] = NoFile
           /\ Publishing(t)' => Takes(t) /\ th'[t].idx = th[t].idx
<1> USE DEF OpOK, Awaited, Unfiled, Received, Removing, Takes, Publishing, Private, Caching,
            Incoming, index, cache, disk, saved, sending
<1>1. CASE RecvNew(t)
  BY <1>1, RecvNewEffect DEF Moved
<1>2. CASE RecvPayload(t)
  BY <1>2, LabelNames, GotoEffect DEF RecvPayload, Moved, At
<1>3. CASE RecvCut(t)
  BY <1>3, FinishEffect DEF RecvCut, Moved, At
<1>4. CASE RecvRejected(t)
  BY <1>4, FinishEffect DEF RecvRejected, Moved, At
<1>5. CASE Lookup(t)
  BY <1>5, LookupEffect DEF Moved, Find
<1>6. CASE Nonce(t)
  BY <1>6, NonceEffect DEF Moved
<1>7. CASE NonceDone(t)
  BY <1>7, LabelNames, GotoEffect DEF NonceDone, Moved, At
<1>8. CASE Drop(t)
  BY <1>8, FinishEffect DEF Drop, Moved, At
<1>9. CASE HandOver(t)
  BY <1>9, FinishEffect DEF HandOver, Moved, At
<1>10. CASE KeepGot(t)
  BY <1>10, LabelNames, GotoEffect DEF KeepGot, Moved, At
<1>11. CASE CacheStart(t)
  BY <1>11, LabelNames, GotoEffect DEF CacheStart, Moved, At
<1>12. CASE Evict(t)
  BY <1>12, EvictEffect DEF Moved
<1>13. CASE EvictFails(t)
  BY <1>13 DEF EvictFails, Crash, At
<1>14. CASE CachePush(t)
  BY <1>14, LabelNames, GotoEffect DEF CachePush, Moved, At
<1>15. CASE VictimUnindex(t)
  <2>1. PICK v \in th[t].todo :
            /\ entry' = [entry EXCEPT ![v] = NoFile]
            /\ Moved(t, "probe", th[t].op, th[t].idx, v, th[t].file, th[t].todo \ {v}, th[t].found)
    BY <1>15, VictimUnindexEffect
  <2>2. entry'[th'[t].cur] = NoFile
    BY <2>1, FieldTypes DEF Moved, Typed
  <2> QED BY <1>15, <2>1, <2>2 DEF VictimUnindex, LeaveMaps, At, Moved
<1>16. CASE Probe(t)
  BY <1>16, LabelNames, GotoEffect DEF Probe, Moved, Crash, At
<1>17. CASE Unlink(t)
  BY <1>17, LabelNames, GotoEffect, FinishEffect DEF Unlink, Moved, At
<1>18. CASE Create(t)
  BY <1>18, LabelNames, GotoEffect DEF Create, Moved, Crash, At
<1>19. CASE Insert(t)
  BY <1>19, LabelNames, GotoEffect DEF Insert, EnterMaps, Moved, At
<1>20. CASE Persist(t)
  BY <1>20, LabelNames, GotoEffect, FinishEffect DEF Persist, Moved, At
<1>21. CASE PersistList(t)
  BY <1>21, LabelNames, GotoEffect, FinishEffect DEF PersistList, Moved, At
<1>22. CASE Send(t)
  BY <1>22, FinishEffect DEF Send, Moved, At
<1>23. CASE KeepStart(t)
  BY <1>23, KeepStartEffect DEF Moved
<1>24. CASE KeepMissing(t)
  BY <1>24 DEF KeepMissing, Crash, At
<1>25. CASE KeepCopy(t)
  BY <1>25, LabelNames, GotoEffect DEF KeepCopy, Moved, At
<1>26. CASE Keep(t)
  BY <1>26, LabelNames, GotoEffect DEF Keep, EnterMaps, Moved, At
<1>27. CASE KeepFails(t)
  BY <1>27, KeepFailsEffect DEF Moved
<1>28. CASE DeleteStart(t)
  BY <1>28, DeleteStartEffect DEF Moved, Find
<1>29. CASE DeleteBySHA1(t)
  BY <1>29, DeleteBySHA1Effect DEF Moved, Find
<1>30. CASE DeleteRefused(t)
  BY <1>30, FinishEffect DEF DeleteRefused, Moved, At
<1>31. CASE DeleteChosen(t)
  BY <1>31, DeleteChosenEffect DEF Moved
<1>32. CASE DeleteFails(t)
  BY <1>32 DEF DeleteFails, Crash
<1>33. CASE DeleteUnindex(t)
  <2>1. entry'[th'[t].cur] = NoFile
    BY <1>33, FieldTypes, LabelNames, GotoEffect DEF DeleteUnindex, LeaveMaps, Moved, Typed
  <2> QED BY <1>33, <2>1, LabelNames, GotoEffect DEF DeleteUnindex, LeaveMaps, Moved, At
<1>34. CASE Uncache(t)
  BY <1>34, LabelNames, GotoEffect DEF Uncache, Moved, At
<1>35. CASE UncacheNotNeeded(t)
  BY <1>35, LabelNames, GotoEffect, FinishEffect DEF UncacheNotNeeded, Moved, At
<1>36. CASE UncacheFails(t)
  BY <1>36 DEF UncacheFails, Crash, At
<1>37. CASE SearchStart(t)
  BY <1>37, SearchStartEffect DEF Moved, Find
<1>38. CASE SearchHits(t)
  BY <1>38, SearchHitsEffect DEF Moved
<1>39. CASE Touch(t)
  BY <1>39, TouchEffect DEF Moved
<1>40. CASE TouchFails(t)
  BY <1>40 DEF TouchFails, Crash, At
<1>41. CASE TouchDone(t)
  BY <1>41, LabelNames, GotoEffect DEF TouchDone, Moved, At
<1>42. CASE Respond(t)
  BY <1>42, FinishEffect DEF Respond, Moved, At
<1>43. CASE RespondFails(t)
  BY <1>43 DEF RespondFails, Crash, At
<1>44. CASE GetRequest(t)
  BY <1>44 DEF GetRequest, At
<1>45. CASE GetLocal(t)
  BY <1>45, GetLocalEffect DEF Moved
<1> QED
  BY <1>1, <1>2, <1>3, <1>4, <1>5, <1>6, <1>7, <1>8, <1>9, <1>10, <1>11, <1>12, <1>13, <1>14,
     <1>15, <1>16, <1>17, <1>18, <1>19, <1>20, <1>21, <1>22, <1>23, <1>24, <1>25, <1>26,
     <1>27, <1>28, <1>29, <1>30, <1>31, <1>32, <1>33, <1>34, <1>35, <1>36, <1>37, <1>38,
     <1>39, <1>40, <1>41, <1>42, <1>43, <1>44, <1>45 DEF Step

\* What a thread may come to unlink or to list was filed when it found it, or had
\* been sent, or was cached.
LEMMA ReachesGrows ==
    ASSUME Typed, OpOK, NEW t \in Threads, Step(t), NEW i \in Index, Reaches(t, i)'
    PROVE  \/ Reaches(t, i) \/ entry[i] # NoFile \/ i \in fileIDs
           \/ Evict(t) /\ i \in Cached
<1> USE FilesAssumption DEF OpOK, Reaches, Targeting, Removing, Caching, Incoming,
            index, cache, disk, saved, sending
<1>1. CASE RecvNew(t)
  BY <1>1, RecvNewEffect DEF Moved
<1>2. CASE RecvPayload(t)
  BY <1>2, LabelNames, GotoEffect DEF RecvPayload, Moved, At
<1>3. CASE RecvCut(t)
  BY <1>3, FinishEffect DEF RecvCut, Moved, At
<1>4. CASE RecvRejected(t)
  BY <1>4, FinishEffect DEF RecvRejected, Moved, At
<1>5. CASE Lookup(t)
  BY <1>5, LookupEffect DEF Moved, Find
<1>6. CASE Nonce(t)
  BY <1>6, NonceEffect DEF Moved
<1>7. CASE NonceDone(t)
  BY <1>7, LabelNames, GotoEffect DEF NonceDone, Moved, At
<1>8. CASE Drop(t)
  BY <1>8, FinishEffect DEF Drop, Moved, At
<1>9. CASE HandOver(t)
  BY <1>9, FinishEffect DEF HandOver, Moved, At
<1>10. CASE KeepGot(t)
  BY <1>10, LabelNames, GotoEffect DEF KeepGot, Moved, At
<1>11. CASE CacheStart(t)
  BY <1>11, LabelNames, GotoEffect DEF CacheStart, Moved, At
<1>12. CASE Evict(t)
  <2>1. Reaches(t, i) \/ i \in Cached
    BY <1>12, EvictEffect, EvictCached DEF Moved
  <2> QED BY <1>12, <2>1
<1>13. CASE EvictFails(t)
  BY <1>13 DEF EvictFails, Crash, At
<1>14. CASE CachePush(t)
  BY <1>14, LabelNames, GotoEffect DEF CachePush, Moved, At
<1>15. CASE VictimUnindex(t)
  BY <1>15, VictimUnindexEffect DEF Moved
<1>16. CASE Probe(t)
  BY <1>16, LabelNames, GotoEffect DEF Probe, Moved, Crash, At
<1>17. CASE Unlink(t)
  BY <1>17, LabelNames, GotoEffect, FinishEffect DEF Unlink, Moved, At
<1>18. CASE Create(t)
  BY <1>18, LabelNames, GotoEffect DEF Create, Moved, Crash, At
<1>19. CASE Insert(t)
  BY <1>19, LabelNames, GotoEffect DEF Insert, EnterMaps, Moved, At
<1>20. CASE Persist(t)
  BY <1>20, LabelNames, GotoEffect, FinishEffect DEF Persist, Moved, At
<1>21. CASE PersistList(t)
  BY <1>21, LabelNames, GotoEffect, FinishEffect DEF PersistList, Moved, At
<1>22. CASE Send(t)
  BY <1>22, FinishEffect DEF Send, Moved, At
<1>23. CASE KeepStart(t)
  BY <1>23, KeepStartEffect DEF Moved
<1>24. CASE KeepMissing(t)
  BY <1>24 DEF KeepMissing, Crash
<1>25. CASE KeepCopy(t)
  BY <1>25, LabelNames, GotoEffect DEF KeepCopy, Moved, At
<1>26. CASE Keep(t)
  BY <1>26, LabelNames, GotoEffect DEF Keep, EnterMaps, Moved, At
<1>27. CASE KeepFails(t)
  BY <1>27, KeepFailsEffect DEF Moved
<1>28. CASE DeleteStart(t)
  BY <1>28, DeleteStartEffect DEF Moved, Find
<1>29. CASE DeleteBySHA1(t)
  BY <1>29, DeleteBySHA1Effect DEF Moved, Find
<1>30. CASE DeleteRefused(t)
  BY <1>30, FinishEffect DEF DeleteRefused, Moved, At
<1>31. CASE DeleteChosen(t)
  BY <1>31, DeleteChosenEffect DEF Moved
<1>32. CASE DeleteFails(t)
  BY <1>32 DEF DeleteFails, Crash
<1>33. CASE DeleteUnindex(t)
  BY <1>33, LabelNames, GotoEffect DEF DeleteUnindex, LeaveMaps, Moved, At
<1>34. CASE Uncache(t)
  BY <1>34, LabelNames, GotoEffect DEF Uncache, Moved, At
<1>35. CASE UncacheNotNeeded(t)
  BY <1>35, LabelNames, GotoEffect, FinishEffect DEF UncacheNotNeeded, Moved, At
<1>36. CASE UncacheFails(t)
  BY <1>36 DEF UncacheFails, Crash
<1>37. CASE SearchStart(t)
  BY <1>37, SearchStartEffect DEF Moved, Find
<1>38. CASE SearchHits(t)
  BY <1>38, SearchHitsEffect DEF Moved
<1>39. CASE Touch(t)
  BY <1>39, TouchEffect DEF Moved
<1>40. CASE TouchFails(t)
  BY <1>40 DEF TouchFails, Crash
<1>41. CASE TouchDone(t)
  BY <1>41, LabelNames, GotoEffect DEF TouchDone, Moved, At
<1>42. CASE Respond(t)
  BY <1>42, FinishEffect DEF Respond, Moved, At
<1>43. CASE RespondFails(t)
  BY <1>43 DEF RespondFails, Crash
<1>44. CASE GetRequest(t)
  BY <1>44 DEF GetRequest, At
<1>45. CASE GetLocal(t)
  BY <1>45, GetLocalEffect DEF Moved
<1> QED
  BY <1>1, <1>2, <1>3, <1>4, <1>5, <1>6, <1>7, <1>8, <1>9, <1>10, <1>11, <1>12, <1>13, <1>14,
     <1>15, <1>16, <1>17, <1>18, <1>19, <1>20, <1>21, <1>22, <1>23, <1>24, <1>25, <1>26,
     <1>27, <1>28, <1>29, <1>30, <1>31, <1>32, <1>33, <1>34, <1>35, <1>36, <1>37, <1>38,
     <1>39, <1>40, <1>41, <1>42, <1>43, <1>44, <1>45 DEF Step

LEMMA ReachesHolds ==
    ASSUME OpOK, NEW t \in Threads, NEW i \in Index, Reaches(t, i)
    PROVE  Holds(t, i) /\ Known(i)
BY DEF OpOK, Reaches, Removing, Targeting, Holds, Known, Caching

LEMMA AwaitedTakes ==
    ASSUME OpOK, NEW t \in Threads, Awaited(t)
    PROVE  Publishing(t) /\ Takes(t)
BY DEF OpOK, Awaited, Unfiled, Received, Private, Takes, Publishing, Incoming

\* A map gains an index in Insert and in Keep only.
LEMMA EntryGrows ==
    ASSUME Typed, OpOK, NEW t \in Threads, Step(t),
           NEW i \in Index, entry'[i] # NoFile
    PROVE  \/ entry'[i] = entry[i]
           \/ /\ Insert(t) /\ i = th[t].idx /\ entry'[i] = th[t].file
              /\ Awaited(t) /\ th[t].op \in Incoming
           \/ Keep(t) /\ i = th[t].idx /\ entry'[i] = th[t].file /\ Private(t)
<1>1. CASE Insert(t)
  BY <1>1, FieldTypes DEF Insert, EnterMaps, At, Typed, OpOK, Awaited, Unfiled, Private
<1>2. CASE Keep(t)
  BY <1>2, FieldTypes DEF Keep, EnterMaps, At, Typed, Private
<1>3. CASE VictimUnindex(t)
  <2>1. PICK j \in th[t].todo : entry' = [entry EXCEPT ![j] = NoFile]
    BY <1>3, VictimUnindexEffect
  <2> QED BY <2>1, FieldTypes DEF Typed
<1>4. CASE DeleteUnindex(t)
  BY <1>4, FieldTypes DEF DeleteUnindex, LeaveMaps, Typed
<1> QED BY <1>1, <1>2, <1>3, <1>4, StepFrame

LEMMA TakersStep ==
    ASSUME IndInv, TakersApart, NEW t \in Threads, Step(t)
    PROVE  TakersApart'
<1>1. \A u \in Threads : Takes(u) => th[u].idx \in Index /\ th[u].idx < nextIndex
  BY FieldTypes DEF IndInv, Takes, PrivateTaken, KnownTaken, Known, Holds
<1>2. \A u \in Threads : Takes(u)' => \/ Takes(u) /\ th'[u].idx = th[u].idx
                                      \/ u = t /\ th'[u].idx = nextIndex
  <2>1. ASSUME NEW u \in Threads, Takes(u)'
        PROVE  \/ Takes(u) /\ th'[u].idx = th[u].idx
               \/ u = t /\ th'[u].idx = nextIndex
    <3>1. CASE Private(u)'
      BY <3>1, PrivateSteps DEF IndInv, Takes
    <3>2. CASE Publishing(u)' /\ u = t
      BY <3>2, FiledCourse DEF IndInv
    <3>3. CASE Publishing(u)' /\ u # t
      BY <3>3, StepFrame DEF IndInv, Takes, Publishing
    <3> QED BY <2>1, <3>1, <3>2, <3>3 DEF Takes
  <2> QED BY <2>1
<1>3. \A u \in Threads : Takes(u) => th[u].idx # nextIndex
  BY <1>1 DEF IndInv, Typed, Index
<1> QED BY <1>2, <1>3 DEF TakersApart

\* Where an index is awaited, the one receive thread is at work on it, and the
\* keyboard does not know it.
LEMMA AwaitedStep ==
    ASSUME OneReceiver, IndInv, FiledInv, NEW t \in Threads, Step(t),
           NEW u \in Threads, Awaited(u)'
    PROVE  Alone(u)'
<1>0. Typed /\ OpOK /\ CacheDistinct
  BY DEF IndInv
<1> PICK i \in Index : i = th[u].idx
  BY <1>0, FieldTypes
<1>1. CASE Awaited(u)
  <2>1. th'[u].idx = i /\ th'[u].file = th[u].file /\ ~(At(t, "insert") /\ t = u)
    BY <1>0, FiledCourse, StepFrame DEF At
  <2>2. /\ entry[i] = NoFile /\ i \notin fileIDs
        /\ \A p \in Payloads : <<i, p>> \notin outgoing
        /\ \A v \in Threads : ~Reaches(v, i)
        /\ metaOf[i] = th[u].file /\ dataOf[i] = th[u].file
    BY <1>1 DEF FiledInv, AwaitedAlone, Alone
  <2>3. u \in RecvThreads /\ Takes(u) /\ Known(i)
    BY <1>0, <1>1, AwaitedTakes DEF FiledInv, WhoBrings, Awaited, Known, Holds
  \* Another thread that takes files off the cache or sends one is not incoming.
  <2>4. t # u => th[t].op \notin Incoming
    BY <2>3 DEF OneReceiver, FiledInv, WhoBrings
  <2>5. ~(Private(t) /\ i = th[t].idx)
    BY <1>0, <2>3 DEF IndInv, PrivateTaken
  <2>6. ~(Takes(t) /\ i = th[t].idx /\ t # u)
    BY <2>3 DEF FiledInv, TakersApart
  <2>7. entry'[i] = NoFile
    BY <1>0, <2>1, <2>2, <2>4, <2>5, EntryGrows DEF FiledInv, Insert, EnterMaps
  <2>8. i \notin fileIDs'
    BY <1>0, <2>2, StepFrame DEF Respond, Reaches
  <2>9. ASSUME NEW p \in Payloads PROVE <<i, p>> \notin outgoing'
    <3>1. CASE HandOver(t)
      BY <2>2, <2>5, <3>1 DEF HandOver, At, Private
    <3>2. CASE Send(t)
      <4>1. Publishing(t) /\ t # u
        BY <1>0, <1>1, <3>2 DEF Send, At, OpOK, Publishing, Incoming, Caching, Awaited, Unfiled, Received
      <4>2. i # th[t].idx
        BY <2>6, <4>1 DEF Takes
      <4> QED BY <2>2, <3>2, <4>2 DEF Send
    <3>3. CASE Respond(t)
      BY <2>2, <3>3 DEF Respond, Reaches
    <3>4. CASE GetRequest(t)
      BY <2>2, <3>4 DEF GetRequest
    <3> QED BY <1>0, <2>2, <3>1, <3>2, <3>3, <3>4, StepFrame
  <2>10. ~Reaches(t, i)'
    <3>1. ~Evict(t)
      BY <1>0, <1>1, <2>4 DEF Evict, At, OpOK, Caching, Incoming, Awaited, Private
    <3> QED BY <1>0, <2>2, <3>1, ReachesGrows DEF FiledInv
  <2>11. \A v \in Threads \ {t} : ~Reaches(v, i)'
    BY <1>0, <2>2, StepFrame DEF Reaches, Targeting, Removing
  <2>12. metaOf'[i] = metaOf[i] /\ dataOf'[i] = dataOf[i]
    BY <1>0, <2>2, <2>5, DiskSteps DEF Reaches, Removing, At
  <2>13. \A v \in Threads : Reaches(v, th[u].idx)' <=> Reaches(v, i)'
    BY <2>1 DEF Reaches, Targeting, Removing
  <2> QED BY <2>1, <2>2, <2>7, <2>8, <2>9, <2>10, <2>11, <2>12, <2>13 DEF Alone
<1>2. CASE ~Awaited(u)
  <2>1. u = t
    BY <1>0, <1>2, StepFrame DEF Awaited, Unfiled, Received, Private
  <2>2. (CachePush(t) \/ KeepGot(t)) /\ th'[t].idx = i /\ th'[t].file = th[t].file
    BY <1>0, <1>2, <2>1, FiledCourse
  <2>3. Private(t) /\ Received(t) /\ UNCHANGED <<entry, fileIDs, outgoing, metaOf, dataOf>>
    BY <2>2 DEF CachePush, KeepGot, At, Private, Received, index, disk, sending
  <2>4. ~Known(i)
    BY <1>0, <2>1, <2>3 DEF IndInv, PrivateTaken
  <2>5. \A v \in Threads : ~Reaches(v, i)
    BY <1>0, <2>4, ReachesHolds
  <2>6. ~Reaches(t, i)'
    BY <1>0, <2>4, <2>5, ReachesGrows DEF FiledInv, Known, Listed, Named
  <2>7. \A v \in Threads \ {t} : ~Reaches(v, i)'
    BY <1>0, <2>5, StepFrame DEF Reaches, Targeting, Removing
  <2>8. metaOf[i] = th[t].file /\ dataOf[i] = th[t].file
    BY <2>1, <2>3 DEF IndInv, ReceivedOnDisk
  <2>9. \A v \in Threads : Reaches(v, th[u].idx)' <=> Reaches(v, i)'
    BY <2>1, <2>2 DEF Reaches, Targeting, Removing
  <2>10. entry[i] = NoFile /\ i \notin fileIDs /\ \A p \in Payloads : <<i, p>> \notin outgoing
    BY <2>4 DEF Known, Listed, Named
  <2> QED BY <2>1, <2>2, <2>3, <2>6, <2>7, <2>8, <2>9, <2>10 DEF Alone
<1> QED BY <1>1, <1>2

LEMMA FiledWholeStep ==
    ASSUME IndInv, FiledInv, NEW t \in Threads, Step(t)
    PROVE  FiledWhole'
<1> SUFFICES ASSUME NEW i \in Index, entry'[i] # NoFile
             PROVE  metaOf'[i] = entry'[i] /\ dataOf'[i] = entry'[i]
  BY DEF FiledWhole
<1>0. Typed /\ OpOK
  BY DEF IndInv
<1>1. CASE entry'[i] = entry[i]
  <2>1. ~(Private(t) /\ i = th[t].idx)
    BY <1>1 DEF IndInv, PrivateTaken, Known, Listed, Named
  <2>2. ~(At(t, "unlink") /\ i = th[t].cur)
    BY <1>1 DEF FiledInv, RemovedUnfiled, Removing, At
  <2> QED BY <1>0, <1>1, <2>1, <2>2, DiskSteps DEF FiledInv, FiledWhole
<1>2. CASE Insert(t) /\ i = th[t].idx /\ entry'[i] = th[t].file /\ Awaited(t)
  BY <1>2 DEF Insert, EnterMaps, disk, FiledInv, AwaitedAlone, Alone
<1>3. CASE Keep(t) /\ i = th[t].idx /\ entry'[i] = th[t].file
  BY <1>0, <1>3 DEF Keep, EnterMaps, At, Typed, FiledInv, CopiedOnDisk
<1> QED BY <1>0, <1>1, <1>2, <1>3, EntryGrows DEF FiledInv

LEMMA RemovedStep ==
    ASSUME IndInv, FiledInv, NEW t \in Threads, Step(t)
    PROVE  RemovedUnfiled'
<1>0. Typed /\ OpOK
  BY DEF IndInv
<1>1. ASSUME NEW u \in Threads, Removing(u) PROVE entry'[th[u].cur] = NoFile
  <2>1. th[u].cur \in Index /\ Reaches(u, th[u].cur) /\ entry[th[u].cur] = NoFile
    BY <1>0, <1>1, FieldTypes DEF Reaches, FiledInv, RemovedUnfiled
  <2>2. Known(th[u].cur)
    BY <1>0, <2>1, ReachesHolds
  <2>3. ~(Private(t) /\ th[u].cur = th[t].idx)
    BY <2>1, <2>2 DEF IndInv, PrivateTaken
  <2>4. ~(Awaited(t) /\ th[u].cur = th[t].idx)
    BY <2>1 DEF FiledInv, AwaitedAlone, Alone
  <2> QED BY <1>0, <2>1, <2>3, <2>4, EntryGrows DEF FiledInv
<1>2. \A u \in Threads \ {t} : Removing(u)' => Removing(u) /\ th'[u].cur = th[u].cur
  BY <1>0, StepFrame DEF Removing
<1>3. Removing(t)' => \/ Removing(t) /\ th'[t].cur = th[t].cur
                      \/ entry'[th'[t].cur] = NoFile
  BY <1>0, FiledCourse
<1> QED BY <1>1, <1>2, <1>3 DEF RemovedUnfiled

LEMMA TempStep ==
    ASSUME IndInv, FiledInv, NEW t \in Threads, Step(t)
    PROVE  TempUnfiled'
<1> SUFFICES ASSUME NEW i \in Index, <<i, "temp">> \in outgoing'
             PROVE  entry'[i] = NoFile
  BY DEF TempUnfiled
<1>0. Typed /\ OpOK /\ "temp" \in Payloads
  BY DEF IndInv, Payloads
<1>1. CASE <<i, "temp">> \in outgoing
  <2>1. entry[i] = NoFile /\ Known(i)
    BY <1>0, <1>1 DEF FiledInv, TempUnfiled, Known, Listed, Named
  <2>2. ~(Private(t) /\ i = th[t].idx)
    BY <2>1 DEF IndInv, PrivateTaken
  <2>3. ~(Awaited(t) /\ i = th[t].idx)
    BY <1>0, <1>1 DEF FiledInv, AwaitedAlone, Alone
  <2> QED BY <1>0, <2>1, <2>2, <2>3, EntryGrows DEF FiledInv
<1>2. CASE HandOver(t) /\ i = th[t].idx
  BY <1>2 DEF HandOver, At, index, IndInv, PrivateTaken, Private, Known, Listed, Named
<1> QED BY <1>0, <1>1, <1>2, StepTempSet

LEMMA CopiedStep ==
    ASSUME IndInv, FiledInv, NEW t \in Threads, Step(t)
    PROVE  CopiedOnDisk'
<1> SUFFICES ASSUME NEW u \in Threads, th'[u].pc = "keep"
             PROVE  dataOf'[th'[u].idx] = th'[u].file
  BY DEF CopiedOnDisk
<1>0. Typed /\ OpOK /\ th[u].idx \in Index
  BY FieldTypes DEF IndInv
<1>1. CASE u = t
  BY <1>0, <1>1, FiledCourse DEF KeepCopy, Typed
<1>2. CASE u # t
  <2>1. th'[u] = th[u] /\ Private(u)
    BY <1>0, <1>2, StepFrame DEF Private
  <2>2. ~(Private(t) /\ th[u].idx = th[t].idx)
    BY <1>2, <2>1 DEF IndInv, PrivateApart
  <2>3. ~(At(t, "unlink") /\ th[u].idx = th[t].cur)
    BY <1>0, <2>1 DEF IndInv, PrivateTaken, Known, Holds, Targeting, At
  <2> QED BY <1>0, <2>1, <2>2, <2>3, DiskSteps DEF FiledInv, CopiedOnDisk
<1> QED BY <1>1, <1>2

LEMMA FiledStep ==
    ASSUME OneReceiver, IndInv, FiledInv, NEW t \in Threads, Step(t)
    PROVE  FiledInv'
<1>1. WhoBrings'
  BY StepFrame, FiledCourse DEF IndInv, FiledInv, WhoBrings
<1>2. AwaitedAlone'
  BY AwaitedStep DEF AwaitedAlone
<1> QED BY <1>1, <1>2, TakersStep, CopiedStep, FiledWholeStep, RemovedStep, TempStep
        DEF FiledInv

LEMMA FiledMessage ==
    ASSUME IndInv, FiledInv, NEW m \in outgoing, Message(m)
    PROVE  FiledInv'
<1>0. Typed /\ OpOK
  BY DEF IndInv
<1>1. /\ UNCHANGED <<entry, fileIDs, th>> /\ outgoing' \subseteq outgoing
      /\ m[1] \in Index /\ \E p \in Payloads : <<m[1], p>> \in outgoing
      /\ \A i \in Index : \/ metaOf'[i] = metaOf[i] /\ dataOf'[i] = dataOf[i]
                          \/ i = m[1] /\ m = <<i, "temp">>
  BY <1>0, MessageFrame
<1>2. WhoBrings' /\ TakersApart' /\ RemovedUnfiled' /\ TempUnfiled'
  BY <1>1 DEF FiledInv, WhoBrings, TakersApart, RemovedUnfiled, TempUnfiled,
              Takes, Private, Publishing, Removing
<1>3. CopiedOnDisk'
  <2>1. ASSUME NEW u \in Threads, th[u].pc = "keep" PROVE th[u].idx # m[1]
    BY <1>1, <2>1 DEF IndInv, PrivateTaken, Private, Known, Listed, Named
  <2> QED BY <1>0, <1>1, <2>1, FieldTypes DEF FiledInv, CopiedOnDisk
<1>4. FiledWhole'
  BY <1>1 DEF FiledInv, FiledWhole, TempUnfiled
<1>5. AwaitedAlone'
  <2>1. \A u \in Threads : /\ Awaited(u)' <=> Awaited(u)
                           /\ \A i \in Index : Reaches(u, i)' <=> Reaches(u, i)
    BY <1>1 DEF Awaited, Unfiled, Received, Private, Reaches, Targeting, Removing
  <2>2. \A u \in Threads : Awaited(u) => th[u].idx # m[1] /\ th[u].idx \in Index
    BY <1>0, <1>1, FieldTypes DEF FiledInv, AwaitedAlone, Alone
  <2>3. \A u, v \in Threads : Reaches(v, th[u].idx)' <=> Reaches(v, th[u].idx)
    BY <1>1 DEF Reaches, Targeting, Removing
  <2> QED BY <1>1, <2>1, <2>2, <2>3 DEF FiledInv, AwaitedAlone, Alone
<1> QED BY <1>2, <1>3, <1>4, <1>5 DEF FiledInv

\* With one connection, whatever the keyboard does meanwhile, the files of every
\* index that the maps list are on the disk. (IsFiniteSet: a cardinality is that of a
\* finite set.)
THEOREM OneConnection == IsFiniteSet(RecvThreads) => (Spec => []IndexedOnDisk)
<1>1. ASSUME OneReceiver PROVE Spec => []FiledInv
  <2>1. Init => FiledInv
    <3> SUFFICES ASSUME Init PROVE FiledInv
      OBVIOUS
    <3>1. \A t \in Threads : th[t] = Idle
      BY DEF Init
    <3>2. outgoing = {} /\ \A i \in Index : entry[i] = NoFile
      BY DEF Init
    <3> QED BY <3>1, <3>2 DEF FiledInv, WhoBrings, TakersApart, CopiedOnDisk,
               AwaitedAlone, FiledWhole, RemovedUnfiled, TempUnfiled, Idle, Incoming,
               Takes, Private, Publishing, Awaited, Removing
  <2>2. IndInv /\ FiledInv /\ [Next]_vars => FiledInv'
    <3> SUFFICES ASSUME IndInv, FiledInv, [Next]_vars PROVE FiledInv'
      OBVIOUS
    <3>1. ASSUME NEW t \in Threads, Step(t) PROVE FiledInv'
      BY <1>1, <3>1, FiledStep
    <3>2. ASSUME NEW m \in outgoing, Message(m) PROVE FiledInv'
      BY <3>2, FiledMessage
    <3>3. CASE UNCHANGED vars
      BY <3>3 DEF vars, index, disk, sending, FiledInv, WhoBrings, TakersApart,
                  CopiedOnDisk, AwaitedAlone, FiledWhole, RemovedUnfiled, TempUnfiled,
                  Alone, Takes, Private, Publishing, Awaited, Unfiled, Received, Removing,
                  Reaches, Targeting
    <3> QED BY <3>1, <3>2, <3>3 DEF Next, Message
  <2> QED BY <2>1, <2>2, Invariance, PTL DEF Spec
<1>2. FiledInv => IndexedOnDisk
  BY DEF FiledInv, FiledWhole, IndexedOnDisk
<1>3. CASE OneReceiver
  <2>1. Spec => []FiledInv
    BY <1>1, <1>3
  <2> QED BY <1>2, <2>1, PTL
<1>4. CASE ~OneReceiver
  <2> SUFFICES ASSUME IsFiniteSet(RecvThreads) PROVE Spec => []IndexedOnDisk
    OBVIOUS
  <2>1. Cardinality(RecvThreads) # 1
    BY <1>4, FS_Singleton DEF OneReceiver
  <2>2. IndexedOnDisk
    BY <2>1 DEF IndexedOnDisk
  <2> QED BY <2>2, PTL
<1> QED BY <1>3, <1>4

-----------------------------------------------------------------------------
(* Threads that make room at the same time.                                *)

\* What a thread is to evict is in nobody else's hands, because it was in the list
\* until this thread took it off, and what is in the list nobody is to unlink.
LEMMA ApartStep ==
    ASSUME IndInv, EvictionsApart, NEW t \in Threads, Step(t)
    PROVE  EvictionsApart'
<1>0. Typed /\ OpOK /\ CacheDistinct /\ DeletedNotCached /\ CachedOnDisk
  BY DEF IndInv
<1>1. \A u \in Threads \ {t} : Doomed(u)' = Doomed(u) /\ Caching(u)' = Caching(u)
  BY <1>0, StepFrame DEF Doomed, Caching
<1>2. \A u \in Threads : Doomed(u) \subseteq Index /\ Doomed(u)' \subseteq Index
  <2>1. Typed'
    BY StepInv DEF IndInv
  <2> QED BY <1>0, <2>1, FieldTypes DEF Doomed, Typed, ThreadState
<1>3. ASSUME NEW u \in Threads \ {t}, Caching(t)', Caching(u)', NEW i \in Doomed(t)'
      PROVE  i \notin Doomed(u)'
  <2>1. i \in Index /\ Caching(u) /\ Doomed(u)' = Doomed(u)
    BY <1>1, <1>2, <1>3
  <2>2. (Caching(t) /\ i \in Doomed(t)) \/ i \in Cached
    BY <1>0, <1>3, <2>1, StepDoomed
  <2> QED BY <1>0, <1>3, <2>1, <2>2 DEF EvictionsApart, CachedOnDisk
<1>4. \A u, v \in Threads \ {t} : u # v /\ Caching(u)' /\ Caching(v)'
                                   => Doomed(u)' \cap Doomed(v)' = {}
  BY <1>1 DEF EvictionsApart
<1> QED BY <1>3, <1>4 DEF EvictionsApart

\* However many connections make room at the same time, no file is the victim of
\* two: deleteDiskFile fails only where a delete command is about.
THEOREM VictimsApart == Spec => []EvictionsApart
<1>1. Init => EvictionsApart
  BY DEF Init, EvictionsApart, Caching, Idle
<1>2. IndInv /\ EvictionsApart /\ [Next]_vars => EvictionsApart'
  <2> SUFFICES ASSUME IndInv, EvictionsApart, [Next]_vars PROVE EvictionsApart'
    OBVIOUS
  <2>1. ASSUME NEW m \in outgoing, Message(m) PROVE EvictionsApart'
    BY <2>1, MessageFrame DEF IndInv, EvictionsApart, Doomed, Caching
  <2>2. CASE UNCHANGED vars
    BY <2>2 DEF vars, EvictionsApart, Doomed, Caching
  <2> QED BY <2>1, <2>2, ApartStep DEF Next, Message
<1> QED BY <1>1, <1>2, Invariance, PTL DEF Spec

-----------------------------------------------------------------------------
(* Files that are received only to be forwarded.                           *)

LEMMA LoneStep ==
    ASSUME IndInv, TakersApart, RelayedLone, NEW t \in Threads, Step(t)
    PROVE  RelayedLone'
<1> SUFFICES ASSUME NEW i \in Index, <<i, "temp">> \in outgoing'
             PROVE  Lone(i)' /\ metaOf'[i] \in Files /\ dataOf'[i] = metaOf'[i]
  BY DEF RelayedLone
<1>0. Typed /\ OpOK /\ "temp" \in Payloads
  BY DEF IndInv, Payloads
<1>1. CASE <<i, "temp">> \in outgoing
  <2>1. /\ entry[i] = NoFile /\ i \notin fileIDs /\ i \notin Cached
        /\ \A u \in Threads : ~Reaches(u, i) /\ ~(Takes(u) /\ th[u].idx = i)
        /\ metaOf[i] \in Files /\ dataOf[i] = metaOf[i]
    BY <1>1 DEF RelayedLone, Lone, IndInv, TempNotCached
  <2>2. i < nextIndex
    BY <1>0, <1>1 DEF IndInv, KnownTaken, Known, Listed, Named
  <2>3. entry'[i] = NoFile
    BY <1>0, <2>1, AwaitedTakes, EntryGrows DEF Takes
  <2>4. i \notin fileIDs'
    BY <1>0, <2>1, StepFrame DEF Respond, Reaches
  <2>5. ~Reaches(t, i)'
    BY <1>0, <2>1, ReachesGrows
  <2>6. ~(Takes(t)' /\ th'[t].idx = i)
    <3>1. Publishing(t)' => Takes(t) /\ th'[t].idx = th[t].idx
      BY <1>0, FiledCourse
    <3>2. Private(t)' => (Takes(t) /\ th'[t].idx = th[t].idx) \/ th'[t].idx = nextIndex
      BY <1>0, PrivateSteps DEF Takes
    <3>3. i # nextIndex
      BY <1>0, <2>2 DEF Typed, Index
    <3> QED BY <2>1, <3>1, <3>2, <3>3 DEF Takes
  <2>7. \A u \in Threads \ {t} : ~Reaches(u, i)' /\ ~(Takes(u)' /\ th'[u].idx = i)
    BY <1>0, <2>1, StepFrame DEF Reaches, Targeting, Removing, Takes, Private, Publishing
  <2>8. metaOf'[i] = metaOf[i] /\ dataOf'[i] = dataOf[i]
    BY <1>0, <2>1, DiskSteps DEF Takes, Reaches, Removing, At
  <2> QED BY <2>1, <2>3, <2>4, <2>5, <2>6, <2>7, <2>8 DEF Lone
<1>2. CASE HandOver(t) /\ i = th[t].idx
  <2>1. Private(t) /\ Received(t) /\ th[t].op \in Incoming /\ th[t].pc = "decide"
    BY <1>2 DEF HandOver, At, Private, Received, Incoming
  <2>2. th'[t] = Idle /\ UNCHANGED <<entry, fileIDs, metaOf, dataOf>>
    BY <1>0, <1>2, FinishEffect DEF HandOver, Moved, index, disk
  <2>3. ~Known(i)
    BY <2>1, <1>2 DEF IndInv, PrivateTaken
  <2>4. entry[i] = NoFile /\ i \notin fileIDs /\ \A u \in Threads : ~Reaches(u, i)
    BY <1>0, <2>3, ReachesHolds DEF Known, Listed, Named
  <2>5. \A u \in Threads \ {t} : ~(Takes(u) /\ th[u].idx = i)
    BY <1>2, <2>1 DEF TakersApart, Takes
  <2>6. \A u \in Threads \ {t} : ~Reaches(u, i)' /\ ~(Takes(u)' /\ th'[u].idx = i)
    BY <1>0, <2>4, <2>5, StepFrame DEF Reaches, Targeting, Removing, Takes, Private, Publishing
  <2>7. ~Reaches(t, i)' /\ ~Takes(t)'
    BY <2>2 DEF Idle, Reaches, Targeting, Removing, Takes, Private, Publishing, Incoming
  <2>8. metaOf[i] = th[t].file /\ dataOf[i] = th[t].file /\ th[t].file \in Files
    BY <1>0, <1>2, <2>1 DEF IndInv, ReceivedOnDisk, OpOK
  <2> QED BY <2>2, <2>4, <2>6, <2>7, <2>8 DEF Lone
<1> QED BY <1>0, <1>1, <1>2, StepTempSet

LEMMA LoneMessage ==
    ASSUME IndInv, RelayedLone, TakersApart, NEW m \in outgoing, Message(m)
    PROVE  RelayedLone' /\ TakersApart'
<1>0. Typed /\ m \in outgoing
  BY DEF IndInv
<1>1. /\ UNCHANGED <<entry, fileIDs, th>>
      /\ \A i \in Index : \/ metaOf'[i] = metaOf[i] /\ dataOf'[i] = dataOf[i]
                          \/ i = m[1] /\ m = <<i, "temp">>
  BY <1>0, MessageFrame
<1>2. UNCHANGED <<outgoing, metaOf, dataOf>> \/ outgoing' = outgoing \ {m}
  BY DEF Message, SendFile, SendFails, SendQueueCleared, Crash, disk, sending
<1>3. \A i \in Index : <<i, "temp">> \in outgoing' =>
          /\ <<i, "temp">> \in outgoing
          /\ metaOf'[i] = metaOf[i] /\ dataOf'[i] = dataOf[i]
  BY <1>1, <1>2
<1>4. /\ \A i \in Index : Lone(i)' <=> Lone(i)
      /\ TakersApart'
  BY <1>1 DEF Lone, TakersApart, Reaches, Targeting, Removing, Takes, Private, Publishing
<1> QED BY <1>3, <1>4 DEF RelayedLone

\* A file that is received only to be forwarded stays whole until it is sent,
\* whatever the other threads search, evict, delete and receive meanwhile.
THEOREM RelayedFilesKept == Spec => []RelayedOnDisk
<1>1. Init => RelayedLone /\ TakersApart
  BY DEF Init, RelayedLone, TakersApart, Takes, Private, Publishing, Idle, Incoming
<1>2. IndInv /\ RelayedLone /\ TakersApart /\ [Next]_vars => RelayedLone' /\ TakersApart'
  <2> SUFFICES ASSUME IndInv, RelayedLone, TakersApart, [Next]_vars
               PROVE  RelayedLone' /\ TakersApart'
    OBVIOUS
  <2>1. ASSUME NEW t \in Threads, Step(t) PROVE RelayedLone' /\ TakersApart'
    BY <2>1, LoneStep, TakersStep
  <2>2. CASE UNCHANGED vars
    BY <2>2 DEF vars, index, disk, sending, RelayedLone, TakersApart, Lone, Reaches,
                Targeting, Removing, Takes, Private, Publishing
  <2> QED BY <2>1, <2>2, LoneMessage DEF Next, Message
<1>3. RelayedLone => RelayedOnDisk
  BY DEF RelayedLone, RelayedOnDisk
<1> QED BY <1>1, <1>2, <1>3, Invariance, PTL DEF Spec

-----------------------------------------------------------------------------
(* The assertions of the cache.                                            *)

\* The three places where the cache ends the process.
CacheSites == {"doCacheFile", "front of an empty list", "remove_cacheList_if_needed"}

\* Which step fails there, and how a thread comes to evict.
LEMMA CrashCourse ==
    ASSUME NEW t \in Threads, Step(t)
    PROVE  /\ crash' \in CacheSites => UNCHANGED crash \/ EvictFails(t) \/ UncacheFails(t)
           /\ At(t, "evict") => Evict(t) \/ EvictFails(t) \/ CachePush(t)
<1> USE DEF CacheSites, At, Crash
<1>1. CASE RecvNew(t) \/ RecvPayload(t) \/ RecvCut(t) \/ RecvRejected(t) \/ Lookup(t)
          \/ Nonce(t)
  BY <1>1 DEF RecvNew, RecvPayload, RecvCut, RecvRejected, Lookup, Nonce
<1>2. CASE NonceDone(t) \/ Drop(t) \/ HandOver(t) \/ KeepGot(t) \/ CacheStart(t)
          \/ VictimUnindex(t)
  BY <1>2 DEF NonceDone, Drop, HandOver, KeepGot, CacheStart, VictimUnindex, LeaveMaps
<1>3. CASE Probe(t) \/ Unlink(t) \/ Create(t) \/ Insert(t) \/ Persist(t)
          \/ PersistList(t)
  BY <1>3 DEF Probe, Unlink, Create, Insert, EnterMaps, Persist, PersistList
<1>4. CASE Send(t) \/ KeepStart(t) \/ KeepMissing(t) \/ KeepCopy(t) \/ Keep(t)
          \/ KeepFails(t)
  BY <1>4 DEF Send, KeepStart, KeepMissing, KeepCopy, Keep, EnterMaps, KeepFails
<1>5. CASE DeleteStart(t) \/ DeleteBySHA1(t) \/ DeleteRefused(t) \/ DeleteChosen(t)
          \/ DeleteFails(t) \/ DeleteUnindex(t)
  BY <1>5 DEF DeleteStart, DeleteBySHA1, DeleteRefused, DeleteChosen, DeleteFails,
         DeleteUnindex
<1>6. CASE Uncache(t) \/ UncacheNotNeeded(t) \/ SearchStart(t) \/ SearchHits(t)
          \/ Touch(t) \/ TouchFails(t)
  BY <1>6 DEF Uncache, UncacheNotNeeded, SearchStart, SearchHits, Touch, TouchFails
<1>7. CASE TouchDone(t) \/ Respond(t) \/ RespondFails(t) \/ GetRequest(t)
          \/ GetLocal(t)
  BY <1>7 DEF TouchDone, Respond, RespondFails, GetRequest, GetLocal
<1>8. CASE Evict(t) \/ CachePush(t)
  BY <1>8 DEF Evict, CachePush
<1>9. CASE EvictFails(t)
  BY <1>9
<1>10. CASE UncacheFails(t)
  BY <1>10 DEF UncacheFails
<1> QED BY <1>1, <1>2, <1>3, <1>4, <1>5, <1>6, <1>7, <1>8, <1>9, <1>10 DEF Step

\* When the counter is the size of the list it is at least the size of one file
\* wherever that is subtracted.
LEMMA NeverFailsStep ==
    ASSUME IndInv, ExactForOneSize, EvictorFits, OneSizeNeverFails, NEW t \in Threads, Step(t)
    PROVE  OneSizeNeverFails'
<1> SUFFICES ASSUME \A f, g \in Files : SizeOf[f] = SizeOf[g] PROVE crash' \notin CacheSites
  BY DEF OneSizeNeverFails, CacheSites
<1>0. Typed /\ OpOK /\ crash \notin CacheSites
  BY DEF IndInv, OneSizeNeverFails, CacheSites
<1>1. cacheList \in Seq(Index) /\ Len(cacheList) \in Nat /\ cacheBytes \in Nat
  BY DEF IndInv, Typed
<1>2. ASSUME NEW f \in Files
      PROVE  SizeOf[f] \in Nat /\ cacheBytes = SizeOf[f] * Len(cacheList)
  <2>1. SizeOf[f] \in {SizeOf[g] : g \in Files} /\ \A g \in Files : SizeOf[g] = SizeOf[f]
    BY <1>2
  <2> QED BY <2>1, FilesAssumption DEF ExactForOneSize
<1>3. ASSUME NEW s \in Nat, NEW n \in Nat PROVE s * 0 = 0 /\ (n > 0 => s * n >= s)
  <2>1. s * 0 = 0
    BY <1>3
  <2>2. ASSUME n > 0 PROVE s * n >= s
    <3>1. PICK k \in Nat : n = k + 1
      BY <2>2
    <3>2. s * n = s * k + s /\ s * k \in Nat
      BY <3>1
    <3> QED BY <3>2
  <2> QED BY <2>1, <2>2
<1>4. ~EvictFails(t)
  <2> SUFFICES ASSUME EvictFails(t) PROVE FALSE
    OBVIOUS
  <2>1. At(t, "evict") /\ NoRoom(t) /\ (cacheList = <<>> \/ cacheBytes < SizeOf[th[t].file])
    BY DEF EvictFails
  <2>2. th[t].file \in Files /\ SizeOf[th[t].file] <= CacheBytes
    BY <2>1, CachingFile DEF EvictorFits
  <2>3. CASE cacheList = <<>>
    <3>1. cacheBytes = 0
      BY <1>2, <1>3, <2>2, <2>3
    <3> QED BY <1>2, <2>1, <2>2, <3>1, BoundAssumption DEF NoRoom
  <2>4. CASE cacheList # <<>>
    <3>1. Len(cacheList) > 0
      BY <1>1, <2>4
    <3> QED BY <1>1, <1>2, <1>3, <2>1, <2>2, <2>4, <3>1
  <2> QED BY <2>3, <2>4
<1>5. ~UncacheFails(t)
  <2> SUFFICES ASSUME UncacheFails(t) PROVE FALSE
    OBVIOUS
  <2>1. th[t].cur \in Cached /\ cacheBytes < DiskSize(th[t].cur)
    BY DEF UncacheFails
  <2>2. dataOf[th[t].cur] \in Files
    BY <2>1 DEF IndInv, CachedOnDisk
  <2>3. Len(cacheList) > 0
    BY <1>1, <2>1 DEF Cached, ToSet
  <2> QED BY <1>1, <1>2, <1>3, <2>1, <2>2, <2>3 DEF DiskSize
<1> QED BY <1>0, <1>4, <1>5, CrashCourse

LEMMA FitsStep ==
    ASSUME IndInv, EvictorFits, NEW t \in Threads, Step(t)
    PROVE  EvictorFits'
<1>0. Typed /\ OpOK
  BY DEF IndInv
<1>1. CASE CacheStart(t)
  BY <1>0, <1>1, GotoEffect, LabelNames, StepFrame DEF CacheStart, EvictorFits, At, Moved
<1>2. CASE UNCHANGED cacheLock
  <2>1. LockOK /\ LockOK'
    BY StepInv DEF IndInv
  <2>2. \A u \in Threads : At(u, "evict")' => At(u, "evict") /\ th'[u].file = th[u].file
    <3>1. ASSUME At(t, "evict")', At(t, "evict") PROVE th'[t].file = th[t].file
      <4>1. Evict(t) \/ EvictFails(t) \/ CachePush(t)
        BY <3>1, CrashCourse
      <4> QED BY <1>0, <3>1, <4>1, EvictEffect, GotoEffect, LabelNames
              DEF EvictFails, CachePush, Crash, Moved
    <3>2. \A u \in Threads : At(u, "evict")' => At(u, "evict")
      BY <1>2, <2>1 DEF LockOK
    <3> QED BY <1>0, <3>1, <3>2, StepFrame
  <2> QED BY <2>2 DEF EvictorFits
<1>3. CASE CachePush(t)
  <2>1. ~At(t, "evict")'
    BY <1>0, <1>3, GotoEffect, LabelNames DEF CachePush, At, Moved
  <2> QED BY <1>0, <2>1, StepFrame DEF EvictorFits, At
<1> QED BY <1>0, <1>1, <1>2, <1>3, StepFrame

\* As long as all files have one size the program does not end in an assertion of
\* the cache: the accounting of doCacheFile matters for different sizes only.
THEOREM UniformNeverFails == Spec => []OneSizeNeverFails
<1>1. Init => EvictorFits /\ OneSizeNeverFails
  BY DEF Init, EvictorFits, OneSizeNeverFails, At, Idle
<1>2. IndInv /\ ExactForOneSize /\ EvictorFits /\ OneSizeNeverFails /\ [Next]_vars
      => EvictorFits' /\ OneSizeNeverFails'
  <2> SUFFICES ASSUME IndInv, ExactForOneSize, EvictorFits, OneSizeNeverFails, [Next]_vars
               PROVE  EvictorFits' /\ OneSizeNeverFails'
    OBVIOUS
  <2>1. ASSUME NEW t \in Threads, Step(t) PROVE EvictorFits' /\ OneSizeNeverFails'
    BY <2>1, FitsStep, NeverFailsStep
  <2>2. ASSUME NEW m \in outgoing, Message(m) PROVE EvictorFits' /\ OneSizeNeverFails'
    <3>1. UNCHANGED th
      BY <2>2, MessageFrame DEF IndInv
    <3>2. crash' \in {crash, "send_file_data"}
      BY <2>2 DEF Message, SendFile, SendFails, SendQueueCleared, Crash
    <3> QED BY <3>1, <3>2 DEF EvictorFits, OneSizeNeverFails, At
  <2>3. CASE UNCHANGED vars
    BY <2>3 DEF vars, EvictorFits, OneSizeNeverFails, At
  <2> QED BY <2>1, <2>2, <2>3 DEF Next, Message
<1> QED BY <1>1, <1>2, Invariance, UniformAccounting, PTL DEF Spec

=============================================================================
