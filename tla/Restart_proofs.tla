--------------------------- MODULE Restart_proofs ---------------------------
(***************************************************************************)
(* Proofs about Restart: kills, orderly ends and starts, at any moment and *)
(* any number of times, for any number of connections, files and indices.  *)
(***************************************************************************)
EXTENDS RestartInv, FileSystem_proofs

-----------------------------------------------------------------------------
(* The steps of a running node.                                            *)

\* The thread gives up a transfer to an index under which there were files: what it
\* leaves there is of no consequence to the proofs.
Abandon(t) ==
    /\ At(t, "recv") /\ Finish(t)
    /\ metaOf' \in [Index -> Contents] /\ dataOf' \in [Index -> Contents]
    /\ \A i \in Index \ {th[t].idx} : metaOf'[i] = metaOf[i] /\ dataOf'[i] = dataOf[i]
    /\ orphans' \subseteq Index
    /\ UNCHANGED <<index, cache, owned, saved, fileIDs, outgoing>>

Turn(t) == Step(t) \/ Abandon(t)

\* A transfer to such an index ends like one to a new index, or is given up.
LEMMA RecvOverTurn ==
    ASSUME Typed, NEW t \in Threads, RecvOver(t)
    PROVE  Turn(t)
<1>1. At(t, "recv") /\ th[t].idx \in Index
  BY FieldTypes DEF RecvOver, Leftover
<1>2. UNCHANGED <<index, cache, owned, saved, fileIDs, outgoing, crash>>
  BY DEF RecvOver
<1>3. CASE /\ SameSHA1(t)
           /\ metaOf' = [metaOf EXCEPT ![th[t].idx] = Appended(t)]
           /\ dataOf' = [dataOf EXCEPT ![th[t].idx] = th[t].file]
           /\ Goto(t, IF th[t].op = "store" THEN "decide" ELSE "lookup")
           /\ UNCHANGED orphans
  <2>1. RecvPayload(t)
    BY <1>1, <1>2, <1>3 DEF RecvPayload, SameSHA1, sending
  <2> QED BY <2>1 DEF Turn, Step
<1>4. CASE RemoveFiles(th[t].idx) /\ Finish(t) /\ UNCHANGED orphans
  BY <1>1, <1>2, <1>4 DEF RemoveFiles, Turn, Abandon, Typed, Contents
<1>5. CASE /\ \/ /\ metaOf' = [metaOf EXCEPT ![th[t].idx] = IF @ = NoFile THEN Partial ELSE @]
                 /\ UNCHANGED dataOf
              \/ /\ metaOf' = [metaOf EXCEPT ![th[t].idx] = Appended(t)]
                 /\ dataOf' = [dataOf EXCEPT ![th[t].idx] = Partial]
           /\ Finish(t)
           /\ orphans' = orphans \cup {th[t].idx}
  <2>1. Appended(t) \in Contents
    BY <1>1, FieldTypes DEF Appended, Contents
  <2>2. /\ metaOf' \in [Index -> Contents] /\ dataOf' \in [Index -> Contents]
        /\ \A i \in Index \ {th[t].idx} : metaOf'[i] = metaOf[i] /\ dataOf'[i] = dataOf[i]
    <3>1. CASE /\ metaOf' = [metaOf EXCEPT ![th[t].idx] = IF @ = NoFile THEN Partial ELSE @]
               /\ UNCHANGED dataOf
      BY <1>1, <3>1 DEF Typed, Contents
    <3>2. CASE /\ metaOf' = [metaOf EXCEPT ![th[t].idx] = Appended(t)]
               /\ dataOf' = [dataOf EXCEPT ![th[t].idx] = Partial]
      BY <1>1, <2>1, <3>2 DEF Typed, Contents
    <3> QED BY <1>5, <3>1, <3>2
  <2>3. orphans' \subseteq Index
    BY <1>1, <1>5 DEF Typed
  <2>4. At(t, "recv") /\ Finish(t)
    BY <1>1, <1>5
  <2>5. UNCHANGED <<index, cache, owned, saved, fileIDs, outgoing>>
    BY <1>2
  <2>6. Abandon(t)
    BY <2>2, <2>3, <2>4, <2>5 DEF Abandon
  <2> QED BY <2>6 DEF Turn
<1> QED BY <1>3, <1>4, <1>5 DEF RecvOver

LEMMA AbandonEffect ==
    ASSUME Typed, NEW t \in Threads, Abandon(t)
    PROVE  /\ th[t].pc = "recv" /\ Private(t) /\ th[t].idx \in Index
           /\ th'[t] = Idle /\ th'[t].pc = "idle" /\ th'[t].op = "none"
           /\ th'[t].todo = {} /\ th'[t].found = {}
           /\ th' \in [Threads -> ThreadState]
           /\ \A u \in Threads \ {t} : th'[u] = th[u]
BY FinishEffect, FieldTypes DEF Abandon, At, Private, Moved

LEMMA TurnType ==
    ASSUME Typed, OpOK, NEW t \in Threads, Turn(t)
    PROVE  Typed' /\ OpOK' /\ \A u \in Threads \ {t} : th'[u] = th[u]
<1>1. CASE Step(t)
  BY <1>1, StepType, StepOp, StepFrame
<1>2. CASE Abandon(t)
  <2>1. Typed'
    BY <1>2, AbandonEffect DEF Abandon, Typed, index, cache, saved
  <2>2. OpOK'
    BY <1>2, AbandonEffect DEF OpOK, Caching, Incoming
  <2> QED BY <1>2, <2>1, <2>2, AbandonEffect
<1> QED BY <1>1, <1>2 DEF Turn

LEMMA TurnPrivate ==
    ASSUME Typed, OpOK, NEW t \in Threads, Turn(t)
    PROVE  /\ nextIndex' \in {nextIndex, nextIndex + 1}
           /\ \A u \in Threads : Private(u)' =>
                 \/ Private(u) /\ th'[u].idx = th[u].idx
                 \/ /\ u = t /\ ~Private(t) /\ th'[t].idx = nextIndex
                    /\ nextIndex' = nextIndex + 1
<1>1. CASE Step(t)
  BY <1>1, PrivateSteps
<1>2. CASE Abandon(t)
  BY <1>2, AbandonEffect DEF Abandon, index, Private
<1> QED BY <1>1, <1>2 DEF Turn

\* Who takes an index after a step took it before, or takes a new one.
LEMMA TurnTakes ==
    ASSUME Typed, OpOK, NEW t \in Threads, Turn(t), NEW u \in Threads, Takes(u)'
    PROVE  \/ Takes(u) /\ th'[u].idx = th[u].idx
           \/ u = t /\ th'[t].idx = nextIndex /\ nextIndex' = nextIndex + 1
<1>1. CASE Private(u)'
  BY <1>1, TurnPrivate DEF Takes
<1>2. CASE Publishing(u)' /\ u # t
  BY <1>2, TurnType DEF Takes, Publishing
<1>3. CASE Publishing(u)' /\ u = t
  <2>1. CASE Step(t)
    BY <1>3, <2>1, FiledCourse
  <2>2. CASE Abandon(t)
    BY <1>3, <2>2, AbandonEffect DEF Publishing
  <2> QED BY <2>1, <2>2 DEF Turn
<1> QED BY <1>1, <1>2, <1>3 DEF Takes

\* A step writes the files of an index that the thread has to itself, or removes
\* those that it was about to unlink.
LEMMA TurnDisk ==
    ASSUME Typed, OpOK, NEW t \in Threads, Turn(t), NEW i \in Index
    PROVE  \/ metaOf'[i] = metaOf[i] /\ dataOf'[i] = dataOf[i]
           \/ Private(t) /\ i = th[t].idx
           \/ th[t].pc = "unlink" /\ i = th[t].cur /\ metaOf'[i] = NoFile
<1>1. CASE Unlink(t)
  BY <1>1, FieldTypes DEF Unlink, RemoveFiles, At, Typed
<1>2. CASE RecvPayload(t) \/ RecvCut(t) \/ KeepCopy(t) \/ Keep(t) \/ Drop(t)
  BY <1>2, FieldTypes DEF RecvPayload, RecvCut, KeepCopy, Keep, EnterMaps, Drop, RemoveFiles, At,
                          Private, Typed
<1>3. CASE Abandon(t)
  BY <1>3, AbandonEffect DEF Abandon
<1> QED BY <1>1, <1>2, <1>3, StepFrame DEF Turn

\* What is filed under an index changes in the hands of a thread that threatens it, or
\* that has it to itself.
LEMMA TurnEntry ==
    ASSUME Typed, OpOK, NEW t \in Threads, Turn(t), NEW i \in Index
    PROVE  \/ /\ entry'[i] = entry[i]
              /\ \A m \in Maps : i \in maps'[m] <=> i \in maps[m]
           \/ Threatens(t, i) /\ entry'[i] = NoFile
           \/ Threatens(t, i) /\ Awaited(t) /\ th[t].idx = i /\ entry'[i] = th[t].file
           \/ Private(t) /\ Keep(t) /\ th[t].idx = i /\ entry'[i] = th[t].file
<1>1. CASE Insert(t)
  BY <1>1, FieldTypes DEF Insert, EnterMaps, At, Typed, OpOK, Awaited, Unfiled, Private, Threatens, Publishing
<1>2. CASE Keep(t)
  BY <1>2, FieldTypes DEF Keep, EnterMaps, At, Typed, Private
<1>3. CASE VictimUnindex(t)
  <2>1. PICK j \in th[t].todo : /\ entry' = [entry EXCEPT ![j] = NoFile]
                                /\ maps' = [m \in Maps |-> maps[m] \ {j}]
    BY <1>3, VictimUnindexEffect
  <2>2. j \in Doomed(t)
    BY <1>3, VictimUnindexEffect DEF Doomed
  <2> QED BY <2>1, <2>2, FieldTypes DEF Typed, Threatens
<1>4. CASE DeleteUnindex(t)
  BY <1>4, FieldTypes DEF DeleteUnindex, LeaveMaps, At, Typed, Threatens, Targeting
<1>5. CASE Abandon(t)
  BY <1>5 DEF Abandon, index
<1> QED BY <1>1, <1>2, <1>3, <1>4, <1>5, StepFrame DEF Turn

\* The cached files, and those that a message will unlink, come from a thread that has
\* them to itself.
LEMMA TurnLists ==
    ASSUME Typed, OpOK, NEW t \in Threads, Turn(t), NEW i \in Index
    PROVE  /\ i \in Cached' => i \in Cached \/ (Private(t) /\ i = th[t].idx)
           /\ <<i, "temp">> \in outgoing' =>
                 <<i, "temp">> \in outgoing \/ (Private(t) /\ i = th[t].idx)
           /\ \/ UNCHANGED savedEntry /\ UNCHANGED savedMaps
              \/ savedEntry' = entry' /\ savedMaps' = maps'
           /\ UNCHANGED savedList \/ savedList' = cacheList'
<1>1. CASE Step(t)
  <2>1. i \in Cached' => i \in Cached \/ (Private(t) /\ i = th[t].idx)
    BY <1>1, CachedGrows DEF CachePush, At, Private
  <2>2. <<i, "temp">> \in outgoing' => <<i, "temp">> \in outgoing \/ (Private(t) /\ i = th[t].idx)
    BY <1>1, StepTempSet DEF HandOver, At, Private
  <2> QED BY <1>1, <2>1, <2>2, SavedCourse
<1>2. CASE Abandon(t)
  BY <1>2 DEF Abandon, cache, saved, Cached
<1> QED BY <1>1, <1>2 DEF Turn

\* The only index that comes into reach in a step is the one that the thread publishes.
LEMMA TurnReachable ==
    ASSUME Typed, OpOK, NEW t \in Threads, Turn(t), stored' = Recorded(t),
           NEW i \in Index, Reachable(i)'
    PROVE  Reachable(i) \/ (Private(t) /\ ~Private(t)' /\ i = th[t].idx)
<1>1. Named(i)' => Reachable(i) \/ (Private(t) /\ ~Private(t)' /\ i = th[t].idx)
  <2>1. CASE Step(t)
    BY <2>1, NamedGrows DEF Reachable
  <2>2. CASE Abandon(t)
    BY <2>2 DEF Abandon, index, cache, Named, Cached, Reachable
  <2> QED BY <2>1, <2>2 DEF Turn
<1>2. ASSUME NEW u \in Threads, Holds(u, i)'
      PROVE  Reachable(i) \/ (Private(t) /\ ~Private(t)' /\ i = th[t].idx)
  <2>1. CASE u # t
    BY <1>2, <2>1, TurnType DEF Holds, Targeting, Publishing, Reachable
  <2>2. CASE u = t /\ Step(t)
    BY <1>2, <2>2, HoldsGrows DEF Reachable
  <2>3. CASE u = t /\ Abandon(t)
    BY <1>2, <2>3, AbandonEffect DEF Holds, Targeting, Publishing, Incoming
  <2> QED BY <2>1, <2>2, <2>3 DEF Turn
<1>3. savedEntry'[i] # NoFile => savedEntry[i] # NoFile \/ Named(i)'
  BY TurnLists DEF Named
<1>4. i \in ToSet(savedList') => i \in ToSet(savedList) \/ Named(i)'
  BY TurnLists DEF Named, Cached
<1>5. OnRecord(i)' => Reachable(i)
  <2>1. At(t, "persist") /\ th[t].op = "keep" => Holds(t, th[t].idx)
    BY DEF Holds, Publishing, At
  <2> QED BY <2>1 DEF OnRecord, Recorded, Reachable
<1> QED BY <1>1, <1>2, <1>3, <1>4, <1>5 DEF Reachable

\* A thread comes to threaten a file by evicting it, by choosing it for a delete command
\* or by publishing the index that it has to itself.
LEMMA ThreatCourse ==
    ASSUME Typed, OpOK, NEW t \in Threads, Step(t), NEW i \in Index, Threatens(t, i)'
    PROVE  \/ Threatens(t, i) \/ i \in Cached
           \/ Private(t) /\ i = th[t].idx
           \/ th[t].pc = "nonce" /\ th'[t].pc = "unindex" /\ th'[t].cur = i
<1> USE DEF OpOK, Threatens, Doomed, Targeting, Publishing, Private, Caching, Incoming,
            index, cache, disk, saved, sending
<1>1. CASE RecvNew(t)
  BY <1>1, RecvNewEffect DEF Moved
<1>2. CASE RecvPayload(t)
  BY <1>2, LabelNames, GotoEffect DEF RecvPayload, Moved, At
<1>3. CASE RecvCut(t)
  BY <1>3, FinishEffect DEF RecvCut, Moved, At
<1>4. CASE RecvRejected(t)
  BY <1>4, FinishEffect DEF RecvRejected, Moved, At
<1>5. CASE Lookup(t)
  BY <1>5, LookupEffect DEF Moved, Find
<1>6. CASE Nonce(t)
  BY <1>6, NonceEffect DEF Moved
<1>7. CASE NonceDone(t)
  BY <1>7, LabelNames, GotoEffect DEF NonceDone, Moved, At
<1>8. CASE Drop(t)
  BY <1>8, FinishEffect DEF Drop, Moved, At
<1>9. CASE HandOver(t)
  BY <1>9, FinishEffect DEF HandOver, Moved, At
<1>10. CASE KeepGot(t)
  BY <1>10, LabelNames, GotoEffect DEF KeepGot, Moved, At
<1>11. CASE CacheStart(t)
  BY <1>11, LabelNames, GotoEffect DEF CacheStart, Moved, At
<1>12. CASE Evict(t)
  BY <1>12, EvictEffect, EvictCached DEF Moved
<1>13. CASE EvictFails(t)
  BY <1>13 DEF EvictFails, Crash, At
<1>14. CASE CachePush(t)
  BY <1>14, LabelNames, GotoEffect DEF CachePush, Moved, At
<1>15. CASE VictimUnindex(t)
  BY <1>15, VictimUnindexEffect DEF Moved
<1>16. CASE Probe(t)
  BY <1>16, LabelNames, GotoEffect DEF Probe, Moved, Crash, At
<1>17. CASE Unlink(t)
  BY <1>17, LabelNames, GotoEffect, FinishEffect DEF Unlink, Moved, At
<1>18. CASE Create(t)
  BY <1>18, LabelNames, GotoEffect DEF Create, Moved, Crash, At
<1>19. CASE Insert(t)
  BY <1>19, LabelNames, GotoEffect DEF Insert, EnterMaps, Moved, At
<1>20. CASE Persist(t)
  BY <1>20, LabelNames, GotoEffect, FinishEffect DEF Persist, Moved, At
<1>21. CASE PersistList(t)
  BY <1>21, LabelNames, GotoEffect, FinishEffect DEF PersistList, Moved, At
<1>22. CASE Send(t)
  BY <1>22, FinishEffect DEF Send, Moved, At
<1>23. CASE KeepStart(t)
  BY <1>23, KeepStartEffect DEF Moved
<1>24. CASE KeepMissing(t)
  BY <1>24 DEF KeepMissing, Crash
<1>25. CASE KeepCopy(t)
  BY <1>25, LabelNames, GotoEffect DEF KeepCopy, Moved, At
<1>26. CASE Keep(t)
  BY <1>26, LabelNames, GotoEffect DEF Keep, EnterMaps, Moved, At
<1>27. CASE KeepFails(t)
  BY <1>27, KeepFailsEffect DEF Moved
<1>28. CASE DeleteStart(t)
  BY <1>28, DeleteStartEffect DEF Moved, Find
<1>29. CASE DeleteBySHA1(t)
  BY <1>29, DeleteBySHA1Effect DEF Moved, Find
<1>30. CASE DeleteRefused(t)
  BY <1>30, FinishEffect DEF DeleteRefused, Moved, At
<1>31. CASE DeleteChosen(t)
  BY <1>31, DeleteChosenEffect DEF Moved
<1>32. CASE DeleteFails(t)
  BY <1>32 DEF DeleteFails, Crash
<1>33. CASE DeleteUnindex(t)
  BY <1>33, LabelNames, GotoEffect DEF DeleteUnindex, LeaveMaps, Moved, At
<1>34. CASE Uncache(t)
  BY <1>34, LabelNames, GotoEffect DEF Uncache, Moved, At
<1>35. CASE UncacheNotNeeded(t)
  BY <1>35, LabelNames, GotoEffect, FinishEffect DEF UncacheNotNeeded, Moved, At
<1>36. CASE UncacheFails(t)
  BY <1>36 DEF UncacheFails, Crash
<1>37. CASE SearchStart(t)
  BY <1>37, SearchStartEffect DEF Moved, Find
<1>38. CASE SearchHits(t)
  BY <1>38, SearchHitsEffect DEF Moved
<1>39. CASE Touch(t)
  BY <1>39, TouchEffect DEF Moved
<1>40. CASE TouchFails(t)
  BY <1>40 DEF TouchFails, Crash
<1>41. CASE TouchDone(t)
  BY <1>41, LabelNames, GotoEffect DEF TouchDone, Moved, At
<1>42. CASE Respond(t)
  BY <1>42, FinishEffect DEF Respond, Moved, At
<1>43. CASE RespondFails(t)
  BY <1>43 DEF RespondFails, Crash
<1>44. CASE GetRequest(t)
  BY <1>44 DEF GetRequest, At
<1>45. CASE GetLocal(t)
  BY <1>45, GetLocalEffect DEF Moved
<1> QED
  BY <1>1, <1>2, <1>3, <1>4, <1>5, <1>6, <1>7, <1>8, <1>9, <1>10, <1>11, <1>12, <1>13, <1>14,
     <1>15, <1>16, <1>17, <1>18, <1>19, <1>20, <1>21, <1>22, <1>23, <1>24, <1>25, <1>26,
     <1>27, <1>28, <1>29, <1>30, <1>31, <1>32, <1>33, <1>34, <1>35, <1>36, <1>37, <1>38,
     <1>39, <1>40, <1>41, <1>42, <1>43, <1>44, <1>45 DEF Step

\* Who is where FiledSafe says something of it; what DeleteUnindex and Persist do.
LEMMA PersistCourse ==
    ASSUME Typed, OpOK, NEW t \in Threads, Step(t)
    PROVE  /\ th'[t].pc = "persist" /\ th'[t].op = "keep" => Keep(t)
           /\ th[t].pc = "persist" => /\ savedEntry' = entry /\ savedMaps' = maps
                                      /\ savedIndex' = nextIndex
           /\ savedIndex' \in {savedIndex, nextIndex}
           /\ th[t].pc = "unindex" /\ th[t].op = "delete" => entry'[th[t].cur] = NoFile
           /\ th[t].pc = "nonce" /\ th'[t].pc = "unindex" => th'[t].op = "delete"
<1> USE DEF OpOK, Caching, Incoming, index, cache, disk, saved, sending
<1>1. CASE RecvNew(t)
  BY <1>1, RecvNewEffect DEF Moved
<1>2. CASE RecvPayload(t)
  BY <1>2, LabelNames, GotoEffect DEF RecvPayload, Moved, At
<1>3. CASE RecvCut(t)
  BY <1>3, FinishEffect DEF RecvCut, Moved, At
<1>4. CASE RecvRejected(t)
  BY <1>4, FinishEffect DEF RecvRejected, Moved, At
<1>5. CASE Lookup(t)
  BY <1>5, LookupEffect DEF Moved, Find
<1>6. CASE Nonce(t)
  BY <1>6, NonceEffect DEF Moved
<1>7. CASE NonceDone(t)
  BY <1>7, LabelNames, GotoEffect DEF NonceDone, Moved, At
<1>8. CASE Drop(t)
  BY <1>8, FinishEffect DEF Drop, Moved, At
<1>9. CASE HandOver(t)
  BY <1>9, FinishEffect DEF HandOver, Moved, At
<1>10. CASE KeepGot(t)
  BY <1>10, LabelNames, GotoEffect DEF KeepGot, Moved, At
<1>11. CASE CacheStart(t)
  BY <1>11, LabelNames, GotoEffect DEF CacheStart, Moved, At
<1>12. CASE Evict(t)
  BY <1>12, EvictEffect DEF Moved
<1>13. CASE EvictFails(t)
  BY <1>13 DEF EvictFails, Crash, At
<1>14. CASE CachePush(t)
  BY <1>14, LabelNames, GotoEffect DEF CachePush, Moved, At
<1>15. CASE VictimUnindex(t)
  BY <1>15, VictimUnindexEffect DEF Moved
<1>16. CASE Probe(t)
  BY <1>16, LabelNames, GotoEffect DEF Probe, Moved, Crash, At
<1>17. CASE Unlink(t)
  BY <1>17, LabelNames, GotoEffect, FinishEffect DEF Unlink, Moved, At
<1>18. CASE Create(t)
  BY <1>18, LabelNames, GotoEffect DEF Create, Moved, Crash, At
<1>19. CASE Insert(t)
  BY <1>19, LabelNames, GotoEffect DEF Insert, EnterMaps, Moved, At
<1>20. CASE Persist(t)
  BY <1>20, LabelNames, GotoEffect, FinishEffect DEF Persist, Moved, At
<1>21. CASE PersistList(t)
  BY <1>21, LabelNames, GotoEffect, FinishEffect DEF PersistList, Moved, At
<1>22. CASE Send(t)
  BY <1>22, FinishEffect DEF Send, Moved, At
<1>23. CASE KeepStart(t)
  BY <1>23, KeepStartEffect DEF Moved
<1>24. CASE KeepMissing(t)
  BY <1>24 DEF KeepMissing, Crash, At
<1>25. CASE KeepCopy(t)
  BY <1>25, LabelNames, GotoEffect DEF KeepCopy, Moved, At
<1>26. CASE Keep(t)
  BY <1>26, LabelNames, GotoEffect DEF Keep, EnterMaps, Moved, At
<1>27. CASE KeepFails(t)
  BY <1>27, KeepFailsEffect DEF Moved
<1>28. CASE DeleteStart(t)
  BY <1>28, DeleteStartEffect DEF Moved, Find
<1>29. CASE DeleteBySHA1(t)
  BY <1>29, DeleteBySHA1Effect DEF Moved, Find
<1>30. CASE DeleteRefused(t)
  BY <1>30, FinishEffect DEF DeleteRefused, Moved, At
<1>31. CASE DeleteChosen(t)
  BY <1>31, DeleteChosenEffect DEF Moved
<1>32. CASE DeleteFails(t)
  BY <1>32 DEF DeleteFails, Crash, At
<1>33. CASE DeleteUnindex(t)
  BY <1>33, LabelNames, GotoEffect, FieldTypes DEF DeleteUnindex, LeaveMaps, Moved, At, Typed
<1>34. CASE Uncache(t)
  BY <1>34, LabelNames, GotoEffect DEF Uncache, Moved, At
<1>35. CASE UncacheNotNeeded(t)
  BY <1>35, LabelNames, GotoEffect, FinishEffect DEF UncacheNotNeeded, Moved, At
<1>36. CASE UncacheFails(t)
  BY <1>36 DEF UncacheFails, Crash, At
<1>37. CASE SearchStart(t)
  BY <1>37, SearchStartEffect DEF Moved, Find
<1>38. CASE SearchHits(t)
  BY <1>38, SearchHitsEffect DEF Moved
<1>39. CASE Touch(t)
  BY <1>39, TouchEffect DEF Moved
<1>40. CASE TouchFails(t)
  BY <1>40 DEF TouchFails, Crash, At
<1>41. CASE TouchDone(t)
  BY <1>41, LabelNames, GotoEffect DEF TouchDone, Moved, At
<1>42. CASE Respond(t)
  BY <1>42, FinishEffect DEF Respond, Moved, At
<1>43. CASE RespondFails(t)
  BY <1>43 DEF RespondFails, Crash, At
<1>44. CASE GetRequest(t)
  BY <1>44 DEF GetRequest, At
<1>45. CASE GetLocal(t)
  BY <1>45, GetLocalEffect DEF Moved
<1> QED
  BY <1>1, <1>2, <1>3, <1>4, <1>5, <1>6, <1>7, <1>8, <1>9, <1>10, <1>11, <1>12, <1>13, <1>14,
     <1>15, <1>16, <1>17, <1>18, <1>19, <1>20, <1>21, <1>22, <1>23, <1>24, <1>25, <1>26,
     <1>27, <1>28, <1>29, <1>30, <1>31, <1>32, <1>33, <1>34, <1>35, <1>36, <1>37, <1>38,
     <1>39, <1>40, <1>41, <1>42, <1>43, <1>44, <1>45 DEF Step

\* What a thread has written to an index that it has to itself it keeps to itself.
LEMMA TurnWritten ==
    ASSUME Typed, OpOK, NEW t \in Threads, Turn(t),
           Received(t) => metaOf[th[t].idx] = th[t].file /\ dataOf[th[t].idx] = th[t].file
    PROVE  /\ Received(t)' => /\ metaOf'[th'[t].idx] = th'[t].file
                              /\ dataOf'[th'[t].idx] = th'[t].file
           /\ th'[t].pc = "keep" => dataOf'[th'[t].idx] = th'[t].file
<1>1. CASE Step(t)
  <2>1. th'[t].pc = "keep" => dataOf'[th'[t].idx] = th'[t].file
    BY <1>1, FiledCourse, FieldTypes DEF KeepCopy, Typed
  <2> QED BY <1>1, <2>1, StepReceivedOwn
<1>2. CASE Abandon(t)
  BY <1>2, AbandonEffect DEF Received
<1> QED BY <1>1, <1>2 DEF Turn

-----------------------------------------------------------------------------
(* The steps of the threads keep the inductive invariant.                  *)

LEMMA ReachableStep ==
    ASSUME RInv, NEW t \in Threads, Turn(t), stored' = Recorded(t), ahead' = ahead
    PROVE  ReachableTaken' /\ TakenBelow' /\ TakersApart' /\ PrivateUnreached'
<1>0. Typed /\ OpOK /\ nextIndex \in Nat
  BY DEF RInv, Typed
<1>1. nextIndex' \in {nextIndex, nextIndex + 1}
  BY <1>0, TurnPrivate
<1>2. \A u \in Threads : Takes(u) => th[u].idx \in Index /\ th[u].idx < nextIndex
  BY <1>0, FieldTypes DEF RInv, TakenBelow
<1>3. \A u \in Threads : Takes(u)' =>
          \/ Takes(u) /\ th'[u].idx = th[u].idx
          \/ u = t /\ th'[t].idx = nextIndex /\ nextIndex' = nextIndex + 1
  BY <1>0, TurnTakes
<1>4. TakenBelow'
  <2>1. \A u \in Threads : Takes(u)' => th'[u].idx < nextIndex'
    BY <1>0, <1>1, <1>2, <1>3, FieldTypes DEF Index
  <2> QED BY <2>1 DEF TakenBelow
<1>5. TakersApart'
  <2>1. \A u \in Threads : Takes(u) => th[u].idx # nextIndex
    BY <1>0, <1>2, FieldTypes DEF Index
  <2> QED BY <1>3, <2>1 DEF TakersApart, RInv
<1>6. \A i \in Index : Reachable(i)' =>
          Reachable(i) \/ (Private(t) /\ ~Private(t)' /\ i = th[t].idx)
  BY <1>0, TurnReachable
<1>7. ReachableTaken'
  <2>1. \A i \in Index \ ahead : Reachable(i)' => i < nextIndex
    BY <1>2, <1>6 DEF RInv, ReachableTaken, Takes
  <2>2. \A i \in Index \ ahead : Reachable(i)' => i < nextIndex'
    BY <1>0, <1>1, <2>1 DEF Index
  <2> QED BY <2>2 DEF ReachableTaken
<1>8. PrivateUnreached'
  <2>1. ASSUME NEW u \in Threads, NEW i \in Index \ ahead, Private(u)', th'[u].idx = i,
               Reachable(i)'
        PROVE  FALSE
    <3>1. Reachable(i) \/ (Private(t) /\ ~Private(t)' /\ i = th[t].idx)
      BY <1>6, <2>1
    <3>2. CASE Private(u) /\ th'[u].idx = th[u].idx
      BY <2>1, <3>1, <3>2 DEF RInv, PrivateUnreached, TakersApart, Takes
    <3>3. CASE /\ u = t /\ ~Private(t) /\ th'[t].idx = nextIndex
               /\ nextIndex' = nextIndex + 1
      <4>1. i < nextIndex
        BY <3>1, <3>3 DEF RInv, ReachableTaken
      <4> QED BY <1>0, <2>1, <3>3, <4>1 DEF Index
    <3> QED BY <1>0, <2>1, <3>2, <3>3, TurnPrivate
  <2> QED BY <2>1 DEF PrivateUnreached
<1> QED BY <1>4, <1>5, <1>7, <1>8

LEMMA UnlinkThreatens ==
    ASSUME OpOK, NEW t \in Threads, th[t].pc = "unlink"
    PROVE  Threatens(t, th[t].cur)
BY DEF OpOK, Threatens, Doomed, Targeting, Caching

LEMMA ThreatReaches ==
    ASSUME OpOK, NEW t \in Threads, NEW i \in Index, Threatens(t, i)
    PROVE  Reachable(i)
BY DEF OpOK, Threatens, Doomed, Targeting, Holds, Caching, Publishing, Reachable

LEMMA WrittenStep ==
    ASSUME RInv, NEW t \in Threads, Turn(t), ahead' = ahead
    PROVE  WrittenOnDisk'
<1>0. Typed /\ OpOK
  BY DEF RInv
<1>1. ASSUME NEW u \in Threads \ {t}, th'[u].idx \notin ahead
      PROVE  /\ th'[u].pc = "keep" => dataOf'[th'[u].idx] = th'[u].file
             /\ Received(u)' => /\ metaOf'[th'[u].idx] = th'[u].file
                                /\ dataOf'[th'[u].idx] = th'[u].file
  <2>1. th'[u] = th[u] /\ th[u].idx \in Index /\ th[u].idx \notin ahead
    BY <1>0, <1>1, TurnType, FieldTypes
  <2>2. ASSUME th[u].pc = "keep" \/ Received(u)
        PROVE  metaOf'[th[u].idx] = metaOf[th[u].idx] /\ dataOf'[th[u].idx] = dataOf[th[u].idx]
    <3>1. Private(u)
      BY <2>2 DEF Received, Private
    <3>2. ~(Private(t) /\ th[t].idx = th[u].idx)
      BY <3>1 DEF RInv, TakersApart, Takes
    <3>3. ASSUME th[t].pc = "unlink", th[t].cur = th[u].idx
          PROVE  FALSE
      <4>1. Holds(t, th[u].idx)
        BY <3>3 DEF Holds, Targeting
      <4>2. Reachable(th[u].idx)
        BY <4>1 DEF Reachable
      <4> QED BY <2>1, <3>1, <4>2 DEF RInv, PrivateUnreached
    <3> QED BY <1>0, <2>1, <3>2, <3>3, TurnDisk
  <2> QED BY <2>1, <2>2 DEF RInv, WrittenOnDisk, Received
<1>2. ASSUME th'[t].idx \notin ahead
      PROVE  /\ th'[t].pc = "keep" => dataOf'[th'[t].idx] = th'[t].file
             /\ Received(t)' => /\ metaOf'[th'[t].idx] = th'[t].file
                                /\ dataOf'[th'[t].idx] = th'[t].file
  <2>1. CASE th[t].idx \notin ahead
    BY <1>0, <2>1, TurnWritten DEF RInv, WrittenOnDisk
  <2>2. CASE th[t].idx \in ahead
    <3>1. Received(t)' \/ th'[t].pc = "keep" => Private(t)'
      BY DEF Received, Private
    <3>2. ~Received(t)' \/ ~Private(t)
      BY <1>0, <1>2, <2>2, <3>1, TurnPrivate
    <3> QED BY <1>0, <1>2, <2>2, <3>1, <3>2, TurnPrivate, TurnWritten DEF Received, Private
  <2> QED BY <2>1, <2>2
<1> QED BY <1>1, <1>2 DEF WrittenOnDisk

-----------------------------------------------------------------------------
(* Files on record.                                                        *)

\* A safe file stays safe, and listed, in every step but the one in which a delete
\* command chooses it.
LEMMA SafeStep ==
    ASSUME RInv, NEW t \in Threads, Turn(t), NEW i \in Index \ ahead, NEW f \in Files,
           Safe(i, f), Reachable(i),
           ~(th[t].pc = "nonce" /\ th'[t].pc = "unindex" /\ th'[t].cur = i)
    PROVE  Safe(i, f)' /\ i < nextIndex /\ (InFull(i, f) => InFull(i, f)')
<1>0. Typed /\ OpOK /\ i \in Index
  BY DEF RInv
<1>1. i < nextIndex
  BY DEF RInv, ReachableTaken
<1>2. \A u \in Threads : ~(Private(u) /\ th[u].idx = i)
  BY DEF RInv, PrivateUnreached
<1>3. \A u \in Threads : ~Threatens(u, i)
  BY DEF Safe
<1>4. metaOf'[i] = f /\ dataOf'[i] = f
  <2>1. ~(th[t].pc = "unlink" /\ i = th[t].cur)
    BY <1>0, <1>3, UnlinkThreatens
  <2> QED BY <1>0, <1>2, <2>1, TurnDisk DEF Safe
<1>5. InFull(i, f) => InFull(i, f)'
  BY <1>0, <1>2, <1>3, TurnEntry DEF InFull
<1>6. i \notin Cached' \cup ToSet(savedList') /\ <<i, "temp">> \notin outgoing'
  BY <1>0, <1>2, TurnLists DEF Safe, Cached
<1>7. ASSUME NEW u \in Threads, Threatens(u, i)'
      PROVE  FALSE
  <2>1. CASE u # t
    <3>1. Threatens(u, i)
      BY <1>0, <1>7, <2>1, TurnType DEF Threatens, Doomed, Targeting, Publishing, Caching
    <3> QED BY <1>3, <3>1
  <2>2. CASE u = t /\ Step(t)
    BY <1>0, <1>2, <1>3, <1>7, <2>2, ThreatCourse DEF Safe
  <2>3. CASE u = t /\ Abandon(t)
    BY <1>0, <1>7, <2>3, AbandonEffect DEF Threatens, Doomed, Targeting, Publishing, Caching,
                                           Incoming
  <2> QED BY <2>1, <2>2, <2>3 DEF Turn
<1> QED BY <1>1, <1>4, <1>5, <1>6, <1>7 DEF Safe

\* Only the thread that has filed a file is about to put it on record, and it is safe
\* from the moment in which it is filed.
LEMMA KeepSafe ==
    ASSUME RInv, NEW t \in Threads, Step(t), Keep(t), NEW i \in Index \ ahead,
           NEW f \in Files, th'[t].idx = i, th'[t].file = f
    PROVE  Safe(i, f)' /\ InFull(i, f)'
<1>0. Typed /\ OpOK /\ i \in Index /\ Turn(t)
  BY DEF RInv, Turn
<1>1. th[t].pc = "keep" /\ th[t].idx = i /\ th[t].file = f
  BY <1>0, LabelNames, GotoEffect DEF Keep, EnterMaps, Moved, At
<1>2. Private(t) /\ Takes(t)
  BY <1>1 DEF Private, Takes
<1>3. ~Reachable(i)
  BY <1>1, <1>2 DEF RInv, PrivateUnreached
<1>4. metaOf'[i] = f /\ dataOf'[i] = f /\ InFull(i, f)'
  BY <1>0, <1>1 DEF Keep, EnterMaps, InFull, Typed, RInv, WrittenOnDisk
<1>5. UNCHANGED <<cacheList, savedList, outgoing>>
  BY DEF Keep, EnterMaps, cache, saved, sending
<1>6. i \notin Cached' \cup ToSet(savedList') /\ <<i, "temp">> \notin outgoing'
  BY <1>3, <1>5 DEF Reachable, Named, Cached, Payloads
<1>7. ASSUME NEW u \in Threads, Threatens(u, i)'
      PROVE  FALSE
  <2>1. CASE u # t
    <3>1. Threatens(u, i)
      BY <1>0, <1>7, <2>1, TurnType DEF Threatens, Doomed, Targeting, Publishing, Caching
    <3> QED BY <1>0, <1>3, <3>1, ThreatReaches
  <2>2. CASE u = t
    <3>1. th'[t].op = "keep" /\ th'[t].pc = "persist"
      BY <1>0, <1>1, LabelNames, GotoEffect DEF Keep, EnterMaps, Moved, OpOK
    <3> QED BY <1>7, <2>2, <3>1 DEF Threatens, Doomed, Targeting, Publishing, Caching, Incoming
  <2> QED BY <2>1, <2>2
<1> QED BY <1>4, <1>6, <1>7 DEF Safe

LEMMA FiledStepSafe ==
    ASSUME RInv, NEW t \in Threads, Turn(t), ahead' = ahead
    PROVE  FiledSafe'
<1>0. Typed /\ OpOK
  BY DEF RInv
<1>1. SUFFICES ASSUME NEW u \in Threads, NEW i \in Index \ ahead, NEW f \in Files,
                      th'[u].pc = "persist", th'[u].op = "keep", th'[u].idx = i,
                      th'[u].file = f, InMaps(i)'
               PROVE  Safe(i, f)' /\ InFull(i, f)'
  BY DEF FiledSafe, At
<1>2. CASE u = t /\ Step(t)
  BY <1>0, <1>1, <1>2, PersistCourse, KeepSafe
<1>3. CASE u = t /\ Abandon(t)
  BY <1>0, <1>1, <1>3, AbandonEffect
<1>4. CASE u # t
  <2>1. th[u].pc = "persist" /\ th[u].op = "keep" /\ th[u].idx = i /\ th[u].file = f
    BY <1>0, <1>1, <1>4, TurnType
  <2>2. Takes(u) /\ Publishing(u) /\ th[u].op \notin Incoming
    BY <2>1 DEF Takes, Publishing, Incoming
  <2>3. Reachable(i)
    BY <2>1, <2>2 DEF Reachable, Holds
  <2>4. entry'[i] = entry[i] /\ entry[i] # NoFile
    <3>1. entry'[i] # NoFile
      BY <1>1 DEF InMaps
    <3>2. ~(Takes(t) /\ th[t].idx = i)
      BY <1>4, <2>1, <2>2 DEF RInv, TakersApart
    <3>3. Awaited(t) => Takes(t)
      BY <1>0, AwaitedTakes
    <3> QED BY <1>0, <3>1, <3>2, <3>3, TurnEntry DEF Takes
  <2>5. \A v \in Threads : ~(At(v, "unindex") /\ th[v].op = "delete" /\ th[v].cur = i)
    <3>1. ASSUME NEW v \in Threads \ {t}, At(v, "unindex"), th[v].op = "delete", th[v].cur = i
          PROVE  FALSE
      <4>1. th'[v] = th[v]
        BY <1>0, TurnType
      <4> QED BY <1>1, <3>1, <4>1 DEF InMaps, At
    <3>2. ASSUME At(t, "unindex"), th[t].op = "delete", th[t].cur = i
          PROVE  FALSE
      <4>1. CASE Step(t)
        <5>1. entry'[i] = NoFile
          BY <1>0, <3>2, <4>1, PersistCourse DEF At
        <5> QED BY <2>4, <5>1
      <4>2. CASE Abandon(t)
        BY <3>2, <4>2 DEF Abandon, At
      <4> QED BY <4>1, <4>2 DEF Turn
    <3> QED BY <3>1, <3>2
  <2>6. Safe(i, f) /\ InFull(i, f)
    BY <2>1, <2>4, <2>5 DEF RInv, FiledSafe, InMaps, At
  <2>7. ~(th[t].pc = "nonce" /\ th'[t].pc = "unindex" /\ th'[t].cur = i)
    <3>1. ASSUME th[t].pc = "nonce", th'[t].pc = "unindex", th'[t].cur = i
          PROVE  FALSE
      <4>1. Step(t)
        BY <3>1 DEF Turn, Abandon, At
      <4>2. th'[t].op = "delete"
        BY <1>0, <3>1, <4>1, PersistCourse
      <4> QED BY <1>1, <3>1, <4>2 DEF InMaps, At
    <3> QED BY <3>1
  <2> QED BY <2>3, <2>6, <2>7, SafeStep
<1> QED BY <1>2, <1>3, <1>4 DEF Turn

\* What goes on record is what Persist writes, and what is chosen by a delete command
\* leaves it.
LEMMA StoredStep ==
    ASSUME RInv, NEW t \in Threads, Turn(t), stored' = Recorded(t), ahead' = ahead,
           cut' = cut, At(t, "persist") => Step(t)
    PROVE  StoredSafe' /\ stored' \subseteq Index \X Files
<1>0. Typed /\ OpOK /\ nextIndex \in Nat
  BY DEF RInv, Typed
<1>1. stored' \subseteq Index \X Files
  <2>1. th[t].idx \in Index
    BY <1>0, FieldTypes
  <2>2. th[t].op = "keep" => th[t].file \in Files
    BY <1>0 DEF OpOK
  <2> QED BY <2>1, <2>2 DEF RInv, Recorded
<1>2. SUFFICES ASSUME NEW i \in Index \ ahead, NEW f \in Files, <<i, f>> \in stored'
               PROVE  /\ Safe(i, f)' /\ i < savedIndex'
                      /\ i \notin cut => InFull(i, f)' /\ SavedInFull(i, f)'
  BY <1>1 DEF StoredSafe
<1>3. ~(th[t].pc = "nonce" /\ th'[t].pc = "unindex" /\ th'[t].cur = i)
  BY <1>2 DEF Recorded
<1>4. CASE <<i, f>> \in stored
  <2>1. /\ Safe(i, f) /\ i < savedIndex
        /\ i \notin cut => InFull(i, f) /\ SavedInFull(i, f)
    BY <1>4 DEF RInv, StoredSafe
  <2>2. Reachable(i)
    BY <1>4 DEF Reachable, OnRecord
  <2>3. Safe(i, f)' /\ i < nextIndex /\ (InFull(i, f) => InFull(i, f)')
    BY <1>3, <2>1, <2>2, SafeStep
  <2>4. InFull(i, f)' /\ SavedInFull(i, f) => SavedInFull(i, f)'
    BY <1>0, TurnLists DEF InFull, SavedInFull
  <2>5. savedIndex' \in {savedIndex, nextIndex}
    BY <1>0, PersistCourse DEF Turn, Abandon, saved
  <2> QED BY <2>1, <2>3, <2>4, <2>5
<1>5. CASE /\ At(t, "persist") /\ th[t].op = "keep" /\ InMaps(th[t].idx)
           /\ i = th[t].idx /\ f = th[t].file
  <2>1. Safe(i, f) /\ InFull(i, f)
    BY <1>5 DEF RInv, FiledSafe
  <2>2. Reachable(i)
    BY <1>5 DEF Reachable, Holds, Publishing, At
  <2>3. Safe(i, f)' /\ i < nextIndex /\ InFull(i, f)'
    BY <1>3, <2>1, <2>2, SafeStep
  <2>4. savedEntry' = entry /\ savedMaps' = maps /\ savedIndex' = nextIndex
    BY <1>0, <1>5, PersistCourse DEF At
  <2>5. SavedInFull(i, f)'
    BY <2>1, <2>4 DEF InFull, SavedInFull
  <2> QED BY <2>3, <2>4, <2>5
<1> QED BY <1>2, <1>4, <1>5 DEF Recorded

\* The files of an index are what it is filed under, or their .meta file is gone.
LEMMA DescribesStep ==
    ASSUME RInv, NEW t \in Threads, Turn(t), NEW i \in Index \ ahead, NEW f \in Files,
           Describes(i, f),
           Reachable(i) \/ \E u \in Threads : Awaited(u) /\ th[u].idx = i
    PROVE  Describes(i, f)'
<1>0. Typed /\ OpOK
  BY DEF RInv
<1>1. ~(Private(t) /\ th[t].idx = i)
  <2>1. CASE Reachable(i)
    BY <2>1 DEF RInv, PrivateUnreached
  <2>2. CASE \E u \in Threads : Awaited(u) /\ th[u].idx = i
    <3>1. PICK u \in Threads : Awaited(u) /\ th[u].idx = i
      BY <2>2
    <3>2. Takes(u) /\ ~Private(u)
      BY <1>0, <3>1, AwaitedTakes DEF Awaited
    <3> QED BY <3>1, <3>2 DEF RInv, TakersApart, Takes
  <2> QED BY <2>1, <2>2
<1> QED BY <1>0, <1>1, TurnDisk DEF Describes

LEMMA DescribedStep ==
    ASSUME RInv, NEW t \in Threads, Turn(t), ahead' = ahead
    PROVE  Described'
<1>0. Typed /\ OpOK
  BY DEF RInv
<1> SUFFICES ASSUME NEW i \in Index \ ahead, NEW f \in Files
             PROVE  /\ f \in {entry'[i], savedEntry'[i]} => Describes(i, f)'
                    /\ \A u \in Threads :
                          Awaited(u)' /\ th'[u].idx = i /\ th'[u].file = f => Describes(i, f)'
  BY DEF Described
<1>f. f # NoFile
  BY FilesAssumption
<1>1. f = entry'[i] => Describes(i, f)'
  <2>0. ASSUME f = entry'[i] PROVE Describes(i, f)'
    <3>1. CASE entry'[i] = entry[i]
      <4>1. Reachable(i) /\ Describes(i, f)
        BY <1>f, <2>0, <3>1 DEF RInv, Described, Reachable, Named
      <4> QED BY <4>1, DescribesStep
    <3>2. CASE Awaited(t) /\ th[t].idx = i /\ entry'[i] = th[t].file
      <4>1. Describes(i, f)
        BY <2>0, <3>2 DEF RInv, Described
      <4> QED BY <3>2, <4>1, DescribesStep
    <3>3. CASE Private(t) /\ Keep(t) /\ th[t].idx = i /\ entry'[i] = th[t].file
      <4>1. th'[t].idx = i /\ th'[t].file = f
        BY <1>0, <2>0, <3>3, LabelNames, GotoEffect DEF Keep, EnterMaps, Moved
      <4>2. Step(t)
        BY <3>3 DEF Step
      <4>3. Safe(i, f)'
        BY <3>3, <4>1, <4>2, KeepSafe
      <4> QED BY <4>3 DEF Safe, Describes
    <3> QED BY <1>0, <1>f, <2>0, <3>1, <3>2, <3>3, TurnEntry
  <2> QED BY <2>0
<1>2. f = savedEntry'[i] => Describes(i, f)'
  <2>1. CASE savedEntry'[i] = savedEntry[i] /\ f = savedEntry'[i]
    <3>1. Reachable(i) /\ Describes(i, f)
      BY <1>f, <2>1 DEF RInv, Described, Reachable
    <3> QED BY <3>1, DescribesStep
  <2> QED BY <1>0, <1>1, <2>1, TurnLists
<1>3. ASSUME NEW u \in Threads, Awaited(u)', th'[u].idx = i, th'[u].file = f
      PROVE  Describes(i, f)'
  <2>1. CASE Awaited(u) /\ th[u].idx = i /\ th[u].file = f
    <3>1. Describes(i, f)
      BY <2>1 DEF RInv, Described
    <3> QED BY <2>1, <3>1, DescribesStep
  <2>2. CASE u # t
    <3>1. Awaited(u) /\ th[u].idx = i /\ th[u].file = f
      BY <1>0, <1>3, <2>2, TurnType DEF Awaited, Unfiled, Received, Private
    <3> QED BY <2>1, <3>1
  <2>3. CASE u = t /\ Step(t)
    <3>1. /\ Awaited(t) \/ CachePush(t) \/ KeepGot(t)
          /\ th[t].idx = i /\ th[t].file = f
      BY <1>0, <1>3, <2>3, FiledCourse
    <3>2. CASE CachePush(t) \/ KeepGot(t)
      <4>1. Received(t)
        BY <3>2 DEF CachePush, KeepGot, At, Received
      <4>2. metaOf[i] = f /\ dataOf[i] = f
        BY <3>1, <4>1 DEF RInv, WrittenOnDisk
      <4>3. UNCHANGED <<metaOf, dataOf>>
        BY <3>2 DEF CachePush, KeepGot, disk
      <4> QED BY <4>2, <4>3 DEF Describes
    <3> QED BY <2>1, <2>3, <3>1, <3>2
  <2>4. CASE u = t /\ Abandon(t)
    BY <1>0, <1>3, <2>4, AbandonEffect DEF Awaited, Incoming
  <2> QED BY <2>2, <2>3, <2>4 DEF Turn
<1> QED BY <1>1, <1>2, <1>3

LEMMA SavedTurn ==
    ASSUME RInv, NEW t \in Threads, Turn(t)
    PROVE  SavedOrPending'
<1>1. CASE Step(t)
  BY <1>1, SavedStep DEF RInv
<1>2. CASE Abandon(t)
  <2>1. UNCHANGED <<entry, maps, cacheList, savedEntry, savedMaps, savedList>>
    BY <1>2 DEF Abandon, index, cache, saved
  <2>2. \A u \in Threads : /\ PersistPending(u) => PersistPending(u)'
                           /\ ListPending(u) => ListPending(u)'
    BY <1>2, AbandonEffect DEF RInv, PersistPending, ListPending, Caching
  <2> QED BY <2>1, <2>2 DEF RInv, SavedOrPending, Cached
<1> QED BY <1>1, <1>2 DEF Turn

LEMMA TurnInv ==
    ASSUME RInv, NEW t \in Threads, Turn(t), stored' = Recorded(t), ahead' = ahead,
           cut' = cut
    PROVE  RInv'
<1>1. Typed' /\ OpOK'
  BY TurnType DEF RInv
<1>2. At(t, "persist") => Step(t)
  BY DEF Turn, Abandon, At
<1> QED BY <1>1, <1>2, ReachableStep, WrittenStep, FiledStepSafe, StoredStep, DescribedStep,
           SavedTurn DEF RInv

-----------------------------------------------------------------------------
(* The send threads, and an end at rest.                                   *)

\* A step that leaves the threads alone, takes nothing but messages away, writes the
\* files of the file system from memory if at all, and touches no file but those of a
\* "temp" message, keeps the invariant.
Settles ==
    /\ UNCHANGED <<nextIndex, entry, maps, cacheList, owned, fileIDs, th, stored, ahead, cut>>
    /\ outgoing' \subseteq outgoing
    /\ \/ UNCHANGED <<savedEntry, savedMaps, savedIndex>>
       \/ savedEntry' = entry /\ savedMaps' = maps /\ savedIndex' = nextIndex
    /\ UNCHANGED savedList \/ savedList' = cacheList
    /\ \A i \in Index : \/ metaOf'[i] = metaOf[i] /\ dataOf'[i] = dataOf[i]
                        \/ <<i, "temp">> \in outgoing /\ metaOf'[i] = NoFile

LEMMA SettlesSafe ==
    ASSUME RInv, Settles, NEW i \in Index \ ahead, NEW f \in Files, Safe(i, f), Reachable(i)
    PROVE  Safe(i, f)' /\ i < nextIndex /\ (InFull(i, f) => InFull(i, f)')
<1>1. i < nextIndex /\ (InFull(i, f) => InFull(i, f)')
  BY DEF RInv, ReachableTaken, Settles, InFull
<1>2. metaOf'[i] = f /\ dataOf'[i] = f
  BY DEF Settles, Safe
<1>3. i \notin Cached' \cup ToSet(savedList') /\ <<i, "temp">> \notin outgoing'
  BY DEF Settles, Safe, Cached
<1>4. \A u \in Threads : ~Threatens(u, i)'
  BY DEF Settles, Safe, Threatens, Doomed, Targeting, Publishing, Caching
<1> QED BY <1>1, <1>2, <1>3, <1>4 DEF Safe

LEMMA SettlesInv ==
    ASSUME RInv, Settles, Typed'
    PROVE  RInv'
<1>1. OpOK' /\ stored' \subseteq Index \X Files /\ TakenBelow' /\ TakersApart'
  BY DEF RInv, Settles, OpOK, Caching, TakenBelow, TakersApart, Takes, Private, Publishing
<1>2. \A i \in Index : Reachable(i)' => Reachable(i)
  BY DEF Settles, Reachable, Named, Cached, Holds, Targeting, Publishing, OnRecord
<1>3. ReachableTaken' /\ PrivateUnreached'
  BY <1>2 DEF RInv, Settles, ReachableTaken, PrivateUnreached, Private
<1>4. WrittenOnDisk'
  <2>1. ASSUME NEW u \in Threads, th[u].idx \notin ahead, Private(u)
        PROVE  metaOf'[th[u].idx] = metaOf[th[u].idx] /\ dataOf'[th[u].idx] = dataOf[th[u].idx]
    <3>1. th[u].idx \in Index
      BY FieldTypes DEF RInv
    <3>2. ~Reachable(th[u].idx)
      BY <2>1, <3>1 DEF RInv, PrivateUnreached
    <3>3. <<th[u].idx, "temp">> \notin outgoing
      BY <3>2 DEF Reachable, Named, Payloads
    <3> QED BY <3>1, <3>3 DEF Settles
  <2>2. \A u \in Threads : Received(u) \/ th[u].pc = "keep" => Private(u)
    BY DEF Received, Private
  <2>3. UNCHANGED <<th, ahead>>
    BY DEF Settles
  <2>4. ASSUME NEW u \in Threads, th[u].idx \notin ahead
        PROVE  /\ th[u].pc = "keep" => dataOf'[th[u].idx] = th[u].file
               /\ Received(u) => /\ metaOf'[th[u].idx] = th[u].file
                                 /\ dataOf'[th[u].idx] = th[u].file
    BY <2>1, <2>2, <2>4 DEF RInv, WrittenOnDisk
  <2> QED BY <2>3, <2>4 DEF WrittenOnDisk, Received
<1>5. StoredSafe'
  <2>1. ASSUME NEW i \in Index \ ahead, NEW f \in Files, <<i, f>> \in stored
        PROVE  /\ Safe(i, f)' /\ i < savedIndex'
               /\ i \notin cut => InFull(i, f)' /\ SavedInFull(i, f)'
    <3>1. /\ Safe(i, f) /\ i < savedIndex /\ Reachable(i)
          /\ i \notin cut => InFull(i, f) /\ SavedInFull(i, f)
      BY <2>1 DEF RInv, StoredSafe, Reachable, OnRecord
    <3>2. Safe(i, f)' /\ i < nextIndex /\ (InFull(i, f) => InFull(i, f)')
      BY <3>1, SettlesSafe
    <3>3. InFull(i, f) /\ SavedInFull(i, f) => SavedInFull(i, f)'
      BY DEF Settles, InFull, SavedInFull
    <3> QED BY <3>1, <3>2, <3>3 DEF Settles
  <2> QED BY <2>1 DEF StoredSafe, Settles
<1>6. FiledSafe'
  <2>1. ASSUME NEW u \in Threads, NEW i \in Index \ ahead, NEW f \in Files,
               At(u, "persist"), th[u].op = "keep", th[u].idx = i, th[u].file = f, InMaps(i)
        PROVE  Safe(i, f)' /\ InFull(i, f)'
    <3>1. Safe(i, f) /\ InFull(i, f)
      BY <2>1 DEF RInv, FiledSafe
    <3>2. Reachable(i)
      BY <2>1 DEF Reachable, Holds, Publishing, At
    <3> QED BY <3>1, <3>2, SettlesSafe
  <2>2. \A i \in Index : InMaps(i)' => InMaps(i)
    BY DEF Settles, InMaps, At
  <2> QED BY <2>1, <2>2 DEF FiledSafe, Settles, At
<1>7. Described'
  <2>1. \A i \in Index, f \in Files : Describes(i, f) => Describes(i, f)'
    BY DEF Settles, Describes
  <2> QED BY <2>1 DEF RInv, Described, Settles, Awaited, Unfiled, Received, Private
<1>8. SavedOrPending'
  BY DEF RInv, Settles, SavedOrPending, PersistPending, ListPending, Caching, Cached
<1> QED BY <1>1, <1>3, <1>4, <1>5, <1>6, <1>7, <1>8 DEF RInv

LEMMA MessageSettles ==
    ASSUME RInv, NEW m \in outgoing, Message(m), UNCHANGED <<stored, ahead, cut>>
    PROVE  RInv'
<1>1. Typed'
  BY MessageType DEF RInv
<1>2. \A i \in Index : metaOf'[i] # metaOf[i] \/ dataOf'[i] # dataOf[i] =>
          <<i, "temp">> \in outgoing /\ metaOf'[i] = NoFile
  <2>1. CASE SendFile(m)
    <3>1. m = <<m[1], m[2]>> /\ m[1] \in Index /\ Typed
      BY DEF RInv, Typed
    <3>2. CASE m[2] = "temp"
      BY <2>1, <3>1, <3>2 DEF SendFile, RemoveFiles, Typed
    <3>3. CASE m[2] # "temp"
      BY <2>1, <3>3 DEF SendFile
    <3> QED BY <3>2, <3>3
  <2>2. CASE SendFails(m) \/ SendQueueCleared(m)
    BY <2>2 DEF SendFails, SendQueueCleared, Crash, disk
  <2> QED BY <2>1, <2>2 DEF Message
<1>3. Settles
  BY <1>2, MessageFrame DEF RInv, Settles, saved
<1> QED BY <1>1, <1>3, SettlesInv

LEMMA CloseInv ==
    ASSUME RInv, CloseMaps \/ CloseList \/ UNCHANGED rvars
    PROVE  RInv'
<1> USE DEF CloseMaps, CloseList, rvars, vars, index, cache, disk, saved, sending
<1>1. Typed'
  BY DEF RInv, Typed
<1>2. Settles
  BY DEF Settles
<1> QED BY <1>1, <1>2, SettlesInv

LEMMA RunInv ==
    ASSUME RInv, Run
    PROVE  RInv'
<1>1. CASE \E m \in outgoing : Message(m) /\ UNCHANGED stored
  BY <1>1, MessageSettles DEF Run
<1>2. ASSUME NEW t \in Threads, (Step(t) /\ ~Leftover(t)) \/ RecvOver(t), stored' = Recorded(t)
      PROVE  RInv'
  <2>1. Turn(t)
    BY <1>2, RecvOverTurn DEF RInv, Turn
  <2> QED BY <1>2, <2>1, TurnInv DEF Run
<1> QED BY <1>1, <1>2 DEF Run, Message

-----------------------------------------------------------------------------
(* The next start.                                                         *)

LEMMA IdleHolds ==
    ASSUME NEW t \in Threads, th[t] = Idle
    PROVE  /\ ~Takes(t) /\ ~Private(t) /\ ~Received(t) /\ ~Awaited(t)
           /\ ~PersistPending(t) /\ ~ListPending(t) /\ th[t].pc = "idle"
           /\ \A i \in Index : ~Holds(t, i) /\ ~Threatens(t, i)
BY DEF Idle, Takes, Private, Publishing, Received, Awaited, Unfiled, PersistPending,
       ListPending, Holds, Targeting, Threatens, Doomed, Caching, Incoming

\* What a start finds in the files, whether or not the process was killed while it was
\* writing them.
Starts ==
    /\ th' = [t \in Threads |-> Idle] /\ cacheLock' = NoThread
    /\ fileIDs' = {} /\ outgoing' = {} /\ orphans' \subseteq Index
    /\ UNCHANGED <<metaOf, dataOf, owned, stored>>
    /\ savedEntry' \in [Index -> Files \cup {NoFile}]
    /\ \A i \in Index : savedEntry'[i] \in {savedEntry[i], entry[i], NoFile}
    /\ savedMaps' \in [Maps -> SUBSET Index] /\ savedIndex' \in {savedIndex, 0}
    /\ savedList' \in Seq(Index) /\ ToSet(savedList') \subseteq ToSet(savedList) \cup Cached
    /\ entry' = savedEntry' /\ maps' = savedMaps'
    /\ nextIndex' = savedIndex' /\ cacheList' = savedList'
    /\ ahead \subseteq ahead' /\ cut \subseteq cut'
    /\ \A i \in Index \ ahead' :
          savedEntry'[i] # NoFile \/ i \in ToSet(savedList') \/ OnRecord(i) => i < savedIndex'
    /\ \A i \in Index \ cut', f \in Files :
          OnRecord(i) /\ InFull(i, f) /\ SavedInFull(i, f) => SavedInFull(i, f)'

\* What a kill in the middle of update_filesys leaves of an index in its files is what
\* they said, or what the maps say, or nothing.
LEMMA HalfSaved ==
    ASSUME Typed, MapsHalfSaved
    PROVE  /\ savedEntry' \in [Index -> Files \cup {NoFile}]
           /\ \A i \in Index : savedEntry'[i] \in {savedEntry[i], entry[i], NoFile}
           /\ savedMaps' \in [Maps -> SUBSET Index] /\ savedIndex' \in {savedIndex, 0}
           /\ cut \subseteq cut'
           /\ \A i \in Index \ cut', f \in Files :
                 OnRecord(i) /\ InFull(i, f) /\ SavedInFull(i, f) => SavedInFull(i, f)'
<1>1. ASSUME NEW k \in Maps, NEW kept \in SUBSET maps[k],
             savedMaps' = [m \in Maps |-> IF m < k THEN maps[m]
                                         ELSE IF m = k THEN kept ELSE savedMaps[m]],
             savedEntry' = Mixed(k), cut' = cut \cup {i \in maps[k] \ kept : OnRecord(i)},
             UNCHANGED savedIndex
      PROVE  /\ savedEntry' \in [Index -> Files \cup {NoFile}]
             /\ \A i \in Index : savedEntry'[i] \in {savedEntry[i], entry[i], NoFile}
             /\ savedMaps' \in [Maps -> SUBSET Index] /\ savedIndex' \in {savedIndex, 0}
             /\ cut \subseteq cut'
             /\ \A i \in Index \ cut', f \in Files :
                   OnRecord(i) /\ InFull(i, f) /\ SavedInFull(i, f) => SavedInFull(i, f)'
  <2>1. savedMaps' \in [Maps -> SUBSET Index]
    BY <1>1 DEF Typed
  <2>2. \A i \in Index : savedEntry'[i] \in {savedEntry[i], entry[i], NoFile}
    BY <1>1 DEF Mixed
  <2>3. savedEntry' \in [Index -> Files \cup {NoFile}]
    BY <1>1 DEF Mixed, Typed
  <2>4. ASSUME NEW i \in Index \ cut', NEW f \in Files,
               OnRecord(i), InFull(i, f), SavedInFull(i, f)
        PROVE  SavedInFull(i, f)'
    <3>1. \A m \in Maps : i \in savedMaps'[m]
      BY <1>1, <2>4 DEF InFull, SavedInFull
    <3>2. savedEntry'[i] = f
      BY <1>1, <2>4, <3>1 DEF Mixed, InFull, SavedInFull, Maps
    <3> QED BY <3>1, <3>2 DEF SavedInFull
  <2> QED BY <1>1, <2>1, <2>2, <2>3, <2>4
<1>2. CASE /\ savedMaps' = maps /\ savedEntry' = entry
           /\ savedIndex' \in {savedIndex, 0} /\ UNCHANGED cut
  BY <1>2 DEF Typed, InFull, SavedInFull
<1> QED BY <1>1, <1>2 DEF MapsHalfSaved

LEMMA ListHalf ==
    ASSUME Typed, ListHalfSaved
    PROVE  savedList' \in Seq(Index) /\ ToSet(savedList') \subseteq Cached
<1>1. PICK n \in 0 .. Len(cacheList) : savedList' = SubSeq(cacheList, 1, n)
  BY DEF ListHalfSaved
<1>2. cacheList \in Seq(Index) /\ Len(cacheList) \in Nat
  BY DEF Typed
<1>3. CASE n = 0
  <2>1. savedList' = <<>>
    BY <1>1, <1>2, <1>3, SubSeqEmpty
  <2> QED BY <2>1, EmptyFacts
<1>4. CASE n # 0
  <2>1. 1 \in 1 .. Len(cacheList) + 1 /\ n \in 1 - 1 .. Len(cacheList)
    BY <1>1, <1>2, <1>4
  <2>2. /\ savedList' \in Seq(Index) /\ Len(savedList') = n
        /\ \A j \in 1 .. n : savedList'[j] = cacheList[j]
    BY <1>1, <1>2, <1>4, <2>1, SubSeqProperties
  <2> QED BY <1>1, <1>2, <2>2 DEF Cached, ToSet
<1> QED BY <1>3, <1>4

LEMMA RestartStarts ==
    ASSUME Typed, Restarted \/ KilledWhileSaving
    PROVE  Starts
<1>1. LoadFiles
  BY DEF Restarted, KilledWhileSaving
<1>2. /\ savedEntry' \in [Index -> Files \cup {NoFile}]
      /\ \A i \in Index : savedEntry'[i] \in {savedEntry[i], entry[i], NoFile}
      /\ savedMaps' \in [Maps -> SUBSET Index] /\ savedIndex' \in {savedIndex, 0}
      /\ cut \subseteq cut'
      /\ \A i \in Index \ cut', f \in Files :
            OnRecord(i) /\ InFull(i, f) /\ SavedInFull(i, f) => SavedInFull(i, f)'
  <2>1. CASE UNCHANGED <<savedEntry, savedMaps, savedIndex, cut>>
    BY <2>1 DEF Typed, SavedInFull
  <2>2. CASE MapsHalfSaved
    BY <2>2, HalfSaved
  <2> QED BY <2>1, <2>2 DEF Restarted, KilledWhileSaving, saved
<1>3. savedList' \in Seq(Index) /\ ToSet(savedList') \subseteq ToSet(savedList) \cup Cached
  <2>1. CASE UNCHANGED savedList
    BY <2>1 DEF Typed
  <2>2. CASE ListHalfSaved
    BY <2>2, ListHalf
  <2> QED BY <2>1, <2>2 DEF Restarted, KilledWhileSaving, saved
<1>4. /\ th' = [t \in Threads |-> Idle] /\ cacheLock' = NoThread
      /\ fileIDs' = {} /\ outgoing' = {}
      /\ entry' = savedEntry' /\ maps' = savedMaps'
      /\ nextIndex' = savedIndex' /\ cacheList' = savedList'
      /\ UNCHANGED <<metaOf, dataOf, owned, stored>>
  BY <1>1 DEF LoadFiles, Begin, Load, LoadLists, disk
 <1>5. /\ \E S : /\ ahead' = ahead \cup S
                /\ \A i \in Index \ S :
                      savedEntry'[i] # NoFile \/ i \in ToSet(savedList') \/ OnRecord(i)
                     => ~(i >= savedIndex')
      /\ orphans' \subseteq Index
  BY <1>1 DEF LoadFiles
<1>6. savedIndex' \in Nat /\ Index \subseteq Nat
  BY <1>2, BoundAssumption DEF Typed, Index
<1> QED BY <1>2, <1>3, <1>4, <1>5, <1>6 DEF Starts

LEMMA StartInv ==
    ASSUME RInv, Starts
    PROVE  RInv'
<1>1. Typed'
  <2>1. th' \in [Threads -> ThreadState]
    BY IdleType DEF Starts
  <2> QED BY <2>1, BoundAssumption DEF RInv, Starts, Typed
<1>2. \A t \in Threads : th'[t] = Idle
  BY DEF Starts
<1>3. \A t \in Threads :
         /\ ~Takes(t)' /\ ~Private(t)' /\ ~Received(t)' /\ ~Awaited(t)' /\ th'[t].pc = "idle"
         /\ \A i \in Index : ~Holds(t, i)' /\ ~Threatens(t, i)'
  BY <1>2 DEF Idle, Takes, Private, Publishing, Received, Awaited, Unfiled, Holds,
              Targeting, Threatens, Doomed, Caching, Incoming
<1>4. OpOK' /\ stored' \subseteq Index \X Files
  BY <1>2 DEF RInv, Starts, OpOK, Idle, Caching, Incoming
<1>5. TakenBelow' /\ TakersApart' /\ PrivateUnreached' /\ WrittenOnDisk' /\ FiledSafe'
  BY <1>3 DEF TakenBelow, TakersApart, PrivateUnreached, WrittenOnDisk, FiledSafe, At
<1>6. ReachableTaken'
  <2>1. \A i \in Index : Reachable(i)' =>
            savedEntry'[i] # NoFile \/ i \in ToSet(savedList') \/ OnRecord(i)
    BY <1>3 DEF Starts, Reachable, Named, Cached, OnRecord
  <2> QED BY <2>1 DEF Starts, ReachableTaken
<1>7. StoredSafe'
  <2>1. ASSUME NEW i \in Index \ ahead', NEW f \in Files, <<i, f>> \in stored
        PROVE  /\ Safe(i, f)' /\ i < savedIndex'
               /\ i \notin cut' => InFull(i, f)' /\ SavedInFull(i, f)'
    <3>1. /\ Safe(i, f) /\ OnRecord(i)
          /\ i \notin cut' => InFull(i, f) /\ SavedInFull(i, f)
      BY <2>1 DEF RInv, Starts, StoredSafe, OnRecord
    <3>2. i < savedIndex'
      BY <3>1 DEF Starts
    <3>3. i \notin cut' => InFull(i, f)' /\ SavedInFull(i, f)'
      BY <3>1 DEF Starts, InFull, SavedInFull
    <3>4. Safe(i, f)'
      BY <1>3, <3>1 DEF Starts, Safe, Cached
    <3> QED BY <3>2, <3>3, <3>4
  <2> QED BY <2>1 DEF StoredSafe, Starts
<1>8. Described'
  <2>1. ASSUME NEW i \in Index \ ahead', NEW f \in Files, f \in {entry'[i], savedEntry'[i]}
        PROVE  Describes(i, f)'
    <3>1. f \in {entry[i], savedEntry[i]} /\ i \notin ahead
      BY <2>1, FilesAssumption DEF Starts
    <3>2. Describes(i, f)
      BY <2>1, <3>1 DEF RInv, Described
    <3> QED BY <3>2 DEF Starts, Describes
  <2> QED BY <1>3, <2>1 DEF Described
<1>9. SavedOrPending'
  BY DEF Starts, SavedOrPending, Cached
<1> QED BY <1>1, <1>4, <1>5, <1>6, <1>7, <1>8, <1>9 DEF RInv

\* A node without files: the first start, and one with -reset.
Blanks ==
    /\ nextIndex = 0 /\ entry = [i \in Index |-> NoFile] /\ maps = [m \in Maps |-> {}]
    /\ cacheList = <<>> /\ cacheLock = NoThread
    /\ metaOf = [i \in Index |-> NoFile] /\ dataOf = [i \in Index |-> NoFile]
    /\ owned = {}
    /\ savedEntry = [i \in Index |-> NoFile] /\ savedMaps = [m \in Maps |-> {}]
    /\ savedIndex = 0 /\ savedList = <<>>
    /\ fileIDs = {} /\ outgoing = {} /\ orphans = {}
    /\ th = [t \in Threads |-> Idle]
    /\ stored = {}

LEMMA BlanksInv == Blanks => RInv
<1> SUFFICES ASSUME Blanks PROVE RInv
  OBVIOUS
<1>1. Typed
  BY IdleType, BoundAssumption DEF Blanks, Typed, Index, Contents
<1>2. \A t \in Threads : th[t] = Idle
  BY DEF Blanks
<1>3. OpOK /\ stored \subseteq Index \X Files
  BY <1>2 DEF Blanks, OpOK, Idle, Caching, Incoming
<1>4. TakenBelow /\ TakersApart /\ PrivateUnreached /\ WrittenOnDisk /\ FiledSafe
  BY <1>2, IdleHolds DEF TakenBelow, TakersApart, PrivateUnreached, WrittenOnDisk, FiledSafe, At
<1>5. Cached = {} /\ ToSet(savedList) = {}
  BY EmptyFacts DEF Blanks, Cached
<1>6. ReachableTaken
  BY <1>2, <1>5, IdleHolds DEF Blanks, ReachableTaken, Reachable, Named, OnRecord
<1>7. StoredSafe
  BY DEF Blanks, StoredSafe
<1>8. Described
  BY FilesAssumption DEF Blanks, Described, Describes
<1>9. SavedOrPending
  BY <1>5 DEF Blanks, SavedOrPending
<1> QED BY <1>1, <1>3, <1>4, <1>6, <1>7, <1>8, <1>9 DEF RInv

LEMMA InitRInv == RInit => RInv
BY BlanksInv DEF RInit, Init, Blanks

LEMMA ResetInv ==
    ASSUME Reset
    PROVE  RInv'
<1>1. Blanks'
  BY DEF Reset, Begin, Blanks
<1> QED BY <1>1, BlanksInv, PTL

-----------------------------------------------------------------------------
(* The theorems.                                                           *)

\* The inductive invariant holds in every life of a node, however the one before ended.
THEOREM RestartInvariance == RSpec => []RInv
<1>1. ASSUME RInv, [RNext]_rvars
      PROVE  RInv'
  <2>1. CASE Run
    BY <1>1, <2>1, RunInv
  <2>2. CASE CloseMaps \/ CloseList \/ UNCHANGED rvars
    BY <1>1, <2>2, CloseInv
  <2>3. CASE Restarted \/ KilledWhileSaving
    BY <1>1, <2>3, RestartStarts, StartInv DEF RInv
  <2>4. CASE Reset
    BY <2>4, ResetInv
  <2> QED BY <1>1, <2>1, <2>2, <2>3, <2>4 DEF RNext
<1> QED BY <1>1, InitRInv, PTL DEF RSpec

\* No kill, failed assertion or orderly end, at any moment and however often, costs
\* a byte of a file that the user stored, but for an index that the index file called
\* free at a start; the file stays listed unless a kill cut its line out of a file
\* that was being rewritten.
THEOREM StoredFilesSurvive == RSpec => []Durable
<1>1. ASSUME RInv, NEW i \in Index \ ahead, NEW f \in Files, <<i, f>> \in stored
      PROVE  /\ metaOf[i] = f /\ dataOf[i] = f
             /\ i < savedIndex /\ i \notin Cached
             /\ i \notin cut => /\ entry[i] = f /\ savedEntry[i] = f
                              /\ \A m \in Maps : i \in maps[m] \cap savedMaps[m]
  BY <1>1 DEF RInv, StoredSafe, Safe, InFull, SavedInFull
<1>2. RInv => \A p \in stored : p[1] \in Index /\ p[2] \in Files /\ p = <<p[1], p[2]>>
  BY DEF RInv
<1>3. RInv => Durable
  BY <1>1, <1>2 DEF Durable
<1> QED BY <1>3, RestartInvariance, PTL

\* With that one exception, no thread is given an index that is in use.
THEOREM IndexFreshAfterRestart == RSpec => []FreshAfterRestart
<1>1. ASSUME RInv, NEW t \in Threads, Private(t), th[t].idx \notin ahead
      PROVE  /\ entry[th[t].idx] = NoFile
             /\ th[t].idx \notin Cached \cup {m[1] : m \in outgoing}
  <2>1. th[t].idx \in Index
    BY <1>1, FieldTypes DEF RInv
  <2>2. ~Named(th[t].idx)
    BY <1>1, <2>1 DEF RInv, PrivateUnreached, Reachable
  <2>3. \A m \in outgoing : m = <<m[1], m[2]>> /\ m[2] \in Payloads
    BY <1>1 DEF RInv, Typed
  <2> QED BY <2>2, <2>3 DEF Named
<1>2. RInv => FreshAfterRestart
  BY <1>1 DEF FreshAfterRestart
<1> QED BY <1>2, RestartInvariance, PTL

\* With that one exception, no file is listed under the description of another,
\* although what a transfer left behind is never cleared away.
THEOREM DescriptionsMatch == RSpec => []ListedAsDescribed
<1>1. ASSUME RInv, NEW i \in Index, entry[i] # NoFile, metaOf[i] # NoFile, i \notin ahead
      PROVE  metaOf[i] = entry[i] /\ dataOf[i] = entry[i]
  <2>1. entry[i] \in Files
    BY <1>1 DEF RInv, Typed
  <2> QED BY <1>1, <2>1 DEF RInv, Described, Describes
<1>2. RInv => ListedAsDescribed
  BY <1>1 DEF ListedAsDescribed
<1> QED BY <1>2, RestartInvariance, PTL

\* A node that ends at rest, orderly or killed, starts with the maps and the cached files
\* that it had.
THEOREM RestartAtRest == RSpec => IdleRestart
<1>1. ASSUME RInv, Restarted, Quiet
      PROVE  entry' = entry /\ maps' = maps /\ ToSet(cacheList') = Cached
  <2>1. \A t \in Threads : ~PersistPending(t) /\ ~ListPending(t)
    BY <1>1 DEF RInv, OpOK, Quiet, Idle, PersistPending, ListPending, Caching
  <2>2. savedEntry = entry /\ savedMaps = maps /\ ToSet(savedList) = Cached
    BY <1>1, <2>1 DEF RInv, SavedOrPending
  <2>3. entry' = savedEntry /\ maps' = savedMaps /\ cacheList' = savedList
    BY <1>1 DEF Restarted, LoadFiles, Load, LoadLists, saved
  <2> QED BY <2>2, <2>3
<1>2. RInv /\ [RNext]_rvars =>
          [Restarted /\ Quiet => /\ entry' = entry /\ maps' = maps
                                 /\ ToSet(cacheList') = Cached]_rvars
  BY <1>1
<1> QED BY <1>2, RestartInvariance, PTL DEF RSpec, IdleRestart
=============================================================================
