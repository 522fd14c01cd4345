----------------------------- MODULE RestartInv -----------------------------
(***************************************************************************)
(* The inductive invariant of Restart.  It says of an index that no start  *)
(* has found beyond the index file (one outside ahead) what FileSystemInv  *)
(* says of every index of a node that never ends, with what the files of   *)
(* the file system name among what is known; and that whatever a kill      *)
(* interrupts, no thread threatens a file on record.                       *)
(***************************************************************************)
EXTENDS Restart, FileSystemInv

\* The maps, the list, a message, a thread, the files on disk or the record name
\* the index.
Reachable(i) ==
    \/ Named(i) \/ \E t \in Threads : Holds(t, i)
    \/ savedEntry[i] # NoFile \/ i \in ToSet(savedList) \/ OnRecord(i)

\* What can be reached has been taken, and not by a thread that has it to itself.
ReachableTaken == \A i \in Index \ ahead : Reachable(i) => i < nextIndex
TakenBelow == \A t \in Threads : Takes(t) => th[t].idx < nextIndex
PrivateUnreached ==
    \A t \in Threads, i \in Index \ ahead : Private(t) /\ th[t].idx = i => ~Reachable(i)

\* What a thread has written to its own index is what it reads there.
WrittenOnDisk ==
    \A t \in Threads : th[t].idx \notin ahead =>
        /\ th[t].pc = "keep" => dataOf[th[t].idx] = th[t].file
        /\ Received(t) => metaOf[th[t].idx] = th[t].file /\ dataOf[th[t].idx] = th[t].file

\* The thread may come to unlink the files of the index, to take it out of the
\* maps, or to file something else under it.
Threatens(t, i) ==
    \/ i \in Doomed(t)
    \/ th[t].op = "delete" /\ Targeting(t) /\ th[t].cur = i
    \/ Publishing(t) /\ th[t].op \in Incoming /\ th[t].idx = i

\* The file is whole on the disk and out of everybody's reach.
Safe(i, f) ==
    /\ metaOf[i] = f /\ dataOf[i] = f
    /\ i \notin Cached \cup ToSet(savedList)
    /\ <<i, "temp">> \notin outgoing
    /\ \A t \in Threads : ~Threatens(t, i)

\* All three maps, or their files, list the file.
InFull(i, f) == entry[i] = f /\ \A m \in Maps : i \in maps[m]
SavedInFull(i, f) == savedEntry[i] = f /\ \A m \in Maps : i \in savedMaps[m]

\* A file on record is safe, and listed unless a kill cut it out, and so is one that
\* goes on record when the thread that has filed it writes the index files.
StoredSafe ==
    \A i \in Index \ ahead, f \in Files : <<i, f>> \in stored =>
        /\ Safe(i, f) /\ i < savedIndex
        /\ i \notin cut => InFull(i, f) /\ SavedInFull(i, f)
FiledSafe ==
    \A t \in Threads, i \in Index \ ahead, f \in Files :
        /\ At(t, "persist") /\ th[t].op = "keep" /\ th[t].idx = i /\ th[t].file = f
        /\ InMaps(i)
        => Safe(i, f) /\ InFull(i, f)

\* The files of the index are f's, or the .meta file is gone.
Describes(i, f) == metaOf[i] # NoFile => metaOf[i] = f /\ dataOf[i] = f

Described ==
    \A i \in Index \ ahead, f \in Files :
        /\ f \in {entry[i], savedEntry[i]} => Describes(i, f)
        /\ \A t \in Threads : Awaited(t) /\ th[t].idx = i /\ th[t].file = f => Describes(i, f)

\* Each step of each operation, each end and each start preserves it
\* (Restart_proofs); it implies Durable, FreshAfterRestart and ListedAsDescribed,
\* and SavedOrPending implies IdleRestart.
RInv ==
    /\ Typed /\ OpOK /\ stored \subseteq Index \X Files
    /\ ReachableTaken /\ TakenBelow /\ TakersApart /\ PrivateUnreached
    /\ WrittenOnDisk /\ StoredSafe /\ FiledSafe /\ Described
    /\ SavedOrPending

=============================================================================
