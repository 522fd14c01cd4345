------------------------------ MODULE Commands ------------------------------
(***************************************************************************)
(* The status and search commands of one node: the keyboard thread that    *)
(* runs them, the receive threads that bring the answers, the timer thread *)
(* and the user's interrupt that end them.  They share the status file and *)
(* the ports in it (status_file_lock), the queue of search answers         *)
(* (search_lock) and the temporary .meta files.  An answer counts as one   *)
(* for this node when its request is not in routing_map; whose command it  *)
(* answers is what this module is about.                                   *)
(***************************************************************************)
EXTENDS Naturals, Sequences, FiniteSets, SequencesExt

CONSTANTS
    RecvThreads,    \* the receive threads of the connections
    Me,             \* the port of this node
    Ports,          \* the ports of the nodes that answer
    Links,          \* the neighbours that each of them, and this node, reports
    NoAnswer,       \* "the thread has no answer in hand"
    MaxCommands     \* bound: how many commands are typed

Kinds == {"neighbors", "files", "search"}
Ids == 1 .. MaxCommands
Answers == Ids \X Ports
Nodes == Ports \cup {Me}

ASSUME PortAssumption ==
    /\ IsFiniteSet(Ports) /\ Me \notin Ports
    /\ MaxCommands \in Nat /\ NoAnswer \notin Answers
    /\ Links \in [Nodes -> SUBSET Nodes]

VARIABLES
    kb,             \* keyboard_thread: next step, its command, the answer it prints
    kind,           \* the commands so far, by number: their UOIDs
    pending,        \* answers that may still arrive
    recv,           \* each receive thread: next step, answer, the issent it read
    issent,         \* issent_status
    file,           \* statusFile: "none", "open", "closed", and the lines in it
    statusPorts,
    searchExit,     \* search_exit
    done,           \* search_done_map
    queue,          \* searchResponse_queue
    temps,          \* the .tempMeta files on the disk
    shown,          \* history: the answers printed since the last search began
    abandoned,      \* history: .tempMeta files that nothing refers to any more
    misplaced,      \* history: an answer was written while no status was issued
    crash           \* the process died writing to a closed file

status == <<issent, file, statusPorts, misplaced>>
search == <<searchExit, done, queue, shown>>
vars == <<kb, kind, pending, recv, status, search, temps, abandoned, crash>>

KbIdle == [pc |-> "idle", id |-> 0, item |-> NoAnswer]
RecvIdle == [pc |-> "idle", item |-> NoAnswer, issent |-> FALSE]

Init ==
    /\ kb = KbIdle /\ kind = <<>> /\ pending = {}
    /\ recv = [t \in RecvThreads |-> RecvIdle]
    /\ issent = FALSE /\ file = [state |-> "none", nodes |-> <<>>, links |-> {}]
    /\ statusPorts = {} /\ misplaced = FALSE
    /\ searchExit = TRUE /\ done = [i \in {} |-> FALSE] /\ queue = <<>> /\ shown = <<>>
    /\ temps = {} /\ abandoned = {} /\ crash = FALSE

-----------------------------------------------------------------------------
(* The status file.                                                        *)

KindOf(a) == kind[a[1]]

\* write_to_statusFile(port, neighbour ports): a line for every new port ...
NewPorts(p) == ({p} \cup Links[p]) \ statusPorts

\* ... and one for every link.
WriteLines(p) ==
    /\ statusPorts' = statusPorts \cup NewPorts(p)
    /\ file' = [file EXCEPT !.nodes = @ \o SetToSeq(NewPorts(p)),
                            !.links = @ \cup {<<p, q>> : q \in Links[p]}]

\* The command is typed while no other status command is open.
StatusAsk(k) ==
    /\ kb.pc = "idle" /\ Len(kind) < MaxCommands /\ ~issent
    /\ kind' = Append(kind, k)
    /\ kb' = [kb EXCEPT !.pc = "open", !.id = Len(kind) + 1]
    /\ UNCHANGED <<pending, recv, status, search, temps, abandoned, crash>>

\* fopen, without the lock.
StatusOpen ==
    /\ kb.pc = "open"
    /\ file' = [state |-> "open", nodes |-> <<>>, links |-> {}]
    /\ kb' = [kb EXCEPT !.pc = "create"]
    /\ UNCHANGED <<kind, pending, recv, issent, statusPorts, misplaced, search, temps,
                   abandoned, crash>>

\* create_statusMsg; the request goes to all neighbours.
StatusCreate ==
    /\ kb.pc = "create"
    /\ issent' = TRUE
    /\ IF kind[kb.id] = "neighbors" THEN WriteLines(Me) ELSE UNCHANGED <<file, statusPorts>>
    /\ pending' = pending \cup ({kb.id} \X Ports)
    /\ kb' = KbIdle
    /\ UNCHANGED <<kind, recv, misplaced, search, temps, abandoned, crash>>

\* Mutant: the ports stay.
StatusTimeout_Ports ==
    /\ issent
    /\ issent' = FALSE /\ file' = [file EXCEPT !.state = "closed"]
    /\ UNCHANGED statusPorts
    /\ UNCHANGED <<kb, kind, pending, recv, misplaced, search, temps, abandoned, crash>>

\* The timer thread finds the status command older than msgLifeTime.
StatusTimeout ==
    /\ issent
    /\ issent' = FALSE /\ file' = [file EXCEPT !.state = "closed"]
    /\ statusPorts' = {}
    /\ UNCHANGED <<kb, kind, pending, recv, misplaced, search, temps, abandoned, crash>>

-----------------------------------------------------------------------------
(* The answers.                                                            *)

\* The answer comes in: issent_status is read, and the .meta files in it are
\* written to the tempMeta directory (one of them stands for all).
Receive(t) ==
    /\ recv[t].pc = "idle"
    /\ \E a \in pending :
          /\ pending' = pending \ {a}
          /\ recv' = [recv EXCEPT ![t] = [pc |-> "taken", item |-> a, issent |-> issent]]
          /\ temps' = IF KindOf(a) = "neighbors" THEN temps ELSE temps \cup {a}
    /\ UNCHANGED <<kb, kind, status, search, abandoned, crash>>

RecvDone(t) == recv' = [recv EXCEPT ![t] = RecvIdle]

\* A status command is open, as far as the thread knows: the answer is written,
\* under the lock, to whatever statusFile is now.
Write(t) ==
    LET a == recv[t].item IN
    /\ recv[t].pc = "taken" /\ KindOf(a) # "search" /\ recv[t].issent
    /\ file.state = "open" /\ (KindOf(a) = "files" => a \in temps)
    /\ misplaced' = (misplaced \/ ~issent)
    /\ IF KindOf(a) = "neighbors" THEN WriteLines(a[2]) ELSE UNCHANGED <<file, statusPorts>>
    /\ temps' = temps \ {a}
    /\ RecvDone(t)
    /\ UNCHANGED <<kb, kind, pending, issent, search, abandoned, crash>>

\* The timer thread has closed the file: undefined, so either the process dies
\* or the lines are lost and the ports are not.
WriteClosed(t) ==
    LET a == recv[t].item IN
    /\ recv[t].pc = "taken" /\ KindOf(a) # "search" /\ recv[t].issent
    /\ file.state = "closed"
    /\ \/ crash' = TRUE /\ UNCHANGED <<recv, statusPorts, misplaced, temps>>
       \/ /\ statusPorts' = IF KindOf(a) = "neighbors" THEN statusPorts \cup NewPorts(a[2])
                            ELSE statusPorts
          /\ misplaced' = TRUE
          /\ temps' = temps \ {a}
          /\ RecvDone(t)
          /\ UNCHANGED crash
    /\ UNCHANGED <<kb, kind, pending, issent, file, search, abandoned>>

\* cleanup has removed the .tempMeta file: assert(pf) fails.
WriteLost(t) ==
    LET a == recv[t].item IN
    /\ recv[t].pc = "taken" /\ KindOf(a) = "files" /\ recv[t].issent
    /\ file.state = "open" /\ a \notin temps
    /\ crash' = TRUE
    /\ UNCHANGED <<kb, kind, pending, recv, status, search, temps, abandoned>>

\* No status command is open: the .meta files of the answer stay behind.
Ignore(t) ==
    LET a == recv[t].item IN
    /\ recv[t].pc = "taken" /\ KindOf(a) # "search" /\ ~recv[t].issent
    /\ abandoned' = abandoned \cup ({a} \cap temps)
    /\ RecvDone(t)
    /\ UNCHANGED <<kb, kind, pending, status, search, temps, crash>>

\* Mutant: every answer is for the user.
Wanted_All(a) == TRUE

\* The search is known and not done.
Wanted(a) == a[1] \in DOMAIN done /\ ~done[a[1]]

\* Who waits for searchResponse_queue_cv is woken.
Wake(k) == IF k.pc = "asleep" THEN [k EXCEPT !.pc = "show"] ELSE k

Queue(t) ==
    LET a == recv[t].item IN
    /\ recv[t].pc = "taken" /\ KindOf(a) = "search" /\ Wanted(a)
    /\ queue' = Append(queue, a)
    /\ kb' = Wake(kb)
    /\ RecvDone(t)
    /\ UNCHANGED <<kind, pending, status, searchExit, done, shown, temps, abandoned, crash>>

\* Mutant: the file stays.
Discard_Keeps(t) ==
    LET a == recv[t].item IN
    /\ recv[t].pc = "taken" /\ KindOf(a) = "search" /\ ~Wanted(a)
    /\ RecvDone(t)
    /\ UNCHANGED <<kb, kind, pending, status, search, temps, abandoned, crash>>

Discard(t) ==
    LET a == recv[t].item IN
    /\ recv[t].pc = "taken" /\ KindOf(a) = "search" /\ ~Wanted(a)
    /\ temps' = temps \ {a}
    /\ RecvDone(t)
    /\ UNCHANGED <<kb, kind, pending, status, search, abandoned, crash>>

-----------------------------------------------------------------------------
(* The search command.                                                     *)

\* create_searchMsg: what is left of the search before goes.
SearchAsk ==
    /\ kb.pc = "idle" /\ Len(kind) < MaxCommands
    /\ LET id == Len(kind) + 1 IN
          /\ kind' = Append(kind, "search")
          /\ kb' = [kb EXCEPT !.pc = "show", !.id = id]
          /\ done' = [i \in DOMAIN done \cup {id} |-> IF i = id THEN FALSE ELSE done[i]]
          /\ pending' = pending \cup ({id} \X Ports)
    /\ searchExit' = FALSE /\ shown' = <<>>
    /\ queue' = <<>> /\ abandoned' = abandoned \cup ToSet(queue)
    /\ UNCHANGED <<recv, status, temps, crash>>

\* The loop of show_searchResponse.
ShowWait ==
    /\ kb.pc = "show" /\ queue = <<>> /\ ~searchExit
    /\ kb' = [kb EXCEPT !.pc = "asleep"]
    /\ UNCHANGED <<kind, pending, recv, status, search, temps, abandoned, crash>>

\* Mutant: the answer stays in the queue.
ShowNext_NoPop ==
    /\ kb.pc = "show" /\ queue # <<>> /\ ~searchExit
    /\ kb' = [kb EXCEPT !.pc = "print", !.item = Head(queue)]
    /\ UNCHANGED <<kind, pending, recv, status, search, temps, abandoned, crash>>

ShowNext ==
    /\ kb.pc = "show" /\ queue # <<>> /\ ~searchExit
    /\ kb' = [kb EXCEPT !.pc = "print", !.item = Head(queue)]
    /\ queue' = Tail(queue)
    /\ UNCHANGED <<kind, pending, recv, status, searchExit, done, shown, temps, abandoned, crash>>

\* The search is over; what is still queued is dropped, its files stay.
ShowEnd ==
    /\ kb.pc = "show" /\ searchExit
    /\ queue' = <<>> /\ abandoned' = abandoned \cup ToSet(queue)
    /\ done' = [i \in DOMAIN done \cup {kb.id} |-> IF i = kb.id THEN TRUE ELSE done[i]]
    /\ kb' = KbIdle
    /\ UNCHANGED <<kind, pending, recv, status, searchExit, shown, temps, crash>>

\* print_search_metaDataFile, the three maps of a later get, and remove.
PrintAnswer ==
    /\ kb.pc = "print"
    /\ shown' = Append(shown, kb.item)
    /\ temps' = temps \ {kb.item}
    /\ kb' = [kb EXCEPT !.pc = "show", !.item = NoAnswer]
    /\ UNCHANGED <<kind, pending, recv, status, searchExit, done, queue, abandoned, crash>>

\* Mutant: the keyboard thread is not signalled.
SearchTimeout_NoSignal ==
    /\ ~searchExit
    /\ \E i \in DOMAIN done : ~done[i] /\ done' = [done EXCEPT ![i] = TRUE]
    /\ searchExit' = TRUE
    /\ UNCHANGED <<kb, kind, pending, recv, status, queue, shown, temps, abandoned, crash>>

\* The timer thread finds the open search older than msgLifeTime.
SearchTimeout ==
    /\ ~searchExit
    /\ \E i \in DOMAIN done : ~done[i] /\ done' = [done EXCEPT ![i] = TRUE]
    /\ searchExit' = TRUE
    /\ kb' = Wake(kb)
    /\ UNCHANGED <<kind, pending, recv, status, queue, shown, temps, abandoned, crash>>

\* SIGINT, in signal_thread.
Interrupt ==
    /\ ~searchExit
    /\ searchExit' = TRUE
    /\ kb' = Wake(kb)
    /\ UNCHANGED <<kind, pending, recv, status, done, queue, shown, temps, abandoned, crash>>

\* cleanup, between two runs of a node: the keyboard and timer threads have
\* ended, receive threads may not have.  A status file is not closed.
Cleanup ==
    /\ kb.pc = "idle" /\ kind # <<>>
    /\ issent' = FALSE /\ statusPorts' = {}
    /\ searchExit' = TRUE /\ done' = [i \in {} |-> FALSE]
    /\ pending' = {}
    /\ abandoned' = {} /\ temps' = {}
    /\ UNCHANGED <<kb, kind, recv, file, misplaced, queue, shown, crash>>

-----------------------------------------------------------------------------

RecvStep(t) ==
    \/ Receive(t) \/ Write(t) \/ WriteClosed(t) \/ WriteLost(t) \/ Ignore(t)
    \/ Queue(t) \/ Discard(t)

KeyboardStep == StatusOpen \/ StatusCreate \/ ShowWait \/ ShowNext \/ ShowEnd \/ PrintAnswer

Next ==
    /\ ~crash
    /\ \/ \E k \in {"neighbors", "files"} : StatusAsk(k)
       \/ SearchAsk \/ KeyboardStep \/ StatusTimeout \/ SearchTimeout \/ Interrupt
       \/ \E t \in RecvThreads : RecvStep(t)
       \/ Cleanup

Spec == Init /\ [][Next]_vars

\* The keyboard and the timer thread go on as long as the process lives;
\* answers, interrupts and restarts may or may not come.
FairSpec ==
    /\ Spec
    /\ WF_vars(~crash /\ KeyboardStep) /\ WF_vars(~crash /\ SearchTimeout)
-----------------------------------------------------------------------------
(* Properties.                                                             *)

KbStates ==
    [pc : {"idle", "open", "create", "show", "asleep", "print"},
     id : 0 .. MaxCommands, item : Answers \cup {NoAnswer}]
RecvStates == [pc : {"idle", "taken"}, item : Answers \cup {NoAnswer}, issent : BOOLEAN]
FileStates ==
    [state : {"none", "open", "closed"}, nodes : Seq(Nodes), links : SUBSET (Nodes \X Nodes)]

\* The values of the variables, within the bounds.
TypeOK ==
    /\ kb \in KbStates /\ kind \in Seq(Kinds) /\ Len(kind) <= MaxCommands
    /\ pending \subseteq Answers /\ temps \subseteq Answers /\ abandoned \subseteq Answers
    /\ recv \in [RecvThreads -> RecvStates]
    /\ issent \in BOOLEAN /\ file \in FileStates /\ statusPorts \subseteq Nodes
    /\ searchExit \in BOOLEAN /\ misplaced \in BOOLEAN /\ crash \in BOOLEAN
    /\ DOMAIN done \subseteq Ids /\ done \in [DOMAIN done -> BOOLEAN]
    /\ queue \in Seq(Answers) /\ shown \in Seq(Answers)

Searching == kb.pc \in {"show", "asleep", "print"}
Printing == IF kb.pc = "print" THEN {kb.item} ELSE {}
InHand == {recv[t].item : t \in RecvThreads} \ {NoAnswer}

\* The user sees answers to the search on the screen only, however late the
\* answers to an earlier one come in: the numbers of a later get name those.
ShownBelongs ==
    Searching => \A a \in ToSet(queue) \cup Printing \cup ToSet(shown) : a[1] = kb.id

\* No answer is shown twice, in the queue or on the screen.
ShownOnce ==
    Searching => LET all == shown \o (IF kb.pc = "print" THEN <<kb.item>> ELSE <<>>) \o queue
                 IN Cardinality(ToSet(all)) = Len(all)

\* print_search_metaDataFile finds the file of every queued answer (it asserts
\* so), and every .tempMeta file is somebody's to remove or known to be left.
TempFilesAccounted ==
    /\ ToSet(queue) \cup Printing \subseteq temps
    /\ temps \subseteq ToSet(queue) \cup Printing \cup InHand \cup abandoned

\* As long as no late answer went astray, the map in the status file of the open
\* command is one: a line for every node once, and for the ends of every link.
FileFollowsPorts ==
    (issent /\ ~misplaced) =>
        /\ file.state = "open"
        /\ ToSet(file.nodes) = statusPorts /\ Len(file.nodes) = Cardinality(statusPorts)
        /\ \A l \in file.links : {l[1], l[2]} \subseteq statusPorts

\* A search ends, after msgLifeTime at the latest, and the keyboard thread goes
\* back to the user: nobody sleeps on searchResponse_queue_cv for ever.
SearchEnds == Searching ~> (kb.pc = "idle" \/ crash)
=============================================================================
