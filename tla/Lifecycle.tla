----------------------------- MODULE Lifecycle -----------------------------
(***************************************************************************)
(* The runs of one node: the main thread that starts the others, waits for *)
(* them and cleans up (run, cleanup, main), the control threads, and the   *)
(* client and receive threads, which nobody waits for.  A run ends when    *)
(* the signal thread takes a signal, or when a thread that found the node  *)
(* cut off asks for a soft restart: gnShutdown, exit_threads, cancel.      *)
(***************************************************************************)
EXTENDS Naturals, FiniteSets

CONSTANTS
    Conns,          \* places for connections and their receive threads
    Clients,        \* the client threads: initNeighbors of them
    MinNeighbors,   \* minNeighbors
    Beacons,        \* beaconNodes_count
    FullRuns        \* bound: the runs followed to their end; one more begins

Control == {"main", "keyboard", "signal", "timer", "server", "dispatch"}
Threads == Control \cup Conns \cup Clients

ASSUME LifecycleAssumption ==
    /\ Conns \cap Clients = {} /\ Control \cap (Conns \cup Clients) = {}
    /\ IsFiniteSet(Clients) /\ MinNeighbors \in 0 .. Cardinality(Clients)
    /\ Beacons \in Nat /\ FullRuns \in Nat

VARIABLES
    node_type, noCheck,     \* the configuration
    pc,             \* next step of each thread; "off" before and after
    run,            \* how many runs began
    exit,           \* all_thread_exit and recv_thread_exit
    dispatchExit,   \* dispatch_exit
    gnShutdown,     \* the node is not to run again
    pending,        \* SIGUSR1 was sent to the signal thread
    list,           \* init_neighbor_list exists
    joinSuccess, joinShutdown,
    asked,          \* how many beacons establish_temporary_connection tried
    failed,         \* connect_fail_count
    nb,             \* nb_map
    check,          \* issent_check, and no answer yet (checkRes_recv)
    ended,          \* history: how the connection ended that emptied nb_map
    old,            \* history: client and receive threads of an earlier run
    late,           \* history: one of them interfered with a later run
    crash           \* the process died

config == <<node_type, noCheck>>
join == <<list, joinSuccess, joinShutdown, asked, failed>>
ending == <<exit, dispatchExit, gnShutdown>>
asks == <<pending>>
links == <<nb, check, ended>>
history == <<run, old, late>>
vars == <<config, pc, ending, asks, join, links, history, crash>>

NonBeacon == node_type = "NON_BEACON_NODE"

Init ==
    /\ node_type \in {"BEACON_NODE", "NON_BEACON_NODE"}
    /\ noCheck \in BOOLEAN /\ list \in BOOLEAN /\ (NonBeacon \/ ~(noCheck \/ list))
    /\ pc = [t \in Threads |-> IF t = "main" THEN "start" ELSE "off"]
    /\ run = 1 /\ exit = FALSE /\ dispatchExit = FALSE /\ gnShutdown = TRUE
    /\ pending = FALSE
    /\ joinSuccess = FALSE /\ joinShutdown = FALSE /\ failed = 0
    /\ asked = 0 /\ nb = {} /\ check = FALSE /\ ended = "none"
    /\ old = {} /\ late = FALSE /\ crash = FALSE

Go(t, s) == pc' = [pc EXCEPT ![t] = s]

-----------------------------------------------------------------------------
(* The main thread.                                                        *)

\* run: the threads every node has.  A node that never checks and has no list of
\* neighbours closes a file it did not open.
Start ==
    /\ pc.main = "start"
    /\ pc' = [pc EXCEPT !["dispatch"] = "run", !["keyboard"] = "read", !["signal"] = "wait",
                        !["server"] = "accept",
                        !["main"] = IF NonBeacon /\ ~list THEN "join" ELSE "timer"]
    /\ crash' = (NonBeacon /\ ~list /\ noCheck)
    /\ pending' = FALSE /\ asked' = 0
    /\ UNCHANGED <<config, ending, list, joinSuccess, joinShutdown, failed, links, history>>

\* establish_temporary_connection: one beacon after the other, until one gave
\* enough neighbours, one gave too few, or none is left.
JoinBeacon ==
    /\ pc.main = "join" /\ asked < Beacons
    /\ asked' = asked + 1
    /\ \/ joinSuccess' = TRUE /\ list' = TRUE /\ UNCHANGED joinShutdown
       \/ joinShutdown' = TRUE /\ UNCHANGED <<joinSuccess, list>>
       \/ UNCHANGED <<joinSuccess, joinShutdown, list>>
    /\ Go("main", IF joinSuccess' THEN "timer" ELSE IF joinShutdown' THEN "timerOnly" ELSE "join")
    /\ UNCHANGED <<config, ending, asks, failed, links, history, crash>>

JoinNone ==
    /\ pc.main = "join" /\ asked = Beacons
    /\ Go("main", "timerOnly")
    /\ UNCHANGED <<config, ending, asks, join, links, history, crash>>

StartTimer ==
    /\ pc.main \in {"timer", "timerOnly"}
    /\ pc' = [pc EXCEPT !["timer"] = "run",
                        !["main"] = IF @ = "timer" THEN "clients" ELSE "joinSignal"]
    /\ pending' = (pending \/ pc.main = "timerOnly")
    /\ UNCHANGED <<config, ending, join, links, history, crash>>

\* beacon_start, non_beacon_start.  (The name of a client thread that an earlier
\* run left behind is not used again.)
StartClients ==
    /\ pc.main = "clients"
    /\ pc' = [t \in Threads |-> IF t \in Clients \ old THEN "connect"
                                ELSE IF t = "main" THEN "joinSignal" ELSE pc[t]]
    /\ UNCHANGED <<config, ending, asks, join, links, history, crash>>

\* Mutant: the timer thread is not waited for.
Joins_NoTimer == [joinSignal |-> <<"signal", "joinKeyboard">>,
                  joinKeyboard |-> <<"keyboard", "endDispatch">>,
                  joinDispatch |-> <<"dispatch", "endServer">>,
                  joinServer |-> <<"server", "cleanup">>]

\* pthread_join of the signal thread, then of the others.
Joins == [joinSignal |-> <<"signal", "joinKeyboard">>,
          joinKeyboard |-> <<"keyboard", "joinTimer">>,
          joinTimer |-> <<"timer", "endDispatch">>,
          joinDispatch |-> <<"dispatch", "endServer">>,
          joinServer |-> <<"server", "cleanup">>]

JoinThread ==
    /\ pc.main \in DOMAIN Joins
    /\ pc[Joins[pc.main][1]] = "off"
    /\ Go("main", Joins[pc.main][2])
    /\ UNCHANGED <<config, ending, asks, join, links, history, crash>>

EndDispatch ==
    /\ pc.main = "endDispatch"
    /\ dispatchExit' = TRUE
    /\ Go("main", "joinDispatch")
    /\ UNCHANGED <<config, exit, gnShutdown, asks, join, links, history, crash>>

\* SIGUSR2; its handler has SA_RESTART, and whether accept is one of the calls
\* that are started again depends on the system.
EndServer ==
    /\ pc.main = "endServer"
    /\ \E s \in {pc.server, "off"} :
          pc' = [pc EXCEPT !["main"] = "joinServer", !["server"] = s]
    /\ UNCHANGED <<config, ending, asks, join, links, history, crash>>

\* cleanup: a soft restart is to join the network anew.
CleanupList ==
    /\ pc.main = "cleanup"
    /\ list' = (list /\ (NonBeacon => gnShutdown))
    /\ Go("main", "clear")
    /\ UNCHANGED <<config, ending, asks, joinSuccess, joinShutdown, asked, failed, links,
                   history, crash>>

\* Mutant: join_success stays.
Cleanup_KeepsJoin ==
    /\ pc.main = "clear"
    /\ exit' = FALSE /\ dispatchExit' = FALSE
    /\ joinShutdown' = FALSE /\ failed' = 0
    /\ nb' = {} /\ check' = FALSE /\ ended' = "none"
    /\ old' = {t \in Conns \cup Clients : pc[t] # "off"}
    /\ Go("main", "again")
    /\ UNCHANGED <<config, gnShutdown, pending, list, joinSuccess, asked, run, late, crash>>

Cleanup ==
    /\ pc.main = "clear"
    /\ exit' = FALSE /\ dispatchExit' = FALSE
    /\ joinSuccess' = FALSE /\ joinShutdown' = FALSE /\ failed' = 0
    /\ nb' = {} /\ check' = FALSE /\ ended' = "none"
    /\ old' = {t \in Conns \cup Clients : pc[t] # "off"}
    /\ Go("main", "again")
    /\ UNCHANGED <<config, gnShutdown, pending, list, asked, run, late, crash>>

\* The loop of main.
Again ==
    /\ pc.main = "again"
    /\ IF gnShutdown \/ ~NonBeacon
       THEN Go("main", "done") /\ UNCHANGED run
       ELSE run <= FullRuns /\ Go("main", "start") /\ run' = run + 1
    /\ UNCHANGED <<config, ending, asks, join, links, old, late, crash>>

MainStep ==
    \/ Start \/ JoinBeacon \/ JoinNone \/ StartTimer \/ StartClients
    \/ JoinThread \/ EndDispatch \/ EndServer \/ CleanupList \/ Cleanup \/ Again

-----------------------------------------------------------------------------
(* Threads that run should wait for.                                       *)

SignalJoined == pc.main \in {"joinKeyboard", "joinTimer", "endDispatch", "joinDispatch",
                             "endServer", "joinServer", "cleanup", "clear", "again", "start"}

\* A call on the signal thread's id: once it was joined, undefined.
OnSignalThread == IF SignalJoined THEN crash' \in BOOLEAN ELSE UNCHANGED crash

\* all_thread_exit is tested before each wait for a line, of 50 ms, and so
\* after each command.
Typed == Go("keyboard", IF exit THEN "off" ELSE "read")

KeyboardExit ==
    /\ pc.keyboard = "read" /\ exit /\ Typed
    /\ UNCHANGED <<config, ending, asks, join, links, history, crash>>

TypeShutdown ==
    /\ pc.keyboard = "read"
    /\ pending' = (pending \/ ~SignalJoined)
    /\ OnSignalThread
    /\ Typed
    /\ UNCHANGED <<config, ending, join, links, history>>

\* The keyboard thread shows answers until search_exit is set, by the timer
\* thread or, for Ctrl-C, by the signal thread.
TypeSearch ==
    /\ pc.keyboard = "read"
    /\ Go("keyboard", "search")
    /\ UNCHANGED <<config, ending, asks, join, links, history, crash>>

SearchTimeout ==
    /\ pc.timer = "run" /\ pc.keyboard = "search"
    /\ Typed
    /\ UNCHANGED <<config, ending, asks, join, links, history, crash>>

\* signal_thread: sigwait returns SIGUSR1, or SIGALRM when autoShutDown is over.
TakeSignal ==
    /\ pc.signal = "wait"
    /\ pending' \in {pending, FALSE}
    /\ Go("signal", IF exit THEN "off" ELSE "exit")
    /\ UNCHANGED <<config, ending, join, links, history, crash>>

Interrupt ==
    /\ pc.signal = "wait"
    /\ IF exit THEN Go("signal", "off") ELSE pc.keyboard = "search" /\ Typed
    /\ UNCHANGED <<config, ending, asks, join, links, history, crash>>

SignalExit ==
    /\ pc.signal = "exit"
    /\ exit' = TRUE
    /\ Go("signal", "shut")
    /\ UNCHANGED <<config, dispatchExit, gnShutdown, asks, join, links, history, crash>>

SignalShut ==
    /\ pc.signal = "shut"
    /\ gnShutdown' = TRUE
    /\ Go("signal", "off")
    /\ UNCHANGED <<config, exit, dispatchExit, asks, join, links, history, crash>>

TimerExit ==
    /\ pc.timer = "run" /\ exit
    /\ Go("timer", "off")
    /\ UNCHANGED <<config, ending, asks, join, links, history, crash>>

\* The check is joinTimeout old and was not answered.
CheckTimeout ==
    /\ pc.timer = "run" /\ check
    /\ check' = FALSE
    /\ Go("timer", "restart")
    /\ UNCHANGED <<config, ending, asks, join, nb, ended, history, crash>>

DispatchExit ==
    /\ pc.dispatch = "run" /\ dispatchExit
    /\ Go("dispatch", "off")
    /\ UNCHANGED <<config, ending, asks, join, links, history, crash>>

ControlStep ==
    \/ KeyboardExit \/ TakeSignal \/ SignalExit \/ SignalShut
    \/ TimerExit \/ CheckTimeout \/ SearchTimeout \/ DispatchExit

-----------------------------------------------------------------------------
(* Client and receive threads.                                             *)

\* Thread t touches what belongs to the run.
Touches(t) == late' = (late \/ t \in old)

Leaves(t) == old' = old \ {t}

Open(k) == pc[k] = "off"

\* The server accepts; hello messages make the peer a neighbour.
Accept(k) ==
    /\ pc.server = "accept" /\ Open(k)
    /\ pc' = [pc EXCEPT !["server"] = IF exit THEN "off" ELSE "accept", ![k] = "new"]
    /\ UNCHANGED <<config, ending, asks, join, links, history, crash>>

\* client_socket_prepare succeeds: the neighbour is entered at once.
Connected(c, k) ==
    /\ pc[c] = "connect" /\ ~exit /\ Open(k)
    /\ pc' = [pc EXCEPT ![c] = "off", ![k] = "new"]
    /\ nb' = nb \cup {k} /\ ended' = "none" /\ Touches(c) /\ Leaves(c)
    /\ UNCHANGED <<config, ending, asks, join, check, run, crash>>

\* It does not, or all_thread_exit is set, or a beacon finds its peer in nb_map
\* (until then it tries again): only non-beacons count it.
ConnectFails(c) ==
    /\ pc[c] = "connect" /\ (NonBeacon \/ exit \/ nb # {})
    /\ IF NonBeacon
       THEN /\ failed' = failed + 1 /\ Touches(c)
            /\ IF Cardinality(Clients) - failed' < MinNeighbors
               THEN Go(c, "restart") /\ UNCHANGED old ELSE Go(c, "off") /\ Leaves(c)
       ELSE Go(c, "off") /\ Leaves(c) /\ UNCHANGED <<failed, late>>
    /\ UNCHANGED <<config, ending, asks, list, joinSuccess, joinShutdown, asked, links, run, crash>>

Hello(k) ==
    /\ pc[k] = "new" /\ ~exit
    /\ Go(k, "open") /\ nb' = nb \cup {k} /\ ended' = "none" /\ Touches(k)
    /\ UNCHANGED <<config, ending, asks, join, check, run, old, crash>>

\* The connection leaves the tables.
Erase(k, how) ==
    /\ nb' = nb \ {k}
    /\ ended' = IF nb' # {} THEN "none" ELSE IF k \in nb THEN how ELSE ended

\* The receive loop ends, in this module together with what follows up to the
\* check: the peer, that had said hello, closes the connection ...
Closed(k) ==
    /\ pc[k] = "open" /\ ~exit
    /\ Erase(k, "closed")
    /\ IF NonBeacon THEN Go(k, "check") /\ UNCHANGED old ELSE Go(k, "off") /\ Leaves(k)
    /\ UNCHANGED <<config, ending, asks, join, check, run, late, crash>>

\* ... or had not, was silent for too long, sent what this node cannot use, or
\* recv_thread_exit is set.
Ends(k) ==
    /\ pc[k] \in {"new", "open", "told"}
    /\ Erase(k, "ends")
    /\ Go(k, "off") /\ Leaves(k)
    /\ UNCHANGED <<config, ending, asks, join, check, run, late, crash>>

\* A notification: the check comes first, with the neighbour still in the table.
Notified(k) ==
    /\ pc[k] = "open" /\ ~exit
    /\ Go(k, IF NonBeacon THEN "checkFirst" ELSE "told")
    /\ UNCHANGED <<config, ending, asks, join, links, history, crash>>

\* Mutant: the size of nb_map is not looked at.
Alone_Never == FALSE

Alone == nb = {}

\* send_check_message.
Check(k) ==
    /\ pc[k] \in {"check", "checkFirst"}
    /\ Touches(k)
    /\ IF Alone THEN Go(k, "restart") /\ UNCHANGED <<check, old>>
       ELSE /\ check' = (check \/ ~noCheck)
            /\ IF pc[k] = "check" THEN Go(k, "off") /\ Leaves(k)
               ELSE Go(k, "told") /\ UNCHANGED old
    /\ UNCHANGED <<config, ending, asks, join, nb, ended, run, crash>>

CheckAnswered ==
    /\ check /\ check' = FALSE
    /\ UNCHANGED <<config, pc, ending, asks, join, nb, ended, history, crash>>

-----------------------------------------------------------------------------
(* The soft restart, of the timer thread, a client or a receive thread.    *)

RestartShut(t) ==
    /\ pc[t] = "restart"
    /\ gnShutdown' = FALSE /\ Touches(t)
    /\ Go(t, "restartExit")
    /\ UNCHANGED <<config, exit, dispatchExit, asks, join, links, run, old, crash>>

RestartExit(t) ==
    /\ pc[t] = "restartExit"
    /\ exit' = TRUE /\ Touches(t)
    /\ Go(t, "cancel")
    /\ UNCHANGED <<config, dispatchExit, gnShutdown, asks, join, links, run, old, crash>>

\* Mutant: the signal thread is left waiting.
RestartCancel_Not(t) ==
    /\ pc[t] = "cancel" /\ Touches(t)
    /\ Go(t, IF t = "timer" THEN "run" ELSE "off")
    /\ nb' = nb \ {t} /\ Leaves(t)
    /\ UNCHANGED <<config, ending, asks, join, check, ended, run, crash>>

\* pthread_cancel ends the signal thread in sigwait, and nowhere else.
RestartCancel(t) ==
    /\ pc[t] = "cancel" /\ Touches(t)
    /\ LET s == IF pc.signal = "wait" THEN "off" ELSE pc.signal IN
          pc' = [pc EXCEPT ![t] = IF t = "timer" THEN "run" ELSE "off", !["signal"] = s]
    /\ OnSignalThread
    /\ nb' = nb \ {t} /\ Leaves(t)
    /\ UNCHANGED <<config, ending, asks, join, check, ended, run>>

RestartStep(t) == RestartShut(t) \/ RestartExit(t) \/ RestartCancel(t)

LinkStep(k) == Hello(k) \/ Closed(k) \/ Ends(k) \/ Notified(k) \/ Check(k)

ClientStep(c) == ConnectFails(c) \/ \E k \in Conns : Connected(c, k)

\* What follows once a thread of an earlier run has interfered is not explored,
\* nor is the last run once its clients have started.
Next ==
    /\ ~crash /\ ~late /\ pc.main # "done"
    /\ run <= FullRuns \/ pc.main # "joinSignal"
    /\ \/ MainStep \/ ControlStep \/ TypeShutdown \/ TypeSearch \/ Interrupt \/ CheckAnswered
       \/ \E t \in Threads : RestartStep(t)
       \/ \E c \in Clients : ClientStep(c)
       \/ \E k \in Conns : LinkStep(k) \/ Accept(k)

Spec == Init /\ [][Next]_vars

-----------------------------------------------------------------------------
(* Properties.                                                             *)

\* The values of the variables, within the bounds.
TypeOK ==
    /\ pc.signal \in {"off", "wait", "exit", "shut"}
    /\ pc.keyboard \in {"off", "read", "search"}
    /\ pc.server \in {"off", "accept"} /\ pc.dispatch \in {"off", "run"}
    /\ pc.timer \in {"off", "run", "restart", "restartExit", "cancel"}
    /\ failed \in 0 .. 2 * Cardinality(Clients) /\ asked \in 0 .. Beacons
    /\ pending \in BOOLEAN /\ nb \subseteq Conns /\ run \in 1 .. FullRuns + 1
    /\ check \in BOOLEAN /\ ended \in {"none", "closed", "ends"}
    /\ old \subseteq {t \in Conns \cup Clients : pc[t] # "off"}

\* Whenever a non-beacon node starts its clients there is a list to read them
\* from: a join that failed is not taken for one that succeeded.
ListReadable == (pc.main = "clients" /\ NonBeacon /\ ~crash) => list

\* A node whose last neighbour closed the connection does not stay alone: when
\* the closing thread is through, the run is ending.  (The connections end
\* concurrently, and each thread looks at the table after its own has left.)
IsolationNoticed ==
    (/\ NonBeacon /\ nb = {} /\ ended = "closed"
     /\ \A k \in Conns : pc[k] \notin {"check", "restart", "restartExit"}) => exit

\* While the main thread cleans up, and until it starts them again, no control
\* thread of the run is left to work on what is cleared.
ControlEnded ==
    pc.main \in {"cleanup", "clear", "again", "start", "done"} =>
        \A t \in Control \ {"main"} : pc[t] = "off"

\* What the threads do by themselves once a run is ending.
EndingStep ==
    \/ MainStep \/ KeyboardExit \/ SearchTimeout \/ SignalExit \/ SignalShut
    \/ pending /\ TakeSignal
    \/ TimerExit \/ DispatchExit \/ \E t \in Threads : RestartStep(t)

\* A run that is told to end comes to its end: somebody can always go on, but
\* for two waits the code does not prevent (for a search to be over when timer
\* and signal threads are gone, and in accept for a connection).
EndsOrWaits ==
    (exit /\ ~late /\ ~crash /\ pc.main # "done" /\ ~ENABLED EndingStep) =>
        \/ pc.main = "joinKeyboard" /\ pc.keyboard = "search"
        \/ pc.main = "joinServer" /\ pc.server = "accept"
=============================================================================
