----------------------------- MODULE Connection -----------------------------
(***************************************************************************)
(* The connections of one node (src/system/node.cpp): a socket descriptor  *)
(* with a receive thread and a send thread, the tables id_map, nb_map and  *)
(* join_sockets that are indexed by descriptor, the dispatch thread that   *)
(* moves messages from the dispatch queue to the send queues, and the      *)
(* keepalives of the timer thread.  The operating system gives a closed    *)
(* descriptor to the next connection, so a message, a table entry or a     *)
(* thread may outlive the connection it was made for; gen numbers the      *)
(* connections to tell.                                                    *)
(***************************************************************************)
EXTENDS Naturals, Sequences, FiniteSets, SequencesExt

CONSTANTS
    Fds,            \* socket descriptors
    Timer, Clients, \* timer_thread, and all client_threads
    NoFd, Lost,     \* no resource, and one that has left id_map
    MaxConns,       \* bound: connections in a behaviour
    MaxQueue        \* bound: no message is made for a longer queue

Senders == Fds \cup {Timer, Clients}    \* whoever makes messages
Gens == 0 .. MaxConns
Address == Fds \X Gens          \* a descriptor, and the connection that was meant

ASSUME ConnectionAssumption ==
    /\ {Timer, Clients, NoFd, Lost} \cap Fds = {} /\ Timer # Clients /\ NoFd # Lost
    /\ MaxConns \in Nat /\ MaxQueue \in Nat

VARIABLES
    gens,           \* connections so far
    gen,            \* which connection a descriptor belongs to, 0 when closed
    peer,           \* what is at the other end: "neighbour" or "joiner"
    idMap,          \* id_map: the descriptors with a send thread's resource
    nbMap,          \* nb_map
    joinSockets,    \* join_sockets, a vector
    recv, send,     \* where the two threads of each descriptor are
    exit,           \* thread_exit
    queue,          \* send_queue: the connections that the messages are for
    routing,        \* the sockets in routing_map, which is never pruned
    dispatchQueue,  \* messages to addresses
    dispatching,    \* the message the dispatch thread has popped
    resource,       \* the descriptor whose send_queue_lock it waits for, or NoFd
    filling,        \* the descriptor whose send_queue_lock it holds, or NoFd, or Lost
    todo,           \* whom each sender is about to push a message for
    crash           \* the table lookup that failed

tables == <<idMap, nbMap, joinSockets>>
threads == <<recv, send, exit, queue>>
dispatcher == <<dispatchQueue, dispatching, resource, filling>>
messages == <<routing, dispatcher, todo>>
vars == <<gens, gen, peer, tables, threads, messages, crash>>

RecvLabels == {"none", "run", "close", "join", "unmap", "forget", "unlist", "check", "shut"}
SendLabels == {"none", "test", "park", "wait", "log", "exited"}
NoMessage == <<NoFd, 0>>

Init ==
    /\ gens = 0 /\ gen = [f \in Fds |-> 0] /\ peer = [f \in Fds |-> "neighbour"]
    /\ idMap = {} /\ nbMap = {} /\ joinSockets = <<>>
    /\ recv = [f \in Fds |-> "none"] /\ send = [f \in Fds |-> "none"]
    /\ exit = [f \in Fds |-> FALSE] /\ queue = [f \in Fds |-> <<>>]
    /\ routing = {} /\ dispatchQueue = <<>> /\ dispatching = NoMessage /\ resource = NoFd
    /\ filling = NoFd /\ todo = [s \in Senders |-> {}]
    /\ crash = "no"

Crash(site) ==
    /\ crash' = site
    /\ UNCHANGED <<gens, gen, peer, tables, threads, messages>>

\* id_map_lock: the dispatch thread holds it while it waits for a send queue.
IdMapFree == resource = NoFd

Now(S) == {<<f, gen[f]>> : f \in S}

-----------------------------------------------------------------------------
(* A connection begins.                                                    *)

\* The kernel hands out a free descriptor.
Opened(f, who) ==
    /\ gens < MaxConns /\ gen[f] = 0
    /\ gens' = gens + 1
    /\ gen' = [gen EXCEPT ![f] = gens + 1]
    /\ peer' = [peer EXCEPT ![f] = who]

\* fork_send_recv_thread; the new send thread looks for its resource first.
Fork(f) ==
    /\ idMap' = idMap \cup {f}
    /\ exit' = [exit EXCEPT ![f] = FALSE]
    /\ queue' = [queue EXCEPT ![f] = <<>>]
    /\ send' = [send EXCEPT ![f] = "test"]
    /\ recv' = [recv EXCEPT ![f] = "run"]

\* server_socket_prepare: who connects is not known before the first message.
Accept(f) ==
    /\ IdMapFree
    /\ \E who \in {"neighbour", "joiner"} : Opened(f, who)
    /\ Fork(f)
    /\ UNCHANGED <<nbMap, joinSockets, messages, crash>>

\* client_thread: the neighbour table first, then the threads, then a hello.
Connect(f) ==
    /\ Opened(f, "neighbour")
    /\ nbMap' = nbMap \cup {f}
    /\ UNCHANGED <<idMap, joinSockets, threads, messages, crash>>

ConnectFork(f) ==
    /\ gen[f] # 0 /\ recv[f] = "none" /\ IdMapFree
    /\ Fork(f)
    /\ todo' = [todo EXCEPT ![Clients] = @ \cup Now({f})]
    /\ UNCHANGED <<gens, gen, peer, nbMap, joinSockets, routing, dispatcher, crash>>

-----------------------------------------------------------------------------
(* The receive thread.                                                     *)

Running(f) == recv[f] = "run" /\ todo[f] = {}

\* handle_helloMsg: the neighbour table, and a hello unless one was sent.
RecvHello(f) ==
    /\ Running(f) /\ peer[f] = "neighbour"
    /\ nbMap' = nbMap \cup {f}
    /\ \E S \in {{}, {f}} : todo' = [todo EXCEPT ![f] = Now(S)]
    /\ UNCHANGED <<gens, gen, peer, idMap, joinSockets, threads, routing, dispatcher, crash>>

\* handle_joinMsg: only a socket that is not in nb_map is a join socket; the
\* answer, and the flood while the TTL lasts.
RecvJoin(f) ==
    /\ Running(f) /\ peer[f] = "joiner" /\ f \notin nbMap
    /\ joinSockets' = Append(joinSockets, f)
    /\ nbMap' = nbMap \cup {f}
    /\ \E S \in {{}, nbMap} : todo' = [todo EXCEPT ![f] = Now(S \cup {f})]
    /\ routing' = routing \cup Now({f})
    /\ UNCHANGED <<gens, gen, peer, idMap, threads, dispatcher, crash>>

\* A request: get_neighbor, the routing table, an answer or a flood to the
\* neighbours that are in the table now.
RecvRequest(f) ==
    /\ Running(f) /\ f \in nbMap
    /\ routing' = routing \cup Now({f})
    /\ \E S \in {{f}, nbMap \ {f}} : todo' = [todo EXCEPT ![f] = Now(S)]
    /\ UNCHANGED <<gens, gen, peer, tables, threads, dispatcher, crash>>

\* An answer goes to the socket in the routing table.
RecvAnswer(f) ==
    /\ Running(f) /\ f \in nbMap
    /\ \E a \in routing : todo' = [todo EXCEPT ![f] = {a}]
    /\ UNCHANGED <<gens, gen, peer, tables, threads, routing, dispatcher, crash>>

RecvFromStranger(f) == Running(f) /\ f \notin nbMap /\ Crash("get_neighbor")

\* The peer closes, nothing came for keepAliveTimeout, or the tie is broken.
RecvEnds(f) ==
    /\ Running(f)
    /\ recv' = [recv EXCEPT ![f] = "close"]
    /\ UNCHANGED <<gens, gen, peer, tables, send, exit, queue, messages, crash>>

\* Mutant: the flag is not set.
SendThreadClose_NoFlag(f) ==
    /\ recv[f] = "close" /\ IdMapFree
    /\ send' = [send EXCEPT ![f] = IF @ = "wait" THEN "test" ELSE @]
    /\ recv' = [recv EXCEPT ![f] = "join"]
    /\ UNCHANGED <<gens, gen, peer, tables, exit, queue, messages, crash>>

\* send_thread_close takes id_map_lock but not send_queue_lock: the signal
\* reaches a send thread that waits, not one that is about to.
SendThreadClose(f) ==
    /\ recv[f] = "close" /\ IdMapFree
    /\ exit' = [exit EXCEPT ![f] = TRUE]
    /\ send' = [send EXCEPT ![f] = IF @ = "wait" THEN "test" ELSE @]
    /\ recv' = [recv EXCEPT ![f] = "join"]
    /\ UNCHANGED <<gens, gen, peer, tables, queue, messages, crash>>

\* pthread_join of the send thread.
JoinSendThread(f) ==
    /\ recv[f] = "join" /\ send[f] = "exited"
    /\ recv' = [recv EXCEPT ![f] = "unmap"]
    /\ send' = [send EXCEPT ![f] = "none"]
    /\ UNCHANGED <<gens, gen, peer, tables, exit, queue, messages, crash>>

\* The resource of the send thread is lost, with what is still in its queue and
\* what the dispatch thread is about to push into it.
Unmap(f) ==
    /\ recv[f] = "unmap" /\ IdMapFree
    /\ idMap' = idMap \ {f}
    /\ queue' = [queue EXCEPT ![f] = <<>>]
    /\ filling' = IF filling = f THEN Lost ELSE filling
    /\ recv' = [recv EXCEPT ![f] = "forget"]
    /\ UNCHANGED <<gens, gen, peer, nbMap, joinSockets, send, exit, routing, dispatchQueue,
                   dispatching, resource, todo, crash>>

\* Mutant: the connection stays in the neighbour table.
Forget_Not(f) ==
    /\ recv[f] = "forget"
    /\ recv' = [recv EXCEPT ![f] = "unlist"]
    /\ UNCHANGED <<gens, gen, peer, tables, send, exit, queue, messages, crash>>

Forget(f) ==
    /\ recv[f] = "forget"
    /\ nbMap' = nbMap \ {f}
    /\ recv' = [recv EXCEPT ![f] = "unlist"]
    /\ UNCHANGED <<gens, gen, peer, idMap, joinSockets, send, exit, queue, messages, crash>>

\* std::remove without erase: the vector keeps its length and its old tail.
Removed(v, f) ==
    LET kept == SelectSeq(v, LAMBDA x : x # f)
    IN  [i \in DOMAIN v |-> IF i <= Len(kept) THEN kept[i] ELSE v[i]]

Unlist(f) ==
    /\ recv[f] = "unlist"
    /\ joinSockets' = Removed(joinSockets, f)
    /\ recv' = [recv EXCEPT ![f] = "check"]
    /\ UNCHANGED <<gens, gen, peer, idMap, nbMap, send, exit, queue, messages, crash>>

\* send_check_message, when a non-beacon node has lost a neighbour.
SendCheck(f) ==
    /\ recv[f] = "check"
    /\ \E S \in {{}, nbMap} : todo' = [todo EXCEPT ![f] = Now(S)]
    /\ recv' = [recv EXCEPT ![f] = "shut"]
    /\ UNCHANGED <<gens, gen, peer, tables, send, exit, queue, routing, dispatcher, crash>>

Shut(f) ==
    /\ recv[f] = "shut" /\ todo[f] = {}
    /\ gen' = [gen EXCEPT ![f] = 0]
    /\ recv' = [recv EXCEPT ![f] = "none"]
    /\ UNCHANGED <<gens, peer, tables, send, exit, queue, messages, crash>>

-----------------------------------------------------------------------------
(* The send thread holds send_queue_lock but where it waits or logs.       *)

QueueFree(f) == send[f] # "park" /\ filling # f

\* It waits, sends what is first in the queue, or empties the queue and exits.
SendTest(f) ==
    /\ send[f] = "test" /\ QueueFree(f)
    /\ \/ /\ exit[f]
          /\ queue' = [queue EXCEPT ![f] = <<>>] /\ send' = [send EXCEPT ![f] = "exited"]
       \/ /\ ~exit[f] /\ queue[f] = <<>>
          /\ send' = [send EXCEPT ![f] = "park"] /\ UNCHANGED queue
       \/ /\ ~exit[f] /\ queue[f] # <<>>
          /\ queue' = [queue EXCEPT ![f] = Tail(@)] /\ send' = [send EXCEPT ![f] = "log"]
    /\ UNCHANGED <<gens, gen, peer, tables, recv, exit, messages, crash>>

SendWait(f) ==
    /\ send[f] = "park"
    /\ send' = [send EXCEPT ![f] = "wait"]
    /\ UNCHANGED <<gens, gen, peer, tables, recv, exit, queue, messages, crash>>

\* get_neighbor, for the log.
SendLog(f) ==
    /\ send[f] = "log"
    /\ IF f \in nbMap
       THEN /\ send' = [send EXCEPT ![f] = "test"]
            /\ UNCHANGED <<gens, gen, peer, tables, recv, exit, queue, messages, crash>>
       ELSE Crash("get_neighbor")

-----------------------------------------------------------------------------
(* The timer and the dispatch thread.                                      *)

\* The neighbours that get a keepalive: in nb_map, not in join_sockets.
KeepAlive ==
    /\ todo[Timer] = {}
    /\ todo' = [todo EXCEPT ![Timer] = Now(nbMap \ ToSet(joinSockets))]
    /\ todo' # todo
    /\ UNCHANGED <<gens, gen, peer, tables, threads, routing, dispatcher, crash>>

\* push_dispatch_queue: the message is addressed by descriptor only.
Push(s, a) ==
    /\ a \in todo[s] /\ Len(dispatchQueue) < MaxQueue /\ Len(queue[a[1]]) < MaxQueue
    /\ todo' = [todo EXCEPT ![s] = @ \ {a}]
    /\ dispatchQueue' = Append(dispatchQueue, a)
    /\ UNCHANGED <<gens, gen, peer, tables, threads, routing, dispatching, resource, filling, crash>>

DispatchTake ==
    /\ dispatching = NoMessage /\ dispatchQueue # <<>>
    /\ dispatching' = Head(dispatchQueue)
    /\ dispatchQueue' = Tail(dispatchQueue)
    /\ UNCHANGED <<gens, gen, peer, tables, threads, routing, resource, filling, todo, crash>>

DispatchFind ==
    /\ dispatching # NoMessage /\ resource = NoFd /\ filling = NoFd
    /\ IF dispatching[1] \in idMap
       THEN /\ resource' = dispatching[1]
            /\ UNCHANGED <<gens, gen, peer, tables, threads,
                           routing, dispatchQueue, dispatching, filling, todo, crash>>
       ELSE Crash("dispatch_thread")

\* Mutant: the queue's lock is not waited for.
DispatchLock_NoWait ==
    /\ resource # NoFd
    /\ filling' = resource /\ resource' = NoFd
    /\ UNCHANGED <<gens, gen, peer, tables, threads,
                   routing, dispatchQueue, dispatching, todo, crash>>

\* It has the queue's lock and lets id_map_lock go, before it pushes.
DispatchLock ==
    /\ resource # NoFd /\ QueueFree(resource)
    /\ filling' = resource /\ resource' = NoFd
    /\ UNCHANGED <<gens, gen, peer, tables, threads,
                   routing, dispatchQueue, dispatching, todo, crash>>

\* A resource that has left id_map takes the message with it.
DispatchPush ==
    /\ filling # NoFd
    /\ IF filling = Lost THEN UNCHANGED <<queue, send>>
       ELSE /\ queue' = [queue EXCEPT ![filling] = Append(@, dispatching[2])]
            /\ send' = [send EXCEPT ![filling] = IF @ = "wait" THEN "test" ELSE @]
    /\ dispatching' = NoMessage /\ filling' = NoFd
    /\ UNCHANGED <<gens, gen, peer, tables, recv, exit, routing, dispatchQueue, resource,
                   todo, crash>>

-----------------------------------------------------------------------------

CloseSteps(f) ==
    \/ SendThreadClose(f) \/ JoinSendThread(f) \/ Unmap(f) \/ Forget(f) \/ Unlist(f)
    \/ SendCheck(f) \/ Shut(f)
SendSteps(f) == SendTest(f) \/ SendWait(f) \/ SendLog(f)
Dispatch == DispatchTake \/ DispatchFind \/ DispatchLock \/ DispatchPush

Next ==
    /\ crash = "no"
    /\ \/ \E f \in Fds :
            \/ Accept(f) \/ Connect(f) \/ ConnectFork(f)
            \/ RecvHello(f) \/ RecvJoin(f) \/ RecvRequest(f) \/ RecvAnswer(f)
            \/ RecvFromStranger(f) \/ RecvEnds(f)
            \/ CloseSteps(f) \/ SendSteps(f)
       \/ \E s \in Senders : \E a \in todo[s] : Push(s, a)
       \/ KeepAlive \/ Dispatch

Spec == Init /\ [][Next]_vars

\* All threads run.  What peers do, connections and their ends, is not fair.
FairSpec ==
    /\ Spec
    /\ \A f \in Fds : WF_vars(crash = "no" /\ CloseSteps(f)) /\ WF_vars(crash = "no" /\ SendSteps(f))
                      /\ WF_vars(crash = "no" /\ ConnectFork(f))
    /\ \A s \in Senders : WF_vars(crash = "no" /\ \E a \in todo[s] : Push(s, a))
    /\ WF_vars(crash = "no" /\ KeepAlive) /\ WF_vars(crash = "no" /\ Dispatch)

-----------------------------------------------------------------------------
(* Properties.                                                             *)

TypeOK ==
    /\ gens \in Gens /\ gen \in [Fds -> Gens] /\ peer \in [Fds -> {"neighbour", "joiner"}]
    /\ idMap \subseteq Fds /\ nbMap \subseteq Fds /\ joinSockets \in Seq(Fds)
    /\ recv \in [Fds -> RecvLabels] /\ send \in [Fds -> SendLabels]
    /\ exit \in [Fds -> BOOLEAN] /\ queue \in [Fds -> Seq(Gens)]
    /\ routing \subseteq Address /\ dispatchQueue \in Seq(Address)
    /\ dispatching \in Address \cup {NoMessage} /\ resource \in Fds \cup {NoFd}
    /\ filling \in Fds \cup {NoFd, Lost}
    /\ todo \in [Senders -> SUBSET Address]

\* A closed descriptor is in no table and has no thread, so the next connection
\* that gets it does not find what the last one left; and a send thread has its
\* resource as long as it lives (node.cpp:1268-1297, 898-908).
TablesFollowThreads ==
    \A f \in Fds :
        /\ gen[f] = 0 => f \notin idMap \cup nbMap /\ recv[f] = "none" /\ send[f] = "none"
        /\ send[f] # "none" => f \in idMap /\ gen[f] # 0
        /\ recv[f] \in {"run", "close", "join"} => send[f] # "none"

\* No send thread sleeps, or is about to, while its queue has a message: between
\* its look at the queue and its sleep the dispatch thread cannot push, and after
\* a push it is woken (node.cpp:913-917, 1378-1384).
NoMessageForgotten ==
    \A f \in Fds : send[f] \in {"park", "wait"} => queue[f] = <<>>

\* A connection to a neighbour closes once its receive thread has ended, even
\* when the signal to the send thread is lost: the timer still finds it in the
\* neighbour table, and the next keepalive wakes the send thread.
NeighbourCloses ==
    \A f \in Fds : (recv[f] = "join" /\ f \in nbMap /\ f \notin ToSet(joinSockets))
                        ~> (recv[f] # "join" \/ crash # "no")

=============================================================================
