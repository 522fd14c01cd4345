-------------------------- MODULE Connection_proofs --------------------------
(***************************************************************************)
(* The inductive invariant of Connection, for any number of descriptors,   *)
(* connections and messages, and the theorems that follow from it.         *)
(***************************************************************************)
EXTENDS Connection, TLAPS

\* The receive thread has forked a send thread and not joined it; its resource
\* is in id_map a step longer.
Sending(f) == recv[f] \in {"run", "close", "join"}
Mapped(f) == Sending(f) \/ recv[f] = "unmap"
\* The receive thread has taken its connection out of nb_map.
Forgotten(f) == recv[f] \in {"unlist", "check", "shut"}

\* join_sockets is left out: nothing below depends on what is in that vector.
Shape ==
    /\ gens \in Gens /\ gen \in [Fds -> Gens]
    /\ idMap \subseteq Fds /\ nbMap \subseteq Fds
    /\ recv \in [Fds -> RecvLabels] /\ send \in [Fds -> SendLabels]
    /\ exit \in [Fds -> BOOLEAN] /\ queue \in [Fds -> Seq(Gens)]
    /\ dispatching \in Address \cup {NoMessage} /\ dispatchQueue \in Seq(Address)
    /\ resource \in Fds \cup {NoFd} /\ filling \in Fds \cup {NoFd, Lost}
    /\ routing \subseteq Address /\ todo \in [Senders -> SUBSET Address]

\* How far the receive thread of a descriptor has got decides what else there is.
ThreadsInStep ==
    \A f \in Fds :
        /\ gen[f] = 0 => recv[f] = "none" /\ f \notin nbMap
        /\ send[f] # "none" <=> Sending(f)
        /\ f \in idMap <=> Mapped(f)
        /\ Forgotten(f) => f \notin nbMap

\* A send thread that waits, or is about to, has looked at an empty queue.
Asleep == \A f \in Fds : send[f] \in {"park", "wait"} => queue[f] = <<>>

\* The dispatch thread waits for a queue with id_map_lock held.
Reserved == resource # NoFd => resource \in idMap

\* While it holds the lock of a queue, the send thread is not before its sleep.
Held == filling \in Fds => filling \in idMap /\ send[filling] # "park"

IInv == Shape /\ ThreadsInStep /\ Asleep /\ Reserved /\ Held

-----------------------------------------------------------------------------

LEMMA NowType == ASSUME Shape, NEW S \in SUBSET Fds PROVE Now(S) \in SUBSET Address
BY DEF Shape, Now, Address

LEMMA ForkFacts ==
    ASSUME Shape, NEW f \in Fds, Fork(f)
    PROVE  /\ idMap' = idMap \cup {f}
           /\ recv' = [recv EXCEPT ![f] = "run"] /\ recv' \in [Fds -> RecvLabels]
           /\ send' = [send EXCEPT ![f] = "test"] /\ send' \in [Fds -> SendLabels]
           /\ exit' \in [Fds -> BOOLEAN]
           /\ queue' = [queue EXCEPT ![f] = <<>>] /\ queue' \in [Fds -> Seq(Gens)]
BY DEF Shape, Fork, RecvLabels, SendLabels

LEMMA OpenedFacts ==
    ASSUME Shape, NEW f \in Fds, NEW who, Opened(f, who)
    PROVE  /\ gen[f] = 0 /\ gens' \in Gens /\ gens' # 0
           /\ gen' = [gen EXCEPT ![f] = gens'] /\ gen' \in [Fds -> Gens]
BY ConnectionAssumption DEF Shape, Opened, Gens

\* A connection begins.
LEMMA BeginStep ==
    ASSUME IInv, NEW f \in Fds, Accept(f) \/ Connect(f) \/ ConnectFork(f)
    PROVE  IInv'
<1>1. CASE Accept(f)
  <2>1. /\ IdMapFree /\ Fork(f) /\ UNCHANGED <<nbMap, joinSockets, messages, crash>>
        /\ \E who : Opened(f, who)
    BY <1>1 DEF Accept
  <2>2. Shape'
    <3>1. /\ idMap' \subseteq Fds /\ recv' \in [Fds -> RecvLabels]
          /\ send' \in [Fds -> SendLabels] /\ exit' \in [Fds -> BOOLEAN]
          /\ queue' \in [Fds -> Seq(Gens)]
      BY <2>1, ForkFacts DEF IInv, Shape
    <3>2. gens' \in Gens /\ gen' \in [Fds -> Gens]
      BY <2>1, OpenedFacts DEF IInv
    <3> QED BY <2>1, <3>1, <3>2 DEF IInv, Shape, messages, dispatcher
  <2>3. ThreadsInStep'
    BY <2>1, ForkFacts, OpenedFacts DEF IInv, Shape, ThreadsInStep, Sending, Mapped, Forgotten,
                                        Gens
  <2>4. Asleep' /\ Reserved' /\ Held'
    <3>1. /\ idMap' = idMap \cup {f} /\ send' = [send EXCEPT ![f] = "test"]
          /\ queue' = [queue EXCEPT ![f] = <<>>]
      BY <2>1, ForkFacts DEF IInv
    <3> QED BY <2>1, <3>1 DEF IInv, Shape, Asleep, Reserved, Held, messages, dispatcher
  <2> QED BY <2>2, <2>3, <2>4 DEF IInv
<1>2. CASE Connect(f)
  <2>1. /\ Opened(f, "neighbour") /\ nbMap' = nbMap \cup {f}
        /\ UNCHANGED <<idMap, joinSockets, threads, messages, crash>>
    BY <1>2 DEF Connect
  <2>2. Shape'
    BY <2>1, OpenedFacts DEF IInv, Shape, messages, dispatcher, threads
  <2>3. ThreadsInStep'
    BY <2>1, OpenedFacts DEF IInv, Shape, ThreadsInStep, Sending, Mapped, Forgotten, Gens, threads
  <2>4. Asleep' /\ Reserved' /\ Held'
    BY <2>1 DEF IInv, Asleep, Reserved, Held, messages, dispatcher, threads
  <2> QED BY <2>2, <2>3, <2>4 DEF IInv
<1>3. CASE ConnectFork(f)
  <2>1. /\ gen[f] # 0 /\ IdMapFree /\ Fork(f)
        /\ todo' = [todo EXCEPT ![Clients] = @ \cup Now({f})]
        /\ UNCHANGED <<gens, gen, nbMap, routing, dispatchQueue, dispatching, resource, filling>>
    BY <1>3 DEF ConnectFork, dispatcher
  <2>2. Now({f}) \in SUBSET Address
    BY NowType DEF IInv
  <2>3. Shape'
    <3>1. todo[Clients] \cup Now({f}) \in SUBSET Address
      BY <2>2 DEF IInv, Shape, Senders
    <3>2. todo' \in [Senders -> SUBSET Address]
      BY <2>1, <3>1 DEF IInv, Shape
    <3>3. /\ idMap' = idMap \cup {f} /\ recv' \in [Fds -> RecvLabels]
          /\ send' \in [Fds -> SendLabels] /\ exit' \in [Fds -> BOOLEAN]
          /\ queue' \in [Fds -> Seq(Gens)]
      BY <2>1, ForkFacts DEF IInv
    <3> QED BY <2>1, <3>2, <3>3 DEF IInv, Shape
  <2>4. ThreadsInStep'
    <3>1. /\ idMap' = idMap \cup {f} /\ recv' = [recv EXCEPT ![f] = "run"]
          /\ send' = [send EXCEPT ![f] = "test"]
      BY <2>1, ForkFacts DEF IInv
    <3> QED BY <2>1, <3>1 DEF IInv, Shape, ThreadsInStep, Sending, Mapped, Forgotten
  <2>5. Asleep' /\ Reserved' /\ Held'
    BY <2>1, ForkFacts DEF IInv, Shape, Asleep, Reserved, Held, IdMapFree
  <2> QED BY <2>3, <2>4, <2>5 DEF IInv
<1> QED BY <1>1, <1>2, <1>3

\* The receive thread handles a message.
LEMMA ReceiveStep ==
    ASSUME IInv, NEW f \in Fds,
           RecvHello(f) \/ RecvJoin(f) \/ RecvRequest(f) \/ RecvAnswer(f)
    PROVE  IInv'
<1>0. Shape /\ recv[f] = "run" /\ f \in Senders
  BY DEF IInv, RecvHello, RecvJoin, RecvRequest, RecvAnswer, Running, Senders
<1>1. /\ nbMap' \in {nbMap, nbMap \cup {f}}
      /\ UNCHANGED <<gens, gen, idMap, recv, send, exit, queue, dispatchQueue, dispatching,
                     resource, filling>>
  BY DEF RecvHello, RecvJoin, RecvRequest, RecvAnswer, tables, threads, dispatcher
<1>2. Now({f}) \in SUBSET Address /\ \A S \in SUBSET Fds : Now(S) \in SUBSET Address
  BY <1>0, NowType
<1>3. routing' \subseteq Address
  BY <1>0, <1>1, <1>2 DEF Shape, RecvHello, RecvJoin, RecvRequest, RecvAnswer
<1>4. todo' \in [Senders -> SUBSET Address]
  <2>1. nbMap \subseteq Fds /\ routing \subseteq Address
    BY <1>0 DEF Shape
  <2>2. \E T \in SUBSET Address : todo' = [todo EXCEPT ![f] = T]
    <3>1. CASE RecvHello(f)
      BY <1>2, <3>1 DEF RecvHello
    <3>2. CASE RecvJoin(f)
      <4>1. PICK S \in {{}, nbMap} : todo' = [todo EXCEPT ![f] = Now(S \cup {f})]
        BY <3>2 DEF RecvJoin
      <4>2. S \cup {f} \in SUBSET Fds
        BY <2>1
      <4> QED BY <1>2, <4>1, <4>2
    <3>3. CASE RecvRequest(f)
      <4>1. PICK S \in {{f}, nbMap \ {f}} : todo' = [todo EXCEPT ![f] = Now(S)]
        BY <3>3 DEF RecvRequest
      <4>2. S \in SUBSET Fds
        BY <2>1
      <4> QED BY <1>2, <4>1, <4>2
    <3>4. CASE RecvAnswer(f)
      BY <2>1, <3>4 DEF RecvAnswer
    <3> QED BY <3>1, <3>2, <3>3, <3>4
  <2> QED BY <1>0, <2>2 DEF Shape
<1>5. Shape'
  BY <1>0, <1>1, <1>3, <1>4 DEF Shape
<1>6. ThreadsInStep'
  BY <1>0, <1>1 DEF IInv, ThreadsInStep, Sending, Mapped, Forgotten
<1>7. Asleep' /\ Reserved' /\ Held'
  BY <1>1 DEF IInv, Asleep, Reserved, Held
<1> QED BY <1>5, <1>6, <1>7 DEF IInv

\* The receive thread closes its connection, one lock after the other.
LEMMA CloseStep ==
    ASSUME IInv, NEW f \in Fds, RecvEnds(f) \/ CloseSteps(f)
    PROVE  IInv'
<1>0. Shape /\ ThreadsInStep /\ Asleep /\ Reserved /\ Held
  BY DEF IInv
<1>1. CASE RecvEnds(f)
  <2>1. /\ recv[f] = "run" /\ recv' = [recv EXCEPT ![f] = "close"]
        /\ UNCHANGED <<gens, gen, idMap, nbMap, send, exit, queue, messages>>
    BY <1>1 DEF RecvEnds, Running, tables
  <2>2. Shape'
    BY <1>0, <2>1 DEF Shape, messages, dispatcher, RecvLabels
  <2>3. ThreadsInStep' /\ Asleep' /\ Reserved' /\ Held'
    BY <1>0, <2>1 DEF Shape, ThreadsInStep, Sending, Mapped, Forgotten, Asleep, Reserved, Held,
                      messages, dispatcher
  <2> QED BY <2>2, <2>3 DEF IInv
<1>2. CASE SendThreadClose(f)
  <2>1. /\ recv[f] = "close" /\ recv' = [recv EXCEPT ![f] = "join"]
        /\ exit' = [exit EXCEPT ![f] = TRUE]
        /\ send' = [send EXCEPT ![f] = IF @ = "wait" THEN "test" ELSE @]
        /\ UNCHANGED <<gens, gen, idMap, nbMap, queue, messages>>
    BY <1>2 DEF SendThreadClose, tables
  <2>2. Shape'
    BY <1>0, <2>1 DEF Shape, messages, dispatcher, RecvLabels, SendLabels
  <2>3. ThreadsInStep'
    BY <1>0, <2>1 DEF Shape, ThreadsInStep, Sending, Mapped, Forgotten
  <2>4. Asleep' /\ Reserved' /\ Held'
    BY <1>0, <2>1 DEF Shape, Asleep, Reserved, Held, messages, dispatcher
  <2> QED BY <2>2, <2>3, <2>4 DEF IInv
<1>3. CASE JoinSendThread(f)
  <2>1. /\ recv[f] = "join" /\ recv' = [recv EXCEPT ![f] = "unmap"]
        /\ send' = [send EXCEPT ![f] = "none"]
        /\ UNCHANGED <<gens, gen, idMap, nbMap, exit, queue, messages>>
    BY <1>3 DEF JoinSendThread, tables
  <2>2. Shape'
    BY <1>0, <2>1 DEF Shape, messages, dispatcher, RecvLabels, SendLabels
  <2>3. ThreadsInStep'
    BY <1>0, <2>1 DEF Shape, ThreadsInStep, Sending, Mapped, Forgotten
  <2>4. Asleep' /\ Reserved' /\ Held'
    BY <1>0, <2>1 DEF Shape, Asleep, Reserved, Held, messages, dispatcher
  <2> QED BY <2>2, <2>3, <2>4 DEF IInv
<1>4. CASE Unmap(f)
  <2>1. /\ recv[f] = "unmap" /\ recv' = [recv EXCEPT ![f] = "forget"] /\ resource = NoFd
        /\ idMap' = idMap \ {f} /\ queue' = [queue EXCEPT ![f] = <<>>]
        /\ filling' = IF filling = f THEN Lost ELSE filling
        /\ UNCHANGED <<gens, gen, nbMap, send, exit, routing, dispatchQueue, dispatching,
                       resource, todo>>
    BY <1>4 DEF Unmap, IdMapFree
  <2>2. Shape'
    BY <1>0, <2>1 DEF Shape, messages, dispatcher, RecvLabels
  <2>3. ThreadsInStep'
    BY <1>0, <2>1 DEF Shape, ThreadsInStep, Sending, Mapped, Forgotten
  <2>4. Asleep' /\ Reserved'
    BY <1>0, <2>1 DEF Shape, Asleep, Reserved
  <2>5. Held'
    BY <1>0, <2>1, ConnectionAssumption DEF Shape, Held
  <2> QED BY <2>2, <2>3, <2>4, <2>5 DEF IInv
<1>5. CASE Forget(f)
  <2>1. /\ recv[f] = "forget" /\ recv' = [recv EXCEPT ![f] = "unlist"] /\ nbMap' = nbMap \ {f}
        /\ UNCHANGED <<gens, gen, idMap, send, exit, queue, messages>>
    BY <1>5 DEF Forget
  <2>2. Shape'
    BY <1>0, <2>1 DEF Shape, messages, dispatcher, RecvLabels
  <2>3. ThreadsInStep' /\ Asleep' /\ Reserved' /\ Held'
    BY <1>0, <2>1 DEF Shape, ThreadsInStep, Sending, Mapped, Forgotten, Asleep, Reserved, Held,
                      messages, dispatcher
  <2> QED BY <2>2, <2>3 DEF IInv
<1>6. CASE Unlist(f)
  <2>1. /\ recv[f] = "unlist" /\ recv' = [recv EXCEPT ![f] = "check"]
        /\ UNCHANGED <<gens, gen, idMap, nbMap, send, exit, queue, messages>>
    BY <1>6 DEF Unlist
  <2>2. Shape'
    BY <1>0, <2>1 DEF Shape, messages, dispatcher, RecvLabels
  <2>3. ThreadsInStep' /\ Asleep' /\ Reserved' /\ Held'
    BY <1>0, <2>1 DEF Shape, ThreadsInStep, Sending, Mapped, Forgotten, Asleep, Reserved, Held,
                      messages, dispatcher
  <2> QED BY <2>2, <2>3 DEF IInv
<1>7. CASE SendCheck(f)
  <2>1. /\ recv[f] = "check" /\ recv' = [recv EXCEPT ![f] = "shut"]
        /\ \E S \in {{}, nbMap} : todo' = [todo EXCEPT ![f] = Now(S)]
        /\ UNCHANGED <<gens, gen, idMap, nbMap, send, exit, queue,
                       routing, dispatchQueue, dispatching, resource, filling>>
    BY <1>7 DEF SendCheck, tables, dispatcher
  <2>2. todo' \in [Senders -> SUBSET Address]
    <3>1. PICK S \in {{}, nbMap} : todo' = [todo EXCEPT ![f] = Now(S)]
      BY <2>1
    <3>2. Now(S) \in SUBSET Address
      BY <1>0, NowType DEF Shape
    <3> QED BY <1>0, <3>1, <3>2 DEF Shape
  <2>3. Shape'
    BY <1>0, <2>1, <2>2 DEF Shape, RecvLabels
  <2>4. ThreadsInStep' /\ Asleep' /\ Reserved' /\ Held'
    BY <1>0, <2>1 DEF Shape, ThreadsInStep, Sending, Mapped, Forgotten, Asleep, Reserved, Held
  <2> QED BY <2>3, <2>4 DEF IInv
<1>8. CASE Shut(f)
  <2>1. /\ recv[f] = "shut" /\ recv' = [recv EXCEPT ![f] = "none"]
        /\ gen' = [gen EXCEPT ![f] = 0]
        /\ UNCHANGED <<gens, idMap, nbMap, send, exit, queue, messages>>
    BY <1>8 DEF Shut, tables
  <2>2. Shape'
    BY <1>0, <2>1, ConnectionAssumption DEF Shape, messages, dispatcher, RecvLabels, Gens
  <2>3. ThreadsInStep' /\ Asleep' /\ Reserved' /\ Held'
    BY <1>0, <2>1 DEF Shape, ThreadsInStep, Sending, Mapped, Forgotten, Asleep, Reserved, Held,
                      messages, dispatcher
  <2> QED BY <2>2, <2>3 DEF IInv
<1> QED BY <1>1, <1>2, <1>3, <1>4, <1>5, <1>6, <1>7, <1>8 DEF CloseSteps

\* The send thread.
LEMMA SendStep ==
    ASSUME IInv, NEW f \in Fds, SendSteps(f)
    PROVE  IInv'
<1>0. Shape /\ ThreadsInStep /\ Asleep /\ Reserved /\ Held
  BY DEF IInv
<1>1. CASE SendTest(f)
  <2>1. /\ send[f] = "test" /\ filling # f /\ UNCHANGED <<gens, gen, idMap, nbMap, recv, exit,
                                                          messages>>
        /\ \/ queue' = [queue EXCEPT ![f] = <<>>] /\ send' = [send EXCEPT ![f] = "exited"]
           \/ queue[f] = <<>> /\ send' = [send EXCEPT ![f] = "park"] /\ queue' = queue
           \/ /\ queue[f] # <<>> /\ queue' = [queue EXCEPT ![f] = Tail(@)]
              /\ send' = [send EXCEPT ![f] = "log"]
    BY <1>1 DEF SendTest, QueueFree, tables
  <2>2. queue[f] # <<>> => Tail(queue[f]) \in Seq(Gens)
    BY <1>0 DEF Shape
  <2>3. Shape'
    <3>1. queue' \in [Fds -> Seq(Gens)]
      <4>1. <<>> \in Seq(Gens)
        OBVIOUS
      <4>2. queue' = queue \/ \E q \in Seq(Gens) : queue' = [queue EXCEPT ![f] = q]
        BY <2>1, <2>2, <4>1
      <4> QED BY <1>0, <4>2 DEF Shape
    <3>2. send' \in [Fds -> SendLabels]
      BY <1>0, <2>1 DEF Shape, SendLabels
    <3> QED BY <1>0, <2>1, <3>1, <3>2 DEF Shape, messages, dispatcher
  <2>4. ThreadsInStep'
    BY <1>0, <2>1 DEF Shape, ThreadsInStep, Sending, Mapped, Forgotten
  <2>5. Asleep' /\ Reserved' /\ Held'
    BY <1>0, <2>1 DEF Shape, Asleep, Reserved, Held, messages, dispatcher
  <2> QED BY <2>3, <2>4, <2>5 DEF IInv
<1>2. CASE SendWait(f)
  <2>1. /\ send[f] = "park" /\ send' = [send EXCEPT ![f] = "wait"]
        /\ UNCHANGED <<gens, gen, idMap, nbMap, recv, exit, queue, messages>>
    BY <1>2 DEF SendWait, tables
  <2>2. Shape'
    BY <1>0, <2>1 DEF Shape, messages, dispatcher, SendLabels
  <2>3. ThreadsInStep' /\ Asleep' /\ Reserved' /\ Held'
    BY <1>0, <2>1 DEF Shape, ThreadsInStep, Sending, Mapped, Forgotten, Asleep, Reserved, Held,
                      messages, dispatcher
  <2> QED BY <2>2, <2>3 DEF IInv
<1>3. CASE SendLog(f)
  <2>1. /\ send[f] = "log" /\ \/ send' = [send EXCEPT ![f] = "test"]
                              \/ send' = send
        /\ UNCHANGED <<gens, gen, idMap, nbMap, recv, exit, queue, messages>>
    BY <1>3 DEF SendLog, Crash, tables, threads
  <2>2. Shape'
    BY <1>0, <2>1 DEF Shape, messages, dispatcher, SendLabels
  <2>3. ThreadsInStep' /\ Asleep' /\ Reserved' /\ Held'
    BY <1>0, <2>1 DEF Shape, ThreadsInStep, Sending, Mapped, Forgotten, Asleep, Reserved, Held,
                      messages, dispatcher
  <2> QED BY <2>2, <2>3 DEF IInv
<1> QED BY <1>1, <1>2, <1>3 DEF SendSteps

\* The timer, the dispatch thread, and whoever pushes a message.
LEMMA DispatchStep ==
    ASSUME IInv, \/ KeepAlive \/ Dispatch
                 \/ \E s \in Senders : \E a \in todo[s] : Push(s, a)
    PROVE  IInv'
<1>0. Shape /\ ThreadsInStep /\ Asleep /\ Reserved /\ Held
  BY DEF IInv
<1>1. CASE KeepAlive
  <2>1. /\ todo' = [todo EXCEPT ![Timer] = Now(nbMap \ ToSet(joinSockets))]
        /\ UNCHANGED <<gens, gen, tables, threads, routing, dispatchQueue, dispatching,
                       resource, filling>>
    BY <1>1 DEF KeepAlive, dispatcher
  <2>2. nbMap \ ToSet(joinSockets) \in SUBSET Fds
    BY <1>0 DEF Shape
  <2>3. Now(nbMap \ ToSet(joinSockets)) \in SUBSET Address
    BY <1>0, <2>2, NowType
  <2>4. Shape'
    BY <1>0, <2>1, <2>3 DEF Shape, tables, threads
  <2> QED BY <1>0, <2>1, <2>4
          DEF IInv, ThreadsInStep, Sending, Mapped, Forgotten, Asleep, Reserved, Held, tables, threads
<1>2. CASE \E s \in Senders : \E a \in todo[s] : Push(s, a)
  <2>0. PICK s \in Senders : \E a \in todo[s] : Push(s, a)
    BY <1>2
  <2>1. PICK a \in todo[s] : Push(s, a)
    BY <2>0
  <2>2. /\ todo' = [todo EXCEPT ![s] = @ \ {a}] /\ dispatchQueue' = Append(dispatchQueue, a)
        /\ UNCHANGED <<gens, gen, tables, threads, routing, dispatching, resource, filling>>
    BY <2>1 DEF Push
  <2>3. a \in Address /\ todo[s] \ {a} \in SUBSET Address
    BY <1>0 DEF Shape
  <2>4. Shape'
    BY <1>0, <2>2, <2>3 DEF Shape, tables, threads
  <2> QED BY <1>0, <2>2, <2>4
          DEF IInv, ThreadsInStep, Sending, Mapped, Forgotten, Asleep, Reserved, Held, tables, threads
<1>3. CASE DispatchTake
  <2>1. /\ dispatchQueue # <<>> /\ dispatching' = Head(dispatchQueue)
        /\ dispatchQueue' = Tail(dispatchQueue)
        /\ UNCHANGED <<gens, gen, tables, threads, routing, resource, filling, todo>>
    BY <1>3 DEF DispatchTake
  <2>2. Head(dispatchQueue) \in Address /\ Tail(dispatchQueue) \in Seq(Address)
    BY <1>0, <2>1 DEF Shape
  <2>3. Shape'
    BY <1>0, <2>1, <2>2 DEF Shape, tables, threads
  <2> QED BY <1>0, <2>1, <2>3
          DEF IInv, ThreadsInStep, Sending, Mapped, Forgotten, Asleep, Reserved, Held, tables, threads
<1>4. CASE DispatchFind
  <2>1. /\ UNCHANGED <<gens, gen, tables, threads, routing, dispatchQueue, dispatching,
                       filling, todo>>
        /\ resource' = resource \/ (dispatching[1] \in idMap /\ resource' = dispatching[1])
    BY <1>4 DEF DispatchFind, Crash, messages, dispatcher
  <2>2. Shape' /\ Reserved' /\ Held'
    BY <1>0, <2>1 DEF Shape, Reserved, Held, tables, threads
  <2> QED BY <1>0, <2>1, <2>2
          DEF IInv, ThreadsInStep, Sending, Mapped, Forgotten, Asleep, tables, threads
<1>5. CASE DispatchLock
  <2>1. /\ resource # NoFd /\ send[resource] # "park"
        /\ filling' = resource /\ resource' = NoFd
        /\ UNCHANGED <<gens, gen, tables, threads, routing, dispatchQueue, dispatching, todo>>
    BY <1>5 DEF DispatchLock, QueueFree
  <2>2. Shape' /\ Reserved' /\ Held'
    BY <1>0, <2>1 DEF Shape, Reserved, Held, tables, threads
  <2> QED BY <1>0, <2>1, <2>2
          DEF IInv, ThreadsInStep, Sending, Mapped, Forgotten, Asleep, tables, threads
<1>6. CASE DispatchPush /\ filling = Lost
  <2>1. /\ dispatching' = NoMessage /\ filling' = NoFd
        /\ UNCHANGED <<gens, gen, tables, threads, routing, dispatchQueue, resource, todo>>
    BY <1>6 DEF DispatchPush, threads
  <2>2. Shape' /\ Held'
    BY <1>0, <2>1, ConnectionAssumption DEF Shape, Held, tables, threads
  <2> QED BY <1>0, <2>1, <2>2
          DEF IInv, ThreadsInStep, Sending, Mapped, Forgotten, Asleep, Reserved, tables, threads
<1>7. CASE DispatchPush /\ filling # Lost
  <2>1. /\ filling # NoFd
        /\ queue' = [queue EXCEPT ![filling] = Append(@, dispatching[2])]
        /\ send' = [send EXCEPT ![filling] = IF @ = "wait" THEN "test" ELSE @]
        /\ dispatching' = NoMessage /\ filling' = NoFd
        /\ UNCHANGED <<gens, gen, tables, recv, exit, routing, dispatchQueue, resource, todo>>
    BY <1>7 DEF DispatchPush
  <2>2. /\ filling \in Fds /\ dispatching[2] \in Gens
        /\ send[filling] # "park" /\ filling' \notin Fds
    BY <1>0, <1>7, <2>1, ConnectionAssumption DEF Shape, Held, Address, NoMessage, Gens
  <2>3. Append(queue[filling], dispatching[2]) \in Seq(Gens)
    BY <1>0, <2>2 DEF Shape
  <2>4. Shape'
    BY <1>0, <2>1, <2>2, <2>3 DEF Shape, SendLabels, tables
  <2>5. ThreadsInStep'
    BY <1>0, <2>1, <2>2 DEF Shape, ThreadsInStep, Sending, Mapped, Forgotten, tables
  <2>6. Asleep' /\ Reserved' /\ Held'
    BY <1>0, <2>1, <2>2 DEF Shape, Asleep, Reserved, Held, tables
  <2> QED BY <2>4, <2>5, <2>6 DEF IInv
<1> QED BY <1>1, <1>2, <1>3, <1>4, <1>5, <1>6, <1>7 DEF Dispatch

-----------------------------------------------------------------------------
(* The theorems.                                                           *)

LEMMA InitInvariant == Init => IInv
<1> SUFFICES ASSUME Init PROVE IInv
  OBVIOUS
<1>1. Shape
  BY ConnectionAssumption DEF Init, Shape, Gens, RecvLabels, SendLabels
<1>2. ThreadsInStep /\ Asleep /\ Reserved /\ Held
  BY ConnectionAssumption DEF Init, ThreadsInStep, Sending, Mapped, Forgotten, Asleep,
                              Reserved, Held
<1> QED BY <1>1, <1>2 DEF IInv

LEMMA StepInvariant == IInv /\ [Next]_vars => IInv'
<1> SUFFICES ASSUME IInv, [Next]_vars PROVE IInv'
  OBVIOUS
<1>1. CASE Next
  <2>1. ASSUME NEW f \in Fds, RecvFromStranger(f) PROVE IInv'
    <3>1. UNCHANGED <<gens, gen, idMap, nbMap, recv, send, exit, queue, messages>>
      BY <2>1 DEF RecvFromStranger, Crash, tables, threads
    <3> QED BY <3>1 DEF IInv, Shape, ThreadsInStep, Sending, Mapped, Forgotten,
                        Asleep, Reserved, Held, messages, dispatcher
  <2> QED BY <1>1, <2>1, BeginStep, ReceiveStep, CloseStep, SendStep, DispatchStep DEF Next
<1>2. CASE UNCHANGED vars
  BY <1>2 DEF IInv, Shape, ThreadsInStep, Sending, Mapped, Forgotten,
              Asleep, Reserved, Held, vars, tables, threads, messages, dispatcher
<1> QED BY <1>1, <1>2

\* The inductive invariant holds for any number of connections, messages and
\* threads: how far a receive thread has got decides which tables its descriptor
\* is in, id_map_lock keeps a resource in id_map while the dispatch thread waits for
\* its queue, and send_queue_lock keeps the send thread from going to sleep after.
THEOREM ConnectionInvariant == Spec => []IInv
BY InitInvariant, StepInvariant, PTL DEF Spec

\* A closed descriptor is in no table and has no thread when the next connection
\* gets it, and a send thread has its resource as long as it lives.
THEOREM TablesFollow == Spec => []TablesFollowThreads
<1>1. IInv => TablesFollowThreads
  <2> SUFFICES ASSUME IInv, NEW f \in Fds
               PROVE  /\ gen[f] = 0 => f \notin idMap \cup nbMap /\ recv[f] = "none" /\ send[f] = "none"
                      /\ send[f] # "none" => f \in idMap /\ gen[f] # 0
                      /\ recv[f] \in {"run", "close", "join"} => send[f] # "none"
    BY DEF TablesFollowThreads
  <2> QED BY DEF IInv, ThreadsInStep, Sending, Mapped
<1> QED BY <1>1, ConnectionInvariant, PTL

\* No send thread sleeps, or is about to, while its queue has a message, although
\* the dispatch thread lets id_map_lock go before it pushes and the connection may
\* close, and its descriptor be used again, in between.
THEOREM NoneForgotten == Spec => []NoMessageForgotten
<1>1. IInv => NoMessageForgotten
  BY DEF IInv, Asleep, NoMessageForgotten
<1> QED BY <1>1, ConnectionInvariant, PTL
=============================================================================
