-------------------------- MODULE Lifecycle_proofs --------------------------
(***************************************************************************)
(* A node never starts its clients without a list of neighbours, notices   *)
(* that it was left alone, and cleans up after its control threads only:   *)
(* for any number of connections and clients, and any number of runs.      *)
(***************************************************************************)
EXTENDS Lifecycle, TLAPS

MainStates == {"start", "join", "timer", "timerOnly", "clients", "joinSignal", "joinKeyboard",
               "joinTimer", "endDispatch", "joinDispatch", "endServer", "joinServer",
               "cleanup", "clear", "again", "done"}
RestartStates == {"restart", "restartExit", "cancel"}
LinkStates == {"off", "new", "open", "told", "check", "checkFirst"} \cup RestartStates
ClientStates == {"off", "connect"} \cup RestartStates
SignalStates == {"off", "wait", "exit", "shut"}
KeyboardStates == {"off", "read", "search"}
PcStates == MainStates \cup LinkStates \cup ClientStates \cup SignalStates \cup KeyboardStates
                \cup {"run", "accept"}

\* Where each thread may be.
Shape ==
    /\ pc \in [Threads -> PcStates]
    /\ pc.main \in MainStates
    /\ pc.signal \in SignalStates
    /\ pc.keyboard \in KeyboardStates
    /\ pc.server \in {"off", "accept"} /\ pc.dispatch \in {"off", "run"}
    /\ pc.timer \in {"off", "run"} \cup RestartStates
    /\ \A k \in Conns : pc[k] \in LinkStates
    /\ \A c \in Clients : pc[c] \in ClientStates

\* The main thread has waited for one control thread after the other ...
NoServer == {"cleanup", "clear", "again", "start", "done"}
NoDispatch == {"endServer", "joinServer"} \cup NoServer
NoTimer == {"endDispatch", "joinDispatch"} \cup NoDispatch
NoKeyboard == {"joinTimer"} \cup NoTimer
NoSignal == {"joinKeyboard"} \cup NoKeyboard

\* ... and those do not come back.
Gone ==
    /\ pc.main \in NoSignal => pc.signal = "off"
    /\ pc.main \in NoKeyboard => pc.keyboard = "off"
    /\ pc.main \in NoTimer => pc.timer = "off"
    /\ pc.main \in NoDispatch => pc.dispatch = "off"
    /\ pc.main \in NoServer => pc.server = "off"

\* What joining the network leaves behind.
Joining ==
    /\ pc.main \in {"again", "start", "join"} => ~joinSuccess
    /\ pc.main \in {"timer", "clients"} /\ NonBeacon => list

\* Somebody is on the way to notice that no neighbour is left.
Noticing == \E k \in Conns : pc[k] \in {"check", "restart", "restartExit"}

Alert ==
    /\ nb # {} => ended = "none"
    /\ NonBeacon /\ ended = "closed" => nb # {} \/ exit \/ Noticing

IInv == Shape /\ Gone /\ Joining /\ Alert

-----------------------------------------------------------------------------
(* Threads.                                                                *)

\* The names of threads of different kinds are different.
LEMMA Names ==
    /\ {"main", "keyboard", "signal", "timer", "server", "dispatch"} \subseteq Threads
    /\ \A k \in Conns : k \in Threads /\ k \notin Clients
    /\ \A c \in Clients : c \in Threads /\ c \notin Conns
    /\ \A t \in Conns \cup Clients :
          t \notin {"main", "keyboard", "signal", "timer", "server", "dispatch"}
    /\ \A t \in Threads : \/ t \in {"main", "keyboard", "signal", "timer", "server", "dispatch"}
                          \/ t \in Conns \/ t \in Clients
  BY LifecycleAssumption DEF Threads, Control

-----------------------------------------------------------------------------
(* Every action keeps the invariant.  In each case: where the threads go,  *)
(* then the parts of the invariant.                                        *)

\* The main thread starts threads only where none of them is, and waits for each.
LEMMA MainKeeps ==
    ASSUME IInv, MainStep
    PROVE  IInv'
<1> USE DEF PcStates, MainStates, LinkStates, ClientStates, SignalStates, KeyboardStates,
            RestartStates
<1>0. Shape /\ Gone /\ Joining /\ Alert /\ pc \in [Threads -> PcStates]
  BY DEF IInv, Shape
<1>1. CASE Start
  <2>1. /\ pc' \in [Threads -> PcStates]
        /\ pc.main = "start" /\ pc'.main \in {"join", "timer"}
        /\ pc'.dispatch = "run" /\ pc'.keyboard = "read" /\ pc'.signal = "wait"
        /\ pc'.server = "accept"
        /\ pc'.main = "timer" => (NonBeacon => list)
        /\ \A t \in Threads : t \notin {"dispatch", "keyboard", "signal", "server", "main"} =>
              pc'[t] = pc[t]
    BY <1>0, <1>1, Names DEF Start, Go
  <2>2. Shape'
    BY <1>0, <2>1, Names DEF Shape
  <2>3. Gone'
    BY <1>0, <2>1, Names DEF Gone, NoSignal, NoKeyboard, NoTimer, NoDispatch, NoServer
  <2>4. Joining'
    BY <1>0, <1>1, <2>1 DEF Start, Joining, NonBeacon, config, join
  <2>5. Alert'
    BY <1>0, <1>1, <2>1, Names DEF Start, Alert, Noticing, NonBeacon, config, ending, links
  <2> QED
    BY <2>2, <2>3, <2>4, <2>5 DEF IInv
<1>2. CASE JoinBeacon
  <2>1. /\ pc' \in [Threads -> PcStates]
        /\ pc.main = "join" /\ pc'.main \in {"join", "timer", "timerOnly"}
        /\ pc'.main = "timer" <=> joinSuccess'
        /\ \A t \in Threads : t \notin {"main"} => pc'[t] = pc[t]
    BY <1>0, <1>2, Names DEF JoinBeacon, Go
  <2>2. Shape'
    BY <1>0, <2>1, Names DEF Shape
  <2>3. Gone'
    BY <1>0, <2>1, Names DEF Gone, NoSignal, NoKeyboard, NoTimer, NoDispatch, NoServer
  <2>4. Joining'
    BY <1>0, <1>2, <2>1 DEF JoinBeacon, Joining, NonBeacon, config, join
  <2>5. Alert'
    BY <1>0, <1>2, <2>1, Names DEF JoinBeacon, Alert, Noticing, NonBeacon, config, ending, links
  <2> QED
    BY <2>2, <2>3, <2>4, <2>5 DEF IInv
<1>3. CASE JoinNone
  <2>1. /\ pc' \in [Threads -> PcStates]
        /\ pc.main = "join" /\ pc'.main = "timerOnly"
        /\ \A t \in Threads : t \notin {"main"} => pc'[t] = pc[t]
    BY <1>0, <1>3, Names DEF JoinNone, Go
  <2>2. Shape'
    BY <1>0, <2>1, Names DEF Shape
  <2>3. Gone'
    BY <1>0, <2>1, Names DEF Gone, NoSignal, NoKeyboard, NoTimer, NoDispatch, NoServer
  <2>4. Joining'
    BY <1>0, <1>3, <2>1 DEF JoinNone, Joining, NonBeacon, config, join
  <2>5. Alert'
    BY <1>0, <1>3, <2>1, Names DEF JoinNone, Alert, Noticing, NonBeacon, config, ending, links
  <2> QED
    BY <2>2, <2>3, <2>4, <2>5 DEF IInv
<1>4. CASE StartTimer
  <2>1. /\ pc' \in [Threads -> PcStates]
        /\ \/ pc.main = "timer" /\ pc'.main = "clients"
           \/ pc.main = "timerOnly" /\ pc'.main = "joinSignal"
        /\ pc'.timer = "run"
        /\ \A t \in Threads : t \notin {"timer", "main"} => pc'[t] = pc[t]
    BY <1>0, <1>4, Names DEF StartTimer, Go
  <2>2. Shape'
    BY <1>0, <2>1, Names DEF Shape
  <2>3. Gone'
    BY <1>0, <2>1, Names DEF Gone, NoSignal, NoKeyboard, NoTimer, NoDispatch, NoServer
  <2>4. Joining'
    BY <1>0, <1>4, <2>1 DEF StartTimer, Joining, NonBeacon, config, join
  <2>5. Alert'
    BY <1>0, <1>4, <2>1, Names DEF StartTimer, Alert, Noticing, NonBeacon, config, ending, links
  <2> QED
    BY <2>2, <2>3, <2>4, <2>5 DEF IInv
<1>5. CASE StartClients
  <2>1. /\ pc' \in [Threads -> PcStates]
        /\ pc.main = "clients" /\ pc'.main = "joinSignal"
        /\ \A c \in Clients : pc'[c] \in {"connect", pc[c]}
        /\ \A t \in Threads : t # "main" /\ t \notin Clients => pc'[t] = pc[t]
    BY <1>0, <1>5, Names DEF StartClients
  <2>2. Shape'
    BY <1>0, <2>1, Names DEF Shape
  <2>3. Gone'
    BY <1>0, <2>1, Names DEF Gone, NoSignal, NoKeyboard, NoTimer, NoDispatch, NoServer
  <2>4. Joining'
    BY <1>0, <1>5, <2>1 DEF StartClients, Joining, NonBeacon, config, join
  <2>5. Alert'
    BY <1>0, <1>5, <2>1, Names DEF StartClients, Alert, Noticing, NonBeacon, config, ending, links
  <2> QED
    BY <2>2, <2>3, <2>4, <2>5 DEF IInv
<1>6. CASE JoinThread
  <2>1. /\ pc' \in [Threads -> PcStates]
        /\ \/ pc.main = "joinSignal" /\ pc.signal = "off" /\ pc'.main = "joinKeyboard"
           \/ pc.main = "joinKeyboard" /\ pc.keyboard = "off" /\ pc'.main = "joinTimer"
           \/ pc.main = "joinTimer" /\ pc.timer = "off" /\ pc'.main = "endDispatch"
           \/ pc.main = "joinDispatch" /\ pc.dispatch = "off" /\ pc'.main = "endServer"
           \/ pc.main = "joinServer" /\ pc.server = "off" /\ pc'.main = "cleanup"
        /\ \A t \in Threads : t \notin {"main"} => pc'[t] = pc[t]
    <3>1. PICK s \in DOMAIN Joins :
              pc.main = s /\ pc[Joins[s][1]] = "off" /\ Go("main", Joins[s][2])
      BY <1>6 DEF JoinThread
    <3>2. s \in {"joinSignal", "joinKeyboard", "joinTimer", "joinDispatch", "joinServer"}
      BY DEF Joins
    <3> QED
      BY <1>0, <3>1, <3>2, Names DEF Joins, Go
  <2>2. Shape'
    BY <1>0, <2>1, Names DEF Shape
  <2>3. Gone'
    BY <1>0, <2>1, Names DEF Gone, NoSignal, NoKeyboard, NoTimer, NoDispatch, NoServer
  <2>4. Joining'
    BY <1>0, <1>6, <2>1 DEF JoinThread, Joining, NonBeacon, config, join
  <2>5. Alert'
    BY <1>0, <1>6, <2>1, Names DEF JoinThread, Alert, Noticing, NonBeacon, config, ending, links
  <2> QED
    BY <2>2, <2>3, <2>4, <2>5 DEF IInv
<1>7. CASE EndDispatch
  <2>1. /\ pc' \in [Threads -> PcStates]
        /\ pc.main = "endDispatch" /\ pc'.main = "joinDispatch"
        /\ \A t \in Threads : t \notin {"main"} => pc'[t] = pc[t]
    BY <1>0, <1>7, Names DEF EndDispatch, Go
  <2>2. Shape'
    BY <1>0, <2>1, Names DEF Shape
  <2>3. Gone'
    BY <1>0, <2>1, Names DEF Gone, NoSignal, NoKeyboard, NoTimer, NoDispatch, NoServer
  <2>4. Joining'
    BY <1>0, <1>7, <2>1 DEF EndDispatch, Joining, NonBeacon, config, join
  <2>5. Alert'
    BY <1>0, <1>7, <2>1, Names DEF EndDispatch, Alert, Noticing, NonBeacon, config, ending, links
  <2> QED
    BY <2>2, <2>3, <2>4, <2>5 DEF IInv
<1>8. CASE EndServer
  <2>1. /\ pc' \in [Threads -> PcStates]
        /\ pc.main = "endServer" /\ pc'.main = "joinServer" /\ pc'.server \in {pc.server, "off"}
        /\ \A t \in Threads : t \notin {"main", "server"} => pc'[t] = pc[t]
    BY <1>0, <1>8, Names DEF EndServer, Go
  <2>2. Shape'
    BY <1>0, <2>1, Names DEF Shape
  <2>3. Gone'
    BY <1>0, <2>1, Names DEF Gone, NoSignal, NoKeyboard, NoTimer, NoDispatch, NoServer
  <2>4. Joining'
    BY <1>0, <1>8, <2>1 DEF EndServer, Joining, NonBeacon, config, join
  <2>5. Alert'
    BY <1>0, <1>8, <2>1, Names DEF EndServer, Alert, Noticing, NonBeacon, config, ending, links
  <2> QED
    BY <2>2, <2>3, <2>4, <2>5 DEF IInv
<1>9. CASE CleanupList
  <2>1. /\ pc' \in [Threads -> PcStates]
        /\ pc.main = "cleanup" /\ pc'.main = "clear"
        /\ \A t \in Threads : t \notin {"main"} => pc'[t] = pc[t]
    BY <1>0, <1>9, Names DEF CleanupList, Go
  <2>2. Shape'
    BY <1>0, <2>1, Names DEF Shape
  <2>3. Gone'
    BY <1>0, <2>1, Names DEF Gone, NoSignal, NoKeyboard, NoTimer, NoDispatch, NoServer
  <2>4. Joining'
    BY <1>0, <1>9, <2>1 DEF CleanupList, Joining, NonBeacon, config, join
  <2>5. Alert'
    BY <1>0, <1>9, <2>1, Names DEF CleanupList, Alert, Noticing, NonBeacon, config, ending, links
  <2> QED
    BY <2>2, <2>3, <2>4, <2>5 DEF IInv
<1>10. CASE Cleanup
  <2>1. /\ pc' \in [Threads -> PcStates]
        /\ pc.main = "clear" /\ pc'.main = "again"
        /\ \A t \in Threads : t \notin {"main"} => pc'[t] = pc[t]
    BY <1>0, <1>10, Names DEF Cleanup, Go
  <2>2. Shape'
    BY <1>0, <2>1, Names DEF Shape
  <2>3. Gone'
    BY <1>0, <2>1, Names DEF Gone, NoSignal, NoKeyboard, NoTimer, NoDispatch, NoServer
  <2>4. Joining'
    BY <1>0, <1>10, <2>1 DEF Cleanup, Joining, NonBeacon, config, join
  <2>5. Alert'
    BY <1>0, <1>10, <2>1, Names DEF Cleanup, Alert, Noticing, NonBeacon, config, ending, links
  <2> QED
    BY <2>2, <2>3, <2>4, <2>5 DEF IInv
<1>11. CASE Again
  <2>1. /\ pc' \in [Threads -> PcStates]
        /\ pc.main = "again" /\ pc'.main \in {"done", "start"}
        /\ \A t \in Threads : t \notin {"main"} => pc'[t] = pc[t]
    BY <1>0, <1>11, Names DEF Again, Go
  <2>2. Shape'
    BY <1>0, <2>1, Names DEF Shape
  <2>3. Gone'
    BY <1>0, <2>1, Names DEF Gone, NoSignal, NoKeyboard, NoTimer, NoDispatch, NoServer
  <2>4. Joining'
    BY <1>0, <1>11, <2>1 DEF Again, Joining, NonBeacon, config, join
  <2>5. Alert'
    BY <1>0, <1>11, <2>1, Names DEF Again, Alert, Noticing, NonBeacon, config, ending, links
  <2> QED
    BY <2>2, <2>3, <2>4, <2>5 DEF IInv
<1> QED
  BY <1>1, <1>2, <1>3, <1>4, <1>5, <1>6, <1>7, <1>8, <1>9, <1>10, <1>11 DEF MainStep

\* A control thread that is off does not go on by itself ...
LEMMA ControlKeeps ==
    ASSUME IInv, ControlStep \/ TypeShutdown \/ TypeSearch \/ Interrupt \/ CheckAnswered
    PROVE  IInv'
<1> USE DEF PcStates, MainStates, LinkStates, ClientStates, SignalStates, KeyboardStates,
            RestartStates
<1>0. Shape /\ Gone /\ Joining /\ Alert /\ pc \in [Threads -> PcStates]
  BY DEF IInv, Shape
<1>1. CASE KeyboardExit
  <2>1. /\ pc' \in [Threads -> PcStates]
        /\ pc.keyboard = "read" /\ pc'.keyboard \in {"off", "read"}
        /\ \A u \in Threads : u # "keyboard" => pc'[u] = pc[u]
    BY <1>0, <1>1, Names DEF KeyboardExit, Typed, Go, Shape
  <2>2. Shape'
    BY <1>0, <2>1, Names DEF Shape
  <2>3. Gone'
    BY <1>0, <2>1, Names DEF Gone
  <2>4. Joining'
    BY <1>0, <1>1, <2>1, Names DEF KeyboardExit, Joining, NonBeacon, config, join
  <2>5. Alert'
    BY <1>0, <1>1, <2>1, Names DEF KeyboardExit, Alert, Noticing, NonBeacon, config, ending, links
  <2> QED
    BY <2>2, <2>3, <2>4, <2>5 DEF IInv
<1>2. CASE TypeShutdown
  <2>1. /\ pc' \in [Threads -> PcStates]
        /\ pc.keyboard = "read" /\ pc'.keyboard \in {"off", "read"}
        /\ \A u \in Threads : u # "keyboard" => pc'[u] = pc[u]
    BY <1>0, <1>2, Names DEF TypeShutdown, Typed, Go, Shape
  <2>2. Shape'
    BY <1>0, <2>1, Names DEF Shape
  <2>3. Gone'
    BY <1>0, <2>1, Names DEF Gone
  <2>4. Joining'
    BY <1>0, <1>2, <2>1, Names DEF TypeShutdown, Joining, NonBeacon, config, join
  <2>5. Alert'
    BY <1>0, <1>2, <2>1, Names DEF TypeShutdown, Alert, Noticing, NonBeacon, config, ending, links
  <2> QED
    BY <2>2, <2>3, <2>4, <2>5 DEF IInv
<1>3. CASE TypeSearch
  <2>1. /\ pc' \in [Threads -> PcStates]
        /\ pc.keyboard = "read" /\ pc'.keyboard = "search"
        /\ \A u \in Threads : u # "keyboard" => pc'[u] = pc[u]
    BY <1>0, <1>3, Names DEF TypeSearch, Go, Shape
  <2>2. Shape'
    BY <1>0, <2>1, Names DEF Shape
  <2>3. Gone'
    BY <1>0, <2>1, Names DEF Gone
  <2>4. Joining'
    BY <1>0, <1>3, <2>1, Names DEF TypeSearch, Joining, NonBeacon, config, join
  <2>5. Alert'
    BY <1>0, <1>3, <2>1, Names DEF TypeSearch, Alert, Noticing, NonBeacon, config, ending, links
  <2> QED
    BY <2>2, <2>3, <2>4, <2>5 DEF IInv
<1>4. CASE SearchTimeout
  <2>1. /\ pc' \in [Threads -> PcStates]
        /\ pc.keyboard = "search" /\ pc'.keyboard \in {"off", "read"}
        /\ \A u \in Threads : u # "keyboard" => pc'[u] = pc[u]
    BY <1>0, <1>4, Names DEF SearchTimeout, Typed, Go, Shape
  <2>2. Shape'
    BY <1>0, <2>1, Names DEF Shape
  <2>3. Gone'
    BY <1>0, <2>1, Names DEF Gone
  <2>4. Joining'
    BY <1>0, <1>4, <2>1, Names DEF SearchTimeout, Joining, NonBeacon, config, join
  <2>5. Alert'
    BY <1>0, <1>4, <2>1, Names DEF SearchTimeout, Alert, Noticing, NonBeacon, config, ending, links
  <2> QED
    BY <2>2, <2>3, <2>4, <2>5 DEF IInv
<1>5. CASE TakeSignal
  <2>1. /\ pc' \in [Threads -> PcStates]
        /\ pc.signal = "wait" /\ pc'.signal \in {"off", "exit"}
        /\ \A u \in Threads : u # "signal" => pc'[u] = pc[u]
    BY <1>0, <1>5, Names DEF TakeSignal, Go, Shape
  <2>2. Shape'
    BY <1>0, <2>1, Names DEF Shape
  <2>3. Gone'
    BY <1>0, <2>1, Names DEF Gone
  <2>4. Joining'
    BY <1>0, <1>5, <2>1, Names DEF TakeSignal, Joining, NonBeacon, config, join
  <2>5. Alert'
    BY <1>0, <1>5, <2>1, Names DEF TakeSignal, Alert, Noticing, NonBeacon, config, ending, links
  <2> QED
    BY <2>2, <2>3, <2>4, <2>5 DEF IInv
<1>6. CASE Interrupt
  <2>1. /\ pc' \in [Threads -> PcStates]
        /\ pc.signal = "wait" /\ pc'.signal \in {"off", "wait"}
        /\ \/ pc'.keyboard = pc.keyboard
           \/ pc.keyboard = "search" /\ pc'.keyboard \in {"off", "read"}
        /\ \A u \in Threads : u \notin {"signal", "keyboard"} => pc'[u] = pc[u]
    BY <1>0, <1>6, Names DEF Interrupt, Typed, Go, Shape
  <2>2. Shape'
    BY <1>0, <2>1, Names DEF Shape
  <2>3. Gone'
    BY <1>0, <2>1, Names DEF Gone
  <2>4. Joining'
    BY <1>0, <1>6, <2>1, Names DEF Interrupt, Joining, NonBeacon, config, join
  <2>5. Alert'
    BY <1>0, <1>6, <2>1, Names DEF Interrupt, Alert, Noticing, NonBeacon, config, ending, links
  <2> QED
    BY <2>2, <2>3, <2>4, <2>5 DEF IInv
<1>7. CASE SignalExit
  <2>1. /\ pc' \in [Threads -> PcStates]
        /\ pc.signal = "exit" /\ pc'.signal = "shut"
        /\ \A u \in Threads : u # "signal" => pc'[u] = pc[u]
    BY <1>0, <1>7, Names DEF SignalExit, Go, Shape
  <2>2. Shape'
    BY <1>0, <2>1, Names DEF Shape
  <2>3. Gone'
    BY <1>0, <2>1, Names DEF Gone
  <2>4. Joining'
    BY <1>0, <1>7, <2>1, Names DEF SignalExit, Joining, NonBeacon, config, join
  <2>5. Alert'
    BY <1>0, <1>7, <2>1, Names DEF SignalExit, Alert, Noticing, NonBeacon, config, ending, links
  <2> QED
    BY <2>2, <2>3, <2>4, <2>5 DEF IInv
<1>8. CASE SignalShut
  <2>1. /\ pc' \in [Threads -> PcStates]
        /\ pc.signal = "shut" /\ pc'.signal = "off"
        /\ \A u \in Threads : u # "signal" => pc'[u] = pc[u]
    BY <1>0, <1>8, Names DEF SignalShut, Go, Shape
  <2>2. Shape'
    BY <1>0, <2>1, Names DEF Shape
  <2>3. Gone'
    BY <1>0, <2>1, Names DEF Gone
  <2>4. Joining'
    BY <1>0, <1>8, <2>1, Names DEF SignalShut, Joining, NonBeacon, config, join
  <2>5. Alert'
    BY <1>0, <1>8, <2>1, Names DEF SignalShut, Alert, Noticing, NonBeacon, config, ending, links
  <2> QED
    BY <2>2, <2>3, <2>4, <2>5 DEF IInv
<1>9. CASE TimerExit
  <2>1. /\ pc' \in [Threads -> PcStates]
        /\ pc.timer = "run" /\ pc'.timer = "off"
        /\ \A u \in Threads : u # "timer" => pc'[u] = pc[u]
    BY <1>0, <1>9, Names DEF TimerExit, Go, Shape
  <2>2. Shape'
    BY <1>0, <2>1, Names DEF Shape
  <2>3. Gone'
    BY <1>0, <2>1, Names DEF Gone
  <2>4. Joining'
    BY <1>0, <1>9, <2>1, Names DEF TimerExit, Joining, NonBeacon, config, join
  <2>5. Alert'
    BY <1>0, <1>9, <2>1, Names DEF TimerExit, Alert, Noticing, NonBeacon, config, ending, links
  <2> QED
    BY <2>2, <2>3, <2>4, <2>5 DEF IInv
<1>10. CASE CheckTimeout
  <2>1. /\ pc' \in [Threads -> PcStates]
        /\ pc.timer = "run" /\ pc'.timer = "restart"
        /\ \A u \in Threads : u # "timer" => pc'[u] = pc[u]
    BY <1>0, <1>10, Names DEF CheckTimeout, Go, Shape
  <2>2. Shape'
    BY <1>0, <2>1, Names DEF Shape
  <2>3. Gone'
    BY <1>0, <2>1, Names DEF Gone
  <2>4. Joining'
    BY <1>0, <1>10, <2>1, Names DEF CheckTimeout, Joining, NonBeacon, config, join
  <2>5. Alert'
    BY <1>0, <1>10, <2>1, Names DEF CheckTimeout, Alert, Noticing, NonBeacon, config, ending, links
  <2> QED
    BY <2>2, <2>3, <2>4, <2>5 DEF IInv
<1>11. CASE DispatchExit
  <2>1. /\ pc' \in [Threads -> PcStates]
        /\ pc.dispatch = "run" /\ pc'.dispatch = "off"
        /\ \A u \in Threads : u # "dispatch" => pc'[u] = pc[u]
    BY <1>0, <1>11, Names DEF DispatchExit, Go, Shape
  <2>2. Shape'
    BY <1>0, <2>1, Names DEF Shape
  <2>3. Gone'
    BY <1>0, <2>1, Names DEF Gone
  <2>4. Joining'
    BY <1>0, <1>11, <2>1, Names DEF DispatchExit, Joining, NonBeacon, config, join
  <2>5. Alert'
    BY <1>0, <1>11, <2>1, Names DEF DispatchExit, Alert, Noticing, NonBeacon, config, ending, links
  <2> QED
    BY <2>2, <2>3, <2>4, <2>5 DEF IInv
<1>12. CASE CheckAnswered
  <2>1. /\ pc' \in [Threads -> PcStates]
        /\ UNCHANGED pc
    BY <1>0, <1>12, Names DEF CheckAnswered, Shape
  <2>2. Shape'
    BY <1>0, <2>1, Names DEF Shape
  <2>3. Gone'
    BY <1>0, <2>1, Names DEF Gone
  <2>4. Joining'
    BY <1>0, <1>12, <2>1, Names DEF CheckAnswered, Joining, NonBeacon, config, join
  <2>5. Alert'
    BY <1>0, <1>12, <2>1, Names DEF CheckAnswered, Alert, Noticing, NonBeacon, config, ending, links
  <2> QED
    BY <2>2, <2>3, <2>4, <2>5 DEF IInv
<1> QED
  BY <1>1, <1>2, <1>3, <1>4, <1>5, <1>6, <1>7, <1>8, <1>9, <1>10, <1>11, <1>12 DEF ControlStep

\* ... nor does one that a soft restart meets; the timer thread is not off then.
LEMMA RestartKeeps ==
    ASSUME IInv, NEW t \in Threads, RestartStep(t)
    PROVE  IInv'
<1> USE DEF PcStates, MainStates, LinkStates, ClientStates, SignalStates, KeyboardStates,
            RestartStates
<1>0. Shape /\ Gone /\ Joining /\ Alert /\ pc \in [Threads -> PcStates]
  BY DEF IInv, Shape
<1>1. CASE RestartShut(t)
  <2>1. /\ pc' \in [Threads -> PcStates]
        /\ pc[t] = "restart" /\ pc'[t] = "restartExit"
        /\ t \notin {"main", "signal", "keyboard", "server", "dispatch"}
        /\ \A u \in Threads : u # t => pc'[u] = pc[u]
    BY <1>0, <1>1, Names DEF RestartShut, Go, Shape
  <2>2. Shape'
    BY <1>0, <2>1, Names DEF Shape
  <2>3. Gone'
    BY <1>0, <2>1, Names DEF Gone
  <2>4. Joining'
    BY <1>0, <1>1, <2>1, Names DEF RestartShut, Joining, NonBeacon, config, join
  <2>5. Alert'
    BY <1>0, <1>1, <2>1, Names DEF RestartShut, Alert, Noticing, NonBeacon, config, ending, links
  <2> QED
    BY <2>2, <2>3, <2>4, <2>5 DEF IInv
<1>2. CASE RestartExit(t)
  <2>1. /\ pc' \in [Threads -> PcStates]
        /\ pc[t] = "restartExit" /\ pc'[t] = "cancel"
        /\ t \notin {"main", "signal", "keyboard", "server", "dispatch"}
        /\ \A u \in Threads : u # t => pc'[u] = pc[u]
    BY <1>0, <1>2, Names DEF RestartExit, Go, Shape
  <2>2. Shape'
    BY <1>0, <2>1, Names DEF Shape
  <2>3. Gone'
    BY <1>0, <2>1, Names DEF Gone
  <2>4. Joining'
    BY <1>0, <1>2, <2>1, Names DEF RestartExit, Joining, NonBeacon, config, join
  <2>5. Alert'
    BY <1>0, <1>2, <2>1, Names DEF RestartExit, Alert, Noticing, NonBeacon, config, ending, links
  <2> QED
    BY <2>2, <2>3, <2>4, <2>5 DEF IInv
<1>3. CASE RestartCancel(t)
  <2>1. /\ pc' \in [Threads -> PcStates]
        /\ pc[t] = "cancel" /\ pc'[t] = (IF t = "timer" THEN "run" ELSE "off")
        /\ t \notin {"main", "signal", "keyboard", "server", "dispatch"}
        /\ pc'.signal \in {pc.signal, "off"}
        /\ \A u \in Threads : u \notin {t, "signal"} => pc'[u] = pc[u]
    BY <1>0, <1>3, Names DEF RestartCancel, Shape
  <2>2. Shape'
    BY <1>0, <2>1, Names DEF Shape
  <2>3. Gone'
    BY <1>0, <2>1, Names DEF Gone
  <2>4. Joining'
    BY <1>0, <1>3, <2>1, Names DEF RestartCancel, Joining, NonBeacon, config, join
  <2>5. Alert'
    BY <1>0, <1>3, <2>1, Names DEF RestartCancel, Alert, Noticing, NonBeacon, config, ending, links
  <2> QED
    BY <2>2, <2>3, <2>4, <2>5 DEF IInv
<1> QED
  BY <1>1, <1>2, <1>3 DEF RestartStep

\* A thread that leaves the table empty goes on to look at it.
LEMMA LinkKeeps ==
    ASSUME IInv, NEW k \in Conns, LinkStep(k) \/ Accept(k)
    PROVE  IInv'
<1> USE DEF PcStates, MainStates, LinkStates, ClientStates, SignalStates, KeyboardStates,
            RestartStates
<1>0. Shape /\ Gone /\ Joining /\ Alert /\ pc \in [Threads -> PcStates]
  BY DEF IInv, Shape
<1>1. CASE Hello(k)
  <2>1. /\ pc' \in [Threads -> PcStates]
        /\ pc[k] = "new" /\ pc'[k] = "open"
        /\ \A u \in Threads : u # k => pc'[u] = pc[u]
    BY <1>0, <1>1, Names DEF Hello, Go, Shape
  <2>2. Shape'
    BY <1>0, <2>1, Names DEF Shape
  <2>3. Gone'
    BY <1>0, <2>1, Names DEF Gone
  <2>4. Joining'
    BY <1>0, <1>1, <2>1, Names DEF Hello, Joining, NonBeacon, config, join
  <2>5. Alert'
    BY <1>0, <1>1, <2>1, Names DEF Hello, Alert, Noticing, NonBeacon, config, ending, links
  <2> QED
    BY <2>2, <2>3, <2>4, <2>5 DEF IInv
<1>2. CASE Closed(k)
  <2>1. /\ pc' \in [Threads -> PcStates]
        /\ pc[k] = "open" /\ pc'[k] = (IF NonBeacon THEN "check" ELSE "off")
        /\ \A u \in Threads : u # k => pc'[u] = pc[u]
    BY <1>0, <1>2, Names DEF Closed, Go, Shape
  <2>2. Shape'
    BY <1>0, <2>1, Names DEF Shape
  <2>3. Gone'
    BY <1>0, <2>1, Names DEF Gone
  <2>4. Joining'
    BY <1>0, <1>2, <2>1, Names DEF Closed, Joining, NonBeacon, config, join
  <2>5. Alert'
    BY <1>0, <1>2, <2>1, Names DEF Closed, Alert, Noticing, NonBeacon, config, ending, links, Erase
  <2> QED
    BY <2>2, <2>3, <2>4, <2>5 DEF IInv
<1>3. CASE Ends(k)
  <2>1. /\ pc' \in [Threads -> PcStates]
        /\ pc[k] \in {"new", "open", "told"} /\ pc'[k] = "off"
        /\ \A u \in Threads : u # k => pc'[u] = pc[u]
    BY <1>0, <1>3, Names DEF Ends, Go, Shape
  <2>2. Shape'
    BY <1>0, <2>1, Names DEF Shape
  <2>3. Gone'
    BY <1>0, <2>1, Names DEF Gone
  <2>4. Joining'
    BY <1>0, <1>3, <2>1, Names DEF Ends, Joining, NonBeacon, config, join
  <2>5. Alert'
    BY <1>0, <1>3, <2>1, Names DEF Ends, Alert, Noticing, NonBeacon, config, ending, links, Erase
  <2> QED
    BY <2>2, <2>3, <2>4, <2>5 DEF IInv
<1>4. CASE Notified(k)
  <2>1. /\ pc' \in [Threads -> PcStates]
        /\ pc[k] = "open" /\ pc'[k] \in {"checkFirst", "told"}
        /\ \A u \in Threads : u # k => pc'[u] = pc[u]
    BY <1>0, <1>4, Names DEF Notified, Go, Shape
  <2>2. Shape'
    BY <1>0, <2>1, Names DEF Shape
  <2>3. Gone'
    BY <1>0, <2>1, Names DEF Gone
  <2>4. Joining'
    BY <1>0, <1>4, <2>1, Names DEF Notified, Joining, NonBeacon, config, join
  <2>5. Alert'
    BY <1>0, <1>4, <2>1, Names DEF Notified, Alert, Noticing, NonBeacon, config, ending, links
  <2> QED
    BY <2>2, <2>3, <2>4, <2>5 DEF IInv
<1>5. CASE Check(k)
  <2>1. /\ pc' \in [Threads -> PcStates]
        /\ pc[k] \in {"check", "checkFirst"}
        /\ pc'[k] \in {"restart", "off", "told"} /\ (Alone => pc'[k] = "restart")
        /\ \A u \in Threads : u # k => pc'[u] = pc[u]
    BY <1>0, <1>5, Names DEF Check, Go, Shape
  <2>2. Shape'
    BY <1>0, <2>1, Names DEF Shape
  <2>3. Gone'
    BY <1>0, <2>1, Names DEF Gone
  <2>4. Joining'
    BY <1>0, <1>5, <2>1, Names DEF Check, Joining, NonBeacon, config, join
  <2>5. Alert'
    BY <1>0, <1>5, <2>1, Names DEF Check, Alert, Noticing, NonBeacon, config, ending, links, Alone
  <2> QED
    BY <2>2, <2>3, <2>4, <2>5 DEF IInv
<1>6. CASE Accept(k)
  <2>1. /\ pc' \in [Threads -> PcStates]
        /\ pc[k] = "off" /\ pc'[k] = "new"
        /\ pc.server = "accept" /\ pc'.server \in {"off", "accept"}
        /\ \A u \in Threads : u \notin {k, "server"} => pc'[u] = pc[u]
    BY <1>0, <1>6, Names DEF Accept, Open, Shape
  <2>2. Shape'
    BY <1>0, <2>1, Names DEF Shape
  <2>3. Gone'
    BY <1>0, <2>1, Names DEF Gone
  <2>4. Joining'
    BY <1>0, <1>6, <2>1, Names DEF Accept, Joining, NonBeacon, config, join
  <2>5. Alert'
    BY <1>0, <1>6, <2>1, Names DEF Accept, Alert, Noticing, NonBeacon, config, ending, links
  <2> QED
    BY <2>2, <2>3, <2>4, <2>5 DEF IInv
<1> QED
  BY <1>1, <1>2, <1>3, <1>4, <1>5, <1>6 DEF LinkStep

\* A client thread that connects adds to the table.
LEMMA ClientKeeps ==
    ASSUME IInv, NEW c \in Clients, ClientStep(c)
    PROVE  IInv'
<1> USE DEF PcStates, MainStates, LinkStates, ClientStates, SignalStates, KeyboardStates,
            RestartStates
<1>0. Shape /\ Gone /\ Joining /\ Alert /\ pc \in [Threads -> PcStates]
  BY DEF IInv, Shape
<1>1. CASE ConnectFails(c)
  <2>1. /\ pc' \in [Threads -> PcStates]
        /\ pc[c] = "connect" /\ pc'[c] \in {"off", "restart"}
        /\ \A u \in Threads : u # c => pc'[u] = pc[u]
    BY <1>0, <1>1, Names DEF ConnectFails, Go, Shape
  <2>2. Shape'
    BY <1>0, <2>1, Names DEF Shape
  <2>3. Gone'
    BY <1>0, <2>1, Names DEF Gone
  <2>4. Joining'
    BY <1>0, <1>1, <2>1, Names DEF ConnectFails, Joining, NonBeacon, config, join
  <2>5. Alert'
    BY <1>0, <1>1, <2>1, Names DEF ConnectFails, Alert, Noticing, NonBeacon, config, ending, links
  <2> QED
    BY <2>2, <2>3, <2>4, <2>5 DEF IInv
<1>2. ASSUME NEW k \in Conns, Connected(c, k) PROVE IInv'
  <2>1. /\ pc' \in [Threads -> PcStates]
        /\ pc[c] = "connect" /\ pc'[c] = "off" /\ pc[k] = "off" /\ pc'[k] = "new"
        /\ \A u \in Threads : u \notin {c, k} => pc'[u] = pc[u]
    BY <1>0, <1>2, Names DEF Connected, Open, Shape
  <2>2. Shape'
    BY <1>0, <2>1, Names DEF Shape
  <2>3. Gone'
    BY <1>0, <2>1, Names DEF Gone
  <2>4. Joining'
    BY <1>0, <1>2, <2>1, Names DEF Connected, Joining, NonBeacon, config, join
  <2>5. Alert'
    BY <1>0, <1>2, <2>1, Names DEF Connected, Alert, Noticing, NonBeacon, config, ending, links
  <2> QED
    BY <2>2, <2>3, <2>4, <2>5 DEF IInv
<1> QED
  BY <1>1, <1>2 DEF ClientStep

-----------------------------------------------------------------------------
(* The theorems.                                                           *)

\* The invariant that the others rest on.
THEOREM LifecycleInvariant == Spec => []IInv
<1>1. Init => IInv
  <2> SUFFICES ASSUME Init PROVE IInv
    OBVIOUS
  <2>1. pc = [t \in Threads |-> IF t = "main" THEN "start" ELSE "off"]
    BY DEF Init
  <2>2. pc.main = "start" /\ \A t \in Threads : t # "main" => pc[t] = "off"
    BY <2>1, Names
  <2>3. pc \in [Threads -> PcStates]
    BY <2>1 DEF PcStates, MainStates, LinkStates
  <2>4. Shape
    BY <2>2, <2>3, Names DEF Shape, MainStates, LinkStates, ClientStates, SignalStates,
                             KeyboardStates
  <2>5. Gone
    BY <2>2, Names DEF Gone
  <2>6. Joining /\ Alert
    BY <2>2 DEF Init, Joining, Alert
  <2> QED
    BY <2>4, <2>5, <2>6 DEF IInv
<1>2. IInv /\ [Next]_vars => IInv'
  <2> SUFFICES ASSUME IInv, [Next]_vars PROVE IInv'
    OBVIOUS
  <2>1. CASE UNCHANGED vars
    BY <2>1 DEF vars, config, ending, asks, join, links, history, IInv, Shape, Gone, Joining,
                Alert, Noticing, NonBeacon
  <2>2. CASE Next
    BY <2>2, MainKeeps, ControlKeeps, RestartKeeps, LinkKeeps, ClientKeeps DEF Next
  <2> QED
    BY <2>1, <2>2
<1> QED
  BY <1>1, <1>2, PTL DEF Spec

\* A join that failed is not taken for one that succeeded: whenever a non-beacon
\* node starts its clients, in whichever run, the list to read them from exists.
THEOREM ListThere == Spec => []ListReadable
<1>1. IInv => ListReadable
  BY DEF IInv, Joining, ListReadable
<1> QED
  BY <1>1, LifecycleInvariant, PTL

\* The main thread cleans up, and starts again, with no control thread left.
THEOREM CleansUpAlone == Spec => []ControlEnded
<1>1. IInv => ControlEnded
  BY Names DEF IInv, Gone, ControlEnded, Control, NoServer, NoDispatch, NoTimer, NoKeyboard,
               NoSignal
<1> QED
  BY <1>1, LifecycleInvariant, PTL

\* A node whose last neighbour closed the connection is looked after: the run is
\* ending, or a thread is about to see to it.
THEOREM NotLeftAlone == Spec => []IsolationNoticed
<1>1. IInv => IsolationNoticed
  BY DEF IInv, Alert, Noticing, IsolationNoticed
<1> QED
  BY <1>1, LifecycleInvariant, PTL
=============================================================================
