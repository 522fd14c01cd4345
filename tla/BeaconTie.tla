----------------------------- MODULE BeaconTie -----------------------------
(***************************************************************************)
(* Beacon nodes connect to each other.  Every beacon has a client thread   *)
(* for every other one, so two beacons that start together make two        *)
(* connections; the handler of the hello message (handler.cpp:337-413)     *)
(* finds that out and the node with the lower port, or host name, closes   *)
(* one of them.  A connection is <<client, server>>: a client thread       *)
(* connects once.                                                          *)
(***************************************************************************)
EXTENDS Naturals, FiniteSets

CONSTANTS
    Beacons,
    Lists,      \* the other beacons that the configuration file of each one lists
    Rank        \* their order: by port, then by host name

ASSUME ListsAssumption == \A b \in Beacons : Lists[b] \subseteq Beacons \ {b}
ASSUME RankAssumption ==
    /\ Rank \in [Beacons -> Nat]
    /\ \A b, c \in Beacons : Rank[b] = Rank[c] => b = c

Conns == {k \in Beacons \X Beacons : k[2] \in Lists[k[1]]}
Ends(b) == {k \in Conns : b \in {k[1], k[2]}}
Peer(b, k) == IF b = k[1] THEN k[2] ELSE k[1]

VARIABLES
    up,         \* the beacons that have started
    client,     \* the client thread of each connection
    nb,         \* nb_map of each beacon: the connections it lists
    recv,       \* the receive thread at each end of each connection
    hellos      \* hello messages on their way to an end

vars == <<up, client, nb, recv, hellos>>

ClientStates == {"check", "connect", "list", "over"}
RecvStates == {"none", "wait", "known", "new", "tie", "unlist", "close", "shut"}
AllEnds == {e \in Beacons \X Conns : e[1] \in {e[2][1], e[2][2]}}

Init ==
    /\ up = {}
    /\ client = [k \in Conns |-> "check"]
    /\ nb = [b \in Beacons |-> {}]
    /\ recv = [e \in AllEnds |-> "none"]
    /\ hellos = [e \in AllEnds |-> 0]

-----------------------------------------------------------------------------

Far(e) == <<Peer(e[1], e[2]), e[2]>>

\* equals(): the neighbours of b that the table says are c.
Entries(b, c) == {k \in nb[b] : Peer(b, k) = c}

\* push_dispatch_queue of a hello; an end that is closed reads nothing.
SendHello(e) ==
    hellos' = IF recv[Far(e)] = "shut" THEN hellos ELSE [hellos EXCEPT ![Far(e)] = @ + 1]

RecvGoto(e, state) == recv' = [recv EXCEPT ![e] = state]

\* Server, client and control threads start together.
Start(b) ==
    /\ b \notin up
    /\ up' = up \cup {b}
    /\ UNCHANGED <<client, nb, recv, hellos>>

\* The loop of client_socket_prepare: is the beacon a neighbour by now?
ClientCheck(k) ==
    /\ client[k] = "check" /\ k[1] \in up
    /\ client' = [client EXCEPT ![k] = IF Entries(k[1], k[2]) # {} THEN "over" ELSE "connect"]
    /\ UNCHANGED <<up, nb, recv, hellos>>

\* The server accepts and its threads start; it does not know yet who calls.
ClientConnect(k) ==
    /\ client[k] = "connect" /\ k[2] \in up
    /\ client' = [client EXCEPT ![k] = "list"]
    /\ RecvGoto(<<k[2], k>>, "wait")
    /\ UNCHANGED <<up, nb, hellos>>

\* connect fails: after retryTime the table is searched again.
ClientRetry(k) ==
    /\ client[k] = "connect" /\ k[2] \notin up
    /\ client' = [client EXCEPT ![k] = "check"]
    /\ UNCHANGED <<up, nb, recv, hellos>>

\* add_to_neighbor_table, fork_send_recv_thread, send_hello_message.
ClientList(k) ==
    /\ client[k] = "list"
    /\ client' = [client EXCEPT ![k] = "over"]
    /\ nb' = [nb EXCEPT ![k[1]] = @ \cup {k}]
    /\ RecvGoto(<<k[1], k>>, "wait")
    /\ SendHello(<<k[1], k>>)
    /\ UNCHANGED up

-----------------------------------------------------------------------------
(* handle_helloMsg; it takes nb_map_lock three times.                      *)

\* Mutant: the table is not searched.
Known_Never(e) == FALSE

\* isSentHello: the sender is in the table, by this connection or another.
Known(e) == Entries(e[1], Peer(e[1], e[2])) # {}

Look(e) ==
    /\ recv[e] = "wait" /\ hellos[e] > 0
    /\ hellos' = [hellos EXCEPT ![e] = @ - 1]
    /\ RecvGoto(e, IF Known(e) THEN "known" ELSE "new")
    /\ UNCHANGED <<up, client, nb>>

\* The connection is listed, and a sender that was not known gets a hello.
Answer(e) ==
    /\ recv[e] \in {"known", "new"}
    /\ nb' = [nb EXCEPT ![e[1]] = @ \cup {e[2]}]
    /\ IF recv[e] = "new" THEN SendHello(e) ELSE UNCHANGED hellos
    /\ RecvGoto(e, "tie")
    /\ UNCHANGED <<up, client>>

\* from_beacon and isBreakTie: the sender is a beacon, and any two entries of
\* the table are equal, whoever they are.
Tie(e) ==
    /\ Peer(e[1], e[2]) \in Lists[e[1]]
    /\ \E k, l \in nb[e[1]] : k # l /\ Peer(e[1], k) = Peer(e[1], l)

Lower(e) == Rank[e[1]] < Rank[Peer(e[1], e[2])]

BreakTie(e) ==
    /\ recv[e] = "tie" /\ Tie(e) /\ Lower(e)
    /\ RecvGoto(e, "unlist")
    /\ UNCHANGED <<up, client, nb, hellos>>

\* Mutant: the lower node is not told.
LeaveTie_Silent(e) ==
    /\ recv[e] = "tie" /\ Tie(e) /\ ~Lower(e)
    /\ RecvGoto(e, "wait")
    /\ UNCHANGED <<up, client, nb, hellos>>

\* The lower node may have looked before it listed both: it is told again.
LeaveTie(e) ==
    /\ recv[e] = "tie" /\ Tie(e) /\ ~Lower(e)
    /\ SendHello(e)
    /\ RecvGoto(e, "wait")
    /\ UNCHANGED <<up, client, nb>>

NoTie(e) ==
    /\ recv[e] = "tie" /\ ~Tie(e)
    /\ RecvGoto(e, "wait")
    /\ UNCHANGED <<up, client, nb, hellos>>

-----------------------------------------------------------------------------
(* The end of child_recv_thread.                                           *)

\* Mutant: the connection stays in the table.
Unlist_Not(e) ==
    /\ recv[e] = "unlist"
    /\ RecvGoto(e, "close")
    /\ UNCHANGED <<up, client, nb, hellos>>

Unlist(e) ==
    /\ recv[e] = "unlist"
    /\ nb' = [nb EXCEPT ![e[1]] = @ \ {e[2]}]
    /\ RecvGoto(e, "close")
    /\ UNCHANGED <<up, client, hellos>>

\* What is in the queue of the send thread, or behind unread data, is lost.
Close(e) ==
    /\ recv[e] = "close"
    /\ RecvGoto(e, "shut")
    /\ \E n \in 0 .. hellos[Far(e)] : hellos' = [hellos EXCEPT ![Far(e)] = n, ![e] = 0]
    /\ UNCHANGED <<up, client, nb>>

\* The other end has closed; nobody sees this end between its steps.
EndOfFile(e) ==
    /\ recv[e] = "wait" /\ hellos[e] = 0 /\ recv[Far(e)] = "shut"
    /\ nb' = [nb EXCEPT ![e[1]] = @ \ {e[2]}]
    /\ RecvGoto(e, "shut")
    /\ UNCHANGED <<up, client, hellos>>

ClientStep(k) == ClientCheck(k) \/ ClientConnect(k) \/ ClientRetry(k) \/ ClientList(k)

RecvStep(e) ==
    \/ Look(e) \/ Answer(e) \/ BreakTie(e) \/ LeaveTie(e) \/ NoTie(e)
    \/ Unlist(e) \/ Close(e) \/ EndOfFile(e)

Next ==
    \/ \E b \in Beacons : Start(b)
    \/ \E k \in Conns : ClientStep(k)
    \/ \E e \in AllEnds : RecvStep(e)

Spec == Init /\ [][Next]_vars

\* Beacons are started, and each gets processor time: less than that each of
\* its threads does.
FairSpec ==
    /\ Spec
    /\ \A b \in Beacons : WF_vars(Start(b))
    /\ \A b \in Beacons : WF_vars(\/ \E k \in Conns : k[1] = b /\ ClientStep(k)
                                 \/ \E e \in AllEnds : e[1] = b /\ RecvStep(e))

-----------------------------------------------------------------------------
(* Properties.                                                             *)

TypeOK ==
    /\ up \subseteq Beacons
    /\ client \in [Conns -> ClientStates]
    /\ nb \in [Beacons -> SUBSET Conns] /\ \A b \in Beacons : nb[b] \subseteq Ends(b)
    /\ recv \in [AllEnds -> RecvStates]
    /\ hellos \in [AllEnds -> Nat]

\* Nobody has anything left to do.
Quiet ==
    /\ up = Beacons
    /\ \A k \in Conns : client[k] = "over"
    /\ \A e \in AllEnds :
          \/ recv[e] \in {"none", "shut"}
          \/ recv[e] = "wait" /\ hellos[e] = 0 /\ recv[Far(e)] # "shut"

Open(k) == recv[<<k[1], k>>] = "wait" /\ recv[<<k[2], k>>] = "wait"

\* Whatever the order of connects, hellos and closes, two beacons do not stay
\* connected twice: their floods would run over both (handler.cpp:381-412).
TieBroken ==
    Quiet => \A k, l \in Conns : Open(k) /\ Open(l) /\ k # l => k # <<l[2], l[1]>>

\* Both ends list the connections that are open, and no others, so that each
\* floods to the other (handler.cpp:357, node.cpp:1282-1288).
TablesAgree == Quiet => \A b \in Beacons : nb[b] = {k \in Ends(b) : Open(k)}

\* The hello messages come to an end: the hello that tells of a tie is not
\* answered with one (handler.cpp:358, 409).
Settles == <>[]Quiet

=============================================================================
