------------------------------ MODULE Routing -------------------------------
(***************************************************************************)
(* Requests and answers between nodes (src/system/handler.cpp, handler2.cpp*)
(* and the receive threads of node.cpp).  A request is flooded to the      *)
(* neighbours while its TTL lasts; every node that forwards it remembers in*)
(* routing_map the socket it came from, and answers go back along these    *)
(* entries.  UOID_time_map tells the messages that a node has seen.        *)
(*                                                                         *)
(* A link stands for a socket.  The dispatch queue, the send queue and the *)
(* TCP stream between two nodes are one FIFO; a receive thread first looks *)
(* the UOID up under UOID_time_map_lock and then runs the handler, and the *)
(* receive threads of a node do so at the same time.                       *)
(***************************************************************************)
EXTENDS Naturals, Sequences, FiniteSets

CONSTANTS
    Nodes,
    Links,          \* <<n, m>>: n has a socket to m; symmetric
    Beacons,        \* beacon nodes
    Requests,       \* the UOIDs of request messages
    Kind,           \* what each request asks for
    From,           \* the node that creates it
    StartTTL,       \* its TTL, TTL of the configuration or the user's
    TTL,            \* TTL in the configuration of each node
    Has,            \* the nodes with a match for a search or get request
    NoNode, NoMessage,
    MaxAsked,       \* bound: requests made in a behaviour
    MaxExpired,     \* bound, for each request: UOIDs that stay longer than msgLifeTime
    Breakable       \* bound: the links that may break

Kinds == {"check", "status", "files", "search", "get", "join", "delete", "store"}
StatusKinds == {"status", "files"}

\* Non-beacon nodes that are still joining: one temporary connection each.
Joiners == {From[u] : u \in {v \in Requests : Kind[v] = "join"}}
Peers(n) == {m \in Nodes : <<n, m>> \in Links}

ASSUME NetworkAssumption ==
    /\ Links \subseteq Nodes \X Nodes /\ Beacons \subseteq Nodes
    /\ \A l \in Links : l[1] # l[2] /\ <<l[2], l[1]>> \in Links
    /\ NoNode \notin Nodes
    /\ \A j \in Joiners : j \notin Beacons /\ \E b \in Nodes : Peers(j) = {b}
    /\ Breakable \subseteq Links
ASSUME RequestAssumption ==
    /\ Kind \in [Requests -> Kinds] /\ From \in [Requests -> Nodes]
    /\ StartTTL \in [Requests -> 0 .. 255] /\ TTL \in [Nodes -> 0 .. 255]
    /\ Has \in [Requests -> SUBSET Nodes]
    /\ MaxAsked \in Nat /\ MaxExpired \in [Requests -> Nat]
    /\ \A u \in Requests : /\ Kind[u] = "check" => From[u] \notin Beacons
                           /\ Kind[u] # "join" => From[u] \notin Joiners

VARIABLES
    nbMap,          \* nb_map: the neighbours of each node
    seen,           \* UOID_time_map
    route,          \* routing_map: where the answers to a request go
    wire,           \* messages on the way, oldest first
    hand,           \* the message in the hands of each receive thread
    asked,          \* the requests made so far
    waiting,        \* check_msg_UOID, issent_status, search_done_map, getMsgFilename_map
    heard,          \* answers that reached the node that waited for them
    answers,        \* how many answers each node made to each request
    dead,           \* nodes whose process has ended
    expired         \* how many UOIDs have timed out

vars == <<nbMap, seen, route, wire, hand, asked, waiting, heard, answers, dead, expired>>

\* The mark belongs to the node that has the message: it is new there, has been
\* seen before, or is a request whose sender has been entered in routing_map.
Message == [type : {"request", "answer"}, req : Requests, by : Nodes, nr : Nat,
            ttl : 0 .. 255, mark : {"new", "again", "noted"}]
Uoid(h) == [type |-> h.type, req |-> h.req, by |-> h.by, nr |-> h.nr]
Uoids == [type : {"request", "answer"}, req : Requests, by : Nodes, nr : Nat]

ASSUME MessageAssumption == NoMessage \notin Message

Init ==
    /\ nbMap = [n \in Nodes |-> IF n \in Joiners THEN Peers(n) ELSE Peers(n) \ Joiners]
    /\ seen = [n \in Nodes |-> {}]
    /\ route = [n \in Nodes |-> [u \in Requests |-> NoNode]]
    /\ wire = [l \in Links |-> <<>>]
    /\ hand = [l \in Links |-> NoMessage]
    /\ asked = {} /\ waiting = {}
    /\ heard = [u \in Requests |-> {}]
    /\ answers = [u \in Requests |-> [n \in Nodes |-> 0]]
    /\ dead = {} /\ expired = 0

-----------------------------------------------------------------------------
(* Sending and receiving.                                                  *)

\* The socket between n and m is open; a joining node enters nb_map late.
Open(n, m) == m \in nbMap[n] \/ n \in nbMap[m]

\* Messages of n enter the links to the nodes in the domain of out.  What is
\* sent to a connection that has closed never arrives.
Sent(queues, n, out) ==
    [l \in Links |-> IF l[1] = n /\ l[2] \in DOMAIN out /\ Open(l[1], l[2])
                     THEN Append(queues[l], out[l[2]]) ELSE queues[l]]

To(S, h) == [m \in S |-> h]

\* get_header_from_msg: TTL is an unsigned char.
Received(h) == [h EXCEPT !.ttl = (h.ttl + 255) % 256]

\* The handlers of SHRS and of STRS with files go on with a message that was
\* received before; a GTRS is read and dropped like the other messages.
Repeats(h) == h.type = "answer" /\ Kind[h.req] \in {"search", "files"}

\* An answer comes with metadata; a node without files has none to report.
CarriesFiles(h) ==
    /\ h.type = "answer"
    /\ \/ Kind[h.req] = "search"
       \/ Kind[h.req] = "files" /\ h.by \in Has[h.req]

\* Metadata that came before is read off the socket and not written to a file
\* of tempMeta, but the send thread opens that file.
Unsendable(h) == h.mark = "again" /\ CarriesFiles(h)

\* Mutant: UOID_time_map is not looked up.
Receive_Again(m, n) ==
    /\ <<m, n>> \in Links /\ n \notin Joiners
    /\ hand[<<m, n>>] = NoMessage /\ wire[<<m, n>>] # <<>> /\ ~Unsendable(Head(wire[<<m, n>>]))
    /\ LET h == [Received(Head(wire[<<m, n>>])) EXCEPT !.mark = "new"]
       IN  /\ seen' = [seen EXCEPT ![n] = @ \cup {Uoid(h)}]
           /\ hand' = [hand EXCEPT ![<<m, n>>] = h]
    /\ wire' = [wire EXCEPT ![<<m, n>>] = Tail(@)]
    /\ UNCHANGED <<nbMap, route, asked, waiting, heard, answers, dead, expired>>

\* A receive thread of n, for the connection with m, takes the next message.
Receive(m, n) ==
    /\ <<m, n>> \in Links /\ n \notin Joiners
    /\ hand[<<m, n>>] = NoMessage /\ wire[<<m, n>>] # <<>> /\ ~Unsendable(Head(wire[<<m, n>>]))
    /\ LET h == Received(Head(wire[<<m, n>>]))
           new == Uoid(h) \notin seen[n]
       IN  /\ seen' = [seen EXCEPT ![n] = @ \cup {Uoid(h)}]
           /\ hand' = [hand EXCEPT ![<<m, n>>] =
                          IF new \/ Repeats(h)
                          THEN [h EXCEPT !.mark = IF new THEN "new" ELSE "again"] ELSE NoMessage]
    /\ wire' = [wire EXCEPT ![<<m, n>>] = Tail(@)]
    /\ UNCHANGED <<nbMap, route, asked, waiting, heard, answers, dead, expired>>

\* join_recv_thread only looks at join responses, seen before or not.
JoinerReceives(m, n) ==
    /\ <<m, n>> \in Links /\ n \in Joiners
    /\ wire[<<m, n>>] # <<>> /\ ~Unsendable(Head(wire[<<m, n>>]))
    /\ LET h == Head(wire[<<m, n>>])
       IN  heard' = IF h.type = "answer" /\ Kind[h.req] = "join"
                    THEN [heard EXCEPT ![h.req] = @ \cup {<<h.by, h.nr>>}] ELSE heard
    /\ wire' = [wire EXCEPT ![<<m, n>>] = Tail(@)]
    /\ UNCHANGED <<nbMap, seen, route, hand, asked, waiting, answers, dead, expired>>

-----------------------------------------------------------------------------
(* Handlers of requests.  h is the message, in the hands of the receive    *)
(* thread of n for its connection with m.                                  *)

Handles(m, n, type, kinds) ==
    /\ <<m, n>> \in Links /\ hand[<<m, n>>] # NoMessage
    /\ hand[<<m, n>>].type = type /\ Kind[hand[<<m, n>>].req] \in kinds

Done(m, n) == hand' = [hand EXCEPT ![<<m, n>>] = NoMessage]

\* create_*ResMsg: a new UOID, the TTL of this node's configuration.
Answer(n, u) == [type |-> "answer", req |-> u, by |-> n, nr |-> answers[u][n],
                 ttl |-> TTL[n], mark |-> "new"]

\* Mutants: no TTL check; the TTL is taken before the decrement.
FloodTo_Always(m, n, h) == nbMap[n] \ {m}
FloodTo_Early(m, n, h) == IF h.ttl <= 1 THEN {} ELSE nbMap[n] \ {m}

\* flood_msg: every neighbour but the one that sent the message.
FloodTo(m, n, h) == IF h.ttl = 0 THEN {} ELSE nbMap[n] \ {m}

\* Mutants: the request is flooded before its sender is remembered; the last
\* sender replaces the first.
AnswerAndFlood_Late(m, n, h, replies) ==
    \/ /\ h.mark = "new"
       /\ wire' = Sent(wire, n, [x \in (IF replies THEN {m} ELSE {}) \cup FloodTo(m, n, h) |->
                                     IF x = m THEN Answer(n, h.req) ELSE h])
       /\ answers' = IF replies THEN [answers EXCEPT ![h.req][n] = @ + 1] ELSE answers
       /\ hand' = [hand EXCEPT ![<<m, n>>] = IF h.ttl = 0 THEN NoMessage ELSE [h EXCEPT !.mark = "noted"]]
       /\ UNCHANGED route
    \/ /\ h.mark = "noted"
       /\ route' = IF route[n][h.req] # NoNode THEN route ELSE [route EXCEPT ![n][h.req] = m]
       /\ Done(m, n) /\ UNCHANGED <<wire, answers>>

AnswerAndFlood_Last(m, n, h, replies) ==
    \/ /\ h.mark = "new"
       /\ wire' = Sent(wire, n, To(IF replies THEN {m} ELSE {}, Answer(n, h.req)))
       /\ answers' = IF replies THEN [answers EXCEPT ![h.req][n] = @ + 1] ELSE answers
       /\ route' = IF h.ttl = 0 THEN route ELSE [route EXCEPT ![n][h.req] = m]
       /\ hand' = [hand EXCEPT ![<<m, n>>] = IF h.ttl = 0 THEN NoMessage ELSE [h EXCEPT !.mark = "noted"]]
    \/ /\ h.mark = "noted"
       /\ wire' = Sent(wire, n, To(FloodTo(m, n, h), [h EXCEPT !.mark = "new"]))
       /\ Done(m, n) /\ UNCHANGED <<answers, route>>

\* Answer if n can, and if the TTL lasts, remember the sender under
\* routing_map_lock, and flood when that lock has been given back.
AnswerAndFlood(m, n, h, replies) ==
    \/ /\ h.mark = "new"
       /\ wire' = Sent(wire, n, To(IF replies THEN {m} ELSE {}, Answer(n, h.req)))
       /\ answers' = IF replies THEN [answers EXCEPT ![h.req][n] = @ + 1] ELSE answers
       /\ route' = IF h.ttl = 0 \/ route[n][h.req] # NoNode THEN route
                   ELSE [route EXCEPT ![n][h.req] = m]
       /\ hand' = [hand EXCEPT ![<<m, n>>] = IF h.ttl = 0 THEN NoMessage ELSE [h EXCEPT !.mark = "noted"]]
    \/ /\ h.mark = "noted"
       /\ wire' = Sent(wire, n, To(FloodTo(m, n, h), [h EXCEPT !.mark = "new"]))
       /\ Done(m, n) /\ UNCHANGED <<answers, route>>

HandleQuery(m, n) ==
    /\ Handles(m, n, "request", {"status", "files", "search", "get"})
    /\ LET h == hand[<<m, n>>]
       IN  AnswerAndFlood(m, n, h, Kind[h.req] \in StatusKinds \/ n \in Has[h.req])
    /\ UNCHANGED <<nbMap, seen, asked, waiting, heard, dead, expired>>

\* A beacon node answers a check and does not flood it; the others only flood.
HandleCheck(m, n) ==
    /\ Handles(m, n, "request", {"check"})
    /\ LET h == hand[<<m, n>>]
       IN  IF n \in Beacons
           THEN /\ wire' = Sent(wire, n, To({m}, Answer(n, h.req)))
                /\ answers' = [answers EXCEPT ![h.req][n] = @ + 1]
                /\ Done(m, n) /\ UNCHANGED route
           ELSE AnswerAndFlood(m, n, h, FALSE)
    /\ UNCHANGED <<nbMap, seen, asked, waiting, heard, dead, expired>>

\* The joining node enters the neighbour table temporarily, before the flood.
HandleJoin(m, n) ==
    /\ Handles(m, n, "request", {"join"})
    /\ nbMap' = [nbMap EXCEPT ![n] = IF Open(m, n) THEN @ \cup {m} ELSE @]
    /\ AnswerAndFlood(m, n, hand[<<m, n>>], TRUE)
    /\ UNCHANGED <<seen, asked, waiting, heard, dead, expired>>

\* handle_deleteMsg has no answer; what it does to the files is in FileSystem.
HandleDelete(m, n) ==
    /\ Handles(m, n, "request", {"delete"})
    /\ LET h == hand[<<m, n>>]
       IN  wire' = Sent(wire, n, To(FloodTo(m, n, h), h))
    /\ Done(m, n)
    /\ UNCHANGED <<nbMap, seen, route, asked, waiting, heard, answers, dead, expired>>

\* A file that is cached goes on to some of the neighbours.
HandleStore(m, n) ==
    /\ Handles(m, n, "request", {"store"})
    /\ LET h == hand[<<m, n>>]
       IN  \E S \in SUBSET FloodTo(m, n, h) : wire' = Sent(wire, n, To(S, h))
    /\ Done(m, n)
    /\ UNCHANGED <<nbMap, seen, route, asked, waiting, heard, answers, dead, expired>>

-----------------------------------------------------------------------------
(* Handlers of answers.                                                    *)

\* Mutant: the header of the answer is made anew, with this node's TTL.
Forward_Fresh(n, h) ==
    wire' = Sent(wire, n, To({route[n][h.req]}, [h EXCEPT !.ttl = TTL[n]]))

\* routing_map knows where the answer goes.
Forward(n, h) == wire' = Sent(wire, n, To({route[n][h.req]}, h))

Hear(h, u) == heard' = [heard EXCEPT ![u] = @ \cup {<<h.by, h.nr>>}]

\* The TTL, then this node's own check, then the routing table.
HandleCheckRes(m, n) ==
    /\ Handles(m, n, "answer", {"check"})
    /\ LET h == hand[<<m, n>>]
           own == h.req \in waiting /\ From[h.req] = n
           on == h.ttl # 0 /\ ~own /\ route[n][h.req] # NoNode
       IN  /\ IF h.ttl # 0 /\ own THEN Hear(h, h.req) ELSE UNCHANGED heard
           /\ IF on THEN Forward(n, h) ELSE UNCHANGED wire
    /\ Done(m, n)
    /\ UNCHANGED <<nbMap, seen, route, asked, waiting, answers, dead, expired>>

HandleJoinRes(m, n) ==
    /\ Handles(m, n, "answer", {"join"})
    /\ LET h == hand[<<m, n>>]
       IN  IF h.ttl # 0 /\ route[n][h.req] # NoNode THEN Forward(n, h) ELSE UNCHANGED wire
    /\ Done(m, n)
    /\ UNCHANGED <<nbMap, seen, route, asked, waiting, heard, answers, dead, expired>>

\* The requests of n that an answer h, not in routing_map, is taken for:
\* for a status, whichever status command of n is open.
TakenFor(n, h) ==
    {u \in waiting : /\ From[u] = n
                     /\ \/ u = h.req /\ Kind[u] \in {"search", "get"}
                        \/ Kind[u] \in StatusKinds /\ Kind[h.req] \in StatusKinds}

\* Mutant: an answer ends no command.
Served_None(own) == {}

\* The commands that an answer ends.
Served(own) == {u \in own : Kind[u] = "get"}

\* STRS, SHRS and GTRS: the routing table, then this node's own command.  The
\* first answer to a get is the last.
HandleQueryRes(m, n) ==
    /\ Handles(m, n, "answer", {"status", "files", "search", "get"})
    /\ LET h == hand[<<m, n>>]
           own == IF route[n][h.req] = NoNode THEN TakenFor(n, h) ELSE {}
       IN  /\ heard' = [u \in Requests |-> IF u \in own THEN heard[u] \cup {<<h.by, h.nr>>}
                                                       ELSE heard[u]]
           /\ waiting' = waiting \ Served(own)
           /\ IF route[n][h.req] # NoNode /\ h.ttl # 0 THEN Forward(n, h) ELSE UNCHANGED wire
    /\ Done(m, n)
    /\ UNCHANGED <<nbMap, seen, route, asked, answers, dead, expired>>

-----------------------------------------------------------------------------
(* A node makes a request.  A TTL of 0 is never sent.                      *)

Request(u) == [type |-> "request", req |-> u, by |-> From[u], nr |-> 0,
               ttl |-> StartTTL[u], mark |-> "new"]

Ask(u, S) ==
    /\ u \notin asked /\ Cardinality(asked) < MaxAsked /\ From[u] \notin dead
    /\ asked' = asked \cup {u}
    /\ wire' = Sent(wire, From[u], To(IF StartTTL[u] = 0 THEN {} ELSE S, Request(u)))
    /\ UNCHANGED <<nbMap, seen, route, hand, heard, answers, dead, expired>>

\* Commands are not read while a search shows its results.
KeyboardFree(n) == \A v \in waiting : From[v] = n => Kind[v] # "search"

\* status, search, get and delete go to all neighbours; a second status
\* command is ignored while the first is open.
AskAll(u) ==
    /\ Kind[u] \in StatusKinds \cup {"search", "get", "delete"}
    /\ KeyboardFree(From[u])
    /\ Kind[u] \in StatusKinds => \A v \in waiting : From[v] = From[u] => Kind[v] \notin StatusKinds
    /\ waiting' = IF Kind[u] = "delete" THEN waiting ELSE waiting \cup {u}
    /\ Ask(u, nbMap[From[u]])

\* create_storeMsg picks neighbours at random.
AskStore(u) ==
    /\ Kind[u] = "store" /\ KeyboardFree(From[u])
    /\ \E S \in SUBSET nbMap[From[u]] : Ask(u, S)
    /\ UNCHANGED waiting

\* send_check_message when the connection with lost has closed, or when lost
\* has said that it leaves; only the UOID of the last check is kept.
AskCheck(u) ==
    /\ Kind[u] = "check" /\ nbMap[From[u]] # {}
    /\ waiting' = {v \in waiting : From[v] = From[u] => Kind[v] # "check"} \cup {u}
    /\ \E lost \in Peers(From[u]) : Ask(u, nbMap[From[u]] \ {lost})

\* join_network: over the one temporary connection.
AskJoin(u) ==
    /\ Kind[u] = "join"
    /\ waiting' = waiting \cup {u}
    /\ Ask(u, nbMap[From[u]])

-----------------------------------------------------------------------------
(* Time, and connections that break.                                       *)

\* timer_thread: msgLifeTime has passed for a UOID; routing_map is not pruned.
Expire(n) ==
    /\ n \notin dead
    /\ \E id \in seen[n] : /\ expired < MaxExpired[id.req]
                           /\ seen' = [seen EXCEPT ![n] = @ \ {id}]
    /\ expired' = expired + 1
    /\ UNCHANGED <<nbMap, route, wire, hand, asked, waiting, heard, answers, dead>>

\* The status file is closed, the search is done, the check was answered.
StopWaiting(u) ==
    /\ u \in waiting
    /\ Kind[u] \in StatusKinds \cup {"search"} \/ (Kind[u] = "check" /\ heard[u] # {})
    /\ waiting' = waiting \ {u}
    /\ UNCHANGED <<nbMap, seen, route, wire, hand, asked, heard, answers, dead, expired>>

\* Both ends of the links in E close them, and what is on the way is lost.
Disconnect(E) ==
    /\ nbMap' = [n \in Nodes |-> {m \in nbMap[n] : <<n, m>> \notin E}]
    /\ wire' = [l \in Links |-> IF l \in E THEN <<>> ELSE wire[l]]

Break(n, m) ==
    /\ <<n, m>> \in Breakable /\ m \in nbMap[n]
    /\ Disconnect({<<n, m>>, <<m, n>>})
    /\ UNCHANGED <<seen, route, hand, asked, waiting, heard, answers, dead, expired>>

\* joinTimeout: the temporary connection closes.
JoinTimeout(u) ==
    /\ u \in waiting /\ Kind[u] = "join"
    /\ waiting' = waiting \ {u}
    /\ Disconnect({l \in Links : From[u] \in {l[1], l[2]}})
    /\ UNCHANGED <<seen, route, hand, asked, heard, answers, dead, expired>>

\* The connections of n close and its receive threads end.
Leave(n) ==
    /\ Disconnect({l \in Links : n \in {l[1], l[2]}})
    /\ hand' = [l \in Links |-> IF l[2] = n THEN NoMessage ELSE hand[l]]
    /\ waiting' = {v \in waiting : From[v] # n}

\* No response to the check: the node notifies its neighbours, leaves the
\* network and forgets all its tables.  In the code the neighbours learn of it
\* while cleanup goes on; here both ends of a connection close at once.
SoftRestart(u) ==
    /\ u \in waiting /\ Kind[u] = "check" /\ heard[u] = {}
    /\ Leave(From[u])
    /\ seen' = [seen EXCEPT ![From[u]] = {}]
    /\ route' = [route EXCEPT ![From[u]] = [v \in Requests |-> NoNode]]
    /\ UNCHANGED <<asked, heard, answers, dead, expired>>

\* The send thread of n for m reads from a file that could not be opened
\* (send_file_data), which ends the process.
SendFails(n, m) ==
    /\ <<n, m>> \in Links
    /\ \E i \in DOMAIN wire[<<n, m>>] : Unsendable(wire[<<n, m>>][i])
    /\ Leave(n)
    /\ dead' = dead \cup {n}
    /\ UNCHANGED <<seen, route, asked, heard, answers, expired>>

-----------------------------------------------------------------------------

Handle(m, n) ==
    \/ HandleQuery(m, n) \/ HandleCheck(m, n) \/ HandleJoin(m, n)
    \/ HandleDelete(m, n) \/ HandleStore(m, n)
    \/ HandleQueryRes(m, n) \/ HandleCheckRes(m, n) \/ HandleJoinRes(m, n)

Deliver(m, n) == Receive(m, n) \/ JoinerReceives(m, n) \/ Handle(m, n) \/ SendFails(m, n)

Next ==
    \/ \E l \in Links : Deliver(l[1], l[2]) \/ Break(l[1], l[2])
    \/ \E u \in Requests : \/ AskAll(u) \/ AskStore(u) \/ AskCheck(u) \/ AskJoin(u)
                           \/ StopWaiting(u) \/ JoinTimeout(u) \/ SoftRestart(u)
    \/ \E n \in Nodes : Expire(n)

Spec == Init /\ [][Next]_vars

\* The receive, dispatch and send threads of every connection run; commands,
\* timers and failures may or may not happen.  That one of the threads with
\* something to do goes on is enough.
FairSpec == Spec /\ WF_vars(\E l \in Links : Deliver(l[1], l[2]))

-----------------------------------------------------------------------------
(* Properties.                                                             *)

TypeOK ==
    /\ nbMap \in [Nodes -> SUBSET Nodes]
    /\ \A n \in Nodes : nbMap[n] \subseteq Peers(n)
    /\ seen \in [Nodes -> SUBSET Uoids]
    /\ route \in [Nodes -> [Requests -> Nodes \cup {NoNode}]]
    /\ wire \in [Links -> Seq(Message)]
    /\ hand \in [Links -> Message \cup {NoMessage}]
    /\ asked \subseteq Requests /\ waiting \subseteq asked
    /\ heard \in [Requests -> SUBSET (Nodes \X Nat)]
    /\ answers \in [Requests -> [Nodes -> Nat]]
    /\ dead \subseteq Nodes /\ expired \in Nat

\* The messages that have been sent to n over its connection with m and are
\* not handled yet.
Coming(m, n) == {wire[<<m, n>>][i] : i \in DOMAIN wire[<<m, n>>]} \cup
                ({hand[<<m, n>>]} \ {NoMessage})

\* n can do something with an answer to u.
KnowsWay(n, u) == n = From[u] \/ route[n][u] # NoNode

\* An answer is only ever on its way to the node that made the request or to
\* one whose routing_map knows where it goes, also when UOIDs expire, requests
\* are handled again and connections break: a node enters the sender of a
\* request in routing_map before it floods it (handler.cpp:547-553), and other
\* receive threads of the node go on between the two.
AnswerRouted ==
    \A m, n \in Nodes : <<m, n>> \in Links /\ Open(m, n) =>
        \A h \in Coming(m, n) : h.type = "answer" => KnowsWay(n, h.req)

\* The entries of the routing maps for a request never form a cycle among the
\* nodes that did not make it, so an answer comes nearer to that node with
\* every hop; the first entry stays (map::insert), though UOIDs expire.
RoutesLeadBack ==
    \A u \in Requests : \A S \in SUBSET {n \in Nodes \ {From[u]} : route[n][u] # NoNode} :
        S # {} => \E n \in S : route[n][u] \notin S

\* No message is sent with a TTL of 0, which the receiver would take for 255,
\* when no node is configured with a TTL of 0 (message.cpp:85).
TTLOnWire ==
    (\A n \in Nodes : TTL[n] > 0) =>
        \A l \in Links : \A i \in DOMAIN wire[l] : wire[l][i].ttl > 0

\* Unless a UOID expires, a node answers a request at most once, whatever the
\* number of connections that bring it at the same time.
AnsweredOnce ==
    expired = 0 => \A u \in Requests, n \in Nodes : answers[u][n] <= 1

\* One get stores at most one file, even if the holder answers twice.
GotOnce == \A u \in Requests : Kind[u] = "get" => Cardinality(heard[u]) <= 1

\* Flooding ends, and so do the answers that two nodes whose routing_map name
\* each other send to and fro, which nobody drops as seen (handler2.cpp:755-800):
\* in the end the TTL or the end of the process leaves no message on its way.
DiesOut == <>[](\A l \in Links : wire[l] = <<>> /\ hand[l] = NoMessage)

\* The nodes within k hops of n.
Ball(n, k) ==
    LET ball[i \in 0 .. k] ==
            IF i = 0 THEN {n} ELSE ball[i - 1] \cup UNION {Peers(m) \ Joiners : m \in ball[i - 1]}
    IN  ball[k]

Responders ==
    [u \in Requests |->
        IF Kind[u] = "check" THEN Ball(From[u], StartTTL[u] - 1) \cap Beacons
        ELSE {n \in Ball(From[u], StartTTL[u]) \ {From[u]} :
                 Kind[u] \in {"status", "files", "join"} \/ n \in Has[u]}]

\* The requests made in a part of the network that has no cycles.
InTree ==
    {u \in Requests : LET part == Ball(From[u], Cardinality(Nodes))
                      IN  Cardinality(Links \cap (part \X part)) = 2 * (Cardinality(part) - 1)}

\* Where the network has no cycles, a node that asks hears in the end from every
\* node that its TTL reaches and that has an answer, unless it stops waiting: the
\* entry in routing_map is there before an answer can come (handler.cpp:547-553,
\* 734-755).
AllAnswered ==
    <>[](\A u \in asked \cap waiting \cap InTree :
            Kind[u] # "check" => \A n \in Responders[u] : <<n, 0>> \in heard[u])

-----------------------------------------------------------------------------
(* What comments of the code say, and the code does not do.                *)

\* "this checkResMsg response of the check message sent by this non_beacon_node"
\* sets checkRes_recv (handler.cpp:476-482), and only a node that did "not
\* receive checkResMsg" restarts (node.cpp:1840): the response counts.
CheckResCounts ==
    [][\A m, n \in Nodes :
          /\ Handles(m, n, "answer", {"check"})
          /\ From[hand[<<m, n>>].req] = n /\ hand[<<m, n>>].req \in waiting
          /\ HandleCheckRes(m, n)
          => heard'[hand[<<m, n>>].req] # {}]_vars

=============================================================================
