--------------------------- MODULE Routing_proofs ----------------------------
(***************************************************************************)
(* The inductive invariant of Routing, for any network, any requests and   *)
(* any bounds, and the theorems that follow from it.                       *)
(***************************************************************************)
EXTENDS Routing, FiniteSetTheorems, TLAPS

\* No message can reach n any more: it has left the network, or never was in it.
Gone(n) ==
    \A l \in Links : l[2] = n => /\ wire[l] = <<>> /\ hand[l] = NoMessage
                                 /\ ~Open(l[1], l[2])

\* Only a node that has gone may forget where a request came from.
WayBack(n, u) == KnowsWay(n, u) \/ Gone(n)

\* A request that somebody may answer.
Answerable(h) == h.type = "request" /\ Kind[h.req] \notin {"delete", "store"}
Holds(l, u) == hand[l] # NoMessage /\ hand[l].type = "request" /\ hand[l].req = u
RequestId(u) == [type |-> "request", req |-> u, by |-> From[u], nr |-> 0]

\* All copies of a request have one UOID.
RequestsKeepId ==
    \A l \in Links : \A h \in Coming(l[1], l[2]) :
        h.type = "request" => Uoid(h) = RequestId(h.req)

\* Whoever has sent a request on, or is named by a routing map, knows what to do
\* with an answer.
SenderKnowsWay ==
    \A l \in Links : \A h \in Coming(l[1], l[2]) : Answerable(h) => WayBack(l[1], h.req)
RouteKnowsWay ==
    \A n \in Nodes, u \in Requests : route[n][u] # NoNode => WayBack(route[n][u], u)

\* Who is about to flood a request has entered its sender.
Noted(l) == hand[l] # NoMessage /\ hand[l].mark = "noted"
NotedKnows ==
    \A l \in Links : Noted(l) => /\ KnowsWay(l[2], hand[l].req)
                                 /\ Kind[hand[l].req] = "check" => l[2] \notin Beacons

\* Unless a UOID expires, only one receive thread of a node has the request in
\* its hands and UOID_time_map knows it; the node has not answered it before
\* that thread has entered its sender.
HandledOnce ==
    expired = 0 =>
        \A u \in Requests, n \in Nodes :
            /\ answers[u][n] > 0 => RequestId(u) \in seen[n] \/ Gone(n)
            /\ \A l \in Links : l[2] = n /\ Holds(l, u) =>
                    /\ ~Noted(l) => answers[u][n] = 0
                    /\ RequestId(u) \in seen[n]
                    /\ \A k \in Links : k[2] = n /\ Holds(k, u) => k = l

\* Nothing was heard of a get that is open or not yet made.
GetOpen ==
    \A u \in Requests : Kind[u] = "get" /\ (u \in waiting \/ u \notin asked) => heard[u] = {}

IInv ==
    /\ TypeOK /\ TTLOnWire /\ RequestsKeepId
    /\ SenderKnowsWay /\ RouteKnowsWay /\ NotedKnows /\ AnswerRouted /\ RoutesLeadBack
    /\ AnsweredOnce /\ HandledOnce /\ GetOpen /\ GotOnce

-----------------------------------------------------------------------------
(* The network, and messages.                                              *)

LEMMA Network ==
    /\ Links \subseteq Nodes \X Nodes /\ NoNode \notin Nodes
    /\ \A l \in Links : /\ l[1] \in Nodes /\ l[2] \in Nodes /\ l = <<l[1], l[2]>>
                        /\ <<l[2], l[1]>> \in Links /\ l[1] # l[2]
    /\ From \in [Requests -> Nodes] /\ Kind \in [Requests -> Kinds]
    /\ StartTTL \in [Requests -> 0 .. 255] /\ TTL \in [Nodes -> 0 .. 255]
    /\ Has \in [Requests -> SUBSET Nodes]
BY NetworkAssumption, RequestAssumption

LEMMA MessageFields ==
    ASSUME NEW h \in Message
    PROVE  /\ h.type \in {"request", "answer"} /\ h.req \in Requests /\ h.by \in Nodes
           /\ h.nr \in Nat /\ h.ttl \in 0 .. 255 /\ h.mark \in {"new", "again", "noted"}
           /\ Uoid(h) \in Uoids /\ h # NoMessage
BY MessageAssumption DEF Message, Uoid, Uoids

LEMMA ReceivedFields ==
    ASSUME NEW h \in Message
    PROVE  /\ Received(h) \in Message
           /\ Received(h).type = h.type /\ Received(h).req = h.req
           /\ Received(h).by = h.by /\ Received(h).nr = h.nr
           /\ Uoid(Received(h)) = Uoid(h)
<1>1. h.ttl \in 0 .. 255 /\ (h.ttl + 255) % 256 \in 0 .. 255
  BY DEF Message
<1> QED BY <1>1 DEF Message, Received, Uoid

\* Messages that differ only in the TTL and the mark.
Like(g, h) == g.type = h.type /\ g.req = h.req /\ Uoid(g) = Uoid(h)

LEMMA MarkFields ==
    ASSUME NEW h \in Message, NEW mark \in {"new", "again", "noted"}
    PROVE  LET g == [h EXCEPT !.mark = mark]
           IN  g \in Message /\ g.mark = mark /\ g.ttl = h.ttl /\ Like(g, h)
BY DEF Message, Uoid, Like

LEMMA AnswerFields ==
    ASSUME TypeOK, NEW n \in Nodes, NEW u \in Requests
    PROVE  /\ Answer(n, u) \in Message
           /\ Answer(n, u).type = "answer" /\ Answer(n, u).req = u
           /\ Answer(n, u).ttl = TTL[n]
<1>1. answers[u][n] \in Nat /\ TTL[n] \in 0 .. 255
  BY Network DEF TypeOK
<1> QED BY <1>1 DEF Answer, Message

LEMMA RequestFields ==
    ASSUME NEW u \in Requests
    PROVE  /\ Request(u) \in Message
           /\ Request(u).type = "request" /\ Request(u).req = u
           /\ Request(u).ttl = StartTTL[u] /\ Uoid(Request(u)) = RequestId(u)
<1>1. From[u] \in Nodes /\ StartTTL[u] \in 0 .. 255
  BY Network
<1> QED BY <1>1 DEF Request, Message, Uoid, RequestId

\* The messages in the queue of a link.
Queued(l) == {wire[l][i] : i \in DOMAIN wire[l]}

LEMMA ComingParts ==
    ASSUME NEW l \in Links
    PROVE  Coming(l[1], l[2]) = Queued(l) \cup ({hand[l]} \ {NoMessage})
<1>1. l = <<l[1], l[2]>>
  BY Network
<1> QED BY <1>1, Zenon DEF Coming, Queued

LEMMA HandType ==
    ASSUME TypeOK, NEW l \in Links
    PROVE  /\ wire[l] \in Seq(Message)
           /\ \A h \in Queued(l) : h \in Message
           /\ hand[l] # NoMessage => hand[l] \in Message
           /\ wire[l] # <<>> => /\ Head(wire[l]) \in Message /\ Tail(wire[l]) \in Seq(Message)
                                /\ Head(wire[l]) \in Queued(l)
                                /\ DOMAIN Tail(wire[l]) = 1 .. Len(wire[l]) - 1
                                /\ \A i \in DOMAIN Tail(wire[l]) : Tail(wire[l])[i] \in Queued(l)
<1>1. wire[l] \in Seq(Message) /\ hand[l] \in Message \cup {NoMessage}
  BY DEF TypeOK
<1> QED BY <1>1 DEF Queued

LEMMA SentFacts ==
    ASSUME TypeOK, NEW n \in Nodes, NEW S, NEW out \in [S -> Message], wire' = Sent(wire, n, out)
    PROVE  /\ wire' \in [Links -> Seq(Message)]
           /\ \A l \in Links : \A h \in Queued(l)' :
                 \/ h \in Queued(l)
                 \/ l[1] = n /\ l[2] \in S /\ Open(l[1], l[2]) /\ h = out[l[2]]
           /\ \A l \in Links : ~Open(l[1], l[2]) => wire'[l] = wire[l]
<1>0. wire \in [Links -> Seq(Message)] /\ DOMAIN out = S
  BY DEF TypeOK
<1>1. \A l \in Links : wire'[l] = IF l[1] = n /\ l[2] \in S /\ Open(l[1], l[2])
                                  THEN Append(wire[l], out[l[2]]) ELSE wire[l]
  BY <1>0 DEF Sent
<1>2. ASSUME NEW l \in Links, l[2] \in S
      PROVE  /\ Append(wire[l], out[l[2]]) \in Seq(Message)
             /\ \A i \in DOMAIN Append(wire[l], out[l[2]]) :
                   Append(wire[l], out[l[2]])[i] \in Queued(l) \cup {out[l[2]]}
  BY <1>0, <1>2 DEF Queued
<1>3. wire' \in [Links -> Seq(Message)]
  BY <1>0, <1>1, <1>2 DEF Sent
<1>4. ASSUME NEW l \in Links, NEW h \in Queued(l)'
      PROVE  \/ h \in Queued(l)
             \/ l[1] = n /\ l[2] \in S /\ Open(l[1], l[2]) /\ h = out[l[2]]
  <2>1. PICK i \in DOMAIN wire'[l] : h = wire'[l][i]
    BY <1>4 DEF Queued
  <2>2. CASE l[1] = n /\ l[2] \in S /\ Open(l[1], l[2])
    <3>1. wire'[l] = Append(wire[l], out[l[2]])
      BY <1>1, <2>2
    <3> QED BY <1>2, <2>1, <2>2, <3>1
  <2>3. CASE ~(l[1] = n /\ l[2] \in S /\ Open(l[1], l[2]))
    BY <1>1, <2>1, <2>3 DEF Queued
  <2> QED BY <2>2, <2>3
<1> QED BY <1>1, <1>3, <1>4

\* What n sends is one message, the same to everybody in S.
LEMMA ToFacts ==
    ASSUME TypeOK, NEW n \in Nodes, NEW S, NEW h \in Message, wire' = Sent(wire, n, To(S, h))
    PROVE  /\ wire' \in [Links -> Seq(Message)]
           /\ \A l \in Links : \A g \in Queued(l)' :
                 \/ g \in Queued(l)
                 \/ l[1] = n /\ l[2] \in S /\ Open(l[1], l[2]) /\ g = h
           /\ \A l \in Links : ~Open(l[1], l[2]) => wire'[l] = wire[l]
<1> DEFINE out == To(S, h)
<1>1. out \in [S -> Message] /\ \A m \in S : out[m] = h
  BY DEF To
<1>2. wire' = Sent(wire, n, out)
  OBVIOUS
<1> HIDE DEF out
<1> QED BY <1>1, <1>2, SentFacts

\* The hand of a thread that has entered the sender of h, or has nothing to flood.
AfterEntry(m, n, h) ==
    hand' = [hand EXCEPT ![<<m, n>>] = IF h.ttl = 0 THEN NoMessage ELSE [h EXCEPT !.mark = "noted"]]

\* The step that answers h, of m, and enters m in the routing map of n.
Enters(m, n, h, replies) ==
    /\ \A l \in Links : \A g \in Queued(l)' :
          g \in Queued(l) \/ (l[1] = n /\ l[2] = m /\ Open(l[1], l[2]) /\ g = Answer(n, h.req))
    /\ answers' = IF replies THEN [answers EXCEPT ![h.req][n] = @ + 1] ELSE answers
    /\ route' = IF h.ttl = 0 \/ route[n][h.req] # NoNode THEN route
                ELSE [route EXCEPT ![n][h.req] = m]
    /\ AfterEntry(m, n, h)

\* The step that floods it.
Floods(m, n, h) ==
    /\ \A l \in Links : \A g \in Queued(l)' :
          \/ g \in Queued(l)
          \/ /\ l[1] = n /\ Open(l[1], l[2]) /\ h.ttl # 0
             /\ g = [h EXCEPT !.mark = "new"]
    /\ UNCHANGED <<answers, route>> /\ Done(m, n)

LEMMA AnswerAndFloodFacts ==
    ASSUME TypeOK, NEW m \in Nodes, NEW n \in Nodes, <<m, n>> \in Links,
           NEW h \in Message, NEW replies, AnswerAndFlood(m, n, h, replies)
    PROVE  /\ wire' \in [Links -> Seq(Message)]
           /\ \A l \in Links : ~Open(l[1], l[2]) => wire'[l] = wire[l]
           /\ \/ h.mark = "new" /\ Enters(m, n, h, replies)
              \/ h.mark = "noted" /\ Floods(m, n, h)
<1>1. h.req \in Requests /\ Answer(n, h.req) \in Message /\ [h EXCEPT !.mark = "new"] \in Message
  BY MessageFields, AnswerFields, MarkFields
<1>2. CASE h.mark = "new"
  <2> DEFINE S == IF replies THEN {m} ELSE {}
  <2>1. /\ wire' = Sent(wire, n, To(S, Answer(n, h.req)))
        /\ answers' = IF replies THEN [answers EXCEPT ![h.req][n] = @ + 1] ELSE answers
        /\ route' = IF h.ttl = 0 \/ route[n][h.req] # NoNode THEN route
                    ELSE [route EXCEPT ![n][h.req] = m]
        /\ AfterEntry(m, n, h)
    BY <1>2 DEF AnswerAndFlood, AfterEntry
  <2>2. S \subseteq {m}
    OBVIOUS
  <2> HIDE DEF S
  <2>3. /\ wire' \in [Links -> Seq(Message)]
        /\ \A l \in Links : \A g \in Queued(l)' :
              \/ g \in Queued(l)
              \/ l[1] = n /\ l[2] \in S /\ Open(l[1], l[2]) /\ g = Answer(n, h.req)
        /\ \A l \in Links : ~Open(l[1], l[2]) => wire'[l] = wire[l]
    BY <1>1, <2>1, ToFacts
  <2>4. Enters(m, n, h, replies)
    BY <2>1, <2>2, <2>3 DEF Enters
  <2> QED BY <1>2, <2>3, <2>4
<1>3. CASE h.mark = "noted"
  <2> DEFINE S == FloodTo(m, n, h)
             g == [h EXCEPT !.mark = "new"]
  <2>1. wire' = Sent(wire, n, To(S, g)) /\ Done(m, n) /\ UNCHANGED <<answers, route>>
    BY <1>3 DEF AnswerAndFlood
  <2>2. S # {} => h.ttl # 0
    BY DEF FloodTo
  <2>3. g \in Message
    BY <1>1
  <2> HIDE DEF S, g
  <2>4. /\ wire' \in [Links -> Seq(Message)]
        /\ \A l \in Links : \A x \in Queued(l)' :
              \/ x \in Queued(l)
              \/ l[1] = n /\ l[2] \in S /\ Open(l[1], l[2]) /\ x = g
        /\ \A l \in Links : ~Open(l[1], l[2]) => wire'[l] = wire[l]
    BY <2>1, <2>3, ToFacts
  <2>5. Floods(m, n, h)
    BY <2>1, <2>2, <2>4 DEF Floods, g
  <2> QED BY <1>3, <2>4, <2>5
<1> QED BY <1>2, <1>3 DEF AnswerAndFlood

LEMMA DisconnectFacts ==
    ASSUME TypeOK, NEW E, Disconnect(E)
    PROVE  /\ nbMap' \in [Nodes -> SUBSET Nodes] /\ \A n \in Nodes : nbMap'[n] \subseteq Peers(n)
           /\ wire' \in [Links -> Seq(Message)]
           /\ \A l \in Links : \A h \in Queued(l)' : h \in Queued(l)
           /\ \A l \in Links : wire'[l] = <<>> \/ wire'[l] = wire[l]
           /\ \A l \in Links : ~Open(l[1], l[2]) => ~Open(l[1], l[2])'
           /\ \A l \in Links : l \in E /\ <<l[2], l[1]>> \in E =>
                 wire'[l] = <<>> /\ ~Open(l[1], l[2])'
<1>1. nbMap \in [Nodes -> SUBSET Nodes] /\ wire \in [Links -> Seq(Message)]
      /\ \A n \in Nodes : nbMap[n] \subseteq Peers(n)
  BY DEF TypeOK
<1>2. /\ nbMap' = [n \in Nodes |-> {m \in nbMap[n] : <<n, m>> \notin E}]
      /\ wire' = [l \in Links |-> IF l \in E THEN <<>> ELSE wire[l]]
  BY DEF Disconnect
<1>3. /\ nbMap' \in [Nodes -> SUBSET Nodes] /\ wire' \in [Links -> Seq(Message)]
      /\ \A n \in Nodes : nbMap'[n] \subseteq Peers(n)
  BY <1>1, <1>2
<1>4. \A l \in Links : wire'[l] = IF l \in E THEN <<>> ELSE wire[l]
  BY <1>2
<1>5. \A l \in Links : \A h \in Queued(l)' : h \in Queued(l)
  BY <1>4 DEF Queued
<1>6. \A n, m \in Nodes : m \in nbMap'[n] <=> m \in nbMap[n] /\ <<n, m>> \notin E
  BY <1>1, <1>2
<1>7. \A l \in Links : ~Open(l[1], l[2]) => ~Open(l[1], l[2])'
  BY <1>6, Network DEF Open
<1>8. \A l \in Links : l \in E /\ <<l[2], l[1]>> \in E => ~Open(l[1], l[2])'
  BY <1>6, Network DEF Open
<1> QED BY <1>3, <1>4, <1>5, <1>7, <1>8

-----------------------------------------------------------------------------
(* The types.                                                              *)

LEMMA HandlesFacts ==
    ASSUME TypeOK, NEW m \in Nodes, NEW n \in Nodes, NEW type, NEW kinds,
           Handles(m, n, type, kinds)
    PROVE  /\ <<m, n>> \in Links /\ hand[<<m, n>>] \in Message /\ hand[<<m, n>>] # NoMessage
           /\ hand[<<m, n>>].type = type /\ hand[<<m, n>>].req \in Requests
           /\ Kind[hand[<<m, n>>].req] \in kinds
<1>1. <<m, n>> \in Links /\ hand[<<m, n>>] \in Message
  BY DEF Handles, TypeOK
<1> QED BY <1>1, MessageFields DEF Handles

\* The message at the head of l, as the node at its end takes it in hand.
Taken(l, mark) == [Received(Head(wire[l])) EXCEPT !.mark = mark]

LEMMA ReceiveEffect ==
    ASSUME TypeOK, NEW m \in Nodes, NEW n \in Nodes, Receive(m, n)
    PROVE  /\ <<m, n>> \in Links /\ wire[<<m, n>>] # <<>>
           /\ hand[<<m, n>>] = NoMessage
           /\ LET id == Uoid(Head(wire[<<m, n>>]))
                  new == id \notin seen[n]
                  h == Taken(<<m, n>>, IF new THEN "new" ELSE "again")
              IN  /\ h \in Message /\ id \in Uoids
                  /\ h.mark = (IF new THEN "new" ELSE "again") /\ Like(h, Head(wire[<<m, n>>]))
                  /\ seen' = [seen EXCEPT ![n] = @ \cup {id}]
                  /\ hand' = [hand EXCEPT ![<<m, n>>] = IF new \/ Repeats(h) THEN h ELSE NoMessage]
           /\ wire' = [wire EXCEPT ![<<m, n>>] = Tail(@)]
           /\ UNCHANGED <<nbMap, route, asked, waiting, heard, answers, dead, expired>>
<1>1. <<m, n>> \in Links /\ wire[<<m, n>>] # <<>>
  BY DEF Receive
<1>2. PICK g : g = Head(wire[<<m, n>>])
  OBVIOUS
<1>3. g \in Message
  BY <1>1, <1>2, HandType
<1>4. PICK r : r = Received(g)
  OBVIOUS
<1>5. r \in Message /\ Like(r, g) /\ Uoid(g) \in Uoids /\ Uoid(r) = Uoid(g)
  BY <1>3, <1>4, ReceivedFields, MessageFields DEF Like
<1> DEFINE new == Uoid(g) \notin seen[n]
           mark == IF new THEN "new" ELSE "again"
           h == [r EXCEPT !.mark = mark]
<1>6. h \in Message /\ h.mark = mark /\ Like(h, r)
  BY <1>5, MarkFields
<1>7. Like(h, g)
  BY <1>5, <1>6 DEF Like
<1>8. Repeats(r) <=> Repeats(h)
  BY <1>6 DEF Repeats, Like
<1>9. /\ hand[<<m, n>>] = NoMessage
      /\ seen' = [seen EXCEPT ![n] = @ \cup {Uoid(r)}]
      /\ hand' = [hand EXCEPT ![<<m, n>>] =
                     IF Uoid(r) \notin seen[n] \/ Repeats(r)
                     THEN [r EXCEPT !.mark = IF Uoid(r) \notin seen[n] THEN "new" ELSE "again"]
                     ELSE NoMessage]
      /\ wire' = [wire EXCEPT ![<<m, n>>] = Tail(@)]
      /\ UNCHANGED <<nbMap, route, asked, waiting, heard, answers, dead, expired>>
  BY <1>2, <1>4 DEF Receive
<1>10. h = Taken(<<m, n>>, mark)
  BY <1>2, <1>4 DEF Taken
<1>11. /\ seen' = [seen EXCEPT ![n] = @ \cup {Uoid(g)}]
       /\ hand' = [hand EXCEPT ![<<m, n>>] = IF new \/ Repeats(h) THEN h ELSE NoMessage]
  BY <1>5, <1>8, <1>9
<1> HIDE DEF h
<1> QED BY <1>1, <1>2, <1>5, <1>6, <1>7, <1>9, <1>10, <1>11

LEMMA JoinerEffect ==
    ASSUME TypeOK, NEW m \in Nodes, NEW n \in Nodes, JoinerReceives(m, n)
    PROVE  /\ <<m, n>> \in Links /\ wire[<<m, n>>] # <<>>
           /\ \/ heard' = heard
              \/ \E h \in Message : /\ h.type = "answer" /\ Kind[h.req] = "join"
                                    /\ heard' = [heard EXCEPT ![h.req] = @ \cup {<<h.by, h.nr>>}]
           /\ wire' = [wire EXCEPT ![<<m, n>>] = Tail(@)]
           /\ UNCHANGED <<nbMap, seen, route, hand, asked, waiting, answers, dead, expired>>
<1>1. <<m, n>> \in Links /\ wire[<<m, n>>] # <<>>
  BY DEF JoinerReceives
<1>2. Head(wire[<<m, n>>]) \in Message
  BY <1>1, HandType
<1> QED BY <1>1, <1>2 DEF JoinerReceives

LEMMA TailType ==
    ASSUME TypeOK, NEW l \in Links, wire[l] # <<>>, wire' = [wire EXCEPT ![l] = Tail(@)]
    PROVE  /\ wire' \in [Links -> Seq(Message)]
           /\ \A k \in Links : \A h \in Queued(k)' : h \in Queued(k)
           /\ \A k \in Links : wire[k] = <<>> => wire'[k] = <<>>
<1>1. wire \in [Links -> Seq(Message)] /\ Tail(wire[l]) \in Seq(Message)
  BY HandType DEF TypeOK
<1>2. wire' \in [Links -> Seq(Message)] /\ \A k \in Links \ {l} : wire'[k] = wire[k]
  BY <1>1
<1>3. wire'[l] = Tail(wire[l])
  BY <1>1
<1>4. ASSUME NEW h \in Queued(l)' PROVE h \in Queued(l)
  BY <1>3, <1>4, HandType DEF Queued
<1> QED BY <1>2, <1>4 DEF Queued

LEMMA HeardType ==
    ASSUME TypeOK, NEW h \in Message, heard' = [heard EXCEPT ![h.req] = @ \cup {<<h.by, h.nr>>}]
    PROVE  heard' \in [Requests -> SUBSET (Nodes \X Nat)]
BY MessageFields DEF TypeOK

LEMMA AnswerCounted ==
    ASSUME TypeOK, NEW n \in Nodes, NEW u \in Requests
    PROVE  [answers EXCEPT ![u][n] = @ + 1] \in [Requests -> [Nodes -> Nat]]
BY DEF TypeOK

LEMMA DoneType ==
    ASSUME TypeOK, NEW m \in Nodes, NEW n \in Nodes, <<m, n>> \in Links, Done(m, n)
    PROVE  /\ hand' \in [Links -> Message \cup {NoMessage}]
           /\ hand'[<<m, n>>] = NoMessage
           /\ \A l \in Links : l # <<m, n>> => hand'[l] = hand[l]
BY DEF TypeOK, Done

LEMMA AnswerAndFloodType ==
    ASSUME TypeOK, NEW m \in Nodes, NEW n \in Nodes, <<m, n>> \in Links,
           NEW h \in Message, NEW replies, AnswerAndFlood(m, n, h, replies)
    PROVE  /\ wire' \in [Links -> Seq(Message)]
           /\ hand' \in [Links -> Message \cup {NoMessage}]
           /\ route' \in [Nodes -> [Requests -> Nodes \cup {NoNode}]]
           /\ answers' \in [Requests -> [Nodes -> Nat]]
<1>1. h.req \in Requests
  BY MessageFields
<1>2. [route EXCEPT ![n][h.req] = m] \in [Nodes -> [Requests -> Nodes \cup {NoNode}]]
  BY <1>1 DEF TypeOK
<1>3. route \in [Nodes -> [Requests -> Nodes \cup {NoNode}]]
      /\ answers \in [Requests -> [Nodes -> Nat]]
  BY DEF TypeOK
<1>4. wire' \in [Links -> Seq(Message)]
  BY AnswerAndFloodFacts
<1>5. CASE Enters(m, n, h, replies)
  <2>1. answers' \in [Requests -> [Nodes -> Nat]]
    BY <1>1, <1>3, <1>5, AnswerCounted DEF Enters
  <2>2. [h EXCEPT !.mark = "noted"] \in Message
    BY MarkFields
  <2>3. hand' \in [Links -> Message \cup {NoMessage}]
    BY <1>5, <2>2 DEF Enters, AfterEntry, TypeOK
  <2> QED BY <1>2, <1>3, <1>4, <1>5, <2>1, <2>3 DEF Enters
<1>6. CASE Floods(m, n, h)
  BY <1>3, <1>4, <1>6, DoneType DEF Floods
<1> QED BY <1>5, <1>6, AnswerAndFloodFacts

LEMMA RequestTypes ==
    ASSUME TypeOK, NEW l \in Links,
           \/ HandleQuery(l[1], l[2]) \/ HandleCheck(l[1], l[2]) \/ HandleJoin(l[1], l[2])
           \/ HandleDelete(l[1], l[2]) \/ HandleStore(l[1], l[2])
    PROVE  TypeOK'
<1> DEFINE m == l[1]
           n == l[2]
           h == hand[l]
<1>0. m \in Nodes /\ n \in Nodes /\ l = <<m, n>> /\ <<n, m>> \in Links
  BY Network
<1> HIDE DEF m, n
<1>1. CASE HandleQuery(m, n)
  <2>1. l \in Links /\ h \in Message /\ h.req \in Requests
    BY <1>0, <1>1, HandlesFacts DEF HandleQuery
  <2>2. AnswerAndFlood(m, n, h, Kind[h.req] \in StatusKinds \/ n \in Has[h.req])
    BY <1>0, <1>1 DEF HandleQuery
  <2>3. UNCHANGED <<nbMap, seen, asked, waiting, heard, dead, expired>>
    BY <1>1 DEF HandleQuery
  <2> HIDE DEF h
  <2> QED BY <1>0, <2>1, <2>2, <2>3, AnswerAndFloodType DEF TypeOK
<1>2. CASE HandleCheck(m, n)
  <2>1. l \in Links /\ h \in Message /\ h.req \in Requests
    BY <1>0, <1>2, HandlesFacts DEF HandleCheck
  <2>2. IF n \in Beacons
        THEN /\ wire' = Sent(wire, n, To({m}, Answer(n, h.req)))
             /\ answers' = [answers EXCEPT ![h.req][n] = @ + 1]
             /\ Done(m, n) /\ UNCHANGED route
        ELSE AnswerAndFlood(m, n, h, FALSE)
    BY <1>0, <1>2 DEF HandleCheck
  <2>3. UNCHANGED <<nbMap, seen, asked, waiting, heard, dead, expired>>
    BY <1>2 DEF HandleCheck
  <2>4. Answer(n, h.req) \in Message
    BY <1>0, <2>1, AnswerFields
  <2> HIDE DEF h
  <2>5. CASE n \in Beacons
    <3>1. wire' \in [Links -> Seq(Message)]
      BY <1>0, <2>2, <2>4, <2>5, ToFacts
    <3>2. answers' \in [Requests -> [Nodes -> Nat]]
      BY <1>0, <2>1, <2>2, <2>5, AnswerCounted
    <3>3. hand' \in [Links -> Message \cup {NoMessage}]
      BY <1>0, <2>1, <2>2, <2>5, DoneType
    <3> QED BY <2>2, <2>3, <2>5, <3>1, <3>2, <3>3 DEF TypeOK
  <2>6. CASE n \notin Beacons
    BY <1>0, <2>1, <2>2, <2>3, <2>6, AnswerAndFloodType DEF TypeOK
  <2> QED BY <2>5, <2>6
<1>3. CASE HandleJoin(m, n)
  <2>1. l \in Links /\ h \in Message /\ h.req \in Requests
    BY <1>0, <1>3, HandlesFacts DEF HandleJoin
  <2>2. AnswerAndFlood(m, n, h, TRUE)
        /\ nbMap' = [nbMap EXCEPT ![n] = IF Open(m, n) THEN @ \cup {m} ELSE @]
    BY <1>0, <1>3 DEF HandleJoin
  <2>3. UNCHANGED <<seen, asked, waiting, heard, dead, expired>>
    BY <1>3 DEF HandleJoin
  <2>4. nbMap' \in [Nodes -> SUBSET Nodes] /\ \A k \in Nodes : nbMap'[k] \subseteq Peers(k)
    BY <1>0, <2>2 DEF TypeOK, Peers
  <2> HIDE DEF h
  <2> QED BY <1>0, <2>1, <2>2, <2>3, <2>4, AnswerAndFloodType DEF TypeOK
<1>4. CASE HandleDelete(m, n)
  <2>1. h \in Message
    BY <1>0, <1>4, HandlesFacts DEF HandleDelete
  <2>2. wire' = Sent(wire, n, To(FloodTo(m, n, h), h)) /\ Done(m, n)
        /\ UNCHANGED <<nbMap, seen, route, asked, waiting, heard, answers, dead, expired>>
    BY <1>0, <1>4 DEF HandleDelete
  <2> HIDE DEF h
  <2> QED BY <1>0, <2>1, <2>2, ToFacts, DoneType DEF TypeOK
<1>5. CASE HandleStore(m, n)
  <2>1. h \in Message
    BY <1>0, <1>5, HandlesFacts DEF HandleStore
  <2>2. (\E S \in SUBSET FloodTo(m, n, h) : wire' = Sent(wire, n, To(S, h))) /\ Done(m, n)
        /\ UNCHANGED <<nbMap, seen, route, asked, waiting, heard, answers, dead, expired>>
    BY <1>0, <1>5 DEF HandleStore
  <2> HIDE DEF h
  <2> QED BY <1>0, <2>1, <2>2, ToFacts, DoneType DEF TypeOK
<1> QED BY <1>1, <1>2, <1>3, <1>4, <1>5 DEF m, n

LEMMA ForwardFacts ==
    ASSUME TypeOK, NEW n \in Nodes, NEW h \in Message, wire' = wire \/ Forward(n, h)
    PROVE  /\ wire' \in [Links -> Seq(Message)]
           /\ \A l \in Links : \A g \in Queued(l)' :
                 \/ g \in Queued(l)
                 \/ /\ Forward(n, h) /\ g = h /\ l[1] = n
                    /\ l[2] = route[n][h.req] /\ Open(l[1], l[2])
           /\ \A l \in Links : ~Open(l[1], l[2]) => wire'[l] = wire[l]
<1>1. CASE wire' = wire
  BY <1>1 DEF TypeOK, Queued
<1>2. CASE Forward(n, h)
  <2>1. wire' = Sent(wire, n, To({route[n][h.req]}, h))
    BY <1>2 DEF Forward
  <2>2. /\ wire' \in [Links -> Seq(Message)]
        /\ \A l \in Links : \A g \in Queued(l)' :
              \/ g \in Queued(l)
              \/ l[1] = n /\ l[2] \in {route[n][h.req]} /\ Open(l[1], l[2]) /\ g = h
        /\ \A l \in Links : ~Open(l[1], l[2]) => wire'[l] = wire[l]
    BY <2>1, ToFacts
  <2> QED BY <1>2, <2>2
<1> QED BY <1>1, <1>2

LEMMA AnswerTypes ==
    ASSUME TypeOK, NEW l \in Links,
           \/ HandleQueryRes(l[1], l[2]) \/ HandleCheckRes(l[1], l[2])
           \/ HandleJoinRes(l[1], l[2])
    PROVE  TypeOK'
<1> DEFINE m == l[1]
           n == l[2]
           h == hand[l]
<1>0. m \in Nodes /\ n \in Nodes /\ l = <<m, n>>
  BY Network
<1> HIDE DEF m, n
<1>1. CASE HandleQueryRes(m, n)
  <2>1. l \in Links /\ h \in Message
    BY <1>0, <1>1, HandlesFacts DEF HandleQueryRes
  <2> DEFINE own == IF route[n][h.req] = NoNode THEN TakenFor(n, h) ELSE {}
  <2>2. /\ heard' = [u \in Requests |-> IF u \in own THEN heard[u] \cup {<<h.by, h.nr>>} ELSE heard[u]]
        /\ waiting' = waiting \ Served(own)
        /\ wire' = wire \/ Forward(n, h)
        /\ Done(m, n)
        /\ UNCHANGED <<nbMap, seen, route, asked, answers, dead, expired>>
    BY <1>0, <1>1 DEF HandleQueryRes
  <2>3. h.by \in Nodes /\ h.nr \in Nat
    BY <2>1, MessageFields
  <2> HIDE DEF h, own
  <2>4. heard' \in [Requests -> SUBSET (Nodes \X Nat)]
    BY <2>2, <2>3 DEF TypeOK
  <2> QED BY <1>0, <2>1, <2>2, <2>4, ForwardFacts, DoneType DEF TypeOK
<1>2. CASE HandleCheckRes(m, n)
  <2>1. l \in Links /\ h \in Message
    BY <1>0, <1>2, HandlesFacts DEF HandleCheckRes
  <2>2. /\ Hear(h, h.req) \/ heard' = heard
        /\ wire' = wire \/ Forward(n, h)
        /\ Done(m, n)
        /\ UNCHANGED <<nbMap, seen, route, asked, waiting, answers, dead, expired>>
    BY <1>0, <1>2 DEF HandleCheckRes
  <2> HIDE DEF h
  <2>3. heard' \in [Requests -> SUBSET (Nodes \X Nat)]
    BY <2>1, <2>2, HeardType DEF TypeOK, Hear
  <2> QED BY <1>0, <2>1, <2>2, <2>3, ForwardFacts, DoneType DEF TypeOK
<1>3. CASE HandleJoinRes(m, n)
  <2>1. l \in Links /\ h \in Message
    BY <1>0, <1>3, HandlesFacts DEF HandleJoinRes
  <2>2. /\ wire' = wire \/ Forward(n, h)
        /\ Done(m, n)
        /\ UNCHANGED <<nbMap, seen, route, asked, waiting, heard, answers, dead, expired>>
    BY <1>0, <1>3 DEF HandleJoinRes
  <2> HIDE DEF h
  <2> QED BY <1>0, <2>1, <2>2, ForwardFacts, DoneType DEF TypeOK
<1> QED BY <1>1, <1>2, <1>3 DEF m, n

\* Somebody makes a request.
LEMMA AskFacts ==
    ASSUME TypeOK, NEW u \in Requests, AskAll(u) \/ AskStore(u) \/ AskCheck(u) \/ AskJoin(u)
    PROVE  /\ u \notin asked /\ asked' = asked \cup {u}
           /\ waiting' \subseteq waiting \cup {u}
           /\ UNCHANGED <<nbMap, seen, route, hand, heard, answers, dead, expired>>
           /\ wire' \in [Links -> Seq(Message)]
           /\ \A l \in Links : \A g \in Queued(l)' :
                 \/ g \in Queued(l)
                 \/ /\ g = Request(u) /\ StartTTL[u] # 0
                    /\ l[1] = From[u] /\ Open(l[1], l[2])
           /\ \A l \in Links : ~Open(l[1], l[2]) => wire'[l] = wire[l]
<1>1. PICK S : Ask(u, S)
  BY DEF AskAll, AskStore, AskCheck, AskJoin
<1>2. waiting' \subseteq waiting \cup {u}
  BY DEF AskAll, AskStore, AskCheck, AskJoin
<1> DEFINE T == IF StartTTL[u] = 0 THEN {} ELSE S
<1>3. wire' = Sent(wire, From[u], To(T, Request(u))) /\ From[u] \in Nodes /\ Request(u) \in Message
  BY <1>1, Network, RequestFields DEF Ask
<1> HIDE DEF T
<1>4. /\ wire' \in [Links -> Seq(Message)]
      /\ \A l \in Links : \A g \in Queued(l)' :
            \/ g \in Queued(l)
            \/ l[1] = From[u] /\ l[2] \in T /\ Open(l[1], l[2]) /\ g = Request(u)
      /\ \A l \in Links : ~Open(l[1], l[2]) => wire'[l] = wire[l]
  BY <1>3, ToFacts
<1>5. T # {} => StartTTL[u] # 0
  BY DEF T
<1> QED BY <1>1, <1>2, <1>4, <1>5 DEF Ask

\* A node leaves the network.
LEMMA LeaveFacts ==
    ASSUME TypeOK, NEW n \in Nodes, Leave(n)
    PROVE  /\ Disconnect({l \in Links : n \in {l[1], l[2]}})
           /\ hand' \in [Links -> Message \cup {NoMessage}]
           /\ \A l \in Links : hand'[l] = IF l[2] = n THEN NoMessage ELSE hand[l]
           /\ waiting' \subseteq waiting
<1>1. hand' = [l \in Links |-> IF l[2] = n THEN NoMessage ELSE hand[l]]
  BY DEF Leave
<1>2. /\ hand' \in [Links -> Message \cup {NoMessage}]
      /\ \A l \in Links : hand'[l] = IF l[2] = n THEN NoMessage ELSE hand[l]
  BY <1>1 DEF TypeOK
<1> QED BY <1>2 DEF Leave

LEMMA LeaverGone ==
    ASSUME TypeOK, NEW n \in Nodes, Leave(n)
    PROVE  Gone(n)'
<1> DEFINE E == {l \in Links : n \in {l[1], l[2]}}
<1>1. /\ Disconnect(E)
      /\ \A l \in Links : hand'[l] = IF l[2] = n THEN NoMessage ELSE hand[l]
  BY LeaveFacts
<1>2. \A l \in Links : l \in E /\ <<l[2], l[1]>> \in E => wire'[l] = <<>> /\ ~Open(l[1], l[2])'
  BY <1>1, DisconnectFacts
<1>3. \A l \in Links : l[2] = n => l \in E /\ <<l[2], l[1]>> \in E
  BY Network
<1> QED BY <1>1, <1>2, <1>3 DEF Gone

LEMMA LeaveType ==
    ASSUME TypeOK, NEW n \in Nodes, Leave(n)
    PROVE  /\ nbMap' \in [Nodes -> SUBSET Nodes] /\ \A k \in Nodes : nbMap'[k] \subseteq Peers(k)
           /\ wire' \in [Links -> Seq(Message)]
           /\ hand' \in [Links -> Message \cup {NoMessage}]
           /\ waiting' \subseteq waiting
BY LeaveFacts, DisconnectFacts

\* A soft restart, and the end of the process, for n.
LEMMA RestartFacts ==
    ASSUME TypeOK, NEW u \in Requests, SoftRestart(u)
    PROVE  /\ From[u] \in Nodes /\ Leave(From[u])
           /\ seen' = [seen EXCEPT ![From[u]] = {}] /\ seen' \in [Nodes -> SUBSET Uoids]
           /\ \A n \in Nodes, v \in Requests :
                 route'[n][v] = IF n = From[u] THEN NoNode ELSE route[n][v]
           /\ route' \in [Nodes -> [Requests -> Nodes \cup {NoNode}]]
           /\ UNCHANGED <<asked, heard, answers, dead, expired>>
<1>1. From[u] \in Nodes
  BY Network
<1>2. /\ route' = [route EXCEPT ![From[u]] = [v \in Requests |-> NoNode]]
      /\ seen' = [seen EXCEPT ![From[u]] = {}] /\ seen' \in [Nodes -> SUBSET Uoids]
  BY <1>1 DEF SoftRestart, TypeOK
<1>3. /\ \A n \in Nodes, v \in Requests :
            route'[n][v] = IF n = From[u] THEN NoNode ELSE route[n][v]
      /\ route' \in [Nodes -> [Requests -> Nodes \cup {NoNode}]]
  BY <1>1, <1>2 DEF TypeOK
<1> QED BY <1>1, <1>2, <1>3 DEF SoftRestart

LEMMA InitType == Init => TypeOK
<1> SUFFICES ASSUME Init PROVE TypeOK
  OBVIOUS
<1>1. \A n \in Nodes : Peers(n) \subseteq Nodes
  BY DEF Peers
<1>2. nbMap \in [Nodes -> SUBSET Nodes] /\ \A n \in Nodes : nbMap[n] \subseteq Peers(n)
  BY <1>1 DEF Init
<1> QED BY <1>2 DEF Init, TypeOK

LEMMA StepType == TypeOK /\ [Next]_vars => TypeOK'
<1> SUFFICES ASSUME TypeOK, [Next]_vars PROVE TypeOK'
  OBVIOUS
<1>1. ASSUME NEW l \in Links, Receive(l[1], l[2]) PROVE TypeOK'
  <2>1. l[1] \in Nodes /\ l[2] \in Nodes /\ l = <<l[1], l[2]>>
    BY Network
  <2>2. wire' \in [Links -> Seq(Message)]
    BY <1>1, <2>1, ReceiveEffect, TailType
  <2>3. PICK h \in Message, id \in Uoids :
           /\ seen' = [seen EXCEPT ![l[2]] = @ \cup {id}]
           /\ hand' = [hand EXCEPT ![l] = h] \/ hand' = [hand EXCEPT ![l] = NoMessage]
    BY <1>1, <2>1, ReceiveEffect
  <2>4. UNCHANGED <<nbMap, route, asked, waiting, heard, answers, dead, expired>>
    BY <1>1, <2>1, ReceiveEffect
  <2> QED BY <2>1, <2>2, <2>3, <2>4 DEF TypeOK
<1>2. ASSUME NEW l \in Links, JoinerReceives(l[1], l[2]) PROVE TypeOK'
  <2>1. l[1] \in Nodes /\ l[2] \in Nodes /\ l = <<l[1], l[2]>>
    BY Network
  <2>2. wire' \in [Links -> Seq(Message)]
    BY <1>2, <2>1, JoinerEffect, TailType
  <2>3. heard' \in [Requests -> SUBSET (Nodes \X Nat)]
    BY <1>2, <2>1, JoinerEffect, HeardType DEF TypeOK
  <2> QED BY <1>2, <2>1, <2>2, <2>3, JoinerEffect DEF TypeOK
<1>3. ASSUME NEW l \in Links, Handle(l[1], l[2]) PROVE TypeOK'
  BY <1>3, RequestTypes, AnswerTypes DEF Handle
<1>4. ASSUME NEW l \in Links, Break(l[1], l[2]) PROVE TypeOK'
  BY <1>4, DisconnectFacts DEF TypeOK, Break
<1>5. ASSUME NEW u \in Requests, AskAll(u) \/ AskStore(u) \/ AskCheck(u) \/ AskJoin(u)
      PROVE  TypeOK'
  BY <1>5, AskFacts DEF TypeOK
<1>6. ASSUME NEW u \in Requests, StopWaiting(u) PROVE TypeOK'
  BY <1>6 DEF TypeOK, StopWaiting
<1>7. ASSUME NEW u \in Requests, JoinTimeout(u) PROVE TypeOK'
  BY <1>7, DisconnectFacts DEF TypeOK, JoinTimeout
<1>8. ASSUME NEW u \in Requests, SoftRestart(u) PROVE TypeOK'
  <2>1. \A n \in Nodes : Peers(n)' = Peers(n)
    BY DEF Peers
  <2> QED BY <1>8, <2>1, RestartFacts, LeaveType DEF TypeOK
<1>11. ASSUME NEW l \in Links, SendFails(l[1], l[2]) PROVE TypeOK'
  <2>1. l[1] \in Nodes /\ Leave(l[1]) /\ dead' = dead \cup {l[1]}
        /\ UNCHANGED <<seen, route, asked, heard, answers, expired>>
    BY <1>11, Network DEF SendFails
  <2>2. \A n \in Nodes : Peers(n)' = Peers(n)
    BY DEF Peers
  <2> QED BY <2>1, <2>2, LeaveType DEF TypeOK
<1>9. ASSUME NEW n \in Nodes, Expire(n) PROVE TypeOK'
  BY <1>9 DEF TypeOK, Expire
<1>10. CASE UNCHANGED vars
  BY <1>10 DEF TypeOK, vars, Peers
<1> QED BY <1>1, <1>2, <1>3, <1>4, <1>5, <1>6, <1>7, <1>8, <1>9, <1>10, <1>11 DEF Next, Deliver

-----------------------------------------------------------------------------
(* What a step does to messages, links and routing maps.                   *)

\* A message that enters a link: a request of somebody who knows where answers
\* go, or an answer to such a node.
Fresh(l, h) ==
    /\ h \in Message /\ Open(l[1], l[2])
    /\ (\A n \in Nodes : TTL[n] > 0) => h.ttl > 0
    /\ h.type = "request" => /\ Uoid(h) = RequestId(h.req)
                             /\ Answerable(h) => KnowsWay(l[1], h.req)'
    /\ h.type = "answer" => WayBack(l[2], h.req)

WireStep == \A l \in Links : \A h \in Queued(l)' : h \in Queued(l) \/ Fresh(l, h)
Marked(l) ==
    hand[l] # NoMessage /\ hand'[l] # NoMessage /\ hand'[l].mark = "noted" /\ Like(hand'[l], hand[l])
HandStep ==
    \A l \in Links :
        \/ hand'[l] = hand[l] \/ hand'[l] = NoMessage
        \/ \E g \in Queued(l) : Like(hand'[l], g) /\ hand'[l].mark # "noted"
        \/ /\ Marked(l) /\ KnowsWay(l[2], hand[l].req)'
           /\ Kind[hand[l].req] = "check" => l[2] \notin Beacons
ClosedStays ==
    \A l \in Links : ~Open(l[1], l[2]) => /\ ~Open(l[1], l[2])'
                                          /\ wire[l] = <<>> => wire'[l] = <<>>
RouteStep ==
    \A n \in Nodes, u \in Requests :
        \/ route'[n][u] = route[n][u]
        \/ /\ route[n][u] = NoNode
           /\ \E l \in Links : /\ l[2] = n /\ Holds(l, u) /\ Answerable(hand[l])
                               /\ route'[n][u] = l[1]
        \/ route'[n][u] = NoNode /\ Gone(n)'

Flow == WireStep /\ HandStep /\ ClosedStays /\ RouteStep

LEMMA InHand ==
    ASSUME IInv, NEW m \in Nodes, NEW n \in Nodes, NEW type, NEW kinds,
           Handles(m, n, type, kinds)
    PROVE  LET h == hand[<<m, n>>]
           IN  /\ <<m, n>> \in Links /\ h \in Message /\ h \in Coming(m, n)
               /\ h.type = type /\ h.req \in Requests /\ Kind[h.req] \in kinds
               /\ type = "request" => Uoid(h) = RequestId(h.req)
               /\ Answerable(h) => WayBack(m, h.req)
<1> DEFINE h == hand[<<m, n>>]
<1>0. TypeOK /\ RequestsKeepId /\ SenderKnowsWay
  BY DEF IInv
<1>1. <<m, n>> \in Links /\ h \in Message /\ h # NoMessage /\ h.type = type
      /\ h.req \in Requests /\ Kind[h.req] \in kinds
  BY <1>0, HandlesFacts
<1>2. h \in Coming(m, n)
  BY <1>1 DEF Coming
<1>3. h.type = "request" => Uoid(h) = RequestId(h.req)
  BY <1>0, <1>1, <1>2 DEF RequestsKeepId
<1>4. Answerable(h) => WayBack(m, h.req)
  BY <1>0, <1>1, <1>2 DEF SenderKnowsWay
<1> QED BY <1>1, <1>2, <1>3, <1>4

LEMMA DoneHand ==
    ASSUME TypeOK, NEW m \in Nodes, NEW n \in Nodes, <<m, n>> \in Links, Done(m, n)
    PROVE  HandStep
BY DoneType DEF HandStep

\* Links stay closed when the neighbour tables do not change.
LEMMA SameNeighbours ==
    ASSUME UNCHANGED nbMap, \A l \in Links : ~Open(l[1], l[2]) => wire'[l] = wire[l]
    PROVE  ClosedStays
BY DEF ClosedStays, Open

LEMMA SameRoutes == UNCHANGED route => RouteStep
BY DEF RouteStep

LEMMA AnswerAndFloodFlow ==
    ASSUME IInv, NEW m \in Nodes, NEW n \in Nodes, NEW replies, NEW kinds,
           Handles(m, n, "request", kinds), kinds \cap {"delete", "store"} = {},
           "check" \in kinds => n \notin Beacons,
           AnswerAndFlood(m, n, hand[<<m, n>>], replies)
    PROVE  /\ WireStep /\ HandStep /\ RouteStep
           /\ \A l \in Links : ~Open(l[1], l[2]) => wire'[l] = wire[l]
<1>0. TypeOK
  BY DEF IInv
<1>a. PICK h : h = hand[<<m, n>>]
  OBVIOUS
<1>1. /\ <<m, n>> \in Links /\ h \in Message /\ h.type = "request" /\ h.req \in Requests
      /\ Kind[h.req] \in kinds /\ Uoid(h) = RequestId(h.req) /\ WayBack(m, h.req) /\ Answerable(h)
  BY <1>a, InHand DEF Answerable
<1>2. AnswerAndFlood(m, n, h, replies)
  BY <1>a
<1>3. Holds(<<m, n>>, h.req) /\ Answerable(hand[<<m, n>>]) /\ h # NoMessage
  BY <1>a, <1>1, MessageFields DEF Holds
<1>4. /\ \A l \in Links : ~Open(l[1], l[2]) => wire'[l] = wire[l]
      /\ \/ h.mark = "new" /\ Enters(m, n, h, replies)
         \/ h.mark = "noted" /\ Floods(m, n, h)
  BY <1>0, <1>1, <1>2, AnswerAndFloodFacts
<1>5. CASE Enters(m, n, h, replies)
  <2>1. /\ Answer(n, h.req) \in Message /\ Answer(n, h.req).type = "answer"
        /\ Answer(n, h.req).req = h.req /\ Answer(n, h.req).ttl = TTL[n]
    BY <1>0, <1>1, AnswerFields
  <2>2. WireStep
    <3> SUFFICES ASSUME NEW l \in Links, NEW g \in Queued(l)', g \notin Queued(l) PROVE Fresh(l, g)
      BY DEF WireStep
    <3>1. l[1] = n /\ l[2] = m /\ Open(l[1], l[2]) /\ g = Answer(n, h.req)
      BY <1>5 DEF Enters
    <3> QED BY <1>1, <2>1, <3>1 DEF Fresh
  <2>3. route' = IF h.ttl = 0 \/ route[n][h.req] # NoNode THEN route
                 ELSE [route EXCEPT ![n][h.req] = m]
    BY <1>5 DEF Enters
  <2>4. HandStep
    <3>1. h.ttl # 0 => KnowsWay(n, h.req)'
      <4>1. h.ttl # 0 => route'[n][h.req] # NoNode
        BY <1>0, <1>1, <2>3, Network DEF TypeOK
      <4> QED BY <4>1 DEF KnowsWay
    <3>2. PICK x : x = [h EXCEPT !.mark = "noted"]
      OBVIOUS
    <3>3. x \in Message /\ x.mark = "noted" /\ Like(x, h) /\ x # NoMessage
      BY <1>1, <3>2, MarkFields, MessageFields
    <3>4. hand' = [hand EXCEPT ![<<m, n>>] = IF h.ttl = 0 THEN NoMessage ELSE x]
      BY <1>5, <3>2 DEF Enters, AfterEntry
    <3>5. /\ \A l \in Links : l # <<m, n>> => hand'[l] = hand[l]
          /\ hand'[<<m, n>>] = IF h.ttl = 0 THEN NoMessage ELSE x
      BY <1>0, <1>1, <3>4 DEF TypeOK
    <3>6. PICK k \in Links : k = <<m, n>> /\ k[2] = n
      BY <1>1
    <3>7. h.ttl # 0 => Marked(k)
      BY <1>a, <1>3, <3>3, <3>5, <3>6 DEF Marked
    <3>8. CASE h.ttl # 0
      <4>1. hand'[k] = x /\ x.req = h.req
        BY <3>3, <3>5, <3>6, <3>8 DEF Like
      <4>2. KnowsWay(k[2], hand[k].req)'
        BY <3>1, <3>6, <3>8, <4>1 DEF KnowsWay
      <4>3. Kind[hand[k].req] = "check" => k[2] \notin Beacons
        BY <1>a, <1>1, <3>6
      <4> QED BY <3>5, <3>6, <3>7, <3>8, <4>2, <4>3 DEF HandStep
    <3>9. CASE h.ttl = 0
      BY <3>5, <3>9 DEF HandStep
    <3> QED BY <3>8, <3>9
  <2>5. RouteStep
    <3> SUFFICES ASSUME NEW k \in Nodes, NEW u \in Requests, route'[k][u] # route[k][u]
                 PROVE  /\ route[k][u] = NoNode
                        /\ \E l \in Links : /\ l[2] = k /\ Holds(l, u) /\ Answerable(hand[l])
                                            /\ route'[k][u] = l[1]
      BY DEF RouteStep
    <3>1. k = n /\ u = h.req /\ route[k][u] = NoNode /\ route'[k][u] = m
      BY <1>0, <1>1, <2>3 DEF TypeOK
    <3> QED BY <1>1, <1>3, <3>1
  <2> QED BY <1>4, <2>2, <2>4, <2>5
<1>6. CASE h.mark = "noted" /\ Floods(m, n, h)
  <2>1. KnowsWay(n, h.req)
    <3>1. PICK l \in Links : l = <<m, n>> /\ l[2] = n
      BY <1>1
    <3>2. Noted(l)
      BY <1>a, <1>3, <1>6, <3>1 DEF Noted
    <3>3. KnowsWay(l[2], hand[l].req)
      BY <3>2 DEF IInv, NotedKnows
    <3> QED BY <1>a, <3>1, <3>3 DEF KnowsWay
  <2>2. KnowsWay(n, h.req)'
    BY <1>6, <2>1 DEF Floods, KnowsWay
  <2>3. PICK x : x = [h EXCEPT !.mark = "new"]
    OBVIOUS
  <2>4. x \in Message /\ x.ttl = h.ttl /\ x.type = "request" /\ x.req = h.req /\ Uoid(x) = RequestId(h.req)
    BY <1>1, <2>3, MarkFields DEF Like
  <2>5. WireStep
    <3> SUFFICES ASSUME NEW l \in Links, NEW g \in Queued(l)', g \notin Queued(l) PROVE Fresh(l, g)
      BY DEF WireStep
    <3>1. l[1] = n /\ Open(l[1], l[2]) /\ h.ttl # 0 /\ g = x
      BY <1>6, <2>3 DEF Floods
    <3>2. g.ttl > 0
      BY <2>4, <3>1, MessageFields
    <3> QED BY <2>2, <2>4, <3>1, <3>2 DEF Fresh
  <2> QED BY <1>0, <1>1, <1>4, <1>6, <2>5, DoneHand, SameRoutes DEF Floods
<1> QED BY <1>4, <1>5, <1>6

\* A message that goes on as it is, of a kind that nobody answers.
LEMMA RequestFlow ==
    ASSUME IInv, NEW l \in Links,
           \/ HandleQuery(l[1], l[2]) \/ HandleCheck(l[1], l[2]) \/ HandleJoin(l[1], l[2])
           \/ HandleDelete(l[1], l[2]) \/ HandleStore(l[1], l[2])
    PROVE  Flow
<1> DEFINE m == l[1]
           n == l[2]
           h == hand[l]
<1>0. m \in Nodes /\ n \in Nodes /\ l = <<m, n>> /\ <<n, m>> \in Links /\ TypeOK
  BY Network DEF IInv
<1> HIDE DEF m, n
<1>1. CASE HandleQuery(m, n)
  <2>1. Handles(m, n, "request", {"status", "files", "search", "get"}) /\ UNCHANGED nbMap
    BY <1>1 DEF HandleQuery
  <2>2. AnswerAndFlood(m, n, h, Kind[h.req] \in StatusKinds \/ n \in Has[h.req])
    BY <1>0, <1>1 DEF HandleQuery
  <2>3. /\ {"status", "files", "search", "get"} \cap {"delete", "store"} = {}
        /\ "check" \notin {"status", "files", "search", "get"}
    OBVIOUS
  <2>4. /\ WireStep /\ HandStep /\ RouteStep
        /\ \A k \in Links : ~Open(k[1], k[2]) => wire'[k] = wire[k]
    BY <1>0, <2>1, <2>2, <2>3, AnswerAndFloodFlow
  <2> QED BY <2>1, <2>4, SameNeighbours DEF Flow
<1>2. CASE HandleCheck(m, n)
  <2>1. Handles(m, n, "request", {"check"}) /\ UNCHANGED nbMap
    BY <1>2 DEF HandleCheck
  <2>2. {"check"} \cap {"delete", "store"} = {}
    OBVIOUS
  <2>3. CASE n \in Beacons
    <3>1. /\ h \in Message /\ h.req \in Requests /\ WayBack(m, h.req)
      BY <1>0, <2>1, <2>2, InHand DEF Answerable
    <3>2. /\ wire' = Sent(wire, n, To({m}, Answer(n, h.req))) /\ Done(m, n) /\ UNCHANGED route
      BY <1>0, <1>2, <2>3 DEF HandleCheck
    <3> HIDE DEF h
    <3>3. /\ Answer(n, h.req) \in Message /\ Answer(n, h.req).type = "answer"
          /\ Answer(n, h.req).req = h.req /\ Answer(n, h.req).ttl = TTL[n]
      BY <1>0, <3>1, AnswerFields
    <3>4. /\ \A k \in Links : \A g \in Queued(k)' :
                \/ g \in Queued(k)
                \/ k[1] = n /\ k[2] \in {m} /\ Open(k[1], k[2]) /\ g = Answer(n, h.req)
          /\ \A k \in Links : ~Open(k[1], k[2]) => wire'[k] = wire[k]
      BY <1>0, <3>2, <3>3, ToFacts
    <3>5. WireStep
      BY <1>0, <3>1, <3>3, <3>4 DEF WireStep, Fresh
    <3> QED BY <1>0, <2>1, <3>2, <3>4, <3>5, DoneHand, SameNeighbours, SameRoutes DEF Flow
  <2>4. CASE n \notin Beacons
    <3>1. AnswerAndFlood(m, n, h, FALSE)
      BY <1>0, <1>2, <2>4 DEF HandleCheck
    <3>2. /\ WireStep /\ HandStep /\ RouteStep
          /\ \A k \in Links : ~Open(k[1], k[2]) => wire'[k] = wire[k]
      BY <1>0, <2>1, <2>2, <2>4, <3>1, AnswerAndFloodFlow
    <3> QED BY <2>1, <3>2, SameNeighbours DEF Flow
  <2> QED BY <2>3, <2>4
<1>3. CASE HandleJoin(m, n)
  <2>1. Handles(m, n, "request", {"join"})
        /\ nbMap' = [nbMap EXCEPT ![n] = IF Open(m, n) THEN @ \cup {m} ELSE @]
    BY <1>3 DEF HandleJoin
  <2>2. /\ {"join"} \cap {"delete", "store"} = {} /\ "check" \notin {"join"}
        /\ AnswerAndFlood(m, n, h, TRUE)
    BY <1>0, <1>3 DEF HandleJoin
  <2>3. /\ WireStep /\ HandStep /\ RouteStep
        /\ \A k \in Links : ~Open(k[1], k[2]) => wire'[k] = wire[k]
    BY <1>0, <2>1, <2>2, AnswerAndFloodFlow
  <2>4. \A x, y \in Nodes : y \in nbMap'[x] => y \in nbMap[x] \/ (x = n /\ y = m /\ Open(m, n))
    BY <1>0, <2>1 DEF TypeOK
  <2>5. \A k \in Links : ~Open(k[1], k[2]) => ~Open(k[1], k[2])'
    BY <2>4, Network DEF Open
  <2> QED BY <2>3, <2>5 DEF Flow, ClosedStays
<1>4. CASE HandleDelete(m, n) \/ HandleStore(m, n)
  <2>1. PICK kind \in {"delete", "store"} : Handles(m, n, "request", {kind})
    BY <1>4 DEF HandleDelete, HandleStore
  <2>2. /\ h \in Message /\ h.type = "request" /\ h.req \in Requests
        /\ Kind[h.req] \in {"delete", "store"} /\ Uoid(h) = RequestId(h.req)
    BY <1>0, <2>1, InHand
  <2>3. PICK S \in SUBSET FloodTo(m, n, h) : wire' = Sent(wire, n, To(S, h))
    BY <1>0, <1>4 DEF HandleDelete, HandleStore
  <2>4. Done(m, n) /\ UNCHANGED <<nbMap, route>>
    BY <1>4 DEF HandleDelete, HandleStore
  <2> HIDE DEF h
  <2>5. S # {} => h.ttl > 0
    BY <2>2, <2>3, MessageFields DEF FloodTo
  <2>6. /\ \A k \in Links : \A g \in Queued(k)' :
              \/ g \in Queued(k)
              \/ k[1] = n /\ k[2] \in S /\ Open(k[1], k[2]) /\ g = h
        /\ \A k \in Links : ~Open(k[1], k[2]) => wire'[k] = wire[k]
    BY <1>0, <2>2, <2>3, ToFacts
  <2>7. WireStep
    BY <2>2, <2>5, <2>6 DEF WireStep, Fresh, Answerable
  <2> QED BY <1>0, <2>4, <2>6, <2>7, DoneHand, SameNeighbours, SameRoutes DEF Flow
<1> QED BY <1>1, <1>2, <1>3, <1>4 DEF m, n

\* An answer goes where the routing map says.
LEMMA AnswerFlow ==
    ASSUME IInv, NEW l \in Links,
           \/ HandleQueryRes(l[1], l[2]) \/ HandleCheckRes(l[1], l[2])
           \/ HandleJoinRes(l[1], l[2])
    PROVE  Flow
<1> DEFINE m == l[1]
           n == l[2]
           h == hand[l]
<1>0. m \in Nodes /\ n \in Nodes /\ l = <<m, n>> /\ TypeOK /\ RouteKnowsWay
  BY Network DEF IInv
<1> HIDE DEF m, n
<1>1. PICK kinds : Handles(m, n, "answer", kinds)
  BY DEF HandleQueryRes, HandleCheckRes, HandleJoinRes, m, n
<1>2. h \in Message /\ h.type = "answer" /\ h.req \in Requests
  BY <1>0, <1>1, InHand
<1>3. /\ wire' = wire \/ (Forward(n, h) /\ route[n][h.req] # NoNode /\ h.ttl # 0)
      /\ Done(m, n) /\ UNCHANGED <<nbMap, route>>
  BY <1>0 DEF HandleQueryRes, HandleCheckRes, HandleJoinRes, m, n
<1> HIDE DEF h
<1>4. /\ \A k \in Links : \A g \in Queued(k)' :
            \/ g \in Queued(k)
            \/ /\ Forward(n, h) /\ g = h /\ k[1] = n
               /\ k[2] = route[n][h.req] /\ Open(k[1], k[2])
      /\ \A k \in Links : ~Open(k[1], k[2]) => wire'[k] = wire[k]
  BY <1>0, <1>2, <1>3, ForwardFacts
<1>5. WireStep
  <2> SUFFICES ASSUME NEW k \in Links, NEW g \in Queued(k)', g \notin Queued(k) PROVE Fresh(k, g)
    BY DEF WireStep
  <2>1. /\ wire' # wire /\ g = h /\ k[1] = n /\ k[2] = route[n][h.req] /\ Open(k[1], k[2])
    BY <1>4 DEF Queued
  <2>2. route[n][h.req] # NoNode /\ h.ttl > 0
    BY <1>2, <1>3, <2>1, MessageFields
  <2>3. WayBack(k[2], h.req)
    BY <1>0, <1>2, <2>1, <2>2 DEF RouteKnowsWay
  <2> QED BY <1>2, <2>1, <2>2, <2>3 DEF Fresh
<1> QED BY <1>0, <1>3, <1>4, <1>5, DoneHand, SameNeighbours, SameRoutes DEF Flow

\* A node that leaves closes its connections for good.
LEMMA DisconnectFlow ==
    ASSUME IInv, NEW E, Disconnect(E)
    PROVE  WireStep /\ ClosedStays
BY DisconnectFacts DEF IInv, WireStep, ClosedStays

LEMMA StepFlow ==
    ASSUME IInv, [Next]_vars
    PROVE  Flow
<1>0. TypeOK
  BY DEF IInv
<1>1. ASSUME NEW l \in Links, Receive(l[1], l[2]) PROVE Flow
  <2>1. l[1] \in Nodes /\ l[2] \in Nodes /\ l = <<l[1], l[2]>>
    BY Network
  <2>2. /\ wire[l] # <<>> /\ UNCHANGED <<nbMap, route>>
        /\ wire' = [wire EXCEPT ![l] = Tail(@)]
    BY <1>0, <1>1, <2>1, ReceiveEffect
  <2>3. WireStep /\ ClosedStays
    BY <1>0, <2>2, TailType DEF WireStep, ClosedStays, Open
  <2>4. PICK h : /\ Like(h, Head(wire[l])) /\ h.mark # "noted"
                 /\ hand' = [hand EXCEPT ![l] = h] \/ hand' = [hand EXCEPT ![l] = NoMessage]
    BY <1>0, <1>1, <2>1, ReceiveEffect
  <2>5. Head(wire[l]) \in Queued(l)
    BY <1>0, <2>2, HandType
  <2>6. HandStep
    BY <1>0, <2>4, <2>5 DEF HandStep, TypeOK
  <2> QED BY <2>2, <2>3, <2>6, SameRoutes DEF Flow
<1>2. ASSUME NEW l \in Links, JoinerReceives(l[1], l[2]) PROVE Flow
  <2>1. l[1] \in Nodes /\ l[2] \in Nodes /\ l = <<l[1], l[2]>>
    BY Network
  <2>2. /\ wire[l] # <<>> /\ UNCHANGED <<nbMap, route, hand>>
        /\ wire' = [wire EXCEPT ![l] = Tail(@)]
    BY <1>0, <1>2, <2>1, JoinerEffect
  <2>3. WireStep /\ ClosedStays
    BY <1>0, <2>2, TailType DEF WireStep, ClosedStays, Open
  <2> QED BY <2>2, <2>3, SameRoutes DEF Flow, HandStep
<1>3. ASSUME NEW l \in Links, Handle(l[1], l[2]) PROVE Flow
  BY <1>3, RequestFlow, AnswerFlow DEF Handle
<1>4. ASSUME NEW l \in Links, Break(l[1], l[2]) PROVE Flow
  BY <1>4, DisconnectFlow, SameRoutes DEF Break, Flow, HandStep
<1>5. ASSUME NEW u \in Requests, AskAll(u) \/ AskStore(u) \/ AskCheck(u) \/ AskJoin(u)
      PROVE  Flow
  <2>1. /\ UNCHANGED <<nbMap, route, hand>>
        /\ \A l \in Links : \A g \in Queued(l)' :
              \/ g \in Queued(l)
              \/ /\ g = Request(u) /\ StartTTL[u] # 0
                 /\ l[1] = From[u] /\ Open(l[1], l[2])
        /\ \A l \in Links : ~Open(l[1], l[2]) => wire'[l] = wire[l]
    BY <1>0, <1>5, AskFacts
  <2>2. /\ Request(u) \in Message /\ Request(u).type = "request" /\ Request(u).req = u
        /\ Request(u).ttl = StartTTL[u] /\ Uoid(Request(u)) = RequestId(u)
        /\ StartTTL[u] \in 0 .. 255
    BY RequestFields, Network
  <2>3. WireStep
    BY <2>1, <2>2 DEF WireStep, Fresh, KnowsWay
  <2> QED BY <2>1, <2>3, SameNeighbours, SameRoutes DEF Flow, HandStep
<1>6. ASSUME UNCHANGED <<nbMap, route, wire, hand>> PROVE Flow
  BY <1>6, SameNeighbours, SameRoutes DEF Flow, HandStep, WireStep, Queued
<1>7. ASSUME NEW u \in Requests, JoinTimeout(u) PROVE Flow
  BY <1>7, DisconnectFlow, SameRoutes DEF JoinTimeout, Flow, HandStep
<1>8. ASSUME NEW n \in Nodes, Leave(n),
             \A k \in Nodes, v \in Requests :
                 route'[k][v] = route[k][v] \/ (k = n /\ route'[k][v] = NoNode)
      PROVE  Flow
  <2>1. /\ Disconnect({l \in Links : n \in {l[1], l[2]}})
        /\ \A l \in Links : hand'[l] = IF l[2] = n THEN NoMessage ELSE hand[l]
    BY <1>0, <1>8, LeaveFacts
  <2>2. Gone(n)'
    BY <1>0, <1>8, LeaverGone
  <2>3. RouteStep
    BY <1>8, <2>2 DEF RouteStep
  <2>4. HandStep
    BY <2>1 DEF HandStep
  <2> QED BY <2>1, <2>3, <2>4, DisconnectFlow DEF Flow
<1>10. ASSUME NEW u \in Requests, SoftRestart(u) PROVE Flow
  BY <1>0, <1>8, <1>10, RestartFacts
<1>11. ASSUME NEW l \in Links, SendFails(l[1], l[2]) PROVE Flow
  <2>1. l[1] \in Nodes /\ Leave(l[1]) /\ UNCHANGED route
    BY <1>11, Network DEF SendFails
  <2> QED BY <1>8, <2>1
<1>9. (\E u \in Requests : StopWaiting(u)) \/ (\E n \in Nodes : Expire(n)) \/ UNCHANGED vars
        => UNCHANGED <<nbMap, route, wire, hand>>
  BY DEF StopWaiting, Expire, vars
<1> QED BY <1>1, <1>2, <1>3, <1>4, <1>5, <1>6, <1>7, <1>9, <1>10, <1>11 DEF Next, Deliver

-----------------------------------------------------------------------------
(* The part of the invariant about the way back.                           *)

LEMMA GoneStays ==
    ASSUME Flow, NEW n \in Nodes, Gone(n)
    PROVE  Gone(n)'
<1> SUFFICES ASSUME NEW l \in Links, l[2] = n
             PROVE  wire'[l] = <<>> /\ hand'[l] = NoMessage /\ ~Open(l[1], l[2])'
  BY DEF Gone
<1>1. wire[l] = <<>> /\ hand[l] = NoMessage /\ ~Open(l[1], l[2])
  BY DEF Gone
<1>2. Queued(l) = {}
  BY <1>1 DEF Queued
<1> QED BY <1>1, <1>2 DEF Flow, ClosedStays, HandStep, Marked

LEMMA WayBackStays ==
    ASSUME Flow, NEW n \in Nodes, NEW u \in Requests, WayBack(n, u)
    PROVE  WayBack(n, u)'
<1>1. CASE Gone(n)
  BY <1>1, GoneStays DEF WayBack
<1>2. CASE KnowsWay(n, u)
  BY <1>2 DEF WayBack, KnowsWay, Flow, RouteStep
<1> QED BY <1>1, <1>2 DEF WayBack

\* A message that is coming in was coming in before, or is fresh.
LEMMA ComingStep ==
    ASSUME TypeOK, TypeOK', Flow, NEW l \in Links, NEW h \in Coming(l[1], l[2])'
    PROVE  /\ h \in Message /\ h.req \in Requests
           /\ \/ Fresh(l, h)
              \/ \E g \in Coming(l[1], l[2]) : /\ g \in Message /\ g.type = h.type
                                               /\ g.req = h.req /\ Uoid(g) = Uoid(h)
<1>1. /\ Coming(l[1], l[2])' = Queued(l)' \cup ({hand'[l]} \ {NoMessage})
      /\ Coming(l[1], l[2]) = Queued(l) \cup ({hand[l]} \ {NoMessage})
  <2>1. l = <<l[1], l[2]>>
    BY Network
  <2> QED BY <2>1, Zenon DEF Coming, Queued
<1>2. h \in Message
  <2>1. \A g \in Queued(l)' : g \in Message
    BY DEF TypeOK, Queued
  <2>2. hand'[l] # NoMessage => hand'[l] \in Message
    BY DEF TypeOK
  <2> QED BY <1>1, <2>1, <2>2
<1>3. h.req \in Requests
  BY <1>2, MessageFields
<1>4. CASE h \in Queued(l)'
  BY <1>1, <1>2, <1>3, <1>4 DEF Flow, WireStep
<1>5. CASE h \notin Queued(l)'
  <2>1. h = hand'[l] /\ h # NoMessage
    BY <1>1, <1>5
  <2>2. CASE hand'[l] = hand[l]
    BY <1>1, <1>2, <1>3, <2>1, <2>2
  <2>3. CASE \E g \in Queued(l) : Like(hand'[l], g)
    BY <1>1, <1>2, <1>3, <2>1, <2>3, HandType DEF Like
  <2>4. CASE Marked(l)
    BY <1>1, <1>2, <1>3, <2>1, <2>4, HandType DEF Like, Marked
  <2> QED BY <2>1, <2>2, <2>3, <2>4 DEF Flow, HandStep
<1> QED BY <1>2, <1>3, <1>4, <1>5

LEMMA StepTTL ==
    ASSUME IInv, Flow
    PROVE  TTLOnWire'
<1> SUFFICES ASSUME \A n \in Nodes : TTL[n] > 0, NEW l \in Links, NEW i \in DOMAIN wire'[l]
             PROVE  wire'[l][i].ttl > 0
  BY DEF TTLOnWire
<1>1. wire'[l][i] \in Queued(l)'
  BY DEF Queued
<1>2. PICK h \in Queued(l)' : h = wire'[l][i]
  BY <1>1
<1>3. CASE h \in Queued(l)
  BY <1>2, <1>3 DEF IInv, TTLOnWire, Queued
<1>4. CASE Fresh(l, h)
  BY <1>2, <1>4 DEF Fresh
<1> QED BY <1>3, <1>4 DEF Flow, WireStep

LEMMA StepRequests ==
    ASSUME IInv, TypeOK', Flow
    PROVE  RequestsKeepId' /\ SenderKnowsWay'
<1>0. TypeOK /\ RequestsKeepId /\ SenderKnowsWay
  BY DEF IInv
<1>1. ASSUME NEW l \in Links, NEW h \in Coming(l[1], l[2])', h.type = "request"
      PROVE  Uoid(h) = RequestId(h.req)
  <2>1. CASE Fresh(l, h)
    BY <1>1, <2>1 DEF Fresh
  <2>2. CASE \E g \in Coming(l[1], l[2]) : /\ g \in Message /\ g.type = h.type
                                           /\ g.req = h.req /\ Uoid(g) = Uoid(h)
    BY <1>0, <1>1, <2>2 DEF RequestsKeepId
  <2> QED BY <1>0, <2>1, <2>2, ComingStep
<1>2. ASSUME NEW l \in Links, NEW h \in Coming(l[1], l[2])', Answerable(h)
      PROVE  WayBack(l[1], h.req)'
  <2>0. l[1] \in Nodes /\ h.req \in Requests /\ h.type = "request"
    BY <1>0, <1>2, Network, ComingStep DEF Answerable
  <2>1. CASE Fresh(l, h)
    <3>1. KnowsWay(l[1], h.req)'
      BY <1>2, <2>0, <2>1 DEF Fresh
    <3> QED BY <3>1 DEF WayBack
  <2>2. CASE \E g \in Coming(l[1], l[2]) : /\ g \in Message /\ g.type = h.type
                                           /\ g.req = h.req /\ Uoid(g) = Uoid(h)
    <3>1. WayBack(l[1], h.req)
      BY <1>0, <1>2, <2>2 DEF SenderKnowsWay, Answerable
    <3> QED BY <2>0, <3>1, WayBackStays
  <2> QED BY <1>0, <2>1, <2>2, ComingStep
<1>3. RequestsKeepId'
  BY <1>1, Zenon DEF RequestsKeepId
<1>4. SenderKnowsWay'
  <2> SUFFICES ASSUME NEW l \in Links, NEW h \in Coming(l[1], l[2])', Answerable(h)
               PROVE  WayBack(l[1], h.req)'
    BY DEF SenderKnowsWay
  <2> QED BY <1>2
<1> QED BY <1>3, <1>4

\* The sender of a request that a node holds knows the way.
LEMMA HolderFacts ==
    ASSUME IInv, NEW l \in Links, NEW u \in Requests, Holds(l, u)
    PROVE  /\ hand[l] \in Coming(l[1], l[2]) /\ ~Gone(l[2])
           /\ Answerable(hand[l]) => WayBack(l[1], u)
<1>1. hand[l] # NoMessage /\ hand[l].req = u
  BY DEF Holds
<1>2. hand[l] \in Coming(l[1], l[2])
  BY <1>1, ComingParts
<1> QED BY <1>1, <1>2 DEF IInv, SenderKnowsWay, Gone

LEMMA StepRouteKnows ==
    ASSUME IInv, TypeOK', Flow
    PROVE  RouteKnowsWay'
<1> SUFFICES ASSUME NEW n \in Nodes, NEW u \in Requests, NEW k, k = route'[n][u], k # NoNode
             PROVE  WayBack(k, u)'
  BY DEF RouteKnowsWay, WayBack, KnowsWay, Gone, Open
<1>0. TypeOK /\ RouteKnowsWay /\ k \in Nodes
  BY DEF IInv, TypeOK
<1>1. CASE k = route[n][u]
  BY <1>0, <1>1, WayBackStays DEF RouteKnowsWay
<1>2. CASE \E l \in Links : Holds(l, u) /\ Answerable(hand[l]) /\ k = l[1]
  <2>1. WayBack(k, u)
    BY <1>2, HolderFacts
  <2> QED BY <1>0, <2>1, WayBackStays
<1> QED BY <1>1, <1>2 DEF Flow, RouteStep

LEMMA StepRouted ==
    ASSUME IInv, TypeOK', Flow
    PROVE  AnswerRouted'
<1> SUFFICES ASSUME NEW m \in Nodes, NEW n \in Nodes, <<m, n>> \in Links, Open(m, n)',
                    NEW h \in Coming(m, n)', h.type = "answer"
             PROVE  KnowsWay(n, h.req)'
  BY DEF AnswerRouted
<1>0. TypeOK /\ AnswerRouted
  BY DEF IInv
<1>1. PICK l \in Links : l = <<m, n>> /\ l[1] = m /\ l[2] = n
  OBVIOUS
<1>2. Open(m, n) /\ ~Gone(n)'
  BY <1>1 DEF Flow, ClosedStays, Gone
<1>3. h.req \in Requests /\ \/ Fresh(l, h)
                            \/ \E g \in Coming(m, n) : g.type = h.type /\ g.req = h.req
  BY <1>0, <1>1, ComingStep
<1>4. WayBack(n, h.req)
  <2>1. CASE Fresh(l, h)
    BY <1>1, <2>1 DEF Fresh
  <2>2. CASE \E g \in Coming(m, n) : g.type = h.type /\ g.req = h.req
    BY <1>0, <1>2, <2>2 DEF AnswerRouted, WayBack
  <2> QED BY <1>3, <2>1, <2>2
<1>5. WayBack(n, h.req)'
  BY <1>3, <1>4, WayBackStays
<1> QED BY <1>2, <1>5 DEF WayBack

\* A new entry of a routing map starts a path that no entry leads to.
LEMMA StepLeadBack ==
    ASSUME IInv, TypeOK', Flow
    PROVE  RoutesLeadBack'
<1>0. TypeOK /\ RouteKnowsWay /\ RoutesLeadBack
  BY DEF IInv
<1> SUFFICES ASSUME NEW u \in Requests,
                    NEW S \in SUBSET {n \in Nodes \ {From[u]} : route'[n][u] # NoNode}, S # {}
             PROVE  \E n \in S : route'[n][u] \notin S
  BY DEF RoutesLeadBack
<1> DEFINE New == {n \in S : route[n][u] = NoNode}
           Old == S \ New
<1>1. \A n \in S : n \in Nodes /\ n # From[u] /\ route'[n][u] # NoNode
  OBVIOUS
<1>2. \A n \in Old : route'[n][u] = route[n][u] /\ route[n][u] # NoNode
  BY <1>1 DEF Flow, RouteStep
<1>3. \A n \in New : \E l \in Links : /\ l[2] = n /\ Holds(l, u) /\ Answerable(hand[l])
                                      /\ route'[n][u] = l[1]
  BY <1>1 DEF Flow, RouteStep
<1>4. \A n \in New : ~WayBack(n, u)
  <2> SUFFICES ASSUME NEW n \in New PROVE ~WayBack(n, u)
    OBVIOUS
  <2>1. ~Gone(n)
    BY <1>3, HolderFacts
  <2>2. ~KnowsWay(n, u)
    BY <1>1 DEF KnowsWay
  <2> QED BY <2>1, <2>2 DEF WayBack
<1>5. CASE Old # {}
  <2>1. Old \in SUBSET {n \in Nodes \ {From[u]} : route[n][u] # NoNode}
    BY <1>1, <1>2
  <2>2. PICK n \in Old : route[n][u] \notin Old
    BY <1>0, <1>5, <2>1 DEF RoutesLeadBack
  <2>3. WayBack(route[n][u], u)
    BY <1>0, <1>1, <1>2, <2>2 DEF RouteKnowsWay
  <2> QED BY <1>2, <1>4, <2>2, <2>3
<1>6. CASE Old = {}
  <2>1. PICK n \in New : TRUE
    BY <1>6
  <2>2. PICK l \in Links : Holds(l, u) /\ Answerable(hand[l]) /\ route'[n][u] = l[1]
    BY <1>3, <2>1
  <2>3. WayBack(l[1], u)
    BY <2>2, HolderFacts
  <2> QED BY <1>4, <1>6, <2>1, <2>2, <2>3
<1> QED BY <1>5, <1>6

LEMMA StepNoted ==
    ASSUME IInv, TypeOK', Flow
    PROVE  NotedKnows'
<1>0. TypeOK /\ NotedKnows
  BY DEF IInv
<1> SUFFICES ASSUME NEW l \in Links, Noted(l)'
             PROVE  /\ KnowsWay(l[2], hand[l].req)'
                    /\ (Kind[hand[l].req] = "check" => l[2] \notin Beacons)'
  BY DEF NotedKnows
<1>1. hand'[l] # NoMessage /\ hand'[l].mark = "noted" /\ l[2] \in Nodes
  BY Network DEF Noted
<1>2. PICK u \in Requests : u = hand'[l].req
  <2>1. hand'[l] \in Message
    BY <1>1 DEF TypeOK
  <2> QED BY <2>1, MessageFields
<1>3. CASE hand'[l] = hand[l]
  <2>1. KnowsWay(l[2], hand[l].req) /\ (Kind[u] = "check" => l[2] \notin Beacons)
    BY <1>0, <1>1, <1>2, <1>3 DEF NotedKnows, Noted
  <2>2. KnowsWay(l[2], u)
    BY <1>2, <1>3, <2>1 DEF KnowsWay
  <2>3. ~Gone(l[2])'
    BY <1>1 DEF Gone
  <2>4. WayBack(l[2], u)'
    BY <1>1, <2>2, WayBackStays DEF WayBack
  <2>5. KnowsWay(l[2], u)'
    BY <2>3, <2>4 DEF WayBack
  <2> QED BY <1>2, <2>1, <2>5 DEF KnowsWay
<1>4. CASE /\ Marked(l) /\ KnowsWay(l[2], hand[l].req)'
           /\ Kind[hand[l].req] = "check" => l[2] \notin Beacons
  <2>1. hand'[l].req = hand[l].req
    BY <1>4 DEF Marked, Like
  <2> QED BY <1>4, <2>1
<1> QED BY <1>1, <1>3, <1>4 DEF Flow, HandStep

-----------------------------------------------------------------------------
(* What a step does to UOID_time_map, the answers and the open commands.   *)

\* While no UOID expires, only a node that leaves forgets what it has seen.
SeenStep ==
    expired' = 0 => /\ expired = 0
                    /\ \A n \in Nodes : seen[n] \subseteq seen'[n] \/ Gone(n)'

\* A request that comes into the hands of a thread was not seen before.
TakeStep ==
    \A l \in Links, u \in Requests : Holds(l, u)' =>
        \/ Holds(l, u) /\ (~Noted(l)' => ~Noted(l))
        \/ /\ RequestId(u) \notin seen[l[2]] /\ RequestId(u) \in seen'[l[2]]
           /\ \A k \in Links : k # l => hand'[k] = hand[k]
           /\ answers' = answers

\* Who answers has not entered the sender before, and is done with the request or
\* enters it now.
AnswerStep ==
    \A u \in Requests, n \in Nodes :
        \/ answers'[u][n] = answers[u][n]
        \/ /\ answers'[u][n] = answers[u][n] + 1
           /\ \E l \in Links : /\ l[2] = n /\ Holds(l, u) /\ ~Noted(l)
                               /\ hand'[l] = NoMessage \/ Noted(l)'

\* Only an open get hears something, once.
HeardStep ==
    \A u \in Requests : Kind[u] = "get" =>
        \/ heard'[u] = heard[u]
        \/ /\ u \in waiting /\ u \notin waiting'
           /\ \E x : heard'[u] = heard[u] \cup {x}
WaitStep == asked \subseteq asked' /\ waiting' \subseteq waiting \cup (asked' \ asked)

Account == SeenStep /\ TakeStep /\ AnswerStep /\ HeardStep /\ WaitStep

\* No thread takes a message from a link.
NoneTaken == \A l \in Links : hand'[l] = hand[l] \/ hand'[l] = NoMessage \/ Marked(l)

\* A step that takes no message from a link, and tells no command anything.
LEMMA QuietAccount ==
    ASSUME UNCHANGED <<heard, seen, expired>>, NoneTaken
    PROVE  SeenStep /\ TakeStep /\ HeardStep
<1>1. ASSUME NEW l \in Links, NEW u \in Requests, Holds(l, u)'
      PROVE  Holds(l, u) /\ (~Noted(l)' => ~Noted(l))
  BY <1>1 DEF NoneTaken, Holds, Marked, Like, Noted
<1> QED BY <1>1 DEF SeenStep, TakeStep, HeardStep

LEMMA AnswerAndFloodAccount ==
    ASSUME TypeOK, NEW m \in Nodes, NEW n \in Nodes, <<m, n>> \in Links, NEW replies,
           hand[<<m, n>>] \in Message, hand[<<m, n>>].type = "request",
           \/ AnswerAndFlood(m, n, hand[<<m, n>>], replies)
           \/ /\ answers' = [answers EXCEPT ![hand[<<m, n>>].req][n] = @ + 1]
              /\ hand[<<m, n>>].mark # "noted" /\ Done(m, n)
           \/ answers' = answers /\ Done(m, n)
    PROVE  AnswerStep /\ NoneTaken
<1>1. PICK h, k : h = hand[<<m, n>>] /\ k = <<m, n>> /\ k \in Links /\ k[2] = n
  OBVIOUS
<1>2. h \in Message /\ h.req \in Requests /\ Holds(k, h.req) /\ h # NoMessage
  BY <1>1, MessageFields DEF Holds
<1>3. answers \in [Requests -> [Nodes -> Nat]]
  BY DEF TypeOK
<1>4. Done(m, n) => NoneTaken
  BY <1>1, DoneType DEF NoneTaken
<1>5. ASSUME AfterEntry(m, n, h), h.mark = "new" PROVE NoneTaken
  <2>1. PICK x : x = [h EXCEPT !.mark = "noted"]
    OBVIOUS
  <2>2. x \in Message /\ x.mark = "noted" /\ Like(x, h) /\ x # NoMessage
    BY <1>2, <2>1, MarkFields, MessageFields
  <2>3. hand' = [hand EXCEPT ![k] = IF h.ttl = 0 THEN NoMessage ELSE x]
    BY <1>1, <1>5, <2>1 DEF AfterEntry
  <2>4. /\ \A l \in Links : l # k => hand'[l] = hand[l]
        /\ hand'[k] = NoMessage \/ (hand'[k] = x /\ Marked(k))
    BY <1>1, <1>2, <2>2, <2>3 DEF TypeOK, Marked
  <2> QED BY <2>4 DEF NoneTaken
<1>6. \/ answers' = answers /\ (Done(m, n) \/ (AfterEntry(m, n, h) /\ h.mark = "new"))
      \/ /\ answers' = [answers EXCEPT ![h.req][n] = @ + 1] /\ h.mark # "noted"
         /\ Done(m, n) \/ (AfterEntry(m, n, h) /\ h.mark = "new")
  <2>1. CASE AnswerAndFlood(m, n, h, replies)
    BY <1>1, <2>1 DEF AnswerAndFlood, AfterEntry
  <2> QED BY <1>1, <2>1
<1>7. NoneTaken /\ (hand'[k] = NoMessage \/ Noted(k)')
  <2>1. CASE Done(m, n)
    BY <1>1, <1>4, <2>1, DoneType
  <2>2. CASE AfterEntry(m, n, h) /\ h.mark = "new"
    <3>1. NoneTaken
      BY <1>5, <2>2
    <3>2. hand'[k] = NoMessage \/ hand'[k] = [h EXCEPT !.mark = "noted"]
      BY <1>1, <2>2 DEF AfterEntry, TypeOK
    <3>3. [h EXCEPT !.mark = "noted"] \in Message /\ [h EXCEPT !.mark = "noted"].mark = "noted"
      BY <1>2, MarkFields
    <3> QED BY <3>1, <3>2, <3>3, MessageFields DEF Noted
  <2> QED BY <1>6, <2>1, <2>2
<1>8. AnswerStep
  <2> SUFFICES ASSUME NEW u \in Requests, NEW j \in Nodes, answers'[u][j] # answers[u][j]
               PROVE  /\ answers'[u][j] = answers[u][j] + 1
                      /\ \E l \in Links : /\ l[2] = j /\ Holds(l, u) /\ ~Noted(l)
                                          /\ hand'[l] = NoMessage \/ Noted(l)'
    BY DEF AnswerStep
  <2>1. answers' = [answers EXCEPT ![h.req][n] = @ + 1] /\ h.mark # "noted"
    BY <1>6
  <2>2. u = h.req /\ j = n /\ answers'[u][j] = answers[u][j] + 1
    BY <1>2, <1>3, <2>1
  <2>3. ~Noted(k)
    BY <1>1, <2>1 DEF Noted
  <2> QED BY <1>1, <1>2, <1>7, <2>2, <2>3
<1> QED BY <1>7, <1>8

LEMMA RequestAccount ==
    ASSUME IInv, NEW l \in Links,
           \/ HandleQuery(l[1], l[2]) \/ HandleCheck(l[1], l[2]) \/ HandleJoin(l[1], l[2])
           \/ HandleDelete(l[1], l[2]) \/ HandleStore(l[1], l[2])
    PROVE  Account
<1> DEFINE m == l[1]
           n == l[2]
           h == hand[l]
<1>0. m \in Nodes /\ n \in Nodes /\ l = <<m, n>> /\ TypeOK
  BY Network DEF IInv
<1>1. UNCHANGED <<seen, asked, waiting, heard, dead, expired>>
  BY DEF HandleQuery, HandleCheck, HandleJoin, HandleDelete, HandleStore
<1> HIDE DEF m, n
<1>2. PICK kinds : Handles(m, n, "request", kinds)
  BY DEF HandleQuery, HandleCheck, HandleJoin, HandleDelete, HandleStore, m, n
<1>3. h \in Message /\ h.type = "request"
  BY <1>0, <1>2, HandlesFacts
<1>4. HandleCheck(m, n) /\ n \in Beacons => h.mark # "noted"
  <2> SUFFICES ASSUME HandleCheck(m, n), n \in Beacons, h.mark = "noted" PROVE FALSE
    OBVIOUS
  <2>1. Kind[h.req] = "check" /\ Noted(l)
    BY <1>0, <1>3, HandlesFacts DEF HandleCheck, Noted
  <2>2. NotedKnows /\ l[2] \in Beacons
    BY DEF IInv, n
  <2> QED BY <2>1, <2>2 DEF NotedKnows, Noted
<1>5. PICK replies : \/ AnswerAndFlood(m, n, h, replies)
                     \/ /\ answers' = [answers EXCEPT ![h.req][n] = @ + 1]
                        /\ h.mark # "noted" /\ Done(m, n)
                     \/ answers' = answers /\ Done(m, n)
  BY <1>0, <1>4 DEF HandleQuery, HandleCheck, HandleJoin, HandleDelete, HandleStore, m, n
<1>6. AnswerStep /\ NoneTaken
  BY <1>0, <1>3, <1>5, AnswerAndFloodAccount
<1>7. WaitStep
  BY <1>1 DEF WaitStep
<1> QED BY <1>1, <1>6, <1>7, QuietAccount DEF Account

LEMMA AnswerAccount ==
    ASSUME TypeOK, NEW l \in Links,
           \/ HandleQueryRes(l[1], l[2]) \/ HandleCheckRes(l[1], l[2])
           \/ HandleJoinRes(l[1], l[2])
    PROVE  Account
<1> DEFINE m == l[1]
           n == l[2]
           h == hand[l]
<1>0. m \in Nodes /\ n \in Nodes /\ l = <<m, n>>
  BY Network
<1>1. UNCHANGED <<seen, asked, answers, dead, expired>> /\ Done(m, n)
  BY DEF HandleQueryRes, HandleCheckRes, HandleJoinRes
<1> HIDE DEF m, n
<1>2. \A k \in Links : hand'[k] = hand[k] \/ hand'[k] = NoMessage
  BY <1>0, <1>1, DoneType
<1>3. SeenStep /\ TakeStep /\ AnswerStep
  BY <1>1, <1>2 DEF SeenStep, TakeStep, AnswerStep, Holds, Noted
<1>4. CASE HandleQueryRes(m, n)
  <2> DEFINE own == IF route[n][h.req] = NoNode THEN TakenFor(n, h) ELSE {}
  <2>1. /\ heard' = [u \in Requests |-> IF u \in own THEN heard[u] \cup {<<h.by, h.nr>>} ELSE heard[u]]
        /\ waiting' = waiting \ Served(own)
    BY <1>0, <1>4 DEF HandleQueryRes
  <2>2. own \subseteq waiting
    BY DEF TakenFor
  <2> HIDE DEF own, h
  <2>3. HeardStep
    BY <2>1, <2>2 DEF HeardStep, Served
  <2>4. WaitStep
    BY <1>1, <2>1 DEF WaitStep
  <2> QED BY <1>3, <2>3, <2>4 DEF Account
<1>5. CASE HandleCheckRes(m, n)
  <2>1. h \in Message /\ h.req \in Requests /\ Kind[h.req] = "check"
    BY <1>0, <1>5, HandlesFacts DEF HandleCheckRes
  <2>2. (Hear(h, h.req) \/ heard' = heard) /\ UNCHANGED waiting
    BY <1>0, <1>5 DEF HandleCheckRes
  <2> HIDE DEF h
  <2>3. HeardStep
    BY <2>1, <2>2 DEF HeardStep, Hear, TypeOK
  <2> QED BY <1>1, <1>3, <2>2, <2>3 DEF Account, WaitStep
<1>6. CASE HandleJoinRes(m, n)
  <2>1. UNCHANGED <<waiting, heard>>
    BY <1>6 DEF HandleJoinRes
  <2> QED BY <1>1, <1>3, <2>1 DEF Account, HeardStep, WaitStep
<1> QED BY <1>4, <1>5, <1>6 DEF m, n

LEMMA ReceiveAccount ==
    ASSUME IInv, NEW l \in Links, Receive(l[1], l[2])
    PROVE  Account
<1>0. TypeOK /\ l[1] \in Nodes /\ l[2] \in Nodes /\ l = <<l[1], l[2]>>
  BY Network DEF IInv
<1>1. PICK h \in Message, id \in Uoids :
        /\ wire[l] # <<>> /\ hand[l] = NoMessage /\ id = Uoid(Head(wire[l]))
        /\ Like(h, Head(wire[l])) /\ h.mark # "noted"
        /\ seen' = [seen EXCEPT ![l[2]] = @ \cup {id}]
        /\ hand' = [hand EXCEPT ![l] = IF id \notin seen[l[2]] \/ Repeats(h) THEN h ELSE NoMessage]
  BY <1>0, ReceiveEffect
<1>2. UNCHANGED <<nbMap, route, asked, waiting, heard, answers, dead, expired>>
  BY <1>0, ReceiveEffect
<1>3. h.type = "request" => id = RequestId(h.req)
  <2>1. Head(wire[l]) \in Coming(l[1], l[2]) /\ h.type = Head(wire[l]).type /\ h.req = Head(wire[l]).req
    BY <1>0, <1>1, HandType, ComingParts DEF Like
  <2> QED BY <1>1, <2>1 DEF IInv, RequestsKeepId
<1>4. /\ \A k \in Links : k # l => hand'[k] = hand[k]
      /\ hand'[l] = NoMessage \/ (hand'[l] = h /\ (id \notin seen[l[2]] \/ Repeats(h)))
      /\ id \in seen'[l[2]] /\ \A n \in Nodes : seen[n] \subseteq seen'[n]
  BY <1>0, <1>1 DEF TypeOK
<1>5. TakeStep
  <2> SUFFICES ASSUME NEW k \in Links, NEW u \in Requests, Holds(k, u)',
                      ~(Holds(k, u) /\ (~Noted(k)' => ~Noted(k)))
               PROVE  /\ RequestId(u) \notin seen[k[2]] /\ RequestId(u) \in seen'[k[2]]
                      /\ \A j \in Links : j # k => hand'[j] = hand[j]
    BY <1>2 DEF TakeStep
  <2>1. k = l
    BY <1>4 DEF Holds, Noted
  <2>2. hand'[l] = h /\ h.type = "request" /\ h.req = u
    BY <1>4, <2>1 DEF Holds
  <2>3. ~Repeats(h)
    BY <2>2 DEF Repeats
  <2>4. hand'[l] # NoMessage
    BY <2>1 DEF Holds
  <2> QED BY <1>3, <1>4, <2>1, <2>2, <2>3, <2>4
<1> QED BY <1>2, <1>4, <1>5 DEF Account, SeenStep, AnswerStep, HeardStep, WaitStep

LEMMA StepAccount ==
    ASSUME IInv, [Next]_vars
    PROVE  Account
<1>0. TypeOK
  BY DEF IInv
<1>1. ASSUME NEW l \in Links, Receive(l[1], l[2]) PROVE Account
  BY <1>1, ReceiveAccount
<1>2. ASSUME NEW l \in Links, JoinerReceives(l[1], l[2]) PROVE Account
  <2>1. l[1] \in Nodes /\ l[2] \in Nodes /\ l = <<l[1], l[2]>>
    BY Network
  <2>2. /\ UNCHANGED <<seen, hand, asked, waiting, answers, dead, expired>>
        /\ \/ heard' = heard
           \/ \E h \in Message : /\ h.type = "answer" /\ Kind[h.req] = "join"
                                 /\ heard' = [heard EXCEPT ![h.req] = @ \cup {<<h.by, h.nr>>}]
    BY <1>0, <1>2, <2>1, JoinerEffect
  <2>3. HeardStep
    BY <1>0, <2>2, MessageFields DEF HeardStep, TypeOK
  <2> QED BY <2>2, <2>3 DEF Account, SeenStep, TakeStep, AnswerStep, WaitStep, Holds, Noted
<1>3. ASSUME NEW l \in Links, Handle(l[1], l[2]) PROVE Account
  BY <1>0, <1>3, RequestAccount, AnswerAccount DEF Handle
<1>4. ASSUME NEW l \in Links, Break(l[1], l[2]) PROVE Account
  <2>1. UNCHANGED <<seen, hand, asked, waiting, heard, answers, dead, expired>>
    BY <1>4 DEF Break
  <2> QED BY <2>1 DEF Account, SeenStep, TakeStep, AnswerStep, HeardStep, WaitStep, Holds, Noted
<1>5. ASSUME NEW u \in Requests, AskAll(u) \/ AskStore(u) \/ AskCheck(u) \/ AskJoin(u)
      PROVE  Account
  <2>1. /\ u \notin asked /\ asked' = asked \cup {u} /\ waiting' \subseteq waiting \cup {u}
        /\ UNCHANGED <<seen, hand, heard, answers, dead, expired>>
    BY <1>0, <1>5, AskFacts
  <2> QED BY <2>1 DEF Account, SeenStep, TakeStep, AnswerStep, HeardStep, WaitStep, Holds, Noted
<1>6. ASSUME NEW u \in Requests, StopWaiting(u) \/ JoinTimeout(u) PROVE Account
  <2>1. /\ waiting' \subseteq waiting
        /\ UNCHANGED <<seen, hand, asked, heard, answers, dead, expired>>
    BY <1>6 DEF StopWaiting, JoinTimeout
  <2> QED BY <2>1 DEF Account, SeenStep, TakeStep, AnswerStep, HeardStep, WaitStep, Holds, Noted
<1>7. ASSUME NEW n \in Nodes, Leave(n), UNCHANGED <<asked, heard, answers, expired>>,
             \A k \in Nodes : k # n => seen'[k] = seen[k]
      PROVE  Account
  <2>1. /\ \A l \in Links : hand'[l] = IF l[2] = n THEN NoMessage ELSE hand[l]
        /\ waiting' \subseteq waiting
    BY <1>0, <1>7, LeaveFacts
  <2>2. Gone(n)'
    BY <1>0, <1>7, LeaverGone
  <2>3. SeenStep
    BY <1>7, <2>2 DEF SeenStep
  <2>4. TakeStep
    BY <2>1 DEF TakeStep, Holds, Noted
  <2> QED BY <1>7, <2>1, <2>3, <2>4 DEF Account, AnswerStep, HeardStep, WaitStep
<1>10. ASSUME NEW u \in Requests, SoftRestart(u) PROVE Account
  <2>1. /\ From[u] \in Nodes /\ Leave(From[u]) /\ seen' = [seen EXCEPT ![From[u]] = {}]
        /\ UNCHANGED <<asked, heard, answers, expired>>
    BY <1>0, <1>10, RestartFacts
  <2>2. \A k \in Nodes : k # From[u] => seen'[k] = seen[k]
    BY <1>0, <2>1 DEF TypeOK
  <2> QED BY <1>7, <2>1, <2>2
<1>11. ASSUME NEW l \in Links, SendFails(l[1], l[2]) PROVE Account
  <2>1. l[1] \in Nodes /\ Leave(l[1]) /\ UNCHANGED <<seen, asked, heard, answers, expired>>
    BY <1>11, Network DEF SendFails
  <2> QED BY <1>7, <2>1
<1>8. ASSUME NEW n \in Nodes, Expire(n) PROVE Account
  <2>1. expired' # 0 /\ UNCHANGED <<hand, asked, waiting, heard, answers>>
    BY <1>0, <1>8 DEF Expire, TypeOK
  <2> QED BY <2>1 DEF Account, SeenStep, TakeStep, AnswerStep, HeardStep, WaitStep, Holds, Noted
<1>9. CASE UNCHANGED vars
  BY <1>9 DEF vars, Account, SeenStep, TakeStep, AnswerStep, HeardStep, WaitStep, Holds, Noted
<1> QED BY <1>1, <1>2, <1>3, <1>4, <1>5, <1>6, <1>8, <1>9, <1>10, <1>11 DEF Next, Deliver

LEMMA StepHandled ==
    ASSUME IInv, TypeOK', Flow, Account
    PROVE  HandledOnce' /\ AnsweredOnce'
<1>0. HandledOnce /\ AnsweredOnce /\ TypeOK
  BY DEF IInv
<1> SUFFICES ASSUME expired' = 0, NEW u \in Requests, NEW n \in Nodes
             PROVE  /\ answers'[u][n] > 0 => RequestId(u) \in seen'[n] \/ Gone(n)'
                    /\ \A l \in Links : l[2] = n /\ Holds(l, u)' =>
                          /\ ~Noted(l)' => answers'[u][n] = 0
                          /\ RequestId(u) \in seen'[n]
                          /\ \A k \in Links : k[2] = n /\ Holds(k, u)' => k = l
                    /\ answers'[u][n] <= 1
  BY DEF HandledOnce, AnsweredOnce, Holds, Noted, Gone, Open
<1>1. expired = 0 /\ (seen[n] \subseteq seen'[n] \/ Gone(n)')
  BY DEF Account, SeenStep
<1>2. /\ answers[u][n] \in Nat /\ answers[u][n] <= 1
      /\ answers[u][n] > 0 => RequestId(u) \in seen[n] \/ Gone(n)
      /\ \A l \in Links : l[2] = n /\ Holds(l, u) =>
            /\ ~Noted(l) => answers[u][n] = 0
            /\ RequestId(u) \in seen[n]
            /\ \A k \in Links : k[2] = n /\ Holds(k, u) => k = l
  BY <1>0, <1>1 DEF HandledOnce, AnsweredOnce, TypeOK
<1>3. \/ answers'[u][n] = answers[u][n]
      \/ /\ answers'[u][n] = answers[u][n] + 1
         /\ \E l \in Links : /\ l[2] = n /\ Holds(l, u) /\ ~Noted(l)
                             /\ hand'[l] = NoMessage \/ Noted(l)'
  BY DEF Account, AnswerStep
<1>4. Gone(n) => Gone(n)'
  BY GoneStays
<1>5. \A l \in Links : l[2] = n /\ Holds(l, u)' => ~Gone(n)' /\ hand'[l] # NoMessage
  BY DEF Holds, Gone
<1>6. answers'[u][n] > 0 => RequestId(u) \in seen'[n] \/ Gone(n)'
  BY <1>1, <1>2, <1>3, <1>4
<1>7. answers'[u][n] <= 1
  BY <1>2, <1>3
<1>8. ASSUME NEW l \in Links, l[2] = n, Holds(l, u)'
      PROVE  /\ ~Noted(l)' => answers'[u][n] = 0
             /\ RequestId(u) \in seen'[n]
             /\ \A k \in Links : k[2] = n /\ Holds(k, u)' => k = l
  <2>0. \A k \in Links : k[2] = n /\ Holds(k, u)' =>
            \/ Holds(k, u) /\ (~Noted(k)' => ~Noted(k))
            \/ /\ RequestId(u) \notin seen[n] /\ RequestId(u) \in seen'[n]
               /\ \A j \in Links : j # k => hand'[j] = hand[j]
               /\ answers' = answers
    BY DEF Account, TakeStep
  <2>1. CASE Holds(l, u) /\ (~Noted(l)' => ~Noted(l))
    <3>1. /\ ~Noted(l) => answers[u][n] = 0
          /\ RequestId(u) \in seen[n]
          /\ \A k \in Links : k[2] = n /\ Holds(k, u) => k = l
      BY <1>2, <1>8, <2>1
    <3>2. ~Noted(l)' => answers'[u][n] = 0
      BY <1>3, <1>5, <1>8, <2>1, <3>1
    <3>3. RequestId(u) \in seen'[n]
      BY <1>1, <1>5, <1>8, <3>1
    <3> QED BY <2>0, <3>1, <3>2, <3>3
  <2>2. CASE /\ RequestId(u) \notin seen[n] /\ RequestId(u) \in seen'[n]
             /\ \A j \in Links : j # l => hand'[j] = hand[j]
             /\ answers' = answers
    <3>2. answers'[u][n] = 0
      BY <1>2, <1>4, <1>5, <1>8, <2>2
    <3>3. ASSUME NEW k \in Links, k[2] = n, Holds(k, u)', k # l PROVE FALSE
      <4>1. Holds(k, u)
        BY <2>2, <3>3 DEF Holds
      <4> QED BY <1>2, <2>2, <3>3, <4>1
    <3> QED BY <2>2, <3>2, <3>3
  <2> QED BY <1>8, <2>0, <2>1, <2>2
<1> QED BY <1>6, <1>7, <1>8

LEMMA StepGet ==
    ASSUME IInv, Account
    PROVE  GetOpen' /\ GotOnce'
<1>0. GetOpen /\ GotOnce /\ waiting \subseteq asked
  BY DEF IInv, TypeOK
<1>1. ASSUME NEW u \in Requests, Kind[u] = "get"
      PROVE  \/ heard'[u] = heard[u]
             \/ /\ u \in waiting /\ u \notin waiting'
                /\ \E x : heard'[u] = heard[u] \cup {x}
  BY <1>1 DEF Account, HeardStep
<1>2. asked \subseteq asked' /\ waiting' \subseteq waiting \cup (asked' \ asked)
  BY DEF Account, WaitStep
<1>3. GetOpen'
  <2> SUFFICES ASSUME NEW u \in Requests, Kind[u] = "get", u \in waiting' \/ u \notin asked'
               PROVE  heard'[u] = {}
    BY DEF GetOpen
  <2>1. heard'[u] = heard[u]
    BY <1>0, <1>1, <1>2
  <2>2. u \in waiting \/ u \notin asked
    BY <1>2
  <2> QED BY <1>0, <2>1, <2>2 DEF GetOpen
<1>4. GotOnce'
  <2> SUFFICES ASSUME NEW u \in Requests, Kind[u] = "get"
               PROVE  Cardinality(heard'[u]) <= 1
    BY DEF GotOnce
  <2>1. CASE heard'[u] = heard[u]
    BY <1>0, <2>1 DEF GotOnce
  <2>2. CASE u \in waiting /\ \E x : heard'[u] = heard[u] \cup {x}
    <3>1. PICK x : heard'[u] = {x}
      BY <1>0, <2>2 DEF GetOpen
    <3> QED BY <3>1, FS_Singleton
  <2> QED BY <1>1, <2>1, <2>2
<1> QED BY <1>3, <1>4

-----------------------------------------------------------------------------
(* The theorems.                                                           *)

LEMMA InitInvariant == Init => IInv
<1> SUFFICES ASSUME Init PROVE IInv
  OBVIOUS
<1>1. TypeOK
  BY InitType
<1>2. \A l \in Links : wire[l] = <<>> /\ hand[l] = NoMessage /\ Queued(l) = {}
  BY DEF Init, Queued
<1>3. \A l \in Links : Coming(l[1], l[2]) = {}
  BY <1>2, ComingParts
<1>4. TTLOnWire /\ RequestsKeepId /\ SenderKnowsWay
  <2>1. TTLOnWire
    BY <1>2 DEF TTLOnWire
  <2>2. RequestsKeepId /\ SenderKnowsWay
    BY <1>3, Zenon DEF RequestsKeepId, SenderKnowsWay
  <2> QED BY <2>1, <2>2
<1>5. RouteKnowsWay /\ RoutesLeadBack
  BY DEF Init, RouteKnowsWay, RoutesLeadBack
<1>6. AnswerRouted
  <2>1. \A m, n \in Nodes : <<m, n>> \in Links => Coming(m, n) = {}
    BY <1>2 DEF Coming, Queued
  <2> QED BY <2>1 DEF AnswerRouted
<1>7. AnsweredOnce /\ HandledOnce /\ NotedKnows
  BY <1>2 DEF Init, AnsweredOnce, HandledOnce, Holds, NotedKnows, Noted
<1>8. GetOpen /\ GotOnce
  BY FS_EmptySet DEF Init, GetOpen, GotOnce
<1> QED BY <1>1, <1>4, <1>5, <1>6, <1>7, <1>8 DEF IInv

LEMMA StepInvariant == IInv /\ [Next]_vars => IInv'
<1> SUFFICES ASSUME IInv, [Next]_vars PROVE IInv'
  OBVIOUS
<1>1. TypeOK'
  BY StepType DEF IInv
<1>2. Flow /\ Account
  BY StepFlow, StepAccount
<1>3. TTLOnWire' /\ RequestsKeepId' /\ SenderKnowsWay' /\ RouteKnowsWay'
  BY <1>1, <1>2, StepTTL, StepRequests, StepRouteKnows
<1>4. AnswerRouted' /\ RoutesLeadBack' /\ NotedKnows'
  BY <1>1, <1>2, StepRouted, StepLeadBack, StepNoted
<1>5. HandledOnce' /\ AnsweredOnce' /\ GetOpen' /\ GotOnce'
  BY <1>1, <1>2, StepHandled, StepGet
<1> QED BY <1>1, <1>3, <1>4, <1>5 DEF IInv

\* The inductive invariant holds for every network and every set of requests:
\* the tables of the nodes fit the messages on the way, whatever the order in
\* which receive threads, commands, timers and breaking connections take turns.
THEOREM RoutingInvariant == Spec => []IInv
BY InitInvariant, StepInvariant, PTL DEF Spec

\* Every table, queue and message has its type.
THEOREM RoutingTypes == Spec => []TypeOK
<1>1. IInv => TypeOK
  BY DEF IInv
<1> QED BY <1>1, RoutingInvariant, PTL

\* When no node is configured with a TTL of 0, no message is ever sent with one:
\* flood_msg and the handlers of answers look at the TTL after the decrement.
THEOREM NoZeroTTL == Spec => []TTLOnWire
<1>1. IInv => TTLOnWire
  BY DEF IInv
<1> QED BY <1>1, RoutingInvariant, PTL

\* A node answers a request once, through however many connections it comes at the
\* same time, unless UOIDs expire: UOID_time_map is looked up and entered under one lock.
THEOREM OneAnswer == Spec => []AnsweredOnce
<1>1. IInv => AnsweredOnce
  BY DEF IInv
<1> QED BY <1>1, RoutingInvariant, PTL

\* Wherever an answer is on its way to, there is an entry in routing_map for it, or
\* the command that it answers.
THEOREM AnswersFindTheirWay == Spec => []AnswerRouted
<1>1. IInv => AnswerRouted
  BY DEF IInv
<1> QED BY <1>1, RoutingInvariant, PTL

\* The entries of the routing maps for a request form no cycle, in any network with
\* any cycles, also after UOIDs have expired and nodes have left.
THEOREM RoutesHaveNoCycle == Spec => []RoutesLeadBack
<1>1. IInv => RoutesLeadBack
  BY DEF IInv
<1> QED BY <1>1, RoutingInvariant, PTL

\* A get stores one file at most, whoever and how many answer.
THEOREM OneFilePerGet == Spec => []GotOnce
<1>1. IInv => GotOnce
  BY DEF IInv
<1> QED BY <1>1, RoutingInvariant, PTL
=============================================================================
