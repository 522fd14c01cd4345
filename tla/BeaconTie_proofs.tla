-------------------------- MODULE BeaconTie_proofs --------------------------
(***************************************************************************)
(* Two beacons do not stay connected twice, and their tables agree on the  *)
(* connections that are open: for any number of beacons, any lists and any *)
(* order of connects, hellos and closes.                                   *)
(***************************************************************************)
EXTENDS BeaconTie, TLAPS

IsClient(e) == e[1] = e[2][1]

\* The node at an end lists the connection.
In(e) == e[2] \in nb[e[1]]

\* What an end has reached, by what the client thread has.
Phase(e) ==
    /\ client[e[2]] \in {"check", "connect"} => recv[e] = "none"
    /\ client[e[2]] = "list" =>
          ~In(e) /\ recv[e] = IF IsClient(e) THEN "none" ELSE "wait"
    /\ client[e[2]] = "over" /\ recv[e] = "none" => recv[Far(e)] = "none"
    /\ IsClient(e) /\ recv[e] = "none" => hellos[Far(e)] = 0

\* A receive thread that is not on its way out.
Live == {"wait", "known", "new", "tie"}

\* When an end is in the table of its node.
Listed(e) ==
    /\ In(e) => recv[e] \in Live \cup {"unlist"}
    /\ recv[e] \in {"tie", "unlist"} => In(e)
    /\ IsClient(e) /\ recv[e] \in Live => In(e)
    /\ recv[e] = "wait" /\ ~In(e) =>
          client[e[2]] = "list" \/ hellos[e] > 0 \/ recv[Far(e)] = "shut"

\* The end, at the same node, of the connection that the peer made.
Back(e) == <<e[1], <<e[2][2], e[2][1]>>>>

Tied(e) ==
    /\ IsClient(e) /\ Lower(e) /\ Back(e) \in AllEnds
    /\ In(e) /\ In(Back(e))
    /\ recv[e] \in Live /\ recv[Far(e)] \in Live
    /\ recv[Back(e)] \in Live /\ recv[Far(Back(e))] \in Live

\* While the lower node lists two live connections to one peer, it is about to
\* look at its table again, or a hello is on its way that makes it look, or the
\* peer is about to send one.
Told(e) ==
    Tied(e) =>
        \/ recv[e] # "wait" \/ recv[Back(e)] # "wait" \/ recv[Far(e)] # "wait"
        \/ hellos[e] > 0 \/ hellos[Back(e)] > 0 \/ hellos[Far(e)] > 0

IInv ==
    /\ TypeOK
    /\ \A e \in AllEnds : Phase(e)
    /\ \A e \in AllEnds : Listed(e)
    /\ \A e \in AllEnds : Told(e)

-----------------------------------------------------------------------------
(* Ends of connections.                                                    *)

\* Each connection has two ends, at different beacons, and each is the far end
\* of the other.
LEMMA EndFacts ==
    ASSUME NEW e \in AllEnds
    PROVE  /\ e = <<e[1], e[2]>> /\ e[1] \in Beacons /\ e[2] \in Conns
           /\ e[2] = <<e[2][1], e[2][2]>>
           /\ e[2][1] \in Beacons /\ e[2][2] \in Lists[e[2][1]] /\ e[2][2] \in Beacons
           /\ e[2][1] # e[2][2]
           /\ Far(e) \in AllEnds /\ Far(Far(e)) = e /\ Far(e) # e
           /\ Far(e)[1] = Peer(e[1], e[2]) /\ Far(e)[2] = e[2]
           /\ IsClient(Far(e)) <=> ~IsClient(e)
           /\ IsClient(e) => Far(e)[1] = e[2][2]
<1>1. /\ e = <<e[1], e[2]>> /\ e[1] \in Beacons /\ e[2] \in Conns
      /\ e[1] \in {e[2][1], e[2][2]}
  BY DEF AllEnds
<1>2. /\ e[2] = <<e[2][1], e[2][2]>> /\ e[2][1] \in Beacons /\ e[2][2] \in Beacons
      /\ e[2][2] \in Lists[e[2][1]]
  BY <1>1 DEF Conns
<1>3. e[2][1] # e[2][2]
  BY <1>2, ListsAssumption
<1> DEFINE p == Peer(e[1], e[2])
<1>4. /\ p \in Beacons /\ p # e[1] /\ p \in {e[2][1], e[2][2]}
      /\ (p = e[2][1]) <=> (e[1] # e[2][1])
      /\ e[1] = e[2][1] => p = e[2][2]
      /\ Peer(p, e[2]) = e[1]
  BY <1>1, <1>2, <1>3 DEF Peer
<1>5. Far(e) = <<p, e[2]>> /\ Far(e)[1] = p /\ Far(e)[2] = e[2]
  BY DEF Far
<1>6. Far(e) \in AllEnds
  BY <1>1, <1>4, <1>5 DEF AllEnds
<1>7. Far(Far(e)) = e
  BY <1>1, <1>4, <1>5 DEF Far
<1>8. Far(e) # e
  BY <1>4, <1>5
<1>9. /\ IsClient(Far(e)) <=> ~IsClient(e)
      /\ IsClient(e) => Far(e)[1] = e[2][2]
  BY <1>4, <1>5 DEF IsClient
<1> QED
  BY <1>1, <1>2, <1>3, <1>5, <1>6, <1>7, <1>8, <1>9

\* There are no other ends of a connection.
LEMMA SameConnection ==
    ASSUME NEW e \in AllEnds, NEW d \in AllEnds, d[2] = e[2]
    PROVE  /\ d = e \/ d = Far(e)
           /\ d[1] = e[1] => d = e
           /\ IsClient(d) /\ IsClient(e) => d = e
<1>1. d = <<d[1], d[2]>> /\ d[1] \in {d[2][1], d[2][2]}
  BY DEF AllEnds
<1>2. e = <<e[1], e[2]>> /\ e[1] \in {e[2][1], e[2][2]}
  BY DEF AllEnds
<1>3. d[1] = e[1] => d = e
  BY <1>1, <1>2
<1>4. d[1] # e[1] => d[1] = Peer(e[1], e[2])
  BY <1>1, <1>2 DEF Peer
<1>5. d[1] # e[1] => d = Far(e)
  BY <1>1, <1>4 DEF Far
<1>6. IsClient(d) /\ IsClient(e) => d[1] = e[1]
  BY DEF IsClient
<1> QED
  BY <1>3, <1>5, <1>6

\* The client end of each connection, and the server end.
LEMMA ClientEnd ==
    ASSUME NEW k \in Conns
    PROVE  /\ <<k[1], k>> \in AllEnds /\ IsClient(<<k[1], k>>)
           /\ <<k[2], k>> \in AllEnds /\ <<k[2], k>> = Far(<<k[1], k>>)
           /\ k[1] \in Beacons /\ k[2] \in Beacons /\ k[1] # k[2]
<1>1. k[1] \in Beacons /\ k[2] \in Beacons /\ k[2] \in Lists[k[1]]
  BY DEF Conns
<1>2. k[1] # k[2]
  BY <1>1, ListsAssumption
<1> QED
  BY <1>1, <1>2 DEF AllEnds, IsClient, Far, Peer

\* Two connections of the same two beacons: four ends, two at each, and either
\* node finds a tie when it lists both.
LEMMA BackFacts ==
    ASSUME NEW e \in AllEnds, IsClient(e), Back(e) \in AllEnds
    PROVE  /\ Back(e)[1] = e[1] /\ Back(e)[2] # e[2] /\ Back(e)[2] \in Conns
           /\ ~IsClient(Back(e)) /\ IsClient(Far(Back(e)))
           /\ Peer(e[1], e[2]) = e[2][2] /\ Peer(Back(e)[1], Back(e)[2]) = e[2][2]
           /\ Far(e)[1] = e[2][2] /\ Far(Back(e))[1] = e[2][2]
           /\ Far(Back(e))[2] = Back(e)[2]
           /\ Peer(Far(e)[1], Far(e)[2]) = e[1]
           /\ Peer(Far(e)[1], Back(e)[2]) = e[1]
           /\ e[2][2] \in Lists[e[1]] /\ e[1] \in Lists[e[2][2]]
<1> DEFINE d == Back(e)  x == e[1]  y == e[2][2]
<1>1. /\ e[2] = <<x, y>> /\ x # y /\ y \in Lists[x] /\ e = <<x, e[2]>>
  BY EndFacts DEF IsClient
<1>2. d = <<x, <<y, x>>>> /\ d[1] = x /\ d[2] = <<y, x>> /\ d[2][1] = y /\ d[2][2] = x
  BY <1>1 DEF Back
<1>3. d[2] \in Conns /\ x \in Lists[y]
  BY <1>2, EndFacts
<1>4. d[2] # e[2]
  BY <1>1, <1>2
<1>5. Far(e) = <<y, e[2]>> /\ Far(d) = <<y, d[2]>>
  BY <1>1, <1>2 DEF Far, Peer
<1> QED
  BY <1>1, <1>2, <1>3, <1>4, <1>5 DEF IsClient, Peer

-----------------------------------------------------------------------------
(* What a step of a receive thread does, to its own end and to the others. *)

\* A hello that is sent arrives, unless the far end is closed.
LEMMA SendsHello ==
    ASSUME TypeOK, NEW e \in AllEnds, SendHello(e)
    PROVE  /\ hellos' \in [AllEnds -> Nat]
           /\ recv[Far(e)] # "shut" => hellos'[Far(e)] > 0
           /\ hellos'[Far(e)] >= hellos[Far(e)]
           /\ \A d \in AllEnds : d # Far(e) => hellos'[d] = hellos[d]
<1>1. Far(e) \in AllEnds /\ hellos \in [AllEnds -> Nat] /\ hellos[Far(e)] \in Nat
  BY EndFacts DEF TypeOK
<1>2. CASE recv[Far(e)] = "shut"
  BY <1>1, <1>2 DEF SendHello
<1>3. CASE recv[Far(e)] # "shut"
  BY <1>1, <1>3 DEF SendHello
<1> QED
  BY <1>2, <1>3

\* Every step keeps the types.
LEMMA Types ==
    ASSUME TypeOK, [Next]_vars
    PROVE  TypeOK'
<1> USE DEF TypeOK
<1>1. CASE UNCHANGED vars
  BY <1>1 DEF vars
<1>2. ASSUME NEW b \in Beacons, Start(b) PROVE TypeOK'
  BY <1>2 DEF Start
<1>3. ASSUME NEW k \in Conns, ClientStep(k) PROVE TypeOK'
  <2>1. /\ <<k[1], k>> \in AllEnds /\ <<k[2], k>> \in AllEnds /\ k[1] \in Beacons
        /\ k \in Ends(k[1])
    BY ClientEnd DEF Ends
  <2>2. CASE ClientCheck(k)
    BY <2>2 DEF ClientCheck, ClientStates
  <2>3. CASE ClientConnect(k)
    BY <2>1, <2>3 DEF ClientConnect, ClientStates, RecvGoto, RecvStates
  <2>4. CASE ClientRetry(k)
    BY <2>4 DEF ClientRetry, ClientStates
  <2>5. CASE ClientList(k)
    <3>1. hellos' \in [AllEnds -> Nat]
      BY <2>1, <2>5, SendsHello DEF ClientList
    <3>2. recv' \in [AllEnds -> RecvStates] /\ client' \in [Conns -> ClientStates]
      BY <2>1, <2>5 DEF ClientList, RecvGoto, RecvStates, ClientStates
    <3>3. nb' \in [Beacons -> SUBSET Conns] /\ \A b \in Beacons : nb'[b] \subseteq Ends(b)
      BY <2>1, <2>5 DEF ClientList
    <3> QED
      BY <2>5, <3>1, <3>2, <3>3 DEF ClientList
  <2> QED
    BY <1>3, <2>2, <2>3, <2>4, <2>5 DEF ClientStep
<1>4. ASSUME NEW e \in AllEnds, RecvStep(e) PROVE TypeOK'
  <2>1. /\ e[1] \in Beacons /\ e[2] \in Conns /\ Far(e) \in AllEnds /\ e[2] \in Ends(e[1])
    BY EndFacts DEF AllEnds, Ends
  <2>2. CASE Look(e)
    <3>1. hellos[e] - 1 \in Nat
      BY <2>2 DEF Look
    <3>2. recv' \in [AllEnds -> RecvStates]
      BY <2>2 DEF Look, RecvGoto, RecvStates
    <3> QED
      BY <2>2, <3>1, <3>2 DEF Look
  <2>3. CASE Answer(e)
    <3>1. hellos' \in [AllEnds -> Nat]
      BY <2>3, SendsHello DEF Answer
    <3>2. recv' \in [AllEnds -> RecvStates]
      BY <2>3 DEF Answer, RecvGoto, RecvStates
    <3>3. nb' \in [Beacons -> SUBSET Conns] /\ \A b \in Beacons : nb'[b] \subseteq Ends(b)
      BY <2>1, <2>3 DEF Answer
    <3> QED
      BY <2>3, <3>1, <3>2, <3>3 DEF Answer
  <2>4. CASE BreakTie(e)
    BY <2>4 DEF BreakTie, RecvGoto, RecvStates
  <2>5. CASE LeaveTie(e)
    <3>1. hellos' \in [AllEnds -> Nat]
      BY <2>5, SendsHello DEF LeaveTie
    <3> QED
      BY <2>5, <3>1 DEF LeaveTie, RecvGoto, RecvStates
  <2>6. CASE NoTie(e)
    BY <2>6 DEF NoTie, RecvGoto, RecvStates
  <2>7. CASE Unlist(e)
    <3>1. nb' \in [Beacons -> SUBSET Conns] /\ \A b \in Beacons : nb'[b] \subseteq Ends(b)
      BY <2>1, <2>7 DEF Unlist
    <3> QED
      BY <2>7, <3>1 DEF Unlist, RecvGoto, RecvStates
  <2>8. CASE Close(e)
    <3>1. PICK n \in 0 .. hellos[Far(e)] :
              hellos' = [hellos EXCEPT ![Far(e)] = n, ![e] = 0]
      BY <2>8 DEF Close
    <3>2. n \in Nat
      BY <3>1, <2>1
    <3> QED
      BY <2>8, <3>1, <3>2 DEF Close, RecvGoto, RecvStates
  <2>9. CASE EndOfFile(e)
    <3>1. nb' \in [Beacons -> SUBSET Conns] /\ \A b \in Beacons : nb'[b] \subseteq Ends(b)
      BY <2>1, <2>9 DEF EndOfFile
    <3> QED
      BY <2>9, <3>1 DEF EndOfFile, RecvGoto, RecvStates
  <2> QED
    BY <1>4, <2>2, <2>3, <2>4, <2>5, <2>6, <2>7, <2>8, <2>9 DEF RecvStep
<1> QED
  BY <1>1, <1>2, <1>3, <1>4 DEF Next

\* A receive thread touches its own end, and the hellos to the far one.
Local(e) ==
    /\ client' = client
    /\ \A d \in AllEnds : d # e => recv'[d] = recv[d] /\ (In(d)' <=> In(d))
    /\ \A d \in AllEnds : d # e /\ d # Far(e) => hellos'[d] = hellos[d]

\* The same, step by step: from where to where it goes, what becomes of the
\* entry, and of the hellos to this end and to the far one.
Effect(e) ==
    LET r == recv[e]  s == recv'[e]  h == hellos[e]  g == hellos'[e]
        f == hellos'[Far(e)]  more == f >= hellos[Far(e)]
    IN  \/ r = "wait" /\ h > 0 /\ s \in {"known", "new"} /\ (In(e)' <=> In(e)) /\ more
        \/ r \in {"known", "new"} /\ s = "tie" /\ In(e)' /\ g = h /\ more
        \/ r = "tie" /\ Lower(e) /\ s = "unlist" /\ (In(e)' <=> In(e)) /\ g = h /\ more
        \/ /\ r = "tie" /\ ~Lower(e) /\ s = "wait" /\ (In(e)' <=> In(e)) /\ g = h /\ more
           /\ recv[Far(e)] # "shut" => f > 0
        \/ r = "tie" /\ ~Tie(e) /\ s = "wait" /\ (In(e)' <=> In(e)) /\ g = h /\ more
        \/ r = "unlist" /\ s = "close" /\ ~In(e)' /\ g = h /\ more
        \/ r = "close" /\ s = "shut" /\ (In(e)' <=> In(e)) /\ f <= hellos[Far(e)]
        \/ /\ r = "wait" /\ s = "shut" /\ ~In(e)' /\ g = h /\ more
           /\ recv[Far(e)] = "shut"

\* Entries of other ends are where they were.
LEMMA OthersIn ==
    ASSUME TypeOK, NEW e \in AllEnds,
           \/ UNCHANGED nb
           \/ nb' = [nb EXCEPT ![e[1]] = @ \cup {e[2]}]
           \/ nb' = [nb EXCEPT ![e[1]] = @ \ {e[2]}]
    PROVE  \A d \in AllEnds : d # e => (In(d)' <=> In(d))
<1> SUFFICES ASSUME NEW d \in AllEnds, d # e PROVE In(d)' <=> In(d)
  OBVIOUS
<1>1. e[1] \in Beacons /\ d[1] \in Beacons /\ (d[1] = e[1] => d[2] # e[2])
  BY EndFacts, SameConnection
<1> QED
  BY <1>1 DEF In, TypeOK

\* Each action of a receive thread is local, with one of these effects.
LEMMA RecvEffect ==
    ASSUME TypeOK, NEW e \in AllEnds, RecvStep(e)
    PROVE  Local(e) /\ Effect(e)
<1>1. /\ e[1] \in Beacons /\ Far(e) \in AllEnds /\ Far(e) # e
      /\ recv \in [AllEnds -> RecvStates] /\ hellos \in [AllEnds -> Nat]
      /\ hellos[e] \in Nat /\ hellos[Far(e)] \in Nat
      /\ nb \in [Beacons -> SUBSET Conns]
  BY EndFacts DEF TypeOK
<1> DEFINE others == \A d \in AllEnds : d # e => recv'[d] = recv[d]
           far == \A d \in AllEnds : d # e /\ d # Far(e) => hellos'[d] = hellos[d]
           lists == \A d \in AllEnds : d # e => (In(d)' <=> In(d))
<1>2. ASSUME NEW r, RecvGoto(e, r) PROVE recv'[e] = r /\ others
  BY <1>1, <1>2 DEF RecvGoto
<1>3. CASE Look(e)
  <2>1. recv'[e] \in {"known", "new"} /\ others
    <3>1. RecvGoto(e, IF Known(e) THEN "known" ELSE "new")
      BY <1>3 DEF Look
    <3> QED
      BY <3>1, <1>2
  <2>2. lists /\ (In(e)' <=> In(e)) /\ far /\ hellos'[Far(e)] = hellos[Far(e)]
    BY <1>1, <1>3 DEF Look, In
  <2> QED
    BY <1>1, <1>3, <2>1, <2>2 DEF Look, Local, Effect
<1>4. CASE Answer(e)
  <2>1. recv'[e] = "tie" /\ others
    BY <1>2, <1>4 DEF Answer
  <2>2. lists
    BY <1>4, OthersIn DEF Answer
  <2>3. In(e)'
    BY <1>1, <1>4 DEF Answer, In
  <2>4. far /\ hellos'[e] = hellos[e] /\ hellos'[Far(e)] >= hellos[Far(e)]
    BY <1>1, <1>4, SendsHello DEF Answer
  <2> QED
    BY <1>4, <2>1, <2>2, <2>3, <2>4 DEF Answer, Local, Effect
<1>5. CASE BreakTie(e)
  <2>1. recv'[e] = "unlist" /\ others
    BY <1>2, <1>5 DEF BreakTie
  <2> QED
    BY <1>1, <1>5, <2>1 DEF BreakTie, Local, Effect, In
<1>6. CASE LeaveTie(e)
  <2>1. recv'[e] = "wait" /\ others
    BY <1>2, <1>6 DEF LeaveTie
  <2>2. /\ far /\ hellos'[e] = hellos[e] /\ hellos'[Far(e)] >= hellos[Far(e)]
        /\ recv[Far(e)] # "shut" => hellos'[Far(e)] > 0
    BY <1>1, <1>6, SendsHello DEF LeaveTie
  <2> QED
    BY <1>6, <2>1, <2>2 DEF LeaveTie, Local, Effect, In
<1>7. CASE NoTie(e)
  <2>1. recv'[e] = "wait" /\ others
    BY <1>2, <1>7 DEF NoTie
  <2> QED
    BY <1>1, <1>7, <2>1 DEF NoTie, Local, Effect, In
<1>8. CASE Unlist(e)
  <2>1. recv'[e] = "close" /\ others
    BY <1>2, <1>8 DEF Unlist
  <2>2. lists
    BY <1>8, OthersIn DEF Unlist
  <2>3. ~In(e)'
    BY <1>1, <1>8 DEF Unlist, In
  <2> QED
    BY <1>1, <1>8, <2>1, <2>2, <2>3 DEF Unlist, Local, Effect
<1>9. CASE Close(e)
  <2>1. recv'[e] = "shut" /\ others
    BY <1>2, <1>9 DEF Close
  <2>2. far /\ hellos'[Far(e)] <= hellos[Far(e)]
    <3>1. PICK n \in 0 .. hellos[Far(e)] :
              hellos' = [hellos EXCEPT ![Far(e)] = n, ![e] = 0]
      BY <1>9 DEF Close
    <3> QED
      BY <1>1, <3>1
  <2> QED
    BY <1>9, <2>1, <2>2 DEF Close, Local, Effect, In
<1>10. CASE EndOfFile(e)
  <2>1. recv'[e] = "shut" /\ others
    BY <1>2, <1>10 DEF EndOfFile
  <2>2. lists
    BY <1>10, OthersIn DEF EndOfFile
  <2>3. ~In(e)'
    BY <1>1, <1>10 DEF EndOfFile, In
  <2> QED
    BY <1>1, <1>10, <2>1, <2>2, <2>3 DEF EndOfFile, Local, Effect
<1> QED
  BY <1>3, <1>4, <1>5, <1>6, <1>7, <1>8, <1>9, <1>10 DEF RecvStep

-----------------------------------------------------------------------------
(* What a step of a client thread does.                                    *)

\* The ends of other connections, and their client threads, are left alone.
Elsewhere(k) ==
    \A d \in AllEnds : d[2] # k =>
        /\ client'[d[2]] = client[d[2]] /\ recv'[d] = recv[d] /\ hellos'[d] = hellos[d]
        /\ In(d)' <=> In(d)

ClientEffect(e) ==
    LET k == e[2]  f == Far(e) IN
    \/ /\ client[k] \in {"check", "connect"} /\ client'[k] \in {"check", "connect", "over"}
       /\ UNCHANGED <<recv, hellos, nb>>
    \/ /\ client[k] = "connect" /\ client'[k] = "list"
       /\ recv'[f] = "wait" /\ recv'[e] = recv[e]
       /\ UNCHANGED <<hellos, nb>>
    \/ /\ client[k] = "list" /\ client'[k] = "over"
       /\ recv'[e] = "wait" /\ recv'[f] = recv[f]
       /\ recv[f] # "shut" => hellos'[f] > 0
       /\ hellos'[e] = hellos[e]
       /\ In(e)' /\ (In(f)' <=> In(f))

\* Each action of a client thread has one of these effects.
LEMMA ClientMoves ==
    ASSUME TypeOK, NEW e \in AllEnds, IsClient(e), ClientStep(e[2])
    PROVE  Elsewhere(e[2]) /\ ClientEffect(e)
<1> DEFINE k == e[2]  f == Far(e)
<1>1. /\ e = <<k[1], k>> /\ f = <<k[2], k>> /\ f \in AllEnds /\ f # e /\ f[2] = k
      /\ k \in Conns /\ e[1] \in Beacons /\ k[1] = e[1]
      /\ client \in [Conns -> ClientStates] /\ recv \in [AllEnds -> RecvStates]
      /\ nb \in [Beacons -> SUBSET Conns]
      /\ \A d \in AllEnds : d[2] \in Conns
  BY EndFacts, ClientEnd DEF TypeOK, IsClient
<1>2. CASE ClientCheck(k) \/ ClientRetry(k)
  <2>1. /\ client[k] \in {"check", "connect"} /\ client'[k] \in {"check", "connect", "over"}
        /\ \A l \in Conns : l # k => client'[l] = client[l]
    BY <1>1, <1>2 DEF ClientCheck, ClientRetry
  <2>2. UNCHANGED <<recv, hellos, nb>>
    BY <1>2 DEF ClientCheck, ClientRetry
  <2> QED
    BY <1>1, <2>1, <2>2 DEF Elsewhere, ClientEffect, In
<1>3. CASE ClientConnect(k)
  <2>1. /\ client[k] = "connect" /\ client'[k] = "list"
        /\ \A l \in Conns : l # k => client'[l] = client[l]
    BY <1>1, <1>3 DEF ClientConnect
  <2>2. recv'[f] = "wait" /\ \A d \in AllEnds : d # f => recv'[d] = recv[d]
    BY <1>1, <1>3 DEF ClientConnect, RecvGoto
  <2>3. UNCHANGED <<hellos, nb>>
    BY <1>3 DEF ClientConnect
  <2> QED
    BY <1>1, <2>1, <2>2, <2>3 DEF Elsewhere, ClientEffect, In
<1>4. CASE ClientList(k)
  <2>1. /\ client[k] = "list" /\ client'[k] = "over"
        /\ \A l \in Conns : l # k => client'[l] = client[l]
    BY <1>1, <1>4 DEF ClientList
  <2>2. recv'[e] = "wait" /\ \A d \in AllEnds : d # e => recv'[d] = recv[d]
    BY <1>1, <1>4 DEF ClientList, RecvGoto
  <2>3. SendHello(e) /\ nb' = [nb EXCEPT ![e[1]] = @ \cup {e[2]}]
    BY <1>1, <1>4 DEF ClientList
  <2>4. In(e)' /\ \A d \in AllEnds : d # e => (In(d)' <=> In(d))
    BY <1>1, <2>3, OthersIn DEF In
  <2>5. /\ recv[f] # "shut" => hellos'[f] > 0
        /\ \A d \in AllEnds : d # f => hellos'[d] = hellos[d]
    BY <2>3, SendsHello
  <2> QED
    BY <1>1, <2>1, <2>2, <2>4, <2>5 DEF Elsewhere, ClientEffect
<1> QED
  BY <1>2, <1>3, <1>4 DEF ClientStep

\* A step of the system is one of these, or leaves all ends alone.
LEMMA Steps ==
    ASSUME TypeOK, [Next]_vars
    PROVE  \/ UNCHANGED <<client, nb, recv, hellos>>
           \/ \E e \in AllEnds : IsClient(e) /\ Elsewhere(e[2]) /\ ClientEffect(e)
           \/ \E e \in AllEnds : Local(e) /\ Effect(e)
<1>1. CASE UNCHANGED vars
  BY <1>1 DEF vars
<1>2. ASSUME NEW b \in Beacons, Start(b) PROVE UNCHANGED <<client, nb, recv, hellos>>
  BY <1>2 DEF Start
<1>3. ASSUME NEW k \in Conns, ClientStep(k)
      PROVE  \E e \in AllEnds : IsClient(e) /\ Elsewhere(e[2]) /\ ClientEffect(e)
  <2> DEFINE e == <<k[1], k>>
  <2>1. e \in AllEnds /\ IsClient(e) /\ e[2] = k
    BY ClientEnd
  <2>2. Elsewhere(e[2]) /\ ClientEffect(e)
    <3> HIDE DEF e
    <3> QED
      BY <1>3, <2>1, ClientMoves
  <2> QED
    BY <2>1, <2>2
<1>4. ASSUME NEW e \in AllEnds, RecvStep(e) PROVE Local(e) /\ Effect(e)
  BY <1>4, RecvEffect
<1> QED
  BY <1>1, <1>2, <1>3, <1>4 DEF Next

-----------------------------------------------------------------------------
(* The invariant holds of each end after each step.                        *)

\* A client thread keeps what Phase and Listed say of both ends ...
LEMMA ClientKeeps ==
    ASSUME TypeOK, \A e \in AllEnds : Phase(e) /\ Listed(e),
           NEW e \in AllEnds, IsClient(e), Elsewhere(e[2]), ClientEffect(e),
           NEW d \in AllEnds
    PROVE  Phase(d)' /\ Listed(d)'
<1>1. /\ Far(d) \in AllEnds /\ Far(d)[2] = d[2] /\ Far(e) \in AllEnds /\ Far(e)[2] = e[2]
      /\ Far(Far(e)) = e /\ Far(e) # e /\ ~IsClient(Far(e))
      /\ \A i \in AllEnds : hellos[i] \in Nat
  BY EndFacts DEF TypeOK
<1>2. CASE d[2] # e[2]
  BY <1>1, <1>2 DEF Elsewhere, Phase, Listed, Far, IsClient
<1>3. CASE d = e
  BY <1>1, <1>3 DEF ClientEffect, Phase, Listed, Live, In
<1>4. CASE d = Far(e)
  BY <1>1, <1>4 DEF ClientEffect, Phase, Listed, Live, In
<1> QED
  BY <1>2, <1>3, <1>4, SameConnection

\* ... and so does a receive thread.
LEMMA RecvKeeps ==
    ASSUME TypeOK, TypeOK', \A e \in AllEnds : Phase(e) /\ Listed(e),
           NEW e \in AllEnds, Local(e), Effect(e),
           NEW d \in AllEnds
    PROVE  Phase(d)' /\ Listed(d)'
<1>1. /\ Far(d) \in AllEnds /\ Far(d)[2] = d[2] /\ Far(e) \in AllEnds /\ Far(e)[2] = e[2]
      /\ Far(Far(e)) = e /\ Far(e) # e /\ (IsClient(Far(e)) <=> ~IsClient(e))
      /\ \A i \in AllEnds : hellos[i] \in Nat /\ hellos'[i] \in Nat
  BY EndFacts DEF TypeOK
<1>2. CASE d # e /\ d # Far(e)
  <2>1. Far(d) # e /\ Far(d) # Far(e)
    BY <1>1, <1>2, EndFacts
  <2> QED
    BY <1>1, <1>2, <2>1 DEF Local, Phase, Listed, Far, IsClient
<1> DEFINE f == Far(e)
<1>3. /\ Phase(e) /\ Listed(e) /\ Phase(f) /\ Listed(f)
      /\ client' = client /\ recv'[f] = recv[f] /\ (In(f)' <=> In(f))
      /\ client[e[2]] \in {"check", "connect", "list", "over"}
  BY <1>1, EndFacts DEF Local, TypeOK, ClientStates
<1>4. CASE d = e
  <2> HIDE DEF f
  <2>1. Phase(e)'
    BY <1>1, <1>3 DEF Effect, Phase, f, IsClient
  <2>2. Listed(e)'
    BY <1>1, <1>3 DEF Effect, Listed, Phase, Live, f, IsClient
  <2> QED
    BY <1>4, <2>1, <2>2
<1>5. CASE d = f
  <2>1. Phase(f)'
    BY <1>1, <1>3 DEF Effect, Phase, IsClient
  <2>2. Listed(f)'
    BY <1>1, <1>3 DEF Effect, Listed, Live, IsClient
  <2> QED
    BY <1>5, <2>1, <2>2
<1> QED
  BY <1>2, <1>4, <1>5

\* Told, by where in the four ends of two connections the step takes place: the
\* last evidence of a tie does not go without leaving another.
LEMMA ToldKept ==
    ASSUME TypeOK, TypeOK', \A e \in AllEnds : Phase(e) /\ Listed(e) /\ Told(e),
           [Next]_vars,
           NEW e \in AllEnds
    PROVE  Told(e)'
<1> DEFINE b == Back(e)  f == Far(e)  g == Far(b)
<1> SUFFICES ASSUME Tied(e)'
             PROVE  \/ recv'[e] # "wait" \/ recv'[b] # "wait" \/ recv'[f] # "wait"
                    \/ hellos'[e] > 0 \/ hellos'[b] > 0 \/ hellos'[f] > 0
  BY DEF Told, Lower, Back, Far
<1>1. /\ IsClient(e) /\ Lower(e) /\ b \in AllEnds /\ In(e)' /\ In(b)'
      /\ recv'[e] \in Live /\ recv'[f] \in Live /\ recv'[b] \in Live /\ recv'[g] \in Live
  BY DEF Tied, IsClient, Lower, Back, Far
<1>2. /\ f \in AllEnds /\ g \in AllEnds
      /\ f[2] = e[2] /\ g[2] = b[2] /\ b[2] # e[2] /\ b[1] = e[1] /\ g[1] = f[1]
      /\ Far(f) = e /\ Far(g) = b /\ ~IsClient(f) /\ ~IsClient(b) /\ IsClient(g)
  BY <1>1, EndFacts, BackFacts
<1>3. e # b /\ e # f /\ e # g /\ b # f /\ b # g /\ f # g
  BY <1>1, <1>2
<1>4. \A i \in AllEnds : hellos[i] \in Nat /\ hellos'[i] \in Nat
  BY DEF TypeOK
<1>5. ~Lower(f) /\ Lower(b)
  BY <1>1, BackFacts, EndFacts, RankAssumption DEF Lower
<1>6. In(e) /\ In(b) => Tie(e) /\ Tie(b)
  BY <1>1, <1>2, BackFacts DEF In, Tie
<1>7. In(f) /\ In(g) => Tie(f)
  BY <1>1, <1>2, BackFacts DEF In, Tie
<1> HIDE DEF b, f, g
<1> DEFINE now == \/ recv[e] # "wait" \/ recv[b] # "wait" \/ recv[f] # "wait"
                  \/ hellos[e] > 0 \/ hellos[b] > 0 \/ hellos[f] > 0
<1>8. In(e) /\ In(b) /\ {recv[e], recv[b], recv[f], recv[g]} \subseteq Live => now
  BY <1>1, <1>2 DEF Told, Tied, b, f, g
<1> DEFINE same == /\ recv'[e] = recv[e] /\ recv'[b] = recv[b] /\ recv'[f] = recv[f]
                   /\ recv'[g] = recv[g] /\ (In(e)' <=> In(e)) /\ (In(b)' <=> In(b))
                   /\ hellos'[e] = hellos[e] /\ hellos'[b] = hellos[b]
                   /\ hellos'[f] = hellos[f]
<1>9. CASE same
  BY <1>1, <1>8, <1>9
<1>10. CASE UNCHANGED <<client, nb, recv, hellos>>
  BY <1>9, <1>10 DEF In
<1>11. ASSUME NEW c \in AllEnds, IsClient(c), Elsewhere(c[2]), ClientEffect(c)
       PROVE  \/ recv'[e] # "wait" \/ recv'[b] # "wait" \/ recv'[f] # "wait"
              \/ hellos'[e] > 0 \/ hellos'[b] > 0 \/ hellos'[f] > 0
  <2>1. CASE c[2] # e[2] /\ c[2] # b[2]
    BY <1>1, <1>2, <1>9, <1>11, <2>1 DEF Elsewhere
  <2>2. CASE c[2] = e[2]
    <3>1. c = e
      BY <1>1, <1>11, <2>2, SameConnection
    <3>2. /\ recv'[b] = recv[b] /\ recv'[g] = recv[g] /\ hellos'[b] = hellos[b]
          /\ In(b)' <=> In(b)
      BY <1>1, <1>2, <1>11, <3>1 DEF Elsewhere
    <3>3. Phase(e) /\ ClientEffect(e) /\ Far(e) = f
      BY <1>11, <3>1 DEF f
    <3> QED
      BY <1>1, <1>2, <1>9, <3>2, <3>3 DEF ClientEffect, Phase, Live, In
  <2>3. CASE c[2] = b[2]
    <3>1. c = g
      BY <1>2, <1>11, <2>3, SameConnection
    <3>2. /\ recv'[e] = recv[e] /\ recv'[f] = recv[f] /\ hellos'[e] = hellos[e]
          /\ hellos'[f] = hellos[f] /\ (In(e)' <=> In(e))
      BY <1>1, <1>2, <1>11, <3>1 DEF Elsewhere
    <3>3. Phase(g) /\ Phase(b) /\ ClientEffect(g)
      BY <1>1, <1>2, <1>11, <3>1
    <3> QED
      BY <1>1, <1>2, <1>9, <3>2, <3>3 DEF ClientEffect, Phase, Live, In
  <2> QED
    BY <2>1, <2>2, <2>3
<1>12. ASSUME NEW c \in AllEnds, Local(c), Effect(c)
       PROVE  \/ recv'[e] # "wait" \/ recv'[b] # "wait" \/ recv'[f] # "wait"
              \/ hellos'[e] > 0 \/ hellos'[b] > 0 \/ hellos'[f] > 0
  <2>1. CASE c \notin {e, b, f, g}
    <3>1. Far(c) \notin {e, b, f, g}
      <4>1. Far(e) = f /\ Far(b) = g
        BY DEF f, g
      <4> QED
        BY <1>2, <2>1, <4>1, EndFacts
    <3> QED
      BY <1>1, <1>2, <1>9, <1>12, <2>1, <3>1 DEF Local
  <2>2. CASE c = e
    <3>1. Effect(e) /\ Listed(e) /\ Phase(e)
      BY <1>12, <2>2
    <3>2. In(b)' <=> In(b)
      BY <1>1, <1>3, <1>12, <2>2 DEF Local
    <3> QED
      BY <1>1, <1>6, <3>1, <3>2 DEF Effect, Listed, Live
  <2>3. CASE c = b
    <3>1. Effect(b) /\ Listed(b) /\ Phase(b)
      BY <1>1, <1>12, <2>3
    <3>2. In(e)' <=> In(e)
      BY <1>1, <1>3, <1>12, <2>3 DEF Local
    <3> QED
      BY <1>1, <1>5, <1>6, <3>1, <3>2 DEF Effect, Listed, Live
  <2>4. CASE c = f
    <3>1. Effect(f) /\ Listed(f) /\ Listed(g) /\ Far(f) = e
      BY <1>2, <1>12, <2>4
    <3>2. recv'[g] = recv[g] /\ recv'[e] = recv[e]
      BY <1>2, <1>3, <1>12, <2>4 DEF Local
    <3> QED
      BY <1>1, <1>2, <1>5, <1>7, <3>1, <3>2 DEF Effect, Listed, Live
  <2>5. CASE c = g
    <3>1. Effect(g) /\ Far(g) = b
      BY <1>2, <1>12, <2>5
    <3>2. /\ recv'[e] = recv[e] /\ recv'[f] = recv[f] /\ recv'[b] = recv[b]
          /\ (In(e)' <=> In(e)) /\ (In(b)' <=> In(b))
          /\ hellos'[e] = hellos[e] /\ hellos'[f] = hellos[f]
      BY <1>1, <1>2, <1>3, <1>12, <2>5, <3>1 DEF Local
    <3>3. recv[g] \in Live /\ hellos'[b] >= hellos[b]
      BY <1>1, <3>1 DEF Effect, Live
    <3>4. now
      BY <1>1, <1>8, <3>2, <3>3
    <3> QED
      BY <1>1, <1>4, <3>2, <3>3, <3>4
  <2> QED
    BY <2>1, <2>2, <2>3, <2>4, <2>5
<1> QED
  BY <1>10, <1>11, <1>12, Steps

-----------------------------------------------------------------------------
(* The theorems.                                                           *)

\* The invariant that the others rest on.
THEOREM TieInvariant == Spec => []IInv
<1>1. Init => IInv
  <2> SUFFICES ASSUME Init PROVE IInv
    OBVIOUS
  <2>1. TypeOK
    BY DEF Init, TypeOK, ClientStates, RecvStates
  <2>2. ASSUME NEW e \in AllEnds PROVE Phase(e) /\ Listed(e) /\ Told(e)
    <3>1. e[1] \in Beacons /\ e[2] \in Conns /\ Far(e) \in AllEnds
      BY EndFacts
    <3>2. client[e[2]] = "check" /\ recv[e] = "none" /\ hellos[Far(e)] = 0 /\ ~In(e)
      BY <3>1 DEF Init, In
    <3> QED
      BY <3>2 DEF Phase, Listed, Told, Tied, Live
  <2> QED
    BY <2>1, <2>2 DEF IInv
<1>2. IInv /\ [Next]_vars => IInv'
  <2> SUFFICES ASSUME IInv, [Next]_vars PROVE IInv'
    OBVIOUS
  <2>1. TypeOK /\ TypeOK' /\ \A e \in AllEnds : Phase(e) /\ Listed(e) /\ Told(e)
    BY Types DEF IInv
  <2>2. ASSUME NEW d \in AllEnds PROVE Phase(d)' /\ Listed(d)'
    <3>1. CASE UNCHANGED <<client, nb, recv, hellos>>
      BY <2>1, <3>1 DEF Phase, Listed, In, Far
    <3> QED
      BY <2>1, <3>1, Steps, ClientKeeps, RecvKeeps
  <2>3. ASSUME NEW d \in AllEnds PROVE Told(d)'
    BY <2>1, ToldKept
  <2> QED
    BY <2>1, <2>2, <2>3 DEF IInv
<1> QED
  BY <1>1, <1>2, PTL DEF Spec

\* Whatever the order of hellos and closes, the tables of all beacons agree, once
\* nobody has anything to do, with the connections that are open: an end that is
\* not listed has a hello to come, or is about to see the other end closed.
THEOREM TablesSettle == Spec => []TablesAgree
<1>1. IInv => TablesAgree
  <2> SUFFICES ASSUME IInv, Quiet, NEW b \in Beacons
               PROVE  nb[b] = {k \in Ends(b) : Open(k)}
    BY DEF TablesAgree
  <2>1. nb[b] \subseteq Ends(b)
    BY DEF IInv, TypeOK
  <2>2. ASSUME NEW k \in Ends(b) PROVE k \in nb[b] <=> Open(k)
    <3> DEFINE e == <<b, k>>
    <3>1. e \in AllEnds /\ k \in Conns /\ e[2] = k /\ e[1] = b
      BY DEF Ends, AllEnds
    <3>2. Far(e) \in AllEnds /\ Far(e)[2] = k
      BY <3>1, EndFacts
    <3>3. Open(k) <=> recv[e] = "wait" /\ recv[Far(e)] = "wait"
      <4>1. e = <<k[1], k>> \/ e = <<k[2], k>>
        BY DEF Ends
      <4>2. /\ <<k[1], k>> \in AllEnds /\ <<k[2], k>> = Far(<<k[1], k>>)
            /\ Far(<<k[2], k>>) = <<k[1], k>>
        BY <3>1, ClientEnd, EndFacts
      <4> QED
        BY <4>1, <4>2 DEF Open
    <3> HIDE DEF e
    <3>4. /\ Listed(e) /\ Phase(e) /\ Phase(Far(e)) /\ client[k] = "over"
          /\ Far(Far(e)) = e /\ hellos[e] \in Nat
      BY <3>1, <3>2, EndFacts DEF IInv, Quiet, TypeOK
    <3>5. /\ \/ recv[e] \in {"none", "shut"}
             \/ recv[e] = "wait" /\ hellos[e] = 0 /\ recv[Far(e)] # "shut"
          /\ recv[Far(e)] \in {"none", "shut", "wait"}
      BY <3>1, <3>2 DEF Quiet
    <3> QED
      BY <3>1, <3>2, <3>3, <3>4, <3>5 DEF Listed, Phase, In, Live
  <2> QED
    BY <2>1, <2>2
<1> QED
  BY <1>1, TieInvariant, PTL

\* Two beacons do not stay connected twice: of two connections that both nodes
\* list, the lower node has yet to find the tie, or will be told of it.
THEOREM NoTieStays == Spec => []TieBroken
<1>1. IInv => TieBroken
  <2> SUFFICES ASSUME IInv, Quiet, NEW k \in Conns, NEW l \in Conns, Open(k), Open(l),
                      k = <<l[2], l[1]>>
               PROVE  FALSE
    BY DEF TieBroken
  <2>1. ASSUME NEW h \in Conns, NEW i \in Conns, Open(h), Open(i), i = <<h[2], h[1]>>,
               Rank[h[1]] < Rank[h[2]]
        PROVE  FALSE
    <3> DEFINE e == <<h[1], h>>
    <3>1. /\ e \in AllEnds /\ IsClient(e) /\ e[1] = h[1] /\ e[2] = h /\ Far(e) = <<h[2], h>>
          /\ Lower(e)
      BY <2>1, ClientEnd DEF Lower, Peer
    <3>2. Back(e) = <<i[2], i>> /\ Back(e) = <<h[1], i>>
      BY <2>1 DEF Back
    <3>3. Back(e) \in AllEnds /\ Far(Back(e)) = <<i[1], i>>
      <4>1. /\ <<i[1], i>> \in AllEnds /\ <<i[2], i>> \in AllEnds
            /\ <<i[2], i>> = Far(<<i[1], i>>)
        BY ClientEnd
      <4>2. Far(Far(<<i[1], i>>)) = <<i[1], i>>
        BY <4>1, EndFacts
      <4> QED
        BY <3>2, <4>1, <4>2
    <3>4. /\ recv[e] = "wait" /\ recv[Far(e)] = "wait" /\ recv[Back(e)] = "wait"
          /\ recv[Far(Back(e))] = "wait"
      BY <2>1, <3>1, <3>2, <3>3 DEF Open
    <3> HIDE DEF e
    <3>5. In(e) /\ In(Back(e))
      <4>1. /\ Listed(e) /\ Listed(Back(e)) /\ client[Back(e)[2]] = "over"
            /\ hellos[Back(e)] = 0 /\ recv[Far(Back(e))] = "wait"
        <5>1. Back(e)[2] \in Conns
          BY <3>1, <3>3, EndFacts
        <5> QED
          BY <3>1, <3>3, <3>4, <5>1 DEF IInv, Quiet
      <4> QED
        BY <3>1, <3>4, <4>1 DEF Listed, Live
    <3>6. Tied(e)
      BY <3>1, <3>3, <3>4, <3>5 DEF Tied, Live
    <3>7. hellos[e] = 0 /\ hellos[Back(e)] = 0 /\ hellos[Far(e)] = 0
      BY <3>1, <3>3, <3>4, EndFacts DEF Quiet
    <3> QED
      BY <3>1, <3>4, <3>6, <3>7 DEF IInv, Told
  <2>2. l = <<k[2], k[1]>> /\ k[1] = l[2] /\ k[2] = l[1]
    BY EndFacts, ClientEnd DEF Conns
  <2>3. Rank[k[1]] < Rank[k[2]] \/ Rank[l[1]] < Rank[l[2]]
    <3>1. k[1] \in Beacons /\ k[2] \in Beacons /\ k[1] # k[2]
      BY ClientEnd
    <3>2. Rank[k[1]] \in Nat /\ Rank[k[2]] \in Nat /\ Rank[k[1]] # Rank[k[2]]
      BY <3>1, RankAssumption
    <3> QED
      BY <2>2, <3>2
  <2> QED
    BY <2>1, <2>2, <2>3
<1> QED
  BY <1>1, TieInvariant, PTL
=============================================================================
