----------------------------- MODULE MCRouting ------------------------------
(* Instances of Routing for TLC.                                           *)
EXTENDS Routing, TLC

CONSTANTS
    a, b, c, j,                     \* a cycle, and a joining node
    e, f, g, k,                     \* a chain, and a joining node
    qs, qf, qh, qg, qk, qj, qd, qt,     \* the requests of a and j
    us, uf, uh, ug, uk, uj, ud, ut  \* the requests of e and k

Both(pairs) == pairs \cup {<<p[2], p[1]>> : p \in pairs}

\* Two networks: only one request is made, in the one or the other.
Cycle == Both({<<a, b>>, <<b, c>>, <<c, a>>, <<j, a>>})
Chain == Both({<<e, f>>, <<f, g>>})
CycleAndChain == Cycle \cup Chain \cup Both({<<k, e>>})
Bridge == Both({<<b, c>>})

KindOf == (qs :> "status") @@ (qf :> "files") @@ (qh :> "search") @@ (qg :> "get") @@ (qk :> "check")
          @@ (qj :> "join") @@ (qd :> "delete") @@ (qt :> "store")
          @@ (us :> "status") @@ (uf :> "files") @@ (uh :> "search") @@ (ug :> "get")
          @@ (uk :> "check") @@ (uj :> "join") @@ (ud :> "delete") @@ (ut :> "store")
Kinded == [u \in Requests |-> KindOf[u]]
Origin == [u \in Requests |-> IF u = qj THEN j ELSE IF u = uj THEN k
                              ELSE IF u \in {us, uf, uh, ug, uk, ud, ut} THEN e ELSE a]
\* Two nodes have what is searched for on the cycle; one else.
Holders == [u \in Requests |-> IF u = qh THEN {b, c} ELSE {c, g}]

\* Once round the cycle, and for a search once more than that, so that the node
\* that asked floods it too; to the end of the chain and no further.
Reach == [u \in Requests |-> IF u \in {qh, qf} THEN 4 ELSE IF Origin[u] = e THEN 2 ELSE 3]
\* Round the cycle and back to a node that has seen the answer.
Reply == [n \in Nodes |-> IF n \in {a, b, c, j} THEN 5 ELSE 3]
Ask2 == [u \in Requests |-> 2]
Forgotten == [u \in Requests |-> IF u = qf THEN 0 ELSE IF u = qh THEN 1 ELSE 2]
Never == [u \in Requests |-> 0]
Reply2 == [n \in Nodes |-> 2]
=============================================================================
