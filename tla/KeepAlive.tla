----------------------------- MODULE KeepAlive -----------------------------
(***************************************************************************)
(* The keepalive of one connection, in seconds: the timer thread of the    *)
(* peer sends, the receive thread of this node closes a connection on      *)
(* which select waited in vain for keepAliveTimeout.  Its timeval is set   *)
(* before the loop and never again; whether select leaves it alone (as on  *)
(* the system the Makefile is for) or counts it down is a matter of the    *)
(* build.                                                                  *)
(***************************************************************************)
EXTENDS Integers

CONSTANTS
    keepAliveTimeout,
    Jitter,         \* how much longer than sleep(1) a round of the timer takes
    Delay           \* how long a message is on its way

\* A keepalive arrives before the next is sent, and in time.
ASSUME KeepAliveAssumption ==
    /\ keepAliveTimeout \in Nat /\ Jitter \in Nat /\ Delay \in Nat
    /\ Delay < keepAliveTimeout \div 2
    /\ keepAliveTimeout \div 2 + Jitter + Delay < keepAliveTimeout

VARIABLES
    countsDown,     \* the build: select counts the timeval down
    alive,          \* the peer runs
    round,          \* time since its timer thread slept last
    sent,           \* time since it sent the last keepalive
    wire,           \* age of the keepalive on its way, or Nothing
    left,           \* what is left of tv
    heard,          \* history: time since this node received the last message
    open            \* the connection is

vars == <<countsDown, alive, round, sent, wire, left, heard, open>>

Nothing == -1

\* The connection begins, with the timer thread of the peer anywhere in its round.
Init ==
    /\ countsDown \in BOOLEAN /\ alive = TRUE /\ open = TRUE
    /\ round \in 0 .. 1 + Jitter
    /\ sent \in round .. round + keepAliveTimeout \div 2 - 1
    /\ wire = Nothing /\ left = keepAliveTimeout /\ heard = 0

-----------------------------------------------------------------------------

\* Mutant: all of keepAliveTimeout passes before the next keepalive.
Due_Late == sent >= keepAliveTimeout

\* timer_thread: (current_time - last_keepAlive_time) >= keepAliveTimeout / 2.
Due == sent >= keepAliveTimeout \div 2

Round ==
    /\ alive /\ open /\ round >= 1
    /\ round' = 0
    /\ IF Due THEN sent' = 0 /\ wire' = 0 ELSE UNCHANGED <<sent, wire>>
    /\ UNCHANGED <<countsDown, alive, left, heard, open>>

\* The timeval that the next select gets.
Rest == IF countsDown THEN left ELSE keepAliveTimeout

Hears ==
    /\ open
    /\ left' = Rest /\ heard' = 0
    /\ UNCHANGED <<countsDown, alive, round, sent, open>>

\* The keepalive arrives; or another message of the peer does.
Arrives == wire # Nothing /\ Hears /\ wire' = Nothing

Other == alive /\ Hears /\ UNCHANGED wire

\* Mutant: the loop goes on.
Timeout_Continues ==
    /\ open /\ left = 0
    /\ left' = keepAliveTimeout
    /\ UNCHANGED <<countsDown, alive, round, sent, wire, heard, open>>

\* Mutant: the 0 of select is not looked at.
Timeout_Not == FALSE /\ UNCHANGED vars

\* select returns 0, and the receive loop ends.
Timeout ==
    /\ open /\ left = 0
    /\ open' = FALSE
    /\ UNCHANGED <<countsDown, alive, round, sent, wire, left, heard>>

\* The peer's host is gone and says nothing.
Dies ==
    /\ alive /\ alive' = FALSE
    /\ UNCHANGED <<countsDown, round, sent, wire, left, heard, open>>

\* A second passes; what is due comes first.
Tick ==
    /\ open /\ left > 0
    /\ alive => round < 1 + Jitter
    /\ wire < Delay
    /\ round' = IF alive THEN round + 1 ELSE round
    /\ sent' = IF alive THEN sent + 1 ELSE sent
    /\ wire' = IF wire = Nothing THEN Nothing ELSE wire + 1
    /\ left' = left - 1 /\ heard' = heard + 1
    /\ UNCHANGED <<countsDown, alive, open>>

Next == Round \/ Arrives \/ Other \/ Timeout \/ Dies \/ Tick

Spec == Init /\ [][Next]_vars

\* Time goes on, and the receive thread with it.
FairSpec == Spec /\ WF_vars(Tick) /\ WF_vars(Timeout) /\ WF_vars(Arrives)

-----------------------------------------------------------------------------
(* Properties.                                                             *)

\* The values of the variables.
TypeOK ==
    /\ countsDown \in BOOLEAN /\ alive \in BOOLEAN /\ open \in BOOLEAN
    /\ round \in 0 .. 1 + Jitter /\ sent \in Nat /\ heard \in Nat
    /\ wire \in {Nothing} \cup 0 .. Delay
    /\ left \in 0 .. keepAliveTimeout

\* A peer that runs keeps the connection, with nothing to say but keepalives, on
\* the builds where select leaves the timeval alone.
LivelyStays == (alive /\ ~countsDown) => open

\* A connection on which nothing came for keepAliveTimeout is closed, whatever
\* select does to the timeval.
SilentCloses == open => heard <= keepAliveTimeout

\* The connection to a host that is gone does end.
SilentLeaves == ~alive ~> ~open
=============================================================================
