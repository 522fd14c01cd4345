------------------------- MODULE KeepAlive_proofs -------------------------
(***************************************************************************)
(* That a lively connection stays and a silent one is closed, for every    *)
(* timeout, jitter and delay that KeepAliveAssumption admits.              *)
(***************************************************************************)
EXTENDS KeepAlive, TLAPS

Half == keepAliveTimeout \div 2

\* What is left of the timeval and what was heard add up; what was heard last is
\* no older than the last keepalive, or than the one before while it is on its way.
IInv ==
    /\ TypeOK
    /\ left <= keepAliveTimeout - heard
    /\ ~countsDown => left = keepAliveTimeout - heard
    /\ alive => sent <= round + Half - 1
    /\ (alive /\ wire = Nothing) => heard <= sent
    /\ (alive /\ wire # Nothing) => sent = wire /\ heard <= wire + Half + Jitter
    /\ LivelyStays

\* The numbers that the rest needs of the constants.
LEMMA Constants ==
    /\ Half \in Nat /\ keepAliveTimeout \in Nat /\ Jitter \in Nat /\ Delay \in Nat
    /\ Delay < Half /\ Half + Jitter + Delay < keepAliveTimeout
  BY KeepAliveAssumption, SMT DEF Half

\* It holds when the connection begins.
LEMMA InitIInv == Init => IInv
  BY Constants, SMT DEF Init, IInv, TypeOK, LivelyStays, Nothing, Half

\* IInv is inductive.
LEMMA StepIInv == IInv /\ [Next]_vars => IInv'
<1> SUFFICES ASSUME IInv, [Next]_vars PROVE IInv'
  OBVIOUS
<1> USE DEF IInv, TypeOK, LivelyStays, Nothing
<1>1. CASE Round
  <2>1. CASE Due
    BY <1>1, <2>1, Constants, SMT DEF Round, Due, Half
  <2>2. CASE ~Due
    BY <1>1, <2>2, Constants, SMT DEF Round, Due, Half
  <2> QED
    BY <2>1, <2>2
<1>2. CASE Arrives
  BY <1>2, Constants, SMT DEF Arrives, Hears, Rest
<1>3. CASE Other
  BY <1>3, Constants, SMT DEF Other, Hears, Rest
<1>4. CASE Timeout
  <2>1. ~(alive /\ ~countsDown)
    <3>1. CASE wire = Nothing
      BY <1>4, <3>1, Constants, SMT DEF Timeout
    <3>2. CASE wire # Nothing
      BY <1>4, <3>2, Constants, SMT DEF Timeout
    <3> QED
      BY <3>1, <3>2
  <2>2. open' \in BOOLEAN
    BY <1>4 DEF Timeout
  <2> QED
    BY <1>4, <2>1, <2>2, Zenon DEF Timeout
<1>5. CASE Dies
  <2>1. alive' = FALSE /\ UNCHANGED <<countsDown, round, sent, wire, left, heard, open>>
    BY <1>5 DEF Dies
  <2> QED
    BY <2>1, Zenon
<1>6. CASE Tick
  <2>1. CASE wire = Nothing
    BY <1>6, <2>1, Constants, SMT DEF Tick
  <2>2. CASE wire # Nothing
    BY <1>6, <2>2, Constants, SMT DEF Tick
  <2> QED
    BY <2>1, <2>2
<1>7. CASE UNCHANGED vars
  BY <1>7, Constants, SMT DEF vars
<1> QED
  BY <1>1, <1>2, <1>3, <1>4, <1>5, <1>6, <1>7 DEF Next

\* So it holds always.
LEMMA AlwaysIInv == Spec => []IInv
  BY InitIInv, StepIInv, PTL DEF Spec

\* The variables have their types (TypeOK), for every timeout.
THEOREM KeepAliveType == Spec => []TypeOK
<1>1. IInv => TypeOK
  BY DEF IInv
<1> QED
  BY <1>1, AlwaysIInv, PTL

\* The receive thread never closes the connection of a peer that runs, on builds
\* where select leaves the timeval alone (LivelyStays).
THEOREM LivelyConnectionStays == Spec => []LivelyStays
<1>1. IInv => LivelyStays
  BY DEF IInv
<1> QED
  BY <1>1, AlwaysIInv, PTL

\* No connection is open on which nothing came for longer than keepAliveTimeout
\* (SilentCloses), on any build.
THEOREM SilentConnectionCloses == Spec => []SilentCloses
<1>1. IInv => SilentCloses
  BY Constants, SMT DEF IInv, TypeOK, SilentCloses
<1> QED
  BY <1>1, AlwaysIInv, PTL
=============================================================================
