--------------------------- MODULE Commands_proofs ---------------------------
(***************************************************************************)
(* The inductive invariant of Commands, for any number of receive threads, *)
(* ports and commands, and the theorems that follow from it.               *)
(***************************************************************************)
EXTENDS Commands, FiniteSetTheorems, TLAPS

-----------------------------------------------------------------------------
(* Sequences without repetitions.                                          *)

\* No element comes twice.
Distinct(s) == \A m, n \in DOMAIN s : s[m] = s[n] => m = n

\* What Tail leaves: everything but the first element.
LEMMA TailFacts ==
    ASSUME NEW S, NEW s \in Seq(S), s # <<>>
    PROVE  /\ ToSet(s) = {Head(s)} \cup ToSet(Tail(s))
           /\ Distinct(s) => Distinct(Tail(s)) /\ Head(s) \notin ToSet(Tail(s))
<1>1. /\ Len(s) \in Nat \ {0} /\ DOMAIN s = 1 .. Len(s)
      /\ Tail(s) \in Seq(S) /\ DOMAIN Tail(s) = 1 .. Len(s) - 1
      /\ \A n \in 1 .. Len(s) - 1 : Tail(s)[n] = s[n + 1]
      /\ Head(s) = s[1]
  OBVIOUS
<1>2. ToSet(s) = {Head(s)} \cup ToSet(Tail(s))
  <2>1. \A n \in DOMAIN s : n = 1 \/ (n - 1 \in DOMAIN Tail(s) /\ Tail(s)[n - 1] = s[n])
    BY <1>1
  <2>2. \A n \in DOMAIN Tail(s) : n + 1 \in DOMAIN s /\ Tail(s)[n] = s[n + 1]
    BY <1>1
  <2>3. 1 \in DOMAIN s
    BY <1>1
  <2>4. ToSet(s) \subseteq {Head(s)} \cup ToSet(Tail(s))
    BY <1>1, <2>1 DEF ToSet
  <2>5. {Head(s)} \cup ToSet(Tail(s)) \subseteq ToSet(s)
    BY <1>1, <2>2, <2>3 DEF ToSet
  <2> QED BY <2>4, <2>5
<1>3. Distinct(s) => Distinct(Tail(s)) /\ Head(s) \notin ToSet(Tail(s))
  BY <1>1 DEF Distinct, ToSet
<1> QED BY <1>2, <1>3

\* What Append adds: one element, a new one if it was not there.
LEMMA AppendFacts ==
    ASSUME NEW S, NEW s \in Seq(S), NEW e \in S
    PROVE  /\ ToSet(Append(s, e)) = ToSet(s) \cup {e}
           /\ Distinct(s) /\ e \notin ToSet(s) => Distinct(Append(s, e))
<1>1. /\ Len(s) \in Nat /\ DOMAIN s = 1 .. Len(s)
      /\ DOMAIN Append(s, e) = 1 .. Len(s) + 1
      /\ \A n \in 1 .. Len(s) : Append(s, e)[n] = s[n]
      /\ Append(s, e)[Len(s) + 1] = e
  OBVIOUS
<1>2. ToSet(Append(s, e)) = ToSet(s) \cup {e}
  BY <1>1 DEF ToSet
<1>3. Distinct(s) /\ e \notin ToSet(s) => Distinct(Append(s, e))
  BY <1>1 DEF Distinct, ToSet
<1> QED BY <1>2, <1>3

\* The empty sequence has no elements.
LEMMA EmptyFacts == ToSet(<<>>) = {} /\ Distinct(<<>>)
BY DEF ToSet, Distinct

\* Two sequences in a row have the elements of both.
LEMMA ConcatFacts ==
    ASSUME NEW S, NEW s \in Seq(S), NEW t \in Seq(S)
    PROVE  /\ s \o t \in Seq(S) /\ Len(s \o t) = Len(s) + Len(t)
           /\ ToSet(s \o t) = ToSet(s) \cup ToSet(t)
           /\ Distinct(s) /\ Distinct(t) /\ ToSet(s) \cap ToSet(t) = {} => Distinct(s \o t)
<1>1. /\ Len(s) \in Nat /\ DOMAIN s = 1 .. Len(s) /\ Len(t) \in Nat /\ DOMAIN t = 1 .. Len(t)
      /\ s \o t \in Seq(S) /\ Len(s \o t) = Len(s) + Len(t)
      /\ DOMAIN (s \o t) = 1 .. Len(s) + Len(t)
      /\ \A n \in 1 .. Len(s) + Len(t) :
            (s \o t)[n] = IF n <= Len(s) THEN s[n] ELSE t[n - Len(s)]
  OBVIOUS
<1>2. ToSet(s \o t) = ToSet(s) \cup ToSet(t)
  <2>1. \A n \in DOMAIN (s \o t) : (s \o t)[n] \in ToSet(s) \cup ToSet(t)
    BY <1>1 DEF ToSet
  <2>2. \A n \in DOMAIN s : n \in DOMAIN (s \o t) /\ (s \o t)[n] = s[n]
    BY <1>1
  <2>3. \A n \in DOMAIN t : n + Len(s) \in DOMAIN (s \o t) /\ (s \o t)[n + Len(s)] = t[n]
    BY <1>1
  <2>4. ToSet(s \o t) \subseteq ToSet(s) \cup ToSet(t)
    BY <2>1 DEF ToSet
  <2>5. ToSet(s) \subseteq ToSet(s \o t)
    BY <2>2 DEF ToSet
  <2>6. ToSet(t) \subseteq ToSet(s \o t)
    <3> SUFFICES ASSUME NEW n \in DOMAIN t PROVE t[n] \in ToSet(s \o t)
      BY DEF ToSet
    <3> QED BY <2>3 DEF ToSet
  <2> QED BY <2>4, <2>5, <2>6
<1>3. ASSUME Distinct(s), Distinct(t), ToSet(s) \cap ToSet(t) = {} PROVE Distinct(s \o t)
  <2> SUFFICES ASSUME NEW m \in DOMAIN (s \o t), NEW n \in DOMAIN (s \o t),
                      (s \o t)[m] = (s \o t)[n]
               PROVE  m = n
    BY DEF Distinct
  <2>1. CASE m <= Len(s) /\ n <= Len(s)
    BY <1>1, <1>3, <2>1 DEF Distinct
  <2>2. CASE m > Len(s) /\ n > Len(s)
    <3>1. m - Len(s) \in DOMAIN t /\ n - Len(s) \in DOMAIN t /\ t[m - Len(s)] = t[n - Len(s)]
      BY <1>1, <2>2
    <3> QED BY <1>1, <1>3, <2>2, <3>1 DEF Distinct
  <2>3. CASE m <= Len(s) /\ n > Len(s)
    <3>1. s[m] = t[n - Len(s)] /\ m \in DOMAIN s /\ n - Len(s) \in DOMAIN t
      BY <1>1, <2>3
    <3> QED BY <1>3, <3>1 DEF ToSet
  <2>4. CASE m > Len(s) /\ n <= Len(s)
    <3>1. s[n] = t[m - Len(s)] /\ n \in DOMAIN s /\ m - Len(s) \in DOMAIN t
      BY <1>1, <2>4
    <3> QED BY <1>3, <3>1 DEF ToSet
  <2> QED BY <1>1, <2>1, <2>2, <2>3, <2>4
<1> QED BY <1>1, <1>2, <1>3

\* Counting the elements of a sequence without repetitions.
LEMMA DistinctCardinality ==
    ASSUME NEW S, NEW s \in Seq(S), Distinct(s)
    PROVE  Cardinality(ToSet(s)) = Len(s)
<1>1. Len(s) \in Nat /\ DOMAIN s = 1 .. Len(s)
  OBVIOUS
<1>2. s \in Bijection(1 .. Len(s), ToSet(s))
  BY <1>1 DEF Bijection, Injection, Surjection, IsInjective, ToSet, Distinct
<1> QED BY <1>1, <1>2, FS_CountingElements DEF ExistsBijection

\* SetToSeq lists a finite set.
LEMMA SetToSeqFacts ==
    ASSUME NEW S, NEW T \in SUBSET S, IsFiniteSet(T)
    PROVE  SetToSeq(T) \in Seq(S) /\ ToSet(SetToSeq(T)) = T /\ Distinct(SetToSeq(T))
<1> DEFINE n == Cardinality(T)
           s == SetToSeq(T)
<1>1. n \in Nat /\ ExistsBijection(1 .. n, T)
  BY FS_CardinalityType
<1>2. \E f \in [1 .. n -> T] : IsInjective(f)
  BY <1>1 DEF ExistsBijection, Bijection, Injection
<1>3. s \in [1 .. n -> T] /\ IsInjective(s)
  BY <1>2 DEF SetToSeq
<1> HIDE DEF s
<1>4. s \in Seq(T) /\ Len(s) = n /\ DOMAIN s = 1 .. n /\ s \in Seq(S)
  BY <1>1, <1>3
<1>5. Distinct(s)
  BY <1>3 DEF IsInjective, Distinct
<1>6. ToSet(s) \subseteq T
  BY <1>3 DEF ToSet
<1>7. Cardinality(ToSet(s)) = Cardinality(T)
  BY <1>4, <1>5, DistinctCardinality
<1>8. ToSet(s) = T
  BY <1>6, <1>7, FS_Subset
<1> QED BY <1>4, <1>5, <1>8 DEF s

-----------------------------------------------------------------------------
(* The inductive invariant.                                                *)

Asking == kb.pc \in {"open", "create"}

\* Where an answer may be.
Live == pending \cup InHand \cup ToSet(queue) \cup Printing \cup ToSet(shown) \cup abandoned

KeyboardOK ==
    /\ kb.id <= Len(kind)
    /\ kb.pc = "print" <=> kb.item # NoAnswer
    /\ Asking \/ Searching => kb.id > 0
    /\ Asking => kb.id = Len(kind) /\ ~issent
HandOK == \A t \in RecvThreads : recv[t].pc = "idle" <=> recv[t].item = NoAnswer

\* Every answer is one to a command that was made; nobody has answered the
\* status command that is being made.
Numbered == \A a \in Live : a[1] <= Len(kind) /\ (Asking => a[1] # kb.id)

\* Only the search on the screen is not done.
DoneOK == \A i \in DOMAIN done : i <= Len(kind) /\ (~done[i] => Searching /\ i = kb.id)
QueueOK ==
    /\ ~Searching => queue = <<>>
    /\ \A a \in ToSet(queue) \cup Printing : KindOf(a) = "search"

\* An answer is in one place.
Apart ==
    /\ pending \cap (InHand \cup ToSet(queue) \cup Printing \cup ToSet(shown) \cup abandoned) = {}
    /\ InHand \cap (ToSet(queue) \cup Printing \cup ToSet(shown) \cup abandoned) = {}
    /\ Printing \cap (ToSet(queue) \cup ToSet(shown)) = {}
    /\ ToSet(queue) \cap ToSet(shown) = {}
    /\ \A t, u \in RecvThreads : recv[t].item = recv[u].item /\ recv[t].item # NoAnswer => t = u
    /\ Distinct(queue) /\ Distinct(shown)

\* The .tempMeta file of an answer that will be queued is there.
Kept ==
    \A t \in RecvThreads :
        recv[t].item # NoAnswer /\ KindOf(recv[t].item) = "search" /\ Wanted(recv[t].item)
            => recv[t].item \in temps

FileOK ==
    /\ issent \/ kb.pc = "create" => file.state = "open"
    /\ ~misplaced /\ issent =>
          /\ ToSet(file.nodes) = statusPorts /\ Distinct(file.nodes)
          /\ \A l \in file.links : {l[1], l[2]} \subseteq statusPorts
    /\ ~misplaced /\ ~issent => statusPorts = {}
    /\ ~misplaced /\ kb.pc = "create" => file.nodes = <<>> /\ file.links = {}

ControlOK == KeyboardOK /\ HandOK /\ DoneOK
AnswersOK == Numbered /\ QueueOK /\ Apart /\ Kept /\ ShownBelongs /\ TempFilesAccounted
IInv == TypeOK /\ ControlOK /\ AnswersOK /\ FileOK

-----------------------------------------------------------------------------
(* The values of the variables.                                            *)

\* The ports of a node and its neighbours that are new are a finite set of nodes.
LEMMA NewPortsFacts ==
    ASSUME TypeOK, NEW p \in Nodes
    PROVE  NewPorts(p) \subseteq Nodes /\ IsFiniteSet(NewPorts(p)) /\ Links[p] \subseteq Nodes
<1>1. NewPorts(p) \subseteq Nodes /\ Links[p] \subseteq Nodes
  BY PortAssumption DEF NewPorts
<1>2. IsFiniteSet(Nodes)
  BY PortAssumption, FS_AddElement, Zenon DEF Nodes
<1> QED BY <1>1, <1>2, FS_Subset, Zenon

\* write_to_statusFile writes ports.
LEMMA WriteLinesType ==
    ASSUME TypeOK, NEW p \in Nodes, WriteLines(p)
    PROVE  file' \in FileStates /\ statusPorts' \subseteq Nodes
<1> DEFINE lines == SetToSeq(NewPorts(p))
           links == {<<p, q>> : q \in Links[p]}
<1>1. lines \in Seq(Nodes) /\ links \subseteq Nodes \X Nodes
  BY NewPortsFacts, SetToSeqFacts
<1>2. /\ file.nodes \in Seq(Nodes) /\ file.links \subseteq Nodes \X Nodes
      /\ file.state \in {"none", "open", "closed"} /\ file \in FileStates
  BY DEF TypeOK, FileStates
<1>3. file' = [file EXCEPT !.nodes = @ \o lines, !.links = @ \cup links]
  BY DEF WriteLines
<1> HIDE DEF lines, links
<1>4. file.nodes \o lines \in Seq(Nodes)
  BY <1>1, <1>2
<1>5. file' \in FileStates
  BY <1>1, <1>2, <1>3, <1>4 DEF FileStates
<1> QED BY <1>5, NewPortsFacts DEF WriteLines, TypeOK

\* What becomes of the keyboard thread, and of a receive thread: the steps of
\* the other proofs cite these facts and never look into the records again.
KbMoved(pc, id, item) ==
    kb' \in KbStates /\ kb'.pc = pc /\ kb'.id = id /\ kb'.item = item

Pcs == {"idle", "open", "create", "show", "asleep", "print"}

\* The fields of the record of the keyboard thread.
LEMMA KbType ==
    ASSUME TypeOK
    PROVE  /\ kb \in KbStates /\ kb.pc \in Pcs
           /\ kb.id \in 0 .. MaxCommands /\ kb.item \in Answers \cup {NoAnswer}
BY DEF TypeOK, KbStates, Pcs

\* It goes to its next step.
LEMMA KbGoto ==
    ASSUME TypeOK, NEW pc \in Pcs, kb' = [kb EXCEPT !.pc = pc]
    PROVE  KbMoved(pc, kb.id, kb.item)
BY KbType DEF KbMoved, KbStates, Pcs

\* It begins a command.
LEMMA KbAsk ==
    ASSUME TypeOK, NEW pc \in Pcs, NEW id \in 0 .. MaxCommands,
           kb' = [kb EXCEPT !.pc = pc, !.id = id]
    PROVE  KbMoved(pc, id, kb.item)
BY KbType DEF KbMoved, KbStates, Pcs

\* It takes an answer, or lets it go.
LEMMA KbTake ==
    ASSUME TypeOK, NEW pc \in Pcs, NEW a \in Answers \cup {NoAnswer},
           kb' = [kb EXCEPT !.pc = pc, !.item = a]
    PROVE  KbMoved(pc, kb.id, a)
BY KbType DEF KbMoved, KbStates, Pcs

\* It goes back to the user.
LEMMA KbRest ==
    ASSUME kb' = KbIdle
    PROVE  KbMoved("idle", 0, NoAnswer)
BY PortAssumption DEF KbMoved, KbStates, KbIdle

\* It may be woken.
LEMMA KbWoken ==
    ASSUME TypeOK, kb' = Wake(kb)
    PROVE  KbMoved(IF kb.pc = "asleep" THEN "show" ELSE kb.pc, kb.id, kb.item)
<1>1. CASE kb.pc = "asleep"
  BY <1>1, KbGoto DEF Wake, Pcs
<1>2. CASE kb.pc # "asleep"
  BY <1>2, KbType DEF Wake, KbMoved
<1> QED BY <1>1, <1>2

RecvMoved(t, pc, item, read) ==
    /\ recv' \in [RecvThreads -> RecvStates]
    /\ recv'[t].pc = pc /\ recv'[t].item = item /\ recv'[t].issent = read
    /\ \A u \in RecvThreads \ {t} : recv'[u] = recv[u]

\* The fields of the record of a receive thread.
LEMMA RecvType ==
    ASSUME TypeOK, NEW t \in RecvThreads
    PROVE  /\ recv[t].pc \in {"idle", "taken"} /\ recv[t].item \in Answers \cup {NoAnswer}
           /\ recv[t].issent \in BOOLEAN
BY DEF TypeOK, RecvStates

\* It waits for the next answer.
LEMMA RecvRests ==
    ASSUME TypeOK, NEW t \in RecvThreads, RecvDone(t)
    PROVE  RecvMoved(t, "idle", NoAnswer, FALSE)
<1>1. RecvIdle \in RecvStates
  BY DEF RecvIdle, RecvStates
<1> QED BY <1>1 DEF TypeOK, RecvDone, RecvIdle, RecvMoved

\* It takes an answer.
LEMMA RecvTakes ==
    ASSUME TypeOK, NEW t \in RecvThreads, NEW a \in Answers,
           recv' = [recv EXCEPT ![t] = [pc |-> "taken", item |-> a, issent |-> issent]]
    PROVE  RecvMoved(t, "taken", a, issent)
<1>1. [pc |-> "taken", item |-> a, issent |-> issent] \in RecvStates
  BY DEF RecvStates, TypeOK
<1> QED BY <1>1 DEF TypeOK, RecvMoved

\* done_map gets one entry.
LEMMA DoneSet ==
    ASSUME TypeOK, NEW id \in Ids, NEW v \in BOOLEAN,
           done' = [i \in DOMAIN done \cup {id} |-> IF i = id THEN v ELSE done[i]]
    PROVE  /\ DOMAIN done' = DOMAIN done \cup {id} /\ DOMAIN done' \subseteq Ids
           /\ done' \in [DOMAIN done' -> BOOLEAN] /\ done'[id] = v
           /\ \A i \in DOMAIN done \ {id} : done'[i] = done[i]
BY DEF TypeOK

\* The answers to command id that may come.
LEMMA Addressed ==
    ASSUME NEW id \in Ids
    PROVE  {id} \X Ports \subseteq Answers /\ \A a \in {id} \X Ports : a[1] = id
BY DEF Answers

-----------------------------------------------------------------------------
(* What the steps do to the two records.                                   *)

\* A status command is typed.
LEMMA StatusAskEffect ==
    ASSUME TypeOK, NEW k \in Kinds, StatusAsk(k)
    PROVE  /\ kb.pc = "idle" /\ Len(kind) + 1 \in Ids /\ KbMoved("open", Len(kind) + 1, kb.item)
           /\ kind' \in Seq(Kinds) /\ Len(kind') = Len(kind) + 1
           /\ \A i \in 1 .. Len(kind) : kind'[i] = kind[i]
<1>1. /\ kb.pc = "idle" /\ Len(kind) < MaxCommands /\ kind' = Append(kind, k)
      /\ kb' = [kb EXCEPT !.pc = "open", !.id = Len(kind) + 1]
  BY Zenon DEF StatusAsk
<1>2. Len(kind) \in Nat /\ kind \in Seq(Kinds)
  BY DEF TypeOK
<1>3. Len(kind) + 1 \in Ids /\ Len(kind) + 1 \in 0 .. MaxCommands
  BY <1>1, <1>2, PortAssumption DEF Ids
<1>4. KbMoved("open", Len(kind) + 1, kb.item)
  BY <1>1, <1>3, KbAsk DEF Pcs
<1> QED BY <1>1, <1>2, <1>3, <1>4

\* A search command is typed.
LEMMA SearchAskEffect ==
    ASSUME TypeOK, SearchAsk
    PROVE  /\ kb.pc = "idle" /\ Len(kind) + 1 \in Ids /\ KbMoved("show", Len(kind) + 1, kb.item)
           /\ kind' \in Seq(Kinds) /\ Len(kind') = Len(kind) + 1
           /\ \A i \in 1 .. Len(kind) : kind'[i] = kind[i]
           /\ DOMAIN done' = DOMAIN done \cup {Len(kind) + 1} /\ DOMAIN done' \subseteq Ids
           /\ done' \in [DOMAIN done' -> BOOLEAN] /\ ~done'[Len(kind) + 1]
           /\ \A i \in DOMAIN done \ {Len(kind) + 1} : done'[i] = done[i]
           /\ pending' = pending \cup ({Len(kind) + 1} \X Ports)
<1> DEFINE id == Len(kind) + 1
<1>1. /\ kb.pc = "idle" /\ Len(kind) < MaxCommands /\ kind' = Append(kind, "search")
      /\ kb' = [kb EXCEPT !.pc = "show", !.id = id]
      /\ done' = [i \in DOMAIN done \cup {id} |-> IF i = id THEN FALSE ELSE done[i]]
      /\ pending' = pending \cup ({id} \X Ports)
  BY Zenon DEF SearchAsk
<1>2. Len(kind) \in Nat /\ kind \in Seq(Kinds) /\ "search" \in Kinds
  BY DEF TypeOK, Kinds
<1>3. id \in Ids /\ id \in 0 .. MaxCommands
  BY <1>1, <1>2, PortAssumption DEF Ids
<1>4. KbMoved("show", id, kb.item)
  BY <1>1, <1>3, KbAsk DEF Pcs
<1>5. /\ kind' \in Seq(Kinds) /\ Len(kind') = Len(kind) + 1
      /\ \A i \in 1 .. Len(kind) : kind'[i] = kind[i]
  BY <1>1, <1>2
<1> HIDE DEF id
<1>6. /\ DOMAIN done' = DOMAIN done \cup {id} /\ DOMAIN done' \subseteq Ids
      /\ done' \in [DOMAIN done' -> BOOLEAN] /\ ~done'[id]
      /\ \A i \in DOMAIN done \ {id} : done'[i] = done[i]
  BY <1>1, <1>3, DoneSet
<1> QED BY <1>1, <1>3, <1>4, <1>5, <1>6 DEF id

\* The status file is opened.
LEMMA StatusOpenEffect ==
    ASSUME TypeOK, StatusOpen
    PROVE  /\ kb.pc = "open" /\ KbMoved("create", kb.id, kb.item)
           /\ file' \in FileStates /\ file'.state = "open"
           /\ file'.nodes = <<>> /\ file'.links = {}
<1>1. /\ kb.pc = "open" /\ kb' = [kb EXCEPT !.pc = "create"]
      /\ file' = [state |-> "open", nodes |-> <<>>, links |-> {}]
  BY Zenon DEF StatusOpen
<1> QED BY <1>1, KbGoto DEF FileStates, Pcs

\* The status request goes out.
LEMMA StatusCreateEffect ==
    ASSUME TypeOK, KeyboardOK, StatusCreate
    PROVE  /\ kb.pc = "create" /\ KbMoved("idle", 0, NoAnswer) /\ kb.id \in Ids
           /\ file' \in FileStates /\ statusPorts' \subseteq Nodes
<1>1. kb.pc = "create" /\ KbMoved("idle", 0, NoAnswer)
  BY KbRest DEF StatusCreate
<1>2. kb.id \in Ids
  BY <1>1, KbType DEF KeyboardOK, Asking, Ids
<1>3. file' \in FileStates /\ statusPorts' \subseteq Nodes
  BY WriteLinesType DEF StatusCreate, TypeOK, Nodes
<1> QED BY <1>1, <1>2, <1>3

\* Nothing to show yet.
LEMMA ShowWaitEffect ==
    ASSUME TypeOK, ShowWait
    PROVE  kb.pc = "show" /\ KbMoved("asleep", kb.id, kb.item)
<1>1. kb.pc = "show" /\ kb' = [kb EXCEPT !.pc = "asleep"]
  BY Zenon DEF ShowWait
<1> QED BY <1>1, KbGoto DEF Pcs

\* An answer to show.
LEMMA ShowNextEffect ==
    ASSUME TypeOK, ShowNext
    PROVE  /\ kb.pc = "show" /\ queue # <<>> /\ Head(queue) \in Answers
           /\ KbMoved("print", kb.id, Head(queue))
           /\ queue' = Tail(queue) /\ queue' \in Seq(Answers)
<1>1. /\ kb.pc = "show" /\ queue # <<>> /\ queue' = Tail(queue)
      /\ kb' = [kb EXCEPT !.pc = "print", !.item = Head(queue)]
  BY Zenon DEF ShowNext
<1>2. queue \in Seq(Answers)
  BY DEF TypeOK
<1>3. Head(queue) \in Answers /\ queue' \in Seq(Answers)
  BY <1>1, <1>2
<1> QED BY <1>1, <1>3, KbTake DEF Pcs

\* The search is over: nothing is left to do for it.
LEMMA ShowEndEffect ==
    ASSUME TypeOK, KeyboardOK, DoneOK, ShowEnd
    PROVE  /\ kb.pc = "show" /\ KbMoved("idle", 0, NoAnswer)
           /\ DOMAIN done' \subseteq DOMAIN done \cup {kb.id} /\ DOMAIN done' \subseteq 1 .. Len(kind)
           /\ done' \in [DOMAIN done' -> BOOLEAN] /\ \A i \in DOMAIN done' : done'[i]
<1>1. kb.pc = "show" /\ kb' = KbIdle
      /\ done' = [i \in DOMAIN done \cup {kb.id} |-> IF i = kb.id THEN TRUE ELSE done[i]]
  BY Zenon DEF ShowEnd
<1>2. Len(kind) \in Nat /\ Len(kind) <= MaxCommands /\ DOMAIN done \subseteq Ids
  BY DEF TypeOK
<1>3. kb.id \in Ids /\ kb.id \in 1 .. Len(kind)
  BY <1>1, <1>2, KbType, PortAssumption DEF KeyboardOK, Searching, Ids
<1>4. DOMAIN done \subseteq 1 .. Len(kind)
  BY <1>2, PortAssumption DEF DoneOK, Ids
<1>5. /\ DOMAIN done' = DOMAIN done \cup {kb.id} /\ done' \in [DOMAIN done' -> BOOLEAN]
      /\ done'[kb.id] /\ \A i \in DOMAIN done \ {kb.id} : done'[i] = done[i]
  BY <1>1, <1>3, DoneSet
<1>6. \A i \in DOMAIN done' : done'[i]
  BY <1>5 DEF DoneOK
<1> QED BY <1>1, <1>3, <1>4, <1>5, <1>6, KbRest

\* An answer is shown.
LEMMA PrintAnswerEffect ==
    ASSUME TypeOK, KeyboardOK, PrintAnswer
    PROVE  /\ kb.pc = "print" /\ kb.item \in Answers /\ KbMoved("show", kb.id, NoAnswer)
           /\ shown' = Append(shown, kb.item)
<1>1. /\ kb.pc = "print" /\ kb' = [kb EXCEPT !.pc = "show", !.item = NoAnswer]
      /\ shown' = Append(shown, kb.item)
  BY Zenon DEF PrintAnswer
<1> QED BY <1>1, KbTake, KbType DEF Pcs, KeyboardOK

\* Receive, and the steps by which an answer leaves a receive thread.
LEMMA ReceiveEffect ==
    ASSUME TypeOK, NEW t \in RecvThreads, Receive(t)
    PROVE  \E a \in pending :
              /\ recv[t].pc = "idle" /\ RecvMoved(t, "taken", a, issent)
              /\ a \in Answers /\ pending' = pending \ {a}
              /\ temps' = IF KindOf(a) = "neighbors" THEN temps ELSE temps \cup {a}
<1>1. PICK a \in pending :
         /\ recv[t].pc = "idle" /\ pending' = pending \ {a}
         /\ recv' = [recv EXCEPT ![t] = [pc |-> "taken", item |-> a, issent |-> issent]]
         /\ temps' = IF KindOf(a) = "neighbors" THEN temps ELSE temps \cup {a}
  BY Zenon DEF Receive
<1>2. a \in Answers
  BY DEF TypeOK
<1> QED BY <1>1, <1>2, RecvTakes

-----------------------------------------------------------------------------
(* Type correctness.                                                       *)

\* The types at the start.
LEMMA TypeInit == Init => TypeOK
<1> SUFFICES ASSUME Init PROVE TypeOK
  OBVIOUS
<1>1. KbIdle \in KbStates /\ RecvIdle \in RecvStates
  BY PortAssumption DEF KbIdle, KbStates, RecvIdle, RecvStates
<1>2. file \in FileStates
  BY DEF Init, FileStates
<1>3. DOMAIN done = {} /\ done \in [DOMAIN done -> BOOLEAN]
  BY DEF Init
<1>4. kind = <<>> /\ kind \in Seq(Kinds) /\ Len(kind) <= MaxCommands
  BY PortAssumption DEF Init
<1>5. queue \in Seq(Answers) /\ shown \in Seq(Answers)
  BY DEF Init
<1>6. kb \in KbStates /\ recv \in [RecvThreads -> RecvStates]
  BY <1>1 DEF Init
<1> QED BY <1>2, <1>3, <1>4, <1>5, <1>6 DEF Init, TypeOK


\* The status command and the timer.
LEMMA StatusTypes ==
    ASSUME TypeOK, KeyboardOK,
           \/ \E k \in {"neighbors", "files"} : StatusAsk(k)
           \/ StatusOpen \/ StatusCreate \/ StatusTimeout
    PROVE  TypeOK'
<1> USE DEF search, KbMoved
<1>0. Len(kind) \in Nat
  BY DEF TypeOK
<1>1. ASSUME NEW k \in {"neighbors", "files"}, StatusAsk(k) PROVE TypeOK'
  <2>1. k \in Kinds
    BY DEF Kinds
  <2>2. kb' \in KbStates /\ kind' \in Seq(Kinds) /\ Len(kind') <= MaxCommands
    BY <1>0, <1>1, <2>1, StatusAskEffect, PortAssumption DEF Ids
  <2> QED BY <1>1, <2>2 DEF StatusAsk, TypeOK, status
<1>2. CASE StatusOpen
  BY <1>2, StatusOpenEffect DEF StatusOpen, TypeOK
<1>3. CASE StatusCreate
  <2>1. pending' \subseteq Answers
    BY <1>3, StatusCreateEffect, Addressed DEF StatusCreate, TypeOK
  <2> QED BY <1>3, <2>1, StatusCreateEffect DEF StatusCreate, TypeOK
<1>4. CASE StatusTimeout
  <2>1. file' \in FileStates
    BY <1>4 DEF StatusTimeout, TypeOK, FileStates
  <2> QED BY <1>4, <2>1 DEF StatusTimeout, TypeOK
<1> QED BY <1>1, <1>2, <1>3, <1>4

\* The search command.
LEMMA SearchTypes ==
    ASSUME TypeOK, KeyboardOK, DoneOK,
           \/ SearchAsk \/ ShowWait \/ ShowNext \/ ShowEnd \/ PrintAnswer
           \/ SearchTimeout \/ Interrupt
    PROVE  TypeOK'
<1> USE DEF KbMoved, status
<1>0. Len(kind) \in Nat /\ shown \in Seq(Answers) /\ queue \in Seq(Answers)
  BY DEF TypeOK
<1>1. CASE SearchAsk
  <2>1. Len(kind') <= MaxCommands
    BY <1>0, <1>1, SearchAskEffect, PortAssumption DEF Ids
  <2>2. pending' \subseteq Answers
    BY <1>1, SearchAskEffect, Addressed DEF TypeOK
  <2>3. queue' = <<>> /\ shown' = <<>> /\ searchExit' = FALSE
        /\ abandoned' = abandoned \cup ToSet(queue)
        /\ UNCHANGED <<recv, status, temps, crash>>
    BY <1>1, Zenon DEF SearchAsk
  <2>4. abandoned' \subseteq Answers
    BY <1>0, <2>3 DEF ToSet, TypeOK
  <2>5. queue' \in Seq(Answers) /\ shown' \in Seq(Answers)
    BY <2>3
  <2> QED BY <1>1, <2>1, <2>2, <2>3, <2>4, <2>5, SearchAskEffect DEF TypeOK
<1>2. CASE ShowWait
  BY <1>2, ShowWaitEffect DEF ShowWait, TypeOK, search
<1>3. CASE ShowNext
  BY <1>3, ShowNextEffect DEF ShowNext, TypeOK
<1>4. CASE ShowEnd
  <2>1. queue' = <<>> /\ abandoned' = abandoned \cup ToSet(queue)
        /\ UNCHANGED <<kind, pending, recv, status, searchExit, shown, temps, crash>>
    BY <1>4, Zenon DEF ShowEnd
  <2>2. abandoned' \subseteq Answers /\ queue' \in Seq(Answers)
    BY <1>0, <2>1 DEF ToSet, TypeOK
  <2>3. DOMAIN done' \subseteq Ids
    BY <1>0, <1>4, ShowEndEffect, PortAssumption DEF TypeOK, Ids
  <2> QED BY <1>4, <2>1, <2>2, <2>3, ShowEndEffect DEF TypeOK
<1>5. CASE PrintAnswer
  <2>1. shown' \in Seq(Answers)
    BY <1>0, <1>5, PrintAnswerEffect
  <2> QED BY <1>5, <2>1, PrintAnswerEffect DEF PrintAnswer, TypeOK
<1>6. CASE SearchTimeout
  <2>1. DOMAIN done' = DOMAIN done /\ done' \in [DOMAIN done' -> BOOLEAN]
    BY <1>6 DEF SearchTimeout, TypeOK
  <2>2. kb' \in KbStates
    BY <1>6, KbWoken DEF SearchTimeout
  <2> QED BY <1>6, <2>1, <2>2 DEF SearchTimeout, TypeOK
<1>7. CASE Interrupt
  <2>1. kb' \in KbStates
    BY <1>7, KbWoken DEF Interrupt
  <2> QED BY <1>7, <2>1 DEF Interrupt, TypeOK
<1> QED BY <1>1, <1>2, <1>3, <1>4, <1>5, <1>6, <1>7

\* The receive threads.
LEMMA RecvTypes ==
    ASSUME TypeOK, HandOK, NEW t \in RecvThreads, RecvStep(t)
    PROVE  TypeOK'
<1> USE DEF RecvMoved, search, status
<1>0. recv[t].pc = "taken" => recv[t].item \in Answers
  BY RecvType DEF HandOK
<1>1. CASE Receive(t)
  BY <1>1, ReceiveEffect DEF Receive, TypeOK
<1>2. CASE Write(t)
  <2>1. recv' \in [RecvThreads -> RecvStates]
    BY <1>2, RecvRests, Zenon DEF Write
  <2>2. recv[t].item[2] \in Nodes
    BY <1>0, <1>2 DEF Write, Answers, Nodes
  <2>3. file' \in FileStates /\ statusPorts' \subseteq Nodes
    BY <1>2, <2>2, WriteLinesType DEF Write, TypeOK
  <2> QED BY <1>2, <2>1, <2>3 DEF Write, TypeOK
<1>3. CASE WriteClosed(t)
  <2>1. recv' \in [RecvThreads -> RecvStates]
    BY <1>3, RecvRests DEF WriteClosed, TypeOK
  <2>2. recv[t].item[2] \in Nodes
    BY <1>0, <1>3 DEF WriteClosed, Answers, Nodes
  <2> QED BY <1>3, <2>1, <2>2, NewPortsFacts DEF WriteClosed, TypeOK
<1>4. CASE WriteLost(t)
  BY <1>4 DEF WriteLost, TypeOK
<1>5. CASE Ignore(t)
  <2>1. recv' \in [RecvThreads -> RecvStates]
    BY <1>5, RecvRests DEF Ignore
  <2> QED BY <1>5, <2>1 DEF Ignore, TypeOK
<1>6. CASE Queue(t)
  <2>1. recv' \in [RecvThreads -> RecvStates] /\ kb' \in KbStates
    BY <1>6, RecvRests, KbWoken DEF Queue, KbMoved
  <2>2. queue' \in Seq(Answers)
    BY <1>0, <1>6 DEF Queue, TypeOK
  <2> QED BY <1>6, <2>1, <2>2 DEF Queue, TypeOK
<1>7. CASE Discard(t)
  <2>1. recv' \in [RecvThreads -> RecvStates]
    BY <1>7, RecvRests DEF Discard
  <2> QED BY <1>7, <2>1 DEF Discard, TypeOK
<1> QED BY <1>1, <1>2, <1>3, <1>4, <1>5, <1>6, <1>7 DEF RecvStep

\* The types in every step.
LEMMA TypeStep ==
    ASSUME TypeOK, KeyboardOK, HandOK, DoneOK, [Next]_vars
    PROVE  TypeOK'
<1>1. CASE Cleanup
  BY <1>1 DEF Cleanup, TypeOK
<1>2. CASE UNCHANGED vars
  BY <1>2 DEF vars, status, search, TypeOK
<1> QED BY <1>1, <1>2, StatusTypes, SearchTypes, RecvTypes DEF Next, KeyboardStep

-----------------------------------------------------------------------------
(* The keyboard thread, the receive threads and search_done_map.           *)

\* KeyboardOK in every step.
LEMMA KeyboardStepOK ==
    ASSUME IInv, [Next]_vars
    PROVE  KeyboardOK'
<1> USE DEF KbMoved, Asking, Searching
<1>0. TypeOK /\ KeyboardOK /\ DoneOK /\ Len(kind) \in Nat /\ NoAnswer \notin Answers
  BY PortAssumption DEF IInv, ControlOK, TypeOK
<1>1. ASSUME NEW k \in {"neighbors", "files"}, StatusAsk(k) PROVE KeyboardOK'
  <2>1. k \in Kinds /\ ~issent /\ issent' = issent
    BY <1>1 DEF Kinds, StatusAsk, status
  <2> QED BY <1>0, <1>1, <2>1, StatusAskEffect DEF KeyboardOK
<1>2. CASE SearchAsk
  BY <1>0, <1>2, SearchAskEffect DEF KeyboardOK
<1>3. CASE StatusOpen
  BY <1>0, <1>3, StatusOpenEffect DEF KeyboardOK, StatusOpen
<1>4. CASE StatusCreate
  BY <1>0, <1>4, StatusCreateEffect DEF KeyboardOK, StatusCreate
<1>5. CASE ShowWait
  BY <1>0, <1>5, ShowWaitEffect DEF KeyboardOK, ShowWait
<1>6. CASE ShowNext
  BY <1>0, <1>6, ShowNextEffect DEF KeyboardOK, ShowNext
<1>7. CASE ShowEnd
  <2>1. UNCHANGED <<kind, status>>
    BY <1>7, Zenon DEF ShowEnd
  <2> QED BY <1>0, <1>7, <2>1, ShowEndEffect DEF KeyboardOK
<1>8. CASE PrintAnswer
  BY <1>0, <1>8, PrintAnswerEffect DEF KeyboardOK, PrintAnswer
<1>9. ASSUME kb' = Wake(kb), UNCHANGED <<kind, issent>> PROVE KeyboardOK'
  BY <1>0, <1>9, KbWoken DEF KeyboardOK
<1>10. ASSUME UNCHANGED <<kb, kind>>, issent' => issent PROVE KeyboardOK'
  BY <1>0, <1>10, Zenon DEF KeyboardOK
<1>11. CASE StatusTimeout \/ Cleanup
  BY <1>10, <1>11 DEF StatusTimeout, Cleanup
<1>12. CASE SearchTimeout \/ Interrupt
  BY <1>9, <1>12 DEF SearchTimeout, Interrupt, status
<1>13. ASSUME NEW t \in RecvThreads, RecvStep(t) PROVE KeyboardOK'
  <2>1. CASE Queue(t)
    BY <1>9, <2>1 DEF Queue, status
  <2>2. CASE ~Queue(t)
    BY <1>10, <1>13, <2>2
    DEF RecvStep, Receive, Write, WriteClosed, WriteLost, Ignore, Discard, status
  <2> QED BY <2>1, <2>2
<1>14. CASE UNCHANGED vars
  BY <1>10, <1>14 DEF vars, status
<1> QED BY <1>1, <1>2, <1>3, <1>4, <1>5, <1>6, <1>7, <1>8, <1>11, <1>12, <1>13, <1>14
    DEF Next, KeyboardStep

\* A receive thread lets its answer go.
LEMMA HandLess ==
    ASSUME IInv, NEW t \in RecvThreads, recv[t].pc = "taken", RecvDone(t)
    PROVE  /\ recv[t].item \in Answers /\ recv[t].item \in InHand
           /\ InHand' = InHand \ {recv[t].item} /\ HandOK'
           /\ \A u \in RecvThreads : recv'[u].item # NoAnswer => recv'[u].item = recv[u].item
<1>1. TypeOK /\ HandOK /\ RecvMoved(t, "idle", NoAnswer, FALSE)
  BY RecvRests DEF IInv, ControlOK
<1>2. recv[t].item \in Answers /\ recv[t].item # NoAnswer
  BY <1>1, RecvType DEF HandOK
<1>3. \A u, v \in RecvThreads : recv[u].item = recv[v].item /\ recv[u].item # NoAnswer => u = v
  BY DEF IInv, AnswersOK, Apart
<1> QED BY <1>1, <1>2, <1>3 DEF RecvMoved, InHand, HandOK

\* A receive thread gets one.
LEMMA HandMore ==
    ASSUME IInv, NEW t \in RecvThreads, recv[t].pc = "idle", NEW a \in Answers,
           RecvMoved(t, "taken", a, issent)
    PROVE  /\ InHand' = InHand \cup {a} /\ HandOK' /\ recv'[t].item = a
           /\ \A u \in RecvThreads \ {t} : recv'[u] = recv[u]
<1>1. HandOK /\ a # NoAnswer
  BY PortAssumption DEF IInv, ControlOK
<1> QED BY <1>1 DEF RecvMoved, InHand, HandOK

\* HandOK in every step.
LEMMA HandStepOK ==
    ASSUME IInv, [Next]_vars
    PROVE  HandOK'
<1>1. ASSUME UNCHANGED recv PROVE HandOK'
  BY <1>1 DEF IInv, ControlOK, HandOK
<1>2. ASSUME NEW t \in RecvThreads, RecvStep(t) PROVE HandOK'
  <2>1. CASE Receive(t)
    BY <2>1, ReceiveEffect, HandMore DEF IInv
  <2>2. ASSUME recv[t].pc = "taken", RecvDone(t) PROVE HandOK'
    BY <2>2, HandLess
  <2>3. CASE ~Receive(t)
    BY <1>1, <1>2, <2>2, <2>3, Zenon
    DEF RecvStep, Write, WriteClosed, WriteLost, Ignore, Queue, Discard
  <2> QED BY <2>1, <2>3
<1> QED BY <1>1, <1>2, Zenon DEF Next, KeyboardStep, StatusAsk, SearchAsk, StatusOpen, StatusCreate, ShowWait,
       ShowNext, ShowEnd, PrintAnswer, StatusTimeout, SearchTimeout, Interrupt, Cleanup, vars

\* DoneOK in every step: only the search on the screen is not done.
LEMMA DoneStepOK ==
    ASSUME IInv, [Next]_vars
    PROVE  DoneOK'
<1> USE DEF KbMoved, Searching
<1>0. TypeOK /\ KeyboardOK /\ DoneOK /\ Len(kind) \in Nat /\ DOMAIN done \subseteq Nat
  BY PortAssumption DEF IInv, ControlOK, TypeOK, Ids
<1>1. ASSUME NEW k \in {"neighbors", "files"}, StatusAsk(k) PROVE DoneOK'
  <2>1. k \in Kinds /\ done' = done
    BY <1>1 DEF Kinds, StatusAsk, search
  <2> QED BY <1>0, <1>1, <2>1, StatusAskEffect DEF DoneOK
<1>2. CASE SearchAsk
  BY <1>0, <1>2, SearchAskEffect DEF DoneOK
<1>3. CASE ShowEnd
  <2>1. UNCHANGED kind
    BY <1>3, Zenon DEF ShowEnd
  <2> QED BY <1>0, <1>3, <2>1, ShowEndEffect DEF DoneOK
<1>4. CASE SearchTimeout
  <2>1. DOMAIN done' = DOMAIN done /\ \A i \in DOMAIN done : ~done'[i] => ~done[i]
    BY <1>4 DEF SearchTimeout
  <2> QED BY <1>0, <1>4, <2>1, KbWoken DEF DoneOK, SearchTimeout
<1>5. CASE Cleanup
  BY <1>5 DEF Cleanup, DoneOK
<1>6. ASSUME UNCHANGED <<kind, done>>, Searching => Searching' /\ kb'.id = kb.id PROVE DoneOK'
  BY <1>0, <1>6 DEF DoneOK
<1>7. CASE StatusOpen \/ StatusCreate
  BY <1>0, <1>6, <1>7 DEF StatusOpen, StatusCreate, search
<1>8. CASE ShowWait \/ ShowNext \/ PrintAnswer
  BY <1>0, <1>6, <1>8, ShowWaitEffect, ShowNextEffect, PrintAnswerEffect
  DEF ShowWait, ShowNext, PrintAnswer, search
<1>9. ASSUME kb' = Wake(kb), UNCHANGED <<kind, done>> PROVE DoneOK'
  BY <1>0, <1>6, <1>9, KbWoken
<1>10. ASSUME UNCHANGED <<kb, kind, done>> PROVE DoneOK'
  BY <1>6, <1>10
<1>11. CASE Interrupt
  BY <1>9, <1>11 DEF Interrupt
<1>12. ASSUME NEW t \in RecvThreads, RecvStep(t) PROVE DoneOK'
  <2>1. CASE Queue(t)
    BY <1>9, <2>1 DEF Queue
  <2>2. CASE ~Queue(t)
    BY <1>10, <1>12, <2>2
    DEF RecvStep, Receive, Write, WriteClosed, WriteLost, Ignore, Discard, search
  <2> QED BY <2>1, <2>2
<1>13. CASE StatusTimeout \/ UNCHANGED vars
  BY <1>10, <1>13 DEF StatusTimeout, vars, search
<1> QED BY <1>1, <1>2, <1>3, <1>4, <1>5, <1>7, <1>8, <1>11, <1>12, <1>13 DEF Next, KeyboardStep

-----------------------------------------------------------------------------
(* The answers and their files.                                            *)

\* The types and the numbers that these steps need.
LEMMA AnswerTypes ==
    ASSUME IInv
    PROVE  /\ TypeOK /\ KeyboardOK /\ HandOK /\ DoneOK /\ AnswersOK
           /\ Len(kind) \in Nat /\ Live \subseteq Answers /\ NoAnswer \notin Answers
           /\ queue \in Seq(Answers) /\ shown \in Seq(Answers)
           /\ \A a \in Live : a[1] \in 1 .. Len(kind)
<1>1. /\ TypeOK /\ KeyboardOK /\ HandOK /\ DoneOK /\ AnswersOK /\ Numbered
      /\ queue \in Seq(Answers) /\ shown \in Seq(Answers) /\ Len(kind) \in Nat
      /\ NoAnswer \notin Answers
  BY PortAssumption DEF IInv, ControlOK, AnswersOK, TypeOK
<1>2. ToSet(queue) \subseteq Answers /\ ToSet(shown) \subseteq Answers
  BY <1>1 DEF ToSet
<1>3. InHand \subseteq Answers
  BY <1>1, RecvType DEF InHand
<1>4. Printing \subseteq Answers
  BY <1>1, KbType DEF Printing, KeyboardOK
<1>5. Live \subseteq Answers
  BY <1>1, <1>2, <1>3, <1>4 DEF Live, TypeOK
<1>6. \A a \in Answers : a[1] \in 1 .. MaxCommands
  BY DEF Answers, Ids
<1>7. \A a \in Live : a[1] \in 1 .. Len(kind)
  BY <1>1, <1>5, <1>6, PortAssumption DEF Numbered
<1> QED BY <1>1, <1>5, <1>7

\* Steps after which every answer is where it was.
LEMMA AnswersFrame ==
    ASSUME IInv, UNCHANGED <<kind, pending, recv, queue, shown, temps, abandoned>>,
           Printing' = Printing, Searching' <=> Searching, Searching => kb'.id = kb.id,
           Asking' => Asking /\ kb'.id = kb.id, \A a \in Answers : Wanted(a)' => Wanted(a)
    PROVE  AnswersOK'
<1>1. InHand' = InHand /\ Live' = Live /\ \A a \in Answers : KindOf(a)' = KindOf(a)
  BY DEF InHand, Live, KindOf
<1>2. Numbered'
  BY <1>1, AnswerTypes DEF AnswersOK, Numbered
<1>3. QueueOK'
  BY <1>1, AnswerTypes DEF AnswersOK, QueueOK, KindOf
<1>4. Apart'
  BY <1>1, AnswerTypes DEF AnswersOK, Apart
<1>5. Kept'
  BY <1>1, AnswerTypes, RecvType DEF AnswersOK, Kept
<1>6. ShownBelongs'
  BY <1>1, AnswerTypes DEF AnswersOK, ShownBelongs
<1>7. TempFilesAccounted'
  BY <1>1, AnswerTypes DEF AnswersOK, TempFilesAccounted
<1> QED BY <1>2, <1>3, <1>4, <1>5, <1>6, <1>7 DEF AnswersOK

\* Nobody wants an answer to a command that is not a search.
LEMMA WantedSearch ==
    ASSUME IInv, NEW a \in Answers, Wanted(a)
    PROVE  Searching /\ a[1] = kb.id
BY AnswerTypes DEF Wanted, DoneOK

\* The steps that AnswersFrame is for.
LEMMA FrameSteps ==
    ASSUME IInv,
           \/ StatusOpen \/ StatusTimeout \/ ShowWait \/ SearchTimeout \/ Interrupt
           \/ UNCHANGED vars
    PROVE  AnswersOK'
<1> USE DEF KbMoved, Searching, Asking, Printing
<1>0. TypeOK
  BY AnswerTypes
<1>1. ASSUME done' = done PROVE \A a \in Answers : Wanted(a)' => Wanted(a)
  BY <1>1 DEF Wanted
<1>2. CASE StatusOpen
  <2>1. UNCHANGED <<kind, pending, recv, queue, shown, temps, abandoned, done>>
    BY <1>2, Zenon DEF StatusOpen, search
  <2> QED BY <1>0, <1>1, <1>2, <2>1, StatusOpenEffect, AnswersFrame
<1>3. CASE StatusTimeout \/ UNCHANGED vars
  <2>1. UNCHANGED <<kb, kind, pending, recv, queue, shown, temps, abandoned, done>>
    BY <1>3, Zenon DEF StatusTimeout, search, vars
  <2> QED BY <1>0, <1>1, <2>1, AnswersFrame
<1>4. CASE ShowWait
  <2>1. UNCHANGED <<kind, pending, recv, queue, shown, temps, abandoned, done>>
    BY <1>4, Zenon DEF ShowWait, search
  <2> QED BY <1>0, <1>1, <1>4, <2>1, ShowWaitEffect, AnswersFrame
<1>5. CASE SearchTimeout
  <2>1. /\ UNCHANGED <<kind, pending, recv, queue, shown, temps, abandoned>>
        /\ kb' = Wake(kb)
    BY <1>5, Zenon DEF SearchTimeout
  <2>2. DOMAIN done' = DOMAIN done /\ \A i \in DOMAIN done : ~done'[i] => ~done[i]
    BY <1>0, <1>5 DEF SearchTimeout, TypeOK
  <2>3. \A a \in Answers : Wanted(a)' => Wanted(a)
    BY <2>2 DEF Wanted
  <2> QED BY <1>0, <2>1, <2>3, KbWoken, AnswersFrame
<1>6. CASE Interrupt
  <2>1. /\ UNCHANGED <<kind, pending, recv, queue, shown, temps, abandoned, done>>
        /\ kb' = Wake(kb)
    BY <1>6, Zenon DEF Interrupt
  <2> QED BY <1>0, <1>1, <2>1, KbWoken, AnswersFrame
<1> QED BY <1>2, <1>3, <1>4, <1>5, <1>6

\* A new command.  No answer is to it yet, and the kinds of the others stay.
LEMMA NewCommand ==
    ASSUME IInv, kb.pc = "idle", NEW more \in SUBSET ({Len(kind) + 1} \X Ports),
           Len(kind) + 1 \in Ids, KbMoved(kb'.pc, Len(kind) + 1, kb.item),
           Asking' \/ kb'.pc = "show", Len(kind') = Len(kind) + 1,
           \A i \in 1 .. Len(kind) : kind'[i] = kind[i],
           pending' = pending \cup more, Asking' => more = {},
           queue' = <<>>, ToSet(shown') \subseteq ToSet(shown), Distinct(shown'),
           Searching' => shown' = <<>>, UNCHANGED <<recv, temps, abandoned>>,
           \A a \in Live : Wanted(a)' => Wanted(a)
    PROVE  AnswersOK'
<1> USE DEF KbMoved, Searching, Asking
<1> USE AnswerTypes
<1>1. queue = <<>> /\ Printing = {} /\ Printing' = {} /\ InHand' = InHand
  BY DEF AnswersOK, QueueOK, Printing, InHand
<1>2. \A a \in more : a[1] = Len(kind) + 1 /\ a \in Answers
  BY Addressed
<1>3. Live' \subseteq Live \cup more /\ more \cap Live = {}
  BY <1>1, <1>2, EmptyFacts DEF Live
<1>4. \A a \in Live : KindOf(a)' = KindOf(a)
  BY DEF KindOf
<1>5. Numbered'
  BY <1>2, <1>3 DEF Numbered
<1>6. QueueOK'
  BY <1>1, EmptyFacts DEF QueueOK
<1>7. Apart'
  BY <1>1, <1>3, EmptyFacts DEF AnswersOK, Apart, Live
<1>8. Kept'
  <2> SUFFICES ASSUME NEW t \in RecvThreads, recv[t].item # NoAnswer,
                      KindOf(recv[t].item)' = "search", Wanted(recv[t].item)'
               PROVE  recv[t].item \in temps
    BY DEF Kept, KindOf, Wanted
  <2>1. recv[t].item \in Live
    BY DEF Live, InHand
  <2> QED BY <1>4, <2>1 DEF AnswersOK, Kept
<1>9. ShownBelongs'
  BY <1>1, EmptyFacts DEF ShownBelongs
<1>10. TempFilesAccounted'
  BY <1>1, EmptyFacts DEF AnswersOK, TempFilesAccounted
<1> QED BY <1>5, <1>6, <1>7, <1>8, <1>9, <1>10 DEF AnswersOK

\* A status command is typed: nobody answers it yet.
LEMMA StatusAskAnswers ==
    ASSUME IInv, NEW k \in {"neighbors", "files"}, StatusAsk(k)
    PROVE  AnswersOK'
<1>1. k \in Kinds /\ TypeOK
  BY AnswerTypes DEF Kinds
<1>2. UNCHANGED <<pending, recv, queue, shown, done, temps, abandoned>>
  BY Zenon DEF StatusAsk, search
<1>3. /\ kb.pc = "idle" /\ Len(kind) + 1 \in Ids /\ KbMoved("open", Len(kind) + 1, kb.item)
      /\ Len(kind') = Len(kind) + 1 /\ \A i \in 1 .. Len(kind) : kind'[i] = kind[i]
  BY <1>1, StatusAskEffect
<1>4. queue' = <<>> /\ Distinct(shown') /\ pending' = pending \cup {}
  BY <1>2, <1>3, AnswerTypes DEF AnswersOK, QueueOK, Apart, Searching
<1>5. Asking' /\ ~Searching' /\ kb'.pc = "open"
  BY <1>3 DEF KbMoved, Asking, Searching
<1>6. \A a \in Live : Wanted(a)' => Wanted(a)
  BY <1>2 DEF Wanted
<1> QED BY <1>2, <1>3, <1>4, <1>5, <1>6, NewCommand

\* A search command is typed: late answers to others are not for it.
LEMMA SearchAskAnswers ==
    ASSUME IInv, SearchAsk
    PROVE  AnswersOK'
<1>1. TypeOK
  BY AnswerTypes
<1>2. UNCHANGED <<recv, temps>> /\ queue' = <<>> /\ shown' = <<>>
      /\ abandoned' = abandoned \cup ToSet(queue)
  BY Zenon DEF SearchAsk
<1>3. /\ kb.pc = "idle" /\ Len(kind) + 1 \in Ids /\ KbMoved("show", Len(kind) + 1, kb.item)
      /\ Len(kind') = Len(kind) + 1 /\ \A i \in 1 .. Len(kind) : kind'[i] = kind[i]
      /\ pending' = pending \cup ({Len(kind) + 1} \X Ports)
      /\ DOMAIN done' = DOMAIN done \cup {Len(kind) + 1}
      /\ \A i \in DOMAIN done \ {Len(kind) + 1} : done'[i] = done[i]
  BY <1>1, SearchAskEffect
<1>4. queue = <<>>
  BY <1>3, AnswerTypes DEF AnswersOK, QueueOK, Searching
<1>5. abandoned' = abandoned /\ ToSet(shown') \subseteq ToSet(shown) /\ Distinct(shown')
  BY <1>2, <1>4, EmptyFacts
<1>6. ~Asking' /\ Searching' /\ kb'.pc = "show"
  BY <1>3 DEF KbMoved, Asking, Searching
<1>7. \A a \in Live : Wanted(a)' => Wanted(a)
  <2> SUFFICES ASSUME NEW a \in Live PROVE Wanted(a)' => Wanted(a)
    OBVIOUS
  <2>1. a[1] # Len(kind) + 1
    BY AnswerTypes
  <2> QED BY <1>3, <2>1 DEF Wanted
<1> QED BY <1>2, <1>3, <1>5, <1>6, <1>7, NewCommand

\* The request of a status command goes out: from now on it can be answered.
LEMMA StatusCreateAnswers ==
    ASSUME IInv, StatusCreate
    PROVE  AnswersOK'
<1> DEFINE more == {kb.id} \X Ports
<1> USE AnswerTypes
<1>1. UNCHANGED <<kind, recv, queue, shown, done, temps, abandoned>> /\ pending' = pending \cup more
  BY Zenon DEF StatusCreate, search
<1>2. kb.pc = "create" /\ KbMoved("idle", 0, NoAnswer) /\ kb.id \in Ids /\ kb.id <= Len(kind)
  BY StatusCreateEffect DEF KeyboardOK
<1>3. ~Asking' /\ ~Searching' /\ Asking /\ ~Searching /\ Printing = {} /\ Printing' = {}
      /\ InHand' = InHand
  BY <1>1, <1>2 DEF KbMoved, Asking, Searching, Printing, InHand
<1>4. \A a \in more : a[1] = kb.id /\ a \in Answers
  BY <1>2, Addressed
<1> HIDE DEF more
<1>5. more \cap Live = {} /\ Live' = Live \cup more
  BY <1>1, <1>3, <1>4 DEF Live, AnswersOK, Numbered
<1>6. Numbered'
  BY <1>1, <1>2, <1>3, <1>4, <1>5 DEF Numbered
<1>7. QueueOK' /\ ShownBelongs' /\ TempFilesAccounted'
  BY <1>1, <1>3 DEF AnswersOK, QueueOK, KindOf, ShownBelongs, TempFilesAccounted
<1>8. Apart'
  BY <1>1, <1>3, <1>5 DEF AnswersOK, Apart, Live
<1>9. Kept'
  BY <1>1 DEF AnswersOK, Kept, KindOf, Wanted
<1> QED BY <1>6, <1>7, <1>8, <1>9 DEF AnswersOK

\* An answer comes in, with its file.
LEMMA ReceiveAnswers ==
    ASSUME IInv, NEW t \in RecvThreads, Receive(t)
    PROVE  AnswersOK'
<1> USE AnswerTypes
<1>1. UNCHANGED <<kb, kind, queue, shown, done, abandoned>>
  BY Zenon DEF Receive, search
<1>2. PICK a \in pending :
         /\ recv[t].pc = "idle" /\ RecvMoved(t, "taken", a, issent)
         /\ a \in Answers /\ pending' = pending \ {a}
         /\ temps' = IF KindOf(a) = "neighbors" THEN temps ELSE temps \cup {a}
  BY ReceiveEffect
<1>3. /\ InHand' = InHand \cup {a} /\ HandOK' /\ recv'[t].item = a
      /\ \A u \in RecvThreads \ {t} : recv'[u] = recv[u]
  BY <1>2, HandMore
<1>4. Printing' = Printing /\ (Searching' <=> Searching) /\ (Asking' <=> Asking)
      /\ \A b \in Answers : KindOf(b)' = KindOf(b) /\ (Wanted(b)' <=> Wanted(b))
  BY <1>1 DEF Printing, Searching, Asking, KindOf, Wanted
<1>5. Live' = Live
  BY <1>1, <1>2, <1>3, <1>4 DEF Live
<1>6. Numbered'
  BY <1>1, <1>4, <1>5 DEF AnswersOK, Numbered
<1>7. QueueOK' /\ ShownBelongs'
  BY <1>1, <1>4 DEF AnswersOK, QueueOK, KindOf, ShownBelongs
<1>8. Apart'
  <2>1. a \notin InHand \cup ToSet(queue) \cup Printing \cup ToSet(shown) \cup abandoned
    BY <1>2 DEF AnswersOK, Apart
  <2>2. \A u \in RecvThreads : recv[u].item = a => FALSE
    BY <2>1, <1>2 DEF InHand
  <2>3. \A u, v \in RecvThreads : recv'[u].item = recv'[v].item /\ recv'[u].item # NoAnswer => u = v
    BY <1>2, <1>3, <2>2 DEF AnswersOK, Apart
  <2> QED BY <1>1, <1>2, <1>3, <1>4, <2>1, <2>3 DEF AnswersOK, Apart
<1>9. Kept'
  <2>1. \A u \in RecvThreads : recv'[u].item # NoAnswer => recv'[u].item \in Answers
    BY <1>2, <1>3, RecvType
  <2> SUFFICES ASSUME NEW u \in RecvThreads, NEW b \in Answers, b = recv'[u].item,
                      KindOf(b) = "search", Wanted(b)
               PROVE  b \in temps'
    BY <1>4, <2>1, Zenon DEF Kept
  <2>2. CASE u = t
    BY <1>2, <1>3, <2>2
  <2>3. CASE u # t
    <3>1. b \in temps
      BY <1>3, <2>3 DEF AnswersOK, Kept
    <3> QED BY <1>2, <3>1
  <2> QED BY <2>2, <2>3
<1>10. TempFilesAccounted'
  BY <1>1, <1>2, <1>3, <1>4 DEF AnswersOK, TempFilesAccounted
<1> QED BY <1>6, <1>7, <1>8, <1>9, <1>10 DEF AnswersOK

\* An answer is used up or left: its file goes, or nothing refers to it any more.
LEMMA LeaveAnswers ==
    ASSUME IInv, NEW t \in RecvThreads, recv[t].pc = "taken", RecvDone(t),
           UNCHANGED <<kb, kind, pending, queue, shown, done>>,
           \/ temps' = temps \ {recv[t].item} /\ abandoned' = abandoned
           \/ temps' = temps /\ abandoned' = abandoned \cup ({recv[t].item} \cap temps)
    PROVE  AnswersOK'
<1> DEFINE a == recv[t].item
<1> USE AnswerTypes
<1>1. /\ a \in Answers /\ a \in InHand /\ InHand' = InHand \ {a}
      /\ \A u \in RecvThreads : recv'[u].item # NoAnswer =>
             recv'[u].item = recv[u].item /\ recv'[u].item \in InHand'
  BY HandLess DEF InHand
<1> HIDE DEF a
<1>2. Printing' = Printing /\ (Searching' <=> Searching) /\ (Asking' <=> Asking)
      /\ \A b \in Answers : KindOf(b)' = KindOf(b) /\ (Wanted(b)' <=> Wanted(b))
  BY DEF Printing, Searching, Asking, KindOf, Wanted
<1>3. a \notin ToSet(queue) \cup Printing \cup ToSet(shown) \cup abandoned \cup pending
  BY <1>1 DEF AnswersOK, Apart
<1>4. /\ abandoned' \subseteq abandoned \cup {a} /\ temps \subseteq temps' \cup {a}
      /\ temps' \subseteq temps /\ (a \notin temps' \/ a \in abandoned') /\ abandoned \subseteq abandoned'
  BY DEF a
<1>5. Live' \subseteq Live
  BY <1>1, <1>2, <1>4 DEF Live
<1>6. Numbered'
  BY <1>2, <1>5 DEF AnswersOK, Numbered
<1>7. QueueOK' /\ ShownBelongs'
  BY <1>2 DEF AnswersOK, QueueOK, KindOf, ShownBelongs
<1>8. Apart'
  <2>1. \A u, v \in RecvThreads : recv'[u].item = recv'[v].item /\ recv'[u].item # NoAnswer => u = v
    BY <1>1 DEF AnswersOK, Apart
  <2> QED BY <1>1, <1>2, <1>3, <1>4, <2>1 DEF AnswersOK, Apart
<1>9. Kept'
  <2>1. \A u \in RecvThreads : recv'[u].item # NoAnswer => recv'[u].item \in Answers \ {a}
    BY <1>1, RecvType
  <2> SUFFICES ASSUME NEW u \in RecvThreads, NEW b \in Answers \ {a}, b = recv'[u].item,
                      KindOf(b) = "search", Wanted(b)
               PROVE  b \in temps'
    BY <1>2, <2>1, Zenon DEF Kept
  <2>2. b \in temps
    BY <1>1 DEF AnswersOK, Kept
  <2> QED BY <1>4, <2>2
<1>10. TempFilesAccounted'
  BY <1>1, <1>2, <1>3, <1>4 DEF AnswersOK, TempFilesAccounted
<1> QED BY <1>6, <1>7, <1>8, <1>9, <1>10 DEF AnswersOK

\* An answer to the search on the screen is queued.
LEMMA QueueAnswers ==
    ASSUME IInv, NEW t \in RecvThreads, Queue(t)
    PROVE  AnswersOK'
<1> DEFINE a == recv[t].item
<1> USE AnswerTypes
<1>1. /\ UNCHANGED <<kind, pending, shown, done, temps, abandoned>>
      /\ recv[t].pc = "taken" /\ KindOf(a) = "search" /\ Wanted(a)
      /\ queue' = Append(queue, a) /\ kb' = Wake(kb) /\ RecvDone(t)
  BY Zenon DEF Queue
<1>2. /\ a \in Answers /\ a \in InHand /\ InHand' = InHand \ {a}
      /\ \A u \in RecvThreads : recv'[u].item # NoAnswer =>
             recv'[u].item = recv[u].item /\ recv'[u].item \in InHand'
  BY <1>1, HandLess DEF InHand
<1>3. Searching /\ a[1] = kb.id
  BY <1>1, <1>2, WantedSearch
<1>4. a \in temps /\ a # NoAnswer
  BY <1>1, <1>2 DEF AnswersOK, Kept
<1> HIDE DEF a
<1>5. /\ Printing' = Printing /\ Searching' /\ ~Asking' /\ kb'.id = kb.id
      /\ \A b \in Answers : KindOf(b)' = KindOf(b) /\ (Wanted(b)' <=> Wanted(b))
  BY <1>1, <1>3, KbWoken DEF KbMoved, Printing, Searching, Asking, KindOf, Wanted
<1>6. a \notin ToSet(queue) \cup Printing \cup ToSet(shown) \cup abandoned \cup pending
  BY <1>2 DEF AnswersOK, Apart
<1>7. ToSet(queue') = ToSet(queue) \cup {a} /\ Distinct(queue')
  BY <1>1, <1>2, <1>6, AppendFacts DEF AnswersOK, Apart
<1>8. Live' = Live
  BY <1>1, <1>2, <1>5, <1>7 DEF Live
<1>9. Numbered'
  BY <1>1, <1>5, <1>8 DEF AnswersOK, Numbered
<1>10. QueueOK' /\ ShownBelongs'
  <2>1. ToSet(queue)' = ToSet(queue) \cup {a}
    BY <1>7
  <2>2. \A b \in ToSet(queue)' \cup Printing' : b \in Answers /\ KindOf(b) = "search"
    BY <1>1, <1>2, <1>5, <2>1 DEF AnswersOK, QueueOK, Live
  <2> QED BY <1>1, <1>3, <1>5, <2>1, <2>2 DEF AnswersOK, QueueOK, ShownBelongs
<1>11. Apart'
  <2>1. \A u, v \in RecvThreads : recv'[u].item = recv'[v].item /\ recv'[u].item # NoAnswer => u = v
    BY <1>2 DEF AnswersOK, Apart
  <2> QED BY <1>1, <1>2, <1>5, <1>6, <1>7, <2>1 DEF AnswersOK, Apart
<1>12. Kept'
  <2>1. \A u \in RecvThreads : recv'[u].item # NoAnswer => recv'[u].item \in Answers \ {a}
    BY <1>2, RecvType
  <2> SUFFICES ASSUME NEW u \in RecvThreads, NEW b \in Answers \ {a}, b = recv'[u].item,
                      KindOf(b) = "search", Wanted(b)
               PROVE  b \in temps'
    BY <1>5, <2>1, Zenon DEF Kept
  <2>2. b \in temps
    BY <1>2 DEF AnswersOK, Kept
  <2> QED BY <1>1, <2>2
<1>13. TempFilesAccounted'
  BY <1>1, <1>2, <1>4, <1>5, <1>7 DEF AnswersOK, TempFilesAccounted
<1> QED BY <1>9, <1>10, <1>11, <1>12, <1>13 DEF AnswersOK

\* The steps of a receive thread.
LEMMA RecvAnswers ==
    ASSUME IInv, NEW t \in RecvThreads, RecvStep(t)
    PROVE  AnswersOK'
<1>1. CASE Write(t)
  BY <1>1, LeaveAnswers DEF Write, search
<1>2. CASE WriteClosed(t)
  <2>1. /\ UNCHANGED <<kb, kind, pending, queue, shown, done, abandoned>>
        /\ recv[t].pc = "taken"
        /\ \/ UNCHANGED <<recv, temps>>
           \/ RecvDone(t) /\ temps' = temps \ {recv[t].item}
    BY <1>2, Zenon DEF WriteClosed, search
  <2>2. CASE UNCHANGED <<recv, temps>>
    BY <2>1, <2>2, AnswersFrame DEF Printing, Searching, Asking, Wanted
  <2>3. CASE RecvDone(t) /\ temps' = temps \ {recv[t].item}
    BY <2>1, <2>3, LeaveAnswers
  <2> QED BY <2>1, <2>2, <2>3
<1>3. CASE WriteLost(t)
  BY <1>3, AnswersFrame DEF WriteLost, search, Printing, Searching, Asking, Wanted
<1>4. CASE Ignore(t)
  BY <1>4, LeaveAnswers DEF Ignore, search
<1>5. CASE Discard(t)
  BY <1>5, LeaveAnswers DEF Discard, search
<1> QED BY <1>1, <1>2, <1>3, <1>4, <1>5, ReceiveAnswers, QueueAnswers DEF RecvStep

\* The first answer in the queue is taken to be printed.
LEMMA ShowNextAnswers ==
    ASSUME IInv, ShowNext
    PROVE  AnswersOK'
<1> DEFINE a == Head(queue)
<1> USE AnswerTypes
<1>1. UNCHANGED <<kind, pending, recv, done, shown, temps, abandoned>>
  BY Zenon DEF ShowNext
<1>2. /\ kb.pc = "show" /\ queue # <<>> /\ a \in Answers /\ KbMoved("print", kb.id, a)
      /\ queue' = Tail(queue)
  BY ShowNextEffect
<1>3. Distinct(queue)
  BY DEF AnswersOK, Apart
<1>4. ToSet(queue) = {a} \cup ToSet(queue') /\ Distinct(queue') /\ a \notin ToSet(queue')
  BY <1>2, <1>3, TailFacts
<1> HIDE DEF a
<1>5. /\ Printing = {} /\ Printing' = {a} /\ Searching /\ Searching' /\ ~Asking'
      /\ kb'.id = kb.id /\ InHand' = InHand
      /\ \A b \in Answers : KindOf(b)' = KindOf(b) /\ (Wanted(b)' <=> Wanted(b))
  BY <1>1, <1>2 DEF KbMoved, Printing, Searching, Asking, InHand, KindOf, Wanted
<1>6. Live' = Live
  BY <1>1, <1>4, <1>5 DEF Live
<1>7. Numbered'
  BY <1>1, <1>5, <1>6 DEF AnswersOK, Numbered
<1>8. QueueOK' /\ ShownBelongs'
  BY <1>1, <1>4, <1>5 DEF AnswersOK, QueueOK, KindOf, ShownBelongs
<1>9. Apart'
  BY <1>1, <1>4, <1>5 DEF AnswersOK, Apart
<1>10. Kept'
  BY <1>1, <1>5 DEF AnswersOK, Kept, KindOf, Wanted
<1>11. TempFilesAccounted'
  BY <1>1, <1>4, <1>5 DEF AnswersOK, TempFilesAccounted
<1> QED BY <1>7, <1>8, <1>9, <1>10, <1>11 DEF AnswersOK

\* It is printed and its file removed.
LEMMA PrintAnswers ==
    ASSUME IInv, PrintAnswer
    PROVE  AnswersOK'
<1> DEFINE a == kb.item
<1> USE AnswerTypes
<1>1. UNCHANGED <<kind, pending, recv, done, queue, abandoned>> /\ temps' = temps \ {a}
  BY Zenon DEF PrintAnswer
<1>2. /\ kb.pc = "print" /\ a \in Answers /\ KbMoved("show", kb.id, NoAnswer)
      /\ shown' = Append(shown, a)
  BY PrintAnswerEffect
<1>3. Printing = {a} /\ Printing' = {}
  BY <1>2 DEF KbMoved, Printing
<1> HIDE DEF a
<1>4. a \notin pending \cup InHand \cup ToSet(queue) \cup ToSet(shown)
  BY <1>3 DEF AnswersOK, Apart
<1>5. ToSet(shown') = ToSet(shown) \cup {a} /\ Distinct(shown')
  BY <1>2, <1>4, AppendFacts DEF AnswersOK, Apart
<1>6. /\ Searching /\ Searching' /\ ~Asking' /\ kb'.id = kb.id /\ InHand' = InHand
      /\ \A b \in Answers : KindOf(b)' = KindOf(b) /\ (Wanted(b)' <=> Wanted(b))
  BY <1>1, <1>2 DEF KbMoved, Searching, Asking, InHand, KindOf, Wanted
<1>7. Live' = Live
  BY <1>1, <1>3, <1>5, <1>6 DEF Live
<1>8. Numbered'
  BY <1>1, <1>6, <1>7 DEF AnswersOK, Numbered
<1>9. QueueOK' /\ ShownBelongs'
  BY <1>1, <1>3, <1>5, <1>6 DEF AnswersOK, QueueOK, KindOf, ShownBelongs
<1>10. Apart'
  BY <1>1, <1>3, <1>4, <1>5, <1>6 DEF AnswersOK, Apart
<1>11. Kept'
  <2>1. \A u \in RecvThreads : recv[u].item # NoAnswer => recv[u].item \in InHand
    BY DEF InHand
  <2> QED BY <1>1, <1>4, <1>6, <2>1 DEF AnswersOK, Kept, KindOf, Wanted
<1>12. TempFilesAccounted'
  BY <1>1, <1>3, <1>4, <1>5, <1>6 DEF AnswersOK, TempFilesAccounted
<1> QED BY <1>8, <1>9, <1>10, <1>11, <1>12 DEF AnswersOK

\* The search ends; what is still queued is dropped.
LEMMA ShowEndAnswers ==
    ASSUME IInv, ShowEnd
    PROVE  AnswersOK'
<1> USE AnswerTypes
<1>1. /\ UNCHANGED <<kind, pending, recv, shown, temps>> /\ queue' = <<>>
      /\ abandoned' = abandoned \cup ToSet(queue)
  BY Zenon DEF ShowEnd, status
<1>2. /\ kb.pc = "show" /\ KbMoved("idle", 0, NoAnswer)
      /\ \A i \in DOMAIN done' : done'[i]
  BY ShowEndEffect
<1>3. /\ Printing = {} /\ Printing' = {} /\ ~Searching' /\ ~Asking' /\ InHand' = InHand
      /\ \A b \in Answers : KindOf(b)' = KindOf(b) /\ ~Wanted(b)'
  BY <1>1, <1>2 DEF KbMoved, Printing, Searching, Asking, InHand, KindOf, Wanted
<1>4. ToSet(queue') = {} /\ Distinct(queue')
  BY <1>1, EmptyFacts
<1>5. Live' \subseteq Live
  BY <1>1, <1>3, <1>4 DEF Live
<1>6. Numbered'
  BY <1>1, <1>3, <1>5 DEF AnswersOK, Numbered
<1>7. QueueOK' /\ ShownBelongs'
  BY <1>1, <1>3, <1>4 DEF QueueOK, ShownBelongs
<1>8. Apart'
  BY <1>1, <1>3, <1>4 DEF AnswersOK, Apart
<1>9. Kept'
  <2>1. \A u \in RecvThreads : recv'[u].item # NoAnswer => recv'[u].item \in Answers
    BY <1>1, RecvType
  <2> QED BY <1>3, <2>1, Zenon DEF Kept
<1>10. TempFilesAccounted'
  BY <1>1, <1>3, <1>4 DEF AnswersOK, TempFilesAccounted
<1> QED BY <1>6, <1>7, <1>8, <1>9, <1>10 DEF AnswersOK

\* cleanup: the files go, and nobody wants an answer in hand any more.
LEMMA CleanupAnswers ==
    ASSUME IInv, Cleanup
    PROVE  AnswersOK'
<1> USE AnswerTypes
<1>1. /\ UNCHANGED <<kb, kind, recv, queue, shown>> /\ kb.pc = "idle"
      /\ pending' = {} /\ abandoned' = {} /\ temps' = {} /\ done' = [i \in {} |-> FALSE]
  BY Zenon DEF Cleanup
<1>2. /\ Printing = {} /\ Printing' = {} /\ ~Searching /\ ~Searching' /\ ~Asking'
      /\ InHand' = InHand /\ queue = <<>> /\ queue' = <<>>
  BY <1>1 DEF Printing, Searching, Asking, InHand, AnswersOK, QueueOK
<1>3. \A b \in Answers : ~Wanted(b)'
  BY <1>1 DEF Wanted
<1>4. Live' \subseteq Live
  BY <1>1, <1>2 DEF Live
<1>5. Numbered'
  BY <1>1, <1>2, <1>4 DEF AnswersOK, Numbered
<1>6. QueueOK' /\ ShownBelongs' /\ TempFilesAccounted'
  BY <1>1, <1>2, EmptyFacts DEF QueueOK, ShownBelongs, TempFilesAccounted
<1>7. Apart'
  BY <1>1, <1>2 DEF AnswersOK, Apart
<1>8. Kept'
  <2>1. \A u \in RecvThreads : recv'[u].item # NoAnswer => recv'[u].item \in Answers
    BY <1>1, RecvType
  <2> QED BY <1>3, <2>1, Zenon DEF Kept
<1> QED BY <1>5, <1>6, <1>7, <1>8 DEF AnswersOK

\* AnswersOK in every step.
LEMMA AnswersStep ==
    ASSUME IInv, [Next]_vars
    PROVE  AnswersOK'
BY FrameSteps, StatusAskAnswers, SearchAskAnswers, StatusCreateAnswers, RecvAnswers, ShowNextAnswers,
   PrintAnswers, ShowEndAnswers, CleanupAnswers DEF Next, KeyboardStep

-----------------------------------------------------------------------------
(* The status file.                                                        *)

\* A line for every port of statusPorts, and the ends of every link among them.
Follows(nodes, links, ports) ==
    /\ ToSet(nodes) = ports /\ Distinct(nodes)
    /\ \A l \in links : {l[1], l[2]} \subseteq ports

\* write_to_statusFile keeps it so.
LEMMA WriteLinesFollows ==
    ASSUME TypeOK, NEW p \in Nodes, WriteLines(p)
    PROVE  /\ file'.state = file.state
           /\ Follows(file.nodes, file.links, statusPorts) =>
                 Follows(file'.nodes, file'.links, statusPorts')
<1> DEFINE lines == SetToSeq(NewPorts(p))
           links == {<<p, q>> : q \in Links[p]}
<1>1. /\ lines \in Seq(Nodes) /\ links \subseteq Nodes \X Nodes
      /\ ToSet(lines) = NewPorts(p) /\ Distinct(lines)
  BY NewPortsFacts, SetToSeqFacts
<1>2. /\ file.nodes \in Seq(Nodes) /\ file.links \subseteq Nodes \X Nodes /\ file \in FileStates
  BY DEF TypeOK, FileStates
<1>3. /\ file' = [file EXCEPT !.nodes = @ \o lines, !.links = @ \cup links]
      /\ statusPorts' = statusPorts \cup NewPorts(p)
  BY DEF WriteLines
<1>4. statusPorts \cap NewPorts(p) = {} /\ {p} \cup Links[p] \subseteq statusPorts'
  BY <1>3 DEF NewPorts
<1>5. \A l \in links : {l[1], l[2]} \subseteq statusPorts'
  BY <1>4
<1> HIDE DEF lines, links
<1>6. /\ file'.state = file.state /\ file'.nodes = file.nodes \o lines
      /\ file'.links = file.links \cup links
  BY <1>2, <1>3 DEF FileStates
<1>7. ASSUME Follows(file.nodes, file.links, statusPorts)
      PROVE  Follows(file'.nodes, file'.links, statusPorts')
  <2>1. ToSet(file'.nodes) = statusPorts' /\ Distinct(file'.nodes)
    BY <1>1, <1>2, <1>3, <1>4, <1>6, <1>7, ConcatFacts DEF Follows
  <2>2. \A l \in file'.links : {l[1], l[2]} \subseteq statusPorts'
    BY <1>3, <1>5, <1>6, <1>7 DEF Follows
  <2> QED BY <2>1, <2>2 DEF Follows
<1> QED BY <1>6, <1>7

\* FileOK in every step.
LEMMA FileStep ==
    ASSUME IInv, [Next]_vars
    PROVE  FileOK'
<1> USE DEF KbMoved, Asking
<1>0. TypeOK /\ KeyboardOK /\ DoneOK /\ FileOK
  BY DEF IInv, ControlOK
<1>1. ASSUME UNCHANGED status, kb'.pc = "create" => kb.pc = "create" PROVE FileOK'
  BY <1>0, <1>1 DEF FileOK, status
<1>2. CASE StatusOpen
  <2>1. UNCHANGED <<issent, statusPorts, misplaced>>
    BY <1>2 DEF StatusOpen
  <2> QED BY <1>0, <1>2, <2>1, StatusOpenEffect DEF FileOK, KeyboardOK
<1>3. CASE StatusCreate
  <2>1. /\ kb.pc = "create" /\ kb'.pc = "idle" /\ issent' = TRUE /\ UNCHANGED misplaced
        /\ WriteLines(Me) \/ UNCHANGED <<file, statusPorts>>
    BY <1>0, <1>3, StatusCreateEffect DEF StatusCreate
  <2>2. /\ file.state = "open" /\ ~issent
        /\ ~misplaced => Follows(file.nodes, file.links, statusPorts)
    BY <1>0, <2>1, EmptyFacts DEF FileOK, KeyboardOK, Follows
  <2>3. /\ file'.state = "open"
        /\ ~misplaced => Follows(file'.nodes, file'.links, statusPorts')
    BY <1>0, <2>1, <2>2, WriteLinesFollows DEF Nodes
  <2> QED BY <2>1, <2>3 DEF FileOK, Follows
<1>4. CASE StatusTimeout \/ Cleanup
  <2>1. issent' = FALSE /\ statusPorts' = {} /\ kb.pc # "create" /\ kb' = kb
    BY <1>0, <1>4 DEF StatusTimeout, Cleanup, KeyboardOK
  <2> QED BY <2>1 DEF FileOK
<1>5. ASSUME NEW t \in RecvThreads, RecvStep(t) PROVE FileOK'
  <2>1. CASE Write(t)
    <3>1. /\ file.state = "open" /\ misplaced' = (misplaced \/ ~issent) /\ UNCHANGED <<kb, issent>>
          /\ WriteLines(recv[t].item[2]) \/ UNCHANGED <<file, statusPorts>>
      BY <2>1, Zenon DEF Write
    <3>2. recv[t].item[2] \in Nodes
      <4>1. recv[t].pc = "taken" /\ RecvDone(t)
        BY <2>1, Zenon DEF Write
      <4> QED BY <4>1, HandLess DEF Answers, Nodes
    <3>3. file'.state = "open"
      BY <1>0, <3>1, <3>2, WriteLinesFollows
    <3>4. kb.pc = "create" => misplaced'
      BY <1>0, <3>1 DEF KeyboardOK
    <3>5. CASE misplaced'
      BY <3>3, <3>5 DEF FileOK
    <3>6. CASE ~misplaced'
      <4>1. ~misplaced /\ issent /\ issent' = issent /\ kb'.pc # "create"
        BY <3>1, <3>4, <3>6
      <4>2. Follows(file.nodes, file.links, statusPorts)
        BY <1>0, <4>1 DEF FileOK, Follows
      <4>3. Follows(file'.nodes, file'.links, statusPorts')
        BY <1>0, <3>1, <3>2, <4>2, WriteLinesFollows
      <4> QED BY <3>3, <4>1, <4>3 DEF FileOK, Follows
    <3> QED BY <3>5, <3>6
  <2>2. CASE WriteClosed(t)
    <3>1. /\ file.state = "closed" /\ UNCHANGED <<kb, issent, file>>
          /\ misplaced' = TRUE \/ UNCHANGED <<statusPorts, misplaced>>
      BY <2>2, Zenon DEF WriteClosed
    <3> QED BY <1>0, <3>1 DEF FileOK
  <2>3. CASE Queue(t)
    <3>1. UNCHANGED status /\ kb' = Wake(kb)
      BY <2>3, Zenon DEF Queue
    <3> QED BY <1>0, <1>1, <3>1, KbWoken
  <2>4. CASE Receive(t) \/ WriteLost(t) \/ Ignore(t) \/ Discard(t)
    <3>1. UNCHANGED <<kb, status>>
      BY <2>4, Zenon DEF Receive, WriteLost, Ignore, Discard
    <3> QED BY <1>1, <3>1
  <2> QED BY <1>5, <2>1, <2>2, <2>3, <2>4 DEF RecvStep
<1>6. CASE SearchTimeout \/ Interrupt
  <2>1. UNCHANGED status /\ kb' = Wake(kb)
    BY <1>6, Zenon DEF SearchTimeout, Interrupt
  <2> QED BY <1>0, <1>1, <2>1, KbWoken
<1>7. ASSUME NEW k \in {"neighbors", "files"}, StatusAsk(k) PROVE FileOK'
  <2>1. k \in Kinds /\ UNCHANGED status
    BY <1>7 DEF Kinds, StatusAsk
  <2> QED BY <1>0, <1>1, <1>7, <2>1, StatusAskEffect
<1>8. CASE SearchAsk
  <2>1. UNCHANGED status
    BY <1>8, Zenon DEF SearchAsk
  <2> QED BY <1>0, <1>1, <1>8, <2>1, SearchAskEffect
<1>9. CASE ShowWait \/ ShowNext \/ ShowEnd \/ PrintAnswer
  <2>1. UNCHANGED status
    BY <1>9, Zenon DEF ShowWait, ShowNext, ShowEnd, PrintAnswer
  <2> QED BY <1>0, <1>1, <1>9, <2>1, ShowWaitEffect, ShowNextEffect, ShowEndEffect, PrintAnswerEffect
<1>10. CASE UNCHANGED vars
  BY <1>1, <1>10 DEF vars
<1> QED BY <1>2, <1>3, <1>4, <1>5, <1>6, <1>7, <1>8, <1>9, <1>10 DEF Next, KeyboardStep

-----------------------------------------------------------------------------
(* The invariant and what follows from it.                                 *)

\* The invariant at the start.
LEMMA InitIInv == Init => IInv
<1> SUFFICES ASSUME Init PROVE IInv
  OBVIOUS
<1> USE DEF Searching, Asking
<1>1. TypeOK /\ NoAnswer \notin Answers
  BY TypeInit, PortAssumption
<1>2. /\ kb.pc = "idle" /\ kb.id = 0 /\ kb.item = NoAnswer /\ kind = <<>> /\ pending = {}
      /\ recv = [t \in RecvThreads |-> RecvIdle] /\ temps = {} /\ abandoned = {}
      /\ issent = FALSE /\ file.state = "none" /\ statusPorts = {}
      /\ DOMAIN done = {} /\ queue = <<>> /\ shown = <<>>
  BY DEF Init, KbIdle
<1>3. \A t \in RecvThreads : recv[t].pc = "idle" /\ recv[t].item = NoAnswer
  BY <1>2 DEF RecvIdle
<1>4. InHand = {} /\ Printing = {} /\ Live = {}
  BY <1>2, <1>3, EmptyFacts DEF InHand, Printing, Live
<1>5. ControlOK
  BY <1>2, <1>3 DEF ControlOK, KeyboardOK, HandOK, DoneOK
<1>6. Numbered /\ QueueOK /\ Kept /\ ShownBelongs /\ TempFilesAccounted
  BY <1>2, <1>3, <1>4, EmptyFacts DEF Numbered, QueueOK, Kept, ShownBelongs, TempFilesAccounted
<1>7. Apart
  BY <1>2, <1>3, <1>4, EmptyFacts DEF Apart
<1>8. FileOK
  BY <1>2 DEF FileOK
<1> QED BY <1>1, <1>5, <1>6, <1>7, <1>8 DEF IInv, AnswersOK

\* IInv is an invariant.
THEOREM CommandsInvariance == Spec => []IInv
<1>1. IInv /\ [Next]_vars => IInv'
  <2> SUFFICES ASSUME IInv, [Next]_vars PROVE IInv'
    OBVIOUS
  <2>1. TypeOK'
    BY TypeStep DEF IInv, ControlOK
  <2>2. ControlOK'
    BY KeyboardStepOK, HandStepOK, DoneStepOK DEF ControlOK
  <2> QED BY <2>1, <2>2, AnswersStep, FileStep DEF IInv
<1> QED BY <1>1, InitIInv, PTL DEF Spec

\* The variables keep their types (TypeOK).
THEOREM CommandsType == Spec => []TypeOK
<1>1. IInv => TypeOK
  BY DEF IInv
<1> QED BY <1>1, CommandsInvariance, PTL

\* What is shown during a search belongs to that search (ShownBelongs): answers
\* to an earlier one are discarded, however late they come.
THEOREM AnswersBelong == Spec => []ShownBelongs
<1>1. IInv => ShownBelongs
  BY DEF IInv, AnswersOK
<1> QED BY <1>1, CommandsInvariance, PTL

\* No answer is shown or queued twice (ShownOnce).
THEOREM AnswersOnce == Spec => []ShownOnce
<1>1. IInv => ShownOnce
  <2> SUFFICES ASSUME IInv, Searching
      PROVE LET all == shown \o (IF kb.pc = "print" THEN <<kb.item>> ELSE <<>>) \o queue
            IN  Cardinality(ToSet(all)) = Len(all)
    BY DEF ShownOnce
  <2> DEFINE mid == IF kb.pc = "print" THEN <<kb.item>> ELSE <<>>
             front == shown \o mid
             all == front \o queue
  <2>1. /\ shown \in Seq(Answers) /\ queue \in Seq(Answers) /\ Apart
        /\ TypeOK /\ KeyboardOK
    BY AnswerTypes DEF AnswersOK
  <2>2. mid \in Seq(Answers) /\ ToSet(mid) = Printing /\ Distinct(mid)
    BY <2>1, KbType DEF KeyboardOK, Printing, ToSet, Distinct
  <2> HIDE DEF mid
  <2>3. front \in Seq(Answers) /\ ToSet(front) = ToSet(shown) \cup Printing /\ Distinct(front)
    BY <2>1, <2>2, ConcatFacts DEF Apart
  <2> HIDE DEF front
  <2>4. all \in Seq(Answers) /\ Distinct(all)
    BY <2>1, <2>3, ConcatFacts DEF Apart
  <2> HIDE DEF all
  <2>5. Cardinality(ToSet(all)) = Len(all)
    BY <2>4, DistinctCardinality
  <2> QED BY <2>5 DEF all, front, mid
<1> QED BY <1>1, CommandsInvariance, PTL

\* The file of an answer that is queued is there, and every file is somebody's
\* to remove or known to be left (TempFilesAccounted).
THEOREM TempFilesKept == Spec => []TempFilesAccounted
<1>1. IInv => TempFilesAccounted
  BY DEF IInv, AnswersOK
<1> QED BY <1>1, CommandsInvariance, PTL

\* The status file of an open command has a line for each port of statusPorts and
\* nothing else, as long as no answer went astray (FileFollowsPorts).
THEOREM StatusFileComplete == Spec => []FileFollowsPorts
<1>1. IInv => FileFollowsPorts
  <2> SUFFICES ASSUME IInv, issent, ~misplaced
               PROVE  /\ file.state = "open" /\ ToSet(file.nodes) = statusPorts
                      /\ Len(file.nodes) = Cardinality(statusPorts)
                      /\ \A l \in file.links : {l[1], l[2]} \subseteq statusPorts
    BY DEF FileFollowsPorts
  <2>1. /\ file.state = "open" /\ ToSet(file.nodes) = statusPorts /\ Distinct(file.nodes)
        /\ \A l \in file.links : {l[1], l[2]} \subseteq statusPorts
    BY DEF IInv, FileOK
  <2>2. file.nodes \in Seq(Nodes)
    BY DEF IInv, TypeOK, FileStates
  <2> QED BY <2>1, <2>2, DistinctCardinality
<1> QED BY <1>1, CommandsInvariance, PTL
=============================================================================
