------------------------------- MODULE Cache -------------------------------
(***************************************************************************)
(* What the cache of a node promises, without threads, locks or a disk: an *)
(* ordered set of slots, least recently used first, and what each of them  *)
(* holds.  Only the least recently used slot is ever evicted, only to make *)
(* room, and a slot holds what it was given until it leaves the cache.     *)
(***************************************************************************)
EXTENDS Naturals, Sequences

CONSTANTS
    Slots,      \* what names a cached file: the file indices
    Contents,   \* the files
    Capacity    \* how many of them the cache holds

VARIABLES
    lru,        \* the slots in use, least recently used first
    content,    \* what each of them holds
    filling     \* a file is being admitted

cacheVars == <<lru, content, filling>>

Members(list) == {list[n] : n \in DOMAIN list}

\* The list without i, the order of the others unchanged.
Dropped(list, i) ==
    LET k == CHOOSE n \in 1..Len(list) : list[n] = i
    IN  [n \in 1 .. Len(list) - 1 |-> IF n < k THEN list[n] ELSE list[n + 1]]

\* The slots that remain hold what they held.
Retain == content' = [i \in Members(lru') |-> content[i]]

Init ==
    /\ lru = <<>>
    /\ content = [i \in {} |-> 0]
    /\ filling = FALSE

\* Nothing else happens to the list until the file is in.
Begin ==
    /\ ~filling /\ filling'
    /\ UNCHANGED <<lru, content>>

Evict ==
    /\ filling
    /\ lru # <<>> /\ Len(lru) = Capacity
    /\ lru' = Tail(lru)
    /\ Retain
    /\ UNCHANGED filling

Admit(i, f) ==
    /\ filling /\ ~filling'
    /\ i \notin Members(lru) /\ Len(lru) < Capacity
    /\ lru' = Append(lru, i)
    /\ content' = [j \in Members(lru') |-> IF j = i THEN f ELSE content[j]]

Use(i) ==
    /\ ~filling
    /\ lru' = Append(Dropped(lru, i), i)
    /\ Retain
    /\ UNCHANGED filling

Withdraw(i) ==
    /\ ~filling
    /\ lru' = Dropped(lru, i)
    /\ Retain
    /\ UNCHANGED filling

Next ==
    \/ Begin
    \/ Evict
    \/ \E i \in Slots, f \in Contents : Admit(i, f)
    \/ \E i \in Members(lru) : Use(i) \/ Withdraw(i)

Spec == Init /\ [][Next]_cacheVars

=============================================================================
