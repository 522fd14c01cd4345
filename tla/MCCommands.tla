---------------------------- MODULE MCCommands ----------------------------
EXTENDS Commands

CONSTANTS me, p, q

\* The nodes of a triangle: this one and the two that answer.
Triangle == [n \in {me, p, q} |-> {me, p, q} \ {n}]
=============================================================================
