---------------------------- MODULE MCBeaconTie ----------------------------
(* Instances of BeaconTie for TLC.                                         *)
EXTENDS BeaconTie, TLC

CONSTANTS a, b, c

ByPort == (a :> 1) @@ (b :> 2) @@ (c :> 3)
\* Two of the three beacons do not list each other.
Line == (a :> {b}) @@ (b :> {a, c}) @@ (c :> {b})
=============================================================================
