---------------------------- MODULE MCReplication ----------------------------
(***************************************************************************)
(* Instances of Replication for TLC: two or three machines with one agent  *)
(* each, a direct thread or a room, and a few exchanging processes.        *)
(***************************************************************************)
EXTENDS Replication, TLC

CONSTANTS a1, a2, a3, direct, room, up, down, again

Homes == [a \in Agents |-> CHOOSE o \in Origins : a = <<a1, a2, a3>>[o]]
Everywhere == [t \in Threads |-> IF t = direct THEN {1, 2} ELSE {1, 2, 3}]
Everyone == [t \in Threads |-> IF t = direct THEN {a1, a2} ELSE {a1, a2, a3}]

\* Machine 1 starts rounds with 2, machine 2 starts rounds with 1.
PairLinks == [s \in Sessions |-> IF s = down THEN {<<2, 1>>} ELSE {<<1, 2>>}]

\* A worker's turn races a withdrawal in a direct thread, and machine 3 listens
\* outside it.  The agent of machine 1 is interactive.
TurnLinks == [s \in Sessions |-> {<<1, 2>>, <<3, 1>>}]
TurnOperations ==
  (1 :> {"join", "send", "ask", "withdraw"}) @@ (2 :> {"start", "claim", "clean"}) @@ (3 :> {})
TurnBound == (1 :> 4) @@ (2 :> 5) @@ (3 :> 0)

\* An answer races a withdrawal, rounds overlap, and both machines clean.
CleanOperations ==
  (1 :> {"start", "ask", "withdraw", "clean"}) @@ (2 :> {"start", "reply", "clean"})
CleanBound == (1 :> 3) @@ (2 :> 2)

\* A room of three machines around machine 1: 2 asks 1, and 3 listens.  The services
\* of 1 and 2 follow each other, one round at a time, and that of 3 follows 1.  Machine
\* 3 writes nothing, so there is nothing to follow it for.
StarLinks == [s \in Sessions |-> IF s = down THEN {<<3, 1>>} ELSE {<<1, 2>>, <<2, 1>>}]
StarOperations == (1 :> {"start", "reply"}) @@ (2 :> {"start", "ask"}) @@ (3 :> {})
StarBound == (1 :> 2) @@ (2 :> 2) @@ (3 :> 0)

\* The same room where machine 3 follows machine 2 as well, with rounds that overlap.
MeshLinks ==
  [s \in Sessions |-> CASE s = down -> {<<3, 1>>} [] s = again -> {<<3, 2>>}
                        [] OTHER -> {<<1, 2>>, <<2, 1>>}]

=============================================================================
