------------------------------- MODULE MCParts -------------------------------
(***************************************************************************)
(* The components on their own, for TLC: a behaviour chooses one of them   *)
(* and only that one moves, so a run visits the sum of their states and    *)
(* not the product.                                                        *)
(***************************************************************************)
EXTENDS MCReplication, Turns, Slots, Mcp

CONSTANTS
  x, y,      \* managed agents of this machine
  w1, w2, w3, s1, s2

VARIABLE part

\* Two of three workers may run the same job one after the other.
SharedJob == [w \in Minders |-> IF w = w3 THEN s2 ELSE s1]

-----------------------------------------------------------------------------
Parts == {"ledger", "turns", "slots", "mcp"}
partsVars == <<part, vars, turnVars, slotVars, mcpVars>>

\* What may differ at first does so only in the component that moves; x and y are
\* alike, so one order of their modes is enough.
PartsInit ==
  /\ part \in Parts
  /\ Init /\ TurnsInit /\ SlotsInit /\ McpInit
  /\ part = "turns" \/ card = [n \in Names |-> "managed"]
  /\ card[x] = "managed" \/ card[y] = "interactive"
  /\ part = "mcp" \/ acting = Nameless

Still(p, v) == IF part = p THEN TRUE ELSE UNCHANGED v

PartsNext ==
  /\ \/ part = "ledger" /\ Next
     \/ part = "turns" /\ TurnsNext
     \/ part = "slots" /\ SlotsNext
     \/ part = "mcp" /\ McpNext
  /\ UNCHANGED part
  /\ Still("ledger", vars) /\ Still("turns", turnVars)
  /\ Still("slots", slotVars) /\ Still("mcp", mcpVars)

PartsSpec == PartsInit /\ [][PartsNext]_partsVars
=============================================================================
