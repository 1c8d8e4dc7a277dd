----------------------------- MODULE MCProgress -----------------------------
(***************************************************************************)
(* What must eventually happen, for TLC: a behaviour chooses one component *)
(* and only that one moves, under its own fairness.                        *)
(***************************************************************************)
EXTENDS Jobs, Turns, Mcp, Service, Handoffs

CONSTANTS h1, h2, h3   \* agents of the hosts 1, 2 and 3

VARIABLE part

\* One handoff of the first host to the agents of the other two.
Hosted == [a \in Actors |-> CASE a = h1 -> 1 [] a = h2 -> 2 [] OTHER -> 3]
OneDraft == {[by |-> h1, to |-> {h2, h3}, ctx |-> 1, bytes |-> 1]}
SaidBound == <<1, 2, 1>>

Parts == {"jobs", "turns", "mcp", "service", "handoffs"}
progressVars == <<part, vars, turnVars, mcpVars, serviceVars, handoffVars>>

ProgressInit ==
  /\ part \in Parts
  /\ Init /\ TurnsInit /\ McpInit /\ ServiceInit /\ HandoffsInit
  /\ part = "turns" \/ card = [n \in Names |-> "managed"]
  /\ part = "mcp" \/ acting = Nameless
  /\ part = "service" \/ \A a \in Aliases : pinned[a] = CHOOSE i \in Identities : TRUE

Still(p, v) == IF part = p THEN TRUE ELSE UNCHANGED v

ProgressNext ==
  /\ \/ part = "jobs" /\ Next
     \/ part = "turns" /\ TurnsNext
     \/ part = "mcp" /\ McpNext
     \/ part = "service" /\ ServiceNext
     \/ part = "handoffs" /\ HandoffsNext
  /\ UNCHANGED part
  /\ Still("jobs", vars) /\ Still("turns", turnVars)
  /\ Still("mcp", mcpVars) /\ Still("service", serviceVars) /\ Still("handoffs", handoffVars)

\* The fairness of each component, see Fairness, TurnsFairness and ServiceFairness;
\* the threads of the MCP server go on.
ProgressFairness ==
  /\ \A c \in Clients : WF_vars(part = "jobs" /\ Serve(c))
  /\ \A w \in Workers : WF_vars(part = "jobs" /\ Supervise(w)) /\ WF_vars(part = "jobs" /\ Reap(w))
  /\ \A c \in Callers : WF_turnVars(part = "turns" /\ CallStep(c))
  /\ \A w \in Runners : WF_turnVars(part = "turns" /\ RunnerStep(w))
  /\ \A c \in Calls : WF_mcpVars(part = "mcp" /\ ThreadStep(c))
  /\ WF_serviceVars(part = "service" /\ ChiefStep)
  /\ \A a \in Aliases : /\ WF_serviceVars(part = "service" /\ FollowerStep(a))
                        /\ WF_serviceVars(part = "service" /\ WaitStep(a))

ProgressSpec == ProgressInit /\ [][ProgressNext]_progressVars /\ ProgressFairness
=============================================================================
