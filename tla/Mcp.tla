--------------------------------- MODULE Mcp ---------------------------------
(***************************************************************************)
(* The MCP server of one client.  The reader thread takes one line after   *)
(* the other; every tool call runs in a thread of its own on a copy of the *)
(* session.  A call that shows something is recorded after its answer was  *)
(* written, unless it was cancelled by then or the answer was replaced.    *)
(***************************************************************************)
EXTENDS Naturals, FiniteSets

CONSTANTS
  Calls,       \* requests of the client; each has its own thread
  RequestIds,  \* JSON-RPC request IDs
  Joiners,  \* agents a call can join as
  Nameless,
  MaxActive    \* active calls (MAX_CALLS)

VARIABLES
  handshake,   \* Phase: new, negotiated, ready
  acting,      \* the agent of the server's session
  input,       \* whether the reader still reads
  call,        \* each request and its thread
  active,      \* the table of active request IDs: the call of each, or "none"
  registered,  \* agents the store knows
  noted,       \* <<call, agent>> of the reads recorded in the store
  presented,   \* history: <<call, agent>> of the originals written
  withdrawn    \* history: calls whose cancellation was processed while active

mcpVars == <<handshake, acting, input, call, active, registered, noted, presented, withdrawn>>

Unsent == [pc |-> "unsent", id |-> "none", kind |-> "none", as |-> Nameless, flag |-> FALSE]

McpInit ==
  /\ handshake = "new"
  /\ acting \in Joiners \cup {Nameless}
  /\ input = "open"
  /\ call = [c \in Calls |-> Unsent]
  /\ active = [i \in RequestIds |-> "none"]
  /\ registered = {acting} \ {Nameless}
  /\ noted = {} /\ presented = {} /\ withdrawn = {}

storeVars == <<registered, noted, presented>>
callVars == <<call, active>>

Continue(c, pc) == call' = [call EXCEPT ![c].pc = pc]

(***************************************************************************)
(* The reader thread.                                                      *)
(***************************************************************************)
Initialize ==
  /\ input = "open" /\ handshake = "new"
  /\ handshake' = "negotiated"
  /\ UNCHANGED <<acting, input, callVars, storeVars, withdrawn>>

Initialized ==
  /\ input = "open" /\ handshake = "negotiated"
  /\ handshake' = "ready"
  /\ UNCHANGED <<acting, input, callVars, storeVars, withdrawn>>

ActiveIds == {i \in RequestIds : active[i] # "none"}

\* A call is refused before the handshake, while its ID is active, and beyond the
\* limit; otherwise its thread starts.
AcceptCall(c, i, kind) ==
  /\ input = "open" /\ call[c].pc = "unsent"
  /\ IF handshake = "ready" /\ i \notin ActiveIds /\ Cardinality(ActiveIds) < MaxActive
     THEN /\ call' = [call EXCEPT ![c] = [Unsent EXCEPT !.pc = "clone", !.id = i, !.kind = kind]]
          /\ active' = [active EXCEPT ![i] = c]
     ELSE /\ call' = [call EXCEPT ![c].pc = "done"]
          /\ UNCHANGED active
  /\ UNCHANGED <<handshake, acting, input, storeVars, withdrawn>>

\* notifications/cancelled, under the lock of the table.
CancelCall(i) ==
  /\ input = "open" /\ i \in ActiveIds
  /\ call' = [call EXCEPT ![active[i]].flag = TRUE]
  /\ withdrawn' = withdrawn \cup {active[i]}
  /\ UNCHANGED <<handshake, acting, input, active, storeVars>>

\* The client closes the input, or sends a line that is too long.
CloseInput ==
  /\ input = "open"
  /\ input' = "closed"
  /\ UNCHANGED <<handshake, acting, callVars, storeVars, withdrawn>>

\* The scope joins every thread before the server ends.
ServerEnds ==
  /\ input = "closed"
  /\ \A c \in Calls : call[c].pc \in {"unsent", "done"}
  /\ input' = "ended"
  /\ UNCHANGED <<handshake, acting, callVars, storeVars, withdrawn>>

(***************************************************************************)
(* A call's thread.                                                        *)
(***************************************************************************)
CloneSession(c) ==
  /\ call[c].pc = "clone"
  /\ call' = [call EXCEPT ![c].pc = "dispatch", ![c].as = acting]
  /\ UNCHANGED <<handshake, acting, input, active, storeVars, withdrawn>>

\* The operation runs on the copy: a join registers its agent and binds the copy,
\* a read selects what to show.  It fails without an agent, and on any error.
Dispatch(c, a, ok) ==
  /\ call[c].pc = "dispatch"
  /\ ok /\ call[c].kind = "read" => call[c].as # Nameless
  /\ IF ok /\ call[c].kind = "join"
     THEN /\ call' = [call EXCEPT ![c].pc = "adopt", ![c].as = a]
          /\ registered' = registered \cup {a}
     ELSE /\ call' = [call EXCEPT ![c].pc = "ready", ![c].kind = IF ok THEN @ ELSE "failed"]
          /\ UNCHANGED registered
  /\ UNCHANGED <<handshake, acting, input, active, noted, presented, withdrawn>>

\* A cancelled call ends without an answer; the session of the server adopts the
\* agent of a join that was not cancelled.
AdoptSession(c) ==
  /\ call[c].pc = "adopt"
  /\ IF call[c].flag
     THEN Continue(c, "remove") /\ UNCHANGED acting
     ELSE Continue(c, "ready") /\ acting' = call[c].as
  /\ UNCHANGED <<handshake, input, active, storeVars, withdrawn>>

\* deliver_call: the answer is written unless the call is cancelled by now; one
\* that is too large is replaced by an error, and the client may be gone.
DeliverCall(c, written) ==
  /\ call[c].pc = "ready"
  /\ IF call[c].flag \/ written = "failed"
     THEN Continue(c, "remove") /\ UNCHANGED presented
     ELSE IF call[c].kind = "read" /\ written = "original"
          THEN presented' = presented \cup {<<c, call[c].as>>} /\ Continue(c, "complete")
          ELSE Continue(c, "remove") /\ UNCHANGED presented
  /\ UNCHANGED <<handshake, acting, input, active, registered, noted, withdrawn>>

\* The read is recorded for the agent of the server's session.
CompleteActing(c) ==
  /\ call[c].pc = "complete"
  /\ noted' = IF call[c].flag THEN noted ELSE noted \cup {<<c, acting>>}
  /\ Continue(c, "remove")
  /\ UNCHANGED <<handshake, acting, input, active, registered, presented, withdrawn>>

\* The cancellation is not looked at again under the lock of the table.
CompleteUnlocked(c) ==
  /\ call[c].pc = "complete"
  /\ noted' = noted \cup {<<c, call[c].as>>}
  /\ Continue(c, "remove")
  /\ UNCHANGED <<handshake, acting, input, active, registered, presented, withdrawn>>

\* Under the lock of the table, which a cancellation also needs.
Complete(c) ==
  /\ call[c].pc = "complete"
  /\ noted' = IF call[c].flag THEN noted ELSE noted \cup {<<c, call[c].as>>}
  /\ Continue(c, "remove")
  /\ UNCHANGED <<handshake, acting, input, active, registered, presented, withdrawn>>

RemoveCallFirst(c) ==
  /\ call[c].pc = "remove"
  /\ Continue(c, "done")
  /\ UNCHANGED <<handshake, acting, input, active, storeVars, withdrawn>>

RemoveCall(c) ==
  /\ call[c].pc = "remove"
  /\ active' = [active EXCEPT ![call[c].id] = "none"]
  /\ Continue(c, "done")
  /\ UNCHANGED <<handshake, acting, input, storeVars, withdrawn>>

ThreadStep(c) ==
  \/ CloneSession(c) \/ AdoptSession(c) \/ Complete(c) \/ RemoveCall(c)
  \/ \E a \in Joiners, ok \in BOOLEAN : Dispatch(c, a, ok)
  \/ \E written \in {"original", "replaced", "failed"} : DeliverCall(c, written)

McpNext ==
  \/ Initialize \/ Initialized \/ CloseInput \/ ServerEnds
  \/ \E c \in Calls, i \in RequestIds, kind \in {"join", "read", "write"} : AcceptCall(c, i, kind)
  \/ \E i \in RequestIds : CancelCall(i)
  \/ \E c \in Calls : ThreadStep(c)

McpSpec == McpInit /\ [][McpNext]_mcpVars

-----------------------------------------------------------------------------
\* A read is recorded only for the agent whose messages were written to the client
\* by that very call, also when another call joins as a different agent meanwhile
\* (Server::call, deliver_call).
NotedWasPresented == noted \subseteq presented

\* Once the cancellation of a call was processed the call records nothing more,
\* however it races with the delivery (notification, deliver_call).
NothingNotedAfterCancel ==
  [][\A c \in withdrawn : \A a \in Joiners : <<c, a>> \in noted' => <<c, a>> \in noted]_mcpVars

\* Every request ID becomes free again, so the limit on active calls never blocks
\* the server for good (the thread's last step).
IdsFreed == \A i \in RequestIds : active[i] # "none" ~> active[i] = "none"
=============================================================================
