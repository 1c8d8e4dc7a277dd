# domyjob in TLA+

domyjob runs jobs on other machines over SSH and lets AI agents on different
machines talk to each other. This directory models the parts of it that are hard
to test: the processes that share a job store through file locks, the machines
that replicate a chat ledger in exchange rounds, what surrounds both (turns,
inboxes, the service, builds, snapshots, the terminal, setups) and the tools that
verify and release the program. The modules are translated from the Rust source
under `src/crates` and `src/xtask`; `PROJECT.json` gives the lines behind each
definition.

1. [The system](#1-the-system)
2. [The modules](#2-the-modules)
3. [What the runs check](#3-what-the-runs-check)
4. [Where the code and its documentation disagree](#4-where-the-code-and-its-documentation-disagree)
5. [What is proved](#5-what-is-proved)
6. [What is not modelled](#6-what-is-not-modelled)
7. [The plan](#7-the-plan)

## 1. The system

### Components

`domyjob-core` holds pure decisions (no I/O); `domyjob` composes them with SSH,
files, locks and processes. Nothing listens on a network: a client starts
`ssh machine domyjob node ...`, which serves one request and ends.

| Component | State | Operations | What makes it correct |
| --- | --- | --- | --- |
| Job records (`store.rs`, `state.rs`) | one directory per job: state, request, workspace, log, cancel file, three lock files; the order number; the trash | reserve, stage, transition, status, wait, clean, reclaim | a submission has one record, its command starts at most once, an outcome is final, a live job is never taken for lost or removed |
| Job requests (`app.rs`) | none of their own: a process per request | run, status, wait, logs, kill, clean | each survives the death of any other; a kill is answered |
| Job worker (`app.rs`, `process.rs`) | worker lock, cancellation watch, the process group, the log | lock, check, announce, admit, spawn, relay, finish, record a failure | what it started is recorded or killed |
| Slots and scopes (`process/resources`) | slot locks, scope records, cgroup scopes | plan, try_admit, prepare, stop_previous, completion | no more commands than slots, also after a crash |
| Chat ledger (`domyjob-core/src/chat`) | pure: events, cursors, endings | admit, append, receive, offer, respond, accept | all machines agree on the ending of an ask, whatever the order of arrival |
| Chat store (`chat/store`) | a redb file: events, index, cursors, acks, profiles, rooms, asks, endings, turns, receipts | one transaction per operation; clean; reset | projections agree with the events; nothing is deleted that a peer still needs |
| Exchange (`chat/sync.rs`) | peers pinned to identities, link outcomes | exchange, sync_with, identify, serve, wait | every event reaches the machines that exchange with its author |
| Turns (`chat/store/turns.rs`, `chat/runner.rs`) | claims, queue and worker locks, agent configuration | dispatch, claim, run, finish, recover | a turn runs at most once and its ask ends |
| Agents, rooms, messages (`chat/ops.rs`, `chat/address.rs`) | sessions bound to agents, an address book per command | start, join, update, remove, send, ask, reply, withdraw, room and profile operations | a message reaches those who take part when it is committed; a shown name means its agent |
| Notifications and receipts (`store/notifications.rs`, `chat/hook.rs`, `ops/reads.rs`) | receipts per agent, urgent rows, read cursors | hook, inbox, read, acknowledge, escalate | what counts as delivered or read was shown; nothing urgent is passed over |
| Handoffs (`store/handoff.rs`) | bodies, observations | send, list, read, observe | a body is observed once, by a reader who had it |
| Chat service (`chat/serve.rs`, `chat/pulse.rs`) | one follower per peer, a bounded channel, the bell | reconcile, follow, wait, stop | a commit leads to an exchange, and the service never hangs on a follower |
| MCP server (`mcp.rs`) | the session, a table of active calls | initialize, call, cancel, deliver | a read is recorded for the agent it was shown to, and not after a cancellation |
| Providers (`chat/provider.rs`, `process/chat.rs`) | a child process with limited output | run, parse | an answer is one whole answer |
| Builds and formats (`builds.rs`, `formats.rs`, `store.rs`) | build directories with use locks, one store per format | publish, hold, pin, prune | a running build or a store in use is not removed |
| Transport (`transport.rs`, wire) | one SSH call with deadlines | call, install and repeat | a request is handled once however the connection ends |
| Source snapshot (`source.rs`, `source_archive.rs`, `store.rs`) | an archive under way, the receiver's file and lock | select, archive, send, receive, extract | a job runs on the tree that was archived or not at all |
| State files (`state_io.rs`, `platform/replacement.rs`) | private files, the trash | replace, read, set aside, empty | a record survives a power loss whole |
| Login launch (`process/login.rs`) | socket, serve lock, frames | hand off, accept, refuse | a worker is started once and never announced in vain |
| Dashboard (`tui`, `dashboard.rs`, `terminal_input`) | view, question under way, terminal modes, decoder state, frame | keys, draw, refresh, restore | it shows the answer to the latest question, understands keys however they are cut, and gives the terminal back |
| Setup (`chat/setup.rs`, `hook_clients.rs`, `mcp_clients.rs`, `jsonc.rs`, `service.rs`) | the service definition, client configurations, the record | setup, install, uninstall, reset, doctor | a setup that ends well is whole; the user's entries stay |
| Release (`xtask`: `release*.rs`, `distribution.rs`, `macos_package.rs`) | queued builds, ready bytes, releases, keychains | sign, notarize, staple, upload, publish | what is published is one checked distribution |
| Verification and CI (`xtask`: `proof_tools.rs`, `verification.rs`, `resource_proofs.rs`, `ci.rs`) | observed tools, evidence, plans | bind, run, judge, plan, gate, forward | a proof stands for the source and tools it names; a change passes what it needs |

### How they interact

*Jobs.* A client prints a submission ID and sends `run`. The node derives the job
ID from it, reserves the record under the admission lock (reclaiming the oldest
finished records first), publishes it with one rename, takes the record's launch
lock and starts a worker, which proves that it lives by one byte on a pipe. The
worker holds the worker lock until it ends; `status` probes that lock, and an
active job without a holder is `lost`. `wait` blocks on the worker lock, `kill`
writes the cancel file, which the worker watches, and then waits. `clean` and an
admission take both locks, drop them and rename the record to the trash.

*Chat.* An operation authors events in one transaction. A round is three
transactions: the offer is read here, answered there, and the answer is applied
here. The same two machines may run many rounds at once, as every command, the
service and a waiting `chat ask` exchange by themselves. Events carry Lamport
clocks; an ask ends with the earliest of its endings in display order.

### What is hard

Locks belong to files, and the files of a record disappear with it. Every process
may die at every step, and the death closes its locks and pipes. A check and the
action it guards are often separate: a lock is probed and dropped, a failure is
recorded after the lock was given up. In the chat, rounds overlap and are answered
late, events of three machines arrive in any order, and a conversation is deleted
while its events are on the way. `PROJECT.json` lists each hazard at its line,
with the properties that would catch it.

## 2. The modules

| Module | Models | Extends |
| --- | --- | --- |
| `Ledger` | admission, projection, endings, capacity, batches, acknowledgments and cleaning of one database, as operators on a database record | |
| `Replication` | the machines: operations of agents, managed turns, exchange rounds, cleaning | `Ledger` |
| `MCReplication` | instances for TLC | `Replication` |
| `Ledger_proofs`, `Replication_proofs` | lemmas and theorems | `Ledger`, `Replication` |
| `Jobs` | the job store, its requests, workers and commands | |
| `JobLife` | abstract: what the store promises about a submission | |
| `MCJobs` | symmetry for TLC | `Jobs` |
| `Jobs_proofs`, `Turns_proofs` | the inductive invariant, lemmas and theorems of one component each | that component |
| `Reading_proofs`, `Processes_proofs`, `Builds_proofs`, `Workshop_proofs` | the same for several components, one after the other | `Inbox`, `Handoffs`, `Mcp`; `Slots`, `Login`, `Children`; `Install`, `Release`, `Signing`; `StateFiles`, `Snapshot`, `ToolRun`, `Rooms` |
| `Slots` | the slots of a resource policy, scopes, launchers and reapers | |
| `Turns` | dispatch, workers, claims and recovery of the turns of managed agents; asks that wait | |
| `Inbox` | hooks and views: selection, output and record of messages; urgent rows, cursors, escalation | |
| `Handoffs` | bodies for named readers on several hosts, listings, reads, observations | |
| `Mcp` | the MCP server: reader thread, call threads, cancellation | |
| `Service` | chief, followers, waits and the bounded channel of the chat service | |
| `Rooms` | addresses, rooms, profiles, messages and paging of threads | |
| `Answers` | what AI clients print and what is taken from it | |
| `Children` | one child process, its pipes, readers, reaper | |
| `Login` | the hand-off of a worker to the login session | |
| `StateFiles` | replacement, reading and removal of state files under power loss | |
| `Snapshot` | selection, archive, transfer and extraction of a source tree | |
| `Install` | remote calls, builds and stores of other formats | |
| `Dashboard`, `TerminalInput`, `Frame` | the event loop, the key decoders, what is painted | |
| `Setup`, `Jsonc`, `Quoting` | setup commands, the editor of commented JSON, quoting for other readers | |
| `Release`, `Signing` | the release queue; one target from binary to installer | |
| `ToolRun`, `ToolBinding`, `Proving` | a watched tool; the tools of a proof; a verification | `Proving` extends `ToolBinding` |
| `CiScope`, `CiTasks` | what a change must pass; where heavy checks run | |
| `MCParts`, `MCTools`, `MCWorkbench`, `MCProgress` | several components in one run, see below | the components |

Each of the later modules begins with what its variables stand for and which
files it translates. Their actions follow the code as those of `Jobs` do: one
step between two points where another process, a crash or a failing call can
make a difference.

### Components packed into a run

`MCParts`, `MCTools`, `MCWorkbench` and `MCProgress` extend several
components that share nothing. A variable `part` is chosen at first and only the
component it names moves, so the run visits the sum of their state spaces; in all
other behaviours a component rests in an initial state. Properties that
theorems state are checked as they stand, for they hold of a resting component too. The
other invariants of `MCTools` and `MCWorkbench` are stated as `part = "..." => ...`,
which spares TLC their evaluation on resting components, and fairness is stated per
component in the same way. Of initial states that differ only in which of two alike
processes is which, `PartsInit` and `ToolsInit` keep one. Model values and small functions of the instances are in
the MC modules.

### Ledger and Replication

`store[m]` is the chat database of machine `m`: `events[o]` is the stored part of
origin `o`'s ledger (each with its flag `cleaned`), `cursors[o]` what was seen of
`o`, `acks[p]` what peer `p` has confirmed, and `open`, `started`, `resolutions`,
`profiles`, `usage` are projections. `turns[m]` is the table of claims and
`rounds[s]` the round that process `s` has under way.

- `Admit` is `ledger::admit`: duplicate, append with its change, or one of the
  rejections. `Commit` applies an event with all its projections, as the code does
  in one transaction. Text, names and digests are left out; two events are the
  same when their records are equal, which is what the digest stands for.
- `Outgoing` sends a cleaned event, and an event outside the audience, as the
  placeholder `Omitted`.
- `Write` and `WriteBoth` are `Store::write`: a transaction of one or two events
  that is stored as a whole or not at all.
- `MakeOffer`, `AnswerOffer`, `AcceptAnswer` are the three transactions of a round.
  `Break` ends it at any point, which is a lost message, a dead process or a
  deadline.
- `Ended` is both `finish` without an answer and `recover` after a crash, which
  write the same events with a different outcome.
- Peers are a constant (`Links`); room members are a constant (`Members`), so the
  membership check is modelled but membership does not change.

`Operations` and `MaxAuthored` select and bound what an instance does. They are
part of the guards, not of the code.

### Jobs

`phase[j]` is the state of job `j`, `order[j]` the order number of its record,
which also names its lock files: a process that opened a lock keeps the number of
the record it opened. `client[c]` is a request process with its program counter,
`worker[w]` a worker, `command[w]` the process group it started and `runs[j]` the
history of starts.

- Who holds a lock is derived from the program counters (`LaunchFree`,
  `AliveFree`); the admission lock is a variable. Under the state lock the code
  reads, checks and replaces one file, which is one step here.
- A step of `Serve` or `Supervise` lies between two points where another process
  can see a difference. `ClientCrash` and `WorkerCrash` are possible before each.
- `Fail` is the failure of any effect of the worker. The worker then gives up its
  lock first and records the failure after that (`RecordFailure`), as
  `worker_using` does.
- `Announce` fails when the launcher is gone (the pipe has no reader).
- `Admit` stands for the wait for a slot of the policy; nothing makes a slot free.
  What slots do is in `Slots`.
- The command runs before the reaper guards it (`Spawn`, then `Guard`). A worker
  that dies in between leaves a *stray* command, which nobody kills. `Guard` may
  fail, which kills the command.
- `WatchBreaks` is a watch that ends with an error: the worker waits for its
  command and then fails.
- `Resubmitted` says whether a submission may still arrive after its record was
  removed.

`JobLife` is the promise: a submission is accepted, attached to once, started at
most once, finished once and removed only when finished. `LifeSpec` is `JobLife`
under the refinement mapping of `Jobs` (`life` merges the three active states,
`started` says whether the current record's command was started). `Startable`
includes `launch_failed`, because of the defect `LiveIsActive` shows below.

### Slots

`minder[w]` is a worker with its program counter, the slot whose lock it holds, its
cancellation watch and how it found its command to have ended; `slotRecord[k]` is the
scope name in the record of slot `k`, `members[s]` the processes of scope `s`,
`launcher` the `systemd-run` processes that have not joined their scope, `marker[s]`
the file in which `job-exec` leaves the exit of the command, and `reaper[w]` the
process that outlives the worker.

- A worker runs one job. A scope is named after its job, so a job that is submitted
  again after its removal reuses the name: `Job` may give two workers one scope, but
  never at the same time (`Begin` has the worker lock).
- `Stop` is `stop` and `cleanup` of a scope: kill, check that it is empty, remove the
  marker. Where the code only logs a failure (`DropGroup`, `DropPermit`, the reaper)
  it may do nothing (`StopOrFail`); where it passes the failure on, `GiveUp` and
  `Abandon` are the failures.
- A kill is two steps, scope and then group, with the command going on between them.
  A scope that cannot be stopped ends the watch with the group alive.
- `Join`, `Escape` are the steps of systemd and of the command; they need no worker.
  `outlived` remembers the launchers that joined, and commands that exited, after
  their worker was gone.
- The system stops when every worker has run, so deadlock is not checked.

## 3. What the runs check

Chat, with one agent per machine. `MaxBatch` is 1 or 2, so a history needs several
rounds; the capacity limits are out of reach in these instances.

| Run | Instance | Properties |
| --- | --- | --- |
| `parts`, part `ledger` | two machines, two overlapping rounds, answer, withdrawal, cleaning on both sides | `AckSound`, `EarliestEnding`, `CleanedSound`, `NeverTakenBack` |
| `mesh` | a room of three machines, each of which follows those that write; fair | `CausallyDelivered`, `Delivery` |
| `presence`, `star` | see section 4 | `StartedIsOpen`, `Delivery` |
| `turns` | machines 1 and 2 in a direct conversation, 3 outside; an interactive asker, a managed responder; ask, send, withdraw, claim, answer, fail, recover, clean; one exchanging process | `FaithfulCopy` |

- `AckSound`: nothing counts as stored by a peer before it is. It is what cleaning
  relies on.
- `FaithfulCopy`: a copy of another ledger is a prefix of it, in full inside the
  audience and as placeholders outside.
- `EarliestEnding`: an ask ends with the earliest ending stored here and is open
  exactly without one, so machines that store the same endings agree.
- `CleanedSound` is `UsageExact` and `OnlyHeldBack`, `CausallyDelivered` is
  `CausallyClosed` and `OnlyHeldBack`.
- `UsageExact`: the counter behind the capacity limits is exact.
- `OnlyHeldBack`: a round that arrives late, repeated or overlapped is held back for
  one of three reasons, each with its own verdict. An event in it is about a message of
  a third machine that the receiver lacks; the batch has more events than the receiver
  has room for; or an event in it was cleaned by its sender and is held by the receiver,
  for the placeholder of an event differs from the event and is refused as a conflict.
  It is never a gap, a clock that runs backwards or an ending of somebody who may not.
- `NeverTakenBack`: acknowledgments, cursors, events and endings only advance.
- `CausallyClosed`: what an event refers to is stored with it.
- `Delivery`: every event reaches every machine that follows its author, although a
  round that fails to bring a machine's own events to its peer is not repeated: the
  peer's own service fetches them. In `mesh` machine 3 writes nothing, so nobody needs
  to follow it.

Jobs. The bounds on processes are the number that is alive at once, not of all
that ever ran: a process that ended can be used again.

| Run | Instance | Properties |
| --- | --- | --- |
| `jobs` | one job, two request processes, two workers, two contents of the submission, all requests, with and without a policy | `TypeOK`, `LiveIsKept`, `WaitHarmless`, `OncePerRecord`, `LifeSpec`, `RemovalIsSafe` |
| `progress`, part `jobs` | one job under a policy; fair | `KillReturns` |
| `tools`, part `jobs` | three jobs, one process; an admission keeps one record and no workspace | `NewestKept` |
| `live`, `waits`, `resubmit` | see section 4 | `LiveIsActive`, `WaitAnswered`, `RemovalIsSafe` |

- `LiveIsKept`: once a worker announced itself, nothing takes its job for lost,
  kills its record or removes it.
- `WaitHarmless`: a request that waits never holds the lock a worker of an
  accepted job needs.
- `OncePerRecord`: the command of a record starts at most once, whatever dies.
- `RemovalIsSafe`: a record or workspace is removed only when its job has finished
  and no supervised command is left in it, although both locks were dropped before.
- `NewestKept`: an admission removes a record only with enough newer finished ones.
- `KillReturns`: a kill that waits is answered, although the command never ends by
  itself and no slot becomes free. A watch that broke is excepted: when stopping the
  command fails once, nobody tries again.

All of them except `NewestKept` are checked, and proved, without resubmission after
removal. A process that still has a lock of the removed record open acts on the new
record without excluding anybody: `WaitHarmless`, `LiveIsKept` and `LifeSpec` fail
with the second record of a submission, `RemovalIsSafe` with the third (run
`resubmit`), and `OncePerRecord` has the same argument against it with the fourth.

Slots. Run `parts`, part `slots`: one slot and three workers, two of which run the
same job; every worker may die at every step and every stop may fail. Properties
`SlotsSound` (`WithinSlots` and `OwnExit`) and `Undisturbed`.

- `WithinSlots`: a scope with processes is the recorded scope of a slot, so no more
  scopes than slots are populated. The exception is a launcher that joins its scope
  after its worker gave up the slot: the next holder found that scope empty and
  recorded its own. The code does not exclude it.
- `OwnExit`: the exit a job is recorded with is its own command's, not one in the
  marker of an earlier run; the same launcher is the exception.
- `Undisturbed`: the command of a live worker is not stopped by another worker or
  another's reaper. Runs of the same job are excepted: the reaper of the first stops
  the scope by name, and may come late.

The other parts of run `parts`:

- `TurnsSound`: no ask to a managed agent is left without a worker or a dispatch on
  its way while nobody dies and no claim fails (`NoLostWakeup`, see section 4), a client is started at most once for an
  ask (`OneTurnPerAsk`), and what a user configured outside a turn stays
  (`ConfiguredAsTold`). Two agents, two workers, two asks, one crash or edit.
- `NotedWasPresented`, `NothingNotedAfterCancel`: the MCP server records a read for
  the agent it was written to and not after a processed cancellation.

Run `tools`:

- `ReleaseSound`: a published release consists of the assets of one accepted and
  attested distribution although uploads break off and are resumed; an entry that
  counts as complete was published; packages are stapled once.
- `SigningSound`: no secret stays behind unsaid, the receipt names what was submitted,
  archive and installer hold the binary that was signed.
- `InstallSound`: a build in use is left alone, a request is handled at most once, a
  store is set aside only when it was judged unused before.
- `LoginSound`: a worker is started for a valid request, in the desktop session, one at
  a time; a refused request leaves no job that could still be started, unless its worker
  had reported and only the answer was lost.
- `ChildrenSound`: what is taken for the output of a child is all it wrote, nobody waits
  for room in a pipe for good, and no signal goes to a group that is somebody else's.
- `InterfaceSound` (`Dashboard`, `TerminalInput`, `Frame`, `Answers`): the terminal is
  given back or the failure reported; the view shows what was asked last; keys are
  understood however they are cut; a frame fits every size and tears no wide glyph; what
  a client printed is an answer only when it is one whole answer. Sizes lie on both
  sides of every limit of the layout.
- `InboxSound`, `InboxKept`: what is recorded as delivered or read was written out
  before; the cursor passes over no ending that was not shown, except one that
  arrived behind it; a question gets one fallback; the urgent rows are exact; no
  receipt is taken back; a context with an ordinary message has all urgent ones.

Run `workbench`:

- `RegisteredSound` (`Setup`): a setup command that succeeds leaves record, clients and
  their files without what `doctor` calls drift, for its own program, and what the user
  wrote untouched. Whether the service still runs is not part of it. The client of the
  instance is codex, which is both enrolled and has a file of the user's edited; with
  all three clients the part has 950,000 states and holds too.
- `TextSound` (`Jsonc`, `Quoting`): every word of up to four of eleven characters, every
  document of two edits, against a reference definition. A PowerShell string with a
  typographic quote is excepted (section 4).
- `CheckedSound` (`Proving`, `CiScope`, `CiTasks`): a proof stands for the source and the
  tools that were used, for the tempers of a verifier that the module names; the job that
  waits for the others fails exactly when one that the change needs did not succeed, with
  the conditions of the workflows as they are written; heavy work runs where it is
  bounded, is passed on once, and a build gets a directory that does not hold the
  executable which asks for it. Of executables further up nothing is said: the third of
  nested tasks is given the first reserved directory again, as the repository's own test
  expects. That the cache is the user's again holds on Unix only. `MaxNesting` is 4, one
  more than what it takes for the directories to repeat. One change to the source or a
  tool may be made and put back.
- `StateFilesSound`: a record that was written is there, whole, after a power loss; an
  emptier reports what it leaves. What was set aside or removed is not synced, so a power
  loss may bring it back; a repeated grant of access may fail.
- `SnapshotSound`: what is unpacked elsewhere is the source that was archived, or it is
  refused; names stay apart, and files of dead calls do not add up.
- `ToolRunSound`: what is captured of a tool is all it wrote, and no process stays,
  whether or not the kill worked, unless the watcher says that its wait failed.
- `RoomsSound`: messages reach who is in the conversation, the name shown for an agent
  of a machine with alias or card names that agent, and threads page without gaps. The
  shortened origin that stands for any other machine is no address of it.

Run `progress`: `ObservationSound` (a handoff is observed once and by an agent that
was handed its body, and every host that admits the observation knows the handoff) and,
under fairness, `KillReturns`, `CallReturns` (every waiting ask returns),
`IdsFreed` (a request ID of the MCP server becomes free again), `CommitReaches` (a
commit leads to an exchange with each followed peer) and `StopReturns` (stopping a
follower never blocks the service for good).

### Fairness

- `RoundFairness` (`mesh`, `star`): a machine that lacks something of a peer it follows
  has a round with that peer concluded again and again. `follow` starts its wait with
  what the machine has seen, and the peer answers `Changed` at once while it has more, so
  the exchange is tried again; that a link which is tried for ever carries rounds through
  is assumed of the network. A round that does not end is broken off by its deadline.
  Rounds may break any number of times, and one that concludes may bring nothing. Nothing is assumed of a machine that has everything: its peer answers
  with heartbeats, and what it failed to push is not pushed again before a bell or a
  broken wait.
- `Fairness` of `Jobs` (`progress`): a process that is not killed goes on, and a lock
  that is free is taken by a process that waits for it. Nothing is assumed of the
  end of commands, of free slots (`Admit` is not fair), of new requests, or of the
  absence of failures and crashes.
- `TurnsFairness`: callers and workers go on. It includes the end of the client of a
  turn: `process/chat.rs` sets no limit of time, so that a client ends is an
  assumption about the AI client and not shown.
- The threads of the MCP server and of the service go on; a wait on a peer ends by
  its deadline.

### Bounds

Two machines are enough for overlapping rounds and racing endings, the third is
needed for missing dependencies and for placeholders. Two request processes and
two workers are enough for each pair of racing steps; a third request process
changed nothing for `jobs` (535,000 states). In the packed runs the counters of
crashes, failures and edits are 1 or 2: one to make a step fail, a second where the
recovery itself has to be interrupted. The output of codex is four events long, which is
what text of an earlier turn takes. The largest runs have between one and three
million states.

## 4. Where the code and its documentation disagree

Each of these runs ends in a counterexample; `findings` in `PROJECT.json` quotes
the line.

- `live`: `worker_using` records a failed launch after the worker lock is free. If
  the request that launched it has died and a second one launches another worker,
  the late record finishes the job as `launch_failed` under the live second worker,
  whose command is then started and killed without an outcome of its own.
- `waits`: `Store::wait` drops the worker lock before it asks for the status, which
  probes the lock again. When the worker died and a second request holds the lock
  for that moment, the first is answered with an unfinished state, which its client
  treats as an unexpected reply.
- `resubmit`: nobody who takes a lock checks that it belongs to the record that is at
  its path now. A request that waited for the launch lock of a removed record launches
  a worker for the next one. `set_aside_finished` gives up both locks before it
  renames, so that worker may take the worker lock of this record just before it is
  moved to the trash, and runs the record that is published after it with a lock that
  says nothing: the job counts as lost and is removed while its command runs.
- `presence`: `turn_started` admitted after the ending of its ask puts the ask back
  into the table of started asks, and nothing removes it again.
- `star`: a reply whose ask never reaches a machine is refused there, with every
  later event of the same author, although the author exchanges with that machine.

Smaller disagreements were met on the way. No run is kept for them; the models
follow the code.

- `follow` does not retry a failed exchange while heartbeats answer
  (`chat/serve.rs`), where `docs/chat-architecture.md:96` has unreachable peers
  retried with a back-off. `Delivery` does not need it, because the other side asks for
  what it lacks. Replacing a pinned peer makes the chief and the follower
  turn without pause (`serve.rs:83`).
- `finish` writes back the configuration its claim has read (`turns.rs:214`), and
  `claim` does not look at the mode of the agent (`turns.rs:156`).
- A worker whose claim fails drops the launch lock before the lock of its queue
  (`runner.rs:60`). A dispatch in between finds the queue held and starts nobody, so the
  ask waits for the next dispatch. `NoLostWakeup` counts a worker that ended this way with
  those that died.
- The commands for the hooks of codex double the tick in a PowerShell string
  (`process/chat.rs:79`), and so does the definition of the Windows task
  (`platform/service.rs`); PowerShell also ends such a string at the typographic quotes.
- The label of a machine without alias and card is the beginning of its origin
  (`address.rs:139`), which no address resolves and which another machine may have as
  its own name.
- The scope of a job is stopped by name. Besides the late reaper, a slot that still
  records the scope of an earlier run of the job stops the new run when its next holder
  prepares; `Undisturbed` excepts both.
- An ending that arrives below the read cursor is never shown as unread
  (`admin.rs:287`).
- Agents can wait for each other through separate chains (`ops.rs:780`); the asks
  end with their deadlines.
- `Book::conversation` prefers the only agent to two rooms of a name, and the only
  room to two agents, while one of each is refused as ambiguous (`address.rs:119`).
  Paging from a message that was cleaned starts over at the newest page
  (`ops.rs:1032`).
- `docs/dashboard.md:22`: Ctrl-C exits, but it is swallowed inside a sequence that is
  being discarded and inside a mouse report (`decoder.rs:73`).
- `main` goes on when it cannot hold its own build (`main.rs:290`), and pins are
  written without the selection lock (`builds.rs:288`, `builds.rs:328`); a removal
  that was interrupted leaves a build that admission refuses.
- A setup reads a configuration file and replaces it later: what the user saves in
  between is lost (`setup.rs:211`). `doctor` trusts the record and any holder of the
  service lock (`setup.rs:155`).
- The login hand-off has no limit of time, and a lost answer refuses a submission
  whose job runs (`login.rs:130`); a refusal of many multi-byte characters can exceed
  the length the caller reads (`login.rs:191`).
- A captured tool is killed without its descendants (`proof_tools.rs:290`); a tool
  that is changed and put back between two observations is not noticed.
- The hook before a push checks the working tree, not the commits that are pushed
  (`ci.rs:1166`).
- A file that is edited in place without changing its length while it is read gives
  a mixed copy that nothing notices (`source_archive.rs:139`).

## 5. What is proved

Every theorem below is about the specification of its component for every value of
the constants: any number of machines, agents, processes, jobs, rounds and events.
The assumptions are the named ones of the modules, which TLC evaluates in the runs;
the bounds of the instances are not used. TLC checked the statements, and most of the
inductive invariants, on small instances first.

| Module | Theorems |
| --- | --- |
| `Replication_proofs` | `Inductive` (`IndInv`), `TypeCorrect` (`TypeOK`), `AckCorrect` (`AckSound`), `CopyCorrect` (`FaithfulCopy`), `TablesAgree`, `EndingCorrect` (`EarliestEnding`), `NothingTakenBack` (`NeverTakenBack`), `CauseCorrect` (`CausallyClosed`), `UsageCorrect` (`UsageExact`), `ContinuesStored`, `HeldBackCorrect` (`OnlyHeldBack`), `CleanedCorrect` (`CleanedSound`), `DeliveredCorrect` (`CausallyDelivered`) |
| `Jobs_proofs` | `JobsTypeCorrect` (`TypeOK`), `LiveJobIsKept` (`LiveIsKept`), `WaitIsHarmless` (`WaitHarmless`), `StartedOnce` (`OncePerRecord`), `RemovedWhenSafe` (`RemovalIsSafe`), `ImplementsJobLife` (`LifeSpec`), `NewestAreKept` (`NewestKept`) |
| `Turns_proofs` | `TurnsCorrect` (`TurnsSound`) |
| `Processes_proofs` | `SlotsCorrect` (`SlotsSound`), `CommandUndisturbed` (`Undisturbed`), `LoginCorrect` (`LoginSound`), `ChildrenCorrect` (`ChildrenSound`) |
| `Reading_proofs` | `InboxCorrect` (`InboxSound`), `InboxKeeps` (`InboxKept`), `ObservationCorrect` (`ObservationSound`), `NotedCorrect` (`NotedWasPresented`), `CancelledNotesNothing` (`NothingNotedAfterCancel`) |
| `Builds_proofs` | `InstallCorrect` (`InstallSound`), `ReleaseCorrect` (`ReleaseSound`), `SigningCorrect` (`SigningSound`) |
| `Workshop_proofs` | `StateFilesCorrect` (`StateFilesSound`), `SnapshotCorrect` (`SnapshotSound`), `ToolRunCorrect` (`ToolRunSound`), `RoomsCorrect` (`RoomsSound`) |

### The ledgers

Neither `AckSound` nor `FaithfulCopy` is inductive. A late answer carries `seen`
and a batch from an earlier state of its sender, so rounds under way need an
invariant of their own: `RoundSound` says that a round claims no more than its
sender has stored, starts behind a position its receiver has reached and leaves no
position out, and that each event in it is the sender's own, or a placeholder for a
cleaned event that the receiver already holds. The second case arises when the sender
cleans while an offer is under way, and is excluded from being stored because
`Cleanable` asks for every acknowledgment: `CleanedAcknowledged` with `AckSound`
puts the event into the receiver's copy, so its placeholder can only meet the event
and be refused. `Consecutive` ties cursors to the lengths of the copies.

The step lemma `NextKeeps` has one lemma per action below it. The operations of
agents and workers are transactions that append one event or two to the own ledger
(`Writes`); a received batch extends the copy of its origin by a part of the batch
(`ReceiveExtends`, used by `ReceivedKeeps`). `Receive` runs over a batch as a
recursive function. Its lemmas are inductions over the set of positions up to which
the claim holds (`UpTo`), since the library's induction theorems take the claim as an
operator, which the provers cannot instantiate.

The tables are a second invariant on top, `Judged`, about one database at a time.
`Even` says that cursor, usage and clock fit the events. `Decided` says that an ask is
open exactly without an ending and that the entry of an ended ask is the earliest
(`InForce`). Two conjuncts make it inductive. An ending names an ask that is stored
here, or the ending would be judged without its ask. And a cleaned ask has an ending:
cleaning refuses open asks, so an ending that arrives after the cleaning is compared
with the entry that is left, and judged by the agents this entry remembers. That the
display order is a strict total order (`DisplayOrder`) then decides between the entry
and the newcomer (`CandidateWins`, `CandidateLoses`). `After` says that a machine's own
events have later clocks than what they refer to; with `FaithfulCopy` this holds of
every copy, although nobody who receives an event compares the two clocks.

Why a round stops (`OnlyHeldBack`) is the most that is proved of the exchange: the
receiver judges every event again, against its own tables, so each check of `Admit` has
to be met by something the author saw to. `RoundSound` leaves no gap, and `Timed` (in
`Even`) says that clocks grow along a log, so no clock runs backwards. A third invariant,
`Continued`, says that what a machine wrote about a message is in its conversation, and
ends or begins only an ask and in the name of an agent that may; a worker's claim has to
be an ask for this. What the author stored of the message is what its receiver has, or
will be refused as missing, because both copied it from the one who wrote it
(`CopiedSoFar`) and both are in its audience. `NextVerdict` puts this together for one
event and a receiver that has stored a part of the batch, `ReachedNext` and
`BatchExcused` for the batch. A message that is missing is not the sender's, whose
events come before it in the log (`After`, `Timed`), nor the receiver's own.

Assumed of the constants: the origins are finitely many naturals, every agent has a
home, threads have audiences and members, a batch holds at least one event, and no
link joins a machine to itself.

### Jobs

`Shape` (what a process may be doing, and that records have numbers of their own) holds
whatever is submitted. `Sound` is inductive when no submission returns after its
record was removed (`~Resubmitted`, a hypothesis of all theorems of the module but
`JobsTypeCorrect` and `NewestAreKept`; section 4 shows what happens without it). It
says what the two locks of a record exclude (`Exclusive`), that a launcher waits for a
worker of its own job (`Link`), that a job leaves `accepted` once and before anybody
relies on it (`Passed`, `Unstarted`), that the job of a worker which announced itself,
or can still do so, is active and no kill is about to finish it (`Live`), and that what
a removal has chosen stays finished between the moment both locks are given up and the
rename, because a worker that comes in between only looks at the record (`Removal`).
The refinement is proved step by step: every step of a request, worker, command or
reaper maps to a step of `JobLife` or to none. `JobLife` has no fairness, so this is
the whole of `LifeSpec`. `NewestAreKept` rests on
`Retained`: of every record an admission is still going to remove there are enough
newer finished ones that it leaves. It survives the jobs that finish during the sweep
and needs finitely many jobs, of which the code removes the oldest first.

### The other components

- *Slots.* It is not enough that a populated scope is recorded in some slot: two
  holders could both be about to overwrite its records. `Secured` asks for a record
  whose holder is not preparing. The exceptions of section 3 (a launcher or command
  that outlived its worker, runs of the same job) are part of the properties.
- *Turns.* `NoLostWakeup` is an argument about the two locks of an agent: a dispatch
  passes over an agent only while it holds the launch lock and has seen the queue lock
  held, and the holder of the queue cannot leave without the launch lock unless its claim
  failed (`LocksHeld`, `AnnouncedHasWorker`). An agent that was removed and is started again
  needs that a triage of the open asks is still coming (`TriageComing`).
- *Inbox.* The read cursor jumps over messages. `EndingsCovered` keeps, of every read
  that has not ended, that each ending before a selected message was selected, passed
  before, or late. The urgent table is exact after cleaning because only a settlement
  records the last stage (`AcknowledgedIsSettled`).
- *Handoffs.* All observations of an agent are written on its machine (`ReadAtHome`),
  where the table of reads is looked up in the transaction that writes one. Its clock
  follows everything stored there (`ClocksFollow`), so an observation comes after its
  handoff, and whoever stores the one holds the other.
- *MCP.* The table of request IDs names only calls that were accepted
  (`ActiveWasAccepted`), so no request starts the thread of a cancelled call afresh
  with its flag reset.
- *Login.* The serve, alive and launch locks make service, worker and request the only
  ones of their kind (`ServesAlone`, `CallersInOrder`). The hard part is a refused
  request whose job runs all the same: whoever holds the launch lock took it while the
  job was accepted, so a request that had reached a service before has died since
  (`DiedBefore`), and a request that is refused after its own worker reported was
  refused because the thread of the service died (`RefusedLeaves`).
- *Children.* Every byte written to a pipe is kept, dropped or still in the pipe, and a
  reader that met the end leaves nothing in it and nobody who could write
  (`StreamsInOrder`). The identifier of a group is given away only after the mutex of
  the child says that the leader was taken (`GroupInOrder`).
- *Install.* `UnsentNotServed`: at every point from which a request may be sent again it
  has no node and was not served. `JudgedBefore`: of a job whose store is in place,
  whoever counts this store among the judged ones judged it before the job began.
- *Release.* The concurrency group lets one job at a time work on an entry (`OneJob`),
  and nothing that was uploaded, accepted, attested or published is taken back
  (`Grows`), so what a job has compared (`JobsSound`) still holds when it publishes. A
  second draft of the same tag is not told apart from the first.
- *Signing.* Keys are an argument about the order of the cleanup (`KeysInOrder`), bytes
  one about files that change: a changed file stays changed, so a file that was compared
  twice with the same digest was the same in between (`SubmissionInOrder`,
  `PackingInOrder`).
- *State files.* Whatever had the name of the record since the directory was last synced
  is whole and synced (`BodiesInOrder`), and once a write has returned the first record
  is not among it (`NamesInOrder`); so it does not matter which of it a power loss
  leaves. Finitely many writers and discarded directories are assumed.
- *Snapshot.* `PathsInOrder` follows a file that belongs to the source and is not edited
  from the listing into the archive, `Incoming` the archive over the line: what a node
  has is the beginning of what was sent unless the line failed, and all of it once the
  digest was compared. `LockInOrder` keeps the file of the holder of the lock.
- *Tool runs.* `Watched` says at each place what the watcher may conclude: output that
  was looked at after the exit was seen is final. `ClaimsApart` is the exclusive
  creation of the claim file.
- *Rooms.* `WalkInOrder`: above the place of a walk everything that was in the thread at
  its start was seen. A label is an alias or card of its machine, which resolves to that
  machine, perhaps among others, or a shortened origin, which is looked up among aliases
  and cards only.

### Only model-checked

- Liveness is out of the prover's reach: `Delivery`, `KillReturns`, `CallReturns`,
  `IdsFreed`, `CommitReaches`, `StopReturns`.
- `InterfaceSound`, `TextSound`, `CheckedSound`, `RegisteredSound`. `Jsonc`, `Quoting`,
  `Frame`, `TerminalInput` and `Answers` compare an algorithm with a reference over
  bounded inputs, by recursion over data, which cannot be proved here. So is what
  `Setup` makes of a document (`CompactForeign` is a fold over its groups), on which both
  `SetupHeals` and `EntriesKept` rest. `Dashboard`, `Proving`, `CiScope` and `CiTasks`
  have no proofs: what they range over (the screens, tools and checks the code knows) is
  mostly fixed by the code, so a theorem about all constants would add less there than
  elsewhere.

## 6. What is not modelled

- *Wire and ingress.* A call is answered or breaks. Framing and decoding are pure,
  total functions with their own proofs and fuzzers in the repository.
- *Process groups on Windows.* The job object of Windows is not told apart from a
  Unix process group. The memory limits of a policy are values handed to systemd.
- *Access control* on files is modelled as far as it makes a reader or a writer
  refuse; access lists themselves are not.
- *Command line and views*: parsing of arguments and layout of text.
- *Bytes.* The capacity limits of the ledger are counted in events (`UsageExact`); the
  byte counters that go with them are not modelled. Of `Install` no property says that a
  pinned build is kept.
- *Contents* of packages, manifests, notes and tool reports: a file is what it was
  made from, a report is accepted or not.
- *Reset of a chat store and identities*: peers have fixed identities except in
  `Service`, where a peer may be pinned anew.
- *Lints of the repository over its own text* (`xtask/src/ownership.rs`,
  `dependencies.rs`, `comments.rs` and others) have no state.

## 7. The plan

Done: all modules of section 2 with their runs, and the proofs of section 5.

Left, the most important first: the capacity of the ledger at its limit
(`policy.rs:82`), theorems about `Dashboard` and the service half of `Setup`, and
identities and reset.
