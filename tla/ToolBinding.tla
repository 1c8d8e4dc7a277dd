----------------------------- MODULE ToolBinding -----------------------------
(***************************************************************************)
(* The tools of a proof, bound before it and checked again after it        *)
(* (xtask/src/proof_tools.rs, proof_tools/native_default.rs).  A capture   *)
(* observes the selection of the tools, the files they consist of, and, in *)
(* a child of its own that observes both again around the versions it asks *)
(* for, what they say they are; then files and selection once more.        *)
(* Nothing is locked: the installation may change between any two of these *)
(* steps, also in place while a file is being read, and may be put back.   *)
(***************************************************************************)
EXTENDS Naturals, FiniteSets

CONSTANTS
  MaxMeddling        \* bound on changes of the tools and of the source to something new, and
                     \* on observations that fail although nothing is wrong; beyond it one
                     \* change is put back

VARIABLES
  tools,             \* the installation, piece by piece
  toolsBeen,         \* every value a piece has had
  restored,          \* pieces that were put back to a value they had before
  meddling,
  slot,              \* the observation a capture is at, and within it
  draft,
  sightings          \* what each observation returned

installationVars == <<tools, toolsBeen, restored, meddling>>
captureVars == <<slot, draft, sightings>>
bindingVars == <<installationVars, captureVars>>

\* What is installed: a variable that controls the execution of tools, the rest of the
\* environment, the links to the programs, the support files of the target, and one program
\* as the inode and the two blocks it is read by.  Contents 2 are those of another release
\* and contents 3 those of another machine.
ToolStates ==
  [control : 0..1, environment : 0..1, links : {"straight", "turned", "cyclic"},
   support : {"built", "library", "stranger", "huge"}, inode : 0..1, first : 0..3, second : 0..3]

Installed == [control |-> 0, environment |-> 0, links |-> "straight", support |-> "built",
              inode |-> 0, first |-> 0, second |-> 0]

NotSeen == [kind |-> "not seen"]
Declined == [kind |-> "refused"]
Slots == {"before", "files", "child before", "child files", "versions", "child files again",
          "child after", "files again", "after"}
NoSightings == [s \in Slots |-> NotSeen]

BindingInit ==
  /\ tools = Installed /\ toolsBeen = [p \in DOMAIN Installed |-> {Installed[p]}]
  /\ restored = {} /\ meddling = 0
  /\ slot = "idle" /\ draft = NotSeen /\ sightings = NoSightings

-----------------------------------------------------------------------------
\* Someone else installs, links or exports something, or puts it back.
Installing(new) ==
  /\ \/ meddling < MaxMeddling /\ meddling' = meddling + 1
     \/ restored = {} /\ (\A p \in DOMAIN new : new[p] \in toolsBeen[p]) /\ UNCHANGED meddling
  /\ tools' = new
  /\ restored' = restored \cup {p \in DOMAIN new : new[p] # tools[p] /\ new[p] \in toolsBeen[p]}
  /\ toolsBeen' = [p \in DOMAIN new |-> toolsBeen[p] \cup {new[p]}]

ChangeTools ==
  /\ \/ \E c \in 0..1 \ {tools.control} : Installing([tools EXCEPT !.control = c])
     \/ \E e \in 0..1 \ {tools.environment} : Installing([tools EXCEPT !.environment = e])
     \/ \E l \in {"straight", "turned", "cyclic"} \ {tools.links} : Installing([tools EXCEPT !.links = l])
     \/ \E s \in {"built", "library", "stranger", "huge"} \ {tools.support} :
          Installing([tools EXCEPT !.support = s])
     \/ \E b \in 0..3 \ {tools.first} :
          Installing([tools EXCEPT !.inode = 1 - @, !.first = b, !.second = b])
     \/ \E b \in 0..3 \ {tools.first} : Installing([tools EXCEPT !.first = b])
     \/ \E b \in 0..3 \ {tools.second} : Installing([tools EXCEPT !.second = b])
  /\ UNCHANGED captureVars

-----------------------------------------------------------------------------
\* selection_link: a chain of links that comes back to one of them is refused.
LinksEnd(links) == links # "cyclic"

\* default_selection: no variable that controls the execution may be set; the environment,
\* the links and the programs they lead to are what is selected.
SelectionAdmits(t) == t.control = 0 /\ LinksEnd(t.links)

SelectionOf(t) == [kind |-> "selection", control |-> t.control, environment |-> t.environment,
                   links |-> t.links]

\* Budget::include: members and bytes are counted, and both are bounded.
WithinBudget(support) == support # "huge"

\* default_support_directory: only registered members.
SupportAdmits(support) == support # "stranger" /\ WithinBudget(support)

\* native_default::object: the first bytes are those of a program of this machine.
ObjectFits(first) == first # 3

\* default_files: the required programs and the support files, each with its identity and
\* what was read of it.
FilesOf(t, first, second) ==
  [kind |-> "files", support |-> t.support, inode |-> t.inode, first |-> first,
   second |-> second]

\* DefaultVersionProbe: every program is run for its version, which is in its first block.
VersionSaid(t) == IF t.first \in {2, 3} THEN "another" ELSE "the fixed release"

\* DefaultVersions::validate: what the tools say they are is the fixed release.
VersionsFixed(said) == said = "the fixed release"

-----------------------------------------------------------------------------
\* observe_using, capture_using and emit_default_versions: what comes after an observation.
\* A refusal skips what depends on it, and never the observation that closes the pair.
SlotAfter(s, refused) ==
  CASE s = "before" -> IF refused THEN "after" ELSE "files"
    [] s = "files" -> IF refused THEN "files again" ELSE "child before"
    [] s = "child before" -> IF refused THEN "child after" ELSE "child files"
    [] s = "child files" -> IF refused THEN "child files again" ELSE "versions"
    [] s = "versions" -> "child files again"
    [] s = "child files again" -> "child after"
    [] s = "child after" -> "files again"
    [] s = "files again" -> "after"
    [] OTHER -> "ended"

See(value) ==
  /\ sightings' = [sightings EXCEPT ![slot] = value]
  /\ slot' = SlotAfter(slot, value = Declined)
  /\ draft' = NotSeen

\* An observation may be refused for what is not modelled: a tool that does not answer in
\* time, a file that cannot be read.
SeeOrRefuse(value) ==
  /\ \/ See(value) /\ UNCHANGED meddling
     \/ value # Declined /\ meddling < MaxMeddling /\ meddling' = meddling + 1 /\ See(Declined)
  /\ UNCHANGED <<tools, toolsBeen, restored>>

\* default_context: mise is asked for the provider and its proxy before the child selects.
LookUp ==
  /\ slot \in {"before", "after"} /\ draft = NotSeen
  /\ draft' = [kind |-> "provider", links |-> tools.links]
  /\ UNCHANGED <<installationVars, slot, sightings>>

\* The child selects, and must have found the programs of that provider.
Select ==
  /\ slot \in {"before", "after"} /\ draft # NotSeen
  /\ SeeOrRefuse(IF SelectionAdmits(tools) /\ tools.links = draft.links
                 THEN SelectionOf(tools) ELSE Declined)

\* emit_default_versions: the child that asks for the versions selects for itself.
SelectAgain ==
  /\ slot \in {"child before", "child after"}
  /\ SeeOrRefuse(IF SelectionAdmits(tools) THEN SelectionOf(tools) ELSE Declined)

FileSlots == {"files", "child files", "child files again", "files again"}

\* default_file: a file is opened under the identity it has, and read.
OpenFile ==
  /\ slot \in FileSlots /\ draft = NotSeen
  /\ draft' = FilesOf(tools, tools.first, tools.first)
  /\ UNCHANGED <<installationVars, slot, sightings>>

\* The identity must still be the one it was opened under; a change in place does not show.
FinishFile ==
  /\ slot \in FileSlots /\ draft # NotSeen
  /\ SeeOrRefuse(IF /\ SupportAdmits(draft.support) /\ ObjectFits(draft.first)
                    /\ tools.inode = draft.inode
                 THEN [draft EXCEPT !.second = tools.second] ELSE Declined)

\* native_default_versions: the markers and every program's own word.
AskVersions ==
  /\ slot = "versions"
  /\ SeeOrRefuse(IF VersionsFixed(VersionSaid(tools)) THEN [kind |-> "versions"] ELSE Declined)

Observe1 == LookUp \/ Select \/ SelectAgain \/ OpenFile \/ FinishFile \/ AskVersions

-----------------------------------------------------------------------------
Sighted(s) == sightings[s] \notin {NotSeen, Declined}

\* DefaultFiles::eq, same_default_file
SameFiles(a, b) == sightings[a] = sightings[b]

\* DefaultVersionObservation::admit: before and after, the child saw what was expected.
ChildExpected ==
  /\ sightings["child before"] = sightings["before"]
  /\ sightings["child after"] = sightings["before"]

\* default_versions: the child answered, and it saw one installation.
ChildAdmitted ==
  /\ \A s \in {"child before", "child files", "versions", "child files again", "child after"} : Sighted(s)
  /\ SameFiles("child files", "child files again")
  /\ ChildExpected

\* NativeDefaultBinding::capture_using
CaptureAdmitted ==
  /\ \A s \in {"before", "files", "files again", "after"} : Sighted(s)
  /\ ChildAdmitted
  /\ SameFiles("files", "files again")
  /\ sightings["before"] = sightings["after"]

Captured == [selection |-> sightings["before"], files |-> sightings["files"]]

\* An installation is the one a binding names.
Bound(t, b) == SelectionOf(t) = b.selection /\ FilesOf(t, t.first, t.second) = b.files
=============================================================================
