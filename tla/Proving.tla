------------------------------ MODULE Proving ------------------------------
(***************************************************************************)
(* A verification of the sources (xtask/src/verification.rs,               *)
(* resource_proofs.rs and resource_proofs/): the fingerprint of the        *)
(* sources, the refinement check, the inventory of proofs against the      *)
(* proofs the sources declare, the model and its replay, every proof and   *)
(* every negative control in an attempt of its own with its tools bound    *)
(* around it (ToolBinding), the fuzz corpora, and the fingerprint again.   *)
(* Anyone may edit the sources meanwhile.                                  *)
(***************************************************************************)
EXTENDS ToolBinding, Sequences

CONSTANTS
  Sources,           \* states of the source tree
  Declared(_),       \* the proofs a source declares, the sequence its inventory registers,
  Registered(_),     \* and the negative controls among them
  Negatives,
  Holds(_),          \* the proofs that hold of a source
  Sane(_, _),        \* what the other checks find: the refinement, the model, its traces, the
                     \* corpora
  FamilyOf(_),       \* the part of the inventory a proof is of, and the file it is in
  GroupOf(_),
  Selectors,         \* the commands
  Tempers            \* how the verifier answers

VARIABLES
  source,            \* the source tree, and every state it has had
  sourceBeen,
  selector,          \* the command, and the verifier it meets
  temper,
  todo,              \* what is left to do
  fingerprint,       \* the source at first
  inventory,         \* the registered proofs as they were read
  attemptAt,         \* where an attempt is
  binding,           \* the tools it bound
  ranWith,           \* the tools and the sources that were there while it ran
  ranOn,
  report,
  proved,            \* proofs and controls whose attempts were accepted
  failed,            \* something was refused
  finding

sourceVars == <<source, sourceBeen>>
trialVars == <<attemptAt, binding, ranWith, ranOn, report>>
provingVars == <<bindingVars, sourceVars, selector, temper, todo, fingerprint, inventory,
                 trialVars, proved, failed, finding>>

NoBinding == [selection |-> NotSeen, files |-> NotSeen]
NoReport == [exit |-> "none", results |-> <<>>, fixed |-> FALSE]
Task(do, names) == [do |-> do, names |-> names]

ProvingInit ==
  /\ BindingInit
  /\ source \in Sources /\ sourceBeen = {source}
  /\ selector \in Selectors /\ temper \in Tempers
  /\ todo = <<Task("refinement", {}), Task("manifest", {}), Task("discover", {})>>
  /\ fingerprint = source /\ inventory = {}
  /\ attemptAt = "none" /\ binding = NoBinding /\ ranWith = {} /\ ranOn = {} /\ report = NoReport
  /\ proved = {} /\ failed = FALSE /\ finding = "none"

-----------------------------------------------------------------------------
EditSource ==
  /\ finding = "none"
  /\ source' \in Sources \ {source}
  /\ \/ meddling < MaxMeddling /\ meddling' = meddling + 1
     \/ restored = {} /\ source' \in sourceBeen /\ UNCHANGED meddling
  /\ sourceBeen' = sourceBeen \cup {source'}
  /\ restored' = restored \cup (IF source' \in sourceBeen THEN {"source"} ELSE {})
  /\ ranOn' = IF attemptAt = "running" THEN ranOn \cup {source'} ELSE ranOn
  /\ UNCHANGED <<tools, toolsBeen, captureVars, selector, temper, todo, fingerprint, inventory,
                 attemptAt, binding, ranWith, report, proved, failed, finding>>

Meddle ==
  /\ finding = "none"
  /\ ChangeTools
  /\ ranWith' = IF attemptAt = "running" THEN ranWith \cup {tools'} ELSE ranWith
  /\ UNCHANGED <<sourceVars, selector, temper, todo, fingerprint, inventory, attemptAt, binding,
                 ranOn, report, proved, failed, finding>>

-----------------------------------------------------------------------------
\* The first error skips everything that is left but the fingerprint at the end.
Do(do) == todo # <<>> /\ Head(todo).do = do /\ attemptAt = "none"
Carry(ok, rest) == failed' = ~ok /\ todo' = IF ok THEN rest ELSE <<>>

\* check_parent_refinement
Refinement ==
  /\ Do("refinement")
  /\ Carry(Sane("refinement", source), Tail(todo))
  /\ UNCHANGED <<bindingVars, sourceVars, selector, temper, fingerprint, inventory, trialVars,
                 proved, finding>>

NamesIn(registered) == {registered[i] : i \in DOMAIN registered}

\* register_proof, expected_proofs: no proof twice.
RegisteredOnce(registered) == Cardinality(NamesIn(registered)) = Len(registered)

\* inventory: the manifest is read; it has proofs and controls.
Manifest ==
  /\ Do("manifest")
  /\ inventory' = NamesIn(Registered(source))
  /\ Carry(/\ inventory' \ Negatives # {} /\ inventory' \cap Negatives # {}
           /\ RegisteredOnce(Registered(source)), Tail(todo))
  /\ UNCHANGED <<bindingVars, sourceVars, selector, temper, fingerprint, trialVars, proved,
                 finding>>

\* dispatch: the families of proofs a command is about.
FamiliesOf(sel) ==
  CASE sel = "parent-identity" -> {"exit policy", "parent identity"}
    [] sel = "parent-identity-encoder" -> {"exit policy", "parent encoder"}
    [] sel = "parent-identity-component" -> {"exit policy", "parent component"}
    [] sel = "native-default" -> {"native default"}
    [] sel = "e2e-input" -> {"input controller"}
    [] OTHER -> {}

\* A verification of everything takes the whole inventory.
Chosen(sel, names) == IF sel = "all" THEN names ELSE {n \in names : FamilyOf(n) \in FamiliesOf(sel)}

\* select_proof_pair, select_native_default: what a command is about must be registered.
SelectionComplete(sel, names) ==
  \A f \in FamiliesOf(sel) :
    LET of == {n \in names : FamilyOf(n) = f}
    IN  IF f = "input controller" THEN TRUE
        ELSE of \cap Negatives # {} /\ of \ Negatives # {}

Singles(set) == {{n} : n \in set}
Groups(set) == {{h \in set : GroupOf(h) = g} : g \in {GroupOf(h) : h \in set}}

\* A set in some order.
Listing(sets) == CHOOSE q \in [1..Cardinality(sets) -> sets] : \A s \in sets : \E i \in DOMAIN q : q[i] = s

\* run_inventory: the positive proofs in groups by their file, then every control alone.
Attempts(names) ==
  LET positive == Listing(Groups(names \ Negatives))
      negative == Listing(Singles(names \cap Negatives))
  IN  [i \in DOMAIN positive |-> Task("positive", positive[i])]
        \o [i \in DOMAIN negative |-> Task("negative", negative[i])]

\* source_proofs, standalone_proofs: what the sources declare must be what is registered,
\* neither more nor less.
Discovered(declared, registered) == declared = registered

\* run, native_default, parent_identity and the like: what follows the inventory.
ProofProgram(names) ==
  LET whole == selector = "all"
  IN  (IF whole THEN <<Task("model", {}), Task("traces", {})>> ELSE <<>>)
        \o Attempts(names) \o (IF whole THEN <<Task("fuzz", {})>> ELSE <<>>)

Discover ==
  /\ Do("discover")
  /\ LET names == Chosen(selector, inventory)
     IN  Carry(/\ Discovered(Declared(source), inventory)
               /\ SelectionComplete(selector, inventory)
               /\ names \ Negatives # {},
               ProofProgram(names))
  /\ UNCHANGED <<bindingVars, sourceVars, selector, temper, fingerprint, inventory, trialVars,
                 proved, finding>>

SanityCheck(do) ==
  /\ Do(do)
  /\ Carry(Sane(do, source), Tail(todo))
  /\ UNCHANGED <<bindingVars, sourceVars, selector, temper, fingerprint, inventory, trialVars,
                 proved, finding>>

\* What the model checker says of the invariant of the model, and of a false one.
ModelAnswer(invariant) ==
  CASE temper = "yes" -> "ok"
    [] temper = "no" -> "violation"
    [] OTHER -> IF invariant = "durable" /\ Sane("model", source) THEN "ok" ELSE "violation"

\* model_positive, model_negative
ModelAdmitted == ModelAnswer("durable") = "ok" /\ ModelAnswer("false") = "violation"

\* verify_model: the invariant holds, and a false one is refused with its first state.
VerifyModel ==
  /\ Do("model")
  /\ Carry(ModelAdmitted, Tail(todo))
  /\ UNCHANGED <<bindingVars, sourceVars, selector, temper, fingerprint, inventory, trialVars,
                 proved, finding>>

\* generate_traces, replay: every trace of the model is one of the code.
ReplayTraces == SanityCheck("traces")

\* replay_fuzz
ReplayFuzz == SanityCheck("fuzz")

-----------------------------------------------------------------------------
\* attempt: new evidence, and the tools are captured.
BeginAttempt ==
  /\ Do("positive") \/ Do("negative")
  /\ attemptAt' = "capture" /\ slot' = "before" /\ sightings' = NoSightings
  /\ UNCHANGED <<installationVars, draft, sourceVars, selector, temper, todo,
                 fingerprint, inventory, binding, ranWith, ranOn, report, proved, failed, finding>>

CaptureStep ==
  /\ attemptAt \in {"capture", "recheck"} /\ slot # "ended"
  /\ Observe1
  /\ UNCHANGED <<sourceVars, selector, temper, todo, fingerprint, inventory, trialVars, proved,
                 failed, finding>>

\* Without a binding nothing runs, and the tools are observed once more all the same.
BindTools ==
  /\ attemptAt = "capture" /\ slot = "ended"
  /\ slot' = "idle" /\ sightings' = NoSightings
  /\ IF CaptureAdmitted
     THEN /\ binding' = Captured /\ attemptAt' = "running"
          /\ ranWith' = {tools} /\ ranOn' = {source} /\ UNCHANGED failed
     ELSE /\ attemptAt' = "again" /\ failed' = TRUE /\ UNCHANGED <<binding, ranWith, ranOn>>
  /\ UNCHANGED <<installationVars, draft, sourceVars, selector, temper, todo,
                 fingerprint, inventory, report, proved, finding>>

\* What the verifier says of a proof.  The honest one looks at a source that was there.
Says(n, s) ==
  CASE temper = "yes" -> "Success"
    [] temper = "no" -> "Failure"
    [] n \notin Declared(s) -> "missing"
    [] n \in Holds(s) -> IF n \in Negatives THEN "Failure" ELSE "Success"
    [] OTHER -> IF n \in Negatives THEN "Success" ELSE "Failure"

\* The report of the names asked for; one that repeats itself names the first throughout.
ReportOf(order, on) ==
  [i \in DOMAIN order |->
     LET n == order[IF temper = "repeats" THEN 1 ELSE i] IN [name |-> n, status |-> Says(n, on[n])]]

ExitOf(results) ==
  CASE \E i \in DOMAIN results : results[i].status = "missing" -> "other"
    [] \E i \in DOMAIN results : results[i].status = "Failure" -> "one"
    [] OTHER -> "zero"

Run ==
  /\ attemptAt = "running" /\ todo # <<>>
  /\ \E on \in [Head(todo).names -> ranOn], with \in ranWith :
       LET order == Listing(Head(todo).names)
           results == ReportOf(order, on)
       IN  report' = [exit |-> ExitOf(results), results |-> results, fixed |-> VersionsFixed(VersionSaid(with))]
  /\ attemptAt' = "report"
  /\ UNCHANGED <<bindingVars, sourceVars, selector, temper, todo, fingerprint, inventory, binding,
                 ranWith, ranOn, proved, failed, finding>>

-----------------------------------------------------------------------------
\* exit_policy::admitted
ExitAdmitted(do, exit) == exit = (IF do = "positive" THEN "zero" ELSE "one")

\* check_positive: as many results as proofs, and each proof has one, a success.
CheckPositive(r, names) ==
  /\ Len(r.results) = Cardinality(names)
  /\ \A n \in names : Cardinality({i \in DOMAIN r.results : r.results[i].name = n}) = 1
  /\ \A i \in DOMAIN r.results : r.results[i].status = "Success"

\* check_negative: one result, of the control, and it is the expected counterexample.
CheckNegative(r, names) ==
  /\ Len(r.results) = 1
  /\ r.results[1].name \in names /\ r.results[1].status = "Failure"

\* BackendReport::observation_names: no name twice.
NamesUnique(r) == \A i, j \in DOMAIN r.results : r.results[i].name = r.results[j].name => i = j

\* DefaultReportExpectation::validate: the report was made by the release that was bound.
ReportFits(r) == NamesUnique(r) /\ r.fixed

AdmitReport(r, t) ==
  /\ ExitAdmitted(t.do, r.exit) /\ ReportFits(r)
  /\ IF t.do = "positive" THEN CheckPositive(r, t.names) ELSE CheckNegative(r, t.names)

\* execute: whatever the report says, the tools are checked again.
AdmitResults ==
  /\ attemptAt = "report"
  /\ failed' = ~AdmitReport(report, Head(todo))
  /\ attemptAt' = "again"
  /\ UNCHANGED <<bindingVars, sourceVars, selector, temper, todo, fingerprint, inventory, binding,
                 ranWith, ranOn, report, proved, finding>>

CaptureAgain ==
  /\ attemptAt = "again"
  /\ attemptAt' = "recheck" /\ slot' = "before"
  /\ UNCHANGED <<installationVars, draft, sightings, sourceVars, selector, temper, todo,
                 fingerprint, inventory, binding, ranWith, ranOn, report, proved, failed, finding>>

\* NativeDefaultBinding::recheck: captured again, and the same.
Rechecked == CaptureAdmitted /\ Captured = binding

\* checked_binding
EndAttempt ==
  /\ attemptAt = "recheck" /\ slot = "ended"
  /\ attemptAt' = "none" /\ slot' = "idle" /\ sightings' = NoSightings
  /\ Carry(~failed /\ Rechecked, Tail(todo))
  /\ proved' = IF ~failed /\ Rechecked THEN proved \cup Head(todo).names ELSE proved
  /\ binding' = NoBinding /\ ranWith' = {} /\ ranOn' = {} /\ report' = NoReport
  /\ UNCHANGED <<installationVars, draft, sourceVars, selector, temper, fingerprint,
                 inventory, finding>>

-----------------------------------------------------------------------------
\* unchanged_source, bound_attempt: the fingerprint is taken again after a failure too.
UnchangedSource == source = fingerprint

ConcludeProofs ==
  /\ todo = <<>> /\ attemptAt = "none" /\ finding = "none"
  /\ finding' = IF ~failed /\ UnchangedSource THEN "verified" ELSE "refused"
  /\ UNCHANGED <<bindingVars, sourceVars, selector, temper, todo, fingerprint, inventory,
                 trialVars, proved, failed>>

ProvingNext ==
  \/ EditSource \/ Meddle
  \/ Refinement \/ Manifest \/ Discover \/ VerifyModel \/ ReplayTraces \/ ReplayFuzz
  \/ BeginAttempt \/ CaptureStep \/ BindTools \/ Run \/ AdmitResults \/ CaptureAgain \/ EndAttempt
  \/ ConcludeProofs

ProvingSpec == ProvingInit /\ [][ProvingNext]_provingVars

-----------------------------------------------------------------------------
ProvingTypeOK ==
  /\ tools \in ToolStates /\ meddling \in 0..MaxMeddling
  /\ source \in Sources /\ slot \in Slots \cup {"idle", "ended"}
  /\ attemptAt \in {"none", "capture", "running", "report", "again", "recheck"}

\* An attempt about to be accepted ran with the tools it was bound to, from its start to
\* its end, unless something was put back to what it had been before the check looked.
RanAsBound ==
  attemptAt = "recheck" /\ slot = "ended" /\ ~failed /\ Rechecked /\ restored \subseteq {"source"}
    => \A t \in ranWith : Bound(t, binding)

\* A verification that succeeds says something true of the source it names: every proof of
\* the command that the source declares holds of it and every control fails in it, whoever
\* edited the source unless the edit was taken back, with an honest verifier and with one
\* that says yes, says no or repeats its first answer to everything.
VerifiedIsTrue ==
  finding = "verified" /\ "source" \notin restored
    => /\ proved = Chosen(selector, Declared(fingerprint))
       /\ proved \subseteq Holds(fingerprint)
       /\ proved \cap Negatives # {}

\* A verification of the sources (verification.rs, resource_proofs.rs, proof_tools.rs): an
\* accepted attempt ran with the tools bound to it, and a verified source is what the
\* verification says of it.
ProvingSound == ProvingTypeOK /\ RanAsBound /\ VerifiedIsTrue
=============================================================================
