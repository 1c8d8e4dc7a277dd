------------------------------- MODULE CiScope -------------------------------
(***************************************************************************)
(* What a change has to pass (xtask/src/ci.rs).  The changed paths select  *)
(* a plan, a set of checks; everything the planner cannot tell apart       *)
(* selects the full plan.  On a hosted workflow the plan is the output of  *)
(* the job `changes`, the other jobs run or are skipped by it, and a gate  *)
(* judges their results.  Before a push a hook plans for every ref that    *)
(* goes out and for what lies in the working tree, and runs the commands   *)
(* itself.  One behaviour is one workflow or one push.                     *)
(***************************************************************************)
EXTENDS Naturals, Sequences, FiniteSets

CONSTANTS
  Workflows,       \* the workflows that are run
  Hosts,           \* the systems a hook runs on
  DeskKinds,       \* the kinds of paths that change in a working tree
  MaxPaths,        \* bound on the changed kinds of paths of one ref
  MaxRefs,         \* bound on the refs of a push
  MaxReruns,       \* bound on failed jobs that are run again
  MaxEditing       \* bound on edits of the working tree during a hook

ASSUME ScopeAssumption ==
  /\ Workflows \subseteq {"ci", "codeql", "dependency-review", "scorecard"}
  /\ Hosts \subseteq {"unix", "windows"}

VARIABLES
  course,          \* the workflow, or "push"
  setting,         \* the event or host, and the refs with their changes
  needs,           \* the results of the jobs of the workflow
  planned,         \* the plan that was put out, if any
  performed,       \* commands that ended well, of jobs that did
  reruns,
  judged,         \* what the gate or the hook said
  desk,            \* the paths changed and the paths untracked in the working tree
  noticed,         \* what the hook has read
  cursor,          \* where the hook is
  editing

scopeVars == <<course, setting, needs, planned, performed, reruns, judged, desk, noticed,
               cursor, editing>>
flowVars == <<needs, reruns>>
hookVars == <<desk, noticed, cursor, editing>>

-----------------------------------------------------------------------------
Checks == {"docs", "workflows", "xtask", "xtask_native", "windows_contracts", "product",
           "dependencies", "dependency_review", "fuzz", "codeql_rust", "codeql_actions",
           "scorecard", "fleet"}

\* Plan: the constructors and the extensions of a plan.
NoPlan == {}
PlanDocs == {"docs"}
PlanFull == Checks \ {"fleet"}
PlanWorkflows == {"workflows", "xtask", "dependency_review", "codeql_actions", "scorecard"}
PlanXtask == {"workflows", "xtask", "codeql_rust"}
PlanNative == PlanXtask \cup {"xtask_native"}
PlanContracts == PlanNative \cup {"windows_contracts"}

\* A path stands for the rule of `classify` that meets it.
PathKinds == {"doc", "workflow", "contracts", "native", "tool", "product", "odd", "unreadable"}

SelectsFor(p) ==
  CASE p = "doc" -> PlanDocs
    [] p = "workflow" -> PlanWorkflows
    [] p = "contracts" -> PlanContracts
    [] p = "native" -> PlanNative
    [] p = "tool" -> PlanXtask
    [] OTHER -> PlanFull

ClassifyLast(kinds) ==
  IF kinds \cap {"product", "odd"} # {} THEN PlanFull
  ELSE IF "workflow" \in kinds THEN PlanDocs \cup PlanWorkflows
  ELSE PlanDocs \cup UNION {SelectsFor(p) : p \in kinds}

Classify(kinds) ==
  IF kinds \cap {"product", "odd"} # {} THEN PlanFull
  ELSE PlanDocs \cup UNION {SelectsFor(p) : p \in kinds}

\* Plan::decode: the flags are a plan only when the policy gives that plan.
Decodes(flags) ==
  flags = IF "product" \in flags THEN PlanFull
          ELSE PlanDocs
            \cup (IF "codeql_actions" \in flags THEN PlanWorkflows ELSE {})
            \cup (IF "codeql_rust" \in flags THEN PlanXtask ELSE {})
            \cup (IF "xtask_native" \in flags THEN PlanNative ELSE {})
            \cup (IF "windows_contracts" \in flags THEN PlanContracts ELSE {})

\* A ref that goes out: its own object, the object it replaces, the history
\* between the two and the paths that differ.
PushedRef ==
  [named : BOOLEAN, own : {"oid", "zero"}, other : {"oid", "zero"}, main : {"base", "head", "none"},
   history : {"linear", "merge", "initial", "diverged"},
   diff : {s \in SUBSET PathKinds : Cardinality(s) <= MaxPaths}]

\* changed, paths: an error when the objects, the history or a path is not plain.
Narrow(ref) == ref.history = "linear" /\ "unreadable" \notin ref.diff
Changed(ref) == Narrow(ref) /\ ref.own = "oid"

\* push_plan, new_branch_base: a new branch starts at the trusted main.
Pushes(ref) ==
  /\ ref.named /\ Changed(ref)
  /\ ref.other = "zero" => ref.main = "base"

\* scope_inputs and conservative: an error selects the full plan.
CiPlan(s) ==
  IF s.event \in {"push", "pull_request"} /\ ~s.fork /\ Changed(s.ref) /\ s.ref.other = "oid"
  THEN Classify(s.ref.diff)
  ELSE PlanFull

-----------------------------------------------------------------------------
\* static_checks, check_with, xtask_tests_with, test and scoped_hook.
StaticChecks == <<"fmt", "gates", "inventory", "typos", "workflow syntax", "duplication">>

CheckWith(plan) ==
  IF "product" \in plan THEN <<"lint">>
  ELSE IF "xtask" \in plan
       THEN <<"clippy:targets">> \o StaticChecks \o <<"xtask clippy">>
       ELSE <<"typos">>

XtaskTests(plan, host) ==
  (IF "windows_contracts" \in plan /\ host = "windows" THEN <<"windows-contracts">> ELSE <<>>)
    \o <<"xtask tests">>

TestCommands(plan) ==
  IF "product" \in plan THEN <<"clippy", "test">> ELSE <<"xtask clippy">> \o XtaskTests(plan, "unix")

ScopedHook(plan, host) ==
  CheckWith(plan) \o
    (IF "product" \in plan THEN <<"test">>
     ELSE IF "xtask" \in plan THEN XtaskTests(plan, host) ELSE <<>>)

\* output: without a Rust analysis the list of languages is never empty.
Languages(plan) ==
  (IF "codeql_rust" \in plan THEN <<"analyze rust">> ELSE <<>>)
    \o (IF "codeql_actions" \in plan \/ "codeql_rust" \notin plan THEN <<"analyze actions">> ELSE <<>>)

\* gate_jobs: the jobs of a workflow that the plan selects.
GateJobs(flow) ==
  CASE flow = "ci" -> {"changes", "lint", "deny", "vet", "test"}
    [] flow = "codeql" -> {"changes", "analyze"}
    [] flow = "dependency-review" -> {"changes", "review"}
    [] flow = "scorecard" -> {"changes", "analysis"}
    [] OTHER -> {}

Required(job, plan) ==
  CASE job \in {"changes", "lint"} -> TRUE
    [] job \in {"deny", "vet"} -> "dependencies" \in plan
    [] job = "test" -> "product" \in plan \/ "xtask" \in plan
    [] job = "analyze" -> "codeql_rust" \in plan \/ "codeql_actions" \in plan
    [] job = "review" -> "dependency_review" \in plan
    [] OTHER -> "scorecard" \in plan

\* The condition `if:` of a job in its workflow file, as the outputs of `changes`
\* of which one must be true; a job without a condition always runs.
Unconditional == {"lint"}
ConditionOf(job) ==
  CASE job \in {"deny", "vet"} -> {"dependencies"}
    [] job = "test" -> {"product", "xtask"}
    [] job = "analyze" -> {"codeql_rust", "codeql_actions"}
    [] job = "review" -> {"dependency_review"}
    [] OTHER -> {"scorecard"}
WantedJob(job, plan) == job \in Unconditional \/ ConditionOf(job) \cap plan # {}

\* The steps of the jobs as the workflow files state them.

StepsOfJob(job, plan) ==
  CASE job = "lint" -> CheckWith(plan)
    [] job = "deny" -> <<"deny", "audit">>
    [] job = "test" -> TestCommands(plan)
    [] job = "analyze" -> Languages(plan)
    [] OTHER -> <<job>>

-----------------------------------------------------------------------------
\* Only what the code distinguishes: one trouble at a time in a ref.
PlainRef(r) == r.named /\ r.own = "oid" /\ r.history = "linear" /\ r.main = "base"
OneTrouble(r) ==
  \/ PlainRef(r) /\ (r.other = "zero" => Cardinality(r.diff) <= 1)
  \/ r.diff = {"doc"} /\ Cardinality({i \in 1..4 : CASE i = 1 -> ~r.named
                                                     [] i = 2 -> r.own = "zero"
                                                     [] i = 3 -> r.history # "linear"
                                                     [] OTHER -> r.main # "base"}) = 1
RefOutcomes == {r \in PushedRef : OneTrouble(r)}

ScopeInit ==
  /\ course \in Workflows \cup {"push"}
  /\ \/ /\ course # "push"
        /\ \E e \in {"push", "pull_request", "merge_group"}, f \in BOOLEAN, r \in RefOutcomes :
             /\ r.named /\ r.main = "base"
             /\ r.diff # {"doc"} => e # "merge_group" /\ ~f /\ r.other = "oid"
             /\ setting = [event |-> e, fork |-> f, ref |-> r]
     \/ /\ course = "push"
        /\ \E h \in Hosts, n \in 0..MaxRefs : \E rs \in [1..n -> RefOutcomes] :
             /\ n = 2 => Cardinality(rs[1].diff) + Cardinality(rs[n].diff) <= MaxPaths
             /\ setting = [host |-> h, refs |-> rs]
  /\ needs = [j \in GateJobs(course) |-> "none"]
  /\ planned = NoPlan /\ performed = {} /\ reruns = 0 /\ judged = "none"
  /\ \E t, u \in {{}} \cup {{p} : p \in DeskKinds} :
       /\ course # "push" => t = {} /\ u = {}
       /\ t # {} /\ u # {} => Len(setting.refs) < 2
       /\ desk = [changed |-> t, untracked |-> u, first |-> t, lasting |-> u]
  /\ noticed = {} /\ cursor = 1 /\ editing = 0

\* The job `changes`, which may also fail before it plans.
RunChanges ==
  /\ course # "push" /\ needs["changes"] = "none"
  /\ \/ needs' = [needs EXCEPT !["changes"] = "success"] /\ planned' = CiPlan(setting)
     \/ needs' = [needs EXCEPT !["changes"] = "failure"] /\ UNCHANGED planned
  /\ UNCHANGED <<course, setting, performed, reruns, judged, hookVars>>

\* Another job: skipped when the plan is missing or does not want it; else its
\* commands all end well, or one fails or the job is cancelled.
RunCheckJob(job) ==
  /\ needs["changes"] # "none" /\ needs[job] = "none"
  /\ IF needs["changes"] # "success" \/ ~WantedJob(job, planned)
     THEN needs' = [needs EXCEPT ![job] = "skipped"] /\ UNCHANGED performed
     ELSE LET steps == StepsOfJob(job, planned) IN
          \/ /\ needs' = [needs EXCEPT ![job] = "success"]
             /\ performed' = performed \cup {steps[i] : i \in DOMAIN steps}
          \/ \E r \in {"failure", "cancelled"} : needs' = [needs EXCEPT ![job] = r]
             /\ UNCHANGED performed
  /\ UNCHANGED <<course, setting, planned, reruns, judged, hookVars>>

\* Failed jobs are run again, with the jobs that need them.
Rerun ==
  /\ judged = "refused" /\ reruns < MaxReruns /\ course # "push"
  /\ needs' = [j \in DOMAIN needs |->
                 IF needs[j] \in {"failure", "cancelled"} \/ needs["changes"] = "failure"
                 THEN "none" ELSE needs[j]]
  /\ needs' # needs
  /\ judged' = "none" /\ reruns' = reruns + 1
  /\ UNCHANGED <<course, setting, planned, performed, hookVars>>

\* verify_gate, on the plan the gate was given and the results of all jobs.
Passes(job, plan) == needs[job] = "success" \/ (~Required(job, plan) /\ needs[job] = "skipped")

Gate(given) ==
  /\ course # "push" /\ judged = "none"
  /\ \A j \in DOMAIN needs : needs[j] # "none"
  /\ judged' = IF /\ Decodes(given)
                   /\ \A j \in DOMAIN needs : Passes(j, given)
                   /\ planned = given
                THEN "passed" ELSE "refused"
  /\ UNCHANGED <<course, setting, needs, planned, performed, reruns, hookVars>>

\* PLAN_JSON is the output of `changes`; flags that were lost or added on the way.
Mangled == IF planned = NoPlan THEN {} ELSE {(planned \ {c}) \cup ({c} \ planned) : c \in Checks}

-----------------------------------------------------------------------------
\* hook, push_plan: one ref after the other; the first error ends the planning.
GivePlan(plan) ==
  /\ planned' = plan
  /\ cursor' = 1
  /\ UNCHANGED noticed

ReadRef ==
  /\ course = "push" /\ planned = NoPlan /\ cursor <= Len(setting.refs)
  /\ LET ref == setting.refs[cursor] IN
     IF Pushes(ref)
     THEN noticed' = noticed \cup ref.diff /\ cursor' = cursor + 1 /\ UNCHANGED planned
     ELSE GivePlan(PlanFull)
  /\ UNCHANGED <<course, setting, flowVars, performed, judged, desk, editing>>

\* The changes against HEAD; a push without refs is planned in full.
ReadTracked ==
  /\ course = "push" /\ planned = NoPlan /\ cursor = Len(setting.refs) + 1
  /\ IF setting.refs = <<>> \/ "unreadable" \in desk.changed
     THEN GivePlan(PlanFull)
     ELSE noticed' = noticed \cup desk.changed /\ cursor' = cursor + 1 /\ UNCHANGED planned
  /\ UNCHANGED <<course, setting, flowVars, performed, judged, desk, editing>>

\* The untracked paths complete the plan.
ReadUntracked ==
  /\ course = "push" /\ planned = NoPlan /\ cursor = Len(setting.refs) + 2
  /\ GivePlan(IF "unreadable" \in desk.untracked THEN PlanFull
              ELSE Classify(noticed \cup desk.untracked))
  /\ UNCHANGED <<course, setting, flowVars, performed, judged, desk, editing>>

\* The commands of the plan, in order; the first failure ends the hook.
HookCommand ==
  /\ course = "push" /\ planned # NoPlan /\ judged = "none"
  /\ LET todo == ScopedHook(planned, setting.host) IN
     IF cursor > Len(todo)
     THEN judged' = "passed" /\ UNCHANGED <<performed, cursor>>
     ELSE \/ /\ performed' = performed \cup {todo[cursor]} /\ cursor' = cursor + 1
             /\ UNCHANGED judged
          \/ judged' = "refused" /\ UNCHANGED <<performed, cursor>>
  /\ UNCHANGED <<course, setting, flowVars, planned, desk, noticed, editing>>

\* Somebody edits or stages a file while the hook reads.
EditDesk ==
  /\ course = "push" /\ planned = NoPlan /\ editing < MaxEditing
  /\ editing' = editing + 1
  /\ \/ \E p \in DeskKinds : desk' = [desk EXCEPT !.changed = @ \cup {p}]
     \/ \E p \in desk.untracked :
          desk' = [desk EXCEPT !.changed = @ \cup {p}, !.untracked = @ \ {p},
                               !.lasting = @ \ {p}]
  /\ UNCHANGED <<course, setting, flowVars, planned, performed, judged, noticed, cursor>>

ScopeNext ==
  \/ RunChanges
  \/ \E j \in DOMAIN needs \ {"changes"} : RunCheckJob(j)
  \/ Rerun
  \/ Gate(planned)
  \/ \E given \in Mangled : Gate(given)
  \/ ReadRef
  \/ ReadTracked
  \/ ReadUntracked
  \/ HookCommand
  \/ EditDesk

ScopeSpec == ScopeInit /\ [][ScopeNext]_scopeVars

-----------------------------------------------------------------------------
\* What docs/ci.md asks of a change: "Documentation changes run spelling
\* checks.  Workflow and task changes run the shared static checks,
\* cross-target Clippy, and the task package's native tests.  Product code
\* ... and unknown paths select the complete fast gate."
Everything == {"lint", "clippy", "test", "deny", "audit", "vet", "analyze rust", "analyze actions",
               "review", "analysis"}
Shared == {StaticChecks[i] : i \in DOMAIN StaticChecks} \cup {"clippy:targets", "xtask tests"}

Asks(p) ==
  CASE p = "doc" -> {"typos"}
    [] p = "workflow" -> Shared \cup {"analyze actions", "review", "analysis"}
    [] p = "contracts" -> Shared \cup {"xtask clippy", "analyze rust", "windows-contracts"}
    [] p \in {"native", "tool"} -> Shared \cup {"xtask clippy", "analyze rust"}
    [] OTHER -> Everything

\* What a command of a course does; the complete tasks hold the single ones.
Does(c) ==
  CASE c = "lint" -> {"lint", "clippy", "xtask clippy", "windows-contracts", "clippy:targets"}
                        \cup {StaticChecks[i] : i \in DOMAIN StaticChecks}
    [] c = "test" -> {"test", "xtask tests"}
    [] OTHER -> {c}
AllDone == UNION {Does(c) : c \in performed}

Here(c) ==
  CASE c = "ci" -> {"lint", "clippy", "test", "deny", "audit", "vet"} \cup Shared \cup {"xtask clippy"}
    [] c = "codeql" -> {"analyze rust", "analyze actions"}
    [] c = "dependency-review" -> {"review"}
    [] c = "scorecard" -> {"analysis"}
    [] OTHER -> {"lint", "test"} \cup Shared \cup {"xtask clippy"}
                  \cup (IF setting.host = "windows" THEN {"windows-contracts"} ELSE {})

InDoubt(s) == s.fork \/ s.event = "merge_group" \/ s.ref.own = "zero" \/ s.ref.other = "zero"
                \/ s.ref.history # "linear"
Asked ==
  IF course = "push"
  THEN UNION {Asks(p) : p \in desk.first \cup desk.lasting
                                \cup UNION {setting.refs[i].diff : i \in DOMAIN setting.refs}}
         \cup (IF \A i \in DOMAIN setting.refs : Pushes(setting.refs[i]) THEN {} ELSE Everything)
  ELSE UNION {Asks(p) : p \in setting.ref.diff} \cup (IF InDoubt(setting) THEN Everything ELSE {})

(***************************************************************************)
(* The scope never hides work.  A gate or a hook passes only after         *)
(* everything docs/ci.md asks of the changed paths ended well: whatever    *)
(* kinds of paths come together, whichever jobs were skipped, cancelled or *)
(* run again, with flags mangled on the way, and for every ref, every      *)
(* tracked change and every path that stayed untracked while a hook read   *)
(* (classify, changed, push_plan, gate_jobs, verify_gate).  And a gate     *)
(* that was given the plan as `changes` put it out refuses only when a     *)
(* job failed or was cancelled: no plan of `classify` contradicts          *)
(* `decode`, and a job that is skipped by the `if:` of its workflow file   *)
(* is one the gate does not require.                                       *)
(***************************************************************************)
ScopeSound ==
  /\ judged = "passed" => Asked \cap Here(course) \subseteq AllDone
  /\ planned # NoPlan => Decodes(planned)
  /\ /\ course # "push" /\ judged = "none" /\ "none" \notin {needs[j] : j \in DOMAIN needs}
     /\ {needs[j] : j \in DOMAIN needs} \cap {"failure", "cancelled"} = {}
     => \A j \in DOMAIN needs : Passes(j, planned)
=============================================================================
