------------------------------- MODULE CiTasks -------------------------------
(***************************************************************************)
(* Where the heavy checks and the builds of xtask/src/ci.rs happen.  A     *)
(* heavy check (proofs, Miri, fuzzing, mutation) runs on its own only on   *)
(* a hosted runner or in a bounded container; elsewhere it is forwarded to *)
(* a machine, which puts it into a container, or put into a container of   *)
(* this machine.  The command that a check becomes is a task of its own,   *)
(* which asks again where it is.  A build of a child task has a directory  *)
(* that the executable which asks for it is not in.  One behaviour is one  *)
(* call.                                                                   *)
(***************************************************************************)
EXTENDS Naturals, Sequences, FiniteSets
LOCAL INSTANCE SequencesExt

CONSTANTS
  HeavyChecks,     \* the checks that are asked for
  MaxNesting,      \* how deep tasks start tasks
  MaxSwitches      \* bound on links that change under a call

VARIABLES
  errand,          \* "heavy", "bounded", "task" or "build"
  wanted,          \* the heavy check
  spot,            \* where the call is: "desk", "machine", "container", "runner"
  environs,        \* the system here; DOMYJOB_VERIFICATION_MACHINE and _IMAGE here, and there
  stage,
  forwards,        \* how often the check was handed to a machine
  ranIn,           \* where the check ran
  ownership,       \* whose the cache of the verification is
  outcome,
  links,           \* where the directories of the builds lead
  running,         \* the directories of the executables that run, outermost first
  aim,             \* the directory a build was given, before it is created
  switches

heavyVars == <<wanted, spot, environs, stage, forwards, ranIn, ownership>>
childVars == <<links, running, aim, switches>>
tasksVars == <<errand, heavyVars, outcome, childVars>>

ImageNames == {"none", "unknown", "tag", "good"}

\* Canonical directories: the checkout is `root`.
Root == <<"root">>
Unlinked == <<>>   \* a directory that is no link
TargetLinks == {Unlinked, Root, <<"root", "cache">>, <<"out">>}
ChildLinks == {Unlinked, <<"out">>, <<"root", "target">>, <<"root", "target", "debug">>,
               <<"root", "target", "alt">>, <<"root", "cache", "build">>}

\* resolved_directory: where a directory of the checkout really is.
Resolved(d) ==
  LET cache == IF links["target"] = Unlinked THEN Append(Root, "target") ELSE links["target"] IN
  IF d = "target" THEN cache
  ELSE IF links[d] = Unlinked THEN Append(cache, d) ELSE links[d]

NoAim == [dir |-> "none", path |-> Unlinked]
Plainly == [target |-> Unlinked, build |-> Unlinked, alt |-> Unlinked]

\* What a call does not read has one value.
NoEnvirons == [system |-> "unix", machine |-> "none", image |-> "none", there |-> "none",
               beyond |-> "none"]

TasksInit ==
  /\ \/ /\ errand = "build" /\ wanted = "verify" /\ spot = "desk" /\ environs = NoEnvirons
        /\ links \in [target : TargetLinks, build : ChildLinks, alt : ChildLinks]
        /\ running \in {<<Append(Resolved("target"), "debug")>>, <<<<"out", "debug">>>>}
     \/ /\ errand \in {"heavy", "bounded", "task"}
        /\ wanted \in HeavyChecks /\ spot \in {"desk", "runner"}
        /\ environs \in [system : {"unix", "other"}, machine : {"none", "empty", "bad", "name"},
                         image : ImageNames, there : ImageNames, beyond : {"none", "name"}]
        /\ links = Plainly /\ running = <<Append(Resolved("target"), "debug")>>
  /\ stage = IF errand = "task" THEN "started" ELSE "called"
  /\ forwards = 0 /\ ranIn = {} /\ ownership = "user" /\ outcome = "none"
  /\ aim = NoAim /\ switches = 0

-----------------------------------------------------------------------------
\* HeavyCheck::command: a cargo task that comes back through `dispatch`, or a
\* mise task that depends on `verification:environment`.
CommandOf(check) == IF check \in {"resource-proofs", "verify", "fuzz"} THEN "cargo" ELSE "mise"

\* native_verification, and the two settings as the call finds them where it is:
\* the shell on a machine exports the image of the caller, a container has neither.
NativeVerification == spot \in {"runner", "container"}
Machine == CASE spot = "machine" -> environs.beyond
             [] spot = "container" -> "none"
             [] OTHER -> environs.machine
Image == IF spot = "container" THEN "none" ELSE environs.image

\* The end of the call; what a machine answers may be lost on the way.
Settle(what) ==
  /\ stage' = "over"
  /\ \/ outcome' = what
     \/ outcome' = "failed" /\ forwards > 0

\* heavy: on a runner at once, else by the machine, else by the image.  Both the
\* command here and the call of a machine need a directory for their build.
Heavy ==
  /\ errand = "heavy" /\ stage = "called"
  /\ \/ NativeVerification /\ stage' = "started" /\ UNCHANGED <<outcome, spot, forwards>>
     \/ /\ ~NativeVerification /\ Machine = "name" /\ Image # "none"
        /\ stage' = "called there" /\ spot' = "machine" /\ forwards' = forwards + 1
        /\ UNCHANGED outcome
     \/ /\ ~NativeVerification /\ Machine = "none"
        /\ stage' = "container" /\ UNCHANGED <<outcome, spot, forwards>>
     \/ /\ NativeVerification \/ Machine # "none"
        /\ Settle("refused") /\ UNCHANGED <<spot, forwards>>
  /\ UNCHANGED <<errand, wanted, environs, ranIn, ownership, childVars>>

\* bounded: straight into a container of this machine.
Bounded ==
  /\ errand = "bounded" /\ stage = "called" /\ stage' = "container"
  /\ UNCHANGED <<errand, wanted, spot, environs, forwards, ranIn, ownership, outcome, childVars>>

\* The shell that REMOTE_VERIFICATION starts there calls `ci bounded`, which
\* never asks for the machine that is configured there.
RemoteVerification ==
  /\ stage = "called there"
  /\ errand' = "bounded" /\ stage' = "called"
  /\ UNCHANGED <<wanted, spot, environs, forwards, ranIn, ownership, outcome, childVars>>

\* VerificationContainer::configured: the image must resolve to its identity on
\* the machine, and the directories that are mounted must be the checkout's own.
Configured ==
  /\ stage = "container"
  /\ \/ /\ Image = "good" /\ (spot = "machine" => environs.there = "good")
        /\ stage' = "mounted" /\ UNCHANGED outcome
     \/ Settle("refused")
  /\ UNCHANGED <<errand, wanted, spot, environs, forwards, ranIn, ownership, childVars>>

\* verification_command: the command in the container, unless it does not start.
Contained ==
  /\ stage = "mounted"
  /\ \/ stage' = "started" /\ spot' = "container" /\ ownership' = "container"
     \/ stage' = "failed" /\ UNCHANGED <<spot, ownership>>
  /\ UNCHANGED <<errand, wanted, environs, forwards, ranIn, outcome, childVars>>

\* The end of a command: in a container the call goes on, elsewhere it is over.
Ends(result) ==
  IF spot = "container" THEN stage' = result /\ UNCHANGED outcome ELSE Settle(result)

\* dispatch: a cargo task that may not run here is a heavy check again; a mise
\* task refuses.  The limit of a container may end it before it works.
Dispatch ==
  /\ stage = "started"
  /\ \/ NativeVerification /\ stage' = "runs" /\ UNCHANGED <<errand, outcome>>
     \/ /\ ~NativeVerification /\ CommandOf(wanted) = "cargo"
        /\ errand' = "heavy" /\ stage' = "called" /\ UNCHANGED outcome
     \/ /\ spot = "container" \/ (~NativeVerification /\ CommandOf(wanted) = "mise")
        /\ Ends("failed") /\ UNCHANGED errand
  /\ UNCHANGED <<wanted, spot, environs, forwards, ranIn, ownership, childVars>>

\* The check works: it ends well, fails or is ended at its limit.
Works ==
  /\ stage = "runs"
  /\ ranIn' = ranIn \cup {spot}
  /\ \E r \in {"good", "failed"} : Ends(r)
  /\ UNCHANGED <<errand, wanted, spot, environs, forwards, ownership, childVars>>

\* execute: restore_owner after every command, whatever its result, on Unix
\* (a machine has /bin/bash); elsewhere the result stands.
OnUnix == forwards > 0 \/ environs.system = "unix"

RestoreOwner ==
  /\ stage \in {"good", "failed"}
  /\ \/ OnUnix /\ ownership' = "user" /\ Settle(stage)
     \/ OnUnix /\ UNCHANGED ownership /\ Settle("failed")
     \/ ~OnUnix /\ UNCHANGED ownership /\ Settle(stage)
  /\ UNCHANGED <<errand, wanted, spot, environs, forwards, ranIn, childVars>>

-----------------------------------------------------------------------------
\* for_parent: a reserved directory is strictly inside the target cache, which
\* is strictly inside the checkout, wherever links lead; the first one is taken
\* that does not hold the executable which asks.
Strictly(outer, inner) == IsPrefix(outer, inner) /\ inner # outer
Reserved(d) == Strictly(Root, Resolved("target")) /\ Strictly(Resolved("target"), Resolved(d))
HoldsLive(d) == IsPrefix(Resolved(d), running[Len(running)])

ForParent ==
  /\ errand = "build" /\ outcome = "none" /\ aim = NoAim /\ Len(running) < MaxNesting
  /\ LET take(d) == aim' = [dir |-> d, path |-> Resolved(d)] /\ UNCHANGED outcome IN
     \/ Reserved("build") /\ ~HoldsLive("build") /\ take("build")
     \/ /\ Reserved("build") /\ HoldsLive("build") /\ Reserved("alt") /\ ~HoldsLive("alt")
        /\ take("alt")
     \/ /\ ~Reserved("build") \/ (HoldsLive("build") /\ (~Reserved("alt") \/ HoldsLive("alt")))
        /\ outcome' = "refused" /\ UNCHANGED aim
  /\ UNCHANGED <<errand, heavyVars, links, running, switches>>

\* The directory is created; a link that changed meanwhile is noticed.
CreateTarget ==
  /\ aim # NoAim
  /\ IF Resolved(aim.dir) # aim.path THEN outcome' = "refused" /\ UNCHANGED running
     ELSE running' = Append(running, aim.path) /\ UNCHANGED outcome
  /\ aim' = NoAim
  /\ UNCHANGED <<errand, heavyVars, links, switches>>

\* A child of the build ends and its parent goes on, perhaps to build again.
ChildEnds ==
  /\ errand = "build" /\ Len(running) > 1 /\ aim = NoAim
  /\ running' = SubSeq(running, 1, Len(running) - 1)
  /\ UNCHANGED <<errand, heavyVars, outcome, links, aim, switches>>

\* Somebody else puts a link in the place of a directory.
SwitchLink ==
  /\ aim # NoAim /\ switches < MaxSwitches
  /\ \E d \in {aim.dir, "target"}, to \in {<<"out">>, running[Len(running)]} :
       links' = [links EXCEPT ![d] = to]
  /\ switches' = switches + 1
  /\ UNCHANGED <<errand, heavyVars, outcome, running, aim>>

TasksNext ==
  \/ Heavy
  \/ Bounded
  \/ RemoteVerification
  \/ Configured
  \/ Contained
  \/ Dispatch
  \/ Works
  \/ RestoreOwner
  \/ ForParent
  \/ CreateTarget
  \/ ChildEnds
  \/ SwitchLink

TasksSpec == TasksInit /\ [][TasksNext]_tasksVars

-----------------------------------------------------------------------------
(***************************************************************************)
(* Heavy work stays where it is bounded and builds never overwrite what    *)
(* asks for them.  A heavy check runs on a hosted runner or in a           *)
(* container, whether it was called as one or as the task it becomes,      *)
(* reaches another machine at most once whatever that machine is           *)
(* configured to do, and succeeds only after it ran and, on Unix, after    *)
(* the cache is the user's again (heavy, bounded, dispatch, execute,       *)
(* restore_owner).  A build gets a directory strictly inside a cache that  *)
(* is strictly inside the checkout, and that does not hold the executable  *)
(* which asks, wherever links lead and whichever of them change meanwhile. *)
(* Nothing is said of the executables further up: with three tasks one in  *)
(* the other the first reserved directory is given again                   *)
(* (ChildBuildDirectory::for_parent).                                      *)
(***************************************************************************)
TasksSound ==
  /\ ranIn \subseteq {"runner", "container"}
  /\ forwards <= 1
  /\ errand # "build" /\ outcome = "good" => ranIn # {} /\ (OnUnix => ownership = "user")
  /\ \A i \in 2..Len(running) :
       /\ Strictly(Root, running[i]) /\ Len(running[i]) > Len(Root) + 1
       /\ ~IsPrefix(running[i], running[i - 1])
=============================================================================
