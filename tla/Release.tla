------------------------------- MODULE Release -------------------------------
(***************************************************************************)
(* The release queue (xtask/src/release_orchestration.rs, release_ready.rs,*)
(* release_queue.rs and .github/workflows/release-finalize.yml).  A build  *)
(* leaves a pending distribution that Apple has still to accept.  Runs of  *)
(* the finalizer, started by schedules and by hand, pick up the pending    *)
(* entries, staple what was accepted, attest and save the result, publish  *)
(* it under the tag of the build and leave a completion marker.  A job may *)
(* fail anywhere and a later run repeats what is left.                     *)
(*                                                                         *)
(* An entry is one attempt of a build.  The bytes of an asset are those of *)
(* the build, or for a stapled one those of the run that stapled it.       *)
(***************************************************************************)
EXTENDS Naturals, FiniteSets

CONSTANTS
  Entries,        \* pending distributions
  TagOf,          \* the tag an entry was pushed with, NoTag for a rehearsal
  NoTag,
  Modern,         \* the entries with packages to staple; the others are legacy
  FinalRuns,      \* finalizer runs, numbered from 1 as their identifiers grow
  Assets,         \* the assets of a release
  Stapled,        \* those of them that stapling rewrites
  MaxPending,     \* bound on the builds that leave a distribution
  MaxMishaps      \* bound on crashes, changed files, advisories and lost protection

ASSUME ReleaseAssumption ==
  /\ Modern \subseteq Entries
  /\ Stapled \subseteq Assets
  /\ FinalRuns \subseteq Nat \ {0}
  /\ MaxMishaps \in Nat

Tags == {TagOf[e] : e \in Entries} \ {NoTag}
Makers == FinalRuns \cup {0}
ReleasePhases == {"none", "queued", "finalize", "attest", "save", "publish", "create", "upload",
           "check", "edit", "verify", "mark", "done", "failed"}

VARIABLES
  pending,        \* the entries whose builds have left their distribution
  queueAge,       \* 0: under an hour, 1: under six, 2: under seven days, 3: past them
  apple,          \* what the notary service answers for the packages of an entry
  attested,       \* <<entry, run>>: the stapled bytes have their attestation
  saved,          \* dist-ready artifacts: [entry, by, bad], bad the files spoilt in it
  marked,         \* dist-verified artifacts: <<entry, run>>
  verdict,        \* how a finalizer run ended
  job,            \* the job of a run for an entry: where it is, the run that made the
                  \* distribution it holds (0: the build), files changed behind it
  release,        \* the release of a tag: its state and what each asset holds
  tag,            \* a tag: whether it names the commit of its build and is protected
  advised,        \* an advisory against the dependencies of the builds is known
  mishaps

world == <<pending, queueAge, apple, tag, advised>>
artifacts == <<attested, saved, marked>>
releaseVars == <<world, artifacts, verdict, job, release, mishaps>>

NotThere == <<"absent">>
Partial == <<"partial">>     \* an asset whose upload broke off
Foreign == <<"foreign">>     \* bytes that no build or stapling made

\* prepare: the bytes of an asset in the distribution of an entry that a run stapled.
Bytes(e, by, a) == IF a \in Stapled THEN <<"bytes", e, by>> ELSE <<"bytes", e, 0>>

\* A job that begins or ends has a machine without files.
FreshJob(p) == [at |-> p, by |-> 0, bad |-> {}]

ReleaseTypeOK ==
  /\ pending \subseteq Entries
  /\ queueAge \in [Entries -> 0..3]
  /\ apple \in [Entries -> {"In Progress", "Accepted", "Invalid"}]
  /\ attested \subseteq Entries \X FinalRuns
  /\ \A s \in saved : /\ s.entry \in Entries /\ s.by \in FinalRuns
                      /\ s.bad \subseteq Assets
  /\ marked \subseteq Entries \X FinalRuns
  /\ verdict \in [FinalRuns -> {"none", "running", "success", "failure"}]
  /\ job \in [FinalRuns -> [Entries -> [at : ReleasePhases, by : Makers,
                                        bad : SUBSET (Assets \cup {"pending"})]]]
  /\ tag \in [Tags -> [names : BOOLEAN, guarded : BOOLEAN]]
  /\ advised \in BOOLEAN
  /\ mishaps \in 0..MaxMishaps

ReleaseInit ==
  /\ pending = {}
  /\ queueAge = [e \in Entries |-> 0]
  /\ apple = [e \in Entries |-> "In Progress"]
  /\ attested = {} /\ saved = {} /\ marked = {}
  /\ verdict = [r \in FinalRuns |-> "none"]
  /\ job = [r \in FinalRuns |-> [e \in Entries |-> FreshJob("none")]]
  /\ release = [t \in Tags |-> [state |-> "none", asset |-> [a \in Assets |-> NotThere]]]
  /\ tag = [t \in Tags |-> [names |-> TRUE, guarded |-> TRUE]]
  /\ advised = FALSE
  /\ mishaps = 0

-----------------------------------------------------------------------------
\* A push of a version tag is to be published, a dispatch on main is a rehearsal.
Publishes(e) == TagOf[e] # NoTag

\* create_handoff: a build leaves its archives, packages, submission receipts and manifest.
LeavePending(e) ==
  /\ e \notin pending /\ Cardinality(pending) < MaxPending
  /\ pending' = pending \cup {e}
  /\ UNCHANGED <<queueAge, apple, tag, advised, artifacts, verdict, job, release, mishaps>>

\* The seven-day deadline of the queue.
WithinDeadline(e) == queueAge[e] < 3

\* A marker counts once the run that left it has ended with success.
Completed(e) == \E r \in FinalRuns : <<e, r>> \in marked /\ verdict[r] = "success"

\* The schedules look at entries of a certain age; a dispatch looks at all.
Includes(cadence, age) ==
  CASE cadence = "fast" -> age < 1
    [] cadence = "medium" -> age < 2
    [] OTHER -> TRUE

Put(r, e, j) == job' = [job EXCEPT ![r][e] = j]
Goto(r, e, p) ==
  Put(r, e, IF p \in {"done", "failed"} THEN FreshJob(p) ELSE [job[r][e] EXCEPT !.at = p])

\* A run lists the entries that wait; one that finds none has nothing to do.
DiscoverQueue(r, cadence) ==
  /\ verdict[r] = "none"
  /\ LET found == {e \in pending : /\ WithinDeadline(e) /\ ~Completed(e)
                                   /\ Includes(cadence, queueAge[e])}
     IN /\ verdict' = [verdict EXCEPT ![r] = IF found = {} THEN "success" ELSE "running"]
        /\ job' = [job EXCEPT ![r] = [e \in Entries |->
                                        FreshJob(IF e \in found THEN "queued" ELSE "none")]]
  /\ UNCHANGED <<world, artifacts, release, mishaps>>

\* The concurrency group of the workflow: one job at a time for an entry.
Resting == {"none", "queued", "done", "failed"}
BeginFinal(r, e) ==
  /\ job[r][e].at = "queued"
  /\ \A q \in FinalRuns : job[q][e].at \in Resting
  /\ Goto(r, e, "finalize")
  /\ UNCHANGED <<world, artifacts, verdict, release, mishaps>>

SavedReadyNever(e) == {s \in saved : s.entry = e /\ FALSE}

\* The ready distribution to use: the saved one of the newest run, if there is any.
SavedReady(e) == {s \in saved : s.entry = e /\ \A t \in saved : t.entry = e => t.by <= s.by}

\* Handoff::inspect: the files of the build are those of its manifest.
HandoffIntact(r, e) ==
  job[r][e].bad \cap ({"pending"} \cup (IF e \in Modern THEN {} ELSE Assets)) = {}

\* ReadyDistribution::inspect: the stapled files are those of their receipt.
ReadyIntact(r, e) == e \in Modern => job[r][e].bad \cap Assets = {}

Unchanged(r, e) == HandoffIntact(r, e) /\ ReadyIntact(r, e)

\* validate_origin: the build run is the one the manifest names, within its deadline.
ValidOrigin(e) == e \in pending /\ WithinDeadline(e)

\* A ruleset without bypass forbids to move or delete the tag.
Protected(t) == tag[t].guarded

\* tag_binding: a version tag still names the commit of the build and is protected.
TagBound(e) == IF Publishes(e) THEN tag[TagOf[e]].names /\ Protected(TagOf[e]) ELSE TRUE

\* provenance_for: the stapled bytes are attested by the run that made them.
Attested(e, by) == <<e, by>> \in attested

VerifiedReady(r, e) == e \in Modern => Attested(e, job[r][e].by)

\* ReadyDistribution::create: staged next to its place, verified and renamed.
Staple(r) == [at |-> "attest", by |-> r, bad |-> {}]

\* prepare_ready: the saved distribution is verified and taken again; only when there
\* is none the packages are stapled.
PrepareReady(r, e) ==
  \/ /\ SavedReady(e) = {}
     /\ Put(r, e, Staple(r))
  \/ \E s \in SavedReady(e) :
       Put(r, e, IF s.bad = {} /\ Attested(e, s.by)
                 THEN [at |-> "publish", by |-> s.by, bad |-> {}]
                 ELSE FreshJob("failed"))

\* finalize: nothing to do when the entry is complete or still with Apple.
Finalize(r, e) ==
  /\ job[r][e].at = "finalize"
  /\ \/ /\ ~(ValidOrigin(e) /\ HandoffIntact(r, e))
        /\ Goto(r, e, "failed")
     \/ /\ ValidOrigin(e) /\ HandoffIntact(r, e)
        /\ Completed(e) \/ apple[e] = "In Progress"
        /\ Goto(r, e, "done")
     \/ /\ ValidOrigin(e) /\ HandoffIntact(r, e) /\ ~Completed(e)
        /\ \/ apple[e] = "Invalid" /\ Goto(r, e, "failed")
           \/ apple[e] = "Accepted" /\ e \notin Modern /\ Goto(r, e, "publish")
           \/ apple[e] = "Accepted" /\ e \in Modern /\ PrepareReady(r, e)
  /\ UNCHANGED <<world, artifacts, verdict, release, mishaps>>

\* The workflow attests what lies in the directory, then saves it.
Attest(r, e) ==
  /\ job[r][e].at = "attest"
  /\ attested' = IF job[r][e].bad \cap Stapled = {} THEN attested \cup {<<e, r>>} ELSE attested
  /\ Goto(r, e, "save")
  /\ UNCHANGED <<world, saved, marked, verdict, release, mishaps>>

Save(r, e) ==
  /\ job[r][e].at = "save"
  /\ saved' = saved \cup {[entry |-> e, by |-> r, bad |-> job[r][e].bad \cap Assets]}
  /\ Goto(r, e, "publish")
  /\ UNCHANGED <<world, attested, marked, verdict, release, mishaps>>

-----------------------------------------------------------------------------
AssetHolds(t, a) == release[t].asset[a]

\* release_for_tag: there is a release of the tag, draft or not.
ReleaseFound(e) == release[TagOf[e]].state # "none"

\* The files a release of this distribution consists of.
Expected(r, e) == [a \in Assets |-> Bytes(e, job[r][e].by, a)]

\* missing_assets refuses an asset that is not whole or not of this distribution.
NoStranger(r, e) ==
  \A a \in Assets : AssetHolds(TagOf[e], a) \in {NotThere, Expected(r, e)[a]}
Missing(e) == {a \in Assets : AssetHolds(TagOf[e], a) = NotThere}

\* The audit of the dependencies of the original build.
Reviewed == ~advised

\* resume_publication of a release that is there.
Resumed(r, e) ==
  IF ~NoStranger(r, e) THEN "failed"
  ELSE IF release[TagOf[e]].state = "published"
       THEN IF Missing(e) = {} THEN "verify" ELSE "failed"
       ELSE IF Missing(e) = {} THEN "check" ELSE "upload"

\* publish_ready and Publisher::publish: everything is verified again, a rehearsal
\* ends here, and a release of the tag that is there already is resumed.
Publish(r, e) ==
  LET sound == /\ ValidOrigin(e) /\ Unchanged(r, e) /\ VerifiedReady(r, e)
               /\ apple[e] = "Accepted" /\ TagBound(e)
  IN /\ job[r][e].at = "publish"
     /\ \/ ~sound /\ Goto(r, e, "failed")
        \/ sound /\ ~Publishes(e) /\ Goto(r, e, "mark")
        \/ sound /\ Publishes(e) /\ ~Reviewed /\ Goto(r, e, "failed")
        \/ /\ sound /\ Publishes(e) /\ Reviewed
           /\ Goto(r, e, IF ReleaseFound(e) THEN Resumed(r, e) ELSE "create")
     /\ UNCHANGED <<world, artifacts, verdict, release, mishaps>>

\* create_release: the draft first, then its assets one by one.  The inventory is read again
\* after it, and a tag that has two releases is refused.
Create(r, e) ==
  /\ job[r][e].at = "create"
  /\ IF Unchanged(r, e) /\ ~ReleaseFound(e)
     THEN release' = [release EXCEPT ![TagOf[e]].state = "draft"] /\ Goto(r, e, "upload")
     ELSE UNCHANGED release /\ Goto(r, e, "failed")
  /\ UNCHANGED <<world, artifacts, verdict, mishaps>>

\* What is uploaded is what lies on the disk now.
Upload(r, e, a) ==
  /\ job[r][e].at = "upload" /\ a \in Missing(e)
  /\ release' = [release EXCEPT ![TagOf[e]].asset[a] =
                   IF a \in job[r][e].bad THEN Foreign ELSE Expected(r, e)[a]]
  /\ Goto(r, e, IF Missing(e) = {a} THEN "check" ELSE "upload")
  /\ UNCHANGED <<world, artifacts, verdict, mishaps>>

\* resume_publication before the edit: the draft is read again and compared whole.
CheckAssets(r, e) ==
  /\ job[r][e].at = "check"
  /\ Goto(r, e, IF /\ release[TagOf[e]].state = "draft"
                   /\ NoStranger(r, e) /\ Missing(e) = {}
                   /\ TagBound(e) /\ Unchanged(r, e)
                THEN "edit" ELSE "failed")
  /\ UNCHANGED <<world, artifacts, verdict, release, mishaps>>

EditRelease(r, e) ==
  /\ job[r][e].at = "edit"
  /\ release' = [release EXCEPT ![TagOf[e]].state = "published"]
  /\ Goto(r, e, "verify")
  /\ UNCHANGED <<world, artifacts, verdict, mishaps>>

Verify(r, e) ==
  /\ job[r][e].at = "verify"
  /\ Goto(r, e, IF /\ release[TagOf[e]].state = "published"
                   /\ NoStranger(r, e) /\ Missing(e) = {}
                   /\ TagBound(e) /\ Unchanged(r, e)
                THEN "mark" ELSE "failed")
  /\ UNCHANGED <<world, artifacts, verdict, release, mishaps>>

Mark(r, e) ==
  /\ job[r][e].at = "mark"
  /\ marked' = marked \cup {<<e, r>>}
  /\ Goto(r, e, "done")
  /\ UNCHANGED <<world, attested, saved, verdict, release, mishaps>>

\* A run succeeds when the jobs of all its entries did.
Conclude(r) ==
  /\ verdict[r] = "running"
  /\ \A e \in Entries : job[r][e].at \in {"none", "done", "failed"}
  /\ verdict' = [verdict EXCEPT ![r] =
                   IF \E e \in Entries : job[r][e].at = "failed" THEN "failure" ELSE "success"]
  /\ UNCHANGED <<world, artifacts, job, release, mishaps>>

-----------------------------------------------------------------------------
\* The world: time, Apple, the owners of the tag, machines that die and files that
\* change between a check and the use of what it checked.
Ages(e) ==
  /\ queueAge[e] < 3 /\ queueAge' = [queueAge EXCEPT ![e] = @ + 1]
  /\ UNCHANGED <<pending, apple, tag, advised, artifacts, verdict, job, release, mishaps>>

AppleAnswers(e, s) ==
  /\ apple[e] = "In Progress" /\ apple' = [apple EXCEPT ![e] = s]
  /\ UNCHANGED <<pending, queueAge, tag, advised, artifacts, verdict, job, release, mishaps>>

Mishap == mishaps < MaxMishaps /\ mishaps' = mishaps + 1

Breaks(r, e) ==
  /\ job[r][e].at \notin Resting /\ Mishap
  /\ Goto(r, e, "failed")
  /\ \/ UNCHANGED release
     \/ /\ job[r][e].at = "upload"
        /\ \E a \in Missing(e) : release' = [release EXCEPT ![TagOf[e]].asset[a] = Partial]
  /\ UNCHANGED <<world, artifacts, verdict>>

Disturbs(r, e, a) ==
  /\ job[r][e].at \notin Resting /\ a \notin job[r][e].bad /\ Mishap
  /\ job' = [job EXCEPT ![r][e].bad = @ \cup {a}]
  /\ UNCHANGED <<world, artifacts, verdict, release>>

\* An owner takes the protection off a tag, and may then move it.
Unprotects(t) ==
  /\ \/ tag[t].guarded /\ Mishap /\ tag' = [tag EXCEPT ![t].guarded = FALSE]
     \/ /\ ~tag[t].guarded /\ UNCHANGED mishaps
        /\ tag' = [tag EXCEPT ![t].names = FALSE]
  /\ UNCHANGED <<pending, queueAge, apple, advised, artifacts, verdict, job, release>>

Advises ==
  /\ ~advised /\ Mishap /\ advised' = TRUE
  /\ UNCHANGED <<pending, queueAge, apple, tag, artifacts, verdict, job, release>>

Proceeds(r, e) ==
  \/ BeginFinal(r, e) \/ Finalize(r, e) \/ Attest(r, e) \/ Save(r, e) \/ Publish(r, e)
  \/ Create(r, e) \/ (\E a \in Assets : Upload(r, e, a)) \/ CheckAssets(r, e) \/ EditRelease(r, e)
  \/ Verify(r, e) \/ Mark(r, e)

ReleaseNext ==
  \/ \E r \in FinalRuns, c \in {"fast", "medium", "all"} : DiscoverQueue(r, c)
  \/ \E r \in FinalRuns, e \in Entries : Proceeds(r, e) \/ Breaks(r, e)
  \/ \E r \in FinalRuns, e \in Entries, a \in Assets \cup {"pending"} :
       Disturbs(r, e, a)
  \/ \E r \in FinalRuns : Conclude(r)
  \/ \E e \in pending : Ages(e) \/ AppleAnswers(e, "Accepted") \/ AppleAnswers(e, "Invalid")
  \/ \E e \in Entries : LeavePending(e)
  \/ \E t \in Tags : Unprotects(t)
  \/ Advises

ReleaseSpec == ReleaseInit /\ [][ReleaseNext]_releaseVars

-----------------------------------------------------------------------------
\* A published release is whole and of one making: its assets are those of one
\* distribution of an entry of that tag, which Apple accepted and whose stapled bytes
\* are attested, although uploads break off and are resumed by later runs and files
\* change between their check and their upload (resume_publication, missing_assets).
PublishedWhole ==
  \A t \in Tags : release[t].state = "published" =>
    \E e \in Entries, by \in Makers :
      /\ TagOf[e] = t /\ apple[e] = "Accepted"
      /\ e \in Modern => <<e, by>> \in attested
      /\ \A a \in Assets : AssetHolds(t, a) = Bytes(e, by, a)

\* An entry that counts as complete, and that no later run looks at again, was
\* published if it has a tag (completed, verify_published).
CompletedIsPublished ==
  \A e \in Entries : Completed(e) /\ TagOf[e] # NoTag => release[TagOf[e]].state = "published"

\* The packages of an entry are stapled and saved once, so that what a failed run has
\* uploaded is what the next one holds (prepare_ready).
StapledOnce ==
  \A s, t \in saved : s.entry = t.entry => s.by = t.by

\* The three together: whatever fails in between, what is published is one accepted and
\* attested distribution, retries use its bytes again, and only then it is complete.
ReleaseSound == ReleaseTypeOK /\ PublishedWhole /\ CompletedIsPublished /\ StapledOnce
=============================================================================
