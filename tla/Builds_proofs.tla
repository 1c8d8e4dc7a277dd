--------------------------- MODULE Builds_proofs ----------------------------
(***************************************************************************)
(* How builds are installed, signed and released: theorems about Install,  *)
(* Release and Signing, one component after the other.                     *)
(***************************************************************************)
EXTENDS Install, Release, Signing, TLAPS

-----------------------------------------------------------------------------
(***************************************************************************)
(* Builds, requests and job stores of a machine that several builds share, *)
(* for any calls, builds, formats and failures.                            *)
(*                                                                         *)
(* That a request is handled once rests on the points at which a call may  *)
(* still be sent: there it has no node and was not served, and no failure  *)
(* but a missing program leads back to them.  That a build in use stays is *)
(* an invariant as it stands, because a removal looks at the usage locks   *)
(* while it holds the selection lock.  For the stores it has to be known   *)
(* of every job that was not set aside that whoever has its store among    *)
(* the judged ones judged it before the job began.                         *)
(***************************************************************************)

\* The points of a call before its request is sent, or before it is sent again.
Sendable == {"shell", "call", "lock", "again", "install", "publish"}

\* What a node knows of the stores of other formats.
Judgements == UNION {[S -> Nat] : S \in SUBSET Formats}

NodeStates ==
  [at : {"none", "starting", "prune", "pruning", "judge", "serve", "opened", "admit", "answered"},
   holds : {"no", "whole", "part"}, pinned : Builds \cup {NoBuild}, judged : Judgements, place : Nat]

\* The types of the calls, the builds, the nodes and the stores.
InstallTypeOK ==
  /\ attempt \in [Dialers -> Sendable \cup {"await", "ok", "refused", "unreachable", "deadline", "error"}]
  /\ installed \in [Builds -> {"absent", "whole", "part"}]
  /\ pinned \in Builds \cup {NoBuild} /\ setup \in Builds \cup {NoBuild}
  /\ node \in [Dialers -> NodeStates]
  /\ publisher \subseteq Dialers
  /\ opened \in [Formats -> Nat] /\ opening \in Nat
  /\ served \in [Dialers -> Nat]

\* A request that may still be sent has no node and was not handled; nor was one whose
\* node has not come to it.
UnsentNotServed ==
  \A c \in Dialers :
    /\ attempt[c] \in Sendable => node[c].at = "none" /\ served[c] = 0
    /\ node[c].at \notin {"none", "answered"} => served[c] = 0

\* Only running jobs have their store set aside, and a job runs for a request that was
\* handled.
JobsServed ==
  /\ DOMAIN orphaned \subseteq DOMAIN jobs /\ DOMAIN jobs \subseteq Dialers
  /\ \A w \in DOMAIN jobs : served[w] = 1

\* Whoever has judged the store of a job that still has it did so before the job began.
JudgedBefore ==
  \A w \in DOMAIN jobs \ DOMAIN orphaned, n \in Dialers :
    FormatOf[BuildOf[w]] \in DOMAIN node[n].judged => n \in jobs[w]

InstallInv ==
  InstallTypeOK /\ UnsentNotServed /\ BuildsKept /\ ServedOnce /\ JobsServed /\ JudgedBefore /\ StoresJudged

-----------------------------------------------------------------------------
\* What lies beyond the newest ones is among them.
LEMMA BeyondAmong ==
  ASSUME NEW items, NEW place, NEW keep
  PROVE  BeyondNewest(items, place, keep) \subseteq items
BY DEF BeyondNewest

\* A node that does not run knows nothing.
LEMMA NoNodeTyped == NoNode \in NodeStates
<1>1. NoNode.judged \in [{} -> Nat]
  BY DEF NoNode
<1>2. NoNode.judged \in Judgements
  BY <1>1 DEF Judgements
<1> QED
  BY <1>2 DEF NoNode, NodeStates

\* Nodes stay typed when one moves on and another part of it changes.
LEMMA NodeMoves ==
  ASSUME NEW N \in [Dialers -> NodeStates], NEW c \in Dialers,
         NEW p \in {"starting", "prune", "pruning", "judge", "serve", "opened", "admit", "answered"}
  PROVE  /\ [N EXCEPT ![c].at = p] \in [Dialers -> NodeStates]
         /\ \A h \in {"no", "whole", "part"} : [N EXCEPT ![c].at = p, ![c].holds = h] \in [Dialers -> NodeStates]
         /\ \A b \in Builds \cup {NoBuild} : [N EXCEPT ![c].at = p, ![c].pinned = b] \in [Dialers -> NodeStates]
         /\ \A k \in Judgements : [N EXCEPT ![c].at = p, ![c].judged = k] \in [Dialers -> NodeStates]
         /\ \A n \in Nat : [N EXCEPT ![c].at = p, ![c].place = n] \in [Dialers -> NodeStates]
<1>1. [N[c] EXCEPT !.at = p] \in NodeStates
  BY DEF NodeStates
<1>2. \A h \in {"no", "whole", "part"} : [[N[c] EXCEPT !.at = p] EXCEPT !.holds = h] \in NodeStates
  BY DEF NodeStates
<1>3. \A b \in Builds \cup {NoBuild} : [[N[c] EXCEPT !.at = p] EXCEPT !.pinned = b] \in NodeStates
  BY DEF NodeStates
<1>4. \A k \in Judgements : [[N[c] EXCEPT !.at = p] EXCEPT !.judged = k] \in NodeStates
  BY DEF NodeStates
<1>5. \A n \in Nat : [[N[c] EXCEPT !.at = p] EXCEPT !.place = n] \in NodeStates
  BY DEF NodeStates
<1> QED
  BY <1>1, <1>2, <1>3, <1>4, <1>5

\* A judgement is one of formats of the builds.
LEMMA JudgementsTyped ==
  /\ \A r \in NodeStates : \E S \in SUBSET Formats : r.judged \in [S -> Nat]
  /\ \A S \in SUBSET Formats : \A k \in [S -> Nat] : k \in Judgements
<1>1. \A r \in NodeStates : r.judged \in Judgements
  BY DEF NodeStates
<1> QED
  BY <1>1, Zenon DEF Judgements

\* The types hold initially, and so does everything else.
LEMMA InstallInitially == InstallInit => InstallInv
<1> SUFFICES ASSUME InstallInit PROVE InstallInv
  OBVIOUS
<1>1. InstallTypeOK
  BY NoNodeTyped DEF InstallInit, InstallTypeOK, Sendable
<1>2. NoNode.at = "none" /\ NoNode.holds = "no"
  BY DEF NoNode
<1> QED
  BY <1>1, <1>2 DEF InstallInit, InstallInv, UnsentNotServed, BuildsKept, ServedOnce, JobsServed,
                    JudgedBefore, StoresJudged

\* What a call may come to when it ends or fails.
LEMMA EndsTyped ==
  ASSUME InstallTypeOK, NEW c \in Dialers, NEW o, Ends(c, o)
  PROVE  attempt' = [attempt EXCEPT ![c] = o]
BY DEF Ends

\* A call leads back to the points before its request is sent only when the program is
\* missing.
LEMMA FailureTyped ==
  ASSUME InstallTypeOK, NEW c \in Dialers, NEW status, CallFails(c, status)
  PROVE  \E o \in {"lock", "install", "unreachable", "deadline", "error"} :
           /\ attempt' = [attempt EXCEPT ![c] = o]
           /\ o \in {"lock", "install"} => status = "missing"
BY DEF CallFails, Failure, Ends

\* Every step keeps the types.
LEMMA InstallTypesKept == InstallTypeOK /\ [InstallNext]_installVars => InstallTypeOK'
<1> SUFFICES ASSUME InstallTypeOK, [InstallNext]_installVars PROVE InstallTypeOK'
  OBVIOUS
<1> USE DEF InstallTypeOK, buildVars, formatVars, nodeVars, attemptVars, Sendable
<1>0. CASE UNCHANGED installVars
  BY <1>0 DEF installVars
<1>1. ASSUME NEW b \in Builds, SetupBegins(b) PROVE InstallTypeOK'
  BY <1>1 DEF SetupBegins
<1>2. CASE SetupPins
  BY <1>2 DEF SetupPins
<1>3. ASSUME NEW c \in Dialers, DetectShell(c) PROVE InstallTypeOK'
  BY <1>3 DEF DetectShell, Ends
<1>4. ASSUME NEW c \in Dialers, SendCall(c) PROVE InstallTypeOK'
  <2>1. attempt' \in [Dialers -> Sendable \cup {"await", "ok", "refused", "unreachable", "deadline", "error"}]
    BY <1>4, FailureTyped DEF SendCall, Ends
  <2>2. node' \in [Dialers -> NodeStates]
    <3>1. [node EXCEPT ![c].at = "starting"] \in [Dialers -> NodeStates]
      BY NodeMoves
    <3> QED
      BY <1>4, <3>1 DEF SendCall
  <2> QED
    BY <1>4, <2>1, <2>2 DEF SendCall
<1>5. ASSUME NEW c \in Dialers, TakeInstallLock(c) PROVE InstallTypeOK'
  BY <1>5 DEF TakeInstallLock
<1>6. ASSUME NEW c \in Dialers, TakeReply(c) PROVE InstallTypeOK'
  BY <1>6, NoNodeTyped DEF TakeReply, Ends
<1>7. ASSUME NEW c \in Dialers, Cut(c) PROVE InstallTypeOK'
  BY <1>7, FailureTyped DEF Cut
<1>8. ASSUME NEW c \in Dialers, NodeDies(c) PROVE InstallTypeOK'
  BY <1>8, FailureTyped, NoNodeTyped DEF NodeDies
<1>9. ASSUME NEW c \in Dialers, NodeLeaves(c) PROVE InstallTypeOK'
  BY <1>9, NoNodeTyped DEF NodeLeaves
<1>10. ASSUME NEW c \in Dialers, Bootstrap(c) PROVE InstallTypeOK'
  BY <1>10 DEF Bootstrap, Ends
<1>11. ASSUME NEW c \in Dialers, AdmitBuild(c) PROVE InstallTypeOK'
  <2>1. [NoNode EXCEPT !.at = "starting"] \in NodeStates
    BY NoNodeTyped DEF NodeStates
  <2> QED
    BY <1>11, <2>1, InstallAssumption DEF AdmitBuild, Ends
<1>12. ASSUME NEW c \in Dialers, HoldBuild(c) PROVE InstallTypeOK'
  <2>1. node' \in [Dialers -> NodeStates]
    <3> DEFINE h == IF installed[BuildOf[c]] = "absent" THEN "no" ELSE installed[BuildOf[c]]
    <3>1. h \in {"no", "whole", "part"}
      BY InstallAssumption
    <3>2. node' = [node EXCEPT ![c].at = "prune", ![c].holds = h]
      BY <1>12 DEF HoldBuild
    <3> HIDE DEF h
    <3> QED
      BY <3>1, <3>2, NodeMoves
  <2> QED
    BY <1>12, <2>1 DEF HoldBuild
<1>13. ASSUME NEW c \in Dialers, PruneBegins(c) PROVE InstallTypeOK'
  <2>1. node' \in [Dialers -> NodeStates]
    BY ZenonT(60), <1>13, NodeMoves DEF PruneBegins
  <2> QED
    BY <1>13, <2>1 DEF PruneBegins
<1>14. ASSUME NEW c \in Dialers, PruneBuilds(c) PROVE InstallTypeOK'
  <2>1. node' \in [Dialers -> NodeStates]
    <3>1. [node EXCEPT ![c].at = "judge", ![c].pinned = NoBuild] \in [Dialers -> NodeStates]
      BY ZenonT(60), NodeMoves
    <3> QED
      BY <1>14, <3>1 DEF PruneBuilds
  <2>2. installed' \in [Builds -> {"absent", "whole", "part"}]
    BY <1>14 DEF PruneBuilds
  <2> QED
    BY <1>14, <2>1, <2>2 DEF PruneBuilds
<1>15. ASSUME NEW c \in Dialers, SetAsideStores(c) PROVE InstallTypeOK'
  <2>1. NoNode.judged \in Judgements
    BY NoNodeTyped DEF NodeStates
  <2>2. node' \in [Dialers -> NodeStates]
    BY ZenonT(60), <1>15, <2>1, NodeMoves DEF SetAsideStores
  <2> QED
    BY <1>15, <2>2 DEF SetAsideStores
<1>16. ASSUME NEW c \in Dialers, Hello(c) PROVE InstallTypeOK'
  <2>1. node' \in [Dialers -> NodeStates]
    BY <1>16, NodeMoves DEF Hello
  <2> QED
    BY <1>16, <2>1 DEF Hello
<1>17. ASSUME NEW c \in Dialers, OpenStore(c) PROVE InstallTypeOK'
  <2>1. node' \in [Dialers -> NodeStates]
    <3>1. [node EXCEPT ![c].at = "opened", ![c].place = opening + 1] \in [Dialers -> NodeStates]
      <4>1. opening + 1 \in Nat
        OBVIOUS
      <4> QED
        BY <4>1, NodeMoves
    <3> QED
      BY <1>17, <3>1 DEF OpenStore
  <2> QED
    BY <1>17, <2>1 DEF OpenStore
<1>18. ASSUME NEW c \in Dialers, RecordOpening(c) PROVE InstallTypeOK'
  <2>1. node' \in [Dialers -> NodeStates]
    BY ZenonT(60), <1>18, NodeMoves DEF RecordOpening
  <2>2. FormatOf[BuildOf[c]] \in Formats /\ node[c].place \in Nat
    BY InstallAssumption DEF Formats, NodeStates
  <2> QED
    BY <1>18, <2>1, <2>2 DEF RecordOpening
<1>19. ASSUME NEW c \in Dialers, RunJob(c) PROVE InstallTypeOK'
  <2>1. node' \in [Dialers -> NodeStates]
    BY <1>19, NodeMoves DEF RunJob
  <2> QED
    BY <1>19, <2>1 DEF RunJob
<1>20. ASSUME NEW c \in Dialers, WorkerEnds(c) PROVE InstallTypeOK'
  BY <1>20 DEF WorkerEnds
<1>21. ASSUME NEW c \in Dialers, NEW f \in Formats, Judge(c, f) PROVE InstallTypeOK'
  <2> DEFINE J == node[c].judged
             K == [g \in DOMAIN J \cup {f} |-> IF g = f THEN opened[f] ELSE J[g]]
  <2>1. PICK S \in SUBSET Formats : J \in [S -> Nat]
    BY JudgementsTyped
  <2>2. K \in [S \cup {f} -> Nat]
    BY <2>1
  <2>3. K \in Judgements
    BY <2>2, JudgementsTyped
  <2>4. node' = [node EXCEPT ![c].judged = K]
    BY <1>21 DEF Judge
  <2> HIDE DEF K
  <2>5. node' \in [Dialers -> NodeStates]
    BY SMTT(30), <2>3, <2>4 DEF NodeStates
  <2> QED
    BY <1>21, <2>5 DEF Judge
<1> QED
  BY <1>0, <1>1, <1>2, <1>3, <1>4, <1>5, <1>6, <1>7, <1>8, <1>9, <1>10, <1>11, <1>12, <1>13, <1>14,
     <1>15, <1>16, <1>17, <1>18, <1>19, <1>20, <1>21 DEF InstallNext

-----------------------------------------------------------------------------
\* Requests

\* Every step keeps that a request is handled once: it is sent again only when it was
\* not handled, and only its node handles it.
LEMMA RequestsKept ==
  ASSUME InstallInv, [InstallNext]_installVars
  PROVE  UnsentNotServed' /\ ServedOnce'
<1> USE DEF InstallInv, InstallTypeOK, NodeStates, UnsentNotServed, ServedOnce, buildVars, formatVars,
            nodeVars, attemptVars, Sendable
<1> DEFINE Goal == UnsentNotServed' /\ ServedOnce'
<1>0. CASE UNCHANGED installVars
  BY <1>0 DEF installVars
<1>1. ASSUME NEW b \in Builds, SetupBegins(b) PROVE Goal
  BY <1>1 DEF SetupBegins
<1>2. CASE SetupPins
  BY <1>2 DEF SetupPins
<1>3. ASSUME NEW c \in Dialers, DetectShell(c) PROVE Goal
  BY <1>3 DEF DetectShell, Ends
<1>4. ASSUME NEW c \in Dialers, SendCall(c) PROVE Goal
  <2>1. CASE Ends(c, "unreachable") /\ UNCHANGED node
    BY <1>4, <2>1 DEF SendCall, Ends
  <2>2. CASE node' = [node EXCEPT ![c].at = "starting"] /\ attempt' = [attempt EXCEPT ![c] = "await"]
    BY <1>4, <2>2 DEF SendCall
  <2>3. CASE CallFails(c, "missing") /\ UNCHANGED node
    BY <1>4, <2>3, FailureTyped DEF SendCall
  <2> QED
    BY <1>4, <2>1, <2>2, <2>3 DEF SendCall
<1>5. ASSUME NEW c \in Dialers, TakeInstallLock(c) PROVE Goal
  BY <1>5 DEF TakeInstallLock
<1>6. ASSUME NEW c \in Dialers, TakeReply(c) PROVE Goal
  <2>1. node'[c].at = "none" /\ \A d \in Dialers \ {c} : node'[d] = node[d]
    BY <1>6 DEF TakeReply, NoNode
  <2>2. attempt' = [attempt EXCEPT ![c] = IF served[c] = 1 THEN "ok" ELSE "refused"] /\ served' = served
    BY <1>6 DEF TakeReply, Ends
  <2> QED
    BY <2>1, <2>2
<1>7. ASSUME NEW c \in Dialers, Cut(c) PROVE Goal
  <2>1. PICK o \in {"unreachable", "deadline", "error"} : attempt' = [attempt EXCEPT ![c] = o]
    BY <1>7, FailureTyped DEF Cut
  <2> QED
    BY <1>7, <2>1 DEF Cut
<1>8. ASSUME NEW c \in Dialers, NodeDies(c) PROVE Goal
  <2>1. node'[c].at = "none" /\ \A d \in Dialers \ {c} : node'[d] = node[d]
    BY <1>8 DEF NodeDies, NoNode
  <2>2. \/ attempt' = attempt
        \/ \E o \in {"unreachable", "deadline", "error"} : attempt' = [attempt EXCEPT ![c] = o]
    BY <1>8, FailureTyped DEF NodeDies
  <2>3. served' = served
    BY <1>8 DEF NodeDies
  <2> QED
    BY <2>1, <2>2, <2>3
<1>9. ASSUME NEW c \in Dialers, NodeLeaves(c) PROVE Goal
  <2>1. node'[c].at = "none" /\ \A d \in Dialers \ {c} : node'[d] = node[d]
    BY <1>9 DEF NodeLeaves, NoNode
  <2> QED
    BY <1>9, <2>1 DEF NodeLeaves
<1>10. ASSUME NEW c \in Dialers, Bootstrap(c) PROVE Goal
  BY <1>10 DEF Bootstrap, Ends
<1>11. ASSUME NEW c \in Dialers, AdmitBuild(c) PROVE Goal
  <2>1. CASE Ends(c, "error") /\ UNCHANGED node
    BY <1>11, <2>1 DEF AdmitBuild, Ends
  <2>2. CASE /\ node' = [node EXCEPT ![c] = [NoNode EXCEPT !.at = "starting"]]
             /\ attempt' = [attempt EXCEPT ![c] = "await"]
    <3>1. \A d \in Dialers \ {c} : node'[d] = node[d] /\ attempt'[d] = attempt[d]
      BY <2>2
    <3>2. attempt'[c] = "await" /\ served' = served /\ served[c] = 0
      BY <1>11, <2>2 DEF AdmitBuild
    <3> QED
      BY <3>1, <3>2
  <2> QED
    BY <1>11, <2>1, <2>2 DEF AdmitBuild
<1>12. ASSUME NEW c \in Dialers, HoldBuild(c) PROVE Goal
  BY <1>12 DEF HoldBuild
<1>13. ASSUME NEW c \in Dialers, PruneBegins(c) PROVE Goal
  BY <1>13 DEF PruneBegins
<1>14. ASSUME NEW c \in Dialers, PruneBuilds(c) PROVE Goal
  BY <1>14 DEF PruneBuilds
<1>15. ASSUME NEW c \in Dialers, SetAsideStores(c) PROVE Goal
  BY <1>15 DEF SetAsideStores
<1>16. ASSUME NEW c \in Dialers, Hello(c) PROVE Goal
  BY <1>16 DEF Hello
<1>17. ASSUME NEW c \in Dialers, OpenStore(c) PROVE Goal
  BY <1>17 DEF OpenStore
<1>18. ASSUME NEW c \in Dialers, RecordOpening(c) PROVE Goal
  BY <1>18 DEF RecordOpening
<1>19. ASSUME NEW c \in Dialers, RunJob(c) PROVE Goal
  BY <1>19 DEF RunJob
<1>20. ASSUME NEW c \in Dialers, WorkerEnds(c) PROVE Goal
  BY <1>20 DEF WorkerEnds
<1>21. ASSUME NEW c \in Dialers, NEW f \in Formats, Judge(c, f) PROVE Goal
  BY <1>21 DEF Judge
<1> QED
  BY <1>0, <1>1, <1>2, <1>3, <1>4, <1>5, <1>6, <1>7, <1>8, <1>9, <1>10, <1>11, <1>12, <1>13, <1>14,
     <1>15, <1>16, <1>17, <1>18, <1>19, <1>20, <1>21 DEF InstallNext

-----------------------------------------------------------------------------
\* Builds

\* A step that removes nothing and lets nobody take hold of a build changes nothing.
LEMMA BuildsUntouched ==
  ASSUME InstallInv, UNCHANGED <<installed, setup>>, publisher' \subseteq publisher,
         \A d \in Dialers : node'[d].holds \in {"no", node[d].holds}
  PROVE  BuildsKept'
BY DEF InstallInv, BuildsKept

\* Every step leaves the builds in use as their users found them.
LEMMA BuildsStay ==
  ASSUME InstallInv, [InstallNext]_installVars
  PROVE  BuildsKept'
<1> USE DEF InstallInv, InstallTypeOK, NodeStates, buildVars, formatVars, nodeVars, attemptVars
<1>0. CASE UNCHANGED installVars
  BY <1>0 DEF installVars, BuildsKept
<1>1. ASSUME NEW b \in Builds, SetupBegins(b) PROVE BuildsKept'
  BY <1>1 DEF SetupBegins, BuildsKept
<1>2. CASE SetupPins
  BY <1>2 DEF SetupPins, BuildsKept
<1>3. ASSUME NEW c \in Dialers, \/ DetectShell(c) \/ TakeInstallLock(c) \/ Cut(c) \/ Bootstrap(c)
                                \/ WorkerEnds(c)
      PROVE  BuildsKept'
  BY <1>3, BuildsUntouched DEF DetectShell, TakeInstallLock, Cut, Bootstrap, WorkerEnds
<1>4. ASSUME NEW c \in Dialers, SendCall(c) PROVE BuildsKept'
  BY <1>4, BuildsUntouched DEF SendCall
<1>6. ASSUME NEW c \in Dialers, TakeReply(c) \/ NodeDies(c) \/ NodeLeaves(c) PROVE BuildsKept'
  <2>1. node'[c].holds = "no" /\ \A d \in Dialers \ {c} : node'[d] = node[d]
    BY <1>6 DEF TakeReply, NodeDies, NodeLeaves, NoNode
  <2> QED
    BY <1>6, <2>1, BuildsUntouched DEF TakeReply, NodeDies, NodeLeaves
<1>11. ASSUME NEW c \in Dialers, AdmitBuild(c) PROVE BuildsKept'
  <2>1. CASE installed[BuildOf[c]] = "part"
    BY <1>11, <2>1, BuildsUntouched DEF AdmitBuild
  <2>2. CASE installed[BuildOf[c]] # "part"
    <3>1. node'[c].holds = "no" /\ \A d \in Dialers \ {c} : node'[d] = node[d]
      BY <1>11, <2>2 DEF AdmitBuild, NoNode
    <3>2. /\ installed' = [installed EXCEPT ![BuildOf[c]] = "whole"]
          /\ publisher' = publisher \cup {c} /\ setup' = setup
      BY <1>11, <2>2 DEF AdmitBuild
    <3> QED
      BY SMTT(30), <2>2, <3>1, <3>2, InstallAssumption DEF BuildsKept
  <2> QED
    BY <2>1, <2>2
<1>12. ASSUME NEW c \in Dialers, HoldBuild(c) PROVE BuildsKept'
  BY <1>12, InstallAssumption DEF HoldBuild, BuildsKept
<1>13. ASSUME NEW c \in Dialers, PruneBegins(c) PROVE BuildsKept'
  BY <1>13, BuildsUntouched DEF PruneBegins
<1>14. ASSUME NEW c \in Dialers, PruneBuilds(c) PROVE BuildsKept'
  <2> DEFINE beyond == BeyondNewest({b \in Builds : IdleBuild(c, b)}, started, KeepIdle)
  <2>1. \A b \in beyond : b \in Builds /\ ~InUse(b)
    BY BeyondAmong DEF IdleBuild
  <2>2. \A b \in Builds \ beyond : installed'[b] = installed[b]
    <3> HIDE DEF beyond
    <3> QED
      BY <1>14 DEF PruneBuilds, beyond
  <2> HIDE DEF beyond
  <2>3. \A d \in Dialers : node'[d].holds = node[d].holds
    BY <1>14 DEF PruneBuilds
  <2>4. publisher' = publisher /\ setup' = setup
    BY <1>14 DEF PruneBuilds
  <2>5. \A d \in Dialers : node[d].holds # "no" \/ d \in publisher => BuildOf[d] \notin beyond
    BY <2>1 DEF InUse, BuildUsers
  <2>6. setup \notin beyond
    BY <2>1 DEF InUse
  <2> QED
    BY <2>2, <2>3, <2>4, <2>5, <2>6, InstallAssumption DEF BuildsKept
<1>15. ASSUME NEW c \in Dialers, SetAsideStores(c) PROVE BuildsKept'
  BY <1>15, BuildsUntouched DEF SetAsideStores
<1>16. ASSUME NEW c \in Dialers, Hello(c) PROVE BuildsKept'
  BY <1>16, BuildsUntouched DEF Hello
<1>17. ASSUME NEW c \in Dialers, OpenStore(c) PROVE BuildsKept'
  BY <1>17, BuildsUntouched DEF OpenStore
<1>18. ASSUME NEW c \in Dialers, RecordOpening(c) PROVE BuildsKept'
  BY <1>18, BuildsUntouched DEF RecordOpening
<1>19. ASSUME NEW c \in Dialers, RunJob(c) PROVE BuildsKept'
  BY <1>19, BuildsUntouched DEF RunJob
<1>21. ASSUME NEW c \in Dialers, NEW f \in Formats, Judge(c, f) PROVE BuildsKept'
  BY <1>21, BuildsUntouched DEF Judge
<1> QED
  BY <1>0, <1>1, <1>2, <1>3, <1>4, <1>6, <1>11, <1>12, <1>13, <1>14,
     <1>15, <1>16, <1>17, <1>18, <1>19, <1>21 DEF InstallNext

-----------------------------------------------------------------------------
\* Stores

\* A step that begins and ends no job and judges nothing changes nothing.
LEMMA StoresUntouched ==
  ASSUME InstallInv, UNCHANGED <<jobs, orphaned, served>>,
         \A d \in Dialers : DOMAIN node'[d].judged \subseteq DOMAIN node[d].judged
  PROVE  JobsServed' /\ JudgedBefore' /\ StoresJudged'
BY DEF InstallInv, JobsServed, JudgedBefore, StoresJudged

\* Every step keeps that a store is only set aside from under a job by a node that
\* judged it before.
LEMMA StoresStay ==
  ASSUME InstallInv, [InstallNext]_installVars
  PROVE  JobsServed' /\ JudgedBefore' /\ StoresJudged'
<1> USE DEF InstallInv, InstallTypeOK, NodeStates, buildVars, formatVars, nodeVars, attemptVars
<1> DEFINE Goal == JobsServed' /\ JudgedBefore' /\ StoresJudged'
<1>0. CASE UNCHANGED installVars
  BY <1>0, StoresUntouched DEF installVars
<1>1. ASSUME NEW b \in Builds, SetupBegins(b) PROVE Goal
  BY <1>1, StoresUntouched DEF SetupBegins
<1>2. CASE SetupPins
  BY <1>2, StoresUntouched DEF SetupPins
<1>3. ASSUME NEW c \in Dialers, DetectShell(c) \/ TakeInstallLock(c) \/ Cut(c) \/ Bootstrap(c)
      PROVE  Goal
  BY <1>3, StoresUntouched DEF DetectShell, TakeInstallLock, Cut, Bootstrap
<1>4. ASSUME NEW c \in Dialers, SendCall(c) PROVE Goal
  BY SMTT(30), <1>4, StoresUntouched DEF SendCall
<1>6. ASSUME NEW c \in Dialers, TakeReply(c) \/ NodeDies(c) \/ NodeLeaves(c) PROVE Goal
  <2>1. DOMAIN node'[c].judged = {} /\ \A d \in Dialers \ {c} : node'[d] = node[d]
    BY <1>6 DEF TakeReply, NodeDies, NodeLeaves, NoNode
  <2> QED
    BY <1>6, <2>1, StoresUntouched DEF TakeReply, NodeDies, NodeLeaves
<1>11. ASSUME NEW c \in Dialers, AdmitBuild(c) PROVE Goal
  <2>1. node' = node \/ (DOMAIN node'[c].judged = {} /\ \A d \in Dialers \ {c} : node'[d] = node[d])
    BY <1>11 DEF AdmitBuild, NoNode
  <2> QED
    BY <1>11, <2>1, StoresUntouched DEF AdmitBuild
<1>12. ASSUME NEW c \in Dialers, HoldBuild(c) PROVE Goal
  BY <1>12, StoresUntouched DEF HoldBuild
<1>13. ASSUME NEW c \in Dialers, PruneBegins(c) PROVE Goal
  BY <1>13, StoresUntouched DEF PruneBegins
<1>14. ASSUME NEW c \in Dialers, PruneBuilds(c) PROVE Goal
  <2>1. node' = [node EXCEPT ![c].at = "judge", ![c].pinned = NoBuild] /\ UNCHANGED <<jobs, orphaned, served>>
    BY <1>14 DEF PruneBuilds
  <2> QED
    BY <2>1, StoresUntouched
<1>15. ASSUME NEW c \in Dialers, SetAsideStores(c) PROVE Goal
  <2> DEFINE judged == node[c].judged
             beyond == BeyondNewest(DOMAIN judged, judged, KeepFormats)
             under == {w \in DOMAIN jobs : FormatOf[BuildOf[w]] \in beyond /\ w \notin DOMAIN orphaned}
  <2>1. beyond \subseteq DOMAIN judged
    BY BeyondAmong
  <2>2. orphaned' = [w \in DOMAIN orphaned \cup under |-> IF w \in under THEN c ELSE orphaned[w]]
    BY <1>15 DEF SetAsideStores
  <2>3. jobs' = jobs /\ served' = served
    BY <1>15 DEF SetAsideStores
  <2>4. \A d \in Dialers : DOMAIN node'[d].judged \subseteq DOMAIN node[d].judged
    <3>1. DOMAIN node'[c].judged = {}
      BY <1>15 DEF SetAsideStores, NoNode
    <3>2. \A d \in Dialers \ {c} : node'[d] = node[d]
      BY <1>15 DEF SetAsideStores
    <3> QED
      BY <3>1, <3>2
  <2>5. \A w \in under : c \in jobs[w]
    BY <2>1 DEF JudgedBefore
  <2>6. under \subseteq DOMAIN jobs
    OBVIOUS
  <2> HIDE DEF under, beyond, judged
  <2> QED
    BY <2>2, <2>3, <2>4, <2>5, <2>6 DEF JobsServed, JudgedBefore, StoresJudged
<1>16. ASSUME NEW c \in Dialers, Hello(c) PROVE Goal
  <2>1. c \notin DOMAIN jobs
    BY <1>16 DEF Hello, UnsentNotServed, JobsServed
  <2>2. \A d \in Dialers : node'[d].judged = node[d].judged
    BY <1>16 DEF Hello
  <2> QED
    BY <1>16, <2>1, <2>2 DEF Hello, JobsServed, JudgedBefore, StoresJudged
<1>17. ASSUME NEW c \in Dialers, OpenStore(c) PROVE Goal
  BY <1>17, StoresUntouched DEF OpenStore
<1>18. ASSUME NEW c \in Dialers, RecordOpening(c) PROVE Goal
  BY <1>18, StoresUntouched DEF RecordOpening
<1>19. ASSUME NEW c \in Dialers, RunJob(c) PROVE Goal
  <2> DEFINE f == FormatOf[BuildOf[c]]
             before == {n \in Dialers : f \in DOMAIN node[n].judged}
  <2>1. c \notin DOMAIN jobs /\ served[c] = 0
    BY <1>19 DEF RunJob, UnsentNotServed, JobsServed
  <2>2. \A d \in Dialers : node'[d].judged = node[d].judged
    BY <1>19 DEF RunJob
  <2>3. orphaned' = orphaned
    BY <1>19 DEF RunJob
  <2>4. CASE jobs' = jobs
    BY <1>19, <2>1, <2>2, <2>3, <2>4 DEF RunJob, JobsServed, JudgedBefore, StoresJudged
  <2>5. CASE f \in kept /\ jobs' = [w \in DOMAIN jobs \cup {c} |-> IF w = c THEN before ELSE jobs[w]]
    <3>1. served'[c] = 1 /\ \A d \in Dialers \ {c} : served'[d] = served[d]
      BY <1>19, <2>1, <2>5 DEF RunJob
    <3>2. \A n \in Dialers : f \in DOMAIN node[n].judged => n \in before
      OBVIOUS
    <3>3. DOMAIN jobs' = DOMAIN jobs \cup {c} /\ jobs'[c] = before /\ \A w \in DOMAIN jobs : jobs'[w] = jobs[w]
      BY <2>1, <2>5
    <3>4. c \notin DOMAIN orphaned
      BY <2>1 DEF JobsServed
    <3> HIDE DEF before
    <3>5. JobsServed'
      BY <2>3, <3>1, <3>3 DEF JobsServed
    <3>6. JudgedBefore'
      BY <2>2, <2>3, <3>2, <3>3 DEF JudgedBefore
    <3>7. StoresJudged'
      BY <2>3, <3>3, <3>4 DEF JobsServed, StoresJudged
    <3> QED
      BY <3>5, <3>6, <3>7
  <2> QED
    BY <1>19, <2>4, <2>5 DEF RunJob
<1>20. ASSUME NEW c \in Dialers, WorkerEnds(c) PROVE Goal
  <2>1. /\ DOMAIN jobs' = DOMAIN jobs \ {c} /\ \A w \in DOMAIN jobs' : jobs'[w] = jobs[w]
        /\ DOMAIN orphaned' = DOMAIN orphaned \ {c} /\ \A w \in DOMAIN orphaned' : orphaned'[w] = orphaned[w]
        /\ node' = node /\ served' = served
    BY <1>20 DEF WorkerEnds
  <2> QED
    BY <2>1 DEF JobsServed, JudgedBefore, StoresJudged
<1>21. ASSUME NEW c \in Dialers, NEW f \in Formats, Judge(c, f) PROVE Goal
  <2>1. DOMAIN node'[c].judged = DOMAIN node[c].judged \cup {f} /\ \A d \in Dialers \ {c} : node'[d] = node[d]
    BY <1>21 DEF Judge
  <2>2. \A w \in DOMAIN jobs \ DOMAIN orphaned : FormatOf[BuildOf[w]] # f
    BY <1>21 DEF Judge, Busy
  <2>3. UNCHANGED <<jobs, orphaned, served>>
    BY <1>21 DEF Judge
  <2> QED
    BY <2>1, <2>2, <2>3 DEF JobsServed, JudgedBefore, StoresJudged
<1> QED
  BY <1>0, <1>1, <1>2, <1>3, <1>4, <1>6, <1>11, <1>12, <1>13, <1>14,
     <1>15, <1>16, <1>17, <1>18, <1>19, <1>20, <1>21 DEF InstallNext

-----------------------------------------------------------------------------
\* The invariant holds in every state.
LEMMA InstallInvariant == InstallSpec => []InstallInv
<1>1. InstallInv /\ [InstallNext]_installVars => InstallInv'
  BY InstallTypesKept, RequestsKept, BuildsStay, StoresStay DEF InstallInv
<1> QED
  BY <1>1, InstallInitially, PTL DEF InstallSpec

\* Whatever builds are started, removed, crash and lose their connections on a machine:
\* a build in use stays as it was found, a request is handled at most once and told of
\* truthfully, and the store of a running job is set aside only by a node that judged it
\* before the job began (builds.rs, transport.rs, store.rs).
THEOREM InstallCorrect == InstallSpec => []InstallSound
<1>1. InstallInv => InstallSound
  BY DEF InstallInv, InstallSound
<1> QED
  BY <1>1, InstallInvariant, PTL

-----------------------------------------------------------------------------
(***************************************************************************)
(* What the release queue publishes, for any builds, tags, runs, assets    *)
(* and mishaps, several builds of one tag included.                        *)
(*                                                                         *)
(* Two things carry the argument.  The concurrency group lets one job at a *)
(* time work on an entry, so a job that staples knows that nobody saves a  *)
(* distribution of the entry meanwhile.  And nothing that was uploaded,    *)
(* accepted, attested or published is ever taken back, so what a job has   *)
(* compared still holds when it publishes.                                 *)
(***************************************************************************)

\* What an asset of a release may hold.
AssetBytes == {NotThere, Partial, Foreign} \cup {Bytes(e, by, a) : e \in Entries, by \in Makers, a \in Assets}

JobStates == [at : ReleasePhases, by : Makers, bad : SUBSET (Assets \cup {"pending"})]
SavedStates == [entry : Entries, by : FinalRuns, bad : SUBSET Assets]

\* The types of the saved distributions, the jobs and the releases.
ReleaseTyped ==
  /\ ReleaseTypeOK
  /\ saved \subseteq SavedStates
  /\ release \in [Tags -> [state : {"none", "draft", "published"}, asset : [Assets -> AssetBytes]]]

\* One job at a time works on an entry.
OneJob ==
  \A e \in Entries : \A q, r \in FinalRuns :
    job[q][e].at \notin Resting /\ job[r][e].at \notin Resting => q = r

\* The points from which a job publishes or marks what it has verified.
Publishing == {"create", "upload", "check", "edit", "verify", "mark"}

\* What a job knows where it stands: that nothing is saved when it staples, that its
\* distribution is accepted and attested when it publishes, that the draft is whole when
\* it takes it public, and that the release is public when it leaves its marker.
JobSound(r, e) ==
  /\ job[r][e].at \in {"attest", "save"} => \A s \in saved : s.entry # e
  /\ job[r][e].at \in Publishing => /\ apple[e] = "Accepted"
                                    /\ e \in Modern => <<e, job[r][e].by>> \in attested
  /\ job[r][e].at \in Publishing \ {"mark"} => Publishes(e)
  /\ job[r][e].at = "edit" => \A a \in Assets : AssetHolds(TagOf[e], a) = Bytes(e, job[r][e].by, a)
  /\ job[r][e].at = "mark" /\ Publishes(e) => release[TagOf[e]].state = "published"

JobsSound == \A r \in FinalRuns, e \in Entries : JobSound(r, e)

\* A marker is only left for what is public.
MarkedIsPublished ==
  \A e \in Entries, r \in FinalRuns :
    <<e, r>> \in marked /\ Publishes(e) => release[TagOf[e]].state = "published"

ReleaseInv ==
  ReleaseTyped /\ OneJob /\ JobsSound /\ MarkedIsPublished /\ PublishedWhole /\ StapledOnce
-----------------------------------------------------------------------------
\* Bytes of a distribution are none of the marks.
LEMMA BytesAreThere ==
  /\ \A e, by, a : Bytes(e, by, a) # NotThere
  /\ Partial # NotThere /\ Foreign # NotThere
BY DEF Bytes, NotThere, Partial, Foreign

\* A job without files.
LEMMA FreshTyped ==
  ASSUME NEW p \in ReleasePhases
  PROVE  FreshJob(p) \in JobStates /\ FreshJob(p).at = p
BY DEF FreshJob, JobStates, Makers

\* A tag of an entry that is to be published.
LEMMA TagTyped == \A e \in Entries : Publishes(e) => TagOf[e] \in Tags
BY DEF Tags, Publishes

\* Where one job is put, the others stay.
LEMMA PutMoves ==
  ASSUME ReleaseTyped, NEW r \in FinalRuns, NEW e \in Entries, NEW j \in JobStates, Put(r, e, j)
  PROVE  /\ job' \in [FinalRuns -> [Entries -> JobStates]]
         /\ job'[r][e] = j
         /\ \A q \in FinalRuns, d \in Entries : q # r \/ d # e => job'[q][d] = job[q][d]
BY DEF ReleaseTyped, ReleaseTypeOK, Put, JobStates

\* A job that goes on keeps its distribution.
LEMMA GotoMoves ==
  ASSUME ReleaseTyped, NEW r \in FinalRuns, NEW e \in Entries, NEW p \in ReleasePhases, Goto(r, e, p)
  PROVE  /\ job' \in [FinalRuns -> [Entries -> JobStates]]
         /\ job'[r][e].at = p
         /\ p \notin {"done", "failed"} => job'[r][e].by = job[r][e].by
         /\ \A q \in FinalRuns, d \in Entries : q # r \/ d # e => job'[q][d] = job[q][d]
<1> DEFINE j == IF p \in {"done", "failed"} THEN FreshJob(p) ELSE [job[r][e] EXCEPT !.at = p]
<1>1. job[r][e] \in JobStates
  <2>1. job \in [FinalRuns -> [Entries -> JobStates]]
    BY Zenon DEF ReleaseTyped, ReleaseTypeOK, JobStates
  <2> QED
    BY <2>1
<1>2. j \in JobStates /\ j.at = p /\ (p \notin {"done", "failed"} => j.by = job[r][e].by)
  <2>1. CASE p \in {"done", "failed"}
    BY <2>1, FreshTyped
  <2>2. CASE p \notin {"done", "failed"}
    BY <1>1, <2>2 DEF JobStates
  <2> QED
    BY <2>1, <2>2
<1>3. Put(r, e, j)
  BY DEF Goto
<1> HIDE DEF j
<1> QED
  BY <1>2, <1>3, PutMoves

\* The invariant holds initially.
LEMMA ReleaseInitially == ReleaseInit => ReleaseInv
<1> SUFFICES ASSUME ReleaseInit PROVE ReleaseInv
  OBVIOUS
<1>1. FreshJob("none") \in JobStates /\ FreshJob("none").at = "none"
  BY FreshTyped DEF ReleasePhases
<1>2. ReleaseTyped
  <2>1. job \in [FinalRuns -> [Entries -> JobStates]]
    BY <1>1 DEF ReleaseInit
  <2>2. release \in [Tags -> [state : {"none", "draft", "published"}, asset : [Assets -> AssetBytes]]]
    <3>1. NotThere \in AssetBytes
      BY DEF AssetBytes
    <3> QED
      BY <3>1 DEF ReleaseInit
  <2> QED
    <3>1. mishaps \in 0..MaxMishaps
      <4>1. mishaps = 0
        BY Zenon DEF ReleaseInit
      <4> QED
        BY <4>1, ReleaseAssumption
    <3>2. tag \in [Tags -> [names : BOOLEAN, guarded : BOOLEAN]]
      <4>1. [names |-> TRUE, guarded |-> TRUE] \in [names : BOOLEAN, guarded : BOOLEAN]
        BY Zenon
      <4> QED
        BY <4>1, Zenon DEF ReleaseInit
    <3>3. queueAge \in [Entries -> 0..3] /\ apple \in [Entries -> {"In Progress", "Accepted", "Invalid"}]
      <4>1. queueAge = [e \in Entries |-> 0] /\ apple = [e \in Entries |-> "In Progress"]
        BY Zenon DEF ReleaseInit
      <4>2. 0 \in 0..3
        OBVIOUS
      <4>3. queueAge \in [Entries -> 0..3]
        BY <4>1, <4>2, Zenon
      <4>4. apple \in [Entries -> {"In Progress", "Accepted", "Invalid"}]
        BY <4>1
      <4> QED
        BY <4>3, <4>4
    <3>4. saved = {} /\ attested = {} /\ marked = {} /\ pending = {} /\ advised = FALSE
      BY DEF ReleaseInit
    <3>5. verdict \in [FinalRuns -> {"none", "running", "success", "failure"}]
      BY DEF ReleaseInit
    <3> QED
      BY <2>1, <2>2, <3>1, <3>2, <3>3, <3>4, <3>5 DEF ReleaseTyped, ReleaseTypeOK, JobStates
<1>3. \A r \in FinalRuns, e \in Entries : job[r][e].at = "none"
  BY <1>1 DEF ReleaseInit
<1>4. OneJob /\ JobsSound
  BY <1>3 DEF OneJob, JobsSound, JobSound, Resting, Publishing
<1>5. PublishedWhole
  BY DEF ReleaseInit, PublishedWhole
<1> QED
  BY <1>2, <1>4, <1>5 DEF ReleaseInit, ReleaseInv, MarkedIsPublished, StapledOnce

-----------------------------------------------------------------------------
\* What is accepted, attested, uploaded or published stays so.
Grows ==
  /\ \A e \in Entries : apple[e] = "Accepted" => apple'[e] = "Accepted"
  /\ attested \subseteq attested'
  /\ \A t \in Tags : /\ release[t].state = "published" => release'[t].state = "published"
                     /\ \A a \in Assets : release[t].asset[a] # NotThere => release'[t].asset[a] = release[t].asset[a]

\* What a job knew before a step that does not move it still holds after.
LEMMA JobStaysSound ==
  ASSUME ReleaseInv, Grows, NEW r \in FinalRuns, NEW e \in Entries, job'[r][e] = job[r][e],
         job[r][e].at \in {"attest", "save"} => \A s \in saved' : s.entry # e
  PROVE  JobSound(r, e)'
<1>1. JobSound(r, e)
  BY DEF ReleaseInv, JobsSound
<1>2. job[r][e].at = "edit" => \A a \in Assets : AssetHolds(TagOf[e], a)' = AssetHolds(TagOf[e], a)
  BY <1>1, BytesAreThere, TagTyped DEF JobSound, Grows, AssetHolds, Publishing
<1>3. Publishes(e) /\ release[TagOf[e]].state = "published" => release'[TagOf[e]].state = "published"
  BY TagTyped DEF Grows
<1> QED
  BY <1>1, <1>2, <1>3 DEF JobSound, Grows, Publishes

\* What was published whole is whole.
LEMMA StaysPublished ==
  ASSUME ReleaseInv, Grows, NEW t \in Tags, release[t].state = "published"
  PROVE  \E e \in Entries, by \in Makers :
           /\ TagOf[e] = t /\ apple'[e] = "Accepted"
           /\ e \in Modern => <<e, by>> \in attested'
           /\ \A a \in Assets : AssetHolds(t, a)' = Bytes(e, by, a)
<1>1. PICK e \in Entries, by \in Makers :
        /\ TagOf[e] = t /\ apple[e] = "Accepted"
        /\ e \in Modern => <<e, by>> \in attested
        /\ \A a \in Assets : AssetHolds(t, a) = Bytes(e, by, a)
  BY DEF ReleaseInv, PublishedWhole
<1>2. \A a \in Assets : AssetHolds(t, a)' = Bytes(e, by, a)
  BY <1>1, BytesAreThere DEF Grows, AssetHolds
<1> QED
  BY <1>1, <1>2 DEF Grows

\* A step that moves one job, publishes nothing and saves and marks nothing keeps the
\* rest of the invariant, when the job it moves knows what it has to.
LEMMA OneJobMoves ==
  ASSUME ReleaseInv, ReleaseTyped', Grows, NEW r \in FinalRuns, NEW e \in Entries,
         \A q \in FinalRuns, d \in Entries : q # r \/ d # e => job'[q][d] = job[q][d],
         \/ job[r][e].at \notin Resting
         \/ job'[r][e].at \in Resting
         \/ \A q \in FinalRuns : job[q][e].at \in Resting,
         JobSound(r, e)',
         UNCHANGED <<saved, marked>>,
         \A t \in Tags : release'[t].state = "published" => release[t].state = "published"
  PROVE  ReleaseInv'
<1>1. OneJob'
  BY DEF ReleaseInv, OneJob
<1>2. JobsSound'
  <2> SUFFICES ASSUME NEW q \in FinalRuns, NEW d \in Entries PROVE JobSound(q, d)'
    BY DEF JobsSound
  <2>1. CASE q = r /\ d = e
    BY <2>1
  <2>2. CASE q # r \/ d # e
    <3>1. job'[q][d] = job[q][d] /\ JobSound(q, d)
      BY <2>2 DEF ReleaseInv, JobsSound
    <3> QED
      BY <3>1, JobStaysSound DEF JobSound
  <2> QED
    BY <2>1, <2>2
<1>3. MarkedIsPublished'
  BY TagTyped DEF ReleaseInv, MarkedIsPublished, Grows, Publishes
<1>4. PublishedWhole'
  BY StaysPublished DEF PublishedWhole
<1>5. StapledOnce'
  BY DEF ReleaseInv, StapledOnce
<1> QED
  BY <1>1, <1>2, <1>3, <1>4, <1>5 DEF ReleaseInv

-----------------------------------------------------------------------------
\* The jobs, typed.
LEMMA JobTyped ==
  ASSUME ReleaseTyped
  PROVE  /\ job \in [FinalRuns -> [Entries -> JobStates]]
         /\ \A r \in FinalRuns, e \in Entries : job[r][e] \in JobStates /\ job[r][e].by \in Makers
<1>1. job \in [FinalRuns -> [Entries -> JobStates]]
  BY Zenon DEF ReleaseTyped, ReleaseTypeOK, JobStates
<1>2. \A r \in FinalRuns, e \in Entries : job[r][e] \in JobStates
  BY <1>1
<1> QED
  BY <1>1, <1>2 DEF JobStates

\* A step of a job changes no part of the world.
LEMMA TypedAfter ==
  ASSUME ReleaseTyped, UNCHANGED world,
         attested' \subseteq Entries \X FinalRuns, saved' \subseteq SavedStates,
         marked' \subseteq Entries \X FinalRuns,
         verdict' \in [FinalRuns -> {"none", "running", "success", "failure"}],
         job' \in [FinalRuns -> [Entries -> JobStates]],
         release' \in [Tags -> [state : {"none", "draft", "published"}, asset : [Assets -> AssetBytes]]],
         mishaps' \in 0..MaxMishaps
  PROVE  ReleaseTyped'
<1>1. /\ pending' = pending /\ queueAge' = queueAge /\ apple' = apple /\ tag' = tag /\ advised' = advised
  BY DEF world
<1>2. \A s \in saved' : s.entry \in Entries /\ s.by \in FinalRuns /\ s.bad \subseteq Assets
  BY DEF SavedStates
<1> QED
  BY <1>1, <1>2, Zenon DEF ReleaseTyped, ReleaseTypeOK, JobStates

\* The parts of the types that steps of a job leave alone.
LEMMA PartsTyped ==
  ASSUME ReleaseTyped
  PROVE  /\ attested \subseteq Entries \X FinalRuns /\ saved \subseteq SavedStates
         /\ marked \subseteq Entries \X FinalRuns
         /\ verdict \in [FinalRuns -> {"none", "running", "success", "failure"}]
         /\ release \in [Tags -> [state : {"none", "draft", "published"}, asset : [Assets -> AssetBytes]]]
         /\ mishaps \in 0..MaxMishaps
BY Zenon DEF ReleaseTyped, ReleaseTypeOK

\* A mishap is counted within its bound.
LEMMA MishapTyped ==
  ASSUME ReleaseTyped, Mishap
  PROVE  mishaps' \in 0..MaxMishaps
BY PartsTyped, ReleaseAssumption DEF Mishap

\* A job has nothing to know before it staples and before it publishes.
LEMMA QuietJob ==
  ASSUME NEW r \in FinalRuns, NEW e \in Entries,
         job'[r][e].at \in {"none", "queued", "finalize", "publish", "done", "failed"}
  PROVE  JobSound(r, e)'
BY DEF JobSound, Publishing

\* A step that changes nothing but where one job stands.
LEMMA GotoKeeps ==
  ASSUME ReleaseInv, NEW r \in FinalRuns, NEW e \in Entries, NEW p \in ReleasePhases, Goto(r, e, p),
         UNCHANGED <<world, artifacts, verdict, release, mishaps>>,
         job[r][e].at \notin Resting \/ p \in Resting \/ \A q \in FinalRuns : job[q][e].at \in Resting,
         JobSound(r, e)'
  PROVE  ReleaseInv'
<1>1. ReleaseTyped
  BY DEF ReleaseInv
<1>2. /\ job' \in [FinalRuns -> [Entries -> JobStates]] /\ job'[r][e].at = p
      /\ \A q \in FinalRuns, d \in Entries : q # r \/ d # e => job'[q][d] = job[q][d]
  BY <1>1, GotoMoves
<1>3. UNCHANGED <<attested, saved, marked>>
  BY DEF artifacts
<1>4. ReleaseTyped'
  BY <1>1, <1>2, <1>3, PartsTyped, TypedAfter
<1>5. Grows
  BY <1>3 DEF Grows, world
<1> QED
  BY <1>2, <1>3, <1>4, <1>5, OneJobMoves

\* A step that moves no job and takes nothing back.
LEMMA WorldMoves ==
  ASSUME ReleaseInv, ReleaseTyped', Grows, UNCHANGED <<job, saved, marked, release>>
  PROVE  ReleaseInv'
<1>1. OneJob' /\ StapledOnce'
  BY DEF ReleaseInv, OneJob, StapledOnce
<1>2. JobsSound'
  <2> SUFFICES ASSUME NEW q \in FinalRuns, NEW d \in Entries PROVE JobSound(q, d)'
    BY DEF JobsSound
  <2>1. job'[q][d] = job[q][d] /\ JobSound(q, d)
    BY DEF ReleaseInv, JobsSound
  <2> QED
    BY <2>1, JobStaysSound DEF JobSound
<1>3. MarkedIsPublished'
  BY DEF ReleaseInv, MarkedIsPublished, Publishes
<1>4. PublishedWhole'
  BY StaysPublished DEF PublishedWhole
<1> QED
  BY <1>1, <1>2, <1>3, <1>4 DEF ReleaseInv

\* A job begins when no other works on its entry.
LEMMA BeginFinalKeeps ==
  ASSUME ReleaseInv, NEW r \in FinalRuns, NEW e \in Entries, BeginFinal(r, e)
  PROVE  ReleaseInv'
<1>1. job'[r][e].at = "finalize"
  BY GotoMoves DEF BeginFinal, ReleaseInv, ReleasePhases
<1> QED
  BY <1>1, QuietJob, GotoKeeps DEF BeginFinal, ReleasePhases

\* The packages of an entry are stapled only when no distribution of it is saved.
LEMMA FinalizeKeeps ==
  ASSUME ReleaseInv, NEW r \in FinalRuns, NEW e \in Entries, Finalize(r, e)
  PROVE  ReleaseInv'
<1>0. ReleaseTyped /\ job[r][e].at \notin Resting /\ UNCHANGED <<world, artifacts, verdict, release, mishaps>>
  BY DEF ReleaseInv, Finalize, Resting
<1>1. ASSUME NEW p \in {"failed", "done", "publish"}, Goto(r, e, p) PROVE ReleaseInv'
  <2>1. p \in ReleasePhases
    BY DEF ReleasePhases
  <2>2. job'[r][e].at = p
    BY <1>0, <1>1, <2>1, GotoMoves
  <2> QED
    BY <1>0, <1>1, <2>1, <2>2, QuietJob, GotoKeeps
<1>2. ASSUME NEW j \in JobStates, Put(r, e, j),
             \/ j.at \in {"publish", "failed"}
             \/ j.at = "attest" /\ \A s \in saved : s.entry # e
      PROVE  ReleaseInv'
  <2>1. /\ job' \in [FinalRuns -> [Entries -> JobStates]] /\ job'[r][e] = j
        /\ \A q \in FinalRuns, d \in Entries : q # r \/ d # e => job'[q][d] = job[q][d]
    BY <1>0, <1>2, PutMoves
  <2>2. UNCHANGED <<attested, saved, marked>>
    BY <1>0 DEF artifacts
  <2>3. ReleaseTyped'
    BY <1>0, <2>1, <2>2, PartsTyped, TypedAfter
  <2>4. Grows
    BY <1>0, <2>2 DEF Grows, world
  <2>5. JobSound(r, e)'
    <3>1. CASE j.at \in {"publish", "failed"}
      BY <2>1, <3>1, QuietJob
    <3>2. CASE j.at = "attest" /\ \A s \in saved : s.entry # e
      BY <2>1, <2>2, <3>2 DEF JobSound, Publishing
    <3> QED
      BY <1>2, <3>1, <3>2
  <2> QED
    BY <1>0, <2>1, <2>2, <2>3, <2>4, <2>5, OneJobMoves
<1>3. CASE PrepareReady(r, e)
  <2>1. CASE SavedReady(e) = {} /\ Put(r, e, Staple(r))
    <3>1. Staple(r) \in JobStates /\ Staple(r).at = "attest"
      BY DEF Staple, JobStates, Makers, ReleasePhases
    <3>2. ASSUME NEW s \in saved, s.entry = e PROVE FALSE
      <4>1. \A t \in saved : t.by \in Nat
        BY <1>0, PartsTyped, ReleaseAssumption DEF SavedStates
      <4>2. \A t \in saved : t.entry = e => t.by <= s.by
        BY <3>2, <4>1 DEF ReleaseInv, StapledOnce
      <4> QED
        BY <2>1, <3>2, <4>2 DEF SavedReady
    <3> QED
      BY <1>2, <2>1, <3>1, <3>2
  <2>2. ASSUME NEW s \in SavedReady(e),
               Put(r, e, IF s.bad = {} /\ Attested(e, s.by)
                         THEN [at |-> "publish", by |-> s.by, bad |-> {}]
                         ELSE FreshJob("failed"))
        PROVE  ReleaseInv'
    <3>1. s.by \in Makers
      BY <1>0, PartsTyped DEF SavedReady, SavedStates, Makers
    <3>2. /\ [at |-> "publish", by |-> s.by, bad |-> {}] \in JobStates
          /\ FreshJob("failed") \in JobStates /\ FreshJob("failed").at = "failed"
      BY <3>1, FreshTyped DEF JobStates, ReleasePhases
    <3>3. CASE s.bad = {} /\ Attested(e, s.by)
      BY <1>2, <2>2, <3>2, <3>3
    <3>4. CASE ~(s.bad = {} /\ Attested(e, s.by))
      BY <1>2, <2>2, <3>2, <3>4
    <3> QED
      BY <3>3, <3>4
  <2> QED
    BY <1>3, <2>1, <2>2 DEF PrepareReady
<1> QED
  BY <1>1, <1>3 DEF Finalize

\* An attestation is added before what it attests is saved.
LEMMA AttestKeeps ==
  ASSUME ReleaseInv, NEW r \in FinalRuns, NEW e \in Entries, Attest(r, e)
  PROVE  ReleaseInv'
<1>0. /\ ReleaseTyped /\ job[r][e].at = "attest" /\ Goto(r, e, "save") /\ "save" \in ReleasePhases
      /\ attested' \in {attested, attested \cup {<<e, r>>}}
      /\ UNCHANGED <<world, saved, marked, verdict, release, mishaps>>
  BY DEF ReleaseInv, Attest, ReleasePhases
<1>1. /\ job' \in [FinalRuns -> [Entries -> JobStates]] /\ job'[r][e].at = "save"
      /\ \A q \in FinalRuns, d \in Entries : q # r \/ d # e => job'[q][d] = job[q][d]
  BY <1>0, GotoMoves
<1>2. attested' \subseteq Entries \X FinalRuns /\ attested \subseteq attested'
  BY <1>0, PartsTyped
<1>3. ReleaseTyped'
  BY <1>0, <1>1, <1>2, PartsTyped, TypedAfter
<1>4. Grows
  BY <1>0, <1>2 DEF Grows, world
<1>5. JobSound(r, e)'
  BY <1>0, <1>1 DEF JobSound, Publishing, ReleaseInv, JobsSound
<1> QED
  BY <1>0, <1>1, <1>3, <1>4, <1>5, OneJobMoves DEF Resting

\* A distribution is saved by the one job that works on its entry, and it is the first.
LEMMA SaveKeeps ==
  ASSUME ReleaseInv, NEW r \in FinalRuns, NEW e \in Entries, Save(r, e)
  PROVE  ReleaseInv'
<1> DEFINE new == [entry |-> e, by |-> r, bad |-> job[r][e].bad \cap Assets]
<1>0. /\ ReleaseTyped /\ job[r][e].at = "save" /\ Goto(r, e, "publish") /\ "publish" \in ReleasePhases
      /\ saved' = saved \cup {new}
      /\ UNCHANGED <<world, attested, marked, verdict, release, mishaps>>
  BY DEF ReleaseInv, Save, ReleasePhases
<1>1. /\ job' \in [FinalRuns -> [Entries -> JobStates]] /\ job'[r][e].at = "publish"
      /\ \A q \in FinalRuns, d \in Entries : q # r \/ d # e => job'[q][d] = job[q][d]
  BY <1>0, GotoMoves
<1>2. new \in SavedStates /\ new.entry = e /\ new.by = r
  BY DEF SavedStates
<1> HIDE DEF new
<1>3. ReleaseTyped'
  BY <1>0, <1>1, <1>2, PartsTyped, TypedAfter
<1>4. Grows
  BY <1>0 DEF Grows, world
<1>5. OneJob'
  BY <1>0, <1>1 DEF ReleaseInv, OneJob, Resting
<1>6. JobsSound'
  <2> SUFFICES ASSUME NEW q \in FinalRuns, NEW d \in Entries PROVE JobSound(q, d)'
    BY DEF JobsSound
  <2>1. CASE q = r /\ d = e
    BY <1>1, <2>1, QuietJob
  <2>2. CASE q # r \/ d # e
    <3>1. job'[q][d] = job[q][d] /\ JobSound(q, d)
      BY <1>1, <2>2 DEF ReleaseInv, JobsSound
    <3>2. job[q][d].at \in {"attest", "save"} => d # e
      BY <1>0, <2>2 DEF ReleaseInv, OneJob, Resting
    <3>3. job[q][d].at \in {"attest", "save"} => \A s \in saved' : s.entry # d
      BY <1>0, <1>2, <3>1, <3>2 DEF JobSound
    <3> QED
      BY <1>4, <3>1, <3>3, JobStaysSound
  <2> QED
    BY <2>1, <2>2
<1>7. StapledOnce'
  <2>1. \A s \in saved : s.entry # e
    BY <1>0 DEF ReleaseInv, JobsSound, JobSound
  <2> QED
    BY <1>0, <1>2, <2>1 DEF ReleaseInv, StapledOnce
<1>8. MarkedIsPublished'
  BY <1>0 DEF ReleaseInv, MarkedIsPublished, Publishes
<1>9. PublishedWhole'
  BY <1>0, <1>4, StaysPublished DEF PublishedWhole
<1> QED
  BY <1>3, <1>5, <1>6, <1>7, <1>8, <1>9 DEF ReleaseInv

\* Only what is accepted and attested is published, and a rehearsal is not.
LEMMA PublishKeeps ==
  ASSUME ReleaseInv, NEW r \in FinalRuns, NEW e \in Entries, Publish(r, e)
  PROVE  ReleaseInv'
<1>0. /\ ReleaseTyped /\ job[r][e].at = "publish" /\ job[r][e].at \notin Resting
      /\ UNCHANGED <<world, artifacts, verdict, release, mishaps>>
  BY DEF ReleaseInv, Publish, Resting
<1> DEFINE sound == /\ ValidOrigin(e) /\ Unchanged(r, e) /\ VerifiedReady(r, e)
                    /\ apple[e] = "Accepted" /\ TagBound(e)
<1>1. ASSUME NEW p \in ReleasePhases, Goto(r, e, p),
             \/ p = "failed"
             \/ sound /\ ~Publishes(e) /\ p = "mark"
             \/ sound /\ Publishes(e) /\ p \in {"create", "upload", "check", "verify"}
      PROVE  ReleaseInv'
  <2>1. job'[r][e].at = p /\ (p # "failed" /\ p # "done" => job'[r][e].by = job[r][e].by)
    BY <1>0, <1>1, GotoMoves
  <2>2. apple' = apple /\ attested' = attested
    BY <1>0 DEF world, artifacts
  <2>3. CASE p = "failed"
    BY <1>0, <1>1, <2>1, <2>3, QuietJob, GotoKeeps
  <2>4. CASE sound /\ p # "failed"
    <3>1. JobSound(r, e)'
      BY <1>1, <2>1, <2>2, <2>4 DEF JobSound, Publishing, VerifiedReady, Attested, Publishes
    <3> QED
      BY <1>0, <1>1, <3>1, GotoKeeps
  <2> QED
    BY <1>1, <2>3, <2>4
<1>2. {"failed", "mark", "create", "upload", "check", "verify"} \subseteq ReleasePhases
  BY DEF ReleasePhases
<1>3. Resumed(r, e) \in {"failed", "verify", "check", "upload"}
  BY DEF Resumed
<1>4. CASE ~sound /\ Goto(r, e, "failed")
  BY <1>1, <1>2, <1>4
<1>5. CASE sound /\ ~Publishes(e) /\ Goto(r, e, "mark")
  BY <1>1, <1>2, <1>5
<1>6. CASE sound /\ Publishes(e) /\ ~Reviewed /\ Goto(r, e, "failed")
  BY <1>1, <1>2, <1>6
<1>7. CASE sound /\ Publishes(e) /\ Reviewed /\ Goto(r, e, IF ReleaseFound(e) THEN Resumed(r, e) ELSE "create")
  <2> DEFINE p == IF ReleaseFound(e) THEN Resumed(r, e) ELSE "create"
  <2>1. p \in {"failed", "verify", "check", "upload", "create"} /\ p \in ReleasePhases
    BY <1>2, <1>3
  <2>2. Goto(r, e, p)
    BY <1>7
  <2> HIDE DEF p
  <2> QED
    BY <1>1, <1>7, <2>1, <2>2
<1> QED
  BY <1>4, <1>5, <1>6, <1>7 DEF Publish

\* A step that writes to the release of its tag: what was there stays.
LEMMA ReleaseWritten ==
  ASSUME ReleaseInv, NEW r \in FinalRuns, NEW e \in Entries, NEW p \in ReleasePhases, Goto(r, e, p),
         UNCHANGED <<world, artifacts, verdict>>, mishaps' \in 0..MaxMishaps,
         job[r][e].at \notin Resting,
         release' \in [Tags -> [state : {"none", "draft", "published"}, asset : [Assets -> AssetBytes]]],
         \A t \in Tags : /\ release[t].state = "published" <=> release'[t].state = "published"
                         /\ \A a \in Assets : release[t].asset[a] # NotThere =>
                                                release'[t].asset[a] = release[t].asset[a],
         p \in {"failed", "upload", "check"},
         p # "failed" => job[r][e].at \in {"create", "upload"}
  PROVE  ReleaseInv'
<1>0. ReleaseTyped /\ JobSound(r, e)
  BY DEF ReleaseInv, JobsSound
<1>1. /\ job' \in [FinalRuns -> [Entries -> JobStates]] /\ job'[r][e].at = p
      /\ p # "failed" => job'[r][e].by = job[r][e].by
      /\ \A q \in FinalRuns, d \in Entries : q # r \/ d # e => job'[q][d] = job[q][d]
  BY <1>0, GotoMoves
<1>2. UNCHANGED <<attested, saved, marked, apple>>
  BY DEF artifacts, world
<1>3. ReleaseTyped'
  BY <1>0, <1>1, <1>2, PartsTyped, TypedAfter
<1>4. Grows
  BY <1>2 DEF Grows
<1>5. JobSound(r, e)'
  BY <1>0, <1>1, <1>2 DEF JobSound, Publishing, Publishes
<1> QED
  BY <1>1, <1>2, <1>3, <1>4, <1>5, OneJobMoves

\* A draft is created where there is no release.
LEMMA CreateKeeps ==
  ASSUME ReleaseInv, NEW r \in FinalRuns, NEW e \in Entries, Create(r, e)
  PROVE  ReleaseInv'
<1>0. /\ ReleaseTyped /\ job[r][e].at = "create" /\ job[r][e].at \notin Resting
      /\ UNCHANGED <<world, artifacts, verdict, mishaps>>
      /\ "failed" \in ReleasePhases /\ "upload" \in ReleasePhases
  BY DEF ReleaseInv, Create, Resting, ReleasePhases
<1>1. mishaps' \in 0..MaxMishaps
  BY <1>0, PartsTyped
<1>2. release \in [Tags -> [state : {"none", "draft", "published"}, asset : [Assets -> AssetBytes]]]
  BY <1>0, PartsTyped
<1>3. CASE UNCHANGED release /\ Goto(r, e, "failed")
  BY <1>0, <1>1, <1>2, <1>3, ReleaseWritten
<1>4. CASE /\ ~ReleaseFound(e) /\ release' = [release EXCEPT ![TagOf[e]].state = "draft"]
           /\ Goto(r, e, "upload")
  <2>1. TagOf[e] \in Tags
    BY <1>0, TagTyped DEF ReleaseInv, JobsSound, JobSound, Publishing
  <2>2. release' \in [Tags -> [state : {"none", "draft", "published"}, asset : [Assets -> AssetBytes]]]
    BY <1>2, <1>4, <2>1
  <2>3. \A t \in Tags : /\ release[t].state = "published" <=> release'[t].state = "published"
                        /\ release'[t].asset = release[t].asset
    BY <1>2, <1>4, <2>1 DEF ReleaseFound
  <2> QED
    BY <1>0, <1>1, <1>4, <2>2, <2>3, ReleaseWritten
<1> QED
  BY <1>3, <1>4 DEF Create

\* An asset that is missing is written once.
LEMMA AssetWritten ==
  ASSUME ReleaseTyped, NEW e \in Entries, TagOf[e] \in Tags, NEW a \in Missing(e), NEW v \in AssetBytes,
         release' = [release EXCEPT ![TagOf[e]].asset[a] = v]
  PROVE  /\ release' \in [Tags -> [state : {"none", "draft", "published"}, asset : [Assets -> AssetBytes]]]
         /\ \A t \in Tags : /\ release[t].state = release'[t].state
                            /\ \A b \in Assets : release[t].asset[b] # NotThere =>
                                                   release'[t].asset[b] = release[t].asset[b]
<1>1. release \in [Tags -> [state : {"none", "draft", "published"}, asset : [Assets -> AssetBytes]]]
  BY PartsTyped
<1>2. a \in Assets /\ release[TagOf[e]].asset[a] = NotThere
  BY DEF Missing, AssetHolds
<1> QED
  BY <1>1, <1>2

\* The asset of an upload is what lies on the disk, foreign or not.
LEMMA UploadKeeps ==
  ASSUME ReleaseInv, NEW r \in FinalRuns, NEW e \in Entries, NEW a \in Assets, Upload(r, e, a)
  PROVE  ReleaseInv'
<1> DEFINE v == IF a \in job[r][e].bad THEN Foreign ELSE Expected(r, e)[a]
           p == IF Missing(e) = {a} THEN "check" ELSE "upload"
<1>0. /\ ReleaseTyped /\ job[r][e].at = "upload" /\ job[r][e].at \notin Resting /\ a \in Missing(e)
      /\ UNCHANGED <<world, artifacts, verdict, mishaps>>
      /\ release' = [release EXCEPT ![TagOf[e]].asset[a] = v] /\ Goto(r, e, p)
      /\ p \in ReleasePhases /\ p \in {"check", "upload"}
  BY DEF ReleaseInv, Upload, Resting, ReleasePhases
<1>1. mishaps' \in 0..MaxMishaps
  BY <1>0, PartsTyped
<1>2. TagOf[e] \in Tags
  BY <1>0, TagTyped DEF ReleaseInv, JobsSound, JobSound, Publishing
<1>3. v \in AssetBytes
  BY <1>0, JobTyped DEF AssetBytes, Expected
<1> HIDE DEF v, p
<1> QED
  BY <1>0, <1>1, <1>2, <1>3, AssetWritten, ReleaseWritten

\* A draft is compared whole before it is taken public.
LEMMA CheckAssetsKeeps ==
  ASSUME ReleaseInv, NEW r \in FinalRuns, NEW e \in Entries, CheckAssets(r, e)
  PROVE  ReleaseInv'
<1>0. /\ ReleaseTyped /\ job[r][e].at = "check" /\ job[r][e].at \notin Resting
      /\ UNCHANGED <<world, artifacts, verdict, release, mishaps>>
      /\ "failed" \in ReleasePhases /\ "edit" \in ReleasePhases /\ JobSound(r, e)
  BY DEF ReleaseInv, CheckAssets, Resting, ReleasePhases, JobsSound
<1>1. CASE Goto(r, e, "failed")
  BY <1>0, <1>1, GotoMoves, QuietJob, GotoKeeps
<1>2. CASE Goto(r, e, "edit") /\ NoStranger(r, e) /\ Missing(e) = {}
  <2>1. job'[r][e].at = "edit" /\ job'[r][e].by = job[r][e].by
    BY <1>0, <1>2, GotoMoves
  <2>2. \A a \in Assets : AssetHolds(TagOf[e], a) = Bytes(e, job[r][e].by, a)
    BY <1>2 DEF NoStranger, Missing, Expected
  <2>3. apple' = apple /\ attested' = attested
    BY <1>0 DEF world, artifacts
  <2>4. JobSound(r, e)'
    BY <1>0, <2>1, <2>2, <2>3 DEF JobSound, Publishing, Publishes, AssetHolds
  <2> QED
    BY <1>0, <1>2, <2>4, GotoKeeps
<1> QED
  BY <1>1, <1>2 DEF CheckAssets

\* What is taken public is what was compared.
LEMMA EditReleaseKeeps ==
  ASSUME ReleaseInv, NEW r \in FinalRuns, NEW e \in Entries, EditRelease(r, e)
  PROVE  ReleaseInv'
<1>0. /\ ReleaseTyped /\ job[r][e].at = "edit" /\ job[r][e].at \notin Resting
      /\ UNCHANGED <<world, artifacts, verdict, mishaps>>
      /\ Goto(r, e, "verify") /\ "verify" \in ReleasePhases /\ JobSound(r, e)
      /\ release' = [release EXCEPT ![TagOf[e]].state = "published"]
  BY DEF ReleaseInv, EditRelease, Resting, ReleasePhases, JobsSound
<1>1. TagOf[e] \in Tags
  BY <1>0, TagTyped DEF JobSound, Publishing
<1>2. /\ job' \in [FinalRuns -> [Entries -> JobStates]] /\ job'[r][e].at = "verify"
      /\ job'[r][e].by = job[r][e].by
      /\ \A q \in FinalRuns, d \in Entries : q # r \/ d # e => job'[q][d] = job[q][d]
  BY <1>0, GotoMoves
<1>3. UNCHANGED <<attested, saved, marked, apple>>
  BY <1>0 DEF artifacts, world
<1>4. release \in [Tags -> [state : {"none", "draft", "published"}, asset : [Assets -> AssetBytes]]]
  BY <1>0, PartsTyped
<1>5. /\ release' \in [Tags -> [state : {"none", "draft", "published"}, asset : [Assets -> AssetBytes]]]
      /\ \A t \in Tags : /\ t # TagOf[e] => release'[t] = release[t]
                         /\ release'[t].asset = release[t].asset
                         /\ release[t].state = "published" => release'[t].state = "published"
  BY <1>0, <1>1, <1>4
<1>6. ReleaseTyped'
  BY <1>0, <1>2, <1>3, <1>5, PartsTyped, TypedAfter
<1>7. Grows
  BY <1>3, <1>5 DEF Grows
<1>8. OneJob' /\ StapledOnce'
  BY <1>0, <1>2, <1>3 DEF ReleaseInv, OneJob, StapledOnce
<1>9. JobsSound'
  <2> SUFFICES ASSUME NEW q \in FinalRuns, NEW d \in Entries PROVE JobSound(q, d)'
    BY DEF JobsSound
  <2>1. CASE q = r /\ d = e
    BY <1>0, <1>2, <1>3, <2>1 DEF JobSound, Publishing, Publishes
  <2>2. CASE q # r \/ d # e
    <3>1. job'[q][d] = job[q][d] /\ JobSound(q, d)
      BY <1>2, <2>2 DEF ReleaseInv, JobsSound
    <3> QED
      BY <1>3, <1>7, <3>1, JobStaysSound DEF JobSound
  <2> QED
    BY <2>1, <2>2
<1>10. MarkedIsPublished'
  BY <1>3, <1>7, TagTyped DEF ReleaseInv, MarkedIsPublished, Grows, Publishes
<1>11. PublishedWhole'
  <2> SUFFICES ASSUME NEW t \in Tags, release'[t].state = "published"
               PROVE  \E d \in Entries, by \in Makers :
                        /\ TagOf[d] = t /\ apple'[d] = "Accepted"
                        /\ d \in Modern => <<d, by>> \in attested'
                        /\ \A a \in Assets : AssetHolds(t, a)' = Bytes(d, by, a)
    BY DEF PublishedWhole
  <2>1. CASE t # TagOf[e]
    BY <1>5, <1>7, <2>1, StaysPublished
  <2>2. CASE t = TagOf[e]
    <3>1. \A a \in Assets : AssetHolds(t, a)' = Bytes(e, job[r][e].by, a)
      BY <1>0, <1>5, <2>2 DEF JobSound, AssetHolds
    <3>2. job[r][e].by \in Makers
      BY <1>0, JobTyped
    <3>3. apple'[e] = "Accepted" /\ (e \in Modern => <<e, job[r][e].by>> \in attested')
      BY <1>0, <1>3 DEF JobSound, Publishing
    <3> QED
      BY <2>2, <3>1, <3>2, <3>3
  <2> QED
    BY <2>1, <2>2
<1> QED
  BY <1>6, <1>8, <1>9, <1>10, <1>11 DEF ReleaseInv

\* A marker is due only after the release was seen public and whole.
LEMMA VerifyKeeps ==
  ASSUME ReleaseInv, NEW r \in FinalRuns, NEW e \in Entries, Verify(r, e)
  PROVE  ReleaseInv'
<1>0. /\ ReleaseTyped /\ job[r][e].at = "verify" /\ job[r][e].at \notin Resting
      /\ UNCHANGED <<world, artifacts, verdict, release, mishaps>>
      /\ "failed" \in ReleasePhases /\ "mark" \in ReleasePhases /\ JobSound(r, e)
  BY DEF ReleaseInv, Verify, Resting, ReleasePhases, JobsSound
<1>1. CASE Goto(r, e, "failed")
  BY <1>0, <1>1, GotoMoves, QuietJob, GotoKeeps
<1>2. CASE Goto(r, e, "mark") /\ release[TagOf[e]].state = "published"
  <2>1. job'[r][e].at = "mark" /\ job'[r][e].by = job[r][e].by
    BY <1>0, <1>2, GotoMoves
  <2>2. apple' = apple /\ attested' = attested
    BY <1>0 DEF world, artifacts
  <2>3. JobSound(r, e)'
    BY <1>0, <1>2, <2>1, <2>2 DEF JobSound, Publishing, Publishes
  <2> QED
    BY <1>0, <1>2, <2>3, GotoKeeps
<1> QED
  BY <1>1, <1>2 DEF Verify

\* The marker is left.
LEMMA MarkKeeps ==
  ASSUME ReleaseInv, NEW r \in FinalRuns, NEW e \in Entries, Mark(r, e)
  PROVE  ReleaseInv'
<1>0. /\ ReleaseTyped /\ job[r][e].at = "mark" /\ JobSound(r, e)
      /\ UNCHANGED <<world, attested, saved, verdict, release, mishaps>>
      /\ marked' = marked \cup {<<e, r>>} /\ Goto(r, e, "done") /\ "done" \in ReleasePhases
  BY DEF ReleaseInv, Mark, ReleasePhases, JobsSound
<1>1. /\ job' \in [FinalRuns -> [Entries -> JobStates]] /\ job'[r][e].at = "done"
      /\ \A q \in FinalRuns, d \in Entries : q # r \/ d # e => job'[q][d] = job[q][d]
  BY <1>0, GotoMoves
<1>2. marked' \subseteq Entries \X FinalRuns
  BY <1>0, PartsTyped
<1>3. ReleaseTyped'
  BY <1>0, <1>1, <1>2, PartsTyped, TypedAfter
<1>4. Grows
  BY <1>0 DEF Grows, world
<1>5. OneJob' /\ StapledOnce'
  BY <1>0, <1>1 DEF ReleaseInv, OneJob, StapledOnce, Resting
<1>6. JobsSound'
  <2> SUFFICES ASSUME NEW q \in FinalRuns, NEW d \in Entries PROVE JobSound(q, d)'
    BY DEF JobsSound
  <2>1. CASE q = r /\ d = e
    BY <1>1, <2>1, QuietJob
  <2>2. CASE q # r \/ d # e
    <3>1. job'[q][d] = job[q][d] /\ JobSound(q, d)
      BY <1>1, <2>2 DEF ReleaseInv, JobsSound
    <3> QED
      BY <1>0, <1>4, <3>1, JobStaysSound DEF JobSound
  <2> QED
    BY <2>1, <2>2
<1>7. MarkedIsPublished'
  <2>1. Publishes(e) => release[TagOf[e]].state = "published"
    BY <1>0 DEF JobSound
  <2> QED
    BY <1>0, <2>1 DEF ReleaseInv, MarkedIsPublished, Publishes
<1>8. PublishedWhole'
  BY <1>0, <1>4, StaysPublished DEF PublishedWhole
<1> QED
  BY <1>3, <1>5, <1>6, <1>7, <1>8 DEF ReleaseInv

\* A machine that dies may leave one asset in part.
LEMMA BreaksKeeps ==
  ASSUME ReleaseInv, NEW r \in FinalRuns, NEW e \in Entries, Breaks(r, e)
  PROVE  ReleaseInv'
<1>0. /\ ReleaseTyped /\ job[r][e].at \notin Resting /\ Goto(r, e, "failed") /\ "failed" \in ReleasePhases
      /\ UNCHANGED <<world, artifacts, verdict>> /\ Mishap
  BY DEF ReleaseInv, Breaks, ReleasePhases
<1>1. mishaps' \in 0..MaxMishaps
  BY <1>0, MishapTyped
<1>2. release \in [Tags -> [state : {"none", "draft", "published"}, asset : [Assets -> AssetBytes]]]
  BY <1>0, PartsTyped
<1>3. CASE UNCHANGED release
  BY <1>0, <1>1, <1>2, <1>3, ReleaseWritten
<1>4. CASE /\ job[r][e].at = "upload"
           /\ \E a \in Missing(e) : release' = [release EXCEPT ![TagOf[e]].asset[a] = Partial]
  <2>1. TagOf[e] \in Tags
    BY <1>4, TagTyped DEF ReleaseInv, JobsSound, JobSound, Publishing
  <2>2. Partial \in AssetBytes
    BY DEF AssetBytes
  <2> QED
    BY <1>0, <1>1, <1>4, <2>1, <2>2, AssetWritten, ReleaseWritten
<1> QED
  BY <1>3, <1>4 DEF Breaks

\* A file changes behind a job.
LEMMA DisturbsKeeps ==
  ASSUME ReleaseInv, NEW r \in FinalRuns, NEW e \in Entries, NEW a \in Assets \cup {"pending"},
         Disturbs(r, e, a)
  PROVE  ReleaseInv'
<1>0. /\ ReleaseTyped /\ job[r][e].at \notin Resting /\ Mishap /\ JobSound(r, e)
      /\ UNCHANGED <<world, artifacts, verdict, release>>
      /\ job' = [job EXCEPT ![r][e].bad = @ \cup {a}]
  BY DEF ReleaseInv, Disturbs, JobsSound
<1>1. mishaps' \in 0..MaxMishaps
  BY <1>0, MishapTyped
<1>2. UNCHANGED <<attested, saved, marked, apple>>
  BY <1>0 DEF artifacts, world
<1>3. /\ job' \in [FinalRuns -> [Entries -> JobStates]]
      /\ job'[r][e].at = job[r][e].at /\ job'[r][e].by = job[r][e].by
      /\ \A q \in FinalRuns, d \in Entries : q # r \/ d # e => job'[q][d] = job[q][d]
  <2> DEFINE j == [job[r][e] EXCEPT !.bad = @ \cup {a}]
  <2>1. j \in JobStates /\ j.at = job[r][e].at /\ j.by = job[r][e].by
    BY <1>0, JobTyped DEF JobStates
  <2>2. Put(r, e, j)
    BY <1>0 DEF Put
  <2>3. ReleaseTyped
    BY <1>0
  <2> HIDE DEF j
  <2>4. /\ job' \in [FinalRuns -> [Entries -> JobStates]] /\ job'[r][e] = j
        /\ \A q \in FinalRuns, d \in Entries : q # r \/ d # e => job'[q][d] = job[q][d]
    BY <2>1, <2>2, <2>3, PutMoves
  <2> QED
    BY <2>1, <2>4
<1>4. ReleaseTyped'
  BY <1>0, <1>1, <1>2, <1>3, PartsTyped, TypedAfter
<1>5. Grows
  BY <1>0, <1>2 DEF Grows
<1>6. JobSound(r, e)'
  BY <1>0, <1>2, <1>3 DEF JobSound, Publishes, AssetHolds
<1> QED
  BY <1>0, <1>2, <1>3, <1>4, <1>5, <1>6, OneJobMoves

\* A run that looks at the queue has no job that works.
LEMMA DiscoverQueueKeeps ==
  ASSUME ReleaseInv, NEW r \in FinalRuns, NEW c, DiscoverQueue(r, c)
  PROVE  ReleaseInv'
<1>0. /\ ReleaseTyped /\ UNCHANGED <<world, artifacts, release, mishaps>>
      /\ \E found : /\ verdict' = [verdict EXCEPT ![r] = IF found = {} THEN "success" ELSE "running"]
                    /\ job' = [job EXCEPT ![r] = [e \in Entries |->
                                        FreshJob(IF e \in found THEN "queued" ELSE "none")]]
  BY DEF ReleaseInv, DiscoverQueue
<1>1. UNCHANGED <<attested, saved, marked, apple>>
  BY <1>0 DEF artifacts, world
<1>2. /\ job' \in [FinalRuns -> [Entries -> JobStates]]
      /\ \A e \in Entries : job'[r][e].at \in {"queued", "none"}
      /\ \A q \in FinalRuns \ {r} : job'[q] = job[q]
  <2>1. PICK found : job' = [job EXCEPT ![r] = [e \in Entries |->
                                        FreshJob(IF e \in found THEN "queued" ELSE "none")]]
    BY <1>0
  <2>2. \A p \in {"queued", "none"} : FreshJob(p) \in JobStates /\ FreshJob(p).at = p
    BY FreshTyped DEF ReleasePhases
  <2> QED
    BY <1>0, <2>1, <2>2, JobTyped
<1>3. verdict' \in [FinalRuns -> {"none", "running", "success", "failure"}]
  BY <1>0, PartsTyped
<1>4. ReleaseTyped'
  BY <1>0, <1>1, <1>2, <1>3, PartsTyped, TypedAfter
<1>5. Grows
  BY <1>0, <1>1 DEF Grows
<1>6. OneJob' /\ StapledOnce'
  BY <1>1, <1>2 DEF ReleaseInv, OneJob, StapledOnce, Resting
<1>7. JobsSound'
  <2> SUFFICES ASSUME NEW q \in FinalRuns, NEW d \in Entries PROVE JobSound(q, d)'
    BY DEF JobsSound
  <2>1. CASE q = r
    BY <1>2, <2>1, QuietJob
  <2>2. CASE q # r
    <3>1. job'[q][d] = job[q][d] /\ JobSound(q, d)
      BY <1>2, <2>2 DEF ReleaseInv, JobsSound
    <3> QED
      BY <1>1, <1>5, <3>1, JobStaysSound DEF JobSound
  <2> QED
    BY <2>1, <2>2
<1>8. MarkedIsPublished'
  BY <1>0, <1>1 DEF ReleaseInv, MarkedIsPublished, Publishes
<1>9. PublishedWhole'
  BY <1>0, <1>5, StaysPublished DEF PublishedWhole
<1> QED
  BY <1>4, <1>6, <1>7, <1>8, <1>9 DEF ReleaseInv

\* A run ends, time passes, builds leave what they made, Apple answers, owners and
\* advisories interfere: no job moves.
LEMMA AroundKeeps ==
  ASSUME ReleaseInv,
         \/ \E r \in FinalRuns : Conclude(r)
         \/ \E e \in pending : Ages(e) \/ AppleAnswers(e, "Accepted") \/ AppleAnswers(e, "Invalid")
         \/ \E e \in Entries : LeavePending(e)
         \/ \E t \in Tags : Unprotects(t)
         \/ Advises
         \/ UNCHANGED releaseVars
  PROVE  ReleaseInv'
<1>0. /\ ReleaseTyped /\ UNCHANGED <<job, release, attested, saved, marked>>
  BY DEF ReleaseInv, Conclude, Ages, AppleAnswers, LeavePending, Unprotects, Advises, releaseVars,
         artifacts, world
<1>1. Grows /\ apple' \in [Entries -> {"In Progress", "Accepted", "Invalid"}]
  <2>1. apple \in [Entries -> {"In Progress", "Accepted", "Invalid"}] /\ pending \subseteq Entries
    BY <1>0, Zenon DEF ReleaseTyped, ReleaseTypeOK
  <2>2. \/ apple' = apple
        \/ \E e \in pending, s \in {"Accepted", "Invalid"} :
             apple[e] = "In Progress" /\ apple' = [apple EXCEPT ![e] = s]
    BY DEF Conclude, Ages, AppleAnswers, LeavePending, Unprotects, Advises, releaseVars, world
  <2> QED
    BY <1>0, <2>1, <2>2 DEF Grows
<1>2. verdict' \in [FinalRuns -> {"none", "running", "success", "failure"}]
  <2>1. verdict \in [FinalRuns -> {"none", "running", "success", "failure"}]
    BY <1>0, PartsTyped
  <2>2. verdict' = verdict \/ \E r \in FinalRuns, v \in {"failure", "success"} : verdict' = [verdict EXCEPT ![r] = v]
    BY DEF Conclude, Ages, AppleAnswers, LeavePending, Unprotects, Advises, releaseVars, world
  <2> QED
    BY <2>1, <2>2
<1>3. pending' \subseteq Entries
  <2>1. pending \subseteq Entries
    BY <1>0, Zenon DEF ReleaseTyped, ReleaseTypeOK
  <2>2. pending' = pending \/ \E e \in Entries : pending' = pending \cup {e}
    BY DEF Conclude, Ages, AppleAnswers, LeavePending, Unprotects, Advises, releaseVars, world
  <2> QED
    BY <2>1, <2>2
<1>4. queueAge' \in [Entries -> 0..3]
  <2>1. queueAge \in [Entries -> 0..3] /\ pending \subseteq Entries
    BY <1>0, Zenon DEF ReleaseTyped, ReleaseTypeOK
  <2>2. queueAge' = queueAge \/ \E e \in pending : queueAge[e] < 3 /\ queueAge' = [queueAge EXCEPT ![e] = @ + 1]
    BY DEF Conclude, Ages, AppleAnswers, LeavePending, Unprotects, Advises, releaseVars, world
  <2> QED
    BY <2>1, <2>2
<1>5. tag' \in [Tags -> [names : BOOLEAN, guarded : BOOLEAN]]
  <2>1. tag \in [Tags -> [names : BOOLEAN, guarded : BOOLEAN]]
    BY <1>0, Zenon DEF ReleaseTyped, ReleaseTypeOK
  <2>2. \/ tag' = tag
        \/ \E t \in Tags : \/ tag' = [tag EXCEPT ![t].guarded = FALSE]
                           \/ tag' = [tag EXCEPT ![t].names = FALSE]
    BY DEF Conclude, Ages, AppleAnswers, LeavePending, Unprotects, Advises, releaseVars, world
  <2> QED
    BY <2>1, <2>2
<1>6. advised' \in BOOLEAN
  <2>1. advised \in BOOLEAN
    BY <1>0, Zenon DEF ReleaseTyped, ReleaseTypeOK
  <2>2. advised' = advised \/ advised' = TRUE
    BY DEF Conclude, Ages, AppleAnswers, LeavePending, Unprotects, Advises, releaseVars, world
  <2> QED
    BY <2>1, <2>2
<1>7. mishaps' \in 0..MaxMishaps
  <2>1. mishaps' = mishaps \/ Mishap
    BY DEF Conclude, Ages, AppleAnswers, LeavePending, Unprotects, Advises, releaseVars, world
  <2> QED
    BY <1>0, <2>1, PartsTyped, MishapTyped
<1>8. ReleaseTyped'
  BY <1>0, <1>1, <1>2, <1>3, <1>4, <1>5, <1>6, <1>7, Zenon DEF ReleaseTyped, ReleaseTypeOK
<1> QED
  BY <1>0, <1>1, <1>8, WorldMoves

-----------------------------------------------------------------------------
\* The invariant holds in every state.
LEMMA ReleaseInvariant == ReleaseSpec => []ReleaseInv
<1>1. ASSUME ReleaseInv, [ReleaseNext]_releaseVars PROVE ReleaseInv'
  <2>1. ASSUME NEW r \in FinalRuns, NEW e \in Entries, Proceeds(r, e) PROVE ReleaseInv'
    BY <1>1, <2>1, BeginFinalKeeps, FinalizeKeeps, AttestKeeps, SaveKeeps, PublishKeeps, CreateKeeps,
       UploadKeeps, CheckAssetsKeeps, EditReleaseKeeps, VerifyKeeps, MarkKeeps DEF Proceeds
  <2> QED
    BY <1>1, <2>1, DiscoverQueueKeeps, BreaksKeeps, DisturbsKeeps, AroundKeeps DEF ReleaseNext
<1> QED
  BY <1>1, ReleaseInitially, PTL DEF ReleaseSpec

\* Whatever runs are repeated or cut off, files change behind them and several builds of
\* a tag are under way: what is public is one whole distribution that Apple accepted and
\* whose stapled bytes are attested, what counts as complete is public, and the packages of
\* a build are stapled once (release_orchestration.rs, release_ready.rs).
THEOREM ReleaseCorrect == ReleaseSpec => []ReleaseSound
<1>1. ReleaseInv => ReleaseSound
  BY DEF ReleaseInv, ReleaseTyped, ReleaseSound, CompletedIsPublished, MarkedIsPublished, Completed, Publishes
<1> QED
  BY <1>1, ReleaseInvariant, PTL

-----------------------------------------------------------------------------
(***************************************************************************)
(* The signing of one target, for any number of failures and of files that *)
(* change between two steps.                                               *)
(*                                                                         *)
(* The keys are an argument about the order of the cleanup.  The bytes are *)
(* one about files that change: a file that another process changed stays  *)
(* so, and so a file that is compared twice with the same digest was the   *)
(* same all the time in between.                                           *)
(***************************************************************************)

\* The phases in which the job holds its keys, and those in which it has nothing to clear away.
Untouched == {"write", "capture", "signature"}
Cleared == {"ended", "bundle", "failed", "tar", "rename", "checksums", "handoff", "whole", "extract", "query",
            "waiting", "accepted", "verified", "stapled"}

SignPhases ==
  Untouched \cup Cleared \cup {"prepare", "sign", "package", "installer", "hash", "submit", "rehash", "keep",
                               "restore", "delete", "remove"}

\* Where the work is, and how far the preparation and the queries have come.
WorkInOrder ==
  /\ signPhase \in SignPhases /\ platform \in {"macos", "windows"}
  /\ signPhase \in {"write", "capture"} => step = 1
  /\ signPhase = "prepare" => step \in 1..9
  /\ signPhase = "write" => \E n \in 0..4 : private = FirstFiles(n)
  /\ signPhase = "signature" => private = {} /\ faults = {}
  /\ digests = [binary |-> digests.binary, installer |-> digests.installer]
  /\ poll \in [asked : 0..5, spent : Nat]
  /\ signPhase \notin {"accepted", "verified", "stapled", "failed", "waiting"} => poll.asked <= 4

\* Nothing is left of the keychain, the list and the private files, or it is reported.
KeysInOrder ==
  /\ signPhase \in Untouched => ~keychain /\ search = "original"
  /\ signPhase \in {"delete", "remove"} \cup Cleared => search = "original" \/ "cleanup" \in faults
  /\ signPhase \in {"remove"} \cup Cleared => ~keychain \/ "cleanup" \in faults
  /\ signPhase \in Cleared => private = {} \/ "cleanup" \in faults

\* The submission happens once, of the installer that was hashed.
SubmissionInOrder ==
  /\ signPhase \in Untouched \cup {"prepare", "sign", "package", "installer", "hash", "submit"} =>
       submitted = {} /\ receipt = NoDigests
  /\ signPhase \in {"rehash", "keep"} => receipt = NoDigests
  /\ signPhase = "submit" => installer \in {digests.installer, Altered}
  /\ signPhase = "rehash" =>
       \E i \in {digests.installer, Altered} : submitted = {i} /\ installer \in {i, Altered}
  /\ signPhase = "keep" => submitted = {digests.installer}
  /\ receipt # NoDigests => submitted = {receipt.installer}

\* What the manifest and the receipt say of the archive and the installer.
ReleaseInOrder ==
  /\ signPhase \in {"extract", "query", "waiting", "accepted", "verified", "stapled"} =>
       receipt # NoDigests /\ manifest.installer = receipt.installer
  /\ signPhase \in {"query", "waiting", "accepted", "verified", "stapled"} =>
       manifest.archive = <<"archive", receipt.binary>>
  /\ signPhase = "stapled" => stapled = <<"stapled", Installer(receipt.binary)>>

\* A Windows binary on its way into the archive.
PackingInOrder ==
  platform = "windows" =>
    /\ signPhase = "tar" => staged \in {digests.binary, Altered}
    /\ signPhase = "rename" =>
         \E b \in {digests.binary, Altered} : staged \in {b, Altered} /\ archive \in {Altered, <<"archive", b>>}
    /\ signPhase \in {"checksums", "whole"} => archive \in {Altered, <<"archive", digests.binary>>}

SigningInv ==
  SigningTypeOK /\ WorkInOrder /\ KeysInOrder /\ SubmissionInOrder /\ ReleaseInOrder /\ PackingInOrder

-----------------------------------------------------------------------------
\* The preparation has nine commands.
LEMMA PreparationLength == Len(Preparation) = 9
  BY DEF Preparation

\* There are five private files.
LEMMA OrderLength == Len(PrivateOrder) = 5
  BY DEF PrivateOrder

\* A query counts, and the fifth is the last.
LEMMA AskedOnce ==
  ASSUME WorkInOrder, QueryNext
  PROVE  poll' \in [asked : 0..5, spent : Nat] /\ (signPhase' = "query" => poll'.asked <= 4)
<1>0. PICK d \in QueryTimes : \E states : Query(d, states)
  BY DEF QueryNext
<1>1. PICK states : Query(d, states)
  BY <1>0
<1>2. signPhase = "query"
  BY <1>1 DEF Query
<1>3. poll.asked \in 0..4 /\ poll.spent \in Nat /\ d \in Nat
  <2>1. poll.asked \in 0..5 /\ poll.spent \in Nat /\ poll.asked <= 4
    BY <1>2 DEF WorkInOrder
  <2> QED
    BY <2>1, SigningAssumption
<1>4. PICK asked \in 1..5, spent \in Nat : asked = poll.asked + 1 /\ spent = poll.spent + d
  BY <1>3
<1>5. PICK after \in Nat : after = IF asked = 5 \/ spent >= Window THEN spent ELSE spent + Pause(spent)
  BY DEF Pause, Window
<1>6. \/ poll' = [asked |-> asked, spent |-> spent] /\ signPhase' \in {Outcome(states), "failed"}
      \/ /\ poll' = [asked |-> asked, spent |-> after]
         /\ signPhase' = IF after >= Window \/ asked = 5 \/ spent >= Window THEN "waiting" ELSE "query"
  BY <1>1, <1>4, <1>5 DEF Query
<1>7. Outcome(states) # "query"
  BY DEF Outcome
<1>8. CASE poll' = [asked |-> asked, spent |-> spent] /\ signPhase' \in {Outcome(states), "failed"}
  BY <1>7, <1>8
<1>9. CASE /\ poll' = [asked |-> asked, spent |-> after]
           /\ signPhase' = IF after >= Window \/ asked = 5 \/ spent >= Window THEN "waiting" ELSE "query"
  <2>1. signPhase' = "query" => asked # 5
    BY <1>9
  <2> QED
    BY <1>9, <2>1
<1> QED
  BY <1>6, <1>8, <1>9

\* The work begins with nothing written.
LEMMA SigningInitially == SigningInit => SigningInv
<1> SUFFICES ASSUME SigningInit PROVE SigningInv
  OBVIOUS
<1> USE SigningAssumption DEF SigningInit, SignPhases, Untouched, Cleared
<1>1. SigningTypeOK
  BY DEF SigningTypeOK, Preparation
<1>2. WorkInOrder
  <2>1. FirstFiles(0) = {}
    BY DEF FirstFiles
  <2> QED
    BY <2>1 DEF WorkInOrder, NoDigests
<1>3. KeysInOrder /\ SubmissionInOrder /\ ReleaseInOrder /\ PackingInOrder
  BY DEF KeysInOrder, SubmissionInOrder, ReleaseInOrder, PackingInOrder
<1> QED
  BY <1>1, <1>2, <1>3 DEF SigningInv

\* One private file after the other is written.
LEMMA WritePrivateKeeps ==
  ASSUME SigningInv, WritePrivate
  PROVE  SigningInv'
<1> USE SigningAssumption DEF SigningInv, secrets, bytes, records, SignPhases, Untouched, Cleared,
        WritePrivate, FailTo, Slip
<1>1. SigningTypeOK'
  <2>1. private' \subseteq FirstFiles(Len(PrivateOrder))
    BY OrderLength DEF SigningTypeOK, FirstFiles
  <2> QED
    BY <2>1 DEF SigningTypeOK, WorkInOrder
<1>2. WorkInOrder'
  <2>1. signPhase' = "write" => \E n \in 0..4 : private' = FirstFiles(n)
    BY OrderLength
  <2> QED
    BY <2>1 DEF SigningTypeOK, WorkInOrder
<1>3. KeysInOrder'
  BY DEF SigningTypeOK, WorkInOrder, KeysInOrder
<1>4. SubmissionInOrder'
  BY DEF WorkInOrder, SubmissionInOrder
<1>5. ReleaseInOrder'
  BY DEF WorkInOrder, SubmissionInOrder, ReleaseInOrder
<1>6. PackingInOrder'
  BY DEF WorkInOrder, PackingInOrder
<1> QED
  BY <1>1, <1>2, <1>3, <1>4, <1>5, <1>6

\* The list of keychains is read.
LEMMA CaptureKeeps ==
  ASSUME SigningInv, Capture
  PROVE  SigningInv'
<1> USE SigningAssumption DEF SigningInv, secrets, bytes, records, SignPhases, Untouched, Cleared,
        Capture, FailTo, Slip
<1>1. SigningTypeOK'
  BY DEF SigningTypeOK, WorkInOrder
<1>2. WorkInOrder'
  BY DEF SigningTypeOK, WorkInOrder
<1>3. KeysInOrder'
  BY DEF SigningTypeOK, WorkInOrder, KeysInOrder
<1>4. SubmissionInOrder'
  BY DEF WorkInOrder, SubmissionInOrder
<1>5. ReleaseInOrder'
  BY DEF WorkInOrder, SubmissionInOrder, ReleaseInOrder
<1>6. PackingInOrder'
  BY DEF WorkInOrder, PackingInOrder
<1> QED
  BY <1>1, <1>2, <1>3, <1>4, <1>5, <1>6

\* A command of the preparation takes effect, fails, or both.
LEMMA PrepareSigningKeeps ==
  ASSUME SigningInv, PrepareSigning
  PROVE  SigningInv'
<1> USE SigningAssumption DEF SigningInv, secrets, bytes, records, SignPhases, Untouched, Cleared,
        PrepareSigning, FailTo, Slip, Effect
<1>1. SigningTypeOK'
  BY PreparationLength DEF SigningTypeOK, WorkInOrder
<1>2. WorkInOrder'
  BY PreparationLength DEF SigningTypeOK, WorkInOrder
<1>3. KeysInOrder'
  BY DEF SigningTypeOK, WorkInOrder, KeysInOrder
<1>4. SubmissionInOrder'
  BY DEF WorkInOrder, SubmissionInOrder
<1>5. ReleaseInOrder'
  BY DEF WorkInOrder, SubmissionInOrder, ReleaseInOrder
<1>6. PackingInOrder'
  BY DEF WorkInOrder, PackingInOrder
<1> QED
  BY <1>1, <1>2, <1>3, <1>4, <1>5, <1>6

\* The binary is signed and hashed.
LEMMA SignKeeps ==
  ASSUME SigningInv, Sign
  PROVE  SigningInv'
<1> USE SigningAssumption DEF SigningInv, secrets, bytes, records, SignPhases, Untouched, Cleared,
        Sign, FailTo, Slip
<1>1. SigningTypeOK'
  BY DEF SigningTypeOK, WorkInOrder
<1>2. WorkInOrder'
  BY DEF SigningTypeOK, WorkInOrder
<1>3. KeysInOrder'
  BY DEF SigningTypeOK, WorkInOrder, KeysInOrder
<1>4. SubmissionInOrder'
  BY DEF WorkInOrder, SubmissionInOrder
<1>5. ReleaseInOrder'
  BY DEF WorkInOrder, SubmissionInOrder, ReleaseInOrder
<1>6. PackingInOrder'
  BY DEF WorkInOrder, PackingInOrder
<1> QED
  BY <1>1, <1>2, <1>3, <1>4, <1>5, <1>6

\* The installer is built.
LEMMA PackageKeeps ==
  ASSUME SigningInv, Package
  PROVE  SigningInv'
<1> USE SigningAssumption DEF SigningInv, secrets, bytes, records, SignPhases, Untouched, Cleared,
        Package, FailTo, Slip, Installer
<1>1. SigningTypeOK'
  BY DEF SigningTypeOK, WorkInOrder
<1>2. WorkInOrder'
  BY DEF SigningTypeOK, WorkInOrder
<1>3. KeysInOrder'
  BY DEF SigningTypeOK, WorkInOrder, KeysInOrder
<1>4. SubmissionInOrder'
  BY DEF WorkInOrder, SubmissionInOrder
<1>5. ReleaseInOrder'
  BY DEF WorkInOrder, SubmissionInOrder, ReleaseInOrder
<1>6. PackingInOrder'
  BY DEF WorkInOrder, PackingInOrder
<1> QED
  BY <1>1, <1>2, <1>3, <1>4, <1>5, <1>6

\* The signature of the installer is verified.
LEMMA VerifyInstallerKeeps ==
  ASSUME SigningInv, VerifyInstaller
  PROVE  SigningInv'
<1> USE SigningAssumption DEF SigningInv, secrets, bytes, records, SignPhases, Untouched, Cleared,
        VerifyInstaller, InstallerSigned
<1>1. SigningTypeOK'
  BY DEF SigningTypeOK, WorkInOrder
<1>2. WorkInOrder'
  BY DEF SigningTypeOK, WorkInOrder
<1>3. KeysInOrder'
  BY DEF SigningTypeOK, WorkInOrder, KeysInOrder
<1>4. SubmissionInOrder'
  BY DEF WorkInOrder, SubmissionInOrder
<1>5. ReleaseInOrder'
  BY DEF WorkInOrder, SubmissionInOrder, ReleaseInOrder
<1>6. PackingInOrder'
  BY DEF WorkInOrder, PackingInOrder
<1> QED
  BY <1>1, <1>2, <1>3, <1>4, <1>5, <1>6

\* The installer is hashed.
LEMMA HashInstallerKeeps ==
  ASSUME SigningInv, HashInstaller
  PROVE  SigningInv'
<1> USE SigningAssumption DEF SigningInv, secrets, bytes, records, SignPhases, Untouched, Cleared,
        HashInstaller
<1>1. SigningTypeOK'
  BY DEF SigningTypeOK, WorkInOrder
<1>2. WorkInOrder'
  BY DEF SigningTypeOK, WorkInOrder
<1>3. KeysInOrder'
  BY DEF SigningTypeOK, WorkInOrder, KeysInOrder
<1>4. SubmissionInOrder'
  BY DEF WorkInOrder, SubmissionInOrder
<1>5. ReleaseInOrder'
  BY DEF WorkInOrder, SubmissionInOrder, ReleaseInOrder
<1>6. PackingInOrder'
  BY DEF WorkInOrder, PackingInOrder
<1> QED
  BY <1>1, <1>2, <1>3, <1>4, <1>5, <1>6

\* The installer is sent, whether or not the command fails.
LEMMA SubmitKeeps ==
  ASSUME SigningInv, Submit
  PROVE  SigningInv'
<1> USE SigningAssumption DEF SigningInv, secrets, bytes, records, SignPhases, Untouched, Cleared,
        Submit, FailTo, Slip
<1>1. SigningTypeOK'
  BY DEF SigningTypeOK, WorkInOrder
<1>2. WorkInOrder'
  BY DEF SigningTypeOK, WorkInOrder
<1>3. KeysInOrder'
  BY DEF SigningTypeOK, WorkInOrder, KeysInOrder
<1>4. SubmissionInOrder'
  BY DEF WorkInOrder, SubmissionInOrder
<1>5. ReleaseInOrder'
  BY DEF WorkInOrder, SubmissionInOrder, ReleaseInOrder
<1>6. PackingInOrder'
  BY DEF WorkInOrder, PackingInOrder
<1> QED
  BY <1>1, <1>2, <1>3, <1>4, <1>5, <1>6

\* The installer is compared with its digest.
LEMMA RehashKeeps ==
  ASSUME SigningInv, Rehash
  PROVE  SigningInv'
<1> USE SigningAssumption DEF SigningInv, secrets, bytes, records, SignPhases, Untouched, Cleared,
        Rehash
<1>1. SigningTypeOK'
  BY DEF SigningTypeOK, WorkInOrder
<1>2. WorkInOrder'
  BY DEF SigningTypeOK, WorkInOrder
<1>3. KeysInOrder'
  BY DEF SigningTypeOK, WorkInOrder, KeysInOrder
<1>4. SubmissionInOrder'
  BY DEF WorkInOrder, SubmissionInOrder
<1>5. ReleaseInOrder'
  BY DEF WorkInOrder, SubmissionInOrder, ReleaseInOrder
<1>6. PackingInOrder'
  BY DEF WorkInOrder, PackingInOrder
<1> QED
  BY <1>1, <1>2, <1>3, <1>4, <1>5, <1>6

\* The receipt is kept.
LEMMA KeepKeeps ==
  ASSUME SigningInv, Keep
  PROVE  SigningInv'
<1> USE SigningAssumption DEF SigningInv, secrets, bytes, records, SignPhases, Untouched, Cleared,
        Keep, FailTo, Slip
<1>1. SigningTypeOK'
  BY DEF SigningTypeOK, WorkInOrder
<1>2. WorkInOrder'
  BY DEF SigningTypeOK, WorkInOrder
<1>3. KeysInOrder'
  BY DEF SigningTypeOK, WorkInOrder, KeysInOrder
<1>4. SubmissionInOrder'
  BY DEF WorkInOrder, SubmissionInOrder
<1>5. ReleaseInOrder'
  BY DEF WorkInOrder, SubmissionInOrder, ReleaseInOrder
<1>6. PackingInOrder'
  BY DEF WorkInOrder, PackingInOrder
<1> QED
  BY <1>1, <1>2, <1>3, <1>4, <1>5, <1>6

\* The search list is restored, or it is reported.
LEMMA RestoreListKeeps ==
  ASSUME SigningInv, RestoreList
  PROVE  SigningInv'
<1> USE SigningAssumption DEF SigningInv, secrets, bytes, records, SignPhases, Untouched, Cleared,
        RestoreList, ReportKept, Slip
<1>1. SigningTypeOK'
  BY DEF SigningTypeOK, WorkInOrder
<1>2. WorkInOrder'
  BY DEF SigningTypeOK, WorkInOrder
<1>3. KeysInOrder'
  BY DEF SigningTypeOK, WorkInOrder, KeysInOrder
<1>4. SubmissionInOrder'
  BY DEF WorkInOrder, SubmissionInOrder
<1>5. ReleaseInOrder'
  BY DEF WorkInOrder, SubmissionInOrder, ReleaseInOrder
<1>6. PackingInOrder'
  BY DEF WorkInOrder, PackingInOrder
<1> QED
  BY <1>1, <1>2, <1>3, <1>4, <1>5, <1>6

\* The keychain is deleted, or it is reported.
LEMMA DeleteKeychainKeeps ==
  ASSUME SigningInv, DeleteKeychain
  PROVE  SigningInv'
<1> USE SigningAssumption DEF SigningInv, secrets, bytes, records, SignPhases, Untouched, Cleared,
        DeleteKeychain, ReportKept, Slip
<1>1. SigningTypeOK'
  BY DEF SigningTypeOK, WorkInOrder
<1>2. WorkInOrder'
  BY DEF SigningTypeOK, WorkInOrder
<1>3. KeysInOrder'
  BY DEF SigningTypeOK, WorkInOrder, KeysInOrder
<1>4. SubmissionInOrder'
  BY DEF WorkInOrder, SubmissionInOrder
<1>5. ReleaseInOrder'
  BY DEF WorkInOrder, SubmissionInOrder, ReleaseInOrder
<1>6. PackingInOrder'
  BY DEF WorkInOrder, PackingInOrder
<1> QED
  BY <1>1, <1>2, <1>3, <1>4, <1>5, <1>6

\* The private files are removed, or it is reported.
LEMMA RemovePrivateKeeps ==
  ASSUME SigningInv, RemovePrivate
  PROVE  SigningInv'
<1> USE SigningAssumption DEF SigningInv, secrets, bytes, records, SignPhases, Untouched, Cleared,
        RemovePrivate, ReportKept, Slip
<1>1. SigningTypeOK'
  BY DEF SigningTypeOK, WorkInOrder
<1>2. WorkInOrder'
  BY DEF SigningTypeOK, WorkInOrder
<1>3. KeysInOrder'
  BY DEF SigningTypeOK, WorkInOrder, KeysInOrder
<1>4. SubmissionInOrder'
  BY DEF WorkInOrder, SubmissionInOrder
<1>5. ReleaseInOrder'
  BY DEF WorkInOrder, SubmissionInOrder, ReleaseInOrder
<1>6. PackingInOrder'
  BY DEF WorkInOrder, PackingInOrder
<1> QED
  BY <1>1, <1>2, <1>3, <1>4, <1>5, <1>6

\* The job ends with what it reports.
LEMMA FinishSigningKeeps ==
  ASSUME SigningInv, FinishSigning
  PROVE  SigningInv'
<1> USE SigningAssumption DEF SigningInv, secrets, bytes, records, SignPhases, Untouched, Cleared,
        FinishSigning
<1>1. SigningTypeOK'
  BY DEF SigningTypeOK, WorkInOrder
<1>2. WorkInOrder'
  BY DEF SigningTypeOK, WorkInOrder
<1>3. KeysInOrder'
  BY DEF SigningTypeOK, WorkInOrder, KeysInOrder
<1>4. SubmissionInOrder'
  BY DEF WorkInOrder, SubmissionInOrder
<1>5. ReleaseInOrder'
  BY DEF WorkInOrder, SubmissionInOrder, ReleaseInOrder
<1>6. PackingInOrder'
  BY DEF WorkInOrder, PackingInOrder
<1> QED
  BY <1>1, <1>2, <1>3, <1>4, <1>5, <1>6

\* The signature of a Windows binary is verified and its digest taken.
LEMMA VerifyWindowsKeeps ==
  ASSUME SigningInv, VerifyWindows
  PROVE  SigningInv'
<1> USE SigningAssumption DEF SigningInv, secrets, bytes, records, SignPhases, Untouched, Cleared,
        VerifyWindows
<1>1. SigningTypeOK'
  BY DEF SigningTypeOK, WorkInOrder
<1>2. WorkInOrder'
  BY DEF SigningTypeOK, WorkInOrder
<1>3. KeysInOrder'
  BY DEF SigningTypeOK, WorkInOrder, KeysInOrder
<1>4. SubmissionInOrder'
  BY DEF WorkInOrder, SubmissionInOrder
<1>5. ReleaseInOrder'
  BY DEF WorkInOrder, SubmissionInOrder, ReleaseInOrder
<1>6. PackingInOrder'
  BY DEF WorkInOrder, PackingInOrder
<1> QED
  BY <1>1, <1>2, <1>3, <1>4, <1>5, <1>6

\* The binary is copied.
LEMMA StageBinaryKeeps ==
  ASSUME SigningInv, StageBinary
  PROVE  SigningInv'
<1> USE SigningAssumption DEF SigningInv, secrets, bytes, records, SignPhases, Untouched, Cleared,
        StageBinary, Unaltered
<1>1. SigningTypeOK'
  BY DEF SigningTypeOK, WorkInOrder
<1>2. WorkInOrder'
  BY DEF SigningTypeOK, WorkInOrder
<1>3. KeysInOrder'
  BY DEF SigningTypeOK, WorkInOrder, KeysInOrder
<1>4. SubmissionInOrder'
  BY DEF WorkInOrder, SubmissionInOrder
<1>5. ReleaseInOrder'
  BY DEF WorkInOrder, SubmissionInOrder, ReleaseInOrder
<1>6. PackingInOrder'
  BY DEF WorkInOrder, PackingInOrder
<1> QED
  BY <1>1, <1>2, <1>3, <1>4, <1>5, <1>6

\* The copy is packed.
LEMMA TarKeeps ==
  ASSUME SigningInv, Tar
  PROVE  SigningInv'
<1> USE SigningAssumption DEF SigningInv, secrets, bytes, records, SignPhases, Untouched, Cleared,
        Tar
<1>1. SigningTypeOK'
  BY DEF SigningTypeOK, WorkInOrder
<1>2. WorkInOrder'
  BY DEF SigningTypeOK, WorkInOrder
<1>3. KeysInOrder'
  BY DEF SigningTypeOK, WorkInOrder, KeysInOrder
<1>4. SubmissionInOrder'
  BY DEF WorkInOrder, SubmissionInOrder
<1>5. ReleaseInOrder'
  BY DEF WorkInOrder, SubmissionInOrder, ReleaseInOrder
<1>6. PackingInOrder'
  BY DEF WorkInOrder, PackingInOrder
<1> QED
  BY <1>1, <1>2, <1>3, <1>4, <1>5, <1>6

\* The copy is compared with the digest.
LEMMA RenameArchiveKeeps ==
  ASSUME SigningInv, RenameArchive
  PROVE  SigningInv'
<1> USE SigningAssumption DEF SigningInv, secrets, bytes, records, SignPhases, Untouched, Cleared,
        RenameArchive, Unaltered
<1>1. SigningTypeOK'
  BY DEF SigningTypeOK, WorkInOrder
<1>2. WorkInOrder'
  BY DEF SigningTypeOK, WorkInOrder
<1>3. KeysInOrder'
  BY DEF SigningTypeOK, WorkInOrder, KeysInOrder
<1>4. SubmissionInOrder'
  BY DEF WorkInOrder, SubmissionInOrder
<1>5. ReleaseInOrder'
  BY DEF WorkInOrder, SubmissionInOrder, ReleaseInOrder
<1>6. PackingInOrder'
  BY DEF WorkInOrder, PackingInOrder
<1> QED
  BY <1>1, <1>2, <1>3, <1>4, <1>5, <1>6

\* The checksum is written or compared.
LEMMA ChecksumsKeeps ==
  ASSUME SigningInv, Checksums
  PROVE  SigningInv'
<1> USE SigningAssumption DEF SigningInv, secrets, bytes, records, SignPhases, Untouched, Cleared,
        Checksums
<1>1. SigningTypeOK'
  BY DEF SigningTypeOK, WorkInOrder
<1>2. WorkInOrder'
  BY DEF SigningTypeOK, WorkInOrder
<1>3. KeysInOrder'
  BY DEF SigningTypeOK, WorkInOrder, KeysInOrder
<1>4. SubmissionInOrder'
  BY DEF WorkInOrder, SubmissionInOrder
<1>5. ReleaseInOrder'
  BY DEF WorkInOrder, SubmissionInOrder, ReleaseInOrder
<1>6. PackingInOrder'
  BY DEF WorkInOrder, PackingInOrder
<1> QED
  BY <1>1, <1>2, <1>3, <1>4, <1>5, <1>6

\* The manifest is written from the receipt.
LEMMA WriteManifestKeeps ==
  ASSUME SigningInv, WriteManifest
  PROVE  SigningInv'
<1> USE SigningAssumption DEF SigningInv, secrets, bytes, records, SignPhases, Untouched, Cleared,
        WriteManifest
<1>1. SigningTypeOK'
  BY DEF SigningTypeOK, WorkInOrder
<1>2. WorkInOrder'
  BY DEF SigningTypeOK, WorkInOrder
<1>3. KeysInOrder'
  BY DEF SigningTypeOK, WorkInOrder, KeysInOrder
<1>4. SubmissionInOrder'
  BY DEF WorkInOrder, SubmissionInOrder
<1>5. ReleaseInOrder'
  BY DEF WorkInOrder, SubmissionInOrder, ReleaseInOrder
<1>6. PackingInOrder'
  BY DEF WorkInOrder, PackingInOrder
<1> QED
  BY <1>1, <1>2, <1>3, <1>4, <1>5, <1>6

\* The archive is compared with the manifest and the receipt.
LEMMA ExtractKeeps ==
  ASSUME SigningInv, Extract
  PROVE  SigningInv'
<1> USE SigningAssumption DEF SigningInv, secrets, bytes, records, SignPhases, Untouched, Cleared,
        Extract, Packs
<1>1. SigningTypeOK'
  BY DEF SigningTypeOK, WorkInOrder
<1>2. WorkInOrder'
  BY DEF SigningTypeOK, WorkInOrder
<1>3. KeysInOrder'
  BY DEF SigningTypeOK, WorkInOrder, KeysInOrder
<1>4. SubmissionInOrder'
  BY DEF WorkInOrder, SubmissionInOrder
<1>5. ReleaseInOrder'
  BY DEF WorkInOrder, SubmissionInOrder, ReleaseInOrder
<1>6. PackingInOrder'
  BY DEF WorkInOrder, PackingInOrder
<1> QED
  BY <1>1, <1>2, <1>3, <1>4, <1>5, <1>6

\* The notary service is asked.
LEMMA QueryNextKeeps ==
  ASSUME SigningInv, QueryNext
  PROVE  SigningInv'
<1> USE SigningAssumption DEF SigningInv, secrets, bytes, records, SignPhases, Untouched, Cleared,
        QueryNext, Query, Pause, Window, Outcome
<1>1. SigningTypeOK'
  <2>0. PICK d \in QueryTimes : \E states : Query(d, states)
    OBVIOUS
  <2>1. PICK states : Query(d, states)
    BY <2>0
  <2>2. /\ signPhase = "query" /\ signPhase' \in {"query", "waiting", "failed", "accepted"}
        /\ UNCHANGED <<platform, step, keychain, search, private, faults, slips, digests>>
    BY <2>1
  <2>3. poll' \in [asked : 0..5, spent : Nat]
    BY AskedOnce
  <2> QED
    BY <2>2, <2>3 DEF SigningTypeOK
<1>2. WorkInOrder'
  <2>0. PICK d \in QueryTimes : \E states : Query(d, states)
    OBVIOUS
  <2>1. PICK states : Query(d, states)
    BY <2>0
  <2>2. /\ signPhase = "query" /\ signPhase' \in {"query", "waiting", "failed", "accepted"}
        /\ UNCHANGED <<platform, step, keychain, search, private, faults, slips, digests>>
    BY <2>1
  <2>3. poll' \in [asked : 0..5, spent : Nat] /\ (signPhase' = "query" => poll'.asked <= 4)
    BY AskedOnce
  <2> QED
    BY <2>2, <2>3 DEF WorkInOrder
<1>3. KeysInOrder'
  <2>0. PICK d \in QueryTimes : \E states : Query(d, states)
    OBVIOUS
  <2>1. PICK states : Query(d, states)
    BY <2>0
  <2>2. /\ signPhase = "query" /\ signPhase' \in {"query", "waiting", "failed", "accepted"}
        /\ UNCHANGED <<platform, step, keychain, search, private, faults, slips, digests>>
    BY <2>1
  <2> QED
    BY <2>2 DEF KeysInOrder
<1>4. SubmissionInOrder'
  BY DEF WorkInOrder, SubmissionInOrder
<1>5. ReleaseInOrder'
  BY DEF WorkInOrder, SubmissionInOrder, ReleaseInOrder
<1>6. PackingInOrder'
  BY DEF WorkInOrder, PackingInOrder
<1> QED
  BY <1>1, <1>2, <1>3, <1>4, <1>5, <1>6

\* A later run asks once more.
LEMMA AskAgainKeeps ==
  ASSUME SigningInv, AskAgain
  PROVE  SigningInv'
<1> USE SigningAssumption DEF SigningInv, secrets, bytes, records, SignPhases, Untouched, Cleared,
        AskAgain
<1>1. SigningTypeOK'
  BY DEF SigningTypeOK, WorkInOrder
<1>2. WorkInOrder'
  BY DEF SigningTypeOK, WorkInOrder
<1>3. KeysInOrder'
  BY DEF SigningTypeOK, WorkInOrder, KeysInOrder
<1>4. SubmissionInOrder'
  BY DEF WorkInOrder, SubmissionInOrder
<1>5. ReleaseInOrder'
  BY DEF WorkInOrder, SubmissionInOrder, ReleaseInOrder
<1>6. PackingInOrder'
  BY DEF WorkInOrder, PackingInOrder
<1> QED
  BY <1>1, <1>2, <1>3, <1>4, <1>5, <1>6

\* The installer is compared with the receipt.
LEMMA VerifyPendingKeeps ==
  ASSUME SigningInv, VerifyPending
  PROVE  SigningInv'
<1> USE SigningAssumption DEF SigningInv, secrets, bytes, records, SignPhases, Untouched, Cleared,
        VerifyPending, VerifiedPending, InstallerSigned, HoldsBinary
<1>1. SigningTypeOK'
  BY DEF SigningTypeOK, WorkInOrder
<1>2. WorkInOrder'
  BY DEF SigningTypeOK, WorkInOrder
<1>3. KeysInOrder'
  BY DEF SigningTypeOK, WorkInOrder, KeysInOrder
<1>4. SubmissionInOrder'
  BY DEF WorkInOrder, SubmissionInOrder
<1>5. ReleaseInOrder'
  BY DEF WorkInOrder, SubmissionInOrder, ReleaseInOrder
<1>6. PackingInOrder'
  BY DEF WorkInOrder, PackingInOrder
<1> QED
  BY <1>1, <1>2, <1>3, <1>4, <1>5, <1>6

\* The ticket is stapled to the installer.
LEMMA StapleTicketKeeps ==
  ASSUME SigningInv, StapleTicket
  PROVE  SigningInv'
<1> USE SigningAssumption DEF SigningInv, secrets, bytes, records, SignPhases, Untouched, Cleared,
        StapleTicket, VerifiedPending, InstallerSigned, HoldsBinary
<1>1. SigningTypeOK'
  BY DEF SigningTypeOK, WorkInOrder
<1>2. WorkInOrder'
  BY DEF SigningTypeOK, WorkInOrder
<1>3. KeysInOrder'
  BY DEF SigningTypeOK, WorkInOrder, KeysInOrder
<1>4. SubmissionInOrder'
  BY DEF WorkInOrder, SubmissionInOrder
<1>5. ReleaseInOrder'
  BY DEF WorkInOrder, SubmissionInOrder, ReleaseInOrder
<1>6. PackingInOrder'
  BY DEF WorkInOrder, PackingInOrder
<1> QED
  BY <1>1, <1>2, <1>3, <1>4, <1>5, <1>6

\* A file changes.
LEMMA AlterKeeps ==
  ASSUME SigningInv, Alter
  PROVE  SigningInv'
<1> USE SigningAssumption DEF SigningInv, secrets, bytes, records, SignPhases, Untouched, Cleared,
        Alter, Slip
<1>1. SigningTypeOK'
  BY DEF SigningTypeOK, WorkInOrder
<1>2. WorkInOrder'
  BY DEF SigningTypeOK, WorkInOrder
<1>3. KeysInOrder'
  BY DEF SigningTypeOK, WorkInOrder, KeysInOrder
<1>4. SubmissionInOrder'
  BY DEF WorkInOrder, SubmissionInOrder
<1>5. ReleaseInOrder'
  BY DEF WorkInOrder, SubmissionInOrder, ReleaseInOrder
<1>6. PackingInOrder'
  BY DEF WorkInOrder, PackingInOrder
<1> QED
  BY <1>1, <1>2, <1>3, <1>4, <1>5, <1>6

\* Every step keeps the invariant.
LEMMA SigningStep ==
  ASSUME SigningInv, [SigningNext]_signingVars
  PROVE  SigningInv'
<1>1. CASE UNCHANGED signingVars
  BY <1>1 DEF signingVars, secrets, bytes, records, SigningInv, SigningTypeOK, WorkInOrder, KeysInOrder,
              SubmissionInOrder, ReleaseInOrder, PackingInOrder
<1>2. CASE WritePrivate \/ Capture \/ PrepareSigning \/ Sign \/ Package \/ VerifyInstaller \/ HashInstaller \/ Submit
  BY <1>2, WritePrivateKeeps, CaptureKeeps, PrepareSigningKeeps, SignKeeps, PackageKeeps, VerifyInstallerKeeps,
     HashInstallerKeeps, SubmitKeeps
<1>3. CASE Rehash \/ Keep \/ RestoreList \/ DeleteKeychain \/ RemovePrivate \/ FinishSigning
  BY <1>3, RehashKeeps, KeepKeeps, RestoreListKeeps, DeleteKeychainKeeps, RemovePrivateKeeps, FinishSigningKeeps
<1>4. CASE VerifyWindows \/ StageBinary \/ Tar \/ RenameArchive \/ Checksums \/ WriteManifest \/ Extract \/ QueryNext
  BY <1>4, VerifyWindowsKeeps, StageBinaryKeeps, TarKeeps, RenameArchiveKeeps, ChecksumsKeeps, WriteManifestKeeps,
     ExtractKeeps, QueryNextKeeps
<1>5. CASE AskAgain \/ VerifyPending \/ StapleTicket \/ Alter
  BY <1>5, AskAgainKeeps, VerifyPendingKeeps, StapleTicketKeeps, AlterKeeps
<1> QED
  BY <1>1, <1>2, <1>3, <1>4, <1>5 DEF SigningNext

\* What the invariant says of the keys, the receipt and what is published.
LEMMA SigningInvSound == SigningInv => SigningSound
<1> SUFFICES ASSUME SigningInv PROVE SigningSound
  OBVIOUS
<1> USE DEF SigningInv
<1>1. CleanOrReported
  BY DEF CleanOrReported, KeysInOrder, Cleared
<1>2. ReceiptIsSubmitted
  BY DEF ReceiptIsSubmitted, SubmissionInOrder
<1>3. StapledIsOne
  BY DEF StapledIsOne, SubmissionInOrder, ReleaseInOrder
<1>4. PackedIsVerified
  BY DEF PackedIsVerified, PackingInOrder
<1> QED
  BY <1>1, <1>2, <1>3, <1>4 DEF SigningSound

(***************************************************************************)
(* However many commands and removals fail and files change on the way     *)
(* (xtask/src/release.rs, distribution.rs): no key is left behind without  *)
(* a report, the receipt names what Apple was sent, and the archive and    *)
(* the stapled installer hold the binary of the receipt.                   *)
(***************************************************************************)
THEOREM SigningCorrect == SigningSpec => []SigningSound
<1>1. SigningInit => SigningInv
  BY SigningInitially
<1>2. SigningInv /\ [SigningNext]_signingVars => SigningInv'
  BY SigningStep
<1>3. SigningInv => SigningSound
  BY SigningInvSound
<1> QED
  BY <1>1, <1>2, <1>3, PTL DEF SigningSpec
=============================================================================
