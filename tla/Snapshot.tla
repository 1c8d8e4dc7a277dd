------------------------------- MODULE Snapshot -------------------------------
(***************************************************************************)
(* The source of a job on its way to another machine (source.rs,           *)
(* source_archive.rs, core source_paths.rs; store.rs: receive_archive,     *)
(* cleanup_orphans, extract_archive; workspace.rs).  The sender asks git   *)
(* what is tracked and what is not ignored, walks the directory, and       *)
(* archives one file after the other while somebody may edit the tree.     *)
(* The receiver takes the bytes into a file under a lock, checks them      *)
(* against the announced length and digest, and unpacks them.              *)
(***************************************************************************)
EXTENDS Naturals, Sequences, FiniteSets

CONSTANTS
  SourceFiles,     \* the names of the checkout, in the order of their paths
  StatusOf(_),     \* "tracked", "other", "hidden" by an ignore file git does not
                   \* know, or "ignored" by git as well
  OddName,         \* the one name that need not be a regular file
  OddKinds,        \* of "file", "link", "inside" (the git directory), "directory", "absent"
  FoldsTo(_),      \* the name in lower case
  SourceLimit,     \* MAX_FILES and MAX_ARCHIVE_FILES
  Repositories,    \* "git", "none", "broken": what git says of the directory
  Nodes,           \* calls that receive on the other machine
  NoNode,
  MaxSourceEdits,
  MaxLineFaults    \* bound on transfers that are cut or altered, and on crashes

ASSUME SnapshotAssumption ==
  /\ Repositories \subseteq {"git", "none", "broken"}
  /\ OddKinds \subseteq {"file", "link", "inside", "directory", "absent"}
  /\ SourceFiles \in Seq(STRING) /\ SourceLimit \in Nat
  /\ NoNode \notin Nodes /\ MaxLineFaults \in Nat

VARIABLES
  repository,
  oddity,          \* what the odd name is at first
  checkout,        \* of each name: what is there, its two halves, and its length
  packing,         \* where the sender is
  paths,           \* the paths that will be archived
  open,            \* the file that is read: its name, the length it was given, the first half
  archived,        \* what was archived so far, in order
  sent,            \* what the sender gave away, with its descriptor; or none
  line,            \* of each node: what has come in
  receiver,        \* where a node is
  incoming,        \* files in the incoming directory
  incomingLock,    \* who holds incoming.lock
  unpacked,        \* the workspace of each node
  edited,          \* names that somebody touched while the sender worked
  lineFaults

senderVars == <<repository, oddity, packing, paths, open, archived, sent>>
receiverVars == <<line, receiver, incoming, incomingLock, unpacked>>
snapshotVars == <<senderVars, checkout, receiverVars, edited, lineFaults>>

Names == {SourceFiles[i] : i \in DOMAIN SourceFiles}
KindOf(n) == IF n = OddName THEN oddity ELSE "file"
NotOpen == [name |-> "none", length |-> 0, half |-> 0]
Unsent == [bytes |-> <<>>, digest |-> "none"]
Fresh(n) == [there |-> KindOf(n) # "absent", kind |-> KindOf(n), head |-> 0, tail |-> 0, length |-> 2]

SnapshotInit ==
  /\ repository \in Repositories /\ oddity \in OddKinds
  /\ checkout = [n \in Names |-> Fresh(n)]
  /\ packing = "called" /\ paths = {} /\ open = NotOpen /\ archived = <<>> /\ sent = Unsent
  /\ line = [c \in Nodes |-> <<>>] /\ receiver = [c \in Nodes |-> "idle"]
  /\ incoming = {} /\ incomingLock = NoNode
  /\ unpacked = [c \in Nodes |-> <<>>]
  /\ edited = {} /\ lineFaults = 0

-----------------------------------------------------------------------------
\* metadata_path and MetadataDirectories: nothing of the repository itself.
Metadata(n) == checkout[n].kind = "inside"

\* git_paths: the index has what is tracked, there or not; the others are there.
GitTracked == {n \in Names : StatusOf(n) = "tracked" /\ ~Metadata(n)}
GitOthers == {n \in Names : /\ StatusOf(n) \in {"other", "hidden"} /\ ~Metadata(n)
                            /\ checkout[n].there /\ checkout[n].kind # "directory"}

\* tracked: a directory that declares a repository git cannot resolve, or more
\* paths than the budget, is refused.
InPathBudget(listed) == Cardinality(listed) <= SourceLimit

Tracked ==
  /\ packing = "called"
  /\ CASE repository = "broken" -> packing' = "refused" /\ UNCHANGED paths
       [] repository = "none" -> packing' = "listed" /\ UNCHANGED paths
       [] OTHER -> /\ paths' = GitTracked \cup GitOthers
                   /\ packing' = IF InPathBudget(GitTracked) /\ InPathBudget(GitOthers)
                                 THEN "listed" ELSE "refused"
  /\ UNCHANGED <<repository, oddity, open, archived, sent, checkout, receiverVars, edited, lineFaults>>

\* walker: what the ignore files leave, outside of any repository's own
\* directories; git's ignore files are read only where there is no git.
Exists(n) == checkout[n].there /\ checkout[n].kind # "directory"
Walked == {n \in Names : Exists(n) /\ ~Metadata(n) /\ StatusOf(n) \in {"tracked", "other"}}

\* working_directory: with git, what is tracked and there, and of the walk what
\* git listed as untracked; without it, the walk.
WalkTree ==
  /\ packing = "listed" /\ packing' = "walked"
  /\ paths' = IF repository = "git"
              THEN {n \in paths : IF StatusOf(n) = "tracked" THEN Exists(n) ELSE n \in Walked}
              ELSE Walked
  /\ UNCHANGED <<repository, oddity, open, archived, sent, checkout, receiverVars, edited, lineFaults>>

\* The paths in order.
IndexOf(n) == CHOOSE i \in DOMAIN SourceFiles : SourceFiles[i] = n
NextSource == CHOOSE n \in paths : \A o \in paths : IndexOf(n) <= IndexOf(o)

Folded == {FoldsTo(archived[i].name) : i \in DOMAIN archived}

\* Archive::add up to the opening: links and other kinds are refused, and so are
\* a name that collides with another one on a system that ignores the case and a
\* file too many.
Acceptable(n) ==
  /\ checkout[n].there /\ checkout[n].kind = "file"
  /\ FoldsTo(n) \notin Folded
  /\ Len(archived) < SourceLimit

OpenSource ==
  /\ packing = "walked" /\ paths # {}
  /\ IF Acceptable(NextSource)
     THEN /\ packing' = "opened"
          /\ open' = [name |-> NextSource, length |-> checkout[NextSource].length, half |-> checkout[NextSource].head]
     ELSE packing' = "refused" /\ UNCHANGED open
  /\ UNCHANGED <<repository, oddity, paths, archived, sent, checkout, receiverVars, edited, lineFaults>>

\* The rest is read, at most one byte more than the length that was seen; a file
\* that was removed meanwhile is still open.
ReadMatches == checkout[open.name].length = open.length
Entry(tail) == [name |-> open.name, head |-> open.half, tail |-> tail]

ReadSource ==
  /\ packing = "opened"
  /\ IF ReadMatches
     THEN packing' = "walked" /\ archived' = Append(archived, Entry(checkout[open.name].tail))
     ELSE packing' = "refused" /\ UNCHANGED archived
  /\ paths' = paths \ {open.name} /\ open' = NotOpen
  /\ UNCHANGED <<repository, oddity, sent, checkout, receiverVars, edited, lineFaults>>

\* finish: the descriptor is made of the bytes themselves.
FinishArchive ==
  /\ packing = "walked" /\ paths = {}
  /\ packing' = "sent" /\ sent' = [bytes |-> archived, digest |-> archived]
  /\ UNCHANGED <<repository, oddity, paths, open, archived, checkout, receiverVars, edited, lineFaults>>

\* Somebody edits: a half is rewritten, a file grows, goes or becomes a link.
TouchFile(n) ==
  /\ Cardinality(edited) < MaxSourceEdits /\ n \notin edited /\ packing \notin {"sent", "refused"}
  /\ checkout[n].kind = "file"
  /\ \/ checkout' = [checkout EXCEPT ![n].head = 1, ![n].tail = 1]
     \/ checkout' = [checkout EXCEPT ![n].length = 3]
     \/ checkout' = [checkout EXCEPT ![n].there = FALSE]
     \/ checkout' = [checkout EXCEPT ![n].kind = "link"]
  /\ edited' = edited \cup {n}
  /\ UNCHANGED <<senderVars, receiverVars, lineFaults>>

-----------------------------------------------------------------------------
\* Mistake: the files of calls that died stay.
CleanupOrphansNot == incoming

\* receive_archive: under incoming.lock the leftovers of dead calls go first.
CleanupOrphans == {}

BeginReceive(c) ==
  /\ sent # Unsent /\ receiver[c] = "idle" /\ incomingLock = NoNode
  /\ incomingLock' = c /\ incoming' = CleanupOrphans \cup {c}
  /\ receiver' = [receiver EXCEPT ![c] = "receiving"]
  /\ UNCHANGED <<senderVars, checkout, line, unpacked, edited, lineFaults>>

\* A part comes in; the line may alter or repeat it, or end.
Take(c) ==
  /\ receiver[c] = "receiving" /\ Len(line[c]) < Len(sent.bytes)
  /\ \/ /\ line' = [line EXCEPT ![c] = Append(@, sent.bytes[Len(@) + 1])]
        /\ UNCHANGED <<receiver, lineFaults>>
     \/ /\ lineFaults < MaxLineFaults /\ lineFaults' = lineFaults + 1
        /\ \E wrong \in {[name |-> "none", head |-> 9, tail |-> 9], sent.bytes[1]} :
             /\ wrong # sent.bytes[Len(line[c]) + 1]
             /\ line' = [line EXCEPT ![c] = Append(@, wrong)]
        /\ UNCHANGED receiver
     \/ /\ lineFaults < MaxLineFaults /\ lineFaults' = lineFaults + 1
        /\ receiver' = [receiver EXCEPT ![c] = "refusing"] /\ UNCHANGED line
  /\ UNCHANGED <<senderVars, checkout, incoming, incomingLock, unpacked, edited>>

\* The digest of what came.
CheckDigest(c) ==
  /\ receiver[c] = "receiving" /\ Len(line[c]) = Len(sent.bytes)
  /\ receiver' = [receiver EXCEPT ![c] = IF line[c] = sent.digest THEN "whole" ELSE "refusing"]
  /\ UNCHANGED <<senderVars, checkout, line, incoming, incomingLock, unpacked, edited, lineFaults>>

\* require_end: nothing may follow the archive.
RequireEnd(c) ==
  /\ receiver[c] = "whole"
  /\ \/ receiver' = [receiver EXCEPT ![c] = "received"] /\ UNCHANGED lineFaults
     \/ /\ lineFaults < MaxLineFaults /\ lineFaults' = lineFaults + 1
        /\ receiver' = [receiver EXCEPT ![c] = "refusing"]
  /\ UNCHANGED <<senderVars, checkout, line, incoming, incomingLock, unpacked, edited>>

\* extract_archive: every entry a new file below the workspace; the file of the
\* archive must still be there.
ExtractNext(c) == line[c][Len(unpacked[c]) + 1]

Unpack(c) ==
  /\ receiver[c] = "received" /\ Len(unpacked[c]) < Len(line[c])
  /\ IF c \in incoming
        /\ Len(unpacked[c]) < SourceLimit
        /\ \A i \in DOMAIN unpacked[c] : FoldsTo(unpacked[c][i].name) # FoldsTo(ExtractNext(c).name)
     THEN unpacked' = [unpacked EXCEPT ![c] = Append(@, ExtractNext(c))] /\ UNCHANGED receiver
     ELSE receiver' = [receiver EXCEPT ![c] = "refusing"] /\ UNCHANGED unpacked
  /\ UNCHANGED <<senderVars, checkout, line, incoming, incomingLock, edited, lineFaults>>

\* ReceivedArchive::drop: the file goes, then the lock.
DropArchive(c) ==
  /\ receiver[c] = "refusing" \/ (receiver[c] = "received" /\ Len(unpacked[c]) = Len(line[c]))
  /\ receiver' = [receiver EXCEPT ![c] = IF receiver[c] = "refusing" THEN "refused" ELSE "staged"]
  /\ incoming' = incoming \ {c} /\ incomingLock' = NoNode
  /\ UNCHANGED <<senderVars, checkout, line, unpacked, edited, lineFaults>>

\* A call dies: its lock is free, its file stays.
KillNode(c) ==
  /\ lineFaults < MaxLineFaults /\ lineFaults' = lineFaults + 1
  /\ receiver[c] \in {"receiving", "whole", "received", "refusing"}
  /\ receiver' = [receiver EXCEPT ![c] = "dead"] /\ incomingLock' = NoNode
  /\ UNCHANGED <<senderVars, checkout, line, incoming, unpacked, edited>>

SnapshotNext ==
  \/ Tracked
  \/ WalkTree
  \/ OpenSource
  \/ ReadSource
  \/ FinishArchive
  \/ \E n \in Names : TouchFile(n)
  \/ \E c \in Nodes : BeginReceive(c) \/ Take(c) \/ CheckDigest(c) \/ RequireEnd(c) \/ Unpack(c)
                        \/ DropArchive(c) \/ KillNode(c)

SnapshotSpec == SnapshotInit /\ [][SnapshotNext]_snapshotVars

-----------------------------------------------------------------------------
\* What belongs to the source as long as nobody touches it.
Belongs(n) ==
  /\ KindOf(n) = "file"
  /\ StatusOf(n) \in {"tracked", "other"}

Packed(n) == \E i \in DOMAIN sent.bytes : sent.bytes[i].name = n
Halves(n) == IF n \in edited THEN {0, 1} ELSE {0}

(***************************************************************************)
(* What runs elsewhere is the source.  A snapshot that was sent has every  *)
(* file of the tree that belongs to it and that nobody touched, with its   *)
(* bytes, and of a file that somebody touched only bytes it had; nothing   *)
(* of the repository itself, nothing ignored, no link and no two names     *)
(* that are one elsewhere; a repository git cannot resolve is not sent     *)
(* (tracked, walker, Archive::add).  A workspace that was staged is the    *)
(* snapshot, whatever the line lost, altered or repeated and whoever died  *)
(* meanwhile, and an undisturbed snapshot is never refused: what one side  *)
(* sends is within the limits of the other.  The file a call receives into *)
(* is never taken away from it, and files of dead calls do not add up      *)
(* (receive_archive, cleanup_orphans, extract_archive).                    *)
(***************************************************************************)
SnapshotSound ==
  /\ sent # Unsent =>
       /\ repository # "broken"
       /\ \A n \in Names \ edited : Packed(n) <=> Belongs(n)
       /\ \A i \in DOMAIN sent.bytes :
            /\ Belongs(sent.bytes[i].name)
            /\ {sent.bytes[i].head, sent.bytes[i].tail} \subseteq Halves(sent.bytes[i].name)
       /\ \A i, k \in DOMAIN sent.bytes :
            FoldsTo(sent.bytes[i].name) = FoldsTo(sent.bytes[k].name) => i = k
  /\ \A c \in Nodes :
       /\ receiver[c] = "staged" => unpacked[c] = sent.bytes
       /\ receiver[c] \in {"refusing", "refused"} => lineFaults > 0
       /\ receiver[c] \in {"receiving", "whole", "received"} => c \in incoming /\ incomingLock = c
  /\ Cardinality({c \in incoming : receiver[c] = "dead"}) <= 1
=============================================================================
