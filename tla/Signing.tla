------------------------------- MODULE Signing -------------------------------
(***************************************************************************)
(* One target from its binary to the acceptance of its submission           *)
(* (xtask/src/release.rs, macos_package.rs, distribution.rs and the checks *)
(* of release_queue.rs).  The job signs in a keychain of its own, builds   *)
(* and submits an installer, keeps a receipt of the submission and clears  *)
(* away the keychain and its private files.  Later the archive, its        *)
(* checksum and the manifest are made, and the finalizer verifies what     *)
(* Apple accepted.  Every tool may fail, every removal may fail, and files *)
(* may change between two steps.  A Windows binary comes signed and only   *)
(* goes into its archive.                                                  *)
(***************************************************************************)
EXTENDS Naturals, Sequences

CONSTANTS
  MaxSlips,       \* bound on failures and changed files
  QueryTimes      \* how long a query of the notary service takes, in units of ten seconds

ASSUME SigningAssumption == MaxSlips \in Nat /\ QueryTimes \subseteq Nat

VARIABLES
  platform,       \* macOS or Windows
  signPhase,      \* where the work is
  step,           \* the next command of the preparation of the keychain
  keychain,       \* the keychain of the job exists
  search,         \* the search list of keychains
  private,        \* private files that exist, their directory among them
  binary,         \* the bytes of the binary, of its copy to be packed, of the installer,
  staged,         \* of the stapled installer and of the archive
  installer,
  stapled,
  archive,
  digests,          \* digests the job holds in memory
  receipt,        \* the receipt of the submission, of the binary and of the installer
  submitted,      \* the installers Apple was sent
  sum,            \* the checksum file of the archive
  manifest,       \* the digests of archive and installer in the manifest of the build
  faults,         \* what the job reports: a primary failure, failures of its cleanup
  poll,           \* queries made and time spent on them
  slips

secrets == <<keychain, search, private>>
bytes == <<binary, staged, installer, stapled, archive>>
records == <<digests, receipt, submitted, sum, manifest>>
signingVars == <<platform, signPhase, step, secrets, bytes, records, faults, poll, slips>>

None == <<"none">>
Altered == <<"altered">>       \* bytes that no step of the build made

NoManifest == [archive |-> None, installer |-> None]
NoDigests == [binary |-> None, installer |-> None]

\* The commands that prepare the keychain, in their order.
Preparation == <<"create", "settings", "unlock", "search", "import", "import installer",
                 "partition", "identity", "installer identity">>
\* The private files in the order they are written; the directory comes first.
PrivateOrder == <<"directory", "certificate", "notary key", "archive", "installer certificate">>
FirstFiles(n) == {PrivateOrder[i] : i \in 1..n}

SigningInit ==
  /\ platform \in {"macos", "windows"}
  /\ signPhase = (IF platform = "macos" THEN "write" ELSE "signature") /\ step = 1
  /\ keychain = FALSE /\ search = "original" /\ private = {}
  /\ binary = <<"built">> /\ staged = None /\ installer = None /\ stapled = None
  /\ archive = None
  /\ digests = NoDigests
  /\ receipt = NoDigests /\ submitted = {} /\ sum = None /\ manifest = NoManifest
  /\ faults = {} /\ poll = [asked |-> 0, spent |-> 0] /\ slips = 0

SigningTypeOK ==
  /\ step \in 1..(Len(Preparation) + 1) /\ search \in {"original", "own"}
  /\ private \subseteq FirstFiles(Len(PrivateOrder))
  /\ faults \subseteq {"primary", "cleanup"}
  /\ poll.asked \in 0..5 /\ slips \in 0..MaxSlips

-----------------------------------------------------------------------------
Slip == slips < MaxSlips /\ slips' = slips + 1

\* A step that fails is the primary failure; what follows it is the cleanup.
FailTo(s) == Slip /\ signPhase' = s /\ faults' = faults \cup {"primary"}

\* PrivateFiles::create_with: one private file after the other.
WritePrivate ==
  /\ signPhase = "write"
  /\ \/ /\ \E i \in 1..Len(PrivateOrder) :
             /\ private = FirstFiles(i - 1) /\ private' = FirstFiles(i)
             /\ signPhase' = IF i = Len(PrivateOrder) THEN "capture" ELSE "write"
        /\ UNCHANGED <<faults, slips>>
     \/ FailTo("remove") /\ UNCHANGED private
  /\ UNCHANGED <<platform, step, keychain, search, bytes, records, poll>>

\* SigningKeychain::capture: the list to restore is read before anything is changed.
Capture ==
  /\ signPhase = "capture"
  /\ \/ signPhase' = "prepare" /\ UNCHANGED <<faults, slips>>
     \/ FailTo("remove")
  /\ UNCHANGED <<platform, step, secrets, bytes, records, poll>>

\* prepare_with: a command that fails may have taken its effect.
Effect(c) ==
  /\ keychain' = (keychain \/ c = "create")
  /\ search' = IF c = "search" THEN "own" ELSE search

PrepareSigning ==
  /\ signPhase = "prepare"
  /\ \/ /\ Effect(Preparation[step])
        /\ step' = step + 1
        /\ signPhase' = IF step = Len(Preparation) THEN "sign" ELSE "prepare"
        /\ UNCHANGED <<faults, slips>>
     \/ /\ Effect(Preparation[step]) \/ UNCHANGED <<keychain, search>>
        /\ UNCHANGED step
        /\ FailTo("restore")
  /\ UNCHANGED <<platform, private, bytes, records, poll>>

\* sign_binary: sign, verify, and hash what was signed.
Sign ==
  /\ signPhase = "sign"
  /\ \/ /\ binary' = <<"signed", binary>>
        /\ digests' = [digests EXCEPT !.binary = binary']
        /\ signPhase' = "package" /\ UNCHANGED <<faults, slips>>
     \/ FailTo("restore") /\ UNCHANGED <<binary, digests>>
  /\ UNCHANGED <<platform, step, secrets, staged, installer, stapled, archive, receipt, submitted,
                 sum, manifest, poll>>

\* stage_payload and build_with: the payload is copied under its digest, and the
\* installer is linked into place, which one that is there already forbids.
Installer(b) == <<"installer", b>>

Package ==
  /\ signPhase = "package"
  /\ \/ /\ installer = None
        /\ installer' = Installer(binary)
        /\ signPhase' = "installer" /\ UNCHANGED <<faults, slips>>
     \/ FailTo("restore") /\ UNCHANGED installer
  /\ UNCHANGED <<platform, step, secrets, binary, staged, stapled, archive, records, poll>>

\* verify_installer_with: one signature, with a timestamp, of the expected identity.
InstallerSigned == installer # Altered

VerifyInstaller ==
  /\ signPhase = "installer"
  /\ IF InstallerSigned
     THEN signPhase' = "hash" /\ UNCHANGED faults
     ELSE signPhase' = "restore" /\ faults' = faults \cup {"primary"}
  /\ UNCHANGED <<platform, step, secrets, bytes, records, poll, slips>>

HashInstaller ==
  /\ signPhase = "hash"
  /\ digests' = [digests EXCEPT !.installer = installer]
  /\ signPhase' = "submit"
  /\ UNCHANGED <<platform, step, secrets, bytes, receipt, submitted, sum, manifest, faults, poll, slips>>

\* The submission may reach Apple although its command fails.
Submit ==
  /\ signPhase = "submit"
  /\ \/ submitted' = submitted \cup {installer} /\ signPhase' = "rehash" /\ UNCHANGED <<faults, slips>>
     \/ submitted' = submitted \cup {installer} /\ FailTo("restore")
     \/ UNCHANGED submitted /\ FailTo("restore")
  /\ UNCHANGED <<platform, step, secrets, bytes, digests, receipt, sum, manifest, poll>>

\* The installer is still the one that was hashed before the submission.
Rehash ==
  /\ signPhase = "rehash"
  /\ IF installer = digests.installer
     THEN signPhase' = "keep" /\ UNCHANGED faults
     ELSE signPhase' = "restore" /\ faults' = faults \cup {"primary"}
  /\ UNCHANGED <<platform, step, secrets, bytes, records, poll, slips>>

\* ReceiptDestination::preserve: linked into place, never over another receipt.
Keep ==
  /\ signPhase = "keep"
  /\ \/ receipt' = digests /\ signPhase' = "restore" /\ UNCHANGED <<faults, slips>>
     \/ UNCHANGED receipt /\ FailTo("restore")
  /\ UNCHANGED <<platform, step, secrets, bytes, digests, submitted, sum, manifest, poll>>

-----------------------------------------------------------------------------
\* A removal that fails is reported and the next one is still tried.
ReportKept == Slip /\ faults' = faults \cup {"cleanup"}

RestoreList ==
  /\ signPhase = "restore"
  /\ \/ search' = "original" /\ UNCHANGED <<faults, slips>>
     \/ UNCHANGED search /\ ReportKept
  /\ signPhase' = "delete"
  /\ UNCHANGED <<platform, step, keychain, private, bytes, records, poll>>

DeleteKeychain ==
  /\ signPhase = "delete"
  /\ \/ keychain' = FALSE /\ UNCHANGED <<faults, slips>>
     \/ keychain /\ UNCHANGED keychain /\ ReportKept
  /\ signPhase' = "remove"
  /\ UNCHANGED <<platform, step, search, private, bytes, records, poll>>

\* PrivateFiles::finish: every file, then the directory with what is left in it.
RemovePrivate ==
  /\ signPhase = "remove"
  /\ \/ private' = {} /\ UNCHANGED <<faults, slips>>
     \/ \E kept \in (SUBSET private) \ {{}} : private' = kept /\ ReportKept
  /\ signPhase' = "ended"
  /\ UNCHANGED <<platform, step, keychain, search, bytes, records, poll>>

\* finish_operation: a failure of either kind fails the job.
FinishSigning ==
  /\ signPhase = "ended"
  /\ signPhase' = IF faults = {} THEN "bundle" ELSE "failed"
  /\ UNCHANGED <<platform, step, secrets, bytes, records, faults, poll, slips>>

-----------------------------------------------------------------------------
\* verify_windows: the signature is that of the expected identity, then the digest stands
\* for the binary.
VerifyWindows ==
  /\ signPhase = "signature"
  /\ digests' = [digests EXCEPT !.binary = binary]
  /\ signPhase' = IF binary = Altered THEN "failed" ELSE "bundle"
  /\ UNCHANGED <<platform, step, secrets, bytes, receipt, submitted, sum, manifest, faults, poll,
                 slips>>

UnalteredTrusting(b) == TRUE

\* What was verified is still there; only Windows binaries are verified when packed.
Unaltered(b) == platform = "windows" => b = digests.binary

\* bundle: the binary is copied into a staging directory,
StageBinary ==
  /\ signPhase = "bundle"
  /\ staged' = binary
  /\ signPhase' = IF Unaltered(binary) THEN "tar" ELSE "failed"
  /\ UNCHANGED <<platform, step, secrets, binary, installer, stapled, archive, records, faults,
                 poll, slips>>

\* packed there,
Tar ==
  /\ signPhase = "tar"
  /\ archive' = <<"archive", staged>>
  /\ signPhase' = "rename"
  /\ UNCHANGED <<platform, step, secrets, binary, staged, installer, stapled, records, faults,
                 poll, slips>>

\* and the archive renamed into its place.
RenameArchive ==
  /\ signPhase = "rename"
  /\ signPhase' = IF Unaltered(staged) THEN "checksums" ELSE "failed"
  /\ UNCHANGED <<platform, step, secrets, bytes, records, faults, poll, slips>>

\* checksums: a whole set is verified, none is written and verified.
Checksums ==
  /\ signPhase = "checksums"
  /\ IF sum \in {None, archive}
     THEN sum' = archive /\ signPhase' = IF platform = "macos" THEN "handoff" ELSE "whole"
     ELSE UNCHANGED sum /\ signPhase' = "failed"
  /\ UNCHANGED <<platform, step, secrets, bytes, digests, receipt, submitted, manifest, faults, poll, slips>>

\* create_handoff and PendingManifest: the archive has its checksum and the receipt
\* claims the digest of the installer.
WriteManifest ==
  /\ signPhase = "handoff"
  /\ IF sum = archive /\ receipt # NoDigests /\ receipt.installer = installer
     THEN /\ manifest' = [archive |-> archive, installer |-> installer]
          /\ signPhase' = "extract"
     ELSE UNCHANGED manifest /\ signPhase' = "failed"
  /\ UNCHANGED <<platform, step, secrets, bytes, digests, receipt, submitted, sum, faults, poll, slips>>

\* extract_archive: the archive has its exact members and the binary is one of them.
Packs(a, b) == a = <<"archive", b>>

\* ExtractedBundle: the archive is that of the manifest and holds the binary of the receipt.
Extract ==
  /\ signPhase = "extract"
  /\ signPhase' = IF archive = manifest.archive /\ Packs(archive, receipt.binary)
              THEN "query" ELSE "failed"
  /\ UNCHANGED <<platform, step, secrets, bytes, records, faults, poll, slips>>

\* NotaryCheck::query: five queries, within two minutes, thirty seconds apart.
Window == 12
Pause(spent) == IF 3 <= Window - spent THEN 3 ELSE Window - spent

\* query_and_verify: every target must be accepted; one that is rejected fails the check,
\* and so may a check of an accepted binary.
Outcome(states) ==
  IF "Invalid" \in states THEN "failed"
  ELSE IF "In Progress" \in states THEN "pending" ELSE "accepted"

Query(d, states) ==
  LET spent == poll.spent + d
      asked == poll.asked + 1
      ends == asked = 5 \/ spent >= Window
      next == IF ends THEN spent ELSE spent + Pause(spent)
  IN /\ signPhase = "query"
     /\ \/ /\ Outcome(states) # "pending"
           /\ signPhase' \in {Outcome(states), "failed"}
           /\ poll' = [asked |-> asked, spent |-> spent]
        \/ /\ Outcome(states) = "pending"
           /\ signPhase' = IF next >= Window \/ ends THEN "waiting" ELSE "query"
           /\ poll' = [asked |-> asked, spent |-> next]
     /\ UNCHANGED <<platform, step, secrets, bytes, records, faults, slips>>

\* A later run of the finalizer queries once more.
AskAgain ==
  /\ signPhase = "waiting"
  /\ signPhase' = "extract" /\ poll' = [asked |-> 4, spent |-> 0]
  /\ UNCHANGED <<platform, step, secrets, bytes, records, faults, slips>>

\* inspect_payload and verify_binary: the installer holds the binary of the receipt.
HoldsBinary(i) == i = Installer(receipt.binary)

\* verify_pending: the installer is that of the receipt and holds its binary.
VerifiedPending == /\ installer = receipt.installer
                   /\ InstallerSigned /\ HoldsBinary(installer)

VerifyPending ==
  /\ signPhase = "accepted"
  /\ signPhase' = IF VerifiedPending THEN "verified" ELSE "failed"
  /\ UNCHANGED <<platform, step, secrets, bytes, records, faults, poll, slips>>

\* staple: a copy gets the ticket and is verified before it is linked into place.
StapleTicket ==
  /\ signPhase = "verified"
  /\ IF VerifiedPending
     THEN stapled' = <<"stapled", installer>> /\ signPhase' = "stapled"
     ELSE UNCHANGED stapled /\ signPhase' = "failed"
  /\ UNCHANGED <<platform, step, secrets, binary, staged, installer, archive, records, faults, poll,
                 slips>>

\* Another process changes one of the files between two steps.
Alter ==
  /\ signPhase \notin {"failed", "waiting", "whole", "stapled"} /\ Slip
  /\ \/ binary' = Altered /\ UNCHANGED <<staged, installer, archive>>
     \/ staged # None /\ staged' = Altered /\ UNCHANGED <<binary, installer, archive>>
     \/ installer # None /\ installer' = Altered /\ UNCHANGED <<binary, staged, archive>>
     \/ archive # None /\ archive' = Altered /\ UNCHANGED <<binary, staged, installer>>
  /\ UNCHANGED <<platform, signPhase, step, secrets, stapled, records, faults, poll>>

QueryNext ==
  \E d \in QueryTimes, states \in (SUBSET {"In Progress", "Accepted", "Invalid"}) \ {{}} :
    Query(d, states)

SigningNext ==
  \/ WritePrivate \/ Capture \/ PrepareSigning \/ Sign \/ Package \/ VerifyInstaller \/ HashInstaller \/ Submit
  \/ Rehash \/ Keep \/ RestoreList \/ DeleteKeychain \/ RemovePrivate \/ FinishSigning
  \/ VerifyWindows \/ StageBinary \/ Tar \/ RenameArchive \/ Checksums \/ WriteManifest \/ Extract \/ QueryNext
  \/ AskAgain \/ VerifyPending \/ StapleTicket \/ Alter

SigningSpec == SigningInit /\ [][SigningNext]_signingVars

-----------------------------------------------------------------------------
\* A job that ends leaves no key, no private file and no changed search list behind,
\* or it says so (SigningKeychain::cleanup, PrivateFiles::finish, finish_operation).
CleanOrReported ==
  signPhase \in {"ended", "bundle", "failed"} /\ (keychain \/ search # "original" \/ private # {})
    => "cleanup" \in faults

\* A receipt names what Apple was sent, although the file may change around the
\* submission (submit_package_and_preserve).
ReceiptIsSubmitted == receipt # NoDigests => submitted = {receipt.installer}

\* What is published is one binary: the archive and the stapled installer hold the
\* binary that was signed and hashed (ExtractedBundle, verify_pending, staple).
StapledIsOne ==
  signPhase = "stapled" =>
    /\ manifest.archive = <<"archive", receipt.binary>>
    /\ stapled = <<"stapled", Installer(receipt.binary)>>
    /\ submitted = {manifest.installer}

\* A Windows archive that nobody touched since holds the binary whose signature was
\* verified (VerifiedWindowsBinary).
PackedIsVerified ==
  platform = "windows" /\ signPhase \in {"checksums", "whole"} =>
    archive \in {Altered, <<"archive", digests.binary>>}

\* The four together.
SigningSound ==
  SigningTypeOK /\ CleanOrReported /\ ReceiptIsSubmitted /\ StapledIsOne /\ PackedIsVerified
=============================================================================
