-------------------------------- MODULE OutputTxn --------------------------------
(***************************************************************************)
(* One Agent execution inside an output transaction: Begin, the Agent, and *)
(* Commit or Abort (internal/outputtxn, internal/runtime), then Verify as  *)
(* the Scheduler calls it.  Any file system call may fail, the machine may *)
(* crash between any two, and processes that the Agent left behind may go  *)
(* on writing to its directory.  Every transaction has a directory of its  *)
(* own, so one stands for all.                                             *)
(***************************************************************************)
EXTENDS Integers, FiniteSets, Functions

CONSTANTS
  Paths,       \* artifact paths below the transaction's directory
  Contents,    \* what a regular file may contain
  Bytes,       \* its size
  MaxFiles, MaxBytes, AllowEmpty,  \* Limits
  Retain,      \* OutputRetainOnFailure
  None, Bad,   \* no file; a symbolic link, special file, reserved name or torn file
  NoPath

ASSUME ContentsHaveSizes == Bytes \in [Contents -> Nat]
ASSUME LimitsArePositive == MaxFiles \in Nat \ {0} /\ MaxBytes \in Nat \ {0}
ASSUME Options == AllowEmpty \in BOOLEAN /\ Retain \in BOOLEAN
ASSUME PathsAreFinite == IsFiniteSet(Paths) /\ NoPath \notin Paths
ASSUME NotContents == None \notin Contents /\ Bad \notin Contents /\ None # Bad

VARIABLES
  pc,          \* where the execution is
  place,       \* where the directory is: "nowhere", "staging" or "committed"
  files,       \* the artifacts in it
  synced,      \* the content of each artifact that fsync has made durable
  entries,     \* the artifacts whose directory entries are durable
  renamed,     \* the rename into the committed directory is durable
  todo,        \* artifacts listed and still to be scanned, or verified
  current,     \* the artifact being hashed
  expected,    \* its size when it was inspected
  digests,     \* FileRecords so far: a function on the scanned artifacts
  total,       \* totalBytes
  manifest,    \* the files of .aegis-commit.json, a function on their paths
  leftover,    \* processes of the Agent outlive it
  touched      \* history: what was written since verification began

vars == <<pc, place, files, synced, entries, renamed, todo, current, expected, digests,
          total, manifest, leftover, touched>>

NoFiles == [p \in {} |-> None]
Present == {p \in Paths : files[p] # None}
Restarted == [p \in Paths |-> None]

Init ==
  /\ pc = "begin"
  /\ place = "nowhere"
  /\ files = Restarted
  /\ synced = Restarted
  /\ entries = {}
  /\ renamed = FALSE
  /\ todo = {}
  /\ current = NoPath
  /\ expected = 0
  /\ digests = NoFiles
  /\ total = 0
  /\ manifest = NoFiles
  /\ leftover = FALSE
  /\ touched = {}

disk == <<place, files, synced, entries, renamed, manifest>>
scan == <<todo, current, expected, digests, total>>

\* The local variables of scanArtifacts and Verify end with their call.
ScanReset ==
  /\ todo' = {}
  /\ current' = NoPath
  /\ expected' = 0
  /\ digests' = NoFiles
  /\ total' = 0

-----------------------------------------------------------------------------
(* The Agent *)

Begin ==
  /\ pc = "begin"
  /\ \/ pc' = "agent" /\ place' = "staging"
     \/ pc' = "failed" /\ UNCHANGED place
  /\ UNCHANGED <<files, synced, entries, renamed, scan, manifest, leftover, touched>>

\* The Agent writes, or a process that it left behind does, wherever the directory is.
Write(p) ==
  /\ pc = "agent" \/ leftover
  /\ place # "nowhere"
  /\ \E c \in Contents \cup {None, Bad} : files' = [files EXCEPT ![p] = c]
  /\ touched' = touched \cup {p}
  /\ UNCHANGED <<pc, place, synced, entries, renamed, scan, manifest, leftover>>

AfterFailure == IF Retain THEN "failed" ELSE "abort"

AgentExits ==
  /\ pc = "agent"
  /\ pc' \in {"list", AfterFailure}
  /\ leftover' \in BOOLEAN
  /\ UNCHANGED <<disk, scan, touched>>

-----------------------------------------------------------------------------
(* Commit *)

\* A file that may not be published, a failing file system call, or ctx at its end:
\* finishFailure.  "settle" is past the rename.
CommitFails ==
  /\ pc \in {"list", "scan", "manifest", "sync", "publish", "settle"}
  /\ pc' = AfterFailure
  /\ ScanReset
  /\ UNCHANGED <<disk, leftover, touched>>

\* WalkDir reads the directory.
List ==
  /\ pc = "list"
  /\ todo' = Present
  /\ pc' = "scan"
  /\ UNCHANGED <<disk, current, expected, digests, total, leftover, touched>>

\* Mutants: both limits are off, by one file and by what was counted before.
WithinFilesLate(n) == n <= MaxFiles
WithinBytesAlone(size) == size <= MaxBytes

WithinFiles(n) == n + 1 <= MaxFiles
WithinBytes(size) == size <= MaxBytes - total

\* Only a regular file within the limits is hashed.  Otherwise CommitFails is all
\* that can happen.
Inspect(p) ==
  /\ pc = "scan"
  /\ current = NoPath
  /\ p \in todo
  /\ files[p] \in Contents
  /\ WithinFiles(Cardinality(DOMAIN digests))
  /\ WithinBytes(Bytes[files[p]])
  /\ current' = p
  /\ expected' = Bytes[files[p]]
  /\ UNCHANGED <<pc, disk, todo, digests, total, leftover, touched>>

\* Mutant: hashed and not synced.
SyncedAfterHashNot == synced

\* hashFile ends with fsync, of the file that it has read.
SyncedAfterHash ==
  IF files[current] \in Contents THEN [synced EXCEPT ![current] = files[current]] ELSE synced

\* Opening follows a symbolic link that has taken the place of an artifact since it was
\* inspected: what is read is another file then, with any content.
Readable(p) == IF files[p] = Bad THEN Contents ELSE {files[p]} \ {None}

\* Mutant: the size is not looked at again.
SameSizeAnyway(c) == TRUE

SameSize(c) == Bytes[c] = expected

\* hashFile, chmod and the FileRecord.  A size that has changed fails the Commit.
Hash ==
  /\ pc = "scan"
  /\ current # NoPath
  /\ \E c \in Readable(current) :
       /\ SameSize(c)
       /\ digests' = [p \in DOMAIN digests \cup {current} |->
                        IF p = current THEN c ELSE digests[p]]
  /\ synced' = SyncedAfterHash
  /\ total' = total + expected
  /\ todo' = todo \ {current}
  /\ current' = NoPath
  /\ expected' = 0
  /\ UNCHANGED <<pc, place, files, entries, renamed, manifest, leftover, touched>>

\* Mutant: an empty output is committed.
EnoughAnyway == TRUE

Enough == DOMAIN digests # {} \/ AllowEmpty

EndScan ==
  /\ pc = "scan"
  /\ current = NoPath
  /\ todo = {}
  /\ Enough
  /\ pc' = "manifest"
  /\ UNCHANGED <<disk, scan, leftover, touched>>

\* writeFileAtomic makes the manifest durable.
WriteManifest ==
  /\ pc = "manifest"
  /\ manifest' = digests
  /\ pc' = "sync"
  /\ ScanReset
  /\ UNCHANGED <<place, files, synced, entries, renamed, leftover, touched>>

\* Mutant: only the top directory is synced.
DurableEntriesNot == entries

DurableEntries == Present

\* syncDirectoryTree
SyncTree ==
  /\ pc = "sync"
  /\ entries' = DurableEntries
  /\ pc' = "publish"
  /\ UNCHANGED <<place, files, synced, renamed, scan, manifest, leftover, touched>>

\* The final directory does not exist yet, and the rename publishes it.
Publish ==
  /\ pc = "publish"
  /\ place' = "committed"
  /\ pc' = "settle"
  /\ UNCHANGED <<files, synced, entries, renamed, scan, manifest, leftover, touched>>

\* The sync of the final parent: the Agent's output is COMMITTED.
Settle ==
  /\ pc = "settle"
  /\ renamed' = TRUE
  /\ pc' = "committed"
  /\ UNCHANGED <<place, files, synced, entries, scan, manifest, leftover, touched>>

\* Abort: its check of the staging directory fails, or RemoveAll does, or it is gone.
Abort ==
  /\ pc = "abort"
  /\ pc' = "failed"
  /\ \/ UNCHANGED place
     \/ place = "staging" /\ place' = "nowhere"
  /\ UNCHANGED <<files, synced, entries, renamed, scan, manifest, leftover, touched>>

-----------------------------------------------------------------------------
(* Verify *)

VerifyBegin ==
  /\ pc = "committed"
  /\ todo' = DOMAIN manifest
  /\ touched' = {}
  /\ pc' = "verify"
  /\ UNCHANGED <<disk, current, expected, digests, total, leftover>>

\* Mutant: only the size is compared.
MatchesInSize(p) == files[p] \in Contents /\ Bytes[files[p]] = Bytes[manifest[p]]

\* Regular, of the size and the digest that the manifest records; or a link that has just
\* taken its place, to a file that is.
Matches(p) == files[p] = manifest[p] \/ (files[p] = Bad /\ p \in touched)

\* hashFile syncs it again.
SyncedAgain(p) ==
  IF files[p] \in Contents THEN [synced EXCEPT ![p] = files[p]] ELSE synced

VerifyFile(p) ==
  /\ pc = "verify"
  /\ p \in todo
  /\ Matches(p)
  /\ synced' = SyncedAgain(p)
  /\ todo' = todo \ {p}
  /\ UNCHANGED <<pc, place, files, entries, renamed, manifest, current, expected, digests,
                 total, leftover, touched>>

\* The second walk: no artifact that the manifest does not list, and none missing.
VerifyEnd ==
  /\ pc = "verify"
  /\ todo = {}
  /\ Present = DOMAIN manifest
  /\ \A p \in Present : files[p] # Bad
  /\ pc' = "verified"
  /\ UNCHANGED <<disk, scan, leftover, touched>>

VerifyFails ==
  /\ pc = "verify"
  /\ pc' = "rejected"
  /\ ScanReset
  /\ UNCHANGED <<disk, leftover, touched>>

-----------------------------------------------------------------------------
(* Crashes *)

\* What a crash may leave of a file that was being written, if there was one.
Torn(p) == IF files[p] = None THEN {} ELSE {Bad}

\* What was not made durable may be there, be an older version, torn or gone.  The
\* committed parent of the Agent is itself never synced: the directory may be lost.
\* Nothing in the program looks at the store when it starts again.
Crash ==
  /\ pc # "crashed"
  /\ pc' = "crashed"
  /\ place' \in IF place = "committed"
                  THEN {"committed", "nowhere"} \cup (IF renamed THEN {} ELSE {"staging"})
                  ELSE {place, "nowhere"}
  /\ files' \in {f \in [Paths -> Contents \cup {None, Bad}] :
                   \A p \in Paths :
                     IF p \in entries /\ synced[p] = files[p]
                       THEN f[p] = files[p]
                       ELSE f[p] \in {files[p], synced[p], None} \cup Torn(p)}
  /\ ScanReset
  /\ UNCHANGED <<synced, entries, renamed, manifest, leftover, touched>>

Commit ==
  \/ CommitFails \/ List \/ (\E p \in Paths : Inspect(p)) \/ Hash \/ EndScan
  \/ WriteManifest \/ SyncTree \/ Publish \/ Settle

Verify == VerifyBegin \/ (\E p \in Paths : VerifyFile(p)) \/ VerifyEnd \/ VerifyFails

Next == Begin \/ (\E p \in Paths : Write(p)) \/ AgentExits \/ Commit \/ Abort \/ Verify \/ Crash

Spec == Init /\ [][Next]_vars

-----------------------------------------------------------------------------
(* What must hold *)

\* Every variable keeps its type; what remains of the byte limit does not go below
\* zero, which an unsigned subtraction would turn into a huge limit.
TypeOK ==
  /\ pc \in {"begin", "agent", "list", "scan", "manifest", "sync", "publish", "settle",
             "committed", "abort", "failed", "verify", "verified", "rejected", "crashed"}
  /\ place \in {"nowhere", "staging", "committed"}
  /\ files \in [Paths -> Contents \cup {None, Bad}]
  /\ synced \in [Paths -> Contents \cup {None, Bad}]
  /\ entries \in SUBSET Paths
  /\ renamed \in BOOLEAN
  /\ todo \in SUBSET Paths
  /\ current \in Paths \cup {NoPath}
  /\ expected \in Nat
  /\ DOMAIN digests \in SUBSET Paths /\ digests \in [DOMAIN digests -> Contents]
  /\ DOMAIN manifest \in SUBSET Paths /\ manifest \in [DOMAIN manifest -> Contents]
  /\ total \in Nat /\ total <= MaxBytes
  /\ leftover \in BOOLEAN
  /\ touched \in SUBSET Paths

\* Whoever looks into the committed directory, even after a crash, finds exactly
\* what the manifest lists, never a half: unless a process left behind has written.
PublishedIsWhole ==
  place = "committed" /\ ~leftover =>
    /\ Present = DOMAIN manifest
    /\ \A p \in DOMAIN manifest : files[p] = manifest[p]

\* What was verified is what the manifest lists, whatever was written to it between
\* the scan and the verification; only a write since then escapes it.
VerifiedIsWhole ==
  pc = "verified" =>
    \A p \in Paths \ touched :
      IF p \in DOMAIN manifest THEN files[p] = manifest[p] ELSE files[p] = None

\* The bytes of the artifacts that a record lists.
RecordedBytes(record) == SumFunction([p \in DOMAIN record |-> Bytes[record[p]]])

\* The manifest of a published output is within the limits: what it records of each
\* artifact was counted, though an artifact may grow between its inspection and its hash.
LimitsAreKept ==
  place = "committed" =>
    /\ Cardinality(DOMAIN manifest) <= MaxFiles
    /\ RecordedBytes(manifest) <= MaxBytes
    /\ DOMAIN manifest # {} \/ AllowEmpty

\* README.md: an execution that failed publishes no committed result.
FailurePublishesNothing == pc = "failed" => place # "committed"
===============================================================================
