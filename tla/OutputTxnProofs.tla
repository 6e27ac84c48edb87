----------------------------- MODULE OutputTxnProofs -----------------------------
(* The safety of OutputTxn for any paths, contents, sizes and limits. *)
EXTENDS OutputTxn, Inductions, TLAPS

PCs == {"begin", "agent", "list", "scan", "manifest", "sync", "publish", "settle",
        "committed", "abort", "failed", "verify", "verified", "rejected", "crashed"}

\* Before the rename nothing is committed.
PlaceSound ==
  pc \in {"begin", "agent", "list", "scan", "manifest", "sync", "publish"} => place # "committed"

\* What is being hashed fits what remains of the byte limit, and without a process left
\* behind it still is the artifact that was inspected.
BudgetSound ==
  current # NoPath =>
    /\ pc = "scan" /\ current \in todo /\ expected <= MaxBytes - total
    /\ ~leftover => files[current] \in Contents

\* Nothing is recorded before the scan, and nothing synced before the Agent has exited.
FreshSound ==
  /\ pc \in {"begin", "agent", "list"} => DOMAIN digests = {}
  /\ pc \in {"begin", "agent"} => \A p \in Paths : synced[p] = None

\* What a function records is what is in the directory, durably.
Saved(record) == \A p \in DOMAIN record : record[p] = files[p] /\ synced[p] = files[p]

\* Without a process left behind, what has been recorded stays what is there.
RecordSound ==
  ~leftover =>
    /\ pc # "crashed" => \A p \in Paths : synced[p] \in {None, files[p]}
    /\ pc = "scan" => DOMAIN digests \cup todo = Present /\ Saved(digests)
    /\ pc = "manifest" => DOMAIN digests = Present /\ Saved(digests)
    /\ pc \in {"sync", "publish"} => DOMAIN manifest = Present /\ Saved(manifest)
    /\ pc = "publish" => entries = Present
    /\ pc # "crashed" /\ place = "committed" =>
         DOMAIN manifest = Present /\ Saved(manifest) /\ entries = Present

\* What Verify has passed and nobody has touched since is what the manifest lists.
VerifySound ==
  pc = "verify" => \A p \in DOMAIN manifest \ (todo \cup touched) : files[p] = manifest[p]

Inv ==
  /\ TypeOK
  /\ PlaceSound
  /\ BudgetSound
  /\ FreshSound
  /\ RecordSound
  /\ PublishedIsWhole
  /\ VerifySound
  /\ VerifiedIsWhole

LEMMA InitInv == Init => Inv
<1> SUFFICES ASSUME Init PROVE Inv
  OBVIOUS
<1> USE LimitsArePositive, PathsAreFinite DEF Init, NoFiles, Restarted
<1>1. TypeOK
  <2>1. DOMAIN digests = {} /\ DOMAIN manifest = {}
    OBVIOUS
  <2>2. digests \in [{} -> Contents] /\ manifest \in [{} -> Contents]
    OBVIOUS
  <2>3. 0 \in Nat /\ 0 <= MaxBytes
    OBVIOUS
  <2> QED
    BY <2>1, <2>2, <2>3 DEF TypeOK
<1>2. PlaceSound /\ BudgetSound /\ FreshSound
  BY DEF PlaceSound, BudgetSound, FreshSound
<1>3. RecordSound /\ PublishedIsWhole /\ VerifySound /\ VerifiedIsWhole
  BY DEF RecordSound, PublishedIsWhole, VerifySound, VerifiedIsWhole
<1> QED
  BY <1>1, <1>2, <1>3 DEF Inv

-----------------------------------------------------------------------------
(* Types *)

LEMMA TypesPreserved ==
  ASSUME Inv, [Next]_vars
  PROVE  TypeOK'
<1> USE LimitsArePositive, ContentsHaveSizes DEF Inv, TypeOK, disk, scan, ScanReset, NoFiles
<1>1. CASE Begin
  BY <1>1 DEF Begin
<1>2. ASSUME NEW p \in Paths, Write(p)  PROVE TypeOK'
  BY <1>2 DEF Write
<1>3. CASE AgentExits
  BY <1>3 DEF AgentExits, AfterFailure
<1>4. CASE CommitFails
  BY <1>4 DEF CommitFails, AfterFailure
<1>5. CASE List
  BY <1>5 DEF List, Present
<1>6. ASSUME NEW p \in Paths, Inspect(p)  PROVE TypeOK'
  <2>1. Bytes[files[p]] \in Nat
    BY <1>6 DEF Inspect
  <2> QED
    BY <1>6, <2>1 DEF Inspect
<1>7. CASE Hash
  <2>1. current \in Paths /\ expected <= MaxBytes - total
    BY <1>7 DEF Hash, BudgetSound
  <2>2. total' \in Nat /\ total' <= MaxBytes
    BY <1>7, <2>1 DEF Hash
  <2>3. DOMAIN digests' \in SUBSET Paths /\ digests' \in [DOMAIN digests' -> Contents]
    <3>1. Readable(current) \subseteq Contents
      BY <2>1 DEF Readable
    <3>2. PICK c \in Contents : digests' = [p \in DOMAIN digests \cup {current} |->
                                              IF p = current THEN c ELSE digests[p]]
      BY <1>7, <3>1 DEF Hash
    <3> QED
      BY <2>1, <3>2
  <2>4. synced' \in [Paths -> Contents \cup {None, Bad}]
    BY <1>7, <2>1 DEF Hash, SyncedAfterHash
  <2> QED
    BY <1>7, <2>2, <2>3, <2>4 DEF Hash
<1>8. CASE EndScan \/ Publish \/ Settle \/ Abort
  BY <1>8 DEF EndScan, Publish, Settle, Abort
<1>9. CASE WriteManifest
  BY <1>9 DEF WriteManifest
<1>10. CASE SyncTree
  BY <1>10 DEF SyncTree, DurableEntries, Present
<1>11. CASE VerifyBegin
  BY <1>11 DEF VerifyBegin
<1>12. ASSUME NEW p \in Paths, VerifyFile(p)  PROVE TypeOK'
  BY <1>12 DEF VerifyFile, SyncedAgain
<1>13. CASE VerifyEnd
  BY <1>13 DEF VerifyEnd
<1>14. CASE Crash \/ VerifyFails
  <2>1. 0 \in Nat /\ 0 <= MaxBytes /\ \A S : [p \in {} |-> None] \in [{} -> S]
    OBVIOUS
  <2>2. CASE VerifyFails
    BY <2>1, <2>2 DEF VerifyFails
  <2>3. CASE Crash
    BY <2>1, <2>3 DEF Crash
  <2> QED
    BY <1>14, <2>2, <2>3
<1>15. CASE UNCHANGED vars
  BY <1>15 DEF vars
<1> QED
  BY <1>1, <1>2, <1>3, <1>4, <1>5, <1>6, <1>7, <1>8, <1>9, <1>10, <1>11, <1>12, <1>13, <1>14, <1>15
  DEF Next, Commit, Verify

\* The parts that only follow the control flow.
LEMMA FlowPreserved ==
  ASSUME Inv, [Next]_vars
  PROVE  PlaceSound' /\ BudgetSound' /\ FreshSound'
<1> USE DEF Inv, TypeOK, PlaceSound, BudgetSound, FreshSound, disk, scan, ScanReset, NoFiles
<1>1. CASE Begin
  BY <1>1 DEF Begin
<1>2. ASSUME NEW p \in Paths, Write(p)  PROVE PlaceSound' /\ BudgetSound' /\ FreshSound'
  BY <1>2 DEF Write
<1>3. CASE AgentExits \/ CommitFails
  BY <1>3 DEF AgentExits, CommitFails, AfterFailure
<1>4. CASE List
  BY <1>4 DEF List
<1>5. ASSUME NEW p \in Paths, Inspect(p)  PROVE PlaceSound' /\ BudgetSound' /\ FreshSound'
  BY <1>5 DEF Inspect, WithinBytes
<1>6. CASE Hash
  BY <1>6 DEF Hash
<1>7. CASE EndScan \/ WriteManifest \/ SyncTree \/ Publish \/ Settle \/ Abort
  BY <1>7 DEF EndScan, WriteManifest, SyncTree, Publish, Settle, Abort
<1>8. CASE VerifyBegin \/ VerifyEnd \/ VerifyFails \/ Crash
  BY <1>8 DEF VerifyBegin, VerifyEnd, VerifyFails, Crash
<1>9. ASSUME NEW p \in Paths, VerifyFile(p)  PROVE PlaceSound' /\ BudgetSound' /\ FreshSound'
  BY <1>9 DEF VerifyFile
<1>10. CASE UNCHANGED vars
  BY <1>10 DEF vars
<1> QED
  BY <1>1, <1>2, <1>3, <1>4, <1>5, <1>6, <1>7, <1>8, <1>9, <1>10 DEF Next, Commit, Verify

-----------------------------------------------------------------------------
(* What is recorded *)

LEMMA RecordPreserved ==
  ASSUME Inv, [Next]_vars
  PROVE  RecordSound'
<1> USE DEF Inv, TypeOK, RecordSound, Saved, Present, disk, scan, ScanReset
<1>1. CASE Begin
  BY <1>1 DEF Begin, PlaceSound, FreshSound
<1>2. ASSUME NEW p \in Paths, Write(p)  PROVE RecordSound'
  <2>1. CASE leftover
    BY <1>2, <2>1 DEF Write
  <2>2. CASE ~leftover
    <3>1. pc = "agent" /\ place # "committed"
      BY <1>2, <2>2 DEF Write, PlaceSound
    <3> QED
      BY <1>2, <3>1 DEF Write, FreshSound
  <2> QED
    BY <2>1, <2>2
<1>3. CASE AgentExits
  <2>1. place # "committed" /\ \A p \in Paths : synced[p] = None
    BY <1>3 DEF AgentExits, PlaceSound, FreshSound
  <2> QED
    BY <1>3, <2>1 DEF AgentExits, AfterFailure
<1>4. CASE CommitFails
  BY <1>4 DEF CommitFails, AfterFailure
<1>5. CASE List
  BY <1>5 DEF List, FreshSound
<1>6. ASSUME NEW p \in Paths, Inspect(p)  PROVE RecordSound'
  BY <1>6 DEF Inspect
<1>7. CASE Hash
  <2>1. /\ current \in Paths /\ current \in todo /\ pc = "scan" /\ place # "committed"
        /\ ~leftover => files[current] \in Contents
    BY <1>7 DEF Hash, BudgetSound, PlaceSound
  <2>2. SUFFICES ASSUME ~leftover
                 PROVE  /\ \A p \in Paths : synced'[p] \in {None, files[p]}
                        /\ DOMAIN digests' \cup todo' = Present
                        /\ \A p \in DOMAIN digests' : digests'[p] = files[p] /\ synced'[p] = files[p]
    BY <1>7, <2>1 DEF Hash
  <2>3. \A p \in Paths : synced'[p] = IF p = current THEN files[p] ELSE synced[p]
    BY <1>7, <2>1, <2>2 DEF Hash, SyncedAfterHash
  <2>4. DOMAIN digests' = DOMAIN digests \cup {current} /\ todo' = todo \ {current}
    BY <1>7 DEF Hash
  <2>5. \A p \in DOMAIN digests' : digests'[p] = IF p = current THEN files[p] ELSE digests[p]
    BY <1>7, <2>1, <2>2, NotContents DEF Hash, Readable
  <2>6. DOMAIN digests' \cup todo' = Present
    BY <2>1, <2>2, <2>4
  <2> QED
    BY <2>1, <2>2, <2>3, <2>4, <2>5, <2>6
<1>8. CASE EndScan
  BY <1>8 DEF EndScan
<1>9. CASE WriteManifest
  BY <1>9 DEF WriteManifest, PlaceSound
<1>10. CASE SyncTree
  BY <1>10 DEF SyncTree, DurableEntries, PlaceSound
<1>11. CASE Publish
  BY <1>11 DEF Publish
<1>12. CASE Settle \/ Abort
  BY <1>12 DEF Settle, Abort
<1>13. CASE VerifyBegin \/ VerifyEnd \/ VerifyFails
  BY <1>13 DEF VerifyBegin, VerifyEnd, VerifyFails
<1>14. ASSUME NEW p \in Paths, VerifyFile(p)  PROVE RecordSound'
  <2>1. \A q \in Paths : synced'[q] \in {synced[q], files[q]}
    BY <1>14 DEF VerifyFile, SyncedAgain
  <2> QED
    BY <1>14, <2>1 DEF VerifyFile
<1>15. CASE Crash
  BY <1>15 DEF Crash
<1>16. CASE UNCHANGED vars
  BY <1>16 DEF vars
<1> QED
  BY <1>1, <1>2, <1>3, <1>4, <1>5, <1>6, <1>7, <1>8, <1>9, <1>10, <1>11, <1>12, <1>13, <1>14, <1>15,
     <1>16
  DEF Next, Commit, Verify

\* While the machine is up PublishedIsWhole is part of RecordSound; what a crash leaves is
\* what was durable.
LEMMA PublishedPreserved ==
  ASSUME Inv, [Next]_vars
  PROVE  PublishedIsWhole'
<1>1. ASSUME pc' # "crashed"  PROVE PublishedIsWhole'
  BY <1>1, RecordPreserved DEF RecordSound, Saved, PublishedIsWhole
<1>2. CASE Crash
  <2> SUFFICES ASSUME place' = "committed", ~leftover'
               PROVE  Present' = DOMAIN manifest /\ \A p \in DOMAIN manifest : files'[p] = manifest[p]
    BY <1>2 DEF Crash, PublishedIsWhole, disk
  <2>1. place = "committed" /\ ~leftover /\ pc # "crashed"
    BY <1>2 DEF Crash, Inv, TypeOK
  <2>2. DOMAIN manifest = Present /\ Saved(manifest) /\ entries = Present
    BY <2>1 DEF Inv, RecordSound
  <2>3. \A p \in Paths : synced[p] \in {None, files[p]}
    BY <2>1 DEF Inv, RecordSound
  <2>4. \A p \in Present : files'[p] = files[p]
    BY <1>2, <2>2 DEF Crash, Saved, Present
  <2>5. \A p \in Paths \ Present : files'[p] = None
    BY <1>2, <2>3 DEF Crash, Present, Torn
  <2>6. Present' = Present
    BY <2>4, <2>5 DEF Present
  <2> QED
    BY <2>2, <2>4, <2>6 DEF Saved
<1>3. ASSUME pc' = "crashed", ~Crash  PROVE PublishedIsWhole'
  <2>1. \/ UNCHANGED vars
        \/ \E p \in Paths : Write(p)
    BY <1>3 DEF Next, Begin, AgentExits, Commit, CommitFails, AfterFailure, List, Inspect, Hash,
       EndScan, WriteManifest, SyncTree, Publish, Settle, Abort, Verify, VerifyBegin, VerifyFile,
       VerifyEnd, VerifyFails
  <2>2. CASE UNCHANGED vars
    BY <2>2 DEF Inv, PublishedIsWhole, vars, Present
  <2>3. CASE \E p \in Paths : Write(p)
    BY <1>3, <2>3 DEF Write, PublishedIsWhole
  <2> QED
    BY <2>1, <2>2, <2>3
<1> QED
  BY <1>1, <1>2, <1>3

-----------------------------------------------------------------------------
(* What is verified *)

LEMMA VerifyPreserved ==
  ASSUME Inv, [Next]_vars
  PROVE  VerifySound' /\ VerifiedIsWhole'
<1> USE DEF Inv, TypeOK, VerifySound, VerifiedIsWhole, disk, scan
<1>1. CASE /\ pc' \notin {"verify", "verified"}
  BY <1>1
<1>2. ASSUME NEW p \in Paths, Write(p)  PROVE VerifySound' /\ VerifiedIsWhole'
  BY <1>2 DEF Write
<1>3. CASE VerifyBegin
  BY <1>3 DEF VerifyBegin
<1>4. ASSUME NEW p \in Paths, VerifyFile(p)  PROVE VerifySound' /\ VerifiedIsWhole'
  BY <1>4 DEF VerifyFile, Matches
<1>5. CASE VerifyEnd
  BY <1>5 DEF VerifyEnd, Present
<1>6. CASE UNCHANGED vars
  BY <1>6 DEF vars
<1>7. CASE Begin \/ AgentExits \/ Commit \/ Abort \/ VerifyFails \/ Crash
  <2>1. pc' \notin {"verify", "verified"}
    BY <1>7 DEF Begin, AgentExits, AfterFailure, Commit, CommitFails, List, Inspect, Hash, EndScan,
       WriteManifest, SyncTree, Publish, Settle, Abort, VerifyFails, Crash
  <2> QED
    BY <1>1, <2>1
<1> QED
  BY <1>2, <1>3, <1>4, <1>5, <1>6, <1>7 DEF Next, Verify

-----------------------------------------------------------------------------
(* The theorems *)

\* The invariant of a transaction, for any paths, contents, sizes and limits.
THEOREM TxnSafety == Spec => []Inv
<1>1. Inv /\ [Next]_vars => Inv'
  BY TypesPreserved, FlowPreserved, RecordPreserved, PublishedPreserved, VerifyPreserved DEF Inv
<1> QED
  BY InitInv, <1>1, PTL DEF Spec

\* Types, and what remains of the byte limit never goes below zero.
THEOREM TxnTypes == Spec => []TypeOK
<1>1. Inv => TypeOK
  BY DEF Inv
<1> QED
  BY TxnSafety, <1>1, PTL

\* A committed directory is whole, also after a crash, if no process was left behind.
THEOREM PublishedIsWholeHolds == Spec => []PublishedIsWhole
<1>1. Inv => PublishedIsWhole
  BY DEF Inv
<1> QED
  BY TxnSafety, <1>1, PTL

\* What was verified is what the manifest lists, but for writes since Verify began.
THEOREM VerifiedIsWholeHolds == Spec => []VerifiedIsWhole
<1>1. Inv => VerifiedIsWhole
  BY DEF Inv
<1> QED
  BY TxnSafety, <1>1, PTL

-----------------------------------------------------------------------------
(* The limits                                                              *)
(*                                                                         *)
(* totalBytes is the sum over the records, though each was inspected and   *)
(* hashed in two steps; what is being hashed has its place among MaxFiles. *)

WithinLimits(record) ==
  /\ Cardinality(DOMAIN record) <= MaxFiles
  /\ RecordedBytes(record) <= MaxBytes
  /\ DOMAIN record # {} \/ AllowEmpty

LimitsSound ==
  /\ total = RecordedBytes(digests)
  /\ Cardinality(DOMAIN digests) <= MaxFiles
  /\ current # NoPath => Cardinality(DOMAIN digests) + 1 <= MaxFiles
  /\ DOMAIN digests \cap todo = {}
  /\ pc \notin {"scan", "manifest"} => DOMAIN digests = {}
  /\ pc = "manifest" => Enough
  /\ pc \in {"sync", "publish"} \/ place = "committed" => WithinLimits(manifest)

\* A record of nothing has no bytes.
LEMMA NothingRecorded == \A record : DOMAIN record = {} => RecordedBytes(record) = 0
<1> SUFFICES ASSUME NEW record, DOMAIN record = {} PROVE RecordedBytes(record) = 0
  OBVIOUS
<1>1. DOMAIN [p \in DOMAIN record |-> Bytes[record[p]]] = {}
  OBVIOUS
<1> QED
  BY <1>1, SumOfNone, Zenon DEF RecordedBytes, SumFunction

\* An artifact more adds its size.
LEMMA OneMoreRecorded ==
  ASSUME NEW record, DOMAIN record \in SUBSET Paths, record \in [DOMAIN record -> Contents],
         NEW p \in Paths \ DOMAIN record, NEW c \in Contents, NEW longer,
         longer = [q \in DOMAIN record \cup {p} |-> IF q = p THEN c ELSE record[q]]
  PROVE  RecordedBytes(longer) = RecordedBytes(record) + Bytes[c]
<1> DEFINE D == DOMAIN record
           f == [q \in D |-> Bytes[record[q]]]
           g == [q \in D \cup {p} |-> Bytes[longer[q]]]
<1>1. IsFiniteSet(D) /\ DOMAIN longer = D \cup {p}
  BY PathsAreFinite, FS_Subset
<1>2. /\ \A q \in D : f[q] \in Nat /\ g[q] = f[q]
      /\ g[p] = Bytes[c] /\ Bytes[c] \in Nat
  BY ContentsHaveSizes
<1>3. RecordedBytes(record) = SumFunctionOnSet(f, D)
  BY Zenon DEF RecordedBytes, SumFunction
<1>4. RecordedBytes(longer) = SumFunctionOnSet(g, D \cup {p})
  BY <1>1, Zenon DEF RecordedBytes, SumFunction
<1> HIDE DEF f, g, D
<1>5. SumFunctionOnSet(g, D \cup {p}) = g[p] + SumFunctionOnSet(g, D)
  <2>1. p \notin D /\ \A q \in D \cup {p} : g[q] \in Int
    BY <1>2 DEF D
  <2> QED
    BY <1>1, <2>1, SumOfOneMore
<1>6. SumFunctionOnSet(g, D) = SumFunctionOnSet(f, D) /\ SumFunctionOnSet(f, D) \in Int
  BY <1>1, <1>2, SumIsDetermined, SumIsInt
<1> QED
  BY <1>2, <1>3, <1>4, <1>5, <1>6

\* Before Begin nothing is recorded.
LEMMA InitLimits == Init => LimitsSound
<1> SUFFICES ASSUME Init PROVE LimitsSound
  OBVIOUS
<1>1. DOMAIN digests = {} /\ total = 0
  BY DEF Init, NoFiles
<1>2. Cardinality(DOMAIN digests) = 0 /\ RecordedBytes(digests) = 0
  BY <1>1, FS_EmptySet, NothingRecorded
<1>3. pc = "begin" /\ place = "nowhere" /\ current = NoPath
  BY DEF Init
<1> QED
  BY <1>1, <1>2, <1>3, LimitsArePositive DEF LimitsSound

\* No step records what the limits do not allow.
LEMMA LimitsPreserved ==
  ASSUME Inv, LimitsSound, [Next]_vars
  PROVE  LimitsSound'
<1>0. /\ DOMAIN digests \in SUBSET Paths /\ digests \in [DOMAIN digests -> Contents]
      /\ total \in Nat /\ total <= MaxBytes /\ current \in Paths \cup {NoPath}
      /\ IsFiniteSet(DOMAIN digests) /\ Cardinality(DOMAIN digests) \in Nat
  BY PathsAreFinite, FS_Subset, FS_CardinalityType DEF Inv, TypeOK
<1>1. ASSUME UNCHANGED <<total, digests, current, manifest>>,
             todo' = todo \/ DOMAIN digests = {} \/ todo' \subseteq todo,
             place' = "committed" => place = "committed" \/ pc = "publish",
             pc' \in {"sync", "publish"} => pc \in {"sync", "publish"},
             pc' \notin {"scan", "manifest"} => pc \notin {"scan", "manifest"},
             pc' = "manifest" => pc = "manifest" \/ Enough
      PROVE  LimitsSound'
  BY <1>1 DEF LimitsSound, Enough
<1>2. ASSUME ScanReset, manifest' = manifest, pc' \notin {"sync", "publish", "manifest"},
             place' = "committed" => place = "committed"
      PROVE  LimitsSound'
  <2>1. DOMAIN digests' = {} /\ total' = 0 /\ current' = NoPath
    BY <1>2 DEF ScanReset, NoFiles
  <2>2. Cardinality(DOMAIN digests') = 0 /\ RecordedBytes(digests') = 0
    BY <2>1, FS_EmptySet, NothingRecorded
  <2>3. place' = "committed" => WithinLimits(manifest)'
    BY <1>2 DEF LimitsSound, WithinLimits, RecordedBytes
  <2> QED
    BY <1>2, <2>1, <2>2, <2>3, LimitsArePositive DEF LimitsSound
<1>3. CASE Begin \/ AgentExits \/ (\E p \in Paths : Write(p))
  BY <1>1, <1>3 DEF Begin, AgentExits, AfterFailure, Write, scan, disk
<1>4. CASE List \/ EndScan \/ SyncTree \/ Publish \/ Settle \/ Abort
  BY <1>1, <1>4 DEF List, EndScan, SyncTree, Publish, Settle, Abort, scan, disk, LimitsSound
<1>5. CASE VerifyBegin \/ (\E p \in Paths : VerifyFile(p)) \/ VerifyEnd
  BY <1>1, <1>5 DEF VerifyBegin, VerifyFile, VerifyEnd, scan, disk, LimitsSound
<1>6. CASE CommitFails \/ VerifyFails \/ Crash
  BY <1>2, <1>6 DEF CommitFails, VerifyFails, Crash, AfterFailure, disk, Inv, TypeOK
<1>7. ASSUME NEW p \in Paths, Inspect(p) PROVE LimitsSound'
  BY <1>0, <1>7 DEF Inspect, WithinFiles, LimitsSound, disk
<1>8. CASE Hash
  <2>1. /\ current \in Paths /\ current \in todo /\ current \notin DOMAIN digests
        /\ pc = "scan" /\ place # "committed"
    BY <1>0, <1>8 DEF Hash, LimitsSound, Inv, BudgetSound, PlaceSound
  <2>2. total' = RecordedBytes(digests)'
    <3>1. Readable(current) \subseteq Contents
      BY <2>1 DEF Readable, Inv, TypeOK
    <3>2. PICK c \in Contents :
            /\ Bytes[c] = expected
            /\ digests' = [p \in DOMAIN digests \cup {current} |->
                             IF p = current THEN c ELSE digests[p]]
      BY <1>8, <3>1 DEF Hash, SameSize
    <3>3. RecordedBytes(digests') = RecordedBytes(digests) + Bytes[c]
      BY <1>0, <2>1, <3>2, OneMoreRecorded
    <3> QED
      BY <1>8, <3>2, <3>3 DEF Hash, LimitsSound
  <2>3. DOMAIN digests' = DOMAIN digests \cup {current}
    BY <1>8 DEF Hash
  <2>4. Cardinality(DOMAIN digests') = Cardinality(DOMAIN digests) + 1
    BY <1>0, <2>1, <2>3, FS_AddElement
  <2>5. Cardinality(DOMAIN digests') <= MaxFiles
    BY <1>8, <2>4 DEF Hash, LimitsSound
  <2>6. DOMAIN digests' \cap todo' = {} /\ current' = NoPath /\ pc' = pc /\ place' = place
    BY <1>8, <2>3 DEF Hash, LimitsSound
  <2> QED
    BY <2>1, <2>2, <2>5, <2>6 DEF LimitsSound
<1>9. CASE WriteManifest
  <2>1. manifest' = digests /\ place # "committed" /\ place' = place /\ pc' = "sync"
    BY <1>9 DEF WriteManifest, Inv, PlaceSound
  <2>2. WithinLimits(digests)
    BY <1>0, <1>9 DEF WriteManifest, LimitsSound, WithinLimits, Enough
  <2>3. DOMAIN digests' = {} /\ total' = 0 /\ current' = NoPath
    BY <1>9 DEF WriteManifest, ScanReset, NoFiles
  <2>4. Cardinality(DOMAIN digests') = 0 /\ RecordedBytes(digests') = 0
    BY <2>3, FS_EmptySet, NothingRecorded
  <2>5. WithinLimits(manifest)'
    BY <2>1, <2>2 DEF WithinLimits, RecordedBytes
  <2> QED
    BY <2>1, <2>3, <2>4, <2>5, LimitsArePositive DEF LimitsSound
<1>10. CASE UNCHANGED vars
  BY <1>1, <1>10 DEF vars
<1> QED
  BY <1>3, <1>4, <1>5, <1>6, <1>7, <1>8, <1>9, <1>10 DEF Next, Commit, Verify

\* What is published was counted, file by file and byte by byte, against the limits,
\* though artifacts change between their inspection, their hash and the rename.
THEOREM LimitsAreKeptHolds == Spec => []LimitsAreKept
<1>1. Spec => []LimitsSound
  BY TxnSafety, InitLimits, LimitsPreserved, PTL DEF Spec
<1>2. LimitsSound => LimitsAreKept
  BY DEF LimitsSound, LimitsAreKept, WithinLimits
<1> QED
  BY <1>1, <1>2, PTL

================================================================================
