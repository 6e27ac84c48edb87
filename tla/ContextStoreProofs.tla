--------------------------- MODULE ContextStoreProofs ---------------------------
(* The safety of ContextStore for any clients, digests and names. *)
EXTENDS ContextStore, TLAPS

Critical == {"sync", "putMeta", "resolveMeta", "bindMeta", "bindRef", "syncRefs", "walk", "collect"}

\* A client is inside its critical section exactly when it holds s.mu.
LockSound == \A c \in Clients : at[c] \in Critical <=> lock = c

\* What each call has in hand.
CallSound ==
  \A c \in Clients :
    /\ at[c] = "idle" => digest[c] = NoDigest /\ name[c] = NoName
    /\ at[c] \in {"put", "sync", "putMeta", "resolve", "resolveMeta", "open", "bind", "bindMeta",
                  "bindRef", "collect"} => digest[c] \in Digests
    /\ at[c] \in {"bind", "bindMeta", "bindRef", "release", "syncRefs"} => name[c] \in Names
    /\ at[c] = "sync" => digest[c] \in shards \cup unsynced

\* What it has found, nobody removes before it gives up s.mu.
FoundSound ==
  \A c \in Clients :
    /\ at[c] \in {"sync", "putMeta", "resolveMeta", "bindMeta", "bindRef"} =>
         Blob(digest[c]) \in stored
    /\ at[c] = "bindRef" => Meta(digest[c]) \in stored

\* GC knows every reference while it removes.
CollectSound ==
  \A c \in Clients :
    /\ at[c] \in {"walk", "collect"} => live = References
    /\ at[c] = "collect" => digest[c] \notin live

\* A file that is there and may be gone after a crash is in unsynced, or its shard is
\* just being synced.
LooseSound ==
  \A f \in stored \cap loose :
    \/ f[2] \in unsynced
    \/ \E c \in Clients : at[c] = "sync" /\ f = Blob(digest[c])

\* What a name may refer to after a crash is what it refers to now, unless the
\* references are just being synced.
NamesSound ==
  \A n \in Names :
    /\ refs[n] \in refMay[n]
    /\ \/ refMay[n] \subseteq {refs[n], NoDigest} \cup unsynced
       \/ \E c \in Clients : at[c] = "syncRefs" /\ name[c] = n

\* Whatever a name may refer to after a crash is stored durably.
BoundIsDurable ==
  \A n \in Names : \A d \in refMay[n] \ ({NoDigest} \cup unsynced) :
    \A f \in FilesOf(d) : f \in stored /\ f \notin loose

StoreInv ==
  /\ StoreTypeOK
  /\ LockSound
  /\ CallSound
  /\ FoundSound
  /\ CollectSound
  /\ LooseSound
  /\ NamesSound
  /\ BoundIsDurable

-----------------------------------------------------------------------------
(* Steps *)

LEMMA FileShape ==
  /\ \A d \in Digests : /\ Blob(d) \in Files /\ Blob(d)[2] = d
                      /\ Meta(d) \in Files /\ Meta(d)[2] = d
  /\ \A d, e : Blob(d) # Meta(e)
  /\ \A d, e : Blob(d) = Blob(e) => d = e
  /\ \A d, e : Meta(d) = Meta(e) => d = e
BY DEF Blob, Meta, Files

LEMMA InitStoreInv == StoreInit => StoreInv
<1> SUFFICES ASSUME StoreInit PROVE StoreInv
  OBVIOUS
<1> USE DEF StoreInit
<1>1. StoreTypeOK
  BY DEF StoreTypeOK
<1>2. LockSound /\ CallSound /\ FoundSound /\ CollectSound
  BY StoreSentinels DEF LockSound, Critical, CallSound, FoundSound, CollectSound
<1>3. LooseSound /\ NamesSound /\ BoundIsDurable
  BY DEF LooseSound, NamesSound, BoundIsDurable
<1> QED
  BY <1>1, <1>2, <1>3 DEF StoreInv

\* A step of one client leaves the calls of the others alone.
LEMMA OthersStay ==
  ASSUME StoreInv, NEW c \in Clients, Call(c) \/ Step(c),
         NEW b \in Clients, b # c
  PROVE  at'[b] = at[b] /\ digest'[b] = digest[b] /\ name'[b] = name[b]
<1> USE DEF StoreInv, StoreTypeOK, Enter, Goto, Return
<1>1. CASE Call(c)
  BY <1>1 DEF Call, CallPut, CallResolve, CallBind, CallRelease, CallGC
<1>2. CASE Publish(c) \/ SyncShard(c) \/ Deduplicate(c) \/ Find(c) \/ OpenObject(c)
  BY <1>2 DEF Publish, SyncShard, Deduplicate, Find, OpenObject
<1>3. CASE EnsureMetadata(c) \/ EnsureMetadataFails(c)
  BY <1>3 DEF EnsureMetadata, EnsureMetadataFails, AfterMetadata
<1>4. CASE WriteReference(c) \/ RemoveReference(c) \/ SyncReferences(c)
  BY <1>4 DEF WriteReference, RemoveReference, SyncReferences
<1>5. CASE GCList(c) \/ GCRemoveBlob(c) \/ GCRemoveMetadata(c) \/ GCEnd(c) \/ Fails(c)
  BY <1>5 DEF GCList, GCRemoveBlob, GCRemoveMetadata, GCEnd, Fails
<1> QED
  BY <1>1, <1>2, <1>3, <1>4, <1>5 DEF Step

LEMMA TypesPreserved ==
  ASSUME StoreInv, [StoreNext]_storeVars
  PROVE  StoreTypeOK'
<1> USE DEF StoreInv, StoreTypeOK, Enter, Goto, Return, call, disk
<1>1. ASSUME NEW c \in Clients, Call(c)  PROVE StoreTypeOK'
  BY <1>1 DEF Call, CallPut, CallResolve, CallBind, CallRelease, CallGC
<1>2. ASSUME NEW c \in Clients, Publish(c)  PROVE StoreTypeOK'
  <2>1. digest[c] \in Digests
    BY <1>2 DEF Publish, CallSound
  <2> QED
    BY <1>2, <2>1, FileShape DEF Publish, UnsyncedWith
<1>3. ASSUME NEW c \in Clients, SyncShard(c)  PROVE StoreTypeOK'
  <2>1. digest[c] \in Digests
    BY <1>3 DEF SyncShard, CallSound
  <2>2. Settled(Blob(digest[c])) \in SUBSET Files
    BY <2>1, FileShape DEF Settled
  <2> QED
    BY <1>3, <2>2 DEF SyncShard
<1>4. ASSUME NEW c \in Clients, Deduplicate(c) \/ Find(c) \/ OpenObject(c)  PROVE StoreTypeOK'
  BY <1>4 DEF Deduplicate, Find, OpenObject
<1>5. ASSUME NEW c \in Clients, EnsureMetadata(c) \/ EnsureMetadataFails(c)  PROVE StoreTypeOK'
  <2>1. digest[c] \in Digests
    BY <1>5 DEF EnsureMetadata, EnsureMetadataFails, CallSound
  <2>2. Settled(Meta(digest[c])) \in SUBSET Files /\ UnsyncedWith(digest[c]) \in SUBSET Digests
        /\ Meta(digest[c]) \in Files
    BY <2>1, FileShape DEF Settled, UnsyncedWith
  <2>3. CASE EnsureMetadata(c)
    <3>1. stored' \in SUBSET Files /\ loose' \in SUBSET Files /\ unsynced' \in SUBSET Digests
      BY <2>2, <2>3 DEF EnsureMetadata
    <3> QED
      BY <2>3, <3>1 DEF EnsureMetadata, AfterMetadata
  <2>4. CASE EnsureMetadataFails(c)
    BY <2>1, <2>2, <2>4 DEF EnsureMetadataFails
  <2> QED
    BY <1>5, <2>3, <2>4
<1>6. ASSUME NEW c \in Clients, WriteReference(c)  PROVE StoreTypeOK'
  <2>1. digest[c] \in Digests /\ name[c] \in Names
    BY <1>6 DEF WriteReference, CallSound
  <2> QED
    BY <1>6, <2>1 DEF WriteReference
<1>7. ASSUME NEW c \in Clients, RemoveReference(c)  PROVE StoreTypeOK'
  <2>1. name[c] \in Names
    BY <1>7 DEF RemoveReference, CallSound
  <2> QED
    BY <1>7, <2>1 DEF RemoveReference
<1>8. ASSUME NEW c \in Clients, SyncReferences(c)  PROVE StoreTypeOK'
  BY <1>8 DEF SyncReferences
<1>9. ASSUME NEW c \in Clients, GCList(c) \/ GCEnd(c)  PROVE StoreTypeOK'
  BY <1>9 DEF GCList, GCEnd, References
<1>10. ASSUME NEW c \in Clients, GCRemoveBlob(c)  PROVE StoreTypeOK'
  BY <1>10, FileShape DEF GCRemoveBlob, Garbage
<1>11. ASSUME NEW c \in Clients, GCRemoveMetadata(c)  PROVE StoreTypeOK'
  BY <1>11 DEF GCRemoveMetadata
<1>12. ASSUME NEW c \in Clients, Fails(c)  PROVE StoreTypeOK'
  <2>1. CutShort(c) \subseteq Digests
    BY DEF CutShort, CallSound
  <2> QED
    BY <1>12, <2>1 DEF Fails
<1>13. ASSUME Kill  PROVE StoreTypeOK'
  <2>1. \A c \in Clients : CutShort(c) \subseteq Digests
    BY DEF CutShort, CallSound
  <2> QED
    BY <1>13, <2>1 DEF Kill, Stopped
<1>14. ASSUME Crash  PROVE StoreTypeOK'
  <2>1. stored' \in SUBSET Files /\ shards' \in SUBSET Digests
    BY <1>14 DEF Crash
  <2>2. refs' \in [Names -> Digests \cup {NoDigest}]
    BY <1>14 DEF Crash
  <2>3. refMay' \in [Names -> SUBSET (Digests \cup {NoDigest})]
    BY <1>14, <2>2 DEF Crash
  <2> QED
    BY <1>14, <2>1, <2>2, <2>3 DEF Crash, Stopped
<1>15. CASE UNCHANGED storeVars
  BY <1>15 DEF storeVars
<1> QED
  BY <1>1, <1>2, <1>3, <1>4, <1>5, <1>6, <1>7, <1>8, <1>9, <1>10, <1>11, <1>12, <1>13, <1>14, <1>15
  DEF StoreNext, Step

LEMMA LockPreserved ==
  ASSUME StoreInv, [StoreNext]_storeVars
  PROVE  LockSound'
<1> USE StoreSentinels DEF StoreInv, StoreTypeOK, LockSound, Critical, Enter, Goto, Return
<1>1. ASSUME NEW c \in Clients, Call(c)  PROVE LockSound'
  BY <1>1 DEF Call, CallPut, CallResolve, CallBind, CallRelease, CallGC
<1>2. ASSUME NEW c \in Clients, Publish(c) \/ Deduplicate(c) \/ Find(c)  PROVE LockSound'
  BY <1>2 DEF Publish, Deduplicate, Find
<1>3. ASSUME NEW c \in Clients, SyncShard(c) \/ OpenObject(c)  PROVE LockSound'
  BY <1>3 DEF SyncShard, OpenObject
<1>4. ASSUME NEW c \in Clients, EnsureMetadata(c)  PROVE LockSound'
  <2>1. lock = c
    BY <1>4 DEF EnsureMetadata
  <2>2. \/ at' = [at EXCEPT ![c] = "idle"] /\ lock' = Free
        \/ at' = [at EXCEPT ![c] = "open"] /\ lock' = Free
        \/ at' = [at EXCEPT ![c] = "bindRef"] /\ lock' = lock
    BY <1>4 DEF EnsureMetadata, AfterMetadata
  <2> QED
    BY <2>1, <2>2
<1>5. ASSUME NEW c \in Clients, EnsureMetadataFails(c)  PROVE LockSound'
  BY <1>5 DEF EnsureMetadataFails
<1>6. ASSUME NEW c \in Clients, WriteReference(c) \/ RemoveReference(c) \/ SyncReferences(c)
      PROVE LockSound'
  BY <1>6 DEF WriteReference, RemoveReference, SyncReferences
<1>7. ASSUME NEW c \in Clients,
             GCList(c) \/ GCRemoveBlob(c) \/ GCRemoveMetadata(c) \/ GCEnd(c)
      PROVE LockSound'
  BY <1>7 DEF GCList, GCRemoveBlob, GCRemoveMetadata, GCEnd
<1>8. ASSUME NEW c \in Clients, Fails(c)  PROVE LockSound'
  BY <1>8 DEF Fails
<1>9. CASE Kill \/ Crash
  BY <1>9 DEF Kill, Crash, Stopped
<1>10. CASE UNCHANGED storeVars
  BY <1>10 DEF storeVars
<1> QED
  BY <1>1, <1>2, <1>3, <1>4, <1>5, <1>6, <1>7, <1>8, <1>9, <1>10 DEF StoreNext, Step

\* unsynced and shards only grow.
LEMMA HistoryGrows ==
  ASSUME StoreInv, [StoreNext]_storeVars
  PROVE  unsynced \subseteq unsynced' /\ shards \subseteq shards'
<1> USE DEF disk
<1>1. ASSUME NEW c \in Clients, Call(c)  PROVE unsynced \subseteq unsynced' /\ shards \subseteq shards'
  BY <1>1 DEF Call
<1>2. ASSUME NEW c \in Clients, Step(c)  PROVE unsynced \subseteq unsynced' /\ shards \subseteq shards'
  BY <1>2 DEF Step, Publish, SyncShard, Deduplicate, Find, EnsureMetadata, EnsureMetadataFails,
              OpenObject, WriteReference, RemoveReference, SyncReferences, GCList, GCRemoveBlob,
              GCRemoveMetadata, GCEnd, Fails, UnsyncedWith
<1>3. CASE Kill \/ Crash
  BY <1>3 DEF Kill, Crash
<1>4. CASE UNCHANGED storeVars
  BY <1>4 DEF storeVars
<1> QED
  BY <1>1, <1>2, <1>3, <1>4 DEF StoreNext

LEMMA CallsPreserved ==
  ASSUME StoreInv, [StoreNext]_storeVars
  PROVE  CallSound'
<1> USE DEF StoreInv, StoreTypeOK, CallSound, Enter, Goto, Return
<1>1. ASSUME NEW c \in Clients, Call(c) \/ Step(c)  PROVE CallSound'
  <2>1. \A b \in Clients : b # c => at'[b] = at[b] /\ digest'[b] = digest[b] /\ name'[b] = name[b]
    BY <1>1, OthersStay
  <2>2. unsynced \subseteq unsynced' /\ shards \subseteq shards'
    BY <1>1, HistoryGrows DEF StoreNext
  <2>3. /\ at'[c] = "idle" => digest'[c] = NoDigest /\ name'[c] = NoName
        /\ at'[c] \in {"put", "sync", "putMeta", "resolve", "resolveMeta", "open", "bind", "bindMeta",
                        "bindRef", "collect"} => digest'[c] \in Digests
        /\ at'[c] \in {"bind", "bindMeta", "bindRef", "release", "syncRefs"} => name'[c] \in Names
        /\ at'[c] = "sync" => digest'[c] \in shards' \cup unsynced'
    <3>1. CASE Call(c)
      BY <3>1 DEF Call, CallPut, CallResolve, CallBind, CallRelease, CallGC
    <3>2. CASE Publish(c) \/ Deduplicate(c)
      BY <3>2 DEF Publish, Deduplicate, UnsyncedWith
    <3>3. CASE SyncShard(c) \/ Find(c) \/ OpenObject(c)
      BY <3>3 DEF SyncShard, Find, OpenObject
    <3>4. CASE EnsureMetadata(c)
      BY <3>4 DEF EnsureMetadata, AfterMetadata
    <3>5. CASE EnsureMetadataFails(c) \/ Fails(c)
      BY <3>5 DEF EnsureMetadataFails, Fails
    <3>6. CASE WriteReference(c) \/ RemoveReference(c) \/ SyncReferences(c)
      <4>1. CASE WriteReference(c)
        BY <4>1 DEF WriteReference
      <4>2. CASE RemoveReference(c)
        BY <4>2 DEF RemoveReference
      <4>3. CASE SyncReferences(c)
        BY <4>3 DEF SyncReferences
      <4> QED
        BY <3>6, <4>1, <4>2, <4>3
    <3>7. CASE GCList(c) \/ GCRemoveBlob(c) \/ GCRemoveMetadata(c) \/ GCEnd(c)
      BY <3>7 DEF GCList, GCRemoveBlob, Garbage, GCRemoveMetadata, GCEnd
    <3> QED
      BY <1>1, <3>1, <3>2, <3>3, <3>4, <3>5, <3>6, <3>7 DEF Step
  <2> QED
    BY <2>1, <2>2, <2>3
<1>2. CASE Kill \/ Crash
  BY <1>2 DEF Kill, Crash, Stopped
<1>3. CASE UNCHANGED storeVars
  BY <1>3 DEF storeVars
<1> QED
  BY <1>1, <1>2, <1>3 DEF StoreNext

\* Only GC removes files, and then no other client is inside.
LEMMA FoundPreserved ==
  ASSUME StoreInv, [StoreNext]_storeVars
  PROVE  FoundSound'
<1> USE DEF StoreInv, StoreTypeOK, FoundSound, Enter, Goto, Return
<1>1. ASSUME NEW c \in Clients, Call(c) \/ Step(c)  PROVE FoundSound'
  <2>1. \A b \in Clients : b # c => at'[b] = at[b] /\ digest'[b] = digest[b] /\ name'[b] = name[b]
    BY <1>1, OthersStay
  <2>2. CASE GCRemoveBlob(c) \/ GCRemoveMetadata(c)
    <3>1. at[c] \in {"walk", "collect"} /\ at'[c] \in {"walk", "collect"}
      BY <2>2 DEF GCRemoveBlob, GCRemoveMetadata
    <3>2. lock = c
      BY <3>1 DEF LockSound, Critical
    <3>3. \A b \in Clients : b # c => at[b] \notin Critical
      BY <3>2 DEF LockSound
    <3> QED
      BY <2>1, <3>1, <3>3 DEF Critical
  <2>3. CASE ~(GCRemoveBlob(c) \/ GCRemoveMetadata(c))
    <3>1. stored \subseteq stored'
      BY <1>1, <2>3 DEF Call, Step, Publish, SyncShard, Deduplicate, Find, EnsureMetadata,
         EnsureMetadataFails, OpenObject, WriteReference, RemoveReference, SyncReferences, GCList,
         GCEnd, Fails, disk
    <3>2. /\ at'[c] \in {"sync", "putMeta", "resolveMeta", "bindMeta", "bindRef"} =>
               Blob(digest'[c]) \in stored'
          /\ at'[c] = "bindRef" => Meta(digest'[c]) \in stored'
      <4>1. CASE Call(c)
        BY <4>1 DEF Call, CallPut, CallResolve, CallBind, CallRelease, CallGC
      <4>2. CASE Publish(c) \/ Deduplicate(c) \/ Find(c)
        BY <4>2 DEF Publish, Deduplicate, Find, disk
      <4>3. CASE SyncShard(c) \/ OpenObject(c) \/ EnsureMetadataFails(c) \/ Fails(c)
        BY <4>3 DEF SyncShard, OpenObject, EnsureMetadataFails, Fails
      <4>4. CASE EnsureMetadata(c)
        BY <3>1, <4>4 DEF EnsureMetadata, AfterMetadata
      <4>5. CASE WriteReference(c) \/ RemoveReference(c) \/ SyncReferences(c) \/ GCList(c) \/ GCEnd(c)
        BY <4>5 DEF WriteReference, RemoveReference, SyncReferences, GCList, GCEnd
      <4> QED
        BY <1>1, <2>3, <4>1, <4>2, <4>3, <4>4, <4>5 DEF Step
    <3> QED
      BY <2>1, <3>1, <3>2
  <2> QED
    BY <2>2, <2>3
<1>2. CASE Kill \/ Crash
  BY <1>2 DEF Kill, Crash, Stopped
<1>3. CASE UNCHANGED storeVars
  BY <1>3 DEF storeVars
<1> QED
  BY <1>1, <1>2, <1>3 DEF StoreNext

LEMMA CollectPreserved ==
  ASSUME StoreInv, [StoreNext]_storeVars
  PROVE  CollectSound'
<1> USE DEF StoreInv, StoreTypeOK, CollectSound, Enter, Goto, Return
<1>1. ASSUME NEW c \in Clients, Call(c) \/ Step(c)  PROVE CollectSound'
  <2>1. \A b \in Clients : b # c => at'[b] = at[b] /\ digest'[b] = digest[b] /\ name'[b] = name[b]
    BY <1>1, OthersStay
  <2>2. CASE ~GCList(c) /\ refs' = refs /\ live' = live
    <3>1. References' = References
      BY <2>2 DEF References
    <3>2. at'[c] \in {"walk", "collect"} => at[c] \in {"walk", "collect"}
      BY ZenonT(30), <1>1, <2>2, StoreSentinels
      DEF Call, CallPut, CallResolve, CallBind, CallRelease, CallGC, Step,
         Publish, SyncShard, Deduplicate, Find, EnsureMetadata, EnsureMetadataFails,
         AfterMetadata, OpenObject, WriteReference, RemoveReference, SyncReferences,
         GCRemoveBlob, GCRemoveMetadata, GCEnd, Fails, LockSound, Critical
    <3>3. at'[c] = "collect" => digest'[c] \notin live
      BY ZenonT(30), <1>1, <2>2 DEF Call, CallPut, CallResolve, CallBind, CallRelease, CallGC,
         Step, Publish, SyncShard, Deduplicate, Find, EnsureMetadata, EnsureMetadataFails,
         AfterMetadata, OpenObject, WriteReference, RemoveReference, SyncReferences,
         GCRemoveBlob, Garbage, GCRemoveMetadata, GCEnd, Fails
    <3> QED
      BY <2>1, <2>2, <3>1, <3>2, <3>3
  <2>3. CASE GCList(c)
    <3>1. live' = References /\ refs' = refs /\ at'[c] = "walk"
      BY <2>3 DEF GCList, disk
    <3>2. \A b \in Clients : b # c => at[b] \notin Critical
      BY <2>3, StoreSentinels DEF GCList, LockSound
    <3>3. References' = References
      BY <3>1 DEF References
    <3> QED
      BY <2>1, <3>1, <3>2, <3>3 DEF Critical
  <2>4. CASE ~GCList(c) /\ ~(refs' = refs /\ live' = live)
    <3>1. at'[c] \notin {"walk", "collect"}
      BY <1>1, <2>4 DEF Call, Step, Publish, SyncShard, Deduplicate, Find, EnsureMetadata,
         EnsureMetadataFails, AfterMetadata, OpenObject, WriteReference, RemoveReference,
         SyncReferences, GCRemoveBlob, GCRemoveMetadata, GCEnd, Fails, disk
    <3>2. at[c] \in Critical \/ lock = Free
      BY <1>1, <2>4 DEF Call, Step, Publish, SyncShard, Deduplicate, Find, EnsureMetadata,
         EnsureMetadataFails, OpenObject, WriteReference, RemoveReference,
         SyncReferences, GCRemoveBlob, GCRemoveMetadata, GCEnd, Fails, disk, Critical, LockSound
    <3>3. \A b \in Clients : b # c => at[b] \notin Critical
      BY <3>2, StoreSentinels DEF LockSound
    <3> QED
      BY <2>1, <3>1, <3>3 DEF Critical
  <2> QED
    BY <2>2, <2>3, <2>4
<1>2. CASE Kill \/ Crash
  BY <1>2 DEF Kill, Crash, Stopped
<1>3. CASE UNCHANGED storeVars
  BY <1>3 DEF storeVars, References
<1> QED
  BY <1>1, <1>2, <1>3 DEF StoreNext

LEMMA LoosePreserved ==
  ASSUME StoreInv, [StoreNext]_storeVars
  PROVE  LooseSound'
<1> USE FileShape DEF StoreInv, StoreTypeOK, LooseSound, Goto
<1>1. ASSUME NEW c \in Clients, Call(c) \/ Step(c)  PROVE LooseSound'
  <2>1. \A b \in Clients : b # c => at'[b] = at[b] /\ digest'[b] = digest[b]
    BY <1>1, OthersStay
  <2>2. unsynced \subseteq unsynced'
    BY <1>1, HistoryGrows DEF StoreNext
  <2>3. SUFFICES ASSUME NEW f \in stored' \cap loose'
                 PROVE  f[2] \in unsynced' \/ \E b \in Clients : at'[b] = "sync" /\ f = Blob(digest'[b])
    OBVIOUS
  <2>4. ASSUME f \in stored \cap loose, at[c] = "sync" => f # Blob(digest[c])
        PROVE  f[2] \in unsynced' \/ \E b \in Clients : at'[b] = "sync" /\ f = Blob(digest'[b])
    BY <2>1, <2>2, <2>4
  <2>5. CASE Publish(c)
    <3>1. at[c] # "sync" /\ at'[c] = "sync" /\ digest'[c] = digest[c]
      BY <2>5 DEF Publish
    <3>2. f = Blob(digest[c]) \/ f \in stored \cap loose
      BY <2>5, <2>3 DEF Publish
    <3> QED
      BY <2>4, <3>1, <3>2
  <2>6. CASE SyncShard(c)
    <3>1. digest[c] \in Digests /\ digest[c] \in shards \cup unsynced /\ unsynced' = unsynced
      BY <2>6 DEF SyncShard, CallSound
    <3>2. CASE f = Blob(digest[c])
      <4>1. f[2] = digest[c]
        BY <3>1, <3>2
      <4>2. digest[c] \notin shards
        BY <2>3, <2>6, <3>2, <4>1 DEF SyncShard, Settled
      <4> QED
        BY <3>1, <4>1, <4>2
    <3>3. CASE f # Blob(digest[c])
      <4>1. f \in stored \cap loose
        BY <2>3, <2>6, <3>3 DEF SyncShard, Settled
      <4> QED
        BY <2>4, <3>3, <4>1
    <3> QED
      BY <3>2, <3>3
  <2>7. CASE EnsureMetadata(c) \/ EnsureMetadataFails(c)
    <3>1. digest[c] \in Digests /\ at[c] # "sync"
      BY <2>7 DEF EnsureMetadata, EnsureMetadataFails, CallSound
    <3>2. CASE f \in stored \cap loose
      BY <2>4, <3>1, <3>2
    <3>3. CASE f \notin stored \cap loose
      <4>1. CASE EnsureMetadata(c)
        <5>1. /\ Meta(digest[c]) \notin stored
              /\ stored' = stored \cup {Meta(digest[c])}
              /\ loose' = Settled(Meta(digest[c]))
              /\ unsynced' = UnsyncedWith(digest[c])
          BY <2>3, <3>3, <4>1 DEF EnsureMetadata
        <5>2. Meta(digest[c])[2] = digest[c]
          BY <3>1
        <5>3. f = Meta(digest[c])
          BY <2>3, <3>3, <5>1, <5>2 DEF Settled
        <5>4. digest[c] \notin shards
          BY <2>3, <5>1, <5>2, <5>3 DEF Settled
        <5> QED
          BY <5>1, <5>2, <5>3, <5>4 DEF UnsyncedWith
      <4>2. CASE EnsureMetadataFails(c)
        <5>1. f = Meta(digest[c]) /\ digest[c] \in unsynced'
          BY <2>3, <3>3, <4>2 DEF EnsureMetadataFails
        <5> QED
          BY <3>1, <5>1
      <4> QED
        BY <2>7, <4>1, <4>2
    <3> QED
      BY <3>2, <3>3
  <2>8. CASE GCRemoveBlob(c) \/ GCRemoveMetadata(c)
    <3>1. f \in stored \cap loose /\ at[c] # "sync"
      BY <2>3, <2>8 DEF GCRemoveBlob, GCRemoveMetadata
    <3> QED
      BY <2>4, <3>1
  <2>9. CASE Fails(c)
    <3>1. f \in stored \cap loose
      BY <2>3, <2>9 DEF Fails
    <3>2. CASE at[c] = "sync" /\ f = Blob(digest[c])
      <4>1. digest[c] \in Digests
        BY <3>2 DEF CallSound
      <4>2. digest[c] \in unsynced'
        BY <2>9, <3>2 DEF Fails, CutShort
      <4> QED
        BY <3>2, <4>1, <4>2
    <3> QED
      BY <2>4, <3>1, <3>2
  <2>10. CASE \/ Call(c) \/ Deduplicate(c) \/ Find(c) \/ OpenObject(c) \/ WriteReference(c)
              \/ RemoveReference(c) \/ SyncReferences(c) \/ GCList(c) \/ GCEnd(c)
    <3>1. f \in stored \cap loose /\ at[c] # "sync"
      BY <2>3, <2>10 DEF Call, Deduplicate, Find, OpenObject, WriteReference, RemoveReference,
         SyncReferences, GCList, GCEnd, disk
    <3> QED
      BY <2>4, <3>1
  <2> QED
    BY <1>1, <2>5, <2>6, <2>7, <2>8, <2>9, <2>10 DEF Step
<1>2. ASSUME Kill  PROVE LooseSound'
  <2>1. SUFFICES ASSUME NEW f \in stored \cap loose  PROVE f[2] \in unsynced'
    BY <1>2 DEF Kill
  <2>2. unsynced \subseteq unsynced'
    BY <1>2 DEF Kill
  <2>3. ASSUME NEW c \in Clients, at[c] = "sync", f = Blob(digest[c])  PROVE f[2] \in unsynced'
    <3>1. digest[c] \in Digests
      BY <2>3 DEF CallSound
    <3>2. digest[c] \in CutShort(c)
      BY <2>3 DEF CutShort
    <3>3. digest[c] \in unsynced'
      BY <1>2, <3>2 DEF Kill
    <3> QED
      BY <2>3, <3>1, <3>3
  <2> QED
    BY <2>2, <2>3
<1>3. CASE Crash
  BY <1>3 DEF Crash
<1>4. CASE UNCHANGED storeVars
  BY <1>4 DEF storeVars
<1> QED
  BY <1>1, <1>2, <1>3, <1>4 DEF StoreNext

LEMMA NamesPreserved ==
  ASSUME StoreInv, [StoreNext]_storeVars
  PROVE  NamesSound'
<1> USE DEF StoreInv, StoreTypeOK, NamesSound, Goto
<1>1. ASSUME NEW c \in Clients, Call(c) \/ Step(c)  PROVE NamesSound'
  <2>1. \A b \in Clients : b # c => at'[b] = at[b] /\ name'[b] = name[b]
    BY <1>1, OthersStay
  <2>2. unsynced \subseteq unsynced'
    BY <1>1, HistoryGrows DEF StoreNext
  <2>3. CASE refs' = refs /\ refMay' = refMay /\ at[c] # "syncRefs"
    BY <2>1, <2>2, <2>3
  <2>4. CASE WriteReference(c) \/ RemoveReference(c)
    <3>1. name[c] \in Names /\ at[c] # "syncRefs"
      BY <2>4 DEF WriteReference, RemoveReference, CallSound
    <3>2. at'[c] = "syncRefs" /\ name'[c] = name[c]
      BY <2>4 DEF WriteReference, RemoveReference
    <3>3. refs'[name[c]] \in refMay'[name[c]]
      BY <2>4, <3>1 DEF WriteReference, RemoveReference
    <3>4. \A n \in Names : n # name[c] => refs'[n] = refs[n] /\ refMay'[n] = refMay[n]
      BY <2>4 DEF WriteReference, RemoveReference
    <3> QED
      BY <2>1, <2>2, <3>1, <3>2, <3>3, <3>4
  <2>5. CASE SyncReferences(c)
    BY <2>5 DEF SyncReferences
  <2>6. CASE Fails(c) /\ at[c] = "syncRefs"
    <3>1. refs' = refs /\ refMay' = refMay /\ refMay[name[c]] \subseteq {NoDigest} \cup unsynced'
      BY <2>6 DEF Fails, CutShort
    <3> QED
      BY <2>1, <2>2, <3>1
  <2> QED
    BY <1>1, <2>3, <2>4, <2>5, <2>6 DEF Call, Step, Publish, SyncShard, Deduplicate, Find,
       EnsureMetadata, EnsureMetadataFails, OpenObject, GCList, GCRemoveBlob, GCRemoveMetadata,
       GCEnd, Fails, disk
<1>2. ASSUME Kill  PROVE NamesSound'
  <2>1. refs' = refs /\ refMay' = refMay /\ unsynced \subseteq unsynced'
    BY <1>2 DEF Kill
  <2>2. ASSUME NEW c \in Clients, at[c] = "syncRefs"
        PROVE  refMay[name[c]] \subseteq {NoDigest} \cup unsynced'
    <3>1. refMay[name[c]] \ {NoDigest} \subseteq CutShort(c)
      BY <2>2 DEF CutShort
    <3> QED
      BY <1>2, <3>1 DEF Kill
  <2> QED
    BY <2>1, <2>2
<1>3. ASSUME Crash  PROVE NamesSound'
  <2>1. refMay' = [n \in Names |-> {refs'[n]}]
    BY <1>3 DEF Crash
  <2> QED
    BY <2>1
<1>4. CASE UNCHANGED storeVars
  BY <1>4 DEF storeVars
<1> QED
  BY <1>1, <1>2, <1>3, <1>4 DEF StoreNext

\* While GC removes, every name refers to what it will refer to after a crash.
LEMMA CollectorSeesAll ==
  ASSUME StoreInv, NEW c \in Clients, at[c] \in {"walk", "collect"},
         NEW n \in Names, NEW d \in refMay[n], d \notin {NoDigest} \cup unsynced
  PROVE  d = refs[n] /\ d \in live
<1>1. lock = c
  BY DEF StoreInv, LockSound, Critical
<1>2. \A b \in Clients : at[b] # "syncRefs"
  BY <1>1 DEF StoreInv, LockSound, Critical
<1>3. d = refs[n]
  BY <1>2 DEF StoreInv, NamesSound
<1> QED
  BY <1>3 DEF StoreInv, CollectSound, References

LEMMA DurablePreserved ==
  ASSUME StoreInv, [StoreNext]_storeVars
  PROVE  BoundIsDurable'
<1> USE FileShape DEF StoreInv, StoreTypeOK, BoundIsDurable, FilesOf, Goto
<1>1. unsynced \subseteq unsynced'
  BY HistoryGrows
<1>2. ASSUME NEW c \in Clients, Publish(c)  PROVE BoundIsDurable'
  <2>1. SUFFICES ASSUME NEW n \in Names, NEW d \in refMay[n], d \notin {NoDigest} \cup unsynced,
                        NEW f \in FilesOf(d)
                 PROVE  f \in stored' /\ f \notin loose'
    BY <1>1, <1>2 DEF Publish
  <2>2. f \in stored /\ f \notin loose
    BY <2>1
  <2> QED
    BY <1>2, <2>2 DEF Publish
<1>3. ASSUME NEW c \in Clients, SyncShard(c)  PROVE BoundIsDurable'
  <2>1. digest[c] \in Digests /\ digest[c] \in shards \cup unsynced
    BY <1>3 DEF SyncShard, CallSound
  <2>2. SUFFICES ASSUME NEW n \in Names, NEW d \in refMay[n], d \notin {NoDigest} \cup unsynced,
                        NEW f \in FilesOf(d)
                 PROVE  f \in stored' /\ f \notin loose'
    BY <1>1, <1>3 DEF SyncShard
  <2>3. f \in stored /\ f \notin loose /\ f[2] = d
    BY <2>2
  <2>4. f \notin Settled(Blob(digest[c]))
    BY <2>1, <2>2, <2>3 DEF Settled
  <2> QED
    BY <1>3, <2>3, <2>4 DEF SyncShard
<1>4. ASSUME NEW c \in Clients, EnsureMetadata(c) \/ EnsureMetadataFails(c)  PROVE BoundIsDurable'
  <2>1. digest[c] \in Digests
    BY <1>4 DEF EnsureMetadata, EnsureMetadataFails, CallSound
  <2>2. SUFFICES ASSUME NEW n \in Names, NEW d \in refMay[n], d \notin {NoDigest} \cup unsynced',
                        NEW f \in FilesOf(d)
                 PROVE  f \in stored' /\ f \notin loose'
    BY <1>1, <1>4 DEF EnsureMetadata, EnsureMetadataFails
  <2>3. f \in stored /\ f \notin loose
    BY <1>1, <2>2
  <2>4. stored \subseteq stored' /\ loose' \subseteq loose \cup {Meta(digest[c])}
    BY <1>4 DEF EnsureMetadata, EnsureMetadataFails, Settled
  <2>5. loose' # loose => Meta(digest[c]) \notin stored
    BY <1>4 DEF EnsureMetadata, EnsureMetadataFails
  <2> QED
    BY <2>3, <2>4, <2>5
<1>5. ASSUME NEW c \in Clients, WriteReference(c)  PROVE BoundIsDurable'
  <2>1. /\ digest[c] \in Digests /\ name[c] \in Names
        /\ Blob(digest[c]) \in stored /\ Meta(digest[c]) \in stored
    BY <1>5 DEF WriteReference, CallSound, FoundSound
  <2>2. \A b \in Clients : at[b] # "sync"
    BY <1>5 DEF WriteReference, LockSound, Critical
  <2>3. digest[c] \notin unsynced => \A f \in FilesOf(digest[c]) : f \in stored /\ f \notin loose
    BY <2>1, <2>2 DEF LooseSound
  <2>4. SUFFICES ASSUME NEW n \in Names, NEW d \in refMay'[n], d \notin {NoDigest} \cup unsynced,
                        NEW f \in FilesOf(d)
                 PROVE  f \in stored /\ f \notin loose
    BY <1>5 DEF WriteReference
  <2>5. d \in refMay[n] \/ d = digest[c]
    BY <1>5, <2>1, <2>4 DEF WriteReference
  <2> QED
    BY <2>3, <2>4, <2>5
<1>6. ASSUME NEW c \in Clients, RemoveReference(c)  PROVE BoundIsDurable'
  <2>1. name[c] \in Names
    BY <1>6 DEF RemoveReference, CallSound
  <2> QED
    BY <1>6, <2>1 DEF RemoveReference
<1>7. ASSUME NEW c \in Clients, SyncReferences(c)  PROVE BoundIsDurable'
  BY <1>7 DEF SyncReferences, NamesSound
<1>8. ASSUME NEW c \in Clients, GCRemoveBlob(c)  PROVE BoundIsDurable'
  <2>1. PICK g \in Garbage : stored' = stored \ {Blob(g)} /\ loose' = loose \cup {Blob(g)}
    BY <1>8 DEF GCRemoveBlob
  <2>2. SUFFICES ASSUME NEW n \in Names, NEW d \in refMay[n], d \notin {NoDigest} \cup unsynced,
                        NEW f \in FilesOf(d)
                 PROVE  f \in stored' /\ f \notin loose'
    BY <1>8 DEF GCRemoveBlob
  <2>3. d # g
    BY <1>8, <2>1, <2>2, CollectorSeesAll DEF GCRemoveBlob, Garbage
  <2>4. f \in stored /\ f \notin loose /\ f # Blob(g)
    BY <2>2, <2>3
  <2> QED
    BY <2>1, <2>4
<1>9. ASSUME NEW c \in Clients, GCRemoveMetadata(c)  PROVE BoundIsDurable'
  <2>1. digest[c] \notin live
    BY <1>9 DEF GCRemoveMetadata, CollectSound
  <2>2. SUFFICES ASSUME NEW n \in Names, NEW d \in refMay[n], d \notin {NoDigest} \cup unsynced,
                        NEW f \in FilesOf(d)
                 PROVE  f \in stored' /\ f \notin loose'
    BY <1>9 DEF GCRemoveMetadata
  <2>3. d # digest[c]
    BY <1>9, <2>1, <2>2, CollectorSeesAll DEF GCRemoveMetadata
  <2>4. f \in stored /\ f \notin loose /\ f # Meta(digest[c])
    BY <2>2, <2>3
  <2> QED
    BY <1>9, <2>4 DEF GCRemoveMetadata
<1>10. ASSUME NEW c \in Clients,
              \/ Call(c) \/ Deduplicate(c) \/ Find(c) \/ OpenObject(c) \/ GCList(c) \/ GCEnd(c)
              \/ Fails(c)
       PROVE BoundIsDurable'
  <2>1. stored' = stored /\ loose' = loose /\ refMay' = refMay
    BY <1>10 DEF Call, Deduplicate, Find, OpenObject, GCList, GCEnd, Fails, disk
  <2> QED
    BY <1>1, <2>1
<1>11. ASSUME Kill  PROVE BoundIsDurable'
  BY <1>1, <1>11 DEF Kill
<1>12. ASSUME Crash  PROVE BoundIsDurable'
  <2>1. SUFFICES ASSUME NEW n \in Names, NEW d \in refMay'[n], d \notin {NoDigest} \cup unsynced,
                        NEW f \in FilesOf(d)
                 PROVE  f \in stored' /\ f \notin loose'
    BY <1>12 DEF Crash
  <2>2. d \in refMay[n]
    BY <1>12, <2>1 DEF Crash
  <2>3. f \in stored /\ f \notin loose
    BY <2>1, <2>2
  <2> QED
    BY <1>12, <2>3 DEF Crash
<1>13. CASE UNCHANGED storeVars
  BY <1>13 DEF storeVars
<1> QED
  BY <1>2, <1>3, <1>4, <1>5, <1>6, <1>7, <1>8, <1>9, <1>10, <1>11, <1>12, <1>13
  DEF StoreNext, Step

-----------------------------------------------------------------------------
(* The theorems *)

LEMMA StoreInvPreserved ==
  ASSUME StoreInv, [StoreNext]_storeVars
  PROVE  StoreInv'
BY TypesPreserved, LockPreserved, CallsPreserved, FoundPreserved, CollectPreserved,
   LoosePreserved, NamesPreserved, DurablePreserved DEF StoreInv

LEMMA InvBoundIsStored == StoreInv => BoundIsStored
<1> SUFFICES ASSUME StoreInv, NEW n \in Names, refs[n] \notin unsynced \cup {NoDigest}
             PROVE  ResolveRef(n) /\ Meta(refs[n]) \in stored
  BY DEF BoundIsStored
<1>1. refs[n] \in refMay[n]
  BY DEF StoreInv, NamesSound
<1> QED
  BY <1>1 DEF StoreInv, BoundIsDurable, FilesOf, ResolveRef

\* Only GC removes a blob while the machine is up, and it knows every reference.
LEMMA StepRemovesGarbage ==
  ASSUME StoreInv, [StoreNext]_storeVars, ~Crash,
         NEW d \in Digests, Blob(d) \in stored, Blob(d) \notin stored'
  PROVE  Unreferenced(d)
<1>1. PICK c \in Clients : GCRemoveBlob(c)
  <2>1. \A c \in Clients : GCRemoveMetadata(c) => Blob(d) \in stored'
    BY FileShape DEF GCRemoveMetadata
  <2> QED
    BY <2>1 DEF StoreNext, Step, Call, Publish, SyncShard, Deduplicate, Find, EnsureMetadata,
       EnsureMetadataFails, OpenObject, WriteReference, RemoveReference, SyncReferences, GCList,
       GCEnd, Fails, Kill, storeVars, disk
<1>2. PICK g \in Garbage : stored' = stored \ {Blob(g)}
  BY <1>1 DEF GCRemoveBlob
<1>3. g = d
  BY <1>2, FileShape
<1>4. live = References
  BY <1>1 DEF GCRemoveBlob, StoreInv, CollectSound
<1>5. d \notin References
  BY <1>2, <1>3, <1>4 DEF Garbage
<1>6. d # NoDigest
  BY StoreSentinels
<1> QED
  BY <1>5, <1>6 DEF References, Unreferenced

\* The invariant of the store: who holds s.mu, what a call has found, what GC knows, and
\* what of the directories may be lost, for any clients, digests and names.
THEOREM StoreSafety == StoreSpec => []StoreInv
BY InitStoreInv, StoreInvPreserved, PTL DEF StoreSpec

\* A bound name resolves, also after a crash, unless some sync was never completed.
THEOREM BoundIsStoredHolds == StoreSpec => []BoundIsStored
BY StoreSafety, InvBoundIsStored, PTL

\* GC removes only what no name refers to.
THEOREM OnlyGarbageIsRemovedHolds == StoreSpec => OnlyGarbageIsRemoved
<1>1. StoreInv /\ [StoreNext]_storeVars =>
        [Crash \/ \A d \in Digests : Blob(d) \in stored \ stored' => Unreferenced(d)]_storeVars
  BY StepRemovesGarbage
<1> QED
  BY StoreSafety, <1>1, PTL DEF StoreSpec, OnlyGarbageIsRemoved
===============================================================================
