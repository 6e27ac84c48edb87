------------------------------ MODULE ContextStore ------------------------------
(***************************************************************************)
(* The content-addressed store of internal/contextfs: immutable blobs with *)
(* their metadata, names that refer to them, and a garbage collector.      *)
(* Clients call it concurrently; s.mu makes one critical section of most   *)
(* of a call, but not of its first or last step.  The process may be       *)
(* killed and the machine may crash between any two file system calls.     *)
(*                                                                         *)
(* A file appears whole or not at all: its content is synced before a link *)
(* or a rename shows it.  What may be lost is the directory entry.         *)
(***************************************************************************)
EXTENDS FiniteSets

CONSTANTS
  Clients,   \* goroutines of the process that opened the store
  Digests,   \* SHA-256 digests, each of one content
  Names,     \* reference names
  Free,      \* nobody holds s.mu
  NoDigest, NoName

ASSUME StoreSentinels ==
  /\ Free \notin Clients
  /\ NoDigest \notin Digests
  /\ NoName \notin Names

Blob(d) == <<"blob", d>>
Meta(d) == <<"meta", d>>
FilesOf(d) == {Blob(d), Meta(d)}
Files == {"blob", "meta"} \X Digests

VARIABLES
  at,        \* the step each client's call is at
  digest,    \* its digest, or the object that GC is removing
  name,      \* its reference name
  lock,      \* who holds s.mu
  live,      \* the digests that GC found referenced
  stored,    \* the files that exist
  loose,     \* files whose presence, or absence, is not yet durable
  shards,    \* digests whose two shard directories are themselves durable
  refs,      \* what each name refers to
  refMay,    \* what each name may refer to after a crash of the machine
  unsynced   \* history: digests in a directory entry whose sync was never completed

storeVars == <<at, digest, name, lock, live, stored, loose, shards, refs, refMay, unsynced>>
call == <<at, digest, name>>
disk == <<stored, loose, shards, refs, refMay, unsynced>>

\* A store that has no objects, with or without the shard directories of earlier ones.
StoreInit ==
  /\ at = [c \in Clients |-> "idle"]
  /\ digest = [c \in Clients |-> NoDigest]
  /\ name = [c \in Clients |-> NoName]
  /\ lock = Free
  /\ live = {}
  /\ stored = {}
  /\ loose = {}
  /\ shards \in {{}, Digests}
  /\ refs = [n \in Names |-> NoDigest]
  /\ refMay = [n \in Names |-> {NoDigest}]
  /\ unsynced = {}

Enter(c, step, d, n) ==
  /\ at' = [at EXCEPT ![c] = step]
  /\ digest' = [digest EXCEPT ![c] = d]
  /\ name' = [name EXCEPT ![c] = n]

Goto(c, step) == at' = [at EXCEPT ![c] = step] /\ UNCHANGED <<digest, name>>

Return(c) == Enter(c, "idle", NoDigest, NoName)

\* Mutant: syncDir is left out.
SettledNot(f) == loose \cup {f}

\* syncDir makes an entry durable, as far as the directory itself is: the entry of a
\* shard that MkdirAll has just made is never synced.
Settled(f) == IF f[2] \in shards THEN loose \ {f} ELSE loose \cup {f}
UnsyncedWith(d) == IF d \in shards THEN unsynced ELSE unsynced \cup {d}

\* Mutant: a released name counts as a reference.
ReferencesOfAll == {refs[n] : n \in Names}

\* listReferencesLocked
References == {refs[n] : n \in Names} \ {NoDigest}

-----------------------------------------------------------------------------
(* The calls *)

\* Put has written, hashed and synced its temporary file, without the lock.
CallPut(c) == \E d \in Digests : Enter(c, "put", d, NoName)

\* Resolve, which goes on to the open of OpenObject.
CallResolve(c) == \E d \in Digests : Enter(c, "resolve", d, NoName)

CallBind(c) == \E d \in Digests, n \in Names : Enter(c, "bind", d, n)
CallRelease(c) == \E n \in Names : Enter(c, "release", NoDigest, n)
CallGC(c) == Enter(c, "gc", NoDigest, NoName)

Call(c) ==
  /\ at[c] = "idle"
  /\ CallPut(c) \/ CallResolve(c) \/ CallBind(c) \/ CallRelease(c) \/ CallGC(c)
  /\ UNCHANGED <<lock, live, disk>>

\* Put links its temporary file under the digest, and syncs the shard.
Publish(c) ==
  /\ at[c] = "put"
  /\ lock = Free
  /\ Blob(digest[c]) \notin stored
  /\ lock' = c
  /\ stored' = stored \cup {Blob(digest[c])}
  /\ loose' = loose \cup {Blob(digest[c])}
  /\ unsynced' = UnsyncedWith(digest[c])
  /\ Goto(c, "sync")
  /\ UNCHANGED <<live, shards, refs, refMay>>

SyncShard(c) ==
  /\ at[c] = "sync"
  /\ loose' = Settled(Blob(digest[c]))
  /\ Goto(c, "putMeta")
  /\ UNCHANGED <<lock, live, stored, shards, refs, refMay, unsynced>>

\* The link finds the blob there: no sync.
Deduplicate(c) ==
  /\ at[c] = "put"
  /\ lock = Free
  /\ Blob(digest[c]) \in stored
  /\ lock' = c
  /\ Goto(c, "putMeta")
  /\ UNCHANGED <<live, disk>>

\* resolveLocked, in Resolve and in Bind.  A missing blob fails the call.
Find(c) ==
  /\ at[c] \in {"resolve", "bind"}
  /\ lock = Free
  /\ Blob(digest[c]) \in stored
  /\ lock' = c
  /\ Goto(c, IF at[c] = "bind" THEN "bindMeta" ELSE "resolveMeta")
  /\ UNCHANGED <<live, disk>>

AfterMetadata(c) ==
  CASE at[c] = "putMeta" -> Return(c) /\ lock' = Free
    [] at[c] = "resolveMeta" -> Goto(c, "open") /\ lock' = Free
    [] at[c] = "bindMeta" -> Goto(c, "bindRef") /\ UNCHANGED lock

\* ensureMetadataLocked: what is there is used, what is missing is written.
EnsureMetadata(c) ==
  /\ at[c] \in {"putMeta", "resolveMeta", "bindMeta"}
  /\ LET f == Meta(digest[c])
     IN IF f \in stored
          THEN UNCHANGED <<stored, loose, unsynced>>
          ELSE /\ stored' = stored \cup {f}
               /\ loose' = Settled(f)
               /\ unsynced' = UnsyncedWith(digest[c])
  /\ AfterMetadata(c)
  /\ UNCHANGED <<live, shards, refs, refMay>>

\* The metadata is renamed into place and the sync after that fails.
EnsureMetadataFails(c) ==
  /\ at[c] \in {"putMeta", "resolveMeta", "bindMeta"}
  /\ Meta(digest[c]) \notin stored
  /\ stored' = stored \cup {Meta(digest[c])}
  /\ loose' = loose \cup {Meta(digest[c])}
  /\ unsynced' = unsynced \cup {digest[c]}
  /\ lock' = Free
  /\ Return(c)
  /\ UNCHANGED <<live, shards, refs, refMay>>

\* The open that follows Resolve without the lock; GC may have been there.
OpenObject(c) ==
  /\ at[c] = "open"
  /\ Return(c)
  /\ UNCHANGED <<lock, live, disk>>

\* Bind renames the new reference into place.
WriteReference(c) ==
  /\ at[c] = "bindRef"
  /\ refs' = [refs EXCEPT ![name[c]] = digest[c]]
  /\ refMay' = [refMay EXCEPT ![name[c]] = @ \cup {digest[c]}]
  /\ Goto(c, "syncRefs")
  /\ UNCHANGED <<lock, live, stored, loose, shards, unsynced>>

RemoveReference(c) ==
  /\ at[c] = "release"
  /\ lock = Free
  /\ refs[name[c]] # NoDigest
  /\ lock' = c
  /\ refs' = [refs EXCEPT ![name[c]] = NoDigest]
  /\ refMay' = [refMay EXCEPT ![name[c]] = @ \cup {NoDigest}]
  /\ Goto(c, "syncRefs")
  /\ UNCHANGED <<live, stored, loose, shards, unsynced>>

\* The references share one directory.
SyncReferences(c) ==
  /\ at[c] = "syncRefs"
  /\ refMay' = [n \in Names |-> {refs[n]}]
  /\ lock' = Free
  /\ Return(c)
  /\ UNCHANGED <<live, stored, loose, shards, refs, unsynced>>

\* Mutant: GC does without s.mu.
GCListUnlocked(c) ==
  /\ at[c] = "gc"
  /\ live' = References
  /\ Goto(c, "walk")
  /\ UNCHANGED <<lock, disk>>

\* GC lists the references, then walks the blobs.
GCList(c) ==
  /\ at[c] = "gc"
  /\ lock = Free
  /\ lock' = c
  /\ live' = References
  /\ Goto(c, "walk")
  /\ UNCHANGED disk

Garbage == {d \in Digests \ live : Blob(d) \in stored}

GCRemoveBlob(c) ==
  /\ at[c] = "walk"
  /\ \E d \in Garbage :
       /\ stored' = stored \ {Blob(d)}
       /\ loose' = loose \cup {Blob(d)}
       /\ Enter(c, "collect", d, NoName)
  /\ UNCHANGED <<lock, live, shards, refs, refMay, unsynced>>

GCRemoveMetadata(c) ==
  /\ at[c] = "collect"
  /\ stored' = stored \ {Meta(digest[c])}
  /\ loose' = loose \cup ({Meta(digest[c])} \cap stored)
  /\ Enter(c, "walk", NoDigest, NoName)
  /\ UNCHANGED <<lock, live, shards, refs, refMay, unsynced>>

GCEnd(c) ==
  /\ at[c] = "walk"
  /\ Garbage = {}
  /\ lock' = Free
  /\ live' = {}
  /\ Return(c)
  /\ UNCHANGED disk

\* What a call leaves without the sync that it was about to do.
CutShort(c) ==
  CASE at[c] = "sync" -> {digest[c]}
    [] at[c] = "syncRefs" -> refMay[name[c]] \ {NoDigest}
    [] OTHER -> {}

\* Any file system call may fail, ctx end, or the object or the reference be missing:
\* the call returns at once.  What it has done stays.
Fails(c) ==
  /\ at[c] # "idle"
  /\ lock' = IF lock = c THEN Free ELSE lock
  /\ live' = IF lock = c THEN {} ELSE live
  /\ unsynced' = unsynced \cup CutShort(c)
  /\ Return(c)
  /\ UNCHANGED <<stored, loose, shards, refs, refMay>>

Step(c) ==
  \/ Publish(c) \/ SyncShard(c) \/ Deduplicate(c) \/ Find(c) \/ EnsureMetadata(c)
  \/ EnsureMetadataFails(c) \/ OpenObject(c) \/ WriteReference(c) \/ RemoveReference(c)
  \/ SyncReferences(c) \/ GCList(c) \/ GCRemoveBlob(c) \/ GCRemoveMetadata(c) \/ GCEnd(c)
  \/ Fails(c)

-----------------------------------------------------------------------------
(* Kill and crash *)

Stopped ==
  /\ at' = [c \in Clients |-> "idle"]
  /\ digest' = [c \in Clients |-> NoDigest]
  /\ name' = [c \in Clients |-> NoName]
  /\ lock' = Free
  /\ live' = {}

\* The process dies and is started again; Open finds the directories there.
Kill ==
  /\ Stopped
  /\ unsynced' = unsynced \cup UNION {CutShort(c) : c \in Clients}
  /\ UNCHANGED <<stored, loose, shards, refs, refMay>>

\* The machine goes down: every entry that is not durable is there or is not.  A new
\* shard is there for sure if it kept a file.
Crash ==
  /\ Stopped
  /\ \E kept \in SUBSET loose :
       /\ stored' = (stored \ loose) \cup kept
       /\ shards' = shards \cup {d \in Digests : FilesOf(d) \subseteq stored'}
  /\ loose' = {}
  /\ refs' \in {r \in [Names -> Digests \cup {NoDigest}] : \A n \in Names : r[n] \in refMay[n]}
  /\ refMay' = [n \in Names |-> {refs'[n]}]
  /\ UNCHANGED unsynced

StoreNext == (\E c \in Clients : Call(c) \/ Step(c)) \/ Kill \/ Crash

StoreSpec == StoreInit /\ [][StoreNext]_storeVars

-----------------------------------------------------------------------------
(* What must hold *)

StoreTypeOK ==
  /\ at \in [Clients -> {"idle", "put", "sync", "putMeta", "resolve", "resolveMeta", "open",
                         "bind", "bindMeta", "bindRef", "release", "syncRefs", "gc", "walk",
                         "collect"}]
  /\ digest \in [Clients -> Digests \cup {NoDigest}]
  /\ name \in [Clients -> Names \cup {NoName}]
  /\ lock \in Clients \cup {Free}
  /\ live \in SUBSET Digests
  /\ stored \in SUBSET Files
  /\ loose \in SUBSET Files
  /\ shards \in SUBSET Digests
  /\ refs \in [Names -> Digests \cup {NoDigest}]
  /\ refMay \in [Names -> SUBSET (Digests \cup {NoDigest})]
  /\ unsynced \in SUBSET Digests

ResolveRef(n) == refs[n] # NoDigest /\ Blob(refs[n]) \in stored

\* A name that is bound resolves, and its object has metadata, after any interleaving of
\* calls, failures, kills and crashes.  Only an object that some call has left without
\* the sync of a directory, or that is in a shard which is itself not durable, may be
\* gone after a crash.
BoundIsStored ==
  \A n \in Names :
    refs[n] \notin unsynced \cup {NoDigest} => ResolveRef(n) /\ Meta(refs[n]) \in stored

\* RefCount, as far as GC is concerned
Unreferenced(d) == \A n \in Names : refs[n] # d

\* While the machine is up an object that a name refers to is never removed, not even
\* one whose directory entries are in doubt.
OnlyGarbageIsRemoved ==
  [][Crash \/ \A d \in Digests : Blob(d) \in stored \ stored' => Unreferenced(d)]_storeVars
===============================================================================
