----------------------------- MODULE ContextRegistry -----------------------------
(***************************************************************************)
(* The references to contexts of internal/contextstore and the arithmetic  *)
(* of the registry of warm contexts.  A reference is a record of a key, a  *)
(* digest and a size; keys and digests are numbers, 0 for an empty one.    *)
(* A set of references stands for a slice of them, in any order.           *)
(*                                                                         *)
(* The registry is the set of the references that were ever added: its     *)
(* entry for an identity has the largest of their sizes.                   *)
(***************************************************************************)
EXTENDS Integers, FiniteSetsExt, Functions

\* The digest identifies a context; a key does so only without one.
Identity(ref) == IF ref.digest # 0 THEN <<"sha256", ref.digest>> ELSE <<"key", ref.key>>

SizeIn(refs, identity) == Max({r.size : r \in {s \in refs : Identity(s) = identity}})

\* NormalizeRefs refuses these.
Malformed(refs) == \E r \in refs : (r.key = 0 /\ r.digest = 0) \/ r.size = 0

\* Aliases of one context become one reference, with the largest size and the least key.
Merged(aliases) ==
  LET keys == {r.key : r \in aliases} \ {0}
      any == CHOOSE r \in aliases : TRUE
  IN [key |-> IF keys = {} THEN 0 ELSE Min(keys),
      digest |-> any.digest,
      size |-> SizeIn(aliases, Identity(any))]

NormalizeRefs(refs) ==
  {Merged({r \in refs : Identity(r) = i}) : i \in {Identity(r) : r \in refs}}

RequestedBytes(refs) == SumFunction([r \in NormalizeRefs(refs) |-> r.size])

Known(registry, ref) == \E r \in registry : Identity(r) = Identity(ref)

\* Mutant: all that the registry has, not what is requested of it.
ReusableOfEntry(registry, ref) == SizeIn(registry, Identity(ref))

\* The size that was registered may differ from the size that is requested.
Reusable(registry, ref) == Min({ref.size, SizeIn(registry, Identity(ref))})

ReusableBytes(registry, refs) ==
  SumFunction([r \in {s \in NormalizeRefs(refs) : Known(registry, s)} |-> Reusable(registry, r)])

\* Weight times the fraction of the requested bytes that are warm.
WeightedAffinity(weight, registry, refs) ==
  IF RequestedBytes(refs) = 0 THEN 0
  ELSE (weight * ReusableBytes(registry, refs)) \div RequestedBytes(refs)
===============================================================================
