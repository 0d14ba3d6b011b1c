----------------------------- MODULE TokenHasher -----------------------------
(***************************************************************************)
(* TokenHasher (src/src/core/hashing/token-hasher.ts): the blocks behind   *)
(* the elision markers, found by their digest or by the shortened digest   *)
(* that a marker carries.  A block is identified with its digest.          *)
(***************************************************************************)
EXTENDS Integers, Sequences, FiniteSets, SequencesExt

CONSTANTS
  Hashes,      \* digests of blocks
  Refs,        \* digests cut to ELISION_HASH_PREFIX_LENGTH
  RefOf,       \* the shortened form of a digest
  None,        \* undefined: no entry, nothing found
  Ambiguous,   \* null: the entry of a ref that several digests share
  MaxText      \* bound: the pieces of a text

ASSUME HasherAssumption ==
  /\ RefOf \in [Hashes -> Refs]
  \* Every caller registers full digests (token-hashing.ts:110).
  /\ Hashes \cap Refs = {}
  /\ None \notin Hashes /\ Ambiguous \notin Hashes /\ None # Ambiguous
  /\ MaxText \in Nat

VARIABLES
  store,        \* the digests of the registered blocks
  prefixIndex   \* of each ref: None, one digest, or Ambiguous

vars == <<store, prefixIndex>>

\* The two tables agree: the index has an entry for the refs of registered blocks
\* and for no others.
TypeOK ==
  /\ store \subseteq Hashes
  /\ prefixIndex \in [Refs -> Hashes \cup {None, Ambiguous}]
  /\ \A ref \in Refs : prefixIndex[ref] = None <=> ref \notin {RefOf[h] : h \in store}

-----------------------------------------------------------------------------
Init ==
  /\ store = {}
  /\ prefixIndex = [ref \in Refs |-> None]

\* Mutant: an ambiguous entry reads as an absent one.
Indexed_NullIsAbsent(existing, hash) ==
  IF existing \in {None, Ambiguous} THEN hash
  ELSE IF existing # hash THEN Ambiguous ELSE existing

\* The entry once ambiguous stays so.
Indexed(existing, hash) ==
  IF existing = None THEN hash
  ELSE IF existing # hash THEN Ambiguous ELSE existing

RegisterBlock(hash) ==
  /\ store' = store \cup {hash}
  /\ prefixIndex' = [prefixIndex EXCEPT ![RefOf[hash]] = Indexed(@, hash)]

\* Mutant: only the store is emptied.
ClearedIndex_Kept == prefixIndex

ClearedIndex == [ref \in Refs |-> None]

Clear ==
  /\ store' = {}
  /\ prefixIndex' = ClearedIndex

Next == Clear \/ \E hash \in Hashes : RegisterBlock(hash)

Spec == Init /\ [][Next]_vars

-----------------------------------------------------------------------------
(* Lookups.                                                                *)

\* Mutant: an ambiguous ref resolves to some block that has it.
Resolve_Guess(key) ==
  IF key \in store THEN key
  ELSE IF \E h \in store : RefOf[h] = key THEN CHOOSE h \in store : RefOf[h] = key
  ELSE None

Resolve(key) ==
  IF key \in store THEN key
  ELSE IF key \in Refs /\ prefixIndex[key] # Ambiguous THEN prefixIndex[key]
  ELSE None

\* A text is made of blocks and of markers carrying a digest or a ref.
Piece == [block : Hashes] \cup [marker : Hashes \cup Refs]

IsMarker(piece) == "marker" \in DOMAIN piece

\* rehydrateText: a marker that resolves gives way to its block, any other stays.
Rehydrated(text) ==
  [i \in 1..Len(text) |->
     IF IsMarker(text[i]) /\ Resolve(text[i].marker) # None
       THEN [block |-> Resolve(text[i].marker)] ELSE text[i]]

-----------------------------------------------------------------------------
(* Properties.                                                             *)

Sharing(ref) == {h \in store : RefOf[h] = ref}

\* A key finds the block it names, or the only registered block it can stand for,
\* however many came and went before: never a guess (token-hasher.ts:26-35).
LookupSound ==
  \A key \in Hashes \cup Refs :
    Resolve(key) # None =>
      /\ Resolve(key) \in store
      /\ key = Resolve(key) \/ Sharing(key) = {Resolve(key)}

\* A registered block is found by its digest, and by its ref unless another
\* registered block shares it: what was hashed can be restored.
LookupComplete ==
  \A h \in store :
    /\ Resolve(h) = h
    /\ Sharing(RefOf[h]) = {h} => Resolve(RefOf[h]) = h

\* Of a text whose blocks were hashed and then elided, rehydration restores the
\* very text, except for markers it leaves as they are.
RehydrationExact ==
  \A text \in BoundedSeq(store, MaxText) :
    \A elided \in SUBSET (1..Len(text)) :
      LET sent == [i \in 1..Len(text) |-> IF i \in elided THEN [marker |-> RefOf[text[i]]]
                                                          ELSE [block |-> text[i]]]
      IN \A i \in 1..Len(text) :
           Rehydrated(sent)[i] \in {[block |-> text[i]]} \cup {sent[i]}
=============================================================================
