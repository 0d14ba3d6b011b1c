--------------------------- MODULE MCSessionStore ---------------------------
(* A small store whose hashes share one ref, so that a lookup can be ambiguous. *)
EXTENDS SessionStore, TLC

CONSTANTS h1, h2, h3, r1

MCRefOf == [h \in Hashes |-> r1]

\* Ties are broken by serial, never by id, and the hashes have one ref.
Symmetry == Permutations(SessionIds) \cup Permutations(Hashes)
=============================================================================
