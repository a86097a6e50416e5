---------------------------- MODULE Occurrences ----------------------------
(***************************************************************************)
(* How often a value occurs in a sequence, and in the sequences of several *)
(* owners.                                                                 *)
(***************************************************************************)
EXTENDS Naturals, Sequences, FiniteSets

Elems(s) == {s[i] : i \in DOMAIN s}

Places(s, o) == {i \in DOMAIN s : s[i] = o}
Count(s, o) == Cardinality(Places(s, o))

\* The places of o in the sequences f[x], each with its owner x \in S.
OwnedPlaces(S, f, o) == UNION {{x} \X Places(f[x], o) : x \in S}
Occurrences(S, f, o) == Cardinality(OwnedPlaces(S, f, o))
=============================================================================
