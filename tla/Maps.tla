------------------------------- MODULE Maps -------------------------------
(***************************************************************************)
(* The two operations of the ordered maps (im::OrdMap) that the metadata   *)
(* state is made of, on functions with a finite domain.                    *)
(***************************************************************************)
EXTENDS Functions

EmptyMap == [x \in {} |-> x]

\* OrdMap::insert: adds key k or overwrites its value.
Put(f, k, v) == [x \in DOMAIN f \cup {k} |-> IF x = k THEN v ELSE f[x]]

\* OrdMap::remove for every key of K; absent keys are ignored.
Remove(f, K) == Restrict(f, DOMAIN f \ K)
=============================================================================
