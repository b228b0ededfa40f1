---------------------------- MODULE MCDisclosure ----------------------------
(***************************************************************************)
(* Two receivables and two scalars, so that one scalar can seal both; one  *)
(* case reference is the id of a request.                                  *)
(***************************************************************************)
EXTENDS Disclosure, TLC

CONSTANTS n1, n2, e1, e2, m1, c1, k1, k2, k3

Refs == {c1, requestIdOf(<<n1, e1>>, m1)}

\* Keyholders differ in name only.
KeyholderSymmetry == Permutations({k1, k2, k3})
=============================================================================
