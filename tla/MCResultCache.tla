---------------------------- MODULE MCResultCache ----------------------------
(***************************************************************************)
(* Two clients over one cache directory and one name, whose file may hold a *)
(* record that was copied from another key's name.                          *)
(***************************************************************************)
EXTENDS ResultCache, TLC

CONSTANTS c1, c2, i1, i2

Symmetry == Permutations({c1, c2})
=============================================================================
