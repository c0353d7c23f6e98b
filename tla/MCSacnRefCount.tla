-------------------------- MODULE MCSacnRefCount --------------------------
(***************************************************************************)
(* SacnRefCount with a few DMX objects.                                    *)
(***************************************************************************)
EXTENDS SacnRefCount, TLC

Symmetry == Permutations(Objects)
=============================================================================
