---------------------------- MODULE MCCatalogue ----------------------------
(***************************************************************************)
(* Catalogue for TLC.  Names and fields are interchangeable: the           *)
(* specification never picks one of them.                                  *)
(***************************************************************************)
EXTENDS Catalogue, TLC

Interchangeable == Permutations(Names) \cup Permutations(Fields)
=============================================================================
