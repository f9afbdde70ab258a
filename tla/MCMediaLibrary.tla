--------------------------- MODULE MCMediaLibrary ---------------------------
(* The media library on a small instance: imports and contents are alike. *)
EXTENDS MediaLibrary, TLC

Alike == Permutations(Calls) \cup Permutations(Contents)
=============================================================================
