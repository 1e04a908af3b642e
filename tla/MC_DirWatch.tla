----------------------------- MODULE MC_DirWatch -----------------------------
(* Model values for DirWatch: the directory d, children a (found by the   *)
(* walker), b and s, a file bin created inside a child directory, and one *)
(* process p1.                                                             *)
EXTENDS DirWatch

CONSTANTS d, a, b, s, bin, p1
=============================================================================
