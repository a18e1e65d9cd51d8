----------------------------- MODULE MCCoreDirs -----------------------------
(* CoreDirs on a small instance. *)
EXTENDS CoreDirs, TLC
CONSTANTS c1, b1

OneCleaner == {c1}
OneBuilder == {b1}
==============================================================================
