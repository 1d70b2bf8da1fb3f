----------------------------- MODULE MCIoQueue ------------------------------
(* Small instances of IoQueue for TLC.                                     *)
EXTENDS IoQueue, TLC

(* Coroutine frames are interchangeable.                                   *)
Symmetry == Permutations(Coros)
=============================================================================
