---------------------------- MODULE MCHttpHandle ----------------------------
(* Instances of HttpHandle for TLC. *)
EXTENDS HttpHandle, TLC

EveryCall == AllCalls

\* What the functions of the library call: they only post.
LibraryCalls == {"trade", "fetch"}

Symmetry == Permutations(Threads)
=============================================================================
