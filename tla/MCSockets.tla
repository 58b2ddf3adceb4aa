------------------------------ MODULE MCSockets -------------------------------
(* TLC instances of Sockets. *)
EXTENDS Sockets, TLC

(* Objects and descriptors are interchangeable. *)
MCSymmetry == Permutations(Objects) \union Permutations(Fds)
=============================================================================
