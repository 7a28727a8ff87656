-------------------------- MODULE MCMessageLifecycle --------------------------
(* A small instance of MessageLifecycle: generators are interchangeable. *)
EXTENDS MessageLifecycle, TLC

StreamSymmetry == Permutations(Streams)
=============================================================================
