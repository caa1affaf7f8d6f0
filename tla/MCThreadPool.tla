---------------------------- MODULE MCThreadPool ----------------------------
(* Instances of the thread pool for TLC. *)
EXTENDS ThreadPool, TLC

\* Workers, producers and closures are interchangeable.
Symmetry ==
    Permutations(Workers) \cup Permutations(Producers) \cup Permutations(Tasks)

=============================================================================
