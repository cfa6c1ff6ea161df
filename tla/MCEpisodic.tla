----------------------------- MODULE MCEpisodic -----------------------------
(***************************************************************************)
(* Episodic for TLC: the processes are interchangeable.                    *)
(***************************************************************************)
EXTENDS Episodic, TLC

Symmetry == Permutations(Procs)

=============================================================================
