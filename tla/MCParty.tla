------------------------------ MODULE MCParty ------------------------------
(* Instances of Party for TLC: characters and channels are interchangeable. *)
EXTENDS Party

Symmetry == Permutations(Char) \cup Permutations(Channel)

=============================================================================
