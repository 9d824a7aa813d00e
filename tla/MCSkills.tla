------------------------------ MODULE MCSkills ------------------------------
(* The trial of a new skill, a save over an old one, and two runs.         *)
EXTENDS Skills, TLC
CONSTANTS sql, report, t, u
MCNameOf == t :> report @@ u :> sql
Symmetry == Permutations(Runs)
=============================================================================
