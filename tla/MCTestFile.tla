---------------------------- MODULE MCTestFile ------------------------------
(* The instances of TestFile that TLC checks: see the .cfg files. Clients     *)
(* are interchangeable.                                                       *)
EXTENDS TestFile, TLC

Symmetry == Permutations(Clients)
=============================================================================
