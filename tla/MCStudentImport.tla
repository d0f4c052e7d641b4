---------------------------- MODULE MCStudentImport ----------------------------
(* Instances of StudentImport for TLC: small files and forms.              *)
EXTENDS StudentImport, TLC

CONSTANTS j1, j2, rami, sami, lina, g1

ImportRow(j, n, s, g) == [job |-> j, number |-> n, signature |-> s, guardian |-> g]

\* A file with two children of one guardian, and a brother at the desk.
Siblings == {ImportRow(j1, 2, rami, g1), ImportRow(j1, 3, sami, g1)}
Brother == {[signature |-> lina, guardian |-> g1]}

\* Two files with the same student.
Twins == {ImportRow(j1, 2, rami, None), ImportRow(j2, 2, rami, None)}

Interchangeable == Permutations(Workers)
=============================================================================
