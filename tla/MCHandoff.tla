------------------------------ MODULE MCHandoff ------------------------------
(***************************************************************************)
(* Small instances of Handoff for TLC.                                     *)
(***************************************************************************)
EXTENDS Handoff, TLC

CONSTANTS m1, m2, m3, q1, q2, q3, north, south, opM, opN, opS, root

\* opM and opN are operators of north, opS the admin of south, root has global access.
MCHome == [u \in Users |-> IF u \in {opM, opN} THEN north ELSE IF u = opS THEN south ELSE NoOffice]

Interchangeable == Permutations(Messages) \cup Permutations(Requests)
=============================================================================
