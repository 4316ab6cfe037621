-------------------------- MODULE RootFindingInv ---------------------------
(***************************************************************************)
(* The inductive invariant of RootFinding: what is left to find and what   *)
(* has been found make up the batch.                                       *)
(***************************************************************************)
EXTENDS RootFinding

\* Nothing has been found when Newton's identities begin.
StartInv == phase = "newton" => f = <<>> /\ Z = <<>>

\* A call of find_roots has a polynomial, never 0, of exactly the degree that
\* is missing.
DegreeInv == phase = "roots" => f \in Polys /\ f # <<>> /\ Deg(f) + Len(Z) = N

\* The inductive invariant: the recursion of find_roots loses no root and
\* invents none.
RootInv == TypeOK /\ StartInv /\ DegreeInv /\ FactorsKept
=============================================================================
