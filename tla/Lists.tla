------------------------------- MODULE Lists -------------------------------
(***************************************************************************)
(* What is left of a sequence without the elements of a set.  It is what   *)
(* SelectSeq is for; it takes a set because a fact about every set can be  *)
(* stated and proved, one about every predicate cannot.                    *)
(***************************************************************************)
EXTENDS Integers, Sequences

Without(q, S) ==
  LET rest[n \in 0..Len(q)] ==
        IF n = 0 THEN << >>
        ELSE IF q[n] \in S THEN rest[n - 1] ELSE Append(rest[n - 1], q[n])
  IN  rest[Len(q)]
=============================================================================
