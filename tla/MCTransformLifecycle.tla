------------------------ MODULE MCTransformLifecycle ------------------------
(***************************************************************************)
(* Instances of TransformLifecycle for TLC.                                *)
(***************************************************************************)
EXTENDS TransformLifecycle

CONSTANTS s1, s2, sBad

\* A create-then-fill text of two statements that names its tables by the
\* tenant's schemas, what a bootstrap makes of it, and one of a forbidden kind.
StmtsValue == [s \in Sqls |-> IF s = sBad THEN 1 ELSE 2]

\* Where s2 is left out, s1 is a text that a bootstrap leaves alone.
RewrittenValue == [s \in Sqls |-> IF s = s1 /\ s2 \in Sqls THEN s2 ELSE s]

=============================================================================
