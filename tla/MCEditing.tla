----------------------------- MODULE MCEditing -----------------------------
(* Editing with a shape and a line.                                         *)
EXTENDS Editing

MCTypeOf(i) == IF i = "s" THEN "shape" ELSE IF i = "l" THEN "line" ELSE "text"

\* What the first inputs show has no effect on anything else.
AllButTwins ==
  <<copy, selected, current, tool, stored, panel, inputs, uploads, calls, boardVars, astray, used>>
=============================================================================
