------------------------------ MODULE LiveLine ------------------------------
(***************************************************************************)
(* What drawing a path promises: a line that grows until it is over, and   *)
(* viewers each of whom sees an ever longer beginning of it; a viewer is   *)
(* done only when the line is over and seen whole.                         *)
(***************************************************************************)
EXTENDS Naturals, Sequences

CONSTANTS Points, Viewers

VARIABLES line, over, view, done

lineVars == <<line, over, view, done>>

Init ==
  /\ line = <<>> /\ over = FALSE
  /\ view = [v \in Viewers |-> <<>>] /\ done = [v \in Viewers |-> FALSE]

Extend == ~over /\ (\E p \in Points : line' = Append(line, p)) /\ UNCHANGED <<over, view, done>>

End == ~over /\ over' = TRUE /\ UNCHANGED <<line, view, done>>

See(v) ==
  /\ ~done[v]
  /\ \E n \in Len(view[v])..Len(line) : view' = [view EXCEPT ![v] = SubSeq(line, 1, n)]
  /\ UNCHANGED <<line, over, done>>

Finish(v) ==
  /\ over /\ ~done[v]
  /\ view' = [view EXCEPT ![v] = line] /\ done' = [done EXCEPT ![v] = TRUE]
  /\ UNCHANGED <<line, over>>

Next == Extend \/ End \/ \E v \in Viewers : See(v) \/ Finish(v)

Spec == Init /\ [][Next]_lineVars
=============================================================================
