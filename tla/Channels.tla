------------------------------ MODULE Channels ------------------------------
(***************************************************************************)
(* The asynchronous queue of util/Channel.ts with its one reader, as       *)
(* values.  read is all the reader has been handed so far; ended says that *)
(* it was told there is no more.                                           *)
(***************************************************************************)
EXTENDS Naturals, Sequences

NewChannel ==
  [queue |-> <<>>, waiting |-> FALSE, closed |-> FALSE, read |-> <<>>, ended |-> FALSE]

\* handlePromises: a value and a pending pop meet.
Settle(ch) ==
  IF ch.waiting /\ ch.queue # <<>>
  THEN [ch EXCEPT !.read = Append(@, Head(ch.queue)), !.queue = Tail(@), !.waiting = FALSE]
  ELSE ch

Push(ch, v) == Settle([ch EXCEPT !.queue = Append(@, v)])

\* A closed channel rejects every pop, whatever is still in its queue.
Pop(ch) == IF ch.closed THEN [ch EXCEPT !.ended = TRUE] ELSE Settle([ch EXCEPT !.waiting = TRUE])

\* Mutant: close leaves the pending pop unsettled.
CloseQuietly(ch) == [ch EXCEPT !.closed = TRUE]

Close(ch) == [ch EXCEPT !.closed = TRUE, !.waiting = FALSE, !.ended = @ \/ ch.waiting]
=============================================================================
