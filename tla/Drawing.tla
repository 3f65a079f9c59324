------------------------------ MODULE Drawing ------------------------------
(***************************************************************************)
(* A path from the pointer to the screens of the other clients: pointer    *)
(* events (canvas/Canvas.ts), the drag gesture (canvas/Gesture.ts), the    *)
(* path tool (tool/PathTool.ts), the server (Paths), the receiver of the   *)
(* parts (client/IterateReceiver.ts) and handlePath of Board.ts.           *)
(*                                                                         *)
(* Microtasks run before the next event: a reader that is handed a value   *)
(* has asked for the next before another message is dispatched.  The path  *)
(* tool awaits a call in between, so it has not.  Messages are taken to be *)
(* dispatched in the order they came in.                                   *)
(***************************************************************************)
EXTENDS Paths, Channels

CONSTANTS
  MaxPoints   \* bound: pointer moves of the gesture

ASSUME MaxPointsAssumption == MaxPoints \in Nat

VARIABLES
  pointer,    \* "up", "down" or "lifted"
  drawn,      \* the points the pointer has moved over
  moves,      \* the channel of pointer moves
  tool,       \* where onDragGesture is
  taken,      \* values of moves.read the loop has had
  receivers,  \* the receiver of each watcher
  shown,      \* the points each watcher has drawn
  watching,   \* watchers that have called GetActivePath
  meddled     \* meddlers that have made their call

drawerVars  == <<pointer, drawn, moves, tool, taken>>
watcherVars == <<receivers, shown, watching, meddled>>
vars == <<pathVars, drawerVars, watcherVars>>

\* registered: in RawClient.iterateReceivers; last: lastPart, once it is known.
NewReceiver == [registered |-> FALSE, next |-> 0, last |-> {}, chan |-> NewChannel]

Init ==
  /\ PathsInit
  /\ pointer = "up" /\ drawn = <<>> /\ moves = NewChannel /\ tool = "idle" /\ taken = 0
  /\ receivers = [w \in Watchers |-> NewReceiver] /\ shown = [w \in Watchers |-> <<>>]
  /\ watching = {} /\ meddled = {}

Request(m, c, points) == requests' = requests \cup {Call(m, c, points)}

serverRest == <<path, nodes, ears, telling, told, item, foreign, dead>>

-----------------------------------------------------------------------------
(* The pointer.  processEvents peeks at the first move at once.            *)

PointerDown ==
  /\ pointer = "up" /\ pointer' = "down"
  /\ moves' = Pop(NewChannel)
  /\ UNCHANGED <<drawn, tool, taken, pathVars, watcherVars>>

PointerMove ==
  LET p == Len(drawn) + 1 IN
  /\ pointer = "down" /\ p <= MaxPoints
  /\ drawn' = Append(drawn, p)
  /\ moves' = Push(moves, p)
  /\ UNCHANGED <<pointer, tool, taken, pathVars, watcherVars>>

PointerUp ==
  /\ pointer = "down" /\ pointer' = "lifted"
  /\ moves' = Close(moves)
  /\ UNCHANGED <<drawn, tool, taken, pathVars, watcherVars>>

-----------------------------------------------------------------------------
(* The gesture and the path tool.                                          *)

\* No move came in time: a press, which the path tool does not handle.
Press ==
  /\ tool = "idle" /\ pointer # "up" /\ moves.read = <<>>
  /\ tool' = "press"
  /\ UNCHANGED <<pointer, drawn, moves, taken, pathVars, watcherVars>>

StartDrag ==
  /\ tool = "idle" /\ moves.read # <<>>
  /\ tool' = "begin" /\ Request("BeginPath", Drawer, <<>>)
  /\ UNCHANGED <<pointer, drawn, moves, taken, answered, sent, serverRest, watcherVars>>

\* The loop of onDragGesture: the next point, or one more pop.
NextPoint ==
  /\ tool = "next"
  /\ IF taken < Len(moves.read)
     THEN /\ taken' = taken + 1 /\ tool' = "continue"
          /\ Request("ContinuePath", Drawer, <<moves.read[taken + 1]>>)
          /\ UNCHANGED moves
     ELSE /\ ~moves.waiting /\ ~moves.ended
          /\ moves' = Pop(moves) /\ UNCHANGED <<tool, taken, requests>>
  /\ UNCHANGED <<pointer, drawn, answered, sent, serverRest, watcherVars>>

FinishDrag ==
  /\ tool = "next" /\ taken = Len(moves.read) /\ moves.ended
  /\ tool' = "end" /\ Request("EndPath", Drawer, <<>>)
  /\ UNCHANGED <<pointer, drawn, moves, taken, answered, sent, serverRest, watcherVars>>

\* The awaited call returns; one that is rejected never does.
Answer ==
  /\ answered /\ answered' = FALSE
  /\ tool' = IF tool = "end" THEN "done" ELSE "next"
  /\ UNCHANGED <<pointer, drawn, moves, taken, requests, sent, serverRest, watcherVars>>

-----------------------------------------------------------------------------
(* The watchers.                                                           *)

\* handlePath: ask for the path and wait for its first chunk.
Watch(w) ==
  /\ w \in told \ watching
  /\ watching' = watching \cup {w}
  /\ Request("GetActivePath", w, <<>>)
  /\ receivers' = [receivers EXCEPT ![w].registered = TRUE, ![w].chan = Pop(@)]
  /\ UNCHANGED <<shown, meddled, answered, sent, serverRest, drawerVars>>

\* Mutant: whether the stream has finished is asked before the part counts.
HandleAsksFirst(rc, p) ==
  LET isNext == p.part = rc.next
      last == IF p.complete THEN {p.part} ELSE rc.last
      finished == \E n \in last : rc.next > n
      fed == IF isNext /\ p.items # <<>> THEN Push(rc.chan, p.items) ELSE rc.chan
  IN [registered |-> ~finished, next |-> IF isNext THEN rc.next + 1 ELSE rc.next,
      last |-> last, chan |-> IF finished THEN Close(fed) ELSE fed]

\* handlePayload.  A part that is not the next one is dropped: nothing ever
\* puts one into futureParts.
Handle(rc, p) ==
  LET isNext == p.part = rc.next
      next == IF isNext THEN rc.next + 1 ELSE rc.next
      last == IF p.complete THEN {p.part} ELSE rc.last
      finished == \E n \in last : next > n
      fed == IF isNext /\ p.items # <<>> THEN Push(rc.chan, p.items) ELSE rc.chan
  IN [registered |-> ~finished, next |-> next, last |-> last,
      chan |-> IF finished THEN Close(fed) ELSE fed]

\* The loop of handlePath draws the chunk it is handed (addNodes of the helper)
\* and pops again.
AddNodes(points, before, after) ==
  IF Len(after.read) > Len(before.read) THEN points \o Last(after.read) ELSE points

Read(ch) == IF ch.waiting \/ ch.ended THEN ch ELSE Pop(ch)

Deliver(w) ==
  /\ sent[w] # <<>>
  /\ sent' = [sent EXCEPT ![w] = Tail(@)]
  /\ IF receivers[w].registered
     THEN LET rc == Handle(receivers[w], Head(sent[w])) IN
          /\ receivers' = [receivers EXCEPT ![w] = [rc EXCEPT !.chan = Read(@)]]
          /\ shown' = [shown EXCEPT ![w] = AddNodes(@, receivers[w].chan, rc.chan)]
     ELSE UNCHANGED <<receivers, shown>>
  /\ UNCHANGED <<watching, meddled, requests, answered, serverRest, drawerVars>>

\* A call on the path by a client that knows its id.
Meddle(w, m) ==
  /\ w \in (Meddlers \cap told) \ meddled
  /\ meddled' = meddled \cup {w}
  /\ Request(m, w, <<0>>)
  /\ UNCHANGED <<receivers, shown, watching, answered, sent, serverRest, drawerVars>>

-----------------------------------------------------------------------------
Server == Serve /\ UNCHANGED <<drawerVars, watcherVars>>
Tool == Press \/ StartDrag \/ NextPoint \/ FinishDrag \/ Answer
Pointer == PointerDown \/ PointerMove \/ PointerUp
Receive(w) == Watch(w) \/ Deliver(w)

Next ==
  \/ Server \/ Tool \/ Pointer
  \/ \E w \in Watchers : Receive(w) \/ \E m \in {"ContinuePath", "EndPath"} : Meddle(w, m)

Spec == Init /\ [][Next]_vars

\* The runtime polls the workers, the browser dispatches what has arrived.
FairSpec ==
  /\ Spec
  /\ WF_vars(Server) /\ WF_vars(Tool)
  /\ \A w \in Watchers : WF_vars(Receive(w))

-----------------------------------------------------------------------------
\* The type of the server's side; the rest are values of Channels.
TypeOK ==
  /\ path \in {"none", "active", "gone"}
  /\ nodes \in Seq(1..MaxPoints) /\ item \in Seq(1..MaxPoints)
  /\ DOMAIN ears \subseteq Watchers /\ telling \subseteq Watchers /\ told \subseteq Watchers
  /\ dead \in 0..Tasks
  /\ tool \in {"idle", "press", "begin", "next", "continue", "end", "done"}

\* The path has the points of the gesture in the order they were drawn,
\* whatever other clients do to it: none twice, none from elsewhere.
NodesAsDrawn == IsPrefix(nodes, drawn)

\* The parts are the stretches of the path that end at the cuts.
Stretches(parts, cut) ==
  \A k \in DOMAIN parts :
    cut[k - 1] <= cut[k] /\ parts[k].items = SubSeq(nodes, cut[k - 1] + 1, cut[k])

\* No point is lost or repeated between the server and a listener: what the
\* watcher shows, what is on the way and what the handle has buffered make
\* up the path, and the parts are numbered as the receiver expects them.
ListenersFollow ==
  /\ \A w \in DOMAIN ears : \E cut \in [0..Len(sent[w]) -> 0..Len(nodes)] :
       /\ shown[w] = SubSeq(nodes, 1, cut[0])
       /\ Stretches(sent[w], cut)
       /\ ears[w].items = SubSeq(nodes, cut[Len(sent[w])] + 1, Len(nodes))
  /\ \A w \in Watchers : receivers[w].registered =>
       \A k \in DOMAIN sent[w] : sent[w][k].part = receivers[w].next + k - 1

\* A watcher that has stopped watching has shown the item the path became.
WatchersSeeItem ==
  \A w \in Watchers : receivers[w].chan.ended => path = "gone" /\ ~foreign /\ shown[w] = item

\* When the pointer is lifted the tool finishes, unless another client removed
\* the path or every worker has died.
ToolFinishes == pointer = "lifted" ~> tool \in {"press", "done"} \/ foreign \/ dead = Tasks

\* A watcher that was shown a path stops showing it when its owner ends it.
WatchersFinish ==
  \A w \in Watchers :
    shown[w] # <<>> /\ path = "gone" /\ ~foreign ~> receivers[w].chan.ended

\* The drawing implements a live line.
Line == INSTANCE LiveLine WITH
  Points <- 1..MaxPoints, Viewers <- Watchers, line <- nodes, over <- path = "gone",
  view <- shown, done <- [w \in Watchers |-> receivers[w].chan.ended]
LiveLineSpec == Line!Spec

\* Test table.md:6: "A path should be drawn along the cursor movement".  The
\* item has every point the pointer moved over.
WholeGesture == tool = "done" /\ ~foreign => item = drawn
=============================================================================
