----------------------------- MODULE Transforms -----------------------------
(***************************************************************************)
(* Where a selected item is shown: the selection root transform (srt) of   *)
(* one client, the transforms of the items in it (sit), the copies that    *)
(* the board and another client keep (canvas/Selection.ts, SelectionUI.ts, *)
(* BoardTable.ts, board/method_impls.rs).                                  *)
(*                                                                         *)
(* A transform is an element of any group; a translation moves the origin  *)
(* and a linear one keeps it.  A point of a line is moved the same way.    *)
(* The holder takes only items that nobody else wants; the watcher is      *)
(* another client, which knows every item.  The calls of the holder are    *)
(* handled by several workers, which may overtake each other before and    *)
(* after they change the board.  The checks of a call are one step, and so *)
(* is the loop of a removal: Board.tla takes them item by item.            *)
(***************************************************************************)
EXTENDS Naturals, Sequences, SequencesExt

CONSTANTS
  Items,
  Boxed,         \* items that have a transform of their own and are no Path
  Matrix, Identity, Mul(_, _), Inv(_),
  Translations, Linear,
  Workers,       \* board tasks, each of which handles a call at a time
  MaxAdds,       \* bound: additions to the selection
  MaxPoints,      \* bound: points that drags reach
  MaxReloads,    \* bound: reloads of the holder
  MaxUnderWay    \* bound: calls and notifications under way

ASSUME ItemsAssumption == Boxed \subseteq Items

ASSUME WorkersAssumption == Workers \in Nat \ {0}

ASSUME GroupAssumption ==
  /\ Identity \in Matrix /\ Translations \subseteq Matrix /\ Linear \subseteq Matrix
  /\ \A m \in Matrix :
       /\ Inv(m) \in Matrix
       /\ Mul(Identity, m) = m /\ Mul(m, Identity) = m
       /\ Mul(m, Inv(m)) = Identity /\ Mul(Inv(m), m) = Identity
  /\ \A m, n \in Matrix : Mul(m, n) \in Matrix
  /\ \A l, m, n \in Matrix : Mul(Mul(l, m), n) = Mul(l, Mul(m, n))

VARIABLES
  item,    \* the holder's copies of the items, each the transform it has
  srt,     \* LocalSelection.srt
  sits,    \* LocalSelection.items, with their sit
  marked,  \* entries of the BoardTable whose selection is set
  sent,    \* srtUpdateSent
  drag,    \* the drag of the selection that goes on
  calls,   \* calls of the holder that have not changed the board
  begun,   \* how many of them, the first, a worker has begun
  owned,   \* items that selected_items records as the holder's
  board,   \* the items and the holder's selection, on the board
  untold,  \* notifications that workers have yet to send
  wire,    \* notifications on their way to the watcher
  watcher, \* its items, its RemoteSelection and the elements that lie in it
  used,    \* additions, points of drags and reloads so far
  overtaken, \* a call was checked, or changed the board, before an earlier one did,
             \* or a page was loaded before the calls of the last
  misled     \* the watcher fetched an item that was moved before it listened, came
             \* between a change and its notice, or heard of two in the wrong order

holderVars == <<item, srt, sits, marked, sent, drag>>
boardVars == <<calls, begun, owned, board, untold, overtaken>>
watchVars == <<wire, watcher, misled>>
vars == <<holderVars, boardVars, watchVars, used>>

NoDrag == [kind |-> "none", start |-> Identity, shared |-> FALSE]
Nothing == [i \in {} |-> Identity]

Init ==
  /\ item \in [Items -> Matrix] /\ srt = Identity /\ sits = Nothing
  /\ marked = {} /\ sent = TRUE /\ drag = NoDrag
  /\ calls = <<>> /\ begun = 0 /\ owned = {} /\ untold = <<>> /\ wire = <<>>
  /\ board = [item |-> item, srt |-> Identity, sits |-> Nothing]
  /\ watcher = [stage |-> "none", item |-> item, srt |-> Identity,
                sits |-> Nothing, held |-> {}, lag |-> 0]
  /\ used = [adds |-> 0, points |-> 0, reloads |-> 0] /\ overtaken = FALSE /\ misled = FALSE

-----------------------------------------------------------------------------

Within(f, S) == [i \in DOMAIN f \cap S |-> f[i]]

Without(f, S) == [i \in DOMAIN f \ S |-> f[i]]

\* The entries of f, and those of g for other items.
Over(f, g) == [i \in DOMAIN f \cup DOMAIN g |-> IF i \in DOMAIN f THEN f[i] ELSE g[i]]

PreMultiply(f, m) == [i \in DOMAIN f |-> Mul(m, f[i])]

\* Mutant: the items that were there keep their sit.
AddFromTransformsOnly(old, oldSrt, new, newSrt) == Over(new, old)

AddFromTransforms(old, oldSrt, new, newSrt) ==
  Over(new, PreMultiply(old, Mul(Inv(newSrt), oldSrt)))

\* A single item lends its transform to an empty box; others meet at a centre.
NewRoots(S) ==
  IF sits = Nothing /\ \E i \in S : S = {i} /\ i \in Boxed
  THEN {item[i] : i \in S}
  ELSE Translations

LocationUpdate(i, m) == Mul(m, item[i])

ApplyLocationUpdates(f, updates) == Over(updates, f)

\* getFinalTransforms, as location updates
FinalTransforms == [i \in DOMAIN sits |-> LocationUpdate(i, Mul(srt, sits[i]))]

-----------------------------------------------------------------------------
(* The holder                                                              *)

Send(c) ==
  /\ Len(calls) + Len(untold) + Len(wire) < MaxUnderWay
  /\ calls' = Append(calls, c)
  /\ UNCHANGED <<begun, owned, board, untold, overtaken, watchVars>>

\* Neither the flag of the interval nor a drag that goes on is told.
AddOwnSelection(S) ==
  /\ S # {} /\ S \cap marked = {}
  /\ used.adds < MaxAdds /\ used' = [used EXCEPT !.adds = @ + 1]
  /\ \E newSrt \in NewRoots(S) :
       LET new == [i \in S |-> Inv(newSrt)]
       IN  /\ sits' = AddFromTransforms(sits, srt, new, newSrt)
           /\ srt' = newSrt
           /\ Send([op |-> "add", srt |-> newSrt, new |-> new, old |-> Without(sits', S),
                    steady |-> sent \/ sits = Nothing])
  /\ marked' = marked \cup S
  /\ UNCHANGED <<item, sent, drag>>

DragStart(kind) ==
  /\ drag = NoDrag /\ used.points < MaxPoints
  /\ drag' = [kind |-> kind, start |-> srt, shared |-> FALSE]
  /\ UNCHANGED <<item, srt, sits, marked, sent, boardVars, watchVars, used>>

\* A drag of the box sets the origin of its own matrix, which is the srt from
\* then on; a handle makes a new one of the srt it started with.
UpdateSrt ==
  \/ /\ drag.kind = "box"
     /\ \E t \in Translations : srt' = Mul(t, IF drag.shared THEN srt ELSE drag.start)
  \/ /\ drag.kind = "handle"
     /\ \E l \in Linear : srt' = Mul(drag.start, l)

DragPoint ==
  /\ used.points < MaxPoints /\ used' = [used EXCEPT !.points = @ + 1]
  /\ UpdateSrt
  /\ sent' = FALSE
  /\ drag' = [drag EXCEPT !.shared = (drag.kind = "box")]
  /\ UNCHANGED <<item, sits, marked, boardVars, watchVars>>

DragEnd ==
  /\ drag # NoDrag /\ drag' = NoDrag
  /\ UNCHANGED <<item, srt, sits, marked, sent, boardVars, watchVars, used>>

\* The interval of 500 ms.
SendSrtUpdate ==
  /\ ~sent /\ sent' = TRUE
  /\ Send([op |-> "move", srt |-> srt])
  /\ UNCHANGED <<item, srt, sits, marked, drag, used>>

\* The box keeps its srt.
CancelSelection ==
  /\ sits # Nothing
  /\ item' = ApplyLocationUpdates(item, FinalTransforms)
  /\ sits' = Nothing /\ marked' = marked \ DOMAIN sits
  /\ Send([op |-> "remove", items |-> FinalTransforms])
  /\ UNCHANGED <<srt, sent, drag, used>>

\* The page is loaded again and the session resumed: bootstrap marks no item.
Reload ==
  /\ used.reloads < MaxReloads /\ used' = [used EXCEPT !.reloads = @ + 1]
  /\ item' = board.item /\ srt' = board.srt
  /\ sits' = AddFromTransforms(Nothing, Identity, board.sits, board.srt)
  /\ marked' = {} /\ sent' = TRUE /\ drag' = NoDrag
  /\ overtaken' = (overtaken \/ calls # <<>>)
  /\ UNCHANGED <<calls, begun, owned, board, untold, watchVars>>

-----------------------------------------------------------------------------
(* The board, whose workers take the calls from one queue                  *)

\* A worker takes the next call.  An addition is checked: the items that are
\* the holder's keep their place among the old, and the new ones are taken.
Begin ==
  /\ begun < Len(calls) /\ begun + Len(untold) < Workers
  /\ begun' = begun + 1
  /\ LET c == calls[begun'] IN
       \/ /\ c.op = "add"
          /\ calls' = [calls EXCEPT ![begun'].old = Within(@, owned)]
          /\ owned' = owned \cup DOMAIN c.new
          /\ overtaken' = (overtaken \/ begun > 0)
       \/ c.op # "add" /\ UNCHANGED <<calls, owned, overtaken>>
  /\ UNCHANGED <<holderVars, board, untold, watchVars, used>>

\* Mutant: the board ignores the old sits.
HandleAddNew(c) ==
  /\ board' = [board EXCEPT !.srt = c.srt, !.sits = Over(c.new, @)]
  /\ untold' = Append(untold, [op |-> "add", srt |-> c.srt, items |-> DOMAIN c.new,
                               steady |-> c.steady])
  /\ UNCHANGED <<owned, misled>>

HandleAdd(c) ==
  /\ board' = [board EXCEPT !.srt = c.srt, !.sits = Over(c.old, Over(c.new, @))]
  /\ untold' = Append(untold, [op |-> "add", srt |-> c.srt, items |-> DOMAIN c.new,
                               steady |-> c.steady])
  /\ UNCHANGED <<owned, misled>>

HandleMove(c) ==
  /\ board' = [board EXCEPT !.srt = c.srt]
  /\ untold' = Append(untold, c)
  /\ UNCHANGED <<owned, misled>>

HandleRemove(c) ==
  LET out == Within(c.items, owned) IN
  /\ board' = [board EXCEPT !.item = ApplyLocationUpdates(@, out),
                            !.sits = Without(@, DOMAIN out)]
  /\ owned' = owned \ DOMAIN out
  /\ untold' = Append(untold, [op |-> "remove", items |-> out])
  /\ misled' = (misled \/ watcher.stage = "items")

\* A worker changes the board as its call, the kth, asks.
Handle(k) ==
  /\ calls' = RemoveAt(calls, k) /\ begun' = begun - 1
  /\ overtaken' = (overtaken \/ k # 1)
  /\ LET c == calls[k] IN
       \/ c.op = "add" /\ HandleAdd(c)
       \/ c.op = "move" /\ HandleMove(c)
       \/ c.op = "remove" /\ HandleRemove(c)
  /\ UNCHANGED <<holderVars, wire, watcher, used>>

\* A worker sends its notification, to every client that listens.
Tell(k) ==
  /\ untold' = RemoveAt(untold, k)
  /\ wire' = IF watcher.stage = "live" THEN Append(wire, untold[k]) ELSE wire
  /\ misled' = (misled \/ k # 1)
  /\ UNCHANGED <<holderVars, calls, begun, owned, board, overtaken, watcher, used>>

-----------------------------------------------------------------------------
(* The watcher                                                             *)

\* bootstrap: first the items, then the clients; only then does it listen.
FetchItems ==
  /\ watcher.stage = "none"
  /\ watcher' = [watcher EXCEPT !.stage = "items", !.item = board.item]
  /\ UNCHANGED <<holderVars, boardVars, wire, used, misled>>

AddClient ==
  /\ watcher.stage = "items"
  /\ watcher' = [watcher EXCEPT !.stage = "live", !.srt = board.srt,
                                !.sits = board.sits, !.held = DOMAIN board.sits]
  /\ misled' = (misled \/ untold # <<>>)
  /\ UNCHANGED <<holderVars, boardVars, wire, used>>

\* lag: 1 after an addition, until a move heals it; 2 if none can.
Lag(n) == IF watcher.held = {} \/ (watcher.lag = 0 /\ n.steady) THEN 1 ELSE 2

\* addItems leaves the srt alone.
AddItems(n) ==
  LET new == [i \in n.items |-> Inv(n.srt)] IN
  watcher' = [watcher EXCEPT
    !.sits = AddFromTransforms(@, watcher.srt, new, n.srt),
    !.held = @ \cup n.items, !.lag = Lag(n)]

\* Mutant: a move does not reach the box.
MoveNothing(n) == watcher' = [watcher EXCEPT !.lag = IF @ = 1 THEN 0 ELSE @]

MoveItems(n) ==
  watcher' = [watcher EXCEPT !.srt = n.srt, !.lag = IF @ = 1 THEN 0 ELSE @]

\* SelectionItemsRemoved: the elements leave the box, their holders stay.
RemoveItems(n) ==
  LET held == watcher.held \ DOMAIN n.items IN
  watcher' = [watcher EXCEPT !.item = ApplyLocationUpdates(@, n.items), !.held = held,
                             !.lag = IF held = {} THEN 0 ELSE @]

Hear ==
  /\ wire # <<>> /\ wire' = Tail(wire)
  /\ LET n == Head(wire) IN
       \/ n.op = "add" /\ AddItems(n)
       \/ n.op = "move" /\ MoveItems(n)
       \/ n.op = "remove" /\ RemoveItems(n)
  /\ UNCHANGED <<holderVars, boardVars, used, misled>>

-----------------------------------------------------------------------------

Next ==
  \/ \E S \in SUBSET Items : AddOwnSelection(S)
  \/ \E kind \in {"box", "handle"} : DragStart(kind)
  \/ DragPoint \/ DragEnd \/ SendSrtUpdate \/ CancelSelection \/ Reload
  \/ Begin
  \/ \E k \in 1 .. begun : Handle(k)
  \/ \E k \in DOMAIN untold : Tell(k)
  \/ FetchItems \/ AddClient \/ Hear

Spec == Init /\ [][Next]_vars

-----------------------------------------------------------------------------

Shown(i) == IF i \in DOMAIN sits THEN Mul(Mul(srt, sits[i]), item[i]) ELSE item[i]

OnBoard(i) ==
  IF i \in DOMAIN board.sits THEN Mul(Mul(board.srt, board.sits[i]), board.item[i])
  ELSE board.item[i]

Watched(i) ==
  IF i \in watcher.held
  THEN Mul(Mul(watcher.srt, watcher.sits[i]), watcher.item[i]) ELSE watcher.item[i]

(* Selecting and deselecting never move an item: only a drag does, or a    *)
(* reload that loses a move nobody sent or reads the board before its      *)
(* calls were handled in order.  An item that is in the box and not        *)
(* marked, as it is after a reload, may be selected twice, and jumps.      *)
ItemsStay ==
  [][\A i \in Items :
       Shown(i)' # Shown(i) => \/ DragPoint
                               \/ Reload /\ (~sent \/ overtaken')
                               \/ i \in DOMAIN sits \ marked]_vars

(* Once the board has handled what it was sent, every item is there where  *)
(* its holder sees it, though the two build the transforms separately and  *)
(* several workers handle the calls.  If one overtook another where it     *)
(* checks or changes the board, which nothing prevents, they may part.     *)
BoardAgrees == sent /\ calls = <<>> /\ ~overtaken => \A i \in Items : OnBoard(i) = Shown(i)

(* A client that watches sees items where the board has them, if no worker *)
(* overtook another, it was not misled, and every addition, made while all *)
(* moves were sent, was followed by a move before the next one.            *)
WatcherAgrees ==
  /\ watcher.stage = "live" /\ wire = <<>> /\ untold = <<>>
  /\ ~overtaken /\ ~misled /\ watcher.lag = 0
  => \A i \in Items : Watched(i) = OnBoard(i)

(* A client that watches sees every item where the board has it.           *)
WatcherSeesAll ==
  watcher.stage = "live" /\ wire = <<>> /\ untold = <<>> /\ ~overtaken /\ ~misled
  => \A i \in Items : Watched(i) = OnBoard(i)

(* Once the board has handled what it was sent, every item is there where  *)
(* its holder sees it, whatever order the workers took the calls in.       *)
BoardAlwaysAgrees == sent /\ calls = <<>> => \A i \in Items : OnBoard(i) = Shown(i)
=============================================================================
