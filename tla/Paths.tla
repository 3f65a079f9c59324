------------------------------- MODULE Paths -------------------------------
(***************************************************************************)
(* A path while it is drawn (board/method_impls.rs, iterate_impls.rs,      *)
(* message/iterate.rs): the server keeps its points and a listener for     *)
(* each client that watches it, and makes an item of it when it ends.      *)
(*                                                                         *)
(* One path, drawn by Drawer and watched by Watchers, some of whom meddle. *)
(* The worker tasks take calls in any order.  A handler holds the entry of *)
(* the path, or removes it, from its look-up to its end, so each is one    *)
(* step, but for the notifications.  That the item then goes onto the      *)
(* canvas and is offered is in Board (AddItem, ListItem, OfferItem).       *)
(***************************************************************************)
EXTENDS Naturals, Sequences, SequencesExt

CONSTANTS
  Drawer,     \* the client that draws the path
  Watchers,   \* the other clients
  Meddlers,   \* watchers that call methods on a path that is not theirs
  Tasks       \* how many worker tasks the board has (BOARD_TASKS)

ASSUME PathsAssumption ==
  /\ Drawer \notin Watchers /\ Meddlers \subseteq Watchers
  /\ Tasks \in Nat \ {0}

VARIABLES
  requests,   \* calls on the path not yet handled: [m, c, points]
  answered,   \* the answer to the drawer's call is on its way
  path,       \* the entry in active_paths: "none", "active" or "gone"
  nodes,      \* ActivePath.nodes
  ears,       \* ActivePath.listeners: for a client, [part, items] of its handle
  telling,    \* clients PathStarted has still to be sent to
  told,       \* clients it was sent to
  sent,       \* parts on the way to each client: [part, complete, items]
  item,       \* the points of the item made of the path
  foreign,    \* the path was removed by a client that does not own it
  dead        \* worker tasks that have panicked

pathVars == <<requests, answered, path, nodes, ears, telling, told, sent, item, foreign, dead>>

PathsInit ==
  /\ requests = {} /\ answered = FALSE /\ path = "none" /\ nodes = <<>> /\ ears = <<>>
  /\ telling = {} /\ told = {} /\ sent = [w \in Watchers |-> <<>>]
  /\ item = <<>> /\ foreign = FALSE /\ dead = 0

Call(m, c, points) == [m |-> m, c |-> c, points |-> points]

\* A worker is left to handle r.
Handles(r, m) == r \in requests /\ r.m = m /\ dead < Tasks /\ requests' = requests \ {r}

-----------------------------------------------------------------------------
(* IterateHandle: what each listener has been sent and has in its buffer.  *)

\* Mutant: finalize does not send what is still in the buffer.
PartWithoutTail(ear, complete) ==
  [part |-> ear.part, complete |-> complete, items |-> IF complete THEN <<>> ELSE ear.items]

Part(ear, complete) == [part |-> ear.part, complete |-> complete, items |-> ear.items]

\* Send the buffers of the listeners in h; complete: finalize.
SendParts(h, complete) ==
  sent' = [w \in Watchers |-> IF w \in DOMAIN h THEN Append(sent[w], Part(h[w], complete))
                                                ELSE sent[w]]

Flushed(h) == [w \in DOMAIN h |-> [part |-> h[w].part + 1, items |-> <<>>]]

\* Mutant: newer points go in front of those still in the buffer.
AddItemsInFront(h, points) == [w \in DOMAIN h |-> [h[w] EXCEPT !.items = points \o @]]

AddItems(h, points) == [w \in DOMAIN h |-> [h[w] EXCEPT !.items = @ \o points]]

-----------------------------------------------------------------------------
\* The entry is made and the call answered before anybody is told.
BeginPath(r) ==
  /\ Handles(r, "BeginPath")
  /\ path' = "active" /\ answered' = TRUE /\ telling' = Watchers
  /\ UNCHANGED <<nodes, ears, told, sent, item, foreign, dead>>

TellStarted(w) ==
  /\ w \in telling
  /\ telling' = telling \ {w} /\ told' = told \cup {w}
  /\ UNCHANGED <<requests, answered, path, nodes, ears, sent, item, foreign, dead>>

\* Mutant: the owner of the path is not compared.
ContinuePathOfAnybody(r) ==
  /\ Handles(r, "ContinuePath") /\ path = "active"
  /\ ears' = AddItems(ears, r.points)
  /\ nodes' = nodes \o r.points /\ answered' = (r.c = Drawer)
  /\ UNCHANGED <<sent, path, telling, told, item, foreign, dead>>

\* Whether PATH_FLUSH_TIME has passed since the last flush is left open.  A
\* call on another's path, or on one that is gone, is rejected: no answer.
ContinuePath(r) ==
  /\ Handles(r, "ContinuePath")
  /\ IF path = "active" /\ r.c = Drawer
     THEN LET heard == AddItems(ears, r.points) IN
          /\ answered' = TRUE
          /\ nodes' = nodes \o r.points
          /\ \/ ears' = heard /\ UNCHANGED sent
             \/ ears' = Flushed(heard) /\ SendParts(heard, FALSE)
     ELSE UNCHANGED <<answered, nodes, ears, sent>>
  /\ UNCHANGED <<path, telling, told, item, foreign, dead>>

\* The entry is removed before the owner is compared: a foreign call is
\* rejected, but the path and its listeners are gone.  EmptyPath is an error.
EndPath(r) ==
  /\ Handles(r, "EndPath")
  /\ IF path = "active"
     THEN /\ path' = "gone" /\ ears' = <<>>
          /\ IF r.c = Drawer
             THEN /\ SendParts(ears, TRUE)
                  /\ item' = nodes /\ answered' = (nodes # <<>>) /\ UNCHANGED foreign
             ELSE foreign' = TRUE /\ UNCHANGED <<sent, item, answered>>
     ELSE UNCHANGED <<path, ears, sent, item, answered, foreign>>
  /\ UNCHANGED <<nodes, telling, told, dead>>

\* Mutant: a new listener is not sent the points there are.
GetActivePathFromNow(r) ==
  /\ Handles(r, "GetActivePath") /\ path = "active"
  /\ ears' = [w \in DOMAIN ears \cup {r.c} |->
                IF w = r.c THEN [part |-> 0, items |-> <<>>] ELSE ears[w]]
  /\ UNCHANGED <<sent, answered, path, nodes, telling, told, item, foreign, dead>>

\* todo!() ends the worker when the path is no longer there.
GetActivePath(r) ==
  /\ Handles(r, "GetActivePath")
  /\ IF path = "active"
     THEN LET ear == [part |-> 0, items |-> nodes] IN
          /\ sent' = [sent EXCEPT ![r.c] = Append(@, Part(ear, FALSE))]
          /\ ears' = [w \in DOMAIN ears \cup {r.c} |->
                        IF w = r.c THEN [part |-> 1, items |-> <<>>] ELSE ears[w]]
          /\ UNCHANGED dead
     ELSE dead' = dead + 1 /\ UNCHANGED <<sent, ears>>
  /\ UNCHANGED <<answered, path, nodes, telling, told, item, foreign>>

Serve ==
  \/ \E r \in requests : BeginPath(r) \/ ContinuePath(r) \/ EndPath(r) \/ GetActivePath(r)
  \/ \E w \in telling : TellStarted(w)
=============================================================================
