------------------------------- MODULE Board -------------------------------
(***************************************************************************)
(* The board of the server (src/project/server/src/board): one unbounded   *)
(* queue of messages, drained by BOARD_TASKS worker tasks that share the   *)
(* table of clients, the table of selectable items and the canvas.  Every  *)
(* handler is cut where it takes or drops a lock or awaits, so handlers of *)
(* different workers interleave as the tasks of the program do.            *)
(*                                                                         *)
(* Transforms, location updates and the contents of items are abstracted:  *)
(* an item is its id, a selection the set of ids it holds.  A list of ids  *)
(* in a call is a set, visited in any order.  Paths are in Paths.tla; here *)
(* a GetActivePath only finds its path or does not.                        *)
(***************************************************************************)
EXTENDS Naturals, Sequences, FiniteSets, Functions

CONSTANTS
  Clients,    \* the client ids a board may hand out
  Workers,    \* the tasks spawned by launch (BOARD_TASKS)
  Free,       \* the owner of an item nobody has selected (None)
  NoOne,      \* the holder of a client entry that is not locked
  NoMsg,      \* the message of a worker waiting in recv
  Calls,      \* the calls a client may make: records of CallType
  InitItems,  \* how many items the loaded canvas has
  MaxCalls,   \* bound: calls made and sockets closed or lost in a behaviour
  MaxConns,   \* bound: sockets opened per client
  MaxBoards   \* bound: boards created on the canvas

Items == Nat \ {0}

Methods == {"SelectionAddItems", "SelectionRemoveItems", "SelectionMove",
            "EditSingleItem", "DeleteItems", "CreateItem", "GetActivePath"}

\* items: the ids a call is about; old: the old_sits of SelectionAddItems.
CallType == [m : Methods, items : SUBSET Items, old : SUBSET Items]

ASSUME ConstantsAssumption ==
  /\ Workers # {}
  /\ Free \notin Clients
  /\ NoOne \notin Workers
  /\ Calls \subseteq CallType
  /\ \A call \in Calls :
       call.m = "EditSingleItem" => \E i \in call.items : call.items = {i}
  /\ InitItems \in Nat /\ MaxCalls \in Nat /\ MaxConns \in Nat
  /\ MaxBoards \in Nat

Kinds == Methods \cup {"SessionRequest", "ClientConnected", "ClientDisconnected"}

\* conn: the socket the message came from (0: the session route).  An edit is
\* about one item.
Msg == {r \in [m : Kinds, c : Clients, items : SUBSET Items, old : SUBSET Items, conn : Nat] :
          r.m = "EditSingleItem" => \E i \in r.items : r.items = {i}}

VARIABLES
  \* ---- the queue and the workers
  queue,      \* the async_channel of BoardMessage
  pc,         \* where each worker is
  msg,        \* the message it handles
  reply,      \* the socket its MethodHandle answers on (0: None)
  todo, done, \* ids its current loop has still to visit; has kept
  cur,        \* the id a two-step operation is at (0: none)
  tell,       \* clients send_notify_c has still to send to
  \* ---- Board and ActiveCanvas
  clients,    \* keys of Board.clients
  clientIds,  \* Board.client_ids
  handle,     \* ClientState.handle (0: None)
  selection,  \* keys of ClientState.selection.items
  lock,       \* worker that holds the entry of a client across steps
  owner,      \* Board.selected_items
  items,      \* keys of ActiveCanvas.items
  itemIds,    \* ActiveCanvas.item_ids
  nextId,     \* ActiveCanvas.next_id
  \* ---- sockets and sessions
  issued,     \* client ids for which a session was asked
  conns,      \* open sockets of each client
  opened,     \* sockets each client has opened
  \* ---- bookkeeping of the model
  calls,      \* calls made and sockets closed or lost so far
  boards,     \* boards created so far
  ghosts,     \* ids the current board listed at creation without an item
  raced       \* ids about which two calls of one client clashed (see Recv)

workerVars == <<pc, msg, reply, todo, done, cur, tell>>
clientVars == <<clients, clientIds, handle, selection, lock>>
canvasVars == <<items, itemIds, nextId>>
socketVars == <<issued, conns, opened, calls>>
boardVars  == <<boards, ghosts, raced>>
vars == <<queue, workerVars, clientVars, owner, canvasVars, socketVars, boardVars>>

-----------------------------------------------------------------------------
Owns(c, i) == i \in DOMAIN owner /\ owner[i] = c

\* The worker is still inside a handler that has effects to make.
CallPhases == {"handle", "check", "take", "lock", "remove", "removing", "editCheck",
               "edit", "delCheck", "unselect", "delete", "addItem", "listItem", "offer",
               "path"}
SessionPhases == {"insert", "register", "connect", "disconnect"}
Labels == {"recv", "dead", "announce", "notify"} \cup CallPhases \cup SessionPhases

Handled(c, w) == pc[w] \in CallPhases /\ msg[w].c = c

Alive == \E w \in Workers : pc[w] # "dead"
Unlocked(c) == lock[c] = NoOne

EditTarget(m) == CHOOSE i \in m.items : TRUE

\* SelectionRemoveItems keeps its entry of selected_items while it waits for
\* the item.
EntryHeld(i) == \E w \in Workers : pc[w] = "removing" /\ cur[w] = i

\* EditSingleItem keeps its get_ref of the item until every client is told.
Holds(w, i) ==
  /\ msg[w] # NoMsg /\ msg[w].m = "EditSingleItem" /\ pc[w] \in {"announce", "notify"}
  /\ EditTarget(msg[w]) = i
ItemHeld(i) == \E w \in Workers : Holds(w, i)

Goto(w, label) == pc' = [pc EXCEPT ![w] = label]

\* The handler returns and the worker loops back to recv.
Return(w) ==
  /\ Goto(w, "recv")
  /\ msg'   = [msg EXCEPT ![w] = NoMsg]
  /\ reply' = [reply EXCEPT ![w] = 0]
  /\ todo'  = [todo EXCEPT ![w] = {}]
  /\ done'  = [done EXCEPT ![w] = {}]
  /\ cur'   = [cur EXCEPT ![w] = 0]
  /\ tell'  = [tell EXCEPT ![w] = {}]

All(v) == [w \in Workers |-> v]
Each(v) == [c \in Clients |-> v]

\* A board on a canvas read from a file: ids 1..InitItems, all present.
Init ==
  /\ items = 1..InitItems /\ itemIds = items /\ nextId = InitItems + 1
  /\ queue = <<>> /\ pc = All("recv") /\ msg = All(NoMsg) /\ reply = All(0)
  /\ todo = All({}) /\ done = All({}) /\ cur = All(0) /\ tell = All({})
  /\ clients = {} /\ clientIds = {} /\ handle = Each(0) /\ selection = Each({})
  /\ lock = Each(NoOne) /\ owner = [i \in itemIds |-> Free]
  /\ issued = {} /\ conns = Each({}) /\ opened = Each(0) /\ calls = 0
  /\ boards = 1 /\ ghosts = {} /\ raced = {}

-----------------------------------------------------------------------------
(* Sockets and sessions: what reaches the queue.  A try_send on the closed *)
(* channel of a board whose workers have all died only logs.               *)

Enqueue(m, c, is, old, k) ==
  queue' = Append(queue, [m |-> m, c |-> c, items |-> is, old |-> old, conn |-> k])

RequestSession(c) ==
  /\ Alive /\ c \notin issued
  /\ issued' = issued \cup {c}
  /\ Enqueue("SessionRequest", c, {}, {}, 0)
  /\ UNCHANGED <<workerVars, clientVars, owner, canvasVars, conns, opened, calls, boardVars>>

Connect(c) ==
  /\ Alive /\ c \in clientIds /\ opened[c] < MaxConns
  /\ opened' = [opened EXCEPT ![c] = @ + 1]
  /\ conns'  = [conns EXCEPT ![c] = @ \cup {opened[c] + 1}]
  /\ Enqueue("ClientConnected", c, {}, {}, opened[c] + 1)
  /\ UNCHANGED <<workerVars, clientVars, owner, canvasVars, issued, calls, boardVars>>

\* A Close frame arrives.
Close(c, k) ==
  /\ Alive /\ k \in conns[c] /\ calls < MaxCalls
  /\ calls' = calls + 1
  /\ conns' = [conns EXCEPT ![c] = @ \ {k}]
  /\ Enqueue("ClientDisconnected", c, {}, {}, k)
  /\ UNCHANGED <<workerVars, clientVars, owner, canvasVars, issued, opened, boardVars>>

\* The socket ends without a Close frame: the board is not told.
LoseSocket(c, k) ==
  /\ k \in conns[c] /\ calls < MaxCalls
  /\ calls' = calls + 1
  /\ conns' = [conns EXCEPT ![c] = @ \ {k}]
  /\ UNCHANGED <<queue, workerVars, clientVars, owner, canvasVars, issued, opened,
                 boardVars>>

\* A client calls whenever it likes: BoardTable awaits the answer to none of
\* the calls that select, move, release or edit.
Send(c, k, call) ==
  /\ Alive /\ k \in conns[c] /\ calls < MaxCalls
  /\ calls' = calls + 1
  /\ Enqueue(call.m, c, call.items, call.old, k)
  /\ UNCHANGED <<workerVars, clientVars, owner, canvasVars, issued, conns, opened, boardVars>>

\* LoadedState::get_or_refresh: every worker has died, so the channel is
\* closed and the next load_board builds a board on the canvas in memory.  The
\* sessions of the dead board stay bound to it.
Refresh ==
  /\ ~Alive /\ boards < MaxBoards
  /\ boards' = boards + 1
  /\ ghosts' = itemIds \ items /\ raced' = {}
  /\ queue' = <<>> /\ pc' = All("recv") /\ msg' = All(NoMsg) /\ reply' = All(0)
  /\ todo' = All({}) /\ done' = All({}) /\ cur' = All(0) /\ tell' = All({})
  /\ clients' = {} /\ clientIds' = {} /\ handle' = Each(0) /\ selection' = Each({})
  /\ lock' = Each(NoOne) /\ owner' = [i \in itemIds |-> Free]
  /\ conns' = Each({})
  /\ UNCHANGED <<canvasVars, issued, opened, calls>>

-----------------------------------------------------------------------------
(* The worker loop and the messages about sessions and sockets.            *)

FirstPhase(m) ==
  CASE m = "SessionRequest"     -> "insert"
    [] m = "ClientConnected"    -> "connect"
    [] m = "ClientDisconnected" -> "disconnect"
    [] OTHER                    -> "handle"

\* Two calls clash when one gives up what the other may just have checked.
Giving == {"SelectionRemoveItems", "DeleteItems"}
Clash(m, n) == m # n /\ {m, n} \cap Giving # {}

Named(r) == r.items \cup r.old

\* The ids that r and a clashing call in one of the workers V both name.
Met(r, V) ==
  {i \in Named(r) : \E v \in V : Clash(msg[v].m, r.m) /\ i \in Named(msg[v])}

\* raced is bookkeeping: it records the ids about which a client has two
\* clashing calls in progress at once.
Recv(w) ==
  LET r == Head(queue) IN
  /\ pc[w] = "recv" /\ queue # <<>>
  /\ msg'   = [msg EXCEPT ![w] = r]
  /\ queue' = Tail(queue)
  /\ raced' = raced \cup Met(r, {v \in Workers : Handled(r.c, v)})
  /\ Goto(w, FirstPhase(r.m))
  /\ UNCHANGED <<reply, todo, done, cur, tell, clientVars, owner, canvasVars,
                 socketVars, boards, ghosts>>

SetHandle(w) ==
  LET c == msg[w].c IN
  /\ pc[w] \in {"connect", "disconnect"} /\ Unlocked(c)
  /\ handle' = [handle EXCEPT ![c] = IF pc[w] = "connect" THEN msg[w].conn ELSE 0]
  /\ Return(w)
  /\ UNCHANGED <<queue, clients, clientIds, selection, lock, owner, canvasVars,
                 socketVars, boardVars>>

InsertClient(w) ==
  /\ pc[w] = "insert"
  /\ clients' = clients \cup {msg[w].c}
  /\ Goto(w, "register")
  /\ UNCHANGED <<queue, msg, reply, todo, done, cur, tell, clientIds, handle,
                 selection, lock, owner, canvasVars, socketVars, boardVars>>

\* client_ids.write() waits for the readers of send_notify_c.  The reply to
\* create_session follows at once: from here on the session is usable.
RegisterClient(w) ==
  /\ pc[w] = "register"
  /\ \A v \in Workers : pc[v] # "notify"
  /\ clientIds' = clientIds \cup {msg[w].c}
  /\ Goto(w, "announce")
  /\ UNCHANGED <<queue, msg, reply, todo, done, cur, tell, clients, handle,
                 selection, lock, owner, canvasVars, socketVars, boardVars>>

-----------------------------------------------------------------------------
(* send_notify_c.  tokio's lock is fair: a reader that comes after a       *)
(* waiting writer waits too.  The entry of each client is taken in turn.   *)
(* Only SelectionMove answers after it; no other local is used again.      *)

StartNotify(w) ==
  /\ pc[w] = "announce"
  /\ \A v \in Workers : pc[v] # "register"
  /\ tell' = [tell EXCEPT ![w] = clientIds]
  /\ reply' = [reply EXCEPT ![w] = 0] /\ todo' = [todo EXCEPT ![w] = {}]
  /\ Goto(w, "notify")
  /\ UNCHANGED <<queue, msg, done, cur, clientVars, owner, canvasVars, socketVars, boardVars>>

\* Mutant: the sender tries again until the client has a handle.
NotifyUntilHeard(w, d) ==
  /\ pc[w] = "notify" /\ d \in tell[w] /\ Unlocked(d)
  /\ IF tell[w] = {d} /\ handle[d] # 0
     THEN Return(w)
     ELSE /\ tell' = [tell EXCEPT ![w] = IF handle[d] = 0 THEN @ ELSE @ \ {d}]
          /\ UNCHANGED <<pc, msg, reply, todo, done, cur>>
  /\ UNCHANGED <<queue, clientVars, owner, canvasVars, socketVars, boardVars>>

Notify(w, d) ==
  /\ pc[w] = "notify" /\ d \in tell[w] /\ Unlocked(d)
  /\ IF tell[w] = {d}
     THEN Return(w)
     ELSE /\ tell' = [tell EXCEPT ![w] = @ \ {d}]
          /\ UNCHANGED <<pc, msg, reply, todo, done, cur>>
  /\ UNCHANGED <<queue, clientVars, owner, canvasVars, socketVars, boardVars>>

-----------------------------------------------------------------------------
(* The methods.                                                            *)

\* Mutant: EditSingleItem does not check the owner.
MethodPhaseEditsAtOnce(m) ==
  CASE m \in {"SelectionAddItems", "SelectionMove"} -> "check"
    [] m = "SelectionRemoveItems"                   -> "lock"
    [] m = "EditSingleItem"                         -> "edit"
    [] m = "DeleteItems"                            -> "delCheck"
    [] m = "CreateItem"                             -> "addItem"
    [] OTHER                                        -> "path"

MethodPhase(m) ==
  CASE m \in {"SelectionAddItems", "SelectionMove"} -> "check"
    [] m = "SelectionRemoveItems"                   -> "lock"
    [] m = "EditSingleItem"                         -> "editCheck"
    [] m = "DeleteItems"                            -> "delCheck"
    [] m = "CreateItem"                             -> "addItem"
    [] OTHER                                        -> "path"

\* create_handle with get_handle: the answer will go to the socket that is
\* the client's handle now.  SelectionAddItems first visits its old_sits.
CreateHandle(w) ==
  LET c == msg[w].c IN
  /\ pc[w] = "handle" /\ Unlocked(c)
  /\ reply' = [reply EXCEPT ![w] = handle[c]]
  /\ todo'  = [todo EXCEPT ![w] = IF msg[w].m = "SelectionAddItems"
                                  THEN msg[w].old ELSE msg[w].items]
  /\ Goto(w, MethodPhase(msg[w].m))
  /\ UNCHANGED <<queue, msg, done, cur, tell, clientVars, owner, canvasVars,
                 socketVars, boardVars>>

\* check_owned, in the loops of SelectionAddItems and SelectionMove.
CheckOwned(w, i) ==
  /\ pc[w] = "check" /\ i \in todo[w] /\ ~EntryHeld(i)
  /\ todo' = [todo EXCEPT ![w] = @ \ {i}]
  /\ done' = IF Owns(msg[w].c, i) THEN [done EXCEPT ![w] = @ \cup {i}] ELSE done
  /\ UNCHANGED <<queue, pc, msg, reply, cur, tell, clientVars, owner, canvasVars,
                 socketVars, boardVars>>

StartTaking(w) ==
  /\ pc[w] = "check" /\ todo[w] = {} /\ msg[w].m = "SelectionAddItems"
  /\ todo' = [todo EXCEPT ![w] = msg[w].items]
  /\ Goto(w, "take")
  /\ UNCHANGED <<queue, msg, reply, done, cur, tell, clientVars, owner, canvasVars,
                 socketVars, boardVars>>

\* Mutant: whoever asks last gets the item.
TakeableFromOthers(c, i) == i \in DOMAIN owner

\* An item is available to c when nobody, or c itself, has selected it.
Takeable(c, i) == i \in DOMAIN owner /\ owner[i] \in {Free, c}

TakeItem(w, i) ==
  LET c == msg[w].c IN
  /\ pc[w] = "take" /\ i \in todo[w] /\ ~EntryHeld(i)
  /\ todo' = [todo EXCEPT ![w] = @ \ {i}]
  /\ IF Takeable(c, i)
     THEN /\ owner' = [owner EXCEPT ![i] = c]
          /\ done'  = [done EXCEPT ![w] = @ \cup {i}]
     ELSE UNCHANGED <<owner, done>>
  /\ UNCHANGED <<queue, pc, msg, reply, cur, tell, clientVars, canvasVars,
                 socketVars, boardVars>>

\* Mutant: the ids asked for go into the selection, not those kept.
UpdateSelectionAsAsked(w) ==
  LET c == msg[w].c IN
  /\ \/ pc[w] = "take"
     \/ pc[w] = "check" /\ msg[w].m = "SelectionMove"
  /\ todo[w] = {} /\ Unlocked(c)
  /\ selection' = [selection EXCEPT ![c] = @ \cup msg[w].items]
  /\ Goto(w, "announce")
  /\ UNCHANGED <<queue, msg, reply, todo, done, cur, tell, clients, clientIds, handle,
                 lock, owner, canvasVars, socketVars, boardVars>>

\* The end of SelectionAddItems and of SelectionMove: the ids kept go into
\* the client's selection.
UpdateSelection(w) ==
  LET c == msg[w].c IN
  /\ \/ pc[w] = "take"
     \/ pc[w] = "check" /\ msg[w].m = "SelectionMove"
  /\ todo[w] = {} /\ Unlocked(c)
  /\ selection' = [selection EXCEPT ![c] = @ \cup done[w]]
  /\ Goto(w, "announce")
  /\ UNCHANGED <<queue, msg, reply, todo, done, cur, tell, clients, clientIds, handle,
                 lock, owner, canvasVars, socketVars, boardVars>>

\* Mutant: the entry is dropped at once and taken again at the end.
LockClientBriefly(w) ==
  /\ pc[w] = "lock" /\ Unlocked(msg[w].c)
  /\ Goto(w, "remove")
  /\ UNCHANGED <<queue, msg, reply, todo, done, cur, tell, clientVars, owner,
                 canvasVars, socketVars, boardVars>>

\* SelectionRemoveItems keeps the entry of its client for the whole loop.
LockClient(w) ==
  LET c == msg[w].c IN
  /\ pc[w] = "lock" /\ Unlocked(c)
  /\ lock' = [lock EXCEPT ![c] = w]
  /\ Goto(w, "remove")
  /\ UNCHANGED <<queue, msg, reply, todo, done, cur, tell, clients, clientIds, handle,
                 selection, owner, canvasVars, socketVars, boardVars>>

\* The loop takes the entry of an item and skips it when the client does not
\* own it: the answer will be an error, and nothing is undone.
PickItem(w, i) ==
  /\ pc[w] = "remove" /\ i \in todo[w] /\ ~EntryHeld(i)
  /\ todo' = [todo EXCEPT ![w] = @ \ {i}]
  /\ IF Owns(msg[w].c, i)
     THEN cur' = [cur EXCEPT ![w] = i] /\ Goto(w, "removing")
     ELSE UNCHANGED <<cur, pc>>
  /\ UNCHANGED <<queue, msg, reply, done, tell, clientVars, owner, canvasVars,
                 socketVars, boardVars>>

\* With the client and the entry locked it waits for the item, places it and
\* frees it.  An item that the canvas lacks is skipped and stays owned.
RemoveItem(w) ==
  LET i == cur[w] IN
  /\ pc[w] = "removing" /\ ~ItemHeld(i)
  /\ IF i \in items
     THEN /\ owner' = [owner EXCEPT ![i] = Free]
          /\ done'  = [done EXCEPT ![w] = @ \cup {i}]
     ELSE UNCHANGED <<owner, done>>
  /\ cur' = [cur EXCEPT ![w] = 0]
  /\ Goto(w, "remove")
  /\ UNCHANGED <<queue, msg, reply, todo, tell, clientVars, canvasVars,
                 socketVars, boardVars>>

FinishRemove(w) ==
  LET c == msg[w].c IN
  /\ pc[w] = "remove" /\ todo[w] = {}
  /\ selection' = [selection EXCEPT ![c] = @ \ done[w]]
  /\ lock' = [lock EXCEPT ![c] = NoOne]
  /\ Goto(w, "announce")
  /\ UNCHANGED <<queue, msg, reply, todo, done, cur, tell, clients, clientIds, handle,
                 owner, canvasVars, socketVars, boardVars>>

\* The entry of selected_items is dropped before the item is looked up.
CheckEdit(w) ==
  /\ pc[w] = "editCheck" /\ ~EntryHeld(EditTarget(msg[w]))
  /\ IF Owns(msg[w].c, EditTarget(msg[w]))
     THEN Goto(w, "edit") /\ UNCHANGED <<msg, reply, todo, done, cur, tell>>
     ELSE Return(w)
  /\ UNCHANGED <<queue, clientVars, owner, canvasVars, socketVars, boardVars>>

\* get_ref(..).unwrap(): a panic ends the worker task.  From here to the end
\* of the notification the worker holds the item.
EditItem(w) ==
  /\ pc[w] = "edit" /\ ~ItemHeld(EditTarget(msg[w]))
  /\ Goto(w, IF EditTarget(msg[w]) \in items THEN "announce" ELSE "dead")
  /\ UNCHANGED <<queue, msg, reply, todo, done, cur, tell, clientVars, owner,
                 canvasVars, socketVars, boardVars>>

\* Mutant: whatever is selectable is deleted.
CheckDeleteAny(w, i) ==
  /\ pc[w] = "delCheck" /\ i \in todo[w] /\ ~EntryHeld(i)
  /\ todo' = [todo EXCEPT ![w] = @ \ {i}]
  /\ IF i \in DOMAIN owner
     THEN cur' = [cur EXCEPT ![w] = i] /\ Goto(w, "unselect")
     ELSE UNCHANGED <<cur, pc>>
  /\ UNCHANGED <<queue, msg, reply, done, tell, clientVars, owner, canvasVars,
                 socketVars, boardVars>>

CheckDelete(w, i) ==
  /\ pc[w] = "delCheck" /\ i \in todo[w] /\ ~EntryHeld(i)
  /\ todo' = [todo EXCEPT ![w] = @ \ {i}]
  /\ IF Owns(msg[w].c, i)
     THEN cur' = [cur EXCEPT ![w] = i] /\ Goto(w, "unselect")
     ELSE UNCHANGED <<cur, pc>>
  /\ UNCHANGED <<queue, msg, reply, done, tell, clientVars, owner, canvasVars,
                 socketVars, boardVars>>

\* Mutant: the item is freed rather than withdrawn.
UnselectOnly(w) ==
  /\ pc[w] = "unselect" /\ ~EntryHeld(cur[w])
  /\ owner' = [owner EXCEPT ![cur[w]] = Free]
  /\ done'  = [done EXCEPT ![w] = @ \cup {cur[w]}]
  /\ cur'   = [cur EXCEPT ![w] = 0]
  /\ Goto(w, "delCheck")
  /\ UNCHANGED <<queue, msg, reply, todo, tell, clientVars, canvasVars,
                 socketVars, boardVars>>

\* selected_items.remove: whoever owns the item by now.
Unselect(w) ==
  /\ pc[w] = "unselect" /\ ~EntryHeld(cur[w])
  /\ owner' = Restrict(owner, DOMAIN owner \ {cur[w]})
  /\ done'  = [done EXCEPT ![w] = @ \cup {cur[w]}]
  /\ cur'   = [cur EXCEPT ![w] = 0]
  /\ Goto(w, "delCheck")
  /\ UNCHANGED <<queue, msg, reply, todo, tell, clientVars, canvasVars,
                 socketVars, boardVars>>

\* Mutant: the deleted items stay in the selection.
DropNothing(w) ==
  /\ pc[w] = "delCheck" /\ todo[w] = {} /\ Unlocked(msg[w].c)
  /\ todo' = [todo EXCEPT ![w] = done[w]]
  /\ Goto(w, IF done[w] = {} THEN "announce" ELSE "delete")
  /\ UNCHANGED <<queue, msg, reply, done, cur, tell, clientVars, owner, canvasVars,
                 socketVars, boardVars>>

DropFromSelection(w) ==
  LET c == msg[w].c IN
  /\ pc[w] = "delCheck" /\ todo[w] = {} /\ Unlocked(c)
  /\ selection' = [selection EXCEPT ![c] = @ \ done[w]]
  /\ todo' = [todo EXCEPT ![w] = done[w]]
  /\ Goto(w, IF done[w] = {} THEN "announce" ELSE "delete")
  /\ UNCHANGED <<queue, msg, reply, done, cur, tell, clients, clientIds, handle,
                 lock, owner, canvasVars, socketVars, boardVars>>

\* ActiveCanvas::delete_item: the table of items only, not item_ids.  It waits
\* for an item that an edit holds.
DeleteItem(w, i) ==
  /\ pc[w] = "delete" /\ i \in todo[w] /\ ~ItemHeld(i)
  /\ items' = items \ {i}
  /\ todo'  = [todo EXCEPT ![w] = @ \ {i}]
  /\ Goto(w, IF todo[w] = {i} THEN "announce" ELSE "delete")
  /\ UNCHANGED <<queue, msg, reply, done, cur, tell, clientVars, owner, itemIds,
                 nextId, socketVars, boardVars>>

\* Mutant: next_id is read, not incremented.
AddItemSameId(w) ==
  /\ pc[w] = "addItem"
  /\ items' = items \cup {nextId}
  /\ cur'   = [cur EXCEPT ![w] = nextId]
  /\ Goto(w, "listItem")
  /\ UNCHANGED <<queue, msg, reply, todo, done, tell, clientVars, owner, itemIds,
                 nextId, socketVars, boardVars>>

\* ActiveCanvas::add_item, then the entry in selected_items.
AddItem(w) ==
  /\ pc[w] = "addItem"
  /\ items'  = items \cup {nextId}
  /\ cur'    = [cur EXCEPT ![w] = nextId]
  /\ nextId' = nextId + 1
  /\ Goto(w, "listItem")
  /\ UNCHANGED <<queue, msg, reply, todo, done, tell, clientVars, owner, itemIds,
                 socketVars, boardVars>>

ListItem(w) ==
  /\ pc[w] = "listItem"
  /\ itemIds' = itemIds \cup {cur[w]}
  /\ Goto(w, "offer")
  /\ UNCHANGED <<queue, msg, reply, todo, done, cur, tell, clientVars, owner, items,
                 nextId, socketVars, boardVars>>

OfferItem(w) ==
  /\ pc[w] = "offer"
  /\ owner' = [i \in DOMAIN owner \cup {cur[w]} |-> IF i = cur[w] THEN Free ELSE owner[i]]
  /\ Goto(w, "announce")
  /\ UNCHANGED <<queue, msg, reply, todo, done, cur, tell, clientVars, canvasVars,
                 socketVars, boardVars>>

\* handle_get_active_path: the path may have ended, and then todo!() panics.
LookUpPath(w) ==
  /\ pc[w] = "path"
  /\ \/ Return(w)
     \/ Goto(w, "dead") /\ UNCHANGED <<msg, reply, todo, done, cur, tell>>
  /\ UNCHANGED <<queue, clientVars, owner, canvasVars, socketVars, boardVars>>

-----------------------------------------------------------------------------
Work(w) ==
  \/ Recv(w) \/ SetHandle(w) \/ InsertClient(w) \/ RegisterClient(w) \/ StartNotify(w)
  \/ \E d \in tell[w] : Notify(w, d)
  \/ CreateHandle(w) \/ StartTaking(w) \/ UpdateSelection(w)
  \/ LockClient(w) \/ RemoveItem(w) \/ FinishRemove(w) \/ CheckEdit(w) \/ EditItem(w)
  \/ Unselect(w) \/ DropFromSelection(w) \/ AddItem(w) \/ ListItem(w) \/ OfferItem(w)
  \/ LookUpPath(w)
  \/ \E i \in todo[w] : \/ CheckOwned(w, i) \/ TakeItem(w, i) \/ PickItem(w, i)
                        \/ CheckDelete(w, i) \/ DeleteItem(w, i)

Environment ==
  \/ \E c \in Clients : RequestSession(c) \/ Connect(c)
  \/ \E c \in Clients : \E k \in conns[c] : Close(c, k) \/ LoseSocket(c, k)
  \/ \E c \in Clients : \E k \in conns[c] : \E call \in Calls : Send(c, k, call)
  \/ Refresh

\* Every worker waits in recv, or has died, and nothing is left to receive:
\* the server is idle, not deadlocked.
Idle ==
  /\ \A w \in Workers : pc[w] \in {"recv", "dead"}
  /\ queue = <<>> \/ ~Alive

\* The two handlers that keep a lock while they wait for another wait for each
\* other: the notification of an edit holds the item and needs the entry of a
\* client, SelectionRemoveItems holds that entry and needs the item.
Clinch ==
  \E v, w \in Workers :
    /\ pc[v] = "notify" /\ pc[w] = "removing"
    /\ Holds(v, cur[w]) /\ msg[w].c \in tell[v]

\* With two workers, what else stops the server is reported as a deadlock.
Stop == (Idle \/ Clinch) /\ UNCHANGED vars

Next == (\E w \in Workers : Work(w)) \/ Environment \/ Stop

\* The runtime keeps polling every task that can go on; clients owe nothing.
Spec == Init /\ [][Next]_vars
FairSpec == Spec /\ \A w \in Workers : WF_vars(Work(w))

-----------------------------------------------------------------------------
(* Properties.                                                             *)

QueueType == queue \in Seq(Msg)

\* A worker outside recv has a message.
WorkersType ==
  /\ pc \in [Workers -> Labels]
  /\ msg \in [Workers -> Msg \cup {NoMsg}]
  /\ \A w \in Workers : pc[w] # "recv" => msg[w] \in Msg
  /\ reply \in [Workers -> Nat]
  /\ todo \in [Workers -> SUBSET Items] /\ done \in [Workers -> SUBSET Items]
  /\ cur \in [Workers -> Nat]
  /\ tell \in [Workers -> SUBSET Clients]

ClientsType ==
  /\ clients \subseteq Clients /\ clientIds \subseteq Clients
  /\ handle \in [Clients -> Nat]
  /\ selection \in [Clients -> SUBSET Items]
  /\ lock \in [Clients -> Workers \cup {NoOne}]

\* Ids in use are below next_id.
CanvasType ==
  /\ nextId \in Items
  /\ items \subseteq 1..(nextId - 1) /\ itemIds \subseteq 1..(nextId - 1)
  /\ DOMAIN owner \subseteq 1..(nextId - 1)
  /\ owner \in [DOMAIN owner -> Clients \cup {Free}]
  /\ \A w \in Workers :
       pc[w] \in {"removing", "unselect", "listItem", "offer"} => cur[w] \in 1..(nextId - 1)

SocketsType ==
  /\ issued \subseteq Clients
  /\ conns \in [Clients -> SUBSET Nat] /\ opened \in [Clients -> Nat]
  /\ calls \in Nat /\ boards \in Nat
  /\ ghosts \subseteq Items /\ raced \subseteq Items

\* Every variable has its type, a worker at work has a message, and no id in
\* use is one that next_id has still to hand out.
TypeOK == QueueType /\ WorkersType /\ ClientsType /\ CanvasType /\ SocketsType

\* What can be selected is on the canvas: CreateItem puts the item on the
\* canvas before it offers it, DeleteItems withdraws it before it deletes it,
\* in every interleaving.  Only ids that outlived their item in item_ids when
\* a board was rebuilt on the canvas escape this.
SelectableExists == DOMAIN owner \ ghosts \subseteq items

\* The two records of a selection agree: when no worker is in a call of c, the
\* ids in its ClientState are those it owns in selected_items.  Otherwise an
\* item is stuck with an owner that does not know of it, or moves with a
\* selection that does not own it.  The calls of one client run concurrently,
\* and what two of them that clash have both named escapes this.
SelectionsMatch ==
  \A c \in Clients : (\A w \in Workers : ~Handled(c, w)) =>
    selection[c] \ raced = {i \in DOMAIN owner : owner[i] = c} \ raced

\* Nobody can see two selections that share an item: what GetClientState may
\* read (an unlocked entry) is disjoint from every other entry so readable,
\* although SelectionRemoveItems frees items before it drops them.
SelectionsDisjoint ==
  \A c, d \in Clients :
    c # d /\ Unlocked(c) /\ Unlocked(d) => selection[c] \cap selection[d] \subseteq raced

\* EditSingleItem replaces an item while its client still owns it, although it
\* gave up the entry of selected_items after checking the owner: only a
\* SelectionRemoveItems or DeleteItems of the same client can come between.
EditsByOwner ==
  \A w \in Workers :
    pc[w] = "edit" => EditTarget(msg[w]) \in raced \/ Owns(msg[w].c, EditTarget(msg[w]))

\* The item EditSingleItem is about to replace is there, so the unwrap is safe,
\* unless the client deletes it at the same time or it was never there.
EditTargetExists ==
  \A w \in Workers :
    pc[w] = "edit" => EditTarget(msg[w]) \in items \cup ghosts \cup raced

\* DeleteItems withdraws no item that another client, or nobody, owns.
DeletesOnlyOwned ==
  \A w \in Workers :
    pc[w] = "unselect" /\ cur[w] \in DOMAIN owner \ raced => owner[cur[w]] = msg[w].c

\* First come, first served: an item goes from one client to another only by
\* way of being free, and a deleted id is never selectable again.
HandsOver ==
  boards' = boards =>
    \A i \in 1..nextId :
      /\ i \in DOMAIN owner /\ i \in DOMAIN owner' =>
           owner'[i] = owner[i] \/ Free \in {owner[i], owner'[i]}
      /\ i \in itemIds /\ i \in DOMAIN owner' /\ i \notin DOMAIN owner =>
           \E w \in Workers : pc[w] = "offer" /\ cur[w] = i
Handover == [][HandsOver]_vars

\* The answer to a call goes to the socket the call came from, if that socket
\* is open: it is not lost and not sent to another socket of the client.
AnswersReachCaller ==
  \A w \in Workers :
    pc[w] \in CallPhases \ {"handle"} /\ msg[w].conn \in conns[msg[w].c] =>
      reply[w] = msg[w].conn

\* Every handler ends, with its worker back in recv or dead: no worker waits
\* for ever on an entry, an item or client_ids, but for the one cyclic wait.
HandlersFinish ==
  \A w \in Workers : pc[w] \notin {"recv", "dead"} ~> pc[w] \in {"recv", "dead"} \/ Clinch

\* What was queued is taken from the queue while a worker lives.
QueueDrains == queue # <<>> ~> queue = <<>> \/ ~Alive \/ Clinch

-----------------------------------------------------------------------------
(* Statements of the documents and comments that the code does not meet.   *)

\* Objectives v2.md:184: "A client should not attempt to edit an item which it
\* has not selected, and any attempt to do so must be rejected".  What
\* EditSingleItem is about to replace, its client has selected.
EditsOnlyByOwner ==
  \A w \in Workers : pc[w] = "edit" => Owns(msg[w].c, EditTarget(msg[w]))

\* Objectives v2.md:178: "Any edits made to existing items should be shared
\* within one second of the edit".  Every client is told of an edit, some day.
EditsAreShared ==
  \A w \in Workers :
    pc[w] = "announce" /\ msg[w].m = "EditSingleItem" ~> pc[w] = "recv"

\* Objectives v2.md:189: "In the case of client-side interruption, a session
\* should be able to be resumed where possible".  At rest, the handle of a
\* client with an open socket is an open socket.
OpenSocketIsHandle ==
  queue = <<>> /\ (\A w \in Workers : pc[w] = "recv") =>
    \A c \in Clients : conns[c] # {} => handle[c] \in conns[c]
=============================================================================
