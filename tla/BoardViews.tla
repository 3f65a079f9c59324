---------------------------- MODULE BoardViews ----------------------------
(***************************************************************************)
(* Board with what its notifications tell each connected client: which     *)
(* items exist, and in whose box each item is drawn (BoardTable, Selection *)
(* and Canvas of the client).  A socket is FIFO, so a view is advanced     *)
(* when a notification is put on it: it is what the client will show when  *)
(* it has read everything sent to it.  A client's own box follows its own  *)
(* calls, not the notifications, and is in Transforms.tla.                 *)
(***************************************************************************)
EXTENDS Board

\* The client never calls DeleteItems, and does not listen to ItemsDeleted.
ASSUME ViewsAssumption == \A call \in Calls : call.m # "DeleteItems"

VARIABLES
  view,    \* view[d][i]: the other client in whose box d draws item i, or Free
  crossed  \* ids about which two handlers crossed (see Meet)

views == <<view, crossed>>

ViewsInit == Init /\ view = Each(<<>>) /\ crossed = {}

-----------------------------------------------------------------------------
\* What d reads when it connects: the items, and the selection of every other
\* client.  An item in two selections is drawn in one of the boxes.  (The real
\* client reads them in several calls; here it is one moment.)
ReadAll(d) ==
  /\ \E f \in [items -> Clients \cup {Free}] :
       /\ \A i \in items :
            LET holders == {c \in Clients \ {d} : i \in selection[c]} IN
            IF holders = {} THEN f[i] = Free ELSE f[i] \in holders
       /\ view' = [view EXCEPT ![d] = f]

\* view[d] with the items of S drawn in the box of c, or on the canvas (Free).
Draw(d, S, c) == [view EXCEPT ![d] = [i \in DOMAIN @ |-> IF i \in S THEN c ELSE @[i]]]

\* ItemCreated: an item the client has already is not added again.
SeeItem(w, d) ==
  view' = [view EXCEPT ![d] = [i \in DOMAIN @ \cup {cur[w]} |-> IF i \in DOMAIN @ THEN @[i] ELSE Free]]

\* Mutant: SelectionItemsAdded names the items asked for, not those kept.
SeeAsked(w, d) ==
  view' = IF msg[w].c = d THEN view ELSE Draw(d, msg[w].items, msg[w].c)

\* SelectionItemsAdded: an item the client does not know is passed over.
SeeAdded(w, d) ==
  view' = IF msg[w].c = d THEN view ELSE Draw(d, done[w] \cap msg[w].items, msg[w].c)

\* SelectionItemsRemoved: the items return to the canvas, whatever box they
\* were in.  The handler ends at the first item the client does not know.
SeeRemoved(w, d) ==
  IF msg[w].c = d THEN UNCHANGED view
  ELSE \E S \in SUBSET done[w] :
         /\ done[w] \subseteq DOMAIN view[d] => S = done[w]
         /\ view' = Draw(d, S, Free)

\* The notification of worker w's handler, at client d.
Receive(w, d) ==
  CASE msg[w].m = "CreateItem"           -> SeeItem(w, d)
    [] msg[w].m = "SelectionAddItems"    -> SeeAdded(w, d)
    [] msg[w].m = "SelectionRemoveItems" -> SeeRemoved(w, d)
    [] OTHER                             -> UNCHANGED view

-----------------------------------------------------------------------------
Busy(w) == pc[w] \notin {"recv", "dead"}

\* crossed is bookkeeping: it records the ids at which two handlers that run at
\* the same time, of whatever clients, could tell their news in either order:
\* one gives up what the other names, or creates it.  A handler about an item
\* still being created may fail at some client for all it names.
Meet(w) ==
  LET r == Head(queue)
      others == {v \in Workers : Busy(v)}
  IN /\ Recv(w)
     /\ crossed' = crossed \cup Met(r, others)
          \cup (IF \E v \in others : msg[v].m = "CreateItem" /\ cur[v] \in Named(r)
                THEN Named(r) ELSE {})
     /\ UNCHANGED view

\* A handler that named the id of the new item before it existed.
Create(w) ==
  /\ AddItem(w)
  /\ crossed' = crossed \cup
       UNION {Named(msg[v]) : v \in {v \in Workers : Busy(v) /\ nextId \in Named(msg[v])}}
  /\ UNCHANGED view

\* try_send_payload: a client without a handle is not told.
Tell(w, d) ==
  /\ Notify(w, d)
  /\ IF handle[d] # 0 THEN Receive(w, d) ELSE UNCHANGED view
  /\ UNCHANGED crossed

Bootstrap(w) ==
  /\ pc[w] = "connect" /\ SetHandle(w) /\ ReadAll(msg[w].c)
  /\ UNCHANGED crossed

ViewsWork(w) ==
  \/ \E d \in tell[w] : Tell(w, d)
  \/ Bootstrap(w) \/ Meet(w) \/ Create(w)
  \/ pc[w] \notin {"notify", "connect", "recv", "addItem"} /\ Work(w) /\ UNCHANGED views

ViewsNext ==
  \/ \E w \in Workers : ViewsWork(w)
  \/ Environment /\ crossed' = (IF boards' = boards THEN crossed ELSE {}) /\ UNCHANGED view
  \/ Stop /\ UNCHANGED views

ViewsSpec == ViewsInit /\ [][ViewsNext]_<<vars, views>>
FairViewsSpec == ViewsSpec /\ \A w \in Workers : WF_<<vars, views>>(ViewsWork(w))

-----------------------------------------------------------------------------
\* The box in which d should draw item i.
Holder(d, i) == IF i \in DOMAIN owner /\ owner[i] # d THEN owner[i] ELSE Free

\* When no handler is at work, each connected client knows the items of the
\* board and draws those at which no handlers crossed in the box of their owner.
ViewsAgree ==
  queue = <<>> /\ (\A w \in Workers : ~Busy(w)) =>
    \A d \in Clients : handle[d] # 0 =>
      /\ DOMAIN view[d] = items
      /\ \A i \in items \ crossed : view[d][i] = Holder(d, i)

\* Objectives v2.md:181: "At any point at which no information remains to be
\* transmitted to or from any client, the complete list of items and their
\* properties held by each client must be exactly identical".  When nothing is
\* left to handle, what each connected client was told is what the board holds.
ViewsConverge ==
  queue = <<>> /\ (\A w \in Workers : ~Busy(w)) =>
    \A d \in Clients : handle[d] # 0 =>
      DOMAIN view[d] = items /\ \A i \in items : view[d][i] = Holder(d, i)
=============================================================================
