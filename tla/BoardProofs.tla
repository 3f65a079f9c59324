---------------------------- MODULE BoardProofs ----------------------------
(***************************************************************************)
(* Theorems about Board, for every value of its constants.                 *)
(***************************************************************************)
EXTENDS BoardInvariants, TLAPS

-----------------------------------------------------------------------------
(* Types.                                                                  *)

\* Board starts with every variable of its type.
LEMMA InitTypeOK == Init => TypeOK
  <1> SUFFICES ASSUME Init PROVE TypeOK
    OBVIOUS
  <1> USE DEF Init, All, Each, Items
  <1>1. QueueType
    BY DEF QueueType
  <1>2. WorkersType
    BY DEF WorkersType, Labels
  <1>3. ClientsType
    BY DEF ClientsType
  <1>4. CanvasType
    BY ConstantsAssumption DEF CanvasType
  <1>5. SocketsType
    BY DEF SocketsType
  <1> QED
    BY <1>1, <1>2, <1>3, <1>4, <1>5 DEF TypeOK

\* What Enqueue appends to the queue is a message.
LEMMA EnqueueType ==
  ASSUME QueueType, NEW m \in Kinds, NEW c \in Clients, NEW is \in SUBSET Items,
         NEW old \in SUBSET Items, NEW k \in Nat, Enqueue(m, c, is, old, k),
         m = "EditSingleItem" => \E i \in is : is = {i}
  PROVE  QueueType'
  <1> DEFINE sent == [m |-> m, c |-> c, items |-> is, old |-> old, conn |-> k]
  <1>1. sent \in Msg
    BY DEF Msg
  <1> HIDE DEF sent
  <1>2. queue' = Append(queue, sent)
    BY DEF Enqueue, sent
  <1> QED
    BY <1>1, <1>2 DEF QueueType

\* A step that leaves the workers and the board alone leaves their types.
LEMMA UnchangedTypes ==
  /\ WorkersType /\ UNCHANGED workerVars => WorkersType'
  /\ ClientsType /\ UNCHANGED clientVars => ClientsType'
  /\ CanvasType /\ UNCHANGED <<canvasVars, owner, pc, cur>> => CanvasType'
  /\ SocketsType /\ UNCHANGED <<socketVars, boardVars>> => SocketsType'
  <1>1. WorkersType /\ UNCHANGED workerVars => WorkersType'
    BY DEF WorkersType, workerVars
  <1>2. ClientsType /\ UNCHANGED clientVars => ClientsType'
    BY DEF ClientsType, clientVars
  <1>3. CanvasType /\ UNCHANGED <<canvasVars, owner, pc, cur>> => CanvasType'
    BY DEF CanvasType, canvasVars
  <1>4. SocketsType /\ UNCHANGED <<socketVars, boardVars>> => SocketsType'
    BY DEF SocketsType, socketVars, boardVars
  <1> QED
    BY <1>1, <1>2, <1>3, <1>4

\* Every step of a socket or session, and the rebuilding of a board, keeps types.
LEMMA EnvironmentTypeOK == TypeOK /\ Environment => TypeOK'
  <1> SUFFICES ASSUME TypeOK, Environment PROVE TypeOK'
    OBVIOUS
  <1> USE DEF TypeOK
  <1>0. Methods \subseteq Kinds /\ {} \in SUBSET Items
        /\ {"SessionRequest", "ClientConnected", "ClientDisconnected"} \subseteq Kinds
    BY DEF Kinds
  <1>1. ASSUME NEW c \in Clients, RequestSession(c) PROVE TypeOK'
    <2>1. QueueType'
      BY <1>0, <1>1, EnqueueType DEF RequestSession
    <2>2. SocketsType'
      BY <1>1 DEF RequestSession, SocketsType, boardVars
    <2> QED
      BY <1>1, <2>1, <2>2, UnchangedTypes DEF RequestSession, workerVars
  <1>2. ASSUME NEW c \in Clients, Connect(c) PROVE TypeOK'
    <2>0. opened[c] + 1 \in Nat
      BY DEF SocketsType
    <2>1. QueueType'
      BY <1>0, <1>2, <2>0, EnqueueType DEF Connect
    <2>2. SocketsType'
      BY <1>2, <2>0 DEF Connect, SocketsType, boardVars
    <2> QED
      BY <1>2, <2>1, <2>2, UnchangedTypes DEF Connect, workerVars
  <1>3. ASSUME NEW c \in Clients, NEW k \in conns[c], Close(c, k) PROVE TypeOK'
    <2>0. k \in Nat
      BY DEF SocketsType
    <2>1. QueueType'
      BY <1>0, <1>3, <2>0, EnqueueType DEF Close
    <2>2. SocketsType'
      BY <1>3 DEF Close, SocketsType, boardVars
    <2> QED
      BY <1>3, <2>1, <2>2, UnchangedTypes DEF Close, workerVars
  <1>4. ASSUME NEW c \in Clients, NEW k \in conns[c], LoseSocket(c, k) PROVE TypeOK'
    <2>1. QueueType'
      BY <1>4 DEF LoseSocket, QueueType
    <2>2. SocketsType'
      BY <1>4 DEF LoseSocket, SocketsType, boardVars
    <2> QED
      BY <1>4, <2>1, <2>2, UnchangedTypes DEF LoseSocket, workerVars
  <1>5. ASSUME NEW c \in Clients, NEW k \in conns[c], NEW call \in Calls, Send(c, k, call)
        PROVE TypeOK'
    <2>0. /\ k \in Nat /\ call.m \in Methods /\ call.items \in SUBSET Items
          /\ call.old \in SUBSET Items
          /\ call.m = "EditSingleItem" => \E i \in call.items : call.items = {i}
      BY ConstantsAssumption DEF SocketsType, CallType
    <2>1. QueueType'
      BY <1>0, <1>5, <2>0, EnqueueType DEF Send
    <2>2. SocketsType'
      BY <1>5 DEF Send, SocketsType, boardVars
    <2> QED
      BY <1>5, <2>1, <2>2, UnchangedTypes DEF Send, workerVars
  <1>6. ASSUME Refresh PROVE TypeOK'
    <2> USE <1>6 DEF Refresh, All, Each
    <2>1. QueueType'
      BY DEF QueueType
    <2>2. WorkersType'
      BY DEF WorkersType, Labels
    <2>3. ClientsType'
      BY DEF ClientsType
    <2>4. CanvasType'
      BY DEF CanvasType, canvasVars
    <2>5. SocketsType'
      BY DEF SocketsType, CanvasType, Items
    <2> QED
      BY <2>1, <2>2, <2>3, <2>4, <2>5
  <1> QED
    BY <1>1, <1>2, <1>3, <1>4, <1>5, <1>6 DEF Environment
\* A worker that returns to recv is well-typed.
LEMMA ReturnType ==
  ASSUME WorkersType, NEW w \in Workers, Return(w) PROVE WorkersType'
  BY DEF Return, Goto, WorkersType, Labels

\* Every step of a worker keeps types.
LEMMA WorkTypeOK == ASSUME NEW w0 \in Workers PROVE TypeOK /\ Work(w0) => TypeOK'
  <1> SUFFICES ASSUME TypeOK, Work(w0) PROVE TypeOK'
    OBVIOUS
  <1> USE DEF TypeOK
  <1>1. ASSUME NEW w \in Workers, Recv(w) PROVE TypeOK'
    <2>0. Head(queue) \in Msg
      BY <1>1 DEF Recv, QueueType
    <2>1. QueueType'
      BY <1>1 DEF Recv, QueueType
    <2>2. WorkersType'
      BY <1>1, <2>0 DEF Recv, WorkersType, Goto, Labels, CallPhases, SessionPhases, FirstPhase
    <2>3. CanvasType'
      BY <1>1 DEF Recv, CanvasType, WorkersType, Goto, canvasVars, Items, FirstPhase
    <2>4. SocketsType'
      BY <1>1, <2>0 DEF Recv, SocketsType, socketVars, Met, Named, Msg
    <2> QED
      BY <1>1, <2>1, <2>2, <2>3, <2>4, UnchangedTypes DEF Recv
  <1>2. ASSUME NEW w \in Workers, SetHandle(w) PROVE TypeOK'
    <2>1. WorkersType'
      BY <1>2 DEF SetHandle, WorkersType, Goto, Return, Labels, CallPhases, SessionPhases
    <2>2. ClientsType'
      BY <1>2 DEF SetHandle, ClientsType, WorkersType, Msg
    <2>3. CanvasType'
      BY <1>2 DEF SetHandle, CanvasType, WorkersType, Goto, Return, canvasVars, Items
    <2> QED
      BY <1>2, <2>1, <2>2, <2>3, UnchangedTypes DEF SetHandle, QueueType, canvasVars, workerVars, clientVars, Goto, Return
  <1>3. ASSUME NEW w \in Workers, InsertClient(w) PROVE TypeOK'
    <2>1. WorkersType'
      BY <1>3 DEF InsertClient, WorkersType, Goto, Return, Labels, CallPhases, SessionPhases
    <2>2. ClientsType'
      BY <1>3 DEF InsertClient, ClientsType, WorkersType, Msg
    <2>3. CanvasType'
      BY <1>3 DEF InsertClient, CanvasType, WorkersType, Goto, Return, canvasVars, Items
    <2> QED
      BY <1>3, <2>1, <2>2, <2>3, UnchangedTypes DEF InsertClient, QueueType, canvasVars, workerVars, clientVars, Goto, Return
  <1>4. ASSUME NEW w \in Workers, RegisterClient(w) PROVE TypeOK'
    <2>1. WorkersType'
      BY <1>4 DEF RegisterClient, WorkersType, Goto, Return, Labels, CallPhases, SessionPhases
    <2>2. ClientsType'
      BY <1>4 DEF RegisterClient, ClientsType, WorkersType, Msg
    <2>3. CanvasType'
      BY <1>4 DEF RegisterClient, CanvasType, WorkersType, Goto, Return, canvasVars, Items
    <2> QED
      BY <1>4, <2>1, <2>2, <2>3, UnchangedTypes DEF RegisterClient, QueueType, canvasVars, workerVars, clientVars, Goto, Return
  <1>5. ASSUME NEW w \in Workers, StartNotify(w) PROVE TypeOK'
    <2>1. WorkersType'
      BY <1>5 DEF StartNotify, WorkersType, Goto, Return, Labels, CallPhases, SessionPhases, ClientsType
    <2>2. CanvasType'
      BY <1>5 DEF StartNotify, CanvasType, WorkersType, Goto, Return, canvasVars, Items
    <2> QED
      BY <1>5, <2>1, <2>2, UnchangedTypes DEF StartNotify, QueueType, canvasVars, workerVars, clientVars, Goto, Return
  <1>6. ASSUME NEW w \in Workers, NEW d \in tell[w], Notify(w, d) PROVE TypeOK'
    <2>1. WorkersType'
      <3>1. CASE Return(w)
        BY <3>1, ReturnType
      <3>2. CASE ~Return(w)
        BY <1>6, <3>2 DEF Notify, WorkersType, Goto, Labels, CallPhases, SessionPhases
      <3> QED
        BY <3>1, <3>2
    <2>2. CanvasType'
      BY <1>6 DEF Notify, CanvasType, WorkersType, Goto, Return, canvasVars, Items
    <2> QED
      BY <1>6, <2>1, <2>2, UnchangedTypes DEF Notify, QueueType, canvasVars, workerVars, clientVars, Goto, Return
  <1>7. ASSUME NEW w \in Workers, CreateHandle(w) PROVE TypeOK'
    <2>1. WorkersType'
      BY <1>7 DEF CreateHandle, WorkersType, Goto, Return, Labels, CallPhases, SessionPhases, ClientsType, Msg, MethodPhase
    <2>2. CanvasType'
      BY <1>7 DEF CreateHandle, CanvasType, WorkersType, Goto, Return, canvasVars, Items, MethodPhase
    <2> QED
      BY <1>7, <2>1, <2>2, UnchangedTypes DEF CreateHandle, QueueType, canvasVars, workerVars, clientVars, Goto, Return
  <1>8. ASSUME NEW w \in Workers, StartTaking(w) PROVE TypeOK'
    <2>1. WorkersType'
      BY <1>8 DEF StartTaking, WorkersType, Goto, Return, Labels, CallPhases, SessionPhases, Msg
    <2>2. CanvasType'
      BY <1>8 DEF StartTaking, CanvasType, WorkersType, Goto, Return, canvasVars, Items
    <2> QED
      BY <1>8, <2>1, <2>2, UnchangedTypes DEF StartTaking, QueueType, canvasVars, workerVars, clientVars, Goto, Return
  <1>9. ASSUME NEW w \in Workers, UpdateSelection(w) PROVE TypeOK'
    <2>1. WorkersType'
      BY <1>9 DEF UpdateSelection, WorkersType, Goto, Return, Labels, CallPhases, SessionPhases
    <2>2. ClientsType'
      BY <1>9 DEF UpdateSelection, ClientsType, WorkersType, Msg
    <2>3. CanvasType'
      BY <1>9 DEF UpdateSelection, CanvasType, WorkersType, Goto, Return, canvasVars, Items
    <2> QED
      BY <1>9, <2>1, <2>2, <2>3, UnchangedTypes DEF UpdateSelection, QueueType, canvasVars, workerVars, clientVars, Goto, Return
  <1>10. ASSUME NEW w \in Workers, LockClient(w) PROVE TypeOK'
    <2>1. WorkersType'
      BY <1>10 DEF LockClient, WorkersType, Goto, Return, Labels, CallPhases, SessionPhases
    <2>2. ClientsType'
      BY <1>10 DEF LockClient, ClientsType, WorkersType, Msg
    <2>3. CanvasType'
      BY <1>10 DEF LockClient, CanvasType, WorkersType, Goto, Return, canvasVars, Items
    <2> QED
      BY <1>10, <2>1, <2>2, <2>3, UnchangedTypes DEF LockClient, QueueType, canvasVars, workerVars, clientVars, Goto, Return
  <1>11. ASSUME NEW w \in Workers, FinishRemove(w) PROVE TypeOK'
    <2>1. WorkersType'
      BY <1>11 DEF FinishRemove, WorkersType, Goto, Return, Labels, CallPhases, SessionPhases
    <2>2. ClientsType'
      BY <1>11 DEF FinishRemove, ClientsType, WorkersType, Msg
    <2>3. CanvasType'
      BY <1>11 DEF FinishRemove, CanvasType, WorkersType, Goto, Return, canvasVars, Items
    <2> QED
      BY <1>11, <2>1, <2>2, <2>3, UnchangedTypes DEF FinishRemove, QueueType, canvasVars, workerVars, clientVars, Goto, Return
  <1>12. ASSUME NEW w \in Workers, CheckEdit(w) PROVE TypeOK'
    <2>1. WorkersType'
      <3>1. CASE Return(w)
        BY <3>1, ReturnType
      <3>2. CASE ~Return(w)
        BY <1>12, <3>2 DEF CheckEdit, WorkersType, Goto, Labels, CallPhases, SessionPhases
      <3> QED
        BY <3>1, <3>2
    <2>2. CanvasType'
      BY <1>12 DEF CheckEdit, CanvasType, WorkersType, Goto, Return, canvasVars, Items
    <2> QED
      BY <1>12, <2>1, <2>2, UnchangedTypes DEF CheckEdit, QueueType, canvasVars, workerVars, clientVars, Goto, Return
  <1>13. ASSUME NEW w \in Workers, EditItem(w) PROVE TypeOK'
    <2>1. WorkersType'
      BY <1>13 DEF EditItem, WorkersType, Goto, Return, Labels, CallPhases, SessionPhases
    <2>2. CanvasType'
      BY <1>13 DEF EditItem, CanvasType, WorkersType, Goto, Return, canvasVars, Items
    <2> QED
      BY <1>13, <2>1, <2>2, UnchangedTypes DEF EditItem, QueueType, canvasVars, workerVars, clientVars, Goto, Return
  <1>14. ASSUME NEW w \in Workers, Unselect(w) PROVE TypeOK'
    <2>1. WorkersType'
      BY <1>14 DEF Unselect, WorkersType, Goto, Return, Labels, CallPhases, SessionPhases, CanvasType, Items
    <2>2. CanvasType'
      BY <1>14 DEF Unselect, CanvasType, WorkersType, Goto, Return, canvasVars, Items, Restrict
    <2> QED
      BY <1>14, <2>1, <2>2, UnchangedTypes DEF Unselect, QueueType, canvasVars, workerVars, clientVars, Goto, Return
  <1>15. ASSUME NEW w \in Workers, DropFromSelection(w) PROVE TypeOK'
    <2>1. WorkersType'
      BY <1>15 DEF DropFromSelection, WorkersType, Goto, Return, Labels, CallPhases, SessionPhases
    <2>2. ClientsType'
      BY <1>15 DEF DropFromSelection, ClientsType, WorkersType, Msg
    <2>3. CanvasType'
      BY <1>15 DEF DropFromSelection, CanvasType, WorkersType, Goto, Return, canvasVars, Items
    <2> QED
      BY <1>15, <2>1, <2>2, <2>3, UnchangedTypes DEF DropFromSelection, QueueType, canvasVars, workerVars, clientVars, Goto, Return
  <1>16. ASSUME NEW w \in Workers, AddItem(w) PROVE TypeOK'
    <2>1. WorkersType'
      BY <1>16 DEF AddItem, WorkersType, Goto, Return, Labels, CallPhases, SessionPhases, CanvasType, Items
    <2>2. CanvasType'
      BY <1>16 DEF AddItem, CanvasType, WorkersType, Goto, Return, canvasVars, Items
    <2> QED
      BY <1>16, <2>1, <2>2, UnchangedTypes DEF AddItem, QueueType, canvasVars, workerVars, clientVars, Goto, Return
  <1>17. ASSUME NEW w \in Workers, ListItem(w) PROVE TypeOK'
    <2>1. WorkersType'
      BY <1>17 DEF ListItem, WorkersType, Goto, Return, Labels, CallPhases, SessionPhases
    <2>2. CanvasType'
      BY <1>17 DEF ListItem, CanvasType, WorkersType, Goto, Return, canvasVars, Items
    <2> QED
      BY <1>17, <2>1, <2>2, UnchangedTypes DEF ListItem, QueueType, canvasVars, workerVars, clientVars, Goto, Return
  <1>18. ASSUME NEW w \in Workers, OfferItem(w) PROVE TypeOK'
    <2>1. WorkersType'
      BY <1>18 DEF OfferItem, WorkersType, Goto, Return, Labels, CallPhases, SessionPhases
    <2>2. CanvasType'
      BY <1>18 DEF OfferItem, CanvasType, WorkersType, Goto, Return, canvasVars, Items
    <2> QED
      BY <1>18, <2>1, <2>2, UnchangedTypes DEF OfferItem, QueueType, canvasVars, workerVars, clientVars, Goto, Return
  <1>19. ASSUME NEW w \in Workers, LookUpPath(w) PROVE TypeOK'
    <2>1. WorkersType'
      <3>1. CASE Return(w)
        BY <3>1, ReturnType
      <3>2. CASE ~Return(w)
        BY <1>19, <3>2 DEF LookUpPath, WorkersType, Goto, Labels, CallPhases, SessionPhases
      <3> QED
        BY <3>1, <3>2
    <2>2. CanvasType'
      BY <1>19 DEF LookUpPath, CanvasType, WorkersType, Goto, Return, canvasVars, Items
    <2> QED
      BY <1>19, <2>1, <2>2, UnchangedTypes DEF LookUpPath, QueueType, canvasVars, workerVars, clientVars, Goto, Return
  <1>20. ASSUME NEW w \in Workers, NEW i \in todo[w], CheckOwned(w, i) PROVE TypeOK'
    <2>1. WorkersType'
      BY <1>20 DEF CheckOwned, WorkersType, Goto, Return, Labels, CallPhases, SessionPhases
    <2> QED
      BY <1>20, <2>1, UnchangedTypes DEF CheckOwned, QueueType, canvasVars, workerVars, clientVars, Goto, Return
  <1>21. ASSUME NEW w \in Workers, NEW i \in todo[w], TakeItem(w, i) PROVE TypeOK'
    <2>1. WorkersType'
      BY <1>21 DEF TakeItem, WorkersType, Goto, Return, Labels, CallPhases, SessionPhases
    <2>2. CanvasType'
      BY <1>21 DEF TakeItem, CanvasType, WorkersType, Goto, Return, canvasVars, Items, Takeable, Msg
    <2> QED
      BY <1>21, <2>1, <2>2, UnchangedTypes DEF TakeItem, QueueType, canvasVars, workerVars, clientVars, Goto, Return
  <1>22. ASSUME NEW w \in Workers, NEW i \in todo[w], PickItem(w, i) PROVE TypeOK'
    <2>1. WorkersType'
      BY <1>22 DEF PickItem, WorkersType, Goto, Return, Labels, CallPhases, SessionPhases, Items
    <2>2. CanvasType'
      BY <1>22 DEF PickItem, CanvasType, WorkersType, Goto, Return, canvasVars, Items, Owns
    <2> QED
      BY <1>22, <2>1, <2>2, UnchangedTypes DEF PickItem, QueueType, canvasVars, workerVars, clientVars, Goto, Return
  <1>23. ASSUME NEW w \in Workers, NEW i \in todo[w], CheckDelete(w, i) PROVE TypeOK'
    <2>1. WorkersType'
      BY <1>23 DEF CheckDelete, WorkersType, Goto, Return, Labels, CallPhases, SessionPhases, Items
    <2>2. CanvasType'
      BY <1>23 DEF CheckDelete, CanvasType, WorkersType, Goto, Return, canvasVars, Items, Owns
    <2> QED
      BY <1>23, <2>1, <2>2, UnchangedTypes DEF CheckDelete, QueueType, canvasVars, workerVars, clientVars, Goto, Return
  <1>24. ASSUME NEW w \in Workers, NEW i \in todo[w], DeleteItem(w, i) PROVE TypeOK'
    <2>1. WorkersType'
      BY <1>24 DEF DeleteItem, WorkersType, Goto, Return, Labels, CallPhases, SessionPhases
    <2>2. CanvasType'
      BY <1>24 DEF DeleteItem, CanvasType, WorkersType, Goto, Return, canvasVars, Items
    <2> QED
      BY <1>24, <2>1, <2>2, UnchangedTypes DEF DeleteItem, QueueType, canvasVars, workerVars, clientVars, Goto, Return
  <1>25. ASSUME NEW w \in Workers, RemoveItem(w) PROVE TypeOK'
    <2>1. WorkersType'
      BY <1>25 DEF RemoveItem, WorkersType, Goto, Return, Labels, CallPhases, SessionPhases, CanvasType, Items
    <2>2. CanvasType'
      BY <1>25 DEF RemoveItem, CanvasType, WorkersType, Goto, Return, canvasVars, Items, Owns
    <2> QED
      BY <1>25, <2>1, <2>2, UnchangedTypes DEF RemoveItem, QueueType, canvasVars, workerVars, clientVars, Goto, Return
  <1> QED
    BY <1>1, <1>2, <1>3, <1>4, <1>5, <1>6, <1>7, <1>8, <1>9, <1>10, <1>11, <1>12, <1>13, <1>14, <1>15, <1>16, <1>17, <1>18, <1>19, <1>20, <1>21, <1>22, <1>23, <1>24, <1>25 DEF Work

-----------------------------------------------------------------------------
(* Items.                                                                  *)

itemsVars == <<pc, todo, done, cur, owner, items, nextId, ghosts>>

\* A step that touches neither the items nor the loops of the workers.
LEMMA UnchangedItems == ItemsInv /\ UNCHANGED itemsVars => ItemsInv'
  BY DEF ItemsInv, NothingKept, FreshIds, DeletedWithdrawn, SelectableExists, Fresh, Deleting, itemsVars

\* A board starts with what it lists, and a rebuilt one lists ghosts besides.
LEMMA EnvironmentItems == TypeOK /\ ItemsInv /\ Environment => ItemsInv'
  <1> SUFFICES ASSUME TypeOK, ItemsInv, Environment PROVE ItemsInv'
    OBVIOUS
  <1>1. CASE Refresh
    BY <1>1 DEF Refresh, All, ItemsInv, NothingKept, FreshIds, DeletedWithdrawn, SelectableExists, Fresh, Deleting, canvasVars
  <1>2. CASE ~Refresh
    <2>1. UNCHANGED itemsVars
      BY <1>2 DEF Environment, RequestSession, Connect, Close, LoseSocket, Send, itemsVars, workerVars, canvasVars, boardVars
    <2> QED
      BY <2>1, UnchangedItems
  <1> QED
    BY <1>1, <1>2

\* Every step of a worker keeps the invariant of items.
LEMMA WorkItems == ASSUME NEW w0 \in Workers PROVE TypeOK /\ ItemsInv /\ Work(w0) => ItemsInv'
  <1> SUFFICES ASSUME TypeOK, ItemsInv, Work(w0) PROVE ItemsInv'
    OBVIOUS
  <1> USE DEF TypeOK, ItemsInv
  <1>1. ASSUME NEW w \in Workers, Recv(w) PROVE ItemsInv'
    <2>1. NothingKept'
      BY <1>1 DEF Recv, NothingKept, WorkersType, Goto, Return, canvasVars, boardVars, workerVars, FirstPhase
    <2>2. FreshIds'
      BY <1>1 DEF Recv, FreshIds, WorkersType, CanvasType, Fresh, Items, Goto, Return, canvasVars, boardVars, workerVars, FirstPhase, NothingKept, DeletedWithdrawn, Deleting, SelectableExists
    <2>3. DeletedWithdrawn'
      BY <1>1 DEF Recv, DeletedWithdrawn, WorkersType, Deleting, Goto, Return, canvasVars, boardVars, workerVars, FirstPhase, NothingKept, FreshIds, Fresh
    <2>4. SelectableExists'
      BY <1>1 DEF Recv, SelectableExists, Goto, Return, canvasVars, boardVars, workerVars, FirstPhase, FreshIds, DeletedWithdrawn, Fresh, WorkersType, Deleting
    <2> QED
      BY <2>1, <2>2, <2>3, <2>4
  <1>2. ASSUME NEW w \in Workers, SetHandle(w) PROVE ItemsInv'
    <2>1. NothingKept'
      BY <1>2 DEF SetHandle, NothingKept, WorkersType, Goto, Return, canvasVars, boardVars, workerVars
    <2>2. FreshIds'
      BY <1>2 DEF SetHandle, FreshIds, WorkersType, CanvasType, Fresh, Items, Goto, Return, canvasVars, boardVars, workerVars, NothingKept, DeletedWithdrawn, Deleting, SelectableExists
    <2>3. DeletedWithdrawn'
      BY <1>2 DEF SetHandle, DeletedWithdrawn, WorkersType, Deleting, Goto, Return, canvasVars, boardVars, workerVars, NothingKept, FreshIds, Fresh
    <2>4. SelectableExists'
      BY <1>2 DEF SetHandle, SelectableExists, Goto, Return, canvasVars, boardVars, workerVars, FreshIds, DeletedWithdrawn, Fresh, WorkersType, Deleting
    <2> QED
      BY <2>1, <2>2, <2>3, <2>4
  <1>3. ASSUME NEW w \in Workers, InsertClient(w) PROVE ItemsInv'
    <2>1. NothingKept'
      BY <1>3 DEF InsertClient, NothingKept, WorkersType, Goto, Return, canvasVars, boardVars, workerVars
    <2>2. FreshIds'
      BY <1>3 DEF InsertClient, FreshIds, WorkersType, CanvasType, Fresh, Items, Goto, Return, canvasVars, boardVars, workerVars, NothingKept, DeletedWithdrawn, Deleting, SelectableExists
    <2>3. DeletedWithdrawn'
      BY <1>3 DEF InsertClient, DeletedWithdrawn, WorkersType, Deleting, Goto, Return, canvasVars, boardVars, workerVars, NothingKept, FreshIds, Fresh
    <2>4. SelectableExists'
      BY <1>3 DEF InsertClient, SelectableExists, Goto, Return, canvasVars, boardVars, workerVars, FreshIds, DeletedWithdrawn, Fresh, WorkersType, Deleting
    <2> QED
      BY <2>1, <2>2, <2>3, <2>4
  <1>4. ASSUME NEW w \in Workers, RegisterClient(w) PROVE ItemsInv'
    <2>1. NothingKept'
      BY <1>4 DEF RegisterClient, NothingKept, WorkersType, Goto, Return, canvasVars, boardVars, workerVars
    <2>2. FreshIds'
      BY <1>4 DEF RegisterClient, FreshIds, WorkersType, CanvasType, Fresh, Items, Goto, Return, canvasVars, boardVars, workerVars, NothingKept, DeletedWithdrawn, Deleting, SelectableExists
    <2>3. DeletedWithdrawn'
      BY <1>4 DEF RegisterClient, DeletedWithdrawn, WorkersType, Deleting, Goto, Return, canvasVars, boardVars, workerVars, NothingKept, FreshIds, Fresh
    <2>4. SelectableExists'
      BY <1>4 DEF RegisterClient, SelectableExists, Goto, Return, canvasVars, boardVars, workerVars, FreshIds, DeletedWithdrawn, Fresh, WorkersType, Deleting
    <2> QED
      BY <2>1, <2>2, <2>3, <2>4
  <1>5. ASSUME NEW w \in Workers, StartNotify(w) PROVE ItemsInv'
    <2>1. NothingKept'
      BY <1>5 DEF StartNotify, NothingKept, WorkersType, Goto, Return, canvasVars, boardVars, workerVars
    <2>2. FreshIds'
      BY <1>5 DEF StartNotify, FreshIds, WorkersType, CanvasType, Fresh, Items, Goto, Return, canvasVars, boardVars, workerVars, NothingKept, DeletedWithdrawn, Deleting, SelectableExists
    <2>3. DeletedWithdrawn'
      BY <1>5 DEF StartNotify, DeletedWithdrawn, WorkersType, Deleting, Goto, Return, canvasVars, boardVars, workerVars, NothingKept, FreshIds, Fresh
    <2>4. SelectableExists'
      BY <1>5 DEF StartNotify, SelectableExists, Goto, Return, canvasVars, boardVars, workerVars, FreshIds, DeletedWithdrawn, Fresh, WorkersType, Deleting
    <2> QED
      BY <2>1, <2>2, <2>3, <2>4
  <1>6. ASSUME NEW w \in Workers, NEW d \in tell[w], Notify(w, d) PROVE ItemsInv'
    <2>1. NothingKept'
      BY <1>6 DEF Notify, NothingKept, WorkersType, Goto, Return, canvasVars, boardVars, workerVars
    <2>2. FreshIds'
      BY <1>6 DEF Notify, FreshIds, WorkersType, CanvasType, Fresh, Items, Goto, Return, canvasVars, boardVars, workerVars, NothingKept, DeletedWithdrawn, Deleting, SelectableExists
    <2>3. DeletedWithdrawn'
      BY <1>6 DEF Notify, DeletedWithdrawn, WorkersType, Deleting, Goto, Return, canvasVars, boardVars, workerVars, NothingKept, FreshIds, Fresh
    <2>4. SelectableExists'
      BY <1>6 DEF Notify, SelectableExists, Goto, Return, canvasVars, boardVars, workerVars, FreshIds, DeletedWithdrawn, Fresh, WorkersType, Deleting
    <2> QED
      BY <2>1, <2>2, <2>3, <2>4
  <1>7. ASSUME NEW w \in Workers, CreateHandle(w) PROVE ItemsInv'
    <2>1. NothingKept'
      BY <1>7 DEF CreateHandle, NothingKept, WorkersType, Goto, Return, canvasVars, boardVars, workerVars, MethodPhase
    <2>2. FreshIds'
      BY <1>7 DEF CreateHandle, FreshIds, WorkersType, CanvasType, Fresh, Items, Goto, Return, canvasVars, boardVars, workerVars, MethodPhase, NothingKept, DeletedWithdrawn, Deleting, SelectableExists
    <2>3. DeletedWithdrawn'
      BY <1>7 DEF CreateHandle, DeletedWithdrawn, WorkersType, Deleting, Goto, Return, canvasVars, boardVars, workerVars, MethodPhase, NothingKept, FreshIds, Fresh
    <2>4. SelectableExists'
      BY <1>7 DEF CreateHandle, SelectableExists, Goto, Return, canvasVars, boardVars, workerVars, MethodPhase, FreshIds, DeletedWithdrawn, Fresh, WorkersType, Deleting
    <2> QED
      BY <2>1, <2>2, <2>3, <2>4
  <1>8. ASSUME NEW w \in Workers, StartTaking(w) PROVE ItemsInv'
    <2>1. NothingKept'
      BY <1>8 DEF StartTaking, NothingKept, WorkersType, Goto, Return, canvasVars, boardVars, workerVars
    <2>2. FreshIds'
      BY <1>8 DEF StartTaking, FreshIds, WorkersType, CanvasType, Fresh, Items, Goto, Return, canvasVars, boardVars, workerVars, NothingKept, DeletedWithdrawn, Deleting, SelectableExists
    <2>3. DeletedWithdrawn'
      BY <1>8 DEF StartTaking, DeletedWithdrawn, WorkersType, Deleting, Goto, Return, canvasVars, boardVars, workerVars, NothingKept, FreshIds, Fresh
    <2>4. SelectableExists'
      BY <1>8 DEF StartTaking, SelectableExists, Goto, Return, canvasVars, boardVars, workerVars, FreshIds, DeletedWithdrawn, Fresh, WorkersType, Deleting
    <2> QED
      BY <2>1, <2>2, <2>3, <2>4
  <1>9. ASSUME NEW w \in Workers, UpdateSelection(w) PROVE ItemsInv'
    <2>1. NothingKept'
      BY <1>9 DEF UpdateSelection, NothingKept, WorkersType, Goto, Return, canvasVars, boardVars, workerVars
    <2>2. FreshIds'
      BY <1>9 DEF UpdateSelection, FreshIds, WorkersType, CanvasType, Fresh, Items, Goto, Return, canvasVars, boardVars, workerVars, NothingKept, DeletedWithdrawn, Deleting, SelectableExists
    <2>3. DeletedWithdrawn'
      BY <1>9 DEF UpdateSelection, DeletedWithdrawn, WorkersType, Deleting, Goto, Return, canvasVars, boardVars, workerVars, NothingKept, FreshIds, Fresh
    <2>4. SelectableExists'
      BY <1>9 DEF UpdateSelection, SelectableExists, Goto, Return, canvasVars, boardVars, workerVars, FreshIds, DeletedWithdrawn, Fresh, WorkersType, Deleting
    <2> QED
      BY <2>1, <2>2, <2>3, <2>4
  <1>10. ASSUME NEW w \in Workers, LockClient(w) PROVE ItemsInv'
    <2>1. NothingKept'
      BY <1>10 DEF LockClient, NothingKept, WorkersType, Goto, Return, canvasVars, boardVars, workerVars
    <2>2. FreshIds'
      BY <1>10 DEF LockClient, FreshIds, WorkersType, CanvasType, Fresh, Items, Goto, Return, canvasVars, boardVars, workerVars, NothingKept, DeletedWithdrawn, Deleting, SelectableExists
    <2>3. DeletedWithdrawn'
      BY <1>10 DEF LockClient, DeletedWithdrawn, WorkersType, Deleting, Goto, Return, canvasVars, boardVars, workerVars, NothingKept, FreshIds, Fresh
    <2>4. SelectableExists'
      BY <1>10 DEF LockClient, SelectableExists, Goto, Return, canvasVars, boardVars, workerVars, FreshIds, DeletedWithdrawn, Fresh, WorkersType, Deleting
    <2> QED
      BY <2>1, <2>2, <2>3, <2>4
  <1>11. ASSUME NEW w \in Workers, FinishRemove(w) PROVE ItemsInv'
    <2>1. NothingKept'
      BY <1>11 DEF FinishRemove, NothingKept, WorkersType, Goto, Return, canvasVars, boardVars, workerVars
    <2>2. FreshIds'
      BY <1>11 DEF FinishRemove, FreshIds, WorkersType, CanvasType, Fresh, Items, Goto, Return, canvasVars, boardVars, workerVars, NothingKept, DeletedWithdrawn, Deleting, SelectableExists
    <2>3. DeletedWithdrawn'
      BY <1>11 DEF FinishRemove, DeletedWithdrawn, WorkersType, Deleting, Goto, Return, canvasVars, boardVars, workerVars, NothingKept, FreshIds, Fresh
    <2>4. SelectableExists'
      BY <1>11 DEF FinishRemove, SelectableExists, Goto, Return, canvasVars, boardVars, workerVars, FreshIds, DeletedWithdrawn, Fresh, WorkersType, Deleting
    <2> QED
      BY <2>1, <2>2, <2>3, <2>4
  <1>12. ASSUME NEW w \in Workers, CheckEdit(w) PROVE ItemsInv'
    <2>1. NothingKept'
      BY <1>12 DEF CheckEdit, NothingKept, WorkersType, Goto, Return, canvasVars, boardVars, workerVars
    <2>2. FreshIds'
      BY <1>12 DEF CheckEdit, FreshIds, WorkersType, CanvasType, Fresh, Items, Goto, Return, canvasVars, boardVars, workerVars, NothingKept, DeletedWithdrawn, Deleting, SelectableExists
    <2>3. DeletedWithdrawn'
      BY <1>12 DEF CheckEdit, DeletedWithdrawn, WorkersType, Deleting, Goto, Return, canvasVars, boardVars, workerVars, NothingKept, FreshIds, Fresh
    <2>4. SelectableExists'
      BY <1>12 DEF CheckEdit, SelectableExists, Goto, Return, canvasVars, boardVars, workerVars, FreshIds, DeletedWithdrawn, Fresh, WorkersType, Deleting
    <2> QED
      BY <2>1, <2>2, <2>3, <2>4
  <1>13. ASSUME NEW w \in Workers, EditItem(w) PROVE ItemsInv'
    <2>1. NothingKept'
      BY <1>13 DEF EditItem, NothingKept, WorkersType, Goto, Return, canvasVars, boardVars, workerVars
    <2>2. FreshIds'
      BY <1>13 DEF EditItem, FreshIds, WorkersType, CanvasType, Fresh, Items, Goto, Return, canvasVars, boardVars, workerVars, NothingKept, DeletedWithdrawn, Deleting, SelectableExists
    <2>3. DeletedWithdrawn'
      BY <1>13 DEF EditItem, DeletedWithdrawn, WorkersType, Deleting, Goto, Return, canvasVars, boardVars, workerVars, NothingKept, FreshIds, Fresh
    <2>4. SelectableExists'
      BY <1>13 DEF EditItem, SelectableExists, Goto, Return, canvasVars, boardVars, workerVars, FreshIds, DeletedWithdrawn, Fresh, WorkersType, Deleting
    <2> QED
      BY <2>1, <2>2, <2>3, <2>4
  <1>14. ASSUME NEW w \in Workers, Unselect(w) PROVE ItemsInv'
    <2>1. NothingKept'
      BY <1>14 DEF Unselect, NothingKept, WorkersType, Goto, Return, canvasVars, boardVars, workerVars, Restrict
    <2>2. FreshIds'
      BY <1>14 DEF Unselect, FreshIds, WorkersType, CanvasType, Fresh, Items, Goto, Return, canvasVars, boardVars, workerVars, Restrict, NothingKept, DeletedWithdrawn, Deleting, SelectableExists
    <2>3. DeletedWithdrawn'
      BY <1>14 DEF Unselect, DeletedWithdrawn, WorkersType, Deleting, Goto, Return, canvasVars, boardVars, workerVars, Restrict, NothingKept, FreshIds, Fresh
    <2>4. SelectableExists'
      BY <1>14 DEF Unselect, SelectableExists, Goto, Return, canvasVars, boardVars, workerVars, Restrict, FreshIds, DeletedWithdrawn, Fresh, WorkersType, Deleting
    <2> QED
      BY <2>1, <2>2, <2>3, <2>4
  <1>15. ASSUME NEW w \in Workers, DropFromSelection(w) PROVE ItemsInv'
    <2>1. NothingKept'
      BY <1>15 DEF DropFromSelection, NothingKept, WorkersType, Goto, Return, canvasVars, boardVars, workerVars
    <2>2. FreshIds'
      BY <1>15 DEF DropFromSelection, FreshIds, WorkersType, CanvasType, Fresh, Items, Goto, Return, canvasVars, boardVars, workerVars, NothingKept, DeletedWithdrawn, Deleting, SelectableExists
    <2>3. DeletedWithdrawn'
      BY <1>15 DEF DropFromSelection, DeletedWithdrawn, WorkersType, Deleting, Goto, Return, canvasVars, boardVars, workerVars, NothingKept, FreshIds, Fresh
    <2>4. SelectableExists'
      BY <1>15 DEF DropFromSelection, SelectableExists, Goto, Return, canvasVars, boardVars, workerVars, FreshIds, DeletedWithdrawn, Fresh, WorkersType, Deleting
    <2> QED
      BY <2>1, <2>2, <2>3, <2>4
  <1>16. ASSUME NEW w \in Workers, AddItem(w) PROVE ItemsInv'
    <2>1. NothingKept'
      BY <1>16 DEF AddItem, NothingKept, WorkersType, Goto, Return, canvasVars, boardVars, workerVars
    <2>2. FreshIds'
      BY <1>16 DEF AddItem, FreshIds, WorkersType, CanvasType, Fresh, Items, Goto, Return, canvasVars, boardVars, workerVars, NothingKept, DeletedWithdrawn, Deleting, SelectableExists
    <2>3. DeletedWithdrawn'
      BY <1>16 DEF AddItem, DeletedWithdrawn, WorkersType, Deleting, Goto, Return, canvasVars, boardVars, workerVars, NothingKept, FreshIds, Fresh
    <2>4. SelectableExists'
      BY <1>16 DEF AddItem, SelectableExists, Goto, Return, canvasVars, boardVars, workerVars, FreshIds, DeletedWithdrawn, Fresh, WorkersType, Deleting
    <2> QED
      BY <2>1, <2>2, <2>3, <2>4
  <1>17. ASSUME NEW w \in Workers, ListItem(w) PROVE ItemsInv'
    <2>1. NothingKept'
      BY <1>17 DEF ListItem, NothingKept, WorkersType, Goto, Return, canvasVars, boardVars, workerVars
    <2>2. FreshIds'
      BY <1>17 DEF ListItem, FreshIds, WorkersType, CanvasType, Fresh, Items, Goto, Return, canvasVars, boardVars, workerVars, NothingKept, DeletedWithdrawn, Deleting, SelectableExists
    <2>3. DeletedWithdrawn'
      BY <1>17 DEF ListItem, DeletedWithdrawn, WorkersType, Deleting, Goto, Return, canvasVars, boardVars, workerVars, NothingKept, FreshIds, Fresh
    <2>4. SelectableExists'
      BY <1>17 DEF ListItem, SelectableExists, Goto, Return, canvasVars, boardVars, workerVars, FreshIds, DeletedWithdrawn, Fresh, WorkersType, Deleting
    <2> QED
      BY <2>1, <2>2, <2>3, <2>4
  <1>18. ASSUME NEW w \in Workers, OfferItem(w) PROVE ItemsInv'
    <2>1. NothingKept'
      BY <1>18 DEF OfferItem, NothingKept, WorkersType, Goto, Return, canvasVars, boardVars, workerVars
    <2>2. FreshIds'
      BY <1>18 DEF OfferItem, FreshIds, WorkersType, CanvasType, Fresh, Items, Goto, Return, canvasVars, boardVars, workerVars, NothingKept, DeletedWithdrawn, Deleting, SelectableExists
    <2>3. DeletedWithdrawn'
      BY <1>18 DEF OfferItem, DeletedWithdrawn, WorkersType, Deleting, Goto, Return, canvasVars, boardVars, workerVars, NothingKept, FreshIds, Fresh
    <2>4. SelectableExists'
      BY <1>18 DEF OfferItem, SelectableExists, Goto, Return, canvasVars, boardVars, workerVars, FreshIds, DeletedWithdrawn, Fresh, WorkersType, Deleting
    <2> QED
      BY <2>1, <2>2, <2>3, <2>4
  <1>19. ASSUME NEW w \in Workers, LookUpPath(w) PROVE ItemsInv'
    <2>1. NothingKept'
      BY <1>19 DEF LookUpPath, NothingKept, WorkersType, Goto, Return, canvasVars, boardVars, workerVars
    <2>2. FreshIds'
      BY <1>19 DEF LookUpPath, FreshIds, WorkersType, CanvasType, Fresh, Items, Goto, Return, canvasVars, boardVars, workerVars, NothingKept, DeletedWithdrawn, Deleting, SelectableExists
    <2>3. DeletedWithdrawn'
      BY <1>19 DEF LookUpPath, DeletedWithdrawn, WorkersType, Deleting, Goto, Return, canvasVars, boardVars, workerVars, NothingKept, FreshIds, Fresh
    <2>4. SelectableExists'
      BY <1>19 DEF LookUpPath, SelectableExists, Goto, Return, canvasVars, boardVars, workerVars, FreshIds, DeletedWithdrawn, Fresh, WorkersType, Deleting
    <2> QED
      BY <2>1, <2>2, <2>3, <2>4
  <1>20. ASSUME NEW w \in Workers, NEW i \in todo[w], CheckOwned(w, i) PROVE ItemsInv'
    <2>1. NothingKept'
      BY <1>20 DEF CheckOwned, NothingKept, WorkersType, Goto, Return, canvasVars, boardVars, workerVars, Owns
    <2>2. FreshIds'
      BY <1>20 DEF CheckOwned, FreshIds, WorkersType, CanvasType, Fresh, Items, Goto, Return, canvasVars, boardVars, workerVars, Owns, NothingKept, DeletedWithdrawn, Deleting, SelectableExists
    <2>3. DeletedWithdrawn'
      BY <1>20 DEF CheckOwned, DeletedWithdrawn, WorkersType, Deleting, Goto, Return, canvasVars, boardVars, workerVars, Owns, NothingKept, FreshIds, Fresh
    <2>4. SelectableExists'
      BY <1>20 DEF CheckOwned, SelectableExists, Goto, Return, canvasVars, boardVars, workerVars, Owns, FreshIds, DeletedWithdrawn, Fresh, WorkersType, Deleting
    <2> QED
      BY <2>1, <2>2, <2>3, <2>4
  <1>21. ASSUME NEW w \in Workers, NEW i \in todo[w], TakeItem(w, i) PROVE ItemsInv'
    <2>1. NothingKept'
      BY <1>21 DEF TakeItem, NothingKept, WorkersType, Goto, Return, canvasVars, boardVars, workerVars, Takeable
    <2>2. FreshIds'
      BY <1>21 DEF TakeItem, FreshIds, WorkersType, CanvasType, Fresh, Items, Goto, Return, canvasVars, boardVars, workerVars, Takeable, NothingKept, DeletedWithdrawn, Deleting, SelectableExists
    <2>3. DeletedWithdrawn'
      BY <1>21 DEF TakeItem, DeletedWithdrawn, WorkersType, Deleting, Goto, Return, canvasVars, boardVars, workerVars, Takeable, NothingKept, FreshIds, Fresh
    <2>4. SelectableExists'
      BY <1>21 DEF TakeItem, SelectableExists, Goto, Return, canvasVars, boardVars, workerVars, Takeable, FreshIds, DeletedWithdrawn, Fresh, WorkersType, Deleting
    <2> QED
      BY <2>1, <2>2, <2>3, <2>4
  <1>22. ASSUME NEW w \in Workers, NEW i \in todo[w], PickItem(w, i) PROVE ItemsInv'
    <2>1. NothingKept'
      BY <1>22 DEF PickItem, NothingKept, WorkersType, Goto, Return, canvasVars, boardVars, workerVars, Owns
    <2>2. FreshIds'
      BY <1>22 DEF PickItem, FreshIds, WorkersType, CanvasType, Fresh, Items, Goto, Return, canvasVars, boardVars, workerVars, Owns, NothingKept, DeletedWithdrawn, Deleting, SelectableExists
    <2>3. DeletedWithdrawn'
      BY <1>22 DEF PickItem, DeletedWithdrawn, WorkersType, Deleting, Goto, Return, canvasVars, boardVars, workerVars, Owns, NothingKept, FreshIds, Fresh
    <2>4. SelectableExists'
      BY <1>22 DEF PickItem, SelectableExists, Goto, Return, canvasVars, boardVars, workerVars, Owns, FreshIds, DeletedWithdrawn, Fresh, WorkersType, Deleting
    <2> QED
      BY <2>1, <2>2, <2>3, <2>4
  <1>23. ASSUME NEW w \in Workers, NEW i \in todo[w], CheckDelete(w, i) PROVE ItemsInv'
    <2>1. NothingKept'
      BY <1>23 DEF CheckDelete, NothingKept, WorkersType, Goto, Return, canvasVars, boardVars, workerVars, Owns
    <2>2. FreshIds'
      BY <1>23 DEF CheckDelete, FreshIds, WorkersType, CanvasType, Fresh, Items, Goto, Return, canvasVars, boardVars, workerVars, Owns, NothingKept, DeletedWithdrawn, Deleting, SelectableExists
    <2>3. DeletedWithdrawn'
      BY <1>23 DEF CheckDelete, DeletedWithdrawn, WorkersType, Deleting, Goto, Return, canvasVars, boardVars, workerVars, Owns, NothingKept, FreshIds, Fresh
    <2>4. SelectableExists'
      BY <1>23 DEF CheckDelete, SelectableExists, Goto, Return, canvasVars, boardVars, workerVars, Owns, FreshIds, DeletedWithdrawn, Fresh, WorkersType, Deleting
    <2> QED
      BY <2>1, <2>2, <2>3, <2>4
  <1>24. ASSUME NEW w \in Workers, NEW i \in todo[w], DeleteItem(w, i) PROVE ItemsInv'
    <2>1. NothingKept'
      BY <1>24 DEF DeleteItem, NothingKept, WorkersType, Goto, Return, canvasVars, boardVars, workerVars
    <2>2. FreshIds'
      BY <1>24 DEF DeleteItem, FreshIds, WorkersType, CanvasType, Fresh, Items, Goto, Return, canvasVars, boardVars, workerVars, NothingKept, DeletedWithdrawn, Deleting, SelectableExists
    <2>3. DeletedWithdrawn'
      BY <1>24 DEF DeleteItem, DeletedWithdrawn, WorkersType, Deleting, Goto, Return, canvasVars, boardVars, workerVars, NothingKept, FreshIds, Fresh
    <2>4. SelectableExists'
      BY <1>24 DEF DeleteItem, SelectableExists, Goto, Return, canvasVars, boardVars, workerVars, FreshIds, DeletedWithdrawn, Fresh, WorkersType, Deleting
    <2> QED
      BY <2>1, <2>2, <2>3, <2>4
  <1>25. ASSUME NEW w \in Workers, RemoveItem(w) PROVE ItemsInv'
    <2>1. NothingKept'
      BY <1>25 DEF RemoveItem, NothingKept, WorkersType, Goto, Return, canvasVars, boardVars, workerVars, Owns
    <2>2. FreshIds'
      BY <1>25 DEF RemoveItem, FreshIds, WorkersType, CanvasType, Fresh, Items, Goto, Return, canvasVars, boardVars, workerVars, Owns, NothingKept, DeletedWithdrawn, Deleting, SelectableExists
    <2>3. DeletedWithdrawn'
      BY <1>25 DEF RemoveItem, DeletedWithdrawn, WorkersType, Deleting, Goto, Return, canvasVars, boardVars, workerVars, Owns, NothingKept, FreshIds, Fresh
    <2>4. SelectableExists'
      BY <1>25 DEF RemoveItem, SelectableExists, Goto, Return, canvasVars, boardVars, workerVars, Owns, FreshIds, DeletedWithdrawn, Fresh, WorkersType, Deleting
    <2> QED
      BY <2>1, <2>2, <2>3, <2>4
  <1> QED
    BY <1>1, <1>2, <1>3, <1>4, <1>5, <1>6, <1>7, <1>8, <1>9, <1>10, <1>11, <1>12, <1>13, <1>14, <1>15, <1>16, <1>17, <1>18, <1>19, <1>20, <1>21, <1>22, <1>23, <1>24, <1>25 DEF Work
-----------------------------------------------------------------------------
(* The theorems that hold whatever clients do.                             *)

\* Every reachable state is well-typed: in particular no id in use is one that
\* next_id will hand out again.
THEOREM TypeCorrect == Spec => []TypeOK
  <1>1. Init => TypeOK
    BY InitTypeOK
  <1>2. TypeOK /\ [Next]_vars => TypeOK'
    <2> SUFFICES ASSUME TypeOK, [Next]_vars PROVE TypeOK'
      OBVIOUS
    <2>1. CASE Environment
      BY <2>1, EnvironmentTypeOK
    <2>2. ASSUME NEW w \in Workers, Work(w) PROVE TypeOK'
      BY <2>2, WorkTypeOK
    <2>3. CASE UNCHANGED vars
      BY <2>3, UnchangedTypes DEF vars, TypeOK, QueueType, workerVars, canvasVars
    <2> QED
      BY <2>1, <2>2, <2>3 DEF Next, Stop
  <1> QED
    BY <1>1, <1>2, PTL DEF Spec

\* The invariant of items is inductive.
THEOREM ItemsSafe == Spec => []ItemsInv
  <1>1. Init => ItemsInv
    BY DEF Init, All, ItemsInv, NothingKept, FreshIds, DeletedWithdrawn, SelectableExists, Fresh, Deleting
  <1>2. TypeOK /\ ItemsInv /\ [Next]_vars => ItemsInv'
    <2> SUFFICES ASSUME TypeOK, ItemsInv, [Next]_vars PROVE ItemsInv'
      OBVIOUS
    <2>1. CASE Environment
      BY <2>1, EnvironmentItems
    <2>2. ASSUME NEW w \in Workers, Work(w) PROVE ItemsInv'
      BY <2>2, WorkItems
    <2>3. CASE UNCHANGED vars
      BY <2>3, UnchangedItems DEF vars, itemsVars, workerVars, canvasVars, boardVars
    <2> QED
      BY <2>1, <2>2, <2>3 DEF Next, Stop
  <1> QED
    BY <1>1, <1>2, TypeCorrect, PTL DEF Spec

\* What can be selected is on the canvas, in every interleaving of creations and
\* deletions by any number of workers.
THEOREM SelectableItemsExist == Spec => []SelectableExists
  <1>1. ItemsInv => SelectableExists
    BY DEF ItemsInv
  <1> QED
    BY <1>1, ItemsSafe, PTL

\* No step hands an item over from one client to another: the steps that
\* change an owner take what is free, or free what they withdraw or offer.
LEMMA StepsHandOver == TypeOK /\ [Next]_vars => HandsOver
  <1> SUFFICES ASSUME TypeOK, [Next]_vars, boards' = boards,
                      NEW i \in 1..nextId, i \in DOMAIN owner'
               PROVE  /\ i \in DOMAIN owner =>
                           owner'[i] = owner[i] \/ Free \in {owner[i], owner'[i]}
                      /\ i \notin DOMAIN owner =>
                           \E w \in Workers : pc[w] = "offer" /\ cur[w] = i
    BY DEF HandsOver
  <1>1. CASE UNCHANGED owner
    BY <1>1
  <1>2. CASE Environment
    <2>1. ~Refresh
      BY DEF Refresh, TypeOK, SocketsType
    <2> QED
      BY <1>1, <1>2, <2>1 DEF Environment, RequestSession, Connect, Close, LoseSocket, Send
  <1>3. ASSUME NEW w \in Workers, NEW j \in todo[w], TakeItem(w, j) PROVE UNCHANGED owner \/ (owner[i] \in {Free, owner'[i]} /\ i \in DOMAIN owner)
    BY <1>3 DEF TakeItem, Takeable
  <1>4. ASSUME NEW w \in Workers, RemoveItem(w) PROVE UNCHANGED owner \/ (owner'[i] \in {Free, owner[i]} /\ i \in DOMAIN owner)
    BY <1>4 DEF RemoveItem, Owns
  <1>5. ASSUME NEW w \in Workers, Unselect(w) PROVE owner'[i] = owner[i] /\ i \in DOMAIN owner
    BY <1>5 DEF Unselect, Restrict
  <1>6. ASSUME NEW w \in Workers, OfferItem(w)
        PROVE  IF i = cur[w] THEN owner'[i] = Free /\ pc[w] = "offer"
                             ELSE owner'[i] = owner[i] /\ i \in DOMAIN owner
    BY <1>6 DEF OfferItem
  <1>7. ASSUME NEW w \in Workers, Work(w), ~Unselect(w), ~OfferItem(w), ~RemoveItem(w),
               \A j \in todo[w] : ~TakeItem(w, j)
        PROVE  UNCHANGED owner
    BY <1>7 DEF Work, Recv, SetHandle, InsertClient, RegisterClient, StartNotify, Notify, CreateHandle,
                StartTaking, UpdateSelection, LockClient, FinishRemove, CheckEdit, EditItem,
                DropFromSelection, AddItem, ListItem, LookUpPath, CheckOwned, PickItem, CheckDelete, DeleteItem
  <1>8. ASSUME NEW w \in Workers, Work(w)
        PROVE  /\ i \in DOMAIN owner =>
                    owner'[i] = owner[i] \/ Free \in {owner[i], owner'[i]}
               /\ i \notin DOMAIN owner =>
                    \E v \in Workers : pc[v] = "offer" /\ cur[v] = i
    BY <1>1, <1>3, <1>4, <1>5, <1>6, <1>7, <1>8
  <1> QED
    BY <1>1, <1>2, <1>8 DEF Next, Stop, vars

\* Items change hands only by way of being free.
THEOREM FirstComeFirstServed == Spec => Handover
  <1>1. TypeOK /\ [Next]_vars => [HandsOver]_vars
    BY StepsHandOver
  <1> QED
    BY <1>1, TypeCorrect, PTL DEF Spec, Handover
-----------------------------------------------------------------------------
(* Ownership.  Clients call whenever they like, so several workers may serve *)
(* one client.  Most steps of a worker are quiet: they change neither an     *)
(* owner nor a selection, and leave the two records of a selection as far    *)
(* apart as they were.                                                       *)

Others(w) == \A v \in Workers \ {w} :
  /\ pc'[v] = pc[v] /\ msg'[v] = msg[v] /\ todo'[v] = todo[v]
  /\ done'[v] = done[v] /\ cur'[v] = cur[v]

Withdrawing == {"delCheck", "unselect"}
Apart == {"take"} \cup Removing \cup Withdrawing

\* What the worker has taken or given up, it still has to insert or to drop.
Steady(w) ==
  \/ pc[w] \notin Apart
  \/ /\ done'[w] = done[w] /\ msg'[w] = msg[w]
     /\ \/ pc[w] = "take" /\ pc'[w] = "take"
        \/ pc[w] \in Removing /\ pc'[w] \in Removing
        \/ pc[w] \in Withdrawing /\ pc'[w] \in Withdrawing

Quiet(w) == Others(w) /\ UNCHANGED <<owner, selection>> /\ Steady(w) /\ raced \subseteq raced'

\* A worker does not enter a call in this step.
SameCall(w) ==
  /\ UNCHANGED raced
  /\ pc'[w] \in CallPhases => pc[w] \in CallPhases /\ msg'[w] = msg[w]

\* What an edit is about, it names.
LEMMA EditNames ==
  ASSUME NEW r \in Msg, r.m = "EditSingleItem"
  PROVE  EditTarget(r) \in r.items /\ r.items = {EditTarget(r)}
  <1>1. PICK i \in r.items : r.items = {i}
    BY DEF Msg
  <1> QED
    BY <1>1 DEF EditTarget

\* Clashing is mutual, and no call clashes with one of its method.
LEMMA Mutual ==
  ASSUME NEW m, NEW n PROVE (Clash(m, n) <=> Clash(n, m)) /\ ~Clash(m, m)
  BY DEF Clash

\* An id that two clashing calls of a client name has raced.
LEMMA ClashRaced ==
  ASSUME TypeOK, NoClash, NEW v \in Workers, NEW w \in Workers,
         pc[v] \in CallPhases, pc[w] \in CallPhases, msg[v].c = msg[w].c,
         Clash(msg[v].m, msg[w].m), NEW i, i \in Named(msg[v]), i \in Named(msg[w])
  PROVE  i \in raced
  <1>1. pc[w] # "recv"
    BY DEF CallPhases
  <1>2. msg[w].c \in Clients
    BY <1>1 DEF TypeOK, WorkersType, Msg
  <1> QED
    BY <1>2 DEF NoClash, Handled

\* The phases of a call follow from those of its worker.
LEMMA SameInCalls ==
  ASSUME InCalls, NEW w \in Workers, Others(w), InCall(w)' PROVE InCalls'
  <1> SUFFICES ASSUME NEW v \in Workers, v # w PROVE InCall(v)'
    BY DEF InCalls
  <1>1. InCall(v)
    BY DEF InCalls
  <1> QED
    BY <1>1 DEF InCall, Others

\* No two calls come to clash in a step that enters none.
LEMMA SameNoClash ==
  ASSUME NoClash, NEW w \in Workers, Others(w), SameCall(w) PROVE NoClash'
  <1>1. \A c \in Clients, v \in Workers : Handled(c, v)' => Handled(c, v) /\ msg'[v] = msg[v]
    BY DEF Others, SameCall, Handled
  <1> QED
    BY <1>1 DEF NoClash, SameCall

\* A lock that no step touches stays with whom removes.
LEMMA SameLock ==
  ASSUME LockHeld, NEW w \in Workers, Others(w), UNCHANGED lock,
         pc'[w] \in Removing <=> pc[w] \in Removing, pc[w] \in Removing => msg'[w] = msg[w]
  PROVE  LockHeld'
  BY DEF LockHeld, Others

\* One worker at most serves the SelectionRemoveItems of a client.
LEMMA OneRemover ==
  ASSUME TypeOK, LockHeld, NEW v \in Workers, NEW w \in Workers,
         pc[v] \in Removing, pc[w] \in Removing, msg[v].c = msg[w].c
  PROVE  v = w
  <1>1. pc[w] # "recv"
    BY DEF Removing
  <1>2. msg[w].c \in Clients
    BY <1>1 DEF TypeOK, WorkersType, Msg
  <1> QED
    BY <1>2 DEF LockHeld

\* A quiet step keeps what the other workers have kept.
LEMMA QuietKept ==
  ASSUME TypeOK, KeptOwned, EntryOwned, NEW w \in Workers, Quiet(w), Kept(w)',
         (pc[w] = "removing" => Owns(msg[w].c, cur[w]))'
  PROVE  KeptOwned' /\ EntryOwned'
  <1>1. ASSUME NEW v \in Workers, v # w PROVE Kept(v)'
    <2>1. Kept(v)
      BY DEF KeptOwned
    <2>2. pc'[v] = pc[v] /\ msg'[v] = msg[v] /\ done'[v] = done[v] /\ cur'[v] = cur[v] /\ owner' = owner
      BY <1>1 DEF Quiet, Others
    <2> QED
      BY <2>1, <2>2 DEF Kept, Owns, Quiet
  <1>2. EntryOwned'
    BY DEF EntryOwned, Quiet, Others, Owns
  <1> QED
    BY <1>1, <1>2 DEF KeptOwned

\* A quiet step keeps the two records of a selection as close as they were.
LEMMA QuietMatch ==
  ASSUME TypeOK, NearMatch, NearDisjoint, NEW w \in Workers, Quiet(w)
  PROVE  NearMatch' /\ NearDisjoint'
  <1>1. \A c, i : (Taking(c, i) => Taking(c, i)') /\ (Dropping(c, i) => Dropping(c, i)')
    BY DEF Quiet, Steady, Others, Apart, Taking, Dropping, Removing, Withdrawing
  <1>2. NearMatch'
    BY <1>1 DEF NearMatch, Match, Owns, Quiet
  <1>3. NearDisjoint'
    <2> SUFFICES ASSUME NEW c \in Clients, NEW d \in Clients, c # d,
                        NEW i \in (selection[c] \cap selection[d]) \ raced
                 PROVE  (\E v \in Workers : pc[v] \in Removing /\ msg[v].c \in {c, d} /\ i \in done[v])'
      BY DEF NearDisjoint, Quiet
    <2>1. PICK v \in Workers : pc[v] \in Removing /\ msg[v].c \in {c, d} /\ i \in done[v]
      BY DEF NearDisjoint
    <2>2. pc'[v] \in Removing /\ msg'[v] = msg[v] /\ done'[v] = done[v]
      BY <2>1 DEF Quiet, Steady, Others, Apart, Removing, Withdrawing
    <2> QED
      BY <2>1, <2>2
  <1> QED
    BY <1>2, <1>3

\* Both together.
LEMMA QuietOwners ==
  ASSUME TypeOK, OwnersInv, NEW w \in Workers, Quiet(w), SameCall(w), Kept(w)', InCall(w)',
         (pc[w] = "removing" => Owns(msg[w].c, cur[w]))', UNCHANGED lock,
         pc'[w] \in Removing <=> pc[w] \in Removing, pc[w] \in Removing => msg'[w] = msg[w]
  PROVE  OwnersInv'
  BY QuietKept, QuietMatch, SameNoClash, SameInCalls, SameLock DEF OwnersInv, Quiet

\* Each of the quiet steps keeps the invariant of ownership.
LEMMA QuietSteps ==
  ASSUME TypeOK, ItemsInv, OwnersInv, NEW w \in Workers,
         \/ SetHandle(w) \/ InsertClient(w) \/ RegisterClient(w) \/ StartNotify(w)
         \/ \E d \in tell[w] : Notify(w, d)
         \/ CreateHandle(w) \/ StartTaking(w) \/ CheckEdit(w) \/ EditItem(w)
         \/ AddItem(w) \/ ListItem(w) \/ LookUpPath(w)
         \/ \E i \in todo[w] : \/ CheckOwned(w, i) \/ DeleteItem(w, i) \/ PickItem(w, i)
                               \/ CheckDelete(w, i)
  PROVE  OwnersInv'
  <1> DEFINE Q == /\ Quiet(w) /\ SameCall(w) /\ Kept(w)' /\ InCall(w)' /\ UNCHANGED lock
                  /\ (pc[w] = "removing" => Owns(msg[w].c, cur[w]))'
                  /\ pc'[w] \in Removing <=> pc[w] \in Removing
                  /\ pc[w] \in Removing => msg'[w] = msg[w]
  <1>0. Kept(w) /\ InCall(w) /\ (pc[w] = "removing" => Owns(msg[w].c, cur[w]))
    BY DEF OwnersInv, KeptOwned, InCalls, EntryOwned
  <1>00. /\ pc[w] = "handle" => done[w] = {} 
         /\ WorkersType
    BY DEF ItemsInv, NothingKept, TypeOK
  <1> USE DEF WorkersType, Quiet, Steady, Others, Apart, Removing, Withdrawing, SameCall, Owns,
              Goto, Return, clientVars, boardVars, CallPhases
  <1>1. ASSUME SetHandle(w) PROVE Q
    BY <1>0, <1>00, <1>1 DEF SetHandle, Kept, InCall
  <1>2. ASSUME InsertClient(w) PROVE Q
    BY <1>0, <1>00, <1>2 DEF InsertClient, Kept, InCall
  <1>3. ASSUME RegisterClient(w) PROVE Q
    BY <1>0, <1>00, <1>3 DEF RegisterClient, Kept, InCall
  <1>4. ASSUME StartNotify(w) PROVE Q
    BY <1>0, <1>00, <1>4 DEF StartNotify, Kept, InCall
  <1>5. ASSUME NEW d \in tell[w], Notify(w, d) PROVE Q
    BY <1>0, <1>00, <1>5 DEF Notify, Kept, InCall
  <1>6. ASSUME CreateHandle(w) PROVE Q
    BY <1>0, <1>00, <1>6 DEF CreateHandle, MethodPhase, Kept, InCall, Named
  <1>7. ASSUME StartTaking(w) PROVE Q
    BY <1>0, <1>00, <1>7 DEF StartTaking, Kept, InCall, Named
  <1>8. ASSUME CheckEdit(w) PROVE Q
    BY <1>0, <1>00, <1>8 DEF CheckEdit, Kept, InCall
  <1>9. ASSUME EditItem(w) PROVE Q
    BY <1>0, <1>00, <1>9 DEF EditItem, Kept, InCall
  <1>10. ASSUME AddItem(w) PROVE Q
    BY <1>0, <1>00, <1>10 DEF AddItem, Kept, InCall
  <1>11. ASSUME ListItem(w) PROVE Q
    BY <1>0, <1>00, <1>11 DEF ListItem, Kept, InCall
  <1>12. ASSUME LookUpPath(w) PROVE Q
    BY <1>0, <1>00, <1>12 DEF LookUpPath, Kept, InCall
  <1>13. ASSUME NEW i \in todo[w], CheckOwned(w, i) PROVE Q
    BY <1>0, <1>00, <1>13 DEF CheckOwned, Kept, InCall
  <1>14. ASSUME NEW i \in todo[w], DeleteItem(w, i) PROVE Q
    BY <1>0, <1>00, <1>14 DEF DeleteItem, Kept, InCall
  <1>15. ASSUME NEW i \in todo[w], PickItem(w, i) PROVE Q
    BY <1>0, <1>00, <1>15 DEF PickItem, Kept, InCall
  <1>16. ASSUME NEW i \in todo[w], CheckDelete(w, i) PROVE Q
    BY <1>0, <1>00, <1>16 DEF CheckDelete, Kept, InCall
  <1> HIDE DEF Q, Quiet, SameCall, Removing
  <1>17. Q
    BY <1>1, <1>2, <1>3, <1>4, <1>5, <1>6, <1>7, <1>8, <1>9, <1>10, <1>11, <1>12, <1>13, <1>14,
       <1>15, <1>16
  <1> QED
    BY <1>17, QuietOwners DEF Q

\* What a step changes of the owners, seen by the handlers of other workers:
\* gains and losses of the one client, about the ids in X, that the step's
\* call names too.
LEMMA OwnerKept ==
  ASSUME TypeOK, NoClash, InCalls, KeptOwned, EntryOwned, UNCHANGED raced,
         NEW w \in Workers, Others(w), pc[w] \in CallPhases,
         NEW c, c = msg[w].c, NEW X, X \subseteq Named(msg[w]),
         \A d \in Clients : \A j :
           d # c \/ j \notin X => (Owns(d, j)' <=> Owns(d, j)) \/ (j \in raced /\ ~EntryHeld(j)),
         (DOMAIN owner)' \subseteq DOMAIN owner,
         \/ /\ \A j \in X : Owns(c, j)'
            /\ msg[w].m = "SelectionAddItems"
         \/ /\ \A j \in X : j \notin (DOMAIN owner)' /\ ~EntryHeld(j)
            /\ msg[w].m = "DeleteItems"
         \/ /\ \A j \in X : ~Owns(c, j)' /\ \A v \in Workers \ {w} : pc[v] = "removing" => cur[v] # j
            /\ msg[w].m = "SelectionRemoveItems",
         Kept(w)', (pc[w] = "removing" => Owns(msg[w].c, cur[w]))'
  PROVE  KeptOwned' /\ EntryOwned'
  <1>1. ASSUME NEW v \in Workers, v # w
        PROVE  Kept(v)' /\ (pc[v] = "removing" => Owns(msg[v].c, cur[v]))'
    <2>1. /\ pc'[v] = pc[v] /\ msg'[v] = msg[v] /\ done'[v] = done[v] /\ cur'[v] = cur[v]
          /\ Kept(v) /\ InCall(v) /\ (pc[v] = "removing" => Owns(msg[v].c, cur[v]))
      BY <1>1 DEF Others, KeptOwned, InCalls, EntryOwned
    <2> DEFINE active == {"check", "take", "edit"} \cup Removing \cup Withdrawing
    <2>2. CASE pc[v] \in active
      <3>1. pc[v] \in CallPhases /\ pc[v] # "recv"
        BY <2>2 DEF CallPhases, Removing, Withdrawing
      <3>2. msg[v].c \in Clients /\ msg[v] \in Msg
        BY <3>1 DEF TypeOK, WorkersType, Msg
      <3> PICK d \in Clients : d = msg[v].c
        BY <3>2
      <3>3. ASSUME NEW j \in X, d = c, j \in Named(msg[v]), Clash(msg[v].m, msg[w].m)
            PROVE  j \in raced
        BY <3>1, <3>3, ClashRaced
      <3>10. msg[w].m \in Giving => \A j \in X : ~Owns(c, j)'
        BY DEF Owns, Giving
      <3>4. \A j : d # c \/ j \notin X =>
                     (Owns(d, j)' <=> Owns(d, j)) \/ (j \in raced /\ ~EntryHeld(j))
        BY <3>2
      <3>5. pc[v] \in {"check", "take"} => \A i \in done[v] \ raced : Owns(d, i)'
        <4>1. ASSUME pc[v] \in {"check", "take"}, NEW i \in done[v] \ raced PROVE Owns(d, i)'
          <5>1. Owns(d, i) /\ i \in Named(msg[v])
                /\ msg[v].m \in {"SelectionAddItems", "SelectionMove"}
            BY <2>1, <4>1 DEF Kept, InCall
          <5>2. msg[w].m \in Giving => Clash(msg[v].m, msg[w].m)
            BY <5>1 DEF Clash, Giving
          <5> QED
            BY <3>3, <3>4, <5>1, <5>2 DEF Giving
        <4> QED
          BY <4>1
      <3>6. pc[v] \in Removing \cup Withdrawing => \A i \in done[v] \ raced : ~Owns(d, i)'
        <4>1. ASSUME pc[v] \in Removing \cup Withdrawing, NEW i \in done[v] \ raced
              PROVE  ~Owns(d, i)'
          <5>1. ~Owns(d, i) /\ i \in Named(msg[v]) /\ msg[v].m \in Giving
            BY <2>1, <4>1 DEF Kept, InCall, Removing, Withdrawing, Giving
          <5>2. msg[w].m = "SelectionAddItems" => Clash(msg[v].m, msg[w].m)
            BY <5>1 DEF Clash, Giving
          <5> QED
            BY <3>3, <3>4, <3>10, <5>1, <5>2 DEF Giving
        <4> QED
          BY <4>1
      <3>7. ASSUME pc[v] = "edit", NEW t, t = EditTarget(msg[v]), t \notin raced
            PROVE  Owns(d, t)'
        <4>1. Owns(d, t) /\ msg[v].m = "EditSingleItem"
          BY <2>1, <3>7 DEF Kept, InCall
        <4>2. t \in Named(msg[v])
          BY <3>2, <3>7, <4>1, EditNames DEF Named
        <4>3. msg[w].m \in Giving => Clash(msg[v].m, msg[w].m)
          BY <4>1 DEF Clash, Giving
        <4> QED
          BY <3>3, <3>4, <3>7, <4>1, <4>2, <4>3 DEF Giving
      <3>8. ASSUME pc[v] = "unselect", NEW t, t = cur[v], t \in (DOMAIN owner)' \ raced
            PROVE  Owns(d, t)'
        <4>1. Owns(d, t) /\ t \in Named(msg[v]) /\ msg[v].m = "DeleteItems"
          BY <2>1, <3>8 DEF Kept, InCall
        <4>2. msg[w].m = "SelectionRemoveItems" => Clash(msg[v].m, msg[w].m)
          BY <4>1 DEF Clash, Giving
        <4> QED
          BY <3>3, <3>4, <3>8, <4>1, <4>2
      <3>9. ASSUME pc[v] = "removing", NEW t, t = cur[v] PROVE Owns(d, t)'
        <4>1. Owns(d, t) /\ EntryHeld(t)
          BY <2>1, <3>9 DEF EntryHeld
        <4> QED
          BY <1>1, <3>4, <3>9, <4>1
      <3> QED
        BY <2>1, <3>5, <3>6, <3>7, <3>8, <3>9 DEF Kept, Withdrawing, Removing
    <2>3. CASE pc[v] \notin active
      BY <2>1, <2>3 DEF Kept, Removing, Withdrawing
    <2> QED
      BY <2>2, <2>3
  <1> QED
    BY <1>1 DEF KeptOwned, EntryOwned

\* The two records of the selections of other clients stay as close.
LEMMA OwnerMatch ==
  ASSUME TypeOK, NearMatch, NEW w \in Workers, Others(w), UNCHANGED raced, msg'[w] = msg[w],
         NEW c, c = msg[w].c,
         \A d \in Clients \ {c} : \A j : (Owns(d, j)' => Owns(d, j))
                                         /\ (Owns(d, j) => j \in raced \/ Owns(d, j)'),
         \A d \in Clients \ {c} : selection'[d] = selection[d],
         c \in Clients => Match(c)'
  PROVE  NearMatch'
  <1> SUFFICES ASSUME NEW d \in Clients, d # c PROVE Match(d)'
    BY DEF NearMatch
  <1>1. \A i : (Taking(d, i) => Taking(d, i)') /\ (Dropping(d, i) => Dropping(d, i)')
    BY DEF Others, Taking, Dropping
  <1>2. selection'[d] = selection[d] /\ Match(d)
    BY DEF NearMatch
  <1>3. \A i \in (DOMAIN owner)' : owner'[i] = d => Owns(d, i)
    BY DEF Owns
  <1>4. \A i \in (DOMAIN owner)' \ raced : owner'[i] = d => i \in selection'[d] \/ Taking(d, i)'
    BY <1>1, <1>2, <1>3 DEF Match, Owns
  <1>5. \A i \in selection'[d] \ raced : Owns(d, i)' \/ Dropping(d, i)'
    BY <1>1, <1>2 DEF Match
  <1> QED
    BY <1>4, <1>5 DEF Match

\* What holds of every step that changes the owners: the worker is in a call of
\* its client, and the call stays the same.
StepsOn(w) ==
  /\ Others(w) /\ SameCall(w) /\ pc[w] \in CallPhases /\ pc[w] # "recv"
  /\ msg'[w] = msg[w] /\ UNCHANGED <<lock, raced>>

\* TakeItem gives the client an item that was free or already its own.
LEMMA TakeOwners ==
  ASSUME TypeOK, OwnersInv, NEW w \in Workers, NEW i \in todo[w], TakeItem(w, i)
  PROVE  OwnersInv'
  <1>1. /\ StepsOn(w) /\ pc[w] = "take" /\ UNCHANGED <<pc, selection>>
        /\ todo'[w] \subseteq todo[w]
    BY DEF TakeItem, StepsOn, Others, SameCall, TypeOK, WorkersType, CallPhases, clientVars, boardVars
  <1>2. msg[w] \in Msg /\ InCall(w) /\ Kept(w)
    BY <1>1 DEF OwnersInv, InCalls, KeptOwned, TypeOK, WorkersType
  <1> PICK c \in Clients : c = msg[w].c
    BY <1>2 DEF Msg
  <1>3. CASE Takeable(c, i)
    <2>1. owner' = [owner EXCEPT ![i] = c] /\ done'[w] = done[w] \cup {i}
      BY <1>3 DEF TakeItem, TypeOK, WorkersType
    <2>3. \A d \in Clients : \A j : d # c \/ j \notin {i} => (Owns(d, j)' <=> Owns(d, j))
      BY <1>3, <2>1, ConstantsAssumption DEF Owns, Takeable
    <2>4. Owns(c, i)'
      BY <1>3, <2>1 DEF Owns, Takeable
    <2>5. i \in Named(msg[w]) /\ msg[w].m = "SelectionAddItems"
      BY <1>1, <1>2 DEF InCall
    <2>6. \A j : Owns(c, j) => Owns(c, j)'
      BY <2>3, <2>4
    <2>7. Kept(w)'
      BY <1>1, <1>2, <2>1, <2>4, <2>6 DEF Kept, StepsOn, Withdrawing, Removing
    <2>8. KeptOwned' /\ EntryOwned'
      <3> DEFINE X == {i}
      <3>1. /\ X \subseteq Named(msg[w]) /\ \A j \in X : Owns(c, j)'
            /\ \A d \in Clients : \A j : d # c \/ j \notin X =>
                 (Owns(d, j)' <=> Owns(d, j)) \/ (j \in raced /\ ~EntryHeld(j))
        BY <2>3, <2>4, <2>5
      <3>2. (DOMAIN owner)' \subseteq DOMAIN owner /\ pc'[w] # "removing"
        BY <1>1, <2>1
      <3> HIDE DEF X
      <3> QED
        BY <1>1, <2>5, <2>7, <3>1, <3>2, OwnerKept DEF OwnersInv, StepsOn
    <2>9. InCall(w)'
      BY <1>1, <1>2, <2>1, <2>5 DEF InCall, StepsOn
    <2>10. NearMatch'
      <3>1. \A j : (Taking(c, j) => Taking(c, j)') /\ (Dropping(c, j) => Dropping(c, j)')
        BY <1>1, <2>1 DEF Taking, Dropping, StepsOn, Others, Removing
      <3>2. Taking(c, i)'
        BY <1>1, <1>2, <2>1 DEF Taking, StepsOn, InCall
      <3>3. Match(c)
        BY DEF OwnersInv, NearMatch
      <3>4. \A j \in (DOMAIN owner)' \ raced : owner'[j] = c => j \in selection[c] \/ Taking(c, j)'
        BY <2>1, <3>1, <3>2, <3>3 DEF Match
      <3>5. \A j \in selection[c] \ raced : Owns(c, j)' \/ Dropping(c, j)'
        BY <2>6, <3>1, <3>3 DEF Match
      <3>6. Match(c)'
        BY <1>1, <3>4, <3>5 DEF Match, StepsOn
      <3> QED
        BY <1>1, <2>3, <3>6, OwnerMatch DEF StepsOn, OwnersInv
    <2>11. NearDisjoint'
      BY <1>1 DEF NearDisjoint, StepsOn, Others, OwnersInv, Removing
    <2> QED
      BY <1>1, <2>8, <2>9, <2>10, <2>11, SameNoClash, SameInCalls, SameLock
      DEF OwnersInv, StepsOn, Removing
  <1>4. CASE ~Takeable(c, i)
    <2>1. Quiet(w) /\ Kept(w)' /\ InCall(w)'
      BY <1>1, <1>2, <1>4 DEF TakeItem, Quiet, Steady, Apart, Removing, Withdrawing, StepsOn, Kept, InCall, Owns
    <2> QED
      BY <1>1, <2>1, QuietOwners DEF StepsOn, Removing
  <1> QED
    BY <1>3, <1>4

\* RemoveItem frees the item whose entry it holds, which is its client's.
LEMMA RemoveOwners ==
  ASSUME TypeOK, OwnersInv, NEW w \in Workers, RemoveItem(w) PROVE OwnersInv'
  <1> PICK i : i = cur[w]
    OBVIOUS
  <1>1. /\ StepsOn(w) /\ pc[w] = "removing" /\ pc'[w] = "remove" /\ UNCHANGED selection
        /\ todo'[w] = todo[w]
    BY DEF RemoveItem, StepsOn, Others, SameCall, TypeOK, WorkersType, CallPhases, clientVars, boardVars, Goto
  <1>2. msg[w] \in Msg /\ InCall(w) /\ Kept(w) /\ Owns(msg[w].c, i)
    BY <1>1 DEF OwnersInv, InCalls, KeptOwned, EntryOwned, TypeOK, WorkersType
  <1> PICK c \in Clients : c = msg[w].c
    BY <1>2 DEF Msg
  <1>3. CASE i \in items
    <2>1. owner' = [owner EXCEPT ![i] = Free] /\ done'[w] = done[w] \cup {i}
      BY <1>3 DEF RemoveItem, TypeOK, WorkersType
    <2>2. \A d \in Clients : \A j : Owns(d, j)' <=> Owns(d, j) /\ j # i
      BY <1>2, <2>1, ConstantsAssumption DEF Owns
    <2>3. \A d \in Clients : \A j : d # c \/ j \notin {i} => (Owns(d, j)' <=> Owns(d, j))
      BY <1>2, <2>2 DEF Owns
    <2>4. ~Owns(c, i)'
      BY <2>2
    <2>5. i \in Named(msg[w]) /\ msg[w].m = "SelectionRemoveItems"
      BY <1>1, <1>2 DEF InCall
    <2>6. Kept(w)'
      BY <1>1, <1>2, <2>1, <2>2 DEF Kept, StepsOn, Withdrawing, Removing
    <2>7. \A v \in Workers \ {w} : pc[v] = "removing" => cur[v] # i
      <3> SUFFICES ASSUME NEW v \in Workers, v # w, pc[v] = "removing", cur[v] = i PROVE FALSE
        OBVIOUS
      <3>1. Owns(msg[v].c, i)
        BY DEF OwnersInv, EntryOwned
      <3>2. msg[v].c = msg[w].c
        BY <1>2, <3>1 DEF Owns
      <3> QED
        BY <1>1, <3>2, OneRemover DEF OwnersInv, Removing
    <2>8. KeptOwned' /\ EntryOwned'
      <3> DEFINE X == {i}
      <3>1. /\ X \subseteq Named(msg[w])
            /\ \A j \in X : ~Owns(c, j)' /\ \A v \in Workers \ {w} : pc[v] = "removing" => cur[v] # j
            /\ \A d \in Clients : \A j : d # c \/ j \notin X =>
                 (Owns(d, j)' <=> Owns(d, j)) \/ (j \in raced /\ ~EntryHeld(j))
        BY <2>3, <2>4, <2>5, <2>7
      <3>2. (DOMAIN owner)' \subseteq DOMAIN owner
        BY <2>1
      <3> HIDE DEF X
      <3> QED
        BY <1>1, <2>5, <2>6, <3>1, <3>2, OwnerKept DEF OwnersInv, StepsOn
    <2>9. InCall(w)'
      BY <1>1, <1>2, <2>1, <2>5 DEF InCall, StepsOn
    <2>10. \A d, j : (Taking(d, j) => Taking(d, j)') /\ (Dropping(d, j) => Dropping(d, j)')
      BY <1>1, <2>1 DEF Taking, Dropping, StepsOn, Others, Removing
    <2>11. NearMatch'
      <3>1. Dropping(c, i)'
        BY <1>1, <2>1 DEF Dropping, StepsOn, Removing
      <3>2. Match(c)
        BY DEF OwnersInv, NearMatch
      <3>3. \A j \in (DOMAIN owner)' \ raced : owner'[j] = c => j \in selection[c] \/ Taking(c, j)'
        BY <2>1, <2>2, <2>10, <3>2 DEF Match, Owns
      <3>4. \A j \in selection[c] \ raced : Owns(c, j)' \/ Dropping(c, j)'
        BY <2>2, <2>10, <3>1, <3>2 DEF Match
      <3>5. Match(c)'
        BY <1>1, <3>3, <3>4 DEF Match, StepsOn
      <3> QED
        BY <1>1, <2>3, <3>5, OwnerMatch DEF StepsOn, OwnersInv
    <2>12. NearDisjoint'
      BY <1>1, <2>1 DEF NearDisjoint, StepsOn, Others, OwnersInv, Removing
    <2> QED
      BY <1>1, <2>8, <2>9, <2>11, <2>12, SameNoClash, SameInCalls, SameLock
      DEF OwnersInv, StepsOn, Removing
  <1>4. CASE i \notin items
    <2>1. Quiet(w) /\ Kept(w)' /\ InCall(w)'
      BY <1>1, <1>2, <1>4 DEF RemoveItem, Quiet, Steady, Apart, Removing, Withdrawing, StepsOn, Kept, InCall, Owns
    <2> QED
      BY <1>1, <2>1, QuietOwners DEF StepsOn, Removing
  <1> QED
    BY <1>3, <1>4

\* Unselect withdraws an item that its client owns, or that has raced.
LEMMA UnselectOwners ==
  ASSUME TypeOK, OwnersInv, NEW w \in Workers, Unselect(w) PROVE OwnersInv'
  <1> PICK i : i = cur[w]
    OBVIOUS
  <1>1. /\ StepsOn(w) /\ pc[w] = "unselect" /\ pc'[w] = "delCheck" /\ UNCHANGED selection
        /\ todo'[w] = todo[w] /\ done'[w] = done[w] \cup {i}
        /\ owner' = Restrict(owner, DOMAIN owner \ {i}) /\ ~EntryHeld(i)
    BY DEF Unselect, StepsOn, Others, SameCall, TypeOK, WorkersType, CallPhases, clientVars, boardVars, Goto
  <1>2. msg[w] \in Msg /\ InCall(w) /\ Kept(w)
    BY <1>1 DEF OwnersInv, InCalls, KeptOwned, TypeOK, WorkersType
  <1> PICK c \in Clients : c = msg[w].c
    BY <1>2 DEF Msg
  <1>3. \A d, j : Owns(d, j)' <=> Owns(d, j) /\ j # i
    BY <1>1 DEF Owns, Restrict
  <1>4. i \in raced \/ \A d \in Clients \ {c} : ~Owns(d, i)
    BY <1>1, <1>2 DEF Kept, Owns
  <1>5. i \in Named(msg[w]) /\ msg[w].m = "DeleteItems"
    BY <1>1, <1>2 DEF InCall
  <1>6. Kept(w)'
    BY <1>1, <1>2, <1>3 DEF Kept, StepsOn, Withdrawing, Removing
  <1>7. KeptOwned' /\ EntryOwned'
    <2> DEFINE X == {i}
    <2>1. /\ X \subseteq Named(msg[w]) /\ \A j \in X : j \notin (DOMAIN owner)' /\ ~EntryHeld(j)
          /\ \A d \in Clients : \A j :
               d # c \/ j \notin X => (Owns(d, j)' <=> Owns(d, j)) \/ (j \in raced /\ ~EntryHeld(j))
      BY <1>1, <1>3, <1>4, <1>5 DEF Restrict
    <2>2. (DOMAIN owner)' \subseteq DOMAIN owner /\ pc'[w] # "removing"
      BY <1>1 DEF Restrict
    <2>3. /\ UNCHANGED raced /\ Others(w) /\ pc[w] \in CallPhases
          /\ NoClash /\ InCalls /\ KeptOwned /\ EntryOwned
      BY <1>1 DEF OwnersInv, StepsOn
    <2> HIDE DEF X
    <2> QED
      BY <1>5, <1>6, <2>1, <2>2, <2>3, OwnerKept
  <1>8. InCall(w)'
    BY <1>1, <1>2, <1>5 DEF InCall, StepsOn
  <1>9. \A d, j : (Taking(d, j) => Taking(d, j)') /\ (Dropping(d, j) => Dropping(d, j)')
    BY <1>1 DEF Taking, Dropping, StepsOn, Others, Removing
  <1>10. NearMatch'
    <2>1. Dropping(c, i)'
      BY <1>1 DEF Dropping, StepsOn
    <2>2. Match(c)
      BY DEF OwnersInv, NearMatch
    <2>3. \A j \in (DOMAIN owner)' \ raced : owner'[j] = c => j \in selection[c] \/ Taking(c, j)'
      BY <1>1, <1>9, <2>2 DEF Match, Restrict
    <2>4. \A j \in selection[c] \ raced : Owns(c, j)' \/ Dropping(c, j)'
      BY <1>3, <1>9, <2>1, <2>2 DEF Match
    <2>5. Match(c)'
      BY <1>1, <2>3, <2>4 DEF Match, StepsOn
    <2>6. \A d \in Clients \ {c} : \A j : /\ Owns(d, j)' => Owns(d, j)
                                          /\ Owns(d, j) => j \in raced \/ Owns(d, j)'
      BY <1>3, <1>4
    <2> QED
      BY <1>1, <2>5, <2>6, OwnerMatch DEF StepsOn, OwnersInv
  <1>11. NearDisjoint'
    BY <1>1 DEF NearDisjoint, StepsOn, Others, OwnersInv, Removing
  <1> QED
    BY <1>1, <1>7, <1>8, <1>10, <1>11, SameNoClash, SameInCalls, SameLock
    DEF OwnersInv, StepsOn, Removing

\* OfferItem makes a new item selectable, free: no owner changes, and no other
\* worker is at that id.
LEMMA OfferOwners ==
  ASSUME TypeOK, ItemsInv, OwnersInv, NEW w \in Workers, OfferItem(w) PROVE OwnersInv'
  <1>1. /\ StepsOn(w) /\ pc[w] = "offer" /\ pc'[w] = "announce" /\ UNCHANGED <<selection, cur>>
        /\ owner' = [i \in DOMAIN owner \cup {cur[w]} |-> IF i = cur[w] THEN Free ELSE owner[i]]
    BY DEF OfferItem, StepsOn, Others, SameCall, TypeOK, WorkersType, CallPhases, clientVars,
           boardVars, Goto
  <1>2. cur[w] \notin DOMAIN owner
        /\ \A v \in Workers \ {w} : pc[v] \in {"unselect", "removing"} => cur[v] # cur[w]
    BY <1>1 DEF ItemsInv, FreshIds, Fresh
  <1>3. \A d \in Clients : \A j : Owns(d, j)' <=> Owns(d, j)
    BY <1>1, <1>2, ConstantsAssumption DEF Owns
  <1>4. ASSUME NEW v \in Workers, v # w
        PROVE  Kept(v)' /\ (pc[v] = "removing" => Owns(msg[v].c, cur[v]))'
    <2>1. /\ pc'[v] = pc[v] /\ msg'[v] = msg[v] /\ done'[v] = done[v] /\ cur'[v] = cur[v]
          /\ Kept(v) /\ (pc[v] = "removing" => Owns(msg[v].c, cur[v])) /\ UNCHANGED raced
      BY <1>1, <1>4 DEF OwnersInv, KeptOwned, EntryOwned, StepsOn, Others
    <2>2. pc[v] # "recv" => msg[v].c \in Clients
      BY DEF TypeOK, WorkersType, Msg
    <2>3. pc[v] = "unselect" /\ cur[v] \in (DOMAIN owner)' \ raced => cur[v] \in DOMAIN owner \ raced
      BY <1>1, <1>2, <1>4
    <2> QED
      BY <1>3, <2>1, <2>2, <2>3 DEF Kept, Removing
  <1>5. Kept(w)' /\ InCall(w)' /\ pc'[w] # "removing"
    BY <1>1 DEF Kept, InCall, Removing
  <1>6. KeptOwned' /\ EntryOwned'
    BY <1>4, <1>5 DEF KeptOwned, EntryOwned
  <1>7. \A d, j : (Taking(d, j) => Taking(d, j)') /\ (Dropping(d, j) => Dropping(d, j)')
    BY <1>1 DEF Taking, Dropping, StepsOn, Others, Removing
  <1>8. NearMatch'
    <2> SUFFICES ASSUME NEW c \in Clients PROVE Match(c)'
      BY DEF NearMatch
    <2>1. Match(c) /\ UNCHANGED raced
      BY <1>1 DEF OwnersInv, NearMatch, StepsOn
    <2>2. \A j \in (DOMAIN owner)' \ raced : owner'[j] = c => j \in selection'[c] \/ Taking(c, j)'
      BY <1>1, <1>3, <1>7, <2>1 DEF Match, Owns
    <2>3. \A j \in selection'[c] \ raced : Owns(c, j)' \/ Dropping(c, j)'
      BY <1>1, <1>3, <1>7, <2>1 DEF Match
    <2> QED
      BY <2>1, <2>2, <2>3 DEF Match
  <1>9. NearDisjoint'
    BY <1>1 DEF NearDisjoint, StepsOn, Others, OwnersInv, Removing
  <1> QED
    BY <1>1, <1>5, <1>6, <1>8, <1>9, SameNoClash, SameInCalls, SameLock
    DEF OwnersInv, StepsOn, Removing

\* The steps that write a selection leave the owners alone.
Writes(w) ==
  /\ Others(w) /\ SameCall(w) /\ pc[w] \in CallPhases /\ pc[w] # "recv"
  /\ msg'[w] = msg[w] /\ UNCHANGED <<owner, raced, done>>
  /\ \A d \in Clients \ {msg[w].c} : selection'[d] = selection[d]

\* What another worker has kept is as it was, and so is another client's match.
LEMMA WritesKept ==
  ASSUME TypeOK, OwnersInv, NEW w \in Workers, Writes(w), Kept(w)', InCall(w)',
         pc'[w] # "removing", NEW c, c = msg[w].c, c \in Clients => Match(c)'
  PROVE  KeptOwned' /\ EntryOwned' /\ NearMatch' /\ NoClash' /\ InCalls'
  <1>1. ASSUME NEW v \in Workers, v # w PROVE Kept(v)'
    <2>1. Kept(v)
      BY DEF OwnersInv, KeptOwned
    <2>2. /\ pc'[v] = pc[v] /\ msg'[v] = msg[v] /\ done'[v] = done[v] /\ cur'[v] = cur[v]
          /\ owner' = owner /\ raced' = raced
      BY <1>1 DEF Writes, Others
    <2> QED
      BY <2>1, <2>2 DEF Kept, Owns
  <1>2. KeptOwned' /\ EntryOwned'
    BY <1>1 DEF KeptOwned, OwnersInv, EntryOwned, Writes, Others, Owns
  <1>3. \A d \in Clients \ {msg[w].c} : \A j : /\ Owns(d, j)' => Owns(d, j)
                                               /\ Owns(d, j) => j \in raced \/ Owns(d, j)'
    BY DEF Owns, Writes
  <1>4. NearMatch'
    BY <1>3, OwnerMatch DEF OwnersInv, Writes
  <1> QED
    BY <1>2, <1>4, SameNoClash, SameInCalls DEF OwnersInv, Writes

\* UpdateSelection inserts what its client owns.
LEMMA UpdateOwners ==
  ASSUME TypeOK, ItemsInv, OwnersInv, NEW w \in Workers, UpdateSelection(w) PROVE OwnersInv'
  <1>1. /\ Writes(w) /\ pc[w] \in {"check", "take"} /\ pc'[w] = "announce" /\ UNCHANGED lock
        /\ selection' = [selection EXCEPT ![msg[w].c] = @ \cup done[w]]
        /\ selection \in [Clients -> SUBSET Items]
    BY DEF UpdateSelection, Writes, Others, SameCall, TypeOK, WorkersType, ClientsType, CallPhases,
           boardVars, Goto
  <1>2. msg[w] \in Msg /\ Kept(w)
    BY <1>1 DEF OwnersInv, KeptOwned, TypeOK, WorkersType
  <1> PICK c \in Clients : c = msg[w].c
    BY <1>2 DEF Msg
  <1>3. \A i \in done[w] \ raced : Owns(c, i)
    BY <1>1, <1>2 DEF Kept
  <1>4. Kept(w)' /\ InCall(w)'
    BY <1>1 DEF Kept, InCall, Removing
  <1>5. \A d, j : (Taking(d, j) => Taking(d, j)' \/ (d = c /\ j \in done[w]))
                  /\ (Dropping(d, j) => Dropping(d, j)')
    BY <1>1 DEF Taking, Dropping, Writes, Others, Removing
  <1>6. Match(c)'
    <2>1. Match(c) /\ UNCHANGED <<owner, raced>> /\ selection'[c] = selection[c] \cup done[w]
      BY <1>1 DEF OwnersInv, NearMatch, Writes
    <2> QED
      BY <1>3, <1>5, <2>1 DEF Match, Owns
  <1>7. NearDisjoint'
    <2> SUFFICES ASSUME NEW a \in Clients, NEW b \in Clients, a # b,
                        NEW i \in (selection'[a] \cap selection'[b]) \ raced
                 PROVE  (\E v \in Workers : pc[v] \in Removing /\ msg[v].c \in {a, b} /\ i \in done[v])'
      BY <1>1 DEF NearDisjoint, Writes
    <2>1. ASSUME NEW v \in Workers, pc[v] \in Removing, msg[v].c \in {a, b}, i \in done[v]
          PROVE  (\E u \in Workers : pc[u] \in Removing /\ msg[u].c \in {a, b} /\ i \in done[u])'
      BY <1>1, <2>1 DEF Writes, Others, Removing
    <2>2. CASE i \in selection[a] \cap selection[b]
      BY <2>1, <2>2 DEF OwnersInv, NearDisjoint
    <2>3. ASSUME i \notin selection[a] \cap selection[b]
          PROVE  \E d \in {a, b} : d # c /\ i \in selection[d] /\ Owns(c, i)
      BY <1>1, <1>3, <2>3 DEF Writes
    <2>4. ASSUME NEW d \in {a, b}, d # c, i \in selection[d], Owns(c, i)
          PROVE  \E v \in Workers : pc[v] \in Removing /\ msg[v].c \in {a, b} /\ i \in done[v]
      <3>1. Dropping(d, i)
        BY <2>4 DEF OwnersInv, NearMatch, Match, Owns
      <3>2. PICK v \in Workers : /\ pc[v] \in Removing \cup {"delCheck", "unselect"}
                                 /\ msg[v].c = d /\ i \in done[v]
        BY <3>1 DEF Dropping
      <3>3. pc[v] \notin {"delCheck", "unselect"}
        BY <2>4, <3>2 DEF ItemsInv, DeletedWithdrawn, Deleting, Owns
      <3> QED
        BY <3>2, <3>3
    <2> QED
      BY <2>1, <2>2, <2>3, <2>4
  <1>8. LockHeld'
    BY <1>1, SameLock DEF OwnersInv, Writes, Removing
  <1> QED
    BY <1>1, <1>4, <1>6, <1>7, <1>8, WritesKept DEF OwnersInv

\* FinishRemove and DropFromSelection drop what their client has given up.
LEMMA DropOwners ==
  ASSUME TypeOK, ItemsInv, OwnersInv, NEW w \in Workers,
         FinishRemove(w) \/ DropFromSelection(w)
  PROVE  OwnersInv'
  <1>1. /\ Writes(w) /\ pc[w] \in {"remove", "delCheck"} /\ pc'[w] \in {"announce", "delete"}
        /\ pc'[w] = "delete" => pc[w] = "delCheck"
        /\ selection' = [selection EXCEPT ![msg[w].c] = @ \ done[w]]
        /\ selection \in [Clients -> SUBSET Items]
    BY DEF FinishRemove, DropFromSelection, Writes, Others, SameCall, TypeOK, WorkersType,
           ClientsType, CallPhases, boardVars, Goto
  <1>2. msg[w] \in Msg /\ Kept(w) /\ InCall(w)
    BY <1>1 DEF OwnersInv, KeptOwned, InCalls, TypeOK, WorkersType
  <1> PICK c \in Clients : c = msg[w].c
    BY <1>2 DEF Msg
  <1>3. \A i \in done[w] \ raced : ~Owns(c, i)
    BY <1>1, <1>2 DEF Kept, Removing
  <1>4. Kept(w)' /\ InCall(w)'
    BY <1>1, <1>2 DEF Kept, InCall, Removing, Writes
  <1>5. \A d, j : (Taking(d, j) => Taking(d, j)')
                  /\ (Dropping(d, j) => Dropping(d, j)' \/ (d = c /\ j \in done[w]))
    BY <1>1 DEF Taking, Dropping, Writes, Others, Removing
  <1>6. Match(c)'
    <2>1. Match(c) /\ UNCHANGED <<owner, raced>> /\ selection'[c] = selection[c] \ done[w]
      BY <1>1 DEF OwnersInv, NearMatch, Writes
    <2> QED
      BY <1>3, <1>5, <2>1 DEF Match, Owns
  <1>7. NearDisjoint'
    <2> SUFFICES ASSUME NEW a \in Clients, NEW b \in Clients, a # b,
                        NEW i \in (selection'[a] \cap selection'[b]) \ raced
                 PROVE  (\E v \in Workers : pc[v] \in Removing /\ msg[v].c \in {a, b} /\ i \in done[v])'
      BY <1>1 DEF NearDisjoint, Writes
    <2>1. i \in selection[a] \cap selection[b]
      BY <1>1 DEF Writes
    <2>2. PICK v \in Workers : pc[v] \in Removing /\ msg[v].c \in {a, b} /\ i \in done[v]
      BY <2>1 DEF OwnersInv, NearDisjoint
    <2>3. v # w
      BY <1>1, <2>2
    <2> QED
      BY <1>1, <2>2, <2>3 DEF Writes, Others
  <1>8. LockHeld'
    <2>1. CASE DropFromSelection(w)
      BY <1>1, <2>1, SameLock DEF OwnersInv, Writes, Removing, DropFromSelection
    <2>2. CASE FinishRemove(w)
      <3>1. pc[w] = "remove" /\ pc'[w] = "announce" /\ lock' = [lock EXCEPT ![c] = NoOne]
            /\ lock \in [Clients -> Workers \cup {NoOne}]
        BY <1>1, <2>2 DEF FinishRemove, Goto, TypeOK, ClientsType, WorkersType
      <3>2. \A v \in Workers : pc[v] \in Removing /\ msg[v].c = c => v = w
        BY <3>1, OneRemover DEF OwnersInv, Removing
      <3> QED
        BY <1>1, <3>1, <3>2, ConstantsAssumption DEF OwnersInv, LockHeld, Writes, Others, Removing
    <2> QED
      BY <2>1, <2>2
  <1> QED
    BY <1>1, <1>4, <1>6, <1>7, <1>8, WritesKept DEF OwnersInv

\* LockClient takes an entry nobody holds.
LEMMA LockOwners ==
  ASSUME TypeOK, ItemsInv, OwnersInv, NEW w \in Workers, LockClient(w) PROVE OwnersInv'
  <1>1. /\ Quiet(w) /\ SameCall(w) /\ pc[w] = "lock" /\ pc'[w] = "remove" /\ done[w] = {}
        /\ UNCHANGED <<msg, done, todo>> /\ lock' = [lock EXCEPT ![msg[w].c] = w]
        /\ lock[msg[w].c] = NoOne /\ lock \in [Clients -> Workers \cup {NoOne}]
    BY DEF LockClient, Quiet, Others, Steady, SameCall, TypeOK, WorkersType, ClientsType, CallPhases,
           Apart, Removing, Withdrawing, boardVars, Goto, Unlocked, ItemsInv, NothingKept
  <1>2. InCall(w) /\ msg[w] \in Msg
    BY <1>1 DEF OwnersInv, InCalls, TypeOK, WorkersType
  <1>3. Kept(w)' /\ InCall(w)' /\ (pc[w] = "removing" => Owns(msg[w].c, cur[w]))'
    BY <1>1, <1>2 DEF Kept, InCall, Removing
  <1>4. LockHeld'
    BY <1>1, <1>2, ConstantsAssumption DEF OwnersInv, LockHeld, Quiet, Others, Removing, Msg
  <1> QED
    BY <1>1, <1>3, <1>4, QuietKept, QuietMatch, SameNoClash, SameInCalls DEF OwnersInv, Quiet

\* Recv: the ids at which the new call clashes with another have raced.
LEMMA RecvOwners ==
  ASSUME TypeOK, OwnersInv, NEW w \in Workers, Recv(w) PROVE OwnersInv'
  <1> DEFINE r == Head(queue)
  <1>1. /\ Others(w) /\ UNCHANGED <<owner, selection, lock, done, cur>> /\ pc[w] = "recv"
        /\ msg'[w] = r /\ pc'[w] = FirstPhase(r.m)
        /\ raced' = raced \cup Met(r, {v \in Workers : Handled(r.c, v)})
    BY DEF Recv, Others, TypeOK, WorkersType, clientVars, Goto
  <1> HIDE DEF r
  <1>2. pc'[w] \in {"insert", "connect", "disconnect", "handle"}
    BY <1>1 DEF FirstPhase
  <1>3. Quiet(w) /\ Kept(w)' /\ InCall(w)'
    BY <1>1, <1>2 DEF Quiet, Steady, Apart, Removing, Withdrawing, Kept, InCall
  <1>4. LockHeld'
    BY <1>1, <1>2, SameLock DEF OwnersInv, Removing
  <1>5. NoClash'
    <2> SUFFICES ASSUME NEW c \in Clients, NEW u \in Workers, NEW v \in Workers,
                        Handled(c, u)', Handled(c, v)', Clash(msg'[u].m, msg'[v].m),
                        NEW i \in Named(msg'[u]) \cap Named(msg'[v])
                 PROVE  i \in raced'
      BY DEF NoClash
    <2>1. CASE u # w /\ v # w
      BY <1>1, <2>1 DEF OwnersInv, NoClash, Others, Handled
    <2>2. ASSUME NEW x \in Workers, x # w, Handled(c, x)', Handled(c, w)',
                 Clash(msg'[x].m, msg'[w].m), i \in Named(msg'[x]) \cap Named(msg'[w])
          PROVE  i \in raced'
      <3>1. Handled(r.c, x) /\ Clash(msg[x].m, r.m) /\ i \in Named(r) \cap Named(msg[x])
        BY <1>1, <2>2 DEF Others, Handled
      <3> QED
        BY <1>1, <3>1 DEF Met
    <2>3. u # v
      BY Mutual
    <2> QED
      BY <2>1, <2>2, <2>3, Mutual
  <1>6. KeptOwned' /\ EntryOwned'
    BY <1>2, <1>3, QuietKept DEF OwnersInv
  <1> QED
    BY <1>1, <1>3, <1>4, <1>5, <1>6, QuietMatch, SameInCalls DEF OwnersInv

\* A board just built: nobody owns or handles anything.
LEMMA NewBoardOwners ==
  ASSUME pc = All("recv"), lock = Each(NoOne), selection = Each({}),
         \A i \in DOMAIN owner : owner[i] = Free
  PROVE  OwnersInv
  <1>1. \A w \in Workers : pc[w] = "recv"
    BY DEF All
  <1>2. LockHeld
    BY <1>1, ConstantsAssumption DEF LockHeld, Removing, Each
  <1>3. EntryOwned /\ InCalls /\ KeptOwned
    BY <1>1 DEF EntryOwned, InCalls, InCall, KeptOwned, Kept, Removing
  <1>4. NoClash
    BY <1>1 DEF NoClash, Handled, CallPhases
  <1>5. NearMatch /\ NearDisjoint
    BY ConstantsAssumption DEF NearMatch, Match, NearDisjoint, Each
  <1> QED
    BY <1>2, <1>3, <1>4, <1>5 DEF OwnersInv

\* What the ownership invariant speaks of.
ownersVars == <<pc, msg, todo, done, cur, owner, selection, lock, raced>>

LEMMA UnchangedOwners == OwnersInv /\ UNCHANGED ownersVars => OwnersInv'
  <1> SUFFICES ASSUME OwnersInv, UNCHANGED ownersVars PROVE OwnersInv'
    OBVIOUS
  <1> USE DEF ownersVars, OwnersInv
  <1>1. LockHeld' /\ EntryOwned'
    BY DEF LockHeld, EntryOwned, Owns
  <1>2. NoClash'
    BY DEF NoClash, Handled
  <1>3. InCalls'
    BY DEF InCalls, InCall
  <1>4. KeptOwned'
    BY DEF KeptOwned, Kept, Owns
  <1>5. NearMatch'
    BY DEF NearMatch, Match, Taking, Dropping, Owns
  <1>6. NearDisjoint'
    BY DEF NearDisjoint
  <1> QED
    BY <1>1, <1>2, <1>3, <1>4, <1>5, <1>6

\* Sockets and sessions touch no ownership; a rebuilt board starts afresh.
LEMMA EnvironmentOwners == OwnersInv /\ Environment => OwnersInv'
  <1>1. ASSUME Refresh PROVE OwnersInv'
    <2>1. (pc = All("recv") /\ lock = Each(NoOne) /\ selection = Each({})
           /\ \A i \in DOMAIN owner : owner[i] = Free)'
      BY <1>1 DEF Refresh, All, Each
    <2>2. pc' = All("recv") /\ lock' = Each(NoOne) /\ selection' = Each({})
      BY <1>1 DEF Refresh
    <2> QED
      BY <2>1, NewBoardOwners, PTL
  <1>2. Environment /\ ~Refresh => UNCHANGED ownersVars
    BY DEF Environment, RequestSession, Connect, Close, LoseSocket, Send, workerVars, clientVars,
           boardVars, ownersVars
  <1> QED
    BY <1>1, <1>2, UnchangedOwners

\* Every step of a worker keeps the invariant of ownership.
LEMMA WorkOwners ==
  ASSUME NEW w \in Workers PROVE TypeOK /\ ItemsInv /\ OwnersInv /\ Work(w) => OwnersInv'
  BY QuietSteps, TakeOwners, RemoveOwners, UnselectOwners, OfferOwners, UpdateOwners, DropOwners,
     LockOwners, RecvOwners DEF Work

\* Whatever clients call and however many workers serve them, the owners and
\* the selections stay together but for ids about which a client raced itself.
THEOREM OwnersSafe == Spec => []OwnersInv
  <1>1. Init => OwnersInv
    BY NewBoardOwners DEF Init
  <1>2. TypeOK /\ ItemsInv /\ OwnersInv /\ [Next]_vars => OwnersInv'
    <2> SUFFICES ASSUME TypeOK, ItemsInv, OwnersInv, [Next]_vars PROVE OwnersInv'
      OBVIOUS
    <2>1. CASE Environment
      BY <2>1, EnvironmentOwners
    <2>2. ASSUME NEW w \in Workers, Work(w) PROVE OwnersInv'
      BY <2>2, WorkOwners
    <2>3. CASE UNCHANGED vars
      BY <2>3, UnchangedOwners DEF vars, workerVars, clientVars, boardVars, ownersVars
    <2> QED
      BY <2>1, <2>2, <2>3 DEF Next, Stop
  <1> QED
    BY <1>1, <1>2, TypeCorrect, ItemsSafe, PTL DEF Spec

\* A client at rest has in its selection exactly the items it owns, but for
\* those it gave up while another of its calls was about them.
THEOREM SelectionsAgree == Spec => []SelectionsMatch
  <1>1. OwnersInv => SelectionsMatch
    <2> SUFFICES ASSUME OwnersInv, NEW c \in Clients, \A w \in Workers : ~Handled(c, w)
                 PROVE  selection[c] \ raced = {i \in DOMAIN owner : owner[i] = c} \ raced
      BY DEF SelectionsMatch
    <2>1. \A i : ~Taking(c, i) /\ ~Dropping(c, i)
      BY DEF Handled, Taking, Dropping, CallPhases, Removing
    <2> QED
      BY <2>1 DEF OwnersInv, NearMatch, Match, Owns
  <1> QED
    BY <1>1, OwnersSafe, PTL

\* No two entries a reader may see hold the same item.
THEOREM SelectionsApart == Spec => []SelectionsDisjoint
  <1>1. OwnersInv => SelectionsDisjoint
    BY ConstantsAssumption DEF OwnersInv, NearDisjoint, LockHeld, SelectionsDisjoint, Unlocked
  <1> QED
    BY <1>1, OwnersSafe, PTL

\* An item is replaced only while the client that asked for it owns it, unless
\* the client gives it up at the same time.
THEOREM OwnersEdit == Spec => []EditsByOwner
  <1>1. OwnersInv => EditsByOwner
    BY DEF OwnersInv, KeptOwned, Kept, EditsByOwner
  <1> QED
    BY <1>1, OwnersSafe, PTL

\* The unwrap of handle_edit_single_item fails in no other case.
THEOREM EditsFindTheirItem == Spec => []EditTargetExists
  <1>1. OwnersInv /\ ItemsInv => EditTargetExists
    BY DEF OwnersInv, KeptOwned, Kept, Owns, ItemsInv, SelectableExists, EditTargetExists
  <1> QED
    BY <1>1, OwnersSafe, ItemsSafe, PTL

\* DeleteItems never withdraws an item another client has come to own, unless
\* its own client released it meanwhile.
THEOREM OwnersDelete == Spec => []DeletesOnlyOwned
  <1>1. OwnersInv => DeletesOnlyOwned
    BY DEF OwnersInv, KeptOwned, Kept, Owns, DeletesOnlyOwned
  <1> QED
    BY <1>1, OwnersSafe, PTL
=============================================================================
