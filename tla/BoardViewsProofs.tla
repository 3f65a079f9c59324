-------------------------- MODULE BoardViewsProofs --------------------------
(***************************************************************************)
(* Theorems about BoardViews: whatever clients call and however many       *)
(* workers serve them, a client's view differs from the board only at ids  *)
(* where two handlers crossed.                                             *)
(***************************************************************************)
EXTENDS BoardViews, BoardProofs

-----------------------------------------------------------------------------
(* The inductive invariant.                                                *)

\* Handlers that have changed what clients should show, and still have to tell
\* some of them.
Adding(w)   == msg[w].m = "SelectionAddItems" /\ pc[w] \in {"take", "announce", "notify"}
Removal(w)  == msg[w].m = "SelectionRemoveItems" /\ pc[w] \in Removing \cup {"announce", "notify"}
Creating(w) == msg[w].m = "CreateItem" /\ pc[w] \in {"listItem", "offer", "announce", "notify"}

\* The ids in the notification of w about selections, and who awaits it.
News(w) == {i \in done[w] : (Adding(w) /\ i \in msg[w].items) \/ Removal(w)}
Owes(w, d) == pc[w] = "notify" => d \in tell[w]
Owing(w, d, i) == Owes(w, d) /\ i \in News(w) /\ msg[w].c # d

\* Phases and messages fit; the client calls no DeleteItems.
Fits(w) ==
  /\ pc[w] \in {"addItem", "listItem", "offer"} => msg[w].m = "CreateItem"
  /\ pc[w] \in {"insert", "register"} => msg[w].m = "SessionRequest"
  /\ pc[w] # "recv" => msg[w].m # "DeleteItems"
  /\ pc[w] = "connect" => msg[w].m = "ClientConnected" /\ msg[w].c \in clientIds
  /\ Removal(w) => done[w] \subseteq Named(msg[w]) \cap items
  /\ Creating(w) => cur[w] \in items

\* Only clients that send_notify_c visits have a handle.
Introduced ==
  /\ \A n \in DOMAIN queue :
       /\ queue[n].m # "DeleteItems"
       /\ queue[n].m = "ClientConnected" => queue[n].c \in clientIds
  /\ \A d \in Clients : handle[d] # 0 => d \in clientIds

\* Where two handlers at work could tell their news in either order, it shows.
Crosses(v, w) ==
  /\ Clash(msg[v].m, msg[w].m) => Named(msg[v]) \cap Named(msg[w]) \subseteq crossed
  /\ Creating(v) /\ cur[v] \in Named(msg[w]) => Named(msg[w]) \subseteq crossed

NoCross ==
  /\ raced \subseteq crossed
  /\ \A v, w \in Workers : v # w /\ Busy(v) /\ Busy(w) => Crosses(v, w)

\* What a handler has still to tell is true.
Right(w) ==
  /\ Adding(w) => \A i \in News(w) \ crossed : Owns(msg[w].c, i)
  /\ Removal(w) => \A i \in News(w) \ crossed : \A c \in Clients : ~Owns(c, i)
  /\ Creating(w) /\ cur[w] \notin crossed => \A c \in Clients : ~Owns(c, cur[w])

AllRight == \A w \in Workers : Right(w)

\* d knows every item, or will be told of it.
Knows(d) ==
  /\ DOMAIN view[d] \subseteq items
  /\ \A j \in items \ DOMAIN view[d] : \E w \in Workers : Creating(w) /\ Owes(w, d) /\ cur[w] = j

\* d draws every item where it should be drawn, or will be told.
Draws(d) ==
  \A i \in DOMAIN view[d] \ crossed :
    view[d][i] = Holder(d, i) \/ \E w \in Workers : Owing(w, d, i)

Views == \A d \in Clients : handle[d] # 0 => Knows(d) /\ Draws(d)

ViewsInv ==
  /\ DOMAIN view = Clients
  /\ \A w \in Workers : Fits(w)
  /\ Introduced /\ NoCross /\ AllRight /\ Views

-----------------------------------------------------------------------------
(* What a step of one worker leaves as it was.                             *)

Same(w) == \A v \in Workers \ {w} :
  /\ pc'[v] = pc[v] /\ msg'[v] = msg[v] /\ done'[v] = done[v]
  /\ cur'[v] = cur[v] /\ tell'[v] = tell[v]

LEMMA SameNews ==
  ASSUME NEW w \in Workers, Same(w), NEW v \in Workers, v # w
  PROVE  /\ Adding(v)' <=> Adding(v)
         /\ Removal(v)' <=> Removal(v)
         /\ Creating(v)' <=> Creating(v)
         /\ News(v)' = News(v) /\ Busy(v)' = Busy(v)
         /\ \A d : Owes(v, d)' <=> Owes(v, d)
  BY DEF Same, Adding, Removal, Creating, News, Busy, Owes

\* The others' news stays true when no owner changes.
LEMMA SameRight ==
  ASSUME AllRight, NEW w \in Workers, Same(w), Right(w)', crossed \subseteq crossed', TypeOK,
         \A c \in Clients : \A i : Owns(c, i)' <=> Owns(c, i)
  PROVE  AllRight'
  <1> SUFFICES ASSUME NEW v \in Workers, v # w PROVE Right(v)'
    BY DEF AllRight
  <1>1. Right(v) /\ msg'[v] = msg[v] /\ cur'[v] = cur[v] /\ pc'[v] = pc[v]
    BY DEF AllRight, Same
  <1>2. pc[v] # "recv" => msg[v].c \in Clients
    BY DEF TypeOK, WorkersType, Msg
  <1>3. Adding(v) => pc[v] # "recv"
    BY DEF Adding
  <1> QED
    BY <1>1, <1>2, <1>3, SameNews DEF Right

\* No two handlers come to cross when none starts and none creates.
LEMMA SameCross ==
  ASSUME NoCross, NEW w \in Workers, Same(w), crossed \subseteq crossed', UNCHANGED raced,
         Busy(w)' => Busy(w) /\ msg'[w] = msg[w],
         Creating(w)' => Creating(w) /\ cur'[w] = cur[w]
  PROVE  NoCross'
  <1>1. \A v \in Workers : Busy(v)' => Busy(v) /\ msg'[v] = msg[v]
    BY SameNews DEF Same
  <1>2. \A v \in Workers : Creating(v)' => Creating(v) /\ cur'[v] = cur[v]
    BY SameNews DEF Same
  <1> QED
    BY <1>1, <1>2 DEF NoCross, Crosses

\* The views stay right when those told are told later, and what the step
\* changes is told.
LEMMA SameViews ==
  ASSUME Views, NEW w \in Workers, Same(w), UNCHANGED view, crossed \subseteq crossed',
         \A d \in Clients : handle'[d] # 0 => handle[d] # 0,
         \A d \in Clients : handle[d] # 0 =>
           /\ \A i : Owing(w, d, i) => Owing(w, d, i)'
           /\ Creating(w) /\ Owes(w, d) => (Creating(w) /\ Owes(w, d))' /\ cur'[w] = cur[w]
           /\ \A i \in items : Holder(d, i)' = Holder(d, i) \/ Owing(w, d, i)',
         \/ items' = items
         \/ /\ items' = items \cup {cur'[w]}
            /\ \A d \in Clients : (Creating(w) /\ Owes(w, d))'
  PROVE  Views'
  <1> SUFFICES ASSUME NEW d \in Clients, handle'[d] # 0 PROVE Knows(d)' /\ Draws(d)'
    BY DEF Views
  <1>1. Knows(d) /\ Draws(d) /\ handle[d] # 0
    BY DEF Views
  <1>2. \A v \in Workers \ {w} : (\A i : Owing(v, d, i) => Owing(v, d, i)')
                                 /\ (Creating(v) /\ Owes(v, d) => (Creating(v) /\ Owes(v, d))' /\ cur'[v] = cur[v])
    BY SameNews DEF Owing, Same
  <1>3. \A v \in Workers : (\A i : Owing(v, d, i) => Owing(v, d, i)')
                           /\ (Creating(v) /\ Owes(v, d) => (Creating(v) /\ Owes(v, d))' /\ cur'[v] = cur[v])
    BY <1>1, <1>2
  <1>4. Knows(d)'
    <2>1. DOMAIN view'[d] \subseteq items'
      BY <1>1 DEF Knows
    <2>2. ASSUME NEW j \in items' \ DOMAIN view'[d]
          PROVE  \E v \in Workers : (Creating(v) /\ Owes(v, d))' /\ cur'[v] = j
      <3>1. CASE j \in items
        <4>1. PICK v \in Workers : Creating(v) /\ Owes(v, d) /\ cur[v] = j
          BY <1>1, <2>2, <3>1 DEF Knows
        <4> QED
          BY <1>3, <4>1
      <3>2. CASE j \notin items
        BY <2>2, <3>2
      <3> QED
        BY <3>1, <3>2
    <2> QED
      BY <2>1, <2>2 DEF Knows
  <1>5. Draws(d)'
    <2> SUFFICES ASSUME NEW i \in DOMAIN view[d] \ crossed
                 PROVE  view[d][i] = Holder(d, i)' \/ \E v \in Workers : Owing(v, d, i)'
      BY DEF Draws
    <2>1. view[d][i] = Holder(d, i) \/ \E v \in Workers : Owing(v, d, i)
      BY <1>1 DEF Draws
    <2>2. i \in items
      BY <1>1 DEF Knows
    <2>3. Holder(d, i)' = Holder(d, i) \/ Owing(w, d, i)'
      BY <1>1, <2>2
    <2> QED
      BY <1>3, <2>1, <2>3
  <1> QED
    BY <1>4, <1>5

\* Phases, messages and the queue.
LEMMA SameFits ==
  ASSUME NEW w \in Workers, Same(w), Fits(w)', clientIds \subseteq clientIds', items \subseteq items',
         \A v \in Workers : Fits(v)
  PROVE  \A v \in Workers : Fits(v)'
  <1> SUFFICES ASSUME NEW v \in Workers, v # w PROVE Fits(v)'
    OBVIOUS
  <1>1. Fits(v) /\ (Removal(v)' <=> Removal(v)) /\ (Creating(v)' <=> Creating(v))
    BY SameNews
  <1> QED
    BY <1>1 DEF Same, Fits

-----------------------------------------------------------------------------
(* Steps that change neither owners, nor items, nor views.                 *)

Calm(w) ==
  /\ Same(w) /\ UNCHANGED <<queue, items, views, raced>> /\ clientIds \subseteq clientIds'
  /\ \A c \in Clients : \A i : Owns(c, i)' <=> Owns(c, i)
  /\ \A c \in Clients : \A i \in items : Holder(c, i)' = Holder(c, i)
  /\ Busy(w)' => Busy(w) /\ msg'[w] = msg[w]
  /\ Creating(w)' => Creating(w) /\ cur'[w] = cur[w]
  /\ Fits(w)' /\ Right(w)'
  /\ \A d \in Clients : handle'[d] # 0 => handle[d] # 0
  /\ \A d \in Clients : handle[d] # 0 =>
       /\ \A i : Owing(w, d, i) => Owing(w, d, i)'
       /\ Creating(w) /\ Owes(w, d) => (Creating(w) /\ Owes(w, d))' /\ cur'[w] = cur[w]

LEMMA CalmViews ==
  ASSUME TypeOK, ViewsInv, NEW w \in Workers, Calm(w) PROVE ViewsInv'
  <1>1. \A v \in Workers : Fits(v)'
    BY SameFits DEF ViewsInv, Calm
  <1>2. Introduced'
    BY DEF ViewsInv, Calm, Introduced
  <1>3. NoCross' /\ AllRight'
    BY SameCross, SameRight DEF ViewsInv, Calm, views
  <1>4. Views'
    BY SameViews DEF ViewsInv, Calm, views
  <1> QED
    BY <1>1, <1>2, <1>3, <1>4 DEF ViewsInv, Calm, views

\* The worker's own side of a step, when it moves from phase to phase.
LEMMA CalmSteps ==
  ASSUME TypeOK, ItemsInv, OwnersInv, ViewsInv, UNCHANGED views, NEW w \in Workers,
         \/ InsertClient(w) \/ RegisterClient(w) \/ StartNotify(w)
         \/ CreateHandle(w) \/ StartTaking(w) \/ UpdateSelection(w)
         \/ LockClient(w) \/ FinishRemove(w) \/ CheckEdit(w) \/ EditItem(w)
         \/ ListItem(w) \/ LookUpPath(w)
         \/ SetHandle(w) /\ pc[w] = "disconnect"
         \/ \E i \in todo[w] : CheckOwned(w, i) \/ PickItem(w, i)
  PROVE  ViewsInv'
  <1> DEFINE Q == /\ Same(w) /\ UNCHANGED <<queue, raced, owner, items>> /\ clientIds \subseteq clientIds'
                  /\ Busy(w)' => Busy(w) /\ msg'[w] = msg[w]
                  /\ Creating(w)' => Creating(w) /\ cur'[w] = cur[w]
                  /\ Fits(w)'
                  /\ Adding(w)' => \A i \in News(w)' \ crossed : Owns(msg[w].c, i)
                  /\ Removal(w)' => done'[w] = {} \/ (Removal(w) /\ done'[w] = done[w])
                  /\ \A d \in Clients : handle'[d] # 0 => handle[d] # 0
                  /\ \A d \in Clients : handle[d] # 0 =>
                       /\ \A i : Owing(w, d, i) => Owing(w, d, i)'
                       /\ Creating(w) /\ Owes(w, d) => (Creating(w) /\ Owes(w, d))' /\ cur'[w] = cur[w]
  <1>0. /\ Fits(w) /\ Right(w) /\ InCall(w) /\ Kept(w) /\ WorkersType /\ ClientsType
        /\ pc[w] \in {"lock", "handle"} => done[w] = {}
        /\ raced \subseteq crossed
        /\ \A d \in Clients : handle[d] # 0 => d \in clientIds
    BY DEF ViewsInv, AllRight, OwnersInv, InCalls, KeptOwned, TypeOK, ItemsInv, NothingKept,
           NoCross, Introduced
  <1> USE <1>0 DEF WorkersType, ClientsType, Same, Busy, Creating, Adding, Removal, News, Owes, Owing, Fits,
              Goto, Return, clientVars, canvasVars, boardVars, Removing
  <1>1. ASSUME SetHandle(w), pc[w] = "disconnect" PROVE Q
    BY <1>1 DEF SetHandle
  <1>2. ASSUME InsertClient(w) PROVE Q
    BY <1>2 DEF InsertClient
  <1>3. ASSUME RegisterClient(w) PROVE Q
    BY <1>3 DEF RegisterClient
  <1>4. ASSUME StartNotify(w) PROVE Q
    BY <1>4 DEF StartNotify, Right
  <1>6. ASSUME CreateHandle(w) PROVE Q
    BY <1>6 DEF CreateHandle, MethodPhase
  <1>7. ASSUME StartTaking(w) PROVE Q
    BY <1>7 DEF StartTaking, Kept
  <1>8. ASSUME CheckEdit(w) PROVE Q
    BY <1>8 DEF CheckEdit
  <1>9. ASSUME EditItem(w) PROVE Q
    BY <1>9 DEF EditItem, InCall
  <1>10. ASSUME UpdateSelection(w) PROVE Q
    BY <1>10 DEF UpdateSelection, Right, InCall
  <1>11. ASSUME ListItem(w) PROVE Q
    BY <1>11 DEF ListItem
  <1>12. ASSUME LookUpPath(w) PROVE Q
    BY <1>12 DEF LookUpPath
  <1>13. ASSUME NEW i \in todo[w], CheckOwned(w, i) PROVE Q
    BY <1>13 DEF CheckOwned
  <1>14. ASSUME LockClient(w) PROVE Q
    BY <1>14 DEF LockClient
  <1>15. ASSUME NEW i \in todo[w], PickItem(w, i) PROVE Q
    BY <1>15 DEF PickItem
  <1>16. ASSUME FinishRemove(w) PROVE Q
    BY <1>16 DEF FinishRemove, InCall
  <1>17. Q
    BY <1>1, <1>2, <1>3, <1>4, <1>6, <1>7, <1>8, <1>9, <1>10, <1>11, <1>12, <1>13, <1>14,
       <1>15, <1>16
  <1>18. Right(w)'
    BY <1>17 DEF Right, views, Owns
  <1>19. Calm(w)
    BY <1>17, <1>18 DEF Calm, Owns, Holder
  <1> QED
    BY <1>19, CalmViews

-----------------------------------------------------------------------------
(* Steps that change owners, items or views.                               *)

\* OfferItem changes no owner.
LEMMA OfferViews ==
  ASSUME TypeOK, ItemsInv, ViewsInv, UNCHANGED views, NEW w \in Workers, OfferItem(w)
  PROVE  ViewsInv'
  <1>1. /\ Same(w) /\ UNCHANGED <<queue, items, raced, clientIds, handle, msg, done, cur, tell>>
        /\ pc[w] = "offer" /\ pc'[w] = "announce"
        /\ owner' = [i \in DOMAIN owner \cup {cur[w]} |-> IF i = cur[w] THEN Free ELSE owner[i]]
    BY DEF OfferItem, Same, TypeOK, WorkersType, clientVars, canvasVars, boardVars, Goto
  <1>2. cur[w] \notin DOMAIN owner
    BY <1>1 DEF ItemsInv, FreshIds, Fresh
  <1>3. \A c \in Clients : \A i : Owns(c, i)' <=> Owns(c, i)
    BY <1>1, <1>2, ConstantsAssumption DEF Owns
  <1>4. \A c \in Clients : \A i : Holder(c, i)' = Holder(c, i)
    BY <1>1, <1>2 DEF Holder
  <1>5. Fits(w) /\ Right(w) /\ msg[w].m = "CreateItem"
    BY <1>1 DEF ViewsInv, AllRight, Fits
  <1>6. Fits(w)' /\ Right(w)'
    BY <1>1, <1>3, <1>5 DEF Fits, Right, Adding, Removal, Creating, views
  <1>7. \A d \in Clients : /\ \A i : ~Owing(w, d, i)
                           /\ (Creating(w) /\ Owes(w, d))'
    BY <1>1, <1>5 DEF Owing, News, Adding, Removal, Creating, Owes
  <1>8. Busy(w) /\ Creating(w)
    BY <1>1, <1>5 DEF Busy, Creating
  <1>9. Calm(w)
    BY <1>1, <1>3, <1>4, <1>6, <1>7, <1>8 DEF Calm
  <1> QED
    BY <1>9, CalmViews

\* An id whose owner changes, and that another handler names too, has crossed.
LEMMA ChangeCrossed ==
  ASSUME TypeOK, ViewsInv, InCalls, NEW w \in Workers, Busy(w),
         NEW v \in Workers, v # w, NEW i, i \in Named(msg[w]) \ crossed
  PROVE  /\ Adding(v) /\ i \in News(v) => msg[w].m \notin Giving
         /\ Removal(v) /\ i \in News(v) => msg[w].m = "SelectionRemoveItems"
         /\ Creating(v) => cur[v] # i
  <1>1. Busy(v) => Crosses(v, w) /\ Crosses(w, v)
    BY DEF ViewsInv, NoCross
  <1>2. Fits(v)
    BY DEF ViewsInv
  <1>3. Adding(v) /\ i \in News(v) => i \in Named(msg[v]) /\ Busy(v)
    BY DEF Adding, News, Named, Removal, Busy
  <1>4. Removal(v) /\ i \in News(v) => i \in Named(msg[v]) /\ Busy(v)
    BY <1>2 DEF Removal, News, Fits, Busy, Removing
  <1>5. Creating(v) => Busy(v)
    BY DEF Creating, Busy
  <1> QED
    BY <1>1, <1>3, <1>4, <1>5 DEF Crosses, Clash, Giving, Adding, Removal

\* TakeItem: nobody has still to tell of an earlier release.
LEMMA TakeViews ==
  ASSUME TypeOK, OwnersInv, ViewsInv, UNCHANGED views, NEW w \in Workers,
         NEW i \in todo[w], TakeItem(w, i)
  PROVE  ViewsInv'
  <1>1. /\ Same(w) /\ UNCHANGED <<pc, msg, queue, items, raced, clientIds, handle, cur, tell, crossed, view>>
        /\ pc[w] = "take" /\ done'[w] \in {done[w], done[w] \cup {i}}
    BY DEF TakeItem, Same, TypeOK, WorkersType, clientVars, canvasVars, boardVars, views
  <1>2. InCall(w) /\ Fits(w) /\ Right(w) /\ msg[w] \in Msg
    BY <1>1 DEF OwnersInv, InCalls, ViewsInv, AllRight, TypeOK, WorkersType
  <1> PICK c \in Clients : c = msg[w].c
    BY <1>2 DEF Msg
  <1>3. /\ msg[w].m = "SelectionAddItems" /\ i \in msg[w].items /\ i \in Named(msg[w])
        /\ Adding(w) /\ ~Removal(w) /\ ~Creating(w) /\ Busy(w)
    BY <1>1, <1>2 DEF InCall, Adding, Removal, Creating, Named, Busy
  <1>4. CASE Takeable(c, i)
    <2>1. owner' = [owner EXCEPT ![i] = c] /\ done'[w] = done[w] \cup {i}
      BY <1>4 DEF TakeItem, TypeOK, WorkersType
    <2>2. \A d \in Clients : \A j : Owns(d, j)' <=> Owns(d, j) \/ (d = c /\ j = i)
      BY <1>4, <2>1, ConstantsAssumption DEF Owns, Takeable
    <2>3. \A d \in Clients : \A j : j # i \/ d = c => Holder(d, j)' = Holder(d, j)
      BY <1>4, <2>1 DEF Holder, Takeable
    <2>4. Right(w)' /\ Fits(w)'
      BY <1>1, <1>2, <1>3, <2>1, <2>2 DEF Right, Fits, Adding, Removal, Creating, News
    <2>5. AllRight'
      <3> SUFFICES ASSUME NEW v \in Workers, v # w PROVE Right(v)'
        BY <2>4 DEF AllRight
      <3>1. Right(v) /\ msg'[v] = msg[v] /\ cur'[v] = cur[v]
        BY <1>1 DEF ViewsInv, AllRight
      <3>2. i \notin crossed => (Removal(v) => i \notin News(v)) /\ (Creating(v) => cur[v] # i)
        BY <1>3, ChangeCrossed DEF OwnersInv, Giving
      <3>3. Adding(v) => msg[v].c \in Clients
        BY DEF Adding, TypeOK, WorkersType, Msg
      <3> QED
        BY <1>1, <2>2, <3>1, <3>2, <3>3, SameNews DEF Right
    <2>6. NoCross'
      BY <1>1, <1>3, SameCross DEF ViewsInv, Creating
    <2>7. \A v \in Workers : Fits(v)'
      BY <1>1, <2>4, SameFits DEF ViewsInv
    <2>8. Introduced'
      BY <1>1 DEF ViewsInv, Introduced
    <2>9. \A d \in Clients : \A j : /\ Owing(w, d, j) => Owing(w, d, j)'
                                    /\ Holder(d, j)' = Holder(d, j) \/ Owing(w, d, j)'
      BY <1>1, <1>3, <2>1, <2>3 DEF Owing, Owes, News, Adding, Removal
    <2>10. Views'
      BY <1>1, <1>3, <2>9, SameViews DEF ViewsInv
    <2> QED
      BY <1>1, <2>5, <2>6, <2>7, <2>8, <2>10 DEF ViewsInv
  <1>5. CASE ~Takeable(c, i)
    <2>1. UNCHANGED <<owner, done>>
      BY <1>5 DEF TakeItem
    <2>2. Calm(w)
      BY <1>1, <1>2, <2>1 DEF Calm, views, Owns, Holder, Busy, Creating, Fits, Right, Removal, Adding,
                              News, Owing, Owes
    <2> QED
      BY <2>2, CalmViews
  <1> QED
    BY <1>4, <1>5

\* RemoveItem: nobody has still to tell of an earlier choice.
LEMMA RemoveViews ==
  ASSUME TypeOK, OwnersInv, ViewsInv, UNCHANGED views, NEW w \in Workers, RemoveItem(w)
  PROVE  ViewsInv'
  <1> PICK i : i = cur[w]
    OBVIOUS
  <1>1. /\ Same(w) /\ UNCHANGED <<msg, queue, items, raced, clientIds, handle, tell, crossed, view>>
        /\ pc[w] = "removing" /\ pc'[w] = "remove"
    BY DEF RemoveItem, Same, TypeOK, WorkersType, clientVars, canvasVars, boardVars, views, Goto
  <1>2. InCall(w) /\ Fits(w) /\ Right(w) /\ msg[w] \in Msg /\ Owns(msg[w].c, i)
    BY <1>1 DEF OwnersInv, InCalls, EntryOwned, ViewsInv, AllRight, TypeOK, WorkersType
  <1> PICK c \in Clients : c = msg[w].c
    BY <1>2 DEF Msg
  <1>3. /\ msg[w].m = "SelectionRemoveItems" /\ i \in Named(msg[w])
        /\ ~Adding(w) /\ Removal(w) /\ ~Creating(w) /\ Busy(w) /\ (Removal(w) /\ Busy(w))'
        /\ ~Adding(w)' /\ ~Creating(w)'
    BY <1>1, <1>2 DEF InCall, Adding, Removal, Creating, Named, Busy, Removing
  <1>4. CASE i \in items
    <2>1. owner' = [owner EXCEPT ![i] = Free] /\ done'[w] = done[w] \cup {i}
      BY <1>4 DEF RemoveItem, TypeOK, WorkersType
    <2>2. \A d \in Clients : \A j : Owns(d, j)' <=> Owns(d, j) /\ j # i
      BY <1>2, <2>1, ConstantsAssumption DEF Owns
    <2>3. \A d \in Clients : \A j : j # i \/ d = c => Holder(d, j)' = Holder(d, j)
      BY <1>2, <2>1 DEF Holder, Owns
    <2>4. Right(w)' /\ Fits(w)'
      BY <1>1, <1>2, <1>3, <1>4, <2>1, <2>2 DEF Right, Fits, News
    <2>5. AllRight'
      <3> SUFFICES ASSUME NEW v \in Workers, v # w PROVE Right(v)'
        BY <2>4 DEF AllRight
      <3>1. Right(v) /\ msg'[v] = msg[v] /\ cur'[v] = cur[v]
        BY <1>1 DEF ViewsInv, AllRight, Same
      <3>2. i \notin crossed => (Adding(v) => i \notin News(v))
        BY <1>3, ChangeCrossed DEF OwnersInv, Giving
      <3>3. Adding(v) => msg[v].c \in Clients
        BY DEF Adding, TypeOK, WorkersType, Msg
      <3> QED
        BY <1>1, <2>2, <3>1, <3>2, <3>3, SameNews DEF Right
    <2>6. NoCross'
      BY <1>1, <1>3, SameCross DEF ViewsInv, Creating
    <2>7. \A v \in Workers : Fits(v)'
      BY <1>1, <2>4, SameFits DEF ViewsInv
    <2>8. Introduced'
      BY <1>1 DEF ViewsInv, Introduced
    <2>9. \A d \in Clients : \A j : /\ Owing(w, d, j) => Owing(w, d, j)'
                                    /\ Holder(d, j)' = Holder(d, j) \/ Owing(w, d, j)'
      BY <1>1, <1>3, <2>1, <2>3 DEF Owing, Owes, News, Adding
    <2>10. Views'
      BY <1>1, <1>3, <2>9, SameViews DEF ViewsInv
    <2> QED
      BY <1>1, <2>5, <2>6, <2>7, <2>8, <2>10 DEF ViewsInv
  <1>5. CASE i \notin items
    <2>1. UNCHANGED <<owner, done>>
      BY <1>5 DEF RemoveItem
    <2>2. Calm(w)
      BY <1>1, <1>2, <1>3, <2>1 DEF Calm, views, Owns, Holder, Fits, Right, News, Owing, Owes
    <2> QED
      BY <2>2, CalmViews
  <1> QED
    BY <1>4, <1>5

\* Recv: the new handler crosses whom it meets.
LEMMA MeetViews ==
  ASSUME TypeOK, ItemsInv, ViewsInv, NEW w \in Workers, Meet(w) PROVE ViewsInv'
  <1> DEFINE r == Head(queue)
             others == {v \in Workers : Busy(v)}
  <1>1. /\ Same(w) /\ UNCHANGED <<owner, items, view, clientIds, handle, done, cur, tell>>
        /\ pc[w] = "recv" /\ msg'[w] = r /\ pc'[w] = FirstPhase(r.m)
        /\ queue # <<>> /\ queue' = Tail(queue)
        /\ raced' = raced \cup Met(r, {v \in Workers : Handled(r.c, v)})
        /\ Met(r, others) \subseteq crossed' /\ crossed \subseteq crossed'
        /\ \A v \in others : msg[v].m = "CreateItem" /\ cur[v] \in Named(r) => Named(r) \subseteq crossed'
    BY DEF Meet, Recv, Same, TypeOK, WorkersType, clientVars, canvasVars, Goto
  <1>2. /\ r.m # "DeleteItems" /\ (r.m = "ClientConnected" => r.c \in clientIds)
        /\ Introduced'
    <2>1. queue \in Seq(Msg) /\ Len(queue) \in Nat \ {0}
      BY <1>1 DEF TypeOK, QueueType
    <2>2. 1 \in DOMAIN queue /\ r = queue[1]
      BY <2>1
    <2>3. \A n \in DOMAIN queue' : n + 1 \in DOMAIN queue /\ queue'[n] = queue[n + 1]
      BY <1>1, <2>1
    <2> HIDE DEF r
    <2> QED
      BY <1>1, <2>2, <2>3 DEF ViewsInv, Introduced
  <1> HIDE DEF r
  <1>3. /\ pc'[w] \in {"insert", "connect", "disconnect", "handle"}
        /\ pc'[w] = "insert" => r.m = "SessionRequest"
        /\ pc'[w] = "connect" => r.m = "ClientConnected"
    BY <1>1 DEF FirstPhase
  <1>4. Fits(w)' /\ Right(w)' /\ ~Creating(w)' /\ (\A d, i : ~Owing(w, d, i)) /\ ~Creating(w)
    BY <1>1, <1>2, <1>3 DEF Fits, Right, Adding, Removal, Creating, Removing, Owing, News
  <1>5. NoCross'
    <2>1. raced' \subseteq crossed'
      <3>1. \A v \in Workers : Handled(r.c, v) => v \in others
        BY DEF Handled, Busy, CallPhases
      <3>2. Met(r, {v \in Workers : Handled(r.c, v)}) \subseteq Met(r, others)
        BY <3>1 DEF Met
      <3> QED
        BY <1>1, <3>2 DEF ViewsInv, NoCross
    <2>2. ASSUME NEW u \in Workers, NEW v \in Workers, u # v, u # w, v # w, Busy(u)', Busy(v)'
          PROVE  Crosses(u, v)'
      <3>1. Crosses(u, v)
        BY <1>1, <2>2, SameNews DEF ViewsInv, NoCross
      <3> QED
        BY <1>1, <2>2, <3>1, SameNews DEF Crosses, Same
    <2>3. ASSUME NEW v \in Workers, v # w, Busy(v)'
          PROVE  Crosses(v, w)' /\ Crosses(w, v)'
      <3>1. v \in others /\ msg'[v] = msg[v] /\ cur'[v] = cur[v] /\ (Creating(v)' => msg[v].m = "CreateItem")
        BY <1>1, <2>3, SameNews DEF Same, Creating
      <3>2. Clash(msg[v].m, r.m) => Named(msg[v]) \cap Named(r) \subseteq crossed'
        BY <1>1, <3>1 DEF Met
      <3> QED
        BY <1>1, <1>4, <3>1, <3>2, Mutual DEF Crosses
    <2> QED
      BY <2>1, <2>2, <2>3 DEF NoCross
  <1>6. AllRight'
    BY <1>1, <1>4, SameRight DEF ViewsInv, Owns
  <1>7. Views'
    <2>1. \A d \in Clients : \A i \in items : Holder(d, i)' = Holder(d, i)
      BY <1>1 DEF Holder
    <2> QED
      BY <1>1, <1>4, <2>1, SameViews DEF ViewsInv
  <1>8. \A v \in Workers : Fits(v)'
    BY <1>1, <1>4, SameFits DEF ViewsInv
  <1> QED
    BY <1>1, <1>2, <1>5, <1>6, <1>7, <1>8 DEF ViewsInv

\* AddItem: whoever named the new id has crossed; everyone will be told of it.
LEMMA CreateViews ==
  ASSUME TypeOK, ItemsInv, ViewsInv, NEW w \in Workers, Create(w) PROVE ViewsInv'
  <1>1. /\ Same(w) /\ UNCHANGED <<queue, owner, view, clientIds, handle, raced, done, tell, msg>>
        /\ pc[w] = "addItem" /\ pc'[w] = "listItem" /\ cur'[w] = nextId
        /\ items' = items \cup {nextId} /\ crossed \subseteq crossed'
        /\ \A v \in Workers : Busy(v) /\ nextId \in Named(msg[v]) => Named(msg[v]) \subseteq crossed'
    BY DEF Create, AddItem, Same, TypeOK, WorkersType, clientVars, canvasVars, boardVars, Goto
  <1>2. Fits(w) /\ msg[w].m = "CreateItem" /\ Busy(w) /\ ~Creating(w)
    BY <1>1 DEF ViewsInv, Fits, Busy, Creating
  <1>3. \A c \in Clients : ~Owns(c, nextId)
    BY DEF TypeOK, CanvasType, Owns, Items
  <1>4. Fits(w)' /\ Right(w)' /\ (\A d \in Clients : /\ \A i : ~Owing(w, d, i)
                                                      /\ (Creating(w) /\ Owes(w, d))')
    BY <1>1, <1>2, <1>3 DEF Fits, Right, Adding, Removal, Creating, Owing, Owes, News, Owns
  <1>5. NoCross'
    <2> SUFFICES ASSUME NEW u \in Workers, NEW v \in Workers, u # v, Busy(u)', Busy(v)'
                 PROVE  Crosses(u, v)'
      BY <1>1 DEF ViewsInv, NoCross
    <2>1. Crosses(u, v) /\ Busy(u) /\ Busy(v)
      BY <1>1, <1>2, SameNews DEF ViewsInv, NoCross
    <2>2. CASE u # w
      BY <1>1, <2>1, <2>2, SameNews DEF Crosses, Same
    <2>3. CASE u = w
      BY <1>1, <2>1, <2>3 DEF Crosses
    <2> QED
      BY <2>2, <2>3
  <1>6. AllRight'
    BY <1>1, <1>4, SameRight DEF ViewsInv, Owns
  <1>7. Views'
    <2>1. \A d \in Clients : \A i \in items : Holder(d, i)' = Holder(d, i)
      BY <1>1 DEF Holder
    <2> QED
      BY <1>1, <1>2, <1>4, <2>1, SameViews DEF ViewsInv
  <1>8. \A v \in Workers : Fits(v)'
    BY <1>1, <1>4, SameFits DEF ViewsInv
  <1> QED
    BY <1>1, <1>5, <1>6, <1>7, <1>8 DEF ViewsInv, Introduced

\* A notification makes the view of its reader right.
LEMMA TellViews ==
  ASSUME TypeOK, ViewsInv, NEW w \in Workers, NEW d \in tell[w], Tell(w, d)
  PROVE  ViewsInv'
  <1>1. /\ Same(w) /\ UNCHANGED <<queue, owner, items, clientIds, handle, raced, crossed>>
        /\ pc[w] = "notify" /\ d \in Clients
        /\ \/ pc'[w] = "recv" /\ tell[w] = {d}
           \/ /\ pc'[w] = "notify" /\ tell'[w] = tell[w] \ {d}
              /\ UNCHANGED <<msg, done, cur>>
    BY DEF Tell, Notify, Return, Same, TypeOK, WorkersType, clientVars, canvasVars, boardVars, Goto
  <1>2. Fits(w) /\ Right(w) /\ DOMAIN view = Clients /\ msg[w] \in Msg
    BY <1>1 DEF ViewsInv, AllRight, TypeOK, WorkersType
  <1> PICK c \in Clients : c = msg[w].c
    BY <1>2 DEF Msg
  <1>3. Fits(w)' /\ Right(w)' /\ (Creating(w)' => Creating(w) /\ cur'[w] = cur[w])
        /\ (Busy(w)' => Busy(w) /\ msg'[w] = msg[w])
    BY <1>1, <1>2 DEF Fits, Right, Adding, Removal, Creating, Removing, Busy, News, Owns
  <1>4. \A e \in Clients \ {d} :
          /\ \A i : Owing(w, e, i) => Owing(w, e, i)'
          /\ Creating(w) /\ Owes(w, e) => (Creating(w) /\ Owes(w, e))' /\ cur'[w] = cur[w]
    BY <1>1 DEF Owing, Owes, News, Adding, Removal, Creating
  <1>5. NoCross' /\ AllRight' /\ (\A v \in Workers : Fits(v)') /\ Introduced'
    <2>1. \A b \in Clients : \A i : Owns(b, i)' <=> Owns(b, i)
      BY <1>1 DEF Owns
    <2> QED
      BY <1>1, <1>3, <2>1, SameCross, SameRight, SameFits DEF ViewsInv, Introduced
  <1>6. \A e \in Clients \ {d} : view'[e] = view[e]
    BY <1>2 DEF Tell, Receive, SeeItem, SeeAdded, SeeRemoved, Draw
  <1>7. DOMAIN view' = Clients
    BY <1>2 DEF Tell, Receive, SeeItem, SeeAdded, SeeRemoved, Draw
  <1>8. \A v \in Workers \ {w}, e \in Clients :
          /\ \A i : Owing(v, e, i) => Owing(v, e, i)'
          /\ Creating(v) /\ Owes(v, e) => (Creating(v) /\ Owes(v, e))' /\ cur'[v] = cur[v]
    BY <1>1, SameNews DEF Owing, Same
  <1>9. \A e, i : Holder(e, i)' = Holder(e, i)
    BY <1>1 DEF Holder
  <1>10. ASSUME NEW e \in Clients \ {d}, handle[e] # 0 PROVE Knows(e)' /\ Draws(e)'
    <2>1. Knows(e) /\ Draws(e)
      BY <1>10 DEF ViewsInv, Views
    <2>2. Knows(e)'
      BY <1>1, <1>4, <1>6, <1>8, <2>1 DEF Knows
    <2>3. Draws(e)'
      <3> SUFFICES ASSUME NEW i \in DOMAIN view[e] \ crossed
                   PROVE  view[e][i] = Holder(e, i) \/ \E v \in Workers : Owing(v, e, i)'
        BY <1>1, <1>6, <1>9 DEF Draws
      <3>1. view[e][i] = Holder(e, i) \/ \E v \in Workers : Owing(v, e, i)
        BY <2>1 DEF Draws
      <3> QED
        BY <1>4, <1>8, <3>1
    <2> QED
      BY <2>2, <2>3
  <1>11. ASSUME handle[d] # 0 PROVE Knows(d)' /\ Draws(d)'
    <2>1. Knows(d) /\ Draws(d) /\ Receive(w, d)
      BY <1>1, <1>11 DEF ViewsInv, Views, Tell
    <2>2. \A b \in Clients : \A i : Owns(b, i) /\ b # d => Holder(d, i) = b
      BY DEF Owns, Holder
    <2>3. \A i : (\A b \in Clients : ~Owns(b, i)) => Holder(d, i) = Free
      BY DEF Owns, Holder, TypeOK, CanvasType
    <2>4. ASSUME NEW j \in items \ DOMAIN view[d], ~(Creating(w) /\ cur[w] = j)
          PROVE  \E v \in Workers : (Creating(v) /\ Owes(v, d))' /\ cur'[v] = j
      BY <1>1, <1>8, <2>1, <2>4 DEF Knows
    <2>5. ASSUME NEW i \in DOMAIN view[d] \ crossed, ~(i \in News(w) /\ c # d)
          PROVE  view[d][i] = Holder(d, i) \/ \E v \in Workers : Owing(v, d, i)'
      <3>1. view[d][i] = Holder(d, i) \/ \E v \in Workers : Owing(v, d, i)
        BY <2>1, <2>5 DEF Draws
      <3>2. ~Owing(w, d, i)
        BY <2>5 DEF Owing
      <3> QED
        BY <1>1, <1>8, <3>1, <3>2
    <2>6. CASE msg[w].m = "CreateItem"
      <3>1. /\ DOMAIN view'[d] = DOMAIN view[d] \cup {cur[w]}
            /\ \A i \in DOMAIN view'[d] : view'[d][i] = IF i \in DOMAIN view[d] THEN view[d][i] ELSE Free
        BY <1>1, <1>2, <2>1, <2>6 DEF Receive, SeeItem
      <3>2. Creating(w) /\ cur[w] \in items /\ \A i : i \notin News(w)
        BY <1>1, <1>2, <2>6 DEF Creating, Fits, News, Adding, Removal
      <3>3. Knows(d)'
        BY <1>1, <2>1, <2>4, <3>1, <3>2 DEF Knows
      <3>4. ASSUME NEW i \in DOMAIN view'[d] \ crossed
            PROVE  view'[d][i] = Holder(d, i) \/ \E v \in Workers : Owing(v, d, i)'
        <4>1. CASE i \in DOMAIN view[d]
          BY <2>5, <3>1, <3>2, <4>1
        <4>2. CASE i = cur[w] /\ i \notin DOMAIN view[d]
          BY <1>2, <2>3, <3>1, <3>2, <3>4, <4>2 DEF Right
        <4> QED
          BY <3>1, <3>4, <4>1, <4>2
      <3> QED
        BY <1>1, <1>9, <3>3, <3>4 DEF Draws
    <2>7. ASSUME msg[w].m # "CreateItem", DOMAIN view'[d] = DOMAIN view[d],
                 \A i \in DOMAIN view[d] \ crossed :
                   IF i \in News(w) /\ c # d THEN view'[d][i] = Holder(d, i)
                                            ELSE view'[d][i] = view[d][i]
          PROVE  Knows(d)' /\ Draws(d)'
      <3>1. ~Creating(w)
        BY <2>7 DEF Creating
      <3>2. Knows(d)'
        BY <1>1, <2>1, <2>4, <2>7, <3>1 DEF Knows
      <3>3. Draws(d)'
        BY <1>1, <1>9, <2>5, <2>7 DEF Draws
      <3> QED
        BY <3>2, <3>3
    <2>8. CASE msg[w].m = "SelectionAddItems"
      <3>1. Adding(w) /\ News(w) = done[w] \cap msg[w].items
        BY <1>1, <2>8 DEF Adding, Removal, News
      <3>2. view' = IF c = d THEN view ELSE Draw(d, News(w), c)
        BY <2>1, <2>8, <3>1 DEF Receive, SeeAdded
      <3>3. /\ DOMAIN view'[d] = DOMAIN view[d]
            /\ \A i \in DOMAIN view[d] :
                 view'[d][i] = IF i \in News(w) /\ c # d THEN c ELSE view[d][i]
        BY <1>1, <1>2, <3>2 DEF Draw
      <3>4. \A i \in News(w) \ crossed : c # d => Holder(d, i) = c
        BY <1>2, <2>2, <3>1 DEF Right
      <3> QED
        BY <2>7, <2>8, <3>3, <3>4
    <2>9. CASE msg[w].m = "SelectionRemoveItems"
      <3>1. Removal(w) /\ News(w) = done[w]
        BY <1>1, <2>9 DEF Adding, Removal, News
      <3>2. PICK S \in SUBSET done[w] : /\ done[w] \subseteq DOMAIN view[d] => S = done[w]
                                        /\ view' = IF c = d THEN view ELSE Draw(d, S, Free)
        BY <2>1, <2>9 DEF Receive, SeeRemoved
      <3>3. /\ DOMAIN view'[d] = DOMAIN view[d]
            /\ \A i \in DOMAIN view[d] :
                 view'[d][i] = IF i \in S /\ c # d THEN Free ELSE view[d][i]
        BY <1>1, <1>2, <3>2 DEF Draw
      <3>4. \A i \in News(w) \ crossed : Holder(d, i) = Free
        BY <1>2, <2>3, <3>1 DEF Right
      <3>5. ASSUME NEW i \in done[w] \ S PROVE i \in crossed
        <4>1. PICK j \in done[w] : j \notin DOMAIN view[d]
          BY <3>2, <3>5
        <4>2. j \in items /\ j \in Named(msg[w]) /\ i \in Named(msg[w])
          BY <1>2, <3>1, <3>5 DEF Fits
        <4>3. PICK v \in Workers : Creating(v) /\ cur[v] = j
          BY <2>1, <4>1, <4>2 DEF Knows
        <4>4. v # w /\ Busy(v) /\ Busy(w)
          BY <1>1, <2>9, <4>3 DEF Creating, Busy
        <4> QED
          BY <4>2, <4>3, <4>4 DEF ViewsInv, NoCross, Crosses
      <3>6. \A i \in DOMAIN view[d] \ crossed :
              IF i \in News(w) /\ c # d THEN view'[d][i] = Holder(d, i)
                                       ELSE view'[d][i] = view[d][i]
        BY <3>1, <3>3, <3>4, <3>5
      <3> QED
        BY <2>7, <2>9, <3>3, <3>6
    <2>10. CASE msg[w].m \notin {"CreateItem", "SelectionAddItems", "SelectionRemoveItems"}
      <3>1. view' = view /\ \A i : i \notin News(w)
        BY <2>1, <2>10 DEF Receive, News, Adding, Removal
      <3> QED
        BY <2>7, <2>10, <3>1
    <2> QED
      BY <2>6, <2>8, <2>9, <2>10
  <1> QED
    BY <1>1, <1>5, <1>7, <1>10, <1>11 DEF ViewsInv, Views

\* A client that connects sees what it should, or will be told.
LEMMA BootstrapViews ==
  ASSUME TypeOK, OwnersInv, ViewsInv, NEW w \in Workers, Bootstrap(w)
  PROVE  ViewsInv'
  <1>1. /\ Same(w) /\ UNCHANGED <<queue, owner, items, clientIds, raced, crossed, selection>>
        /\ pc[w] = "connect" /\ pc'[w] = "recv"
        /\ handle' = [handle EXCEPT ![msg[w].c] = msg[w].conn]
        /\ handle \in [Clients -> Nat]
    BY DEF Bootstrap, SetHandle, Return, Same, TypeOK, WorkersType, ClientsType, canvasVars,
           boardVars, Goto
  <1>2. Fits(w) /\ DOMAIN view = Clients /\ msg[w] \in Msg
    BY <1>1 DEF ViewsInv, TypeOK, WorkersType
  <1> PICK d \in Clients : d = msg[w].c
    BY <1>2 DEF Msg
  <1>3. PICK f \in [items -> Clients \cup {Free}] :
          /\ \A i \in items :
               LET holders == {c \in Clients \ {d} : i \in selection[c]} IN
               IF holders = {} THEN f[i] = Free ELSE f[i] \in holders
          /\ view' = [view EXCEPT ![d] = f]
    BY DEF Bootstrap, ReadAll
  <1>4. /\ Fits(w)' /\ Right(w)' /\ ~Busy(w)' /\ ~Creating(w)' /\ ~Creating(w)
        /\ (\A e, i : ~Owing(w, e, i))
    BY <1>1 DEF Fits, Right, Adding, Removal, Creating, Removing, Busy, News, Owing
  <1>5. NoCross' /\ AllRight' /\ (\A v \in Workers : Fits(v)')
    <2>1. \A b \in Clients : \A i : Owns(b, i)' <=> Owns(b, i)
      BY <1>1 DEF Owns
    <2> QED
      BY <1>1, <1>4, <2>1, SameCross, SameRight, SameFits DEF ViewsInv
  <1>6. Introduced'
    BY <1>1, <1>2 DEF ViewsInv, Introduced, Fits
  <1>7. \A v \in Workers, e \in Clients :
          /\ \A i : Owing(v, e, i) => Owing(v, e, i)'
          /\ Creating(v) /\ Owes(v, e) => (Creating(v) /\ Owes(v, e))' /\ cur'[v] = cur[v]
    <2>1. \A v \in Workers \ {w}, e \in Clients :
            /\ \A i : Owing(v, e, i) => Owing(v, e, i)'
            /\ Creating(v) /\ Owes(v, e) => (Creating(v) /\ Owes(v, e))' /\ cur'[v] = cur[v]
      BY <1>1, SameNews DEF Owing, Same
    <2> QED
      BY <1>4, <2>1
  <1>8. \A e, i : Holder(e, i)' = Holder(e, i)
    BY <1>1 DEF Holder
  <1>9. ASSUME NEW e \in Clients \ {d}, handle'[e] # 0 PROVE Knows(e)' /\ Draws(e)'
    <2>1. Knows(e) /\ Draws(e) /\ view'[e] = view[e]
      BY <1>1, <1>2, <1>3, <1>9 DEF ViewsInv, Views
    <2>2. Knows(e)'
      BY <1>1, <1>7, <2>1 DEF Knows
    <2>3. Draws(e)'
      BY <1>1, <1>7, <1>8, <2>1 DEF Draws
    <2> QED
      BY <2>2, <2>3
  <1>10. view'[d] = f /\ DOMAIN view'[d] = items
    BY <1>2, <1>3
  <1>11. Knows(d)'
    BY <1>1, <1>10 DEF Knows
  <1>12. ASSUME NEW i \in items \ crossed
         PROVE  f[i] = Holder(d, i) \/ \E v \in Workers : Owing(v, d, i)
    <2>1. i \notin raced /\ NearMatch
      BY <1>12 DEF ViewsInv, NoCross, OwnersInv
    <2>2. CASE \A c \in Clients \ {d} : i \notin selection[c]
      <3>1. f[i] = Free
        BY <1>3, <2>2
      <3>2. ASSUME Holder(d, i) # Free PROVE \E v \in Workers : Owing(v, d, i)
        <4>1. PICK c \in Clients \ {d} : Owns(c, i)
          BY <3>2 DEF Holder, Owns, TypeOK, CanvasType
        <4>2. Taking(c, i)
          BY <2>1, <2>2, <4>1 DEF NearMatch, Match, Owns
        <4>3. PICK v \in Workers : pc[v] = "take" /\ msg[v].c = c /\ i \in done[v] \cap msg[v].items
          BY <4>2 DEF Taking
        <4>4. msg[v].m = "SelectionAddItems"
          BY <4>3 DEF OwnersInv, InCalls, InCall
        <4> QED
          BY <4>3, <4>4 DEF Owing, Owes, News, Adding
      <3> QED
        BY <3>1, <3>2
    <2>3. CASE \E c \in Clients \ {d} : i \in selection[c]
      <3>1. PICK c \in Clients \ {d} : c = f[i] /\ i \in selection[c]
        BY <1>3, <2>3
      <3>2. CASE Owns(c, i)
        BY <3>1, <3>2 DEF Owns, Holder
      <3>3. CASE Dropping(c, i)
        <4>1. PICK v \in Workers : /\ pc[v] \in Removing \cup {"delCheck", "unselect"}
                                   /\ msg[v].c = c /\ i \in done[v]
          BY <3>3 DEF Dropping
        <4>2. msg[v].m = "SelectionRemoveItems" /\ pc[v] \in Removing
          BY <4>1 DEF OwnersInv, InCalls, InCall, ViewsInv, Fits, Removing
        <4> QED
          BY <3>1, <4>1, <4>2 DEF Owing, Owes, News, Removal, Removing
      <3> QED
        BY <2>1, <3>1, <3>2, <3>3 DEF NearMatch, Match
    <2> QED
      BY <2>2, <2>3
  <1>13. Draws(d)'
    BY <1>1, <1>7, <1>8, <1>10, <1>12 DEF Draws
  <1> QED
    BY <1>2, <1>3, <1>5, <1>6, <1>9, <1>11, <1>13 DEF ViewsInv, Views

-----------------------------------------------------------------------------
(* Every step keeps the invariant.                                         *)

\* The other steps of a worker.
LEMMA WorkViews ==
  ASSUME TypeOK, ItemsInv, OwnersInv, ViewsInv, NEW w \in Workers, ViewsWork(w)
  PROVE  ViewsInv'
  <1>1. CASE Work(w) /\ pc[w] \notin {"notify", "connect", "recv", "addItem"} /\ UNCHANGED views
    <2>1. ~Recv(w) /\ ~AddItem(w) /\ (\A d \in tell[w] : ~Notify(w, d))
          /\ (SetHandle(w) => pc[w] = "disconnect")
      BY <1>1 DEF Recv, AddItem, Notify, SetHandle
    <2>2. ~Unselect(w) /\ ~DropFromSelection(w)
          /\ \A i \in todo[w] : ~CheckDelete(w, i) /\ ~DeleteItem(w, i)
      BY DEF ViewsInv, Fits, OwnersInv, InCalls, InCall, Unselect, DropFromSelection, CheckDelete,
             DeleteItem
    <2> QED
      BY <1>1, <2>1, <2>2, CalmSteps, TakeViews, RemoveViews, OfferViews DEF Work
  <1> QED
    BY <1>1, TellViews, BootstrapViews, MeetViews, CreateViews DEF ViewsWork

\* What the invariant speaks of, but for the queue.
LEMMA SameState ==
  ASSUME ViewsInv, Introduced',
         UNCHANGED <<pc, msg, done, cur, tell, owner, items, clientIds, handle, raced, views>>
  PROVE  ViewsInv'
  <1> USE DEF views
  <1>1. \A v \in Workers :
          /\ Adding(v)' <=> Adding(v)
          /\ Removal(v)' <=> Removal(v)
          /\ Creating(v)' <=> Creating(v)
          /\ News(v)' = News(v) /\ (Busy(v)' <=> Busy(v))
          /\ \A d : Owes(v, d)' <=> Owes(v, d)
    BY DEF Adding, Removal, Creating, News, Busy, Owes
  <1>2. \A v \in Workers : Fits(v)'
    BY <1>1 DEF ViewsInv, Fits
  <1>3. NoCross'
    BY <1>1 DEF ViewsInv, NoCross, Crosses
  <1>4. AllRight'
    BY <1>1 DEF ViewsInv, AllRight, Right, Owns
  <1>5. Views'
    BY <1>1 DEF ViewsInv, Views, Knows, Draws, Holder, Owing
  <1> QED
    BY <1>2, <1>3, <1>4, <1>5 DEF ViewsInv

\* Sockets and sessions tell nothing; a rebuilt board has no client.
LEMMA EnvironmentViews ==
  ASSUME TypeOK, ViewsInv, Environment, UNCHANGED view,
         crossed' = IF boards' = boards THEN crossed ELSE {}
  PROVE  ViewsInv'
  <1>1. CASE Refresh
    <2>1. /\ crossed' = {} /\ queue' = <<>> /\ raced' = {}
          /\ \A w \in Workers : pc'[w] = "recv"
          /\ \A d \in Clients : handle'[d] = 0
      BY <1>1 DEF Refresh, All, Each, TypeOK, SocketsType
    <2>2. \A w \in Workers : Fits(w)' /\ Right(w)' /\ ~Busy(w)'
      BY <2>1 DEF Fits, Right, Busy, Adding, Removal, Creating, Removing
    <2>3. Introduced'
      BY <2>1 DEF Introduced
    <2>4. NoCross' /\ AllRight' /\ Views' /\ DOMAIN view' = Clients
      BY <2>1, <2>2 DEF ViewsInv, AllRight, NoCross, Views
    <2> QED
      BY <2>2, <2>3, <2>4 DEF ViewsInv
  <1>2. CASE ~Refresh
    <2>1. /\ UNCHANGED <<pc, msg, done, cur, tell, owner, items, clientIds, handle, raced, boards>>
          /\ crossed' = crossed
      BY <1>2 DEF Environment, RequestSession, Connect, Close, LoseSocket, Send, workerVars, clientVars,
                  canvasVars, boardVars
    <2>2. Introduced'
      <3>1. CASE queue' = queue
        BY <2>1, <3>1 DEF ViewsInv, Introduced
      <3>2. ASSUME NEW m, NEW c, NEW is, NEW old, NEW k, Enqueue(m, c, is, old, k),
                   m # "DeleteItems", m = "ClientConnected" => c \in clientIds
            PROVE  Introduced'
        <4> DEFINE r == [m |-> m, c |-> c, items |-> is, old |-> old, conn |-> k]
        <4>1. r.m = m /\ r.c = c
          OBVIOUS
        <4>2. queue' = Append(queue, r) /\ queue \in Seq(Msg)
          BY <3>2 DEF Enqueue, TypeOK, QueueType
        <4> HIDE DEF r
        <4>3. \A n \in DOMAIN queue' : (n \in DOMAIN queue /\ queue'[n] = queue[n]) \/ queue'[n] = r
          BY <4>2
        <4> QED
          BY <2>1, <3>2, <4>1, <4>3 DEF ViewsInv, Introduced
      <3>3. ASSUME NEW c \in Clients, NEW k \in conns[c], NEW call \in Calls, Send(c, k, call)
            PROVE  Introduced'
        <4>1. call.m # "DeleteItems" /\ call.m # "ClientConnected"
          BY ViewsAssumption, ConstantsAssumption DEF CallType, Methods
        <4> QED
          BY <3>2, <3>3, <4>1 DEF Send
      <3>4. ASSUME NEW c \in Clients, RequestSession(c) \/ Connect(c) PROVE Introduced'
        BY <3>2, <3>4 DEF RequestSession, Connect
      <3>5. ASSUME NEW c \in Clients, NEW k \in conns[c], Close(c, k) \/ LoseSocket(c, k)
            PROVE Introduced'
        BY <3>1, <3>2, <3>5 DEF Close, LoseSocket
      <3> QED
        BY <1>2, <3>3, <3>4, <3>5 DEF Environment
    <2> QED
      BY <2>1, <2>2, SameState DEF views
  <1> QED
    BY <1>1, <1>2

-----------------------------------------------------------------------------
\* BoardViews adds to Board and takes nothing away.
LEMMA ViewsAreBoard == ViewsSpec => Spec
  <1>1. ViewsInit => Init
    BY DEF ViewsInit
  <1>2. [ViewsNext]_<<vars, views>> => [Next]_vars
    <2> SUFFICES ASSUME [ViewsNext]_<<vars, views>> PROVE [Next]_vars
      OBVIOUS
    <2>1. ASSUME NEW w \in Workers, ViewsWork(w) PROVE Work(w)
      BY <2>1 DEF ViewsWork, Tell, Bootstrap, Meet, Create, Work
    <2> QED
      BY <2>1 DEF ViewsNext, Next
  <1> QED
    BY <1>1, <1>2, PTL DEF ViewsSpec, Spec

\* Whatever clients call and in whatever order the workers tell of it, what is
\* not right in a view will be told, or is about an id where handlers crossed.
THEOREM ViewsSound == ViewsSpec => []ViewsInv
  <1>1. ViewsInit => ViewsInv
    <2> SUFFICES ASSUME ViewsInit PROVE ViewsInv
      OBVIOUS
    <2>1. /\ \A w \in Workers : pc[w] = "recv"
          /\ \A d \in Clients : handle[d] = 0
          /\ queue = <<>> /\ raced = {} /\ DOMAIN view = Clients
      BY DEF ViewsInit, Init, All, Each
    <2>2. \A w \in Workers : Fits(w) /\ Right(w) /\ ~Busy(w)
      BY <2>1 DEF Fits, Right, Busy, Adding, Removal, Creating, Removing
    <2> QED
      BY <2>1, <2>2 DEF ViewsInv, AllRight, NoCross, Introduced, Views
  <1>2. /\ TypeOK /\ ItemsInv /\ OwnersInv
        /\ ViewsInv /\ [ViewsNext]_<<vars, views>>
        => ViewsInv'
    <2> SUFFICES ASSUME TypeOK, ItemsInv, OwnersInv, ViewsInv, [ViewsNext]_<<vars, views>>
                 PROVE  ViewsInv'
      OBVIOUS
    <2>1. ASSUME NEW w \in Workers, ViewsWork(w) PROVE ViewsInv'
      BY <2>1, WorkViews
    <2>2. CASE /\ Environment /\ UNCHANGED view
               /\ crossed' = (IF boards' = boards THEN crossed ELSE {})
      BY <2>2, EnvironmentViews
    <2>3. CASE UNCHANGED <<vars, views>>
      <3>1. Introduced'
        BY <2>3 DEF ViewsInv, Introduced, vars, clientVars
      <3> QED
        BY <2>3, <3>1, SameState DEF vars, workerVars, clientVars, canvasVars, boardVars
    <2> QED
      BY <2>1, <2>2, <2>3 DEF ViewsNext, Stop
  <1>3. ViewsSpec => []TypeOK /\ []ItemsInv /\ []OwnersInv
    BY ViewsAreBoard, TypeCorrect, ItemsSafe, OwnersSafe
  <1> QED
    BY <1>1, <1>2, <1>3, PTL DEF ViewsSpec

\* At rest every connected client knows the items of the board and draws each
\* in the box of its owner, but for ids where two handlers crossed.
THEOREM ViewsMeet == ViewsSpec => []ViewsAgree
  <1>1. ViewsInv => ViewsAgree
    <2> SUFFICES ASSUME ViewsInv, \A w \in Workers : ~Busy(w), NEW d \in Clients, handle[d] # 0
                 PROVE  /\ DOMAIN view[d] = items
                        /\ \A i \in items \ crossed : view[d][i] = Holder(d, i)
      BY DEF ViewsAgree
    <2>1. Knows(d) /\ Draws(d)
      BY DEF ViewsInv, Views
    <2>2. \A w \in Workers : \A i : ~Creating(w) /\ ~Owing(w, d, i)
      BY DEF Busy, Creating, Owing, News, Adding, Removal, Removing
    <2> QED
      BY <2>1, <2>2 DEF Knows, Draws
  <1> QED
    BY <1>1, ViewsSound, PTL
=============================================================================
