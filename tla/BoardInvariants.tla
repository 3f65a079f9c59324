-------------------------- MODULE BoardInvariants --------------------------
(***************************************************************************)
(* The inductive invariants behind the properties of Board.                *)
(***************************************************************************)
EXTENDS Board

\* Between canvas.add_item and the insert into selected_items.
Fresh(w)    == pc[w] \in {"listItem", "offer"}
Deleting(w) == pc[w] \in {"delCheck", "unselect", "delete"}

\* No loop has kept anything before its first step.
NothingKept ==
  \A w \in Workers : pc[w] \in {"recv", "handle", "lock"} => done[w] = {}

\* The ids workers hold are ids handed out before; an id just handed out is
\* on the canvas and nobody else has met it.
FreshIds ==
  /\ \A w \in Workers : done[w] \subseteq 1..(nextId - 1)
  /\ \A w \in Workers : Fresh(w) =>
       /\ cur[w] \in items \ DOMAIN owner
       /\ \A v \in Workers :
            /\ cur[w] \notin done[v]
            /\ v # w /\ (Fresh(v) \/ pc[v] \in {"unselect", "removing"}) => cur[v] # cur[w]

\* DeleteItems has withdrawn what it is about to delete.
DeletedWithdrawn ==
  \A w \in Workers :
    /\ Deleting(w) => done[w] \cap DOMAIN owner = {}
    /\ pc[w] = "delete" => todo[w] \subseteq done[w]

ItemsInv == NothingKept /\ FreshIds /\ DeletedWithdrawn /\ SelectableExists

-----------------------------------------------------------------------------
(* Ownership, about the ids that no two clashing calls of a client met at. *)

Removing == {"remove", "removing"}

\* Only SelectionRemoveItems keeps an entry locked, its client's.
LockHeld ==
  \A c \in Clients, w \in Workers : lock[c] = w <=> pc[w] \in Removing /\ msg[w].c = c

\* The item whose entry SelectionRemoveItems holds is its client's.
EntryOwned == \A w \in Workers : pc[w] = "removing" => Owns(msg[w].c, cur[w])

\* Two handlers of one client at work on an id do not clash.
NoClash ==
  \A c \in Clients, v, w \in Workers :
    Handled(c, v) /\ Handled(c, w) /\ Clash(msg[v].m, msg[w].m) =>
      Named(msg[v]) \cap Named(msg[w]) \subseteq raced

\* A phase of a method is reached in its calls only, and what a loop is at, has
\* to visit or has kept, the call names.
InCall(w) ==
  /\ pc[w] \in {"lock", "remove", "removing"} => msg[w].m = "SelectionRemoveItems"
  /\ pc[w] \in {"delCheck", "unselect", "delete"} => msg[w].m = "DeleteItems"
  /\ pc[w] \in {"editCheck", "edit"} => msg[w].m = "EditSingleItem"
  /\ pc[w] = "check" => msg[w].m \in {"SelectionAddItems", "SelectionMove"}
  /\ pc[w] = "take" => msg[w].m = "SelectionAddItems" /\ todo[w] \subseteq msg[w].items
  /\ pc[w] \in {"check", "take", "lock", "remove", "removing", "delCheck", "unselect"} =>
       todo[w] \cup done[w] \subseteq Named(msg[w])
  /\ pc[w] \in {"removing", "unselect"} => cur[w] \in Named(msg[w])

InCalls == \A w \in Workers : InCall(w)

\* What a handler has kept, it owns or has given up.
Kept(w) == LET c == msg[w].c IN
  /\ pc[w] \in {"check", "take"} => \A i \in done[w] \ raced : Owns(c, i)
  /\ pc[w] \in Removing \cup {"delCheck", "unselect"} =>
       \A i \in done[w] \ raced : ~Owns(c, i)
  /\ pc[w] = "edit" /\ EditTarget(msg[w]) \notin raced => Owns(c, EditTarget(msg[w]))
  /\ pc[w] = "unselect" /\ cur[w] \in DOMAIN owner \ raced => Owns(c, cur[w])

KeptOwned == \A w \in Workers : Kept(w)

Taking(c, i) ==
  \E w \in Workers : pc[w] = "take" /\ msg[w].c = c /\ i \in done[w] \cap msg[w].items
Dropping(c, i) ==
  \E w \in Workers :
    pc[w] \in Removing \cup {"delCheck", "unselect"} /\ msg[w].c = c /\ i \in done[w]

\* The two records of a selection differ only by what a handler of the client
\* has taken and not yet inserted, or given up and not yet dropped.
Match(c) ==
  /\ \A i \in DOMAIN owner \ raced : owner[i] = c => i \in selection[c] \/ Taking(c, i)
  /\ \A i \in selection[c] \ raced : Owns(c, i) \/ Dropping(c, i)

NearMatch == \A c \in Clients : Match(c)

\* Two selections share an item only while SelectionRemoveItems, which keeps
\* the entry of its client locked, has freed the item and not yet dropped it.
NearDisjoint ==
  \A c, d \in Clients : c # d => \A i \in (selection[c] \cap selection[d]) \ raced :
    \E w \in Workers : pc[w] \in Removing /\ msg[w].c \in {c, d} /\ i \in done[w]

OwnersInv ==
  LockHeld /\ EntryOwned /\ NoClash /\ InCalls /\ KeptOwned
  /\ NearMatch /\ NearDisjoint
=============================================================================
