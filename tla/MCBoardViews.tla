---------------------------- MODULE MCBoardViews ----------------------------
(* Small instances of BoardViews.                                          *)
EXTENDS BoardViews, TLC

Call(m, is, old) == [m |-> m, items |-> is, old |-> old]

\* One item on the canvas (1) and one that may be created (2).
Selecting == {Call("SelectionAddItems", {1}, {}), Call("SelectionRemoveItems", {1}, {})}
ViewCalls == Selecting \cup {Call("SelectionAddItems", {2}, {1}), Call("EditSingleItem", {1}, {}),
                             Call("CreateItem", {}, {})}
ManyCalls == ViewCalls \cup {Call("SelectionRemoveItems", {1, 2}, {})}
Symmetry  == Permutations(Workers) \cup Permutations(Clients)
=============================================================================
