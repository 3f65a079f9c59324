------------------------------ MODULE MCBoard ------------------------------
(* Small instances of Board: the calls clients make in each run.           *)
EXTENDS BoardInvariants, TLC

Call(m, is, old) == [m |-> m, items |-> is, old |-> old]
Add(is, old) == Call("SelectionAddItems", is, old)
Remove(is)   == Call("SelectionRemoveItems", is, {})
Edit(i)      == Call("EditSingleItem", {i}, {})
Delete(is)   == Call("DeleteItems", is, {})
Create       == Call("CreateItem", {}, {})
Move(is)     == Call("SelectionMove", is, {})
Path         == Call("GetActivePath", {}, {})

\* One item on the canvas (1) and one that may be created (2).
BoardCalls  == {Add({1}, {}), Add({2}, {1}), Remove({1, 2}), Edit(1), Delete({1}), Create,
                Move({1}), Path}
SelectCalls == {Add({1}, {}), Remove({1}), Edit(1)}
CreateCalls == {Create}
Symmetry    == Permutations(Workers) \cup Permutations(Clients)
=============================================================================
