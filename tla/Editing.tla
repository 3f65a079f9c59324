------------------------------ MODULE Editing ------------------------------
(***************************************************************************)
(* From an input of the properties panel to the items on the board: which  *)
(* fields the panel shows (ui/PropertiesEditor.ts, UIManager.ts, canvas/   *)
(* Canvas.ts), the stores behind them (Properties.ts, canvas/items/), the  *)
(* edits of the selected items and what other clients do meanwhile         *)
(* (BoardTable.ts, board/method_impls.rs).                                 *)
(*                                                                         *)
(* An action is a task of the event loop with the microtasks it leaves,    *)
(* the reload of a container among them, or a step of a worker of the      *)
(* board: none of the calls is awaited, so the workers have several at a   *)
(* time and end them in any order.  A field stands for those that are      *)
(* handled alike: "width" for the stroke, "start" for the ends of a line,  *)
(* "url" for the resource of the image tool.                               *)
(***************************************************************************)
EXTENDS Naturals, Sequences, SequencesExt, FiniteSets

CONSTANTS
  Items,
  TypeOf(_),   \* "shape", "line" or "text"
  Values,      \* values of a field
  Default,     \* what a field shows that has no value
  Invalid,     \* text that is no number
  Workers,     \* calls that the board handles at a time
  MaxEdits,    \* bound: inputs of the user, and edits of the others
  MaxSelects,  \* bound: selections of the user and of the others
  MaxUploads   \* bound: files uploaded

ASSUME ValuesAssumption == Default \in Values /\ Invalid \notin Values
ASSUME TypesAssumption == \A i \in Items : TypeOf(i) \in {"shape", "line", "text"}
ASSUME WorkersAssumption == Workers \in Nat \ {0}

VARIABLES
  copy,      \* items of the BoardTable, by field
  selected,  \* self.items, in the order they were added
  current,   \* ItemPropertyStore.currentItems
  tool,      \* the tool of the tool state
  stored,    \* SingletonPropertyStore of every tool
  panel,     \* currentElement: the schema whose container is shown
  inputs,    \* what the inputs of every container show
  twins,     \* what the inputs built before them show, where there are two
  uploads,   \* values that files under way will have, the first begun first
  calls,     \* calls of this client without effect yet, in the order sent
  items,     \* items on the board
  owner,     \* who has selected an item, as the board knows
  granted,   \* items of which an edit of another has passed the check
  wire,      \* SingleItemEdited on its way to this client
  astray,    \* items whose edits this client ignored, made in vain, or
             \* that the workers stored in another order than it made them
  used       \* edits, selections and uploads so far

panelVars == <<selected, current, tool, stored, panel, inputs, twins>>
boardVars == <<items, owner, granted, wire>>
vars == <<copy, panelVars, uploads, calls, boardVars, astray, used>>

Tools == {"none", "pen", "image"}

\* The hooks of a class and of those it extends; a text has its own only.
StrokeFields == {"width"}
FillFields   == StrokeFields \cup {"fill"}
LineFields   == StrokeFields \cup {"start"}
TextFields   == {"text"}

FieldsOf(i) == [shape |-> FillFields, line |-> LineFields, text |-> TextFields][TypeOf(i)]

\* Two or more items share what FillItem or StrokeItem has, a tool its own.
Schemas ==
  [shape |-> FillFields, line |-> LineFields, text |-> TextFields,
   FillItem |-> FillFields, StrokeItem |-> StrokeFields,
   pen |-> StrokeFields, image |-> {"url"}, none |-> {}]

\* StructPropertyUI builds its children twice: its fields have a twin input,
\* which no reload reaches.
Twins == {"width", "start"}
Numbers == {"width", "start"}

Init ==
  /\ copy = [i \in Items |-> [f \in FieldsOf(i) |-> Default]]
  /\ items = copy /\ owner = [i \in Items |-> "nobody"] /\ granted = {} /\ wire = <<>>
  /\ selected = <<>> /\ current = <<>> /\ tool = "none" /\ panel = "none"
  /\ stored = [t \in Tools |-> [f \in Schemas[t] |-> Default]]
  /\ inputs = [s \in DOMAIN Schemas |-> [f \in Schemas[s] |-> Default]]
  /\ twins = [s \in DOMAIN Schemas |-> [f \in Schemas[s] \cap Twins |-> Invalid]]
  /\ uploads = <<>> /\ calls = <<>> /\ astray = {}
  /\ used = [edits |-> 0, selects |-> 0, uploads |-> 0]

-----------------------------------------------------------------------------
(* The panel                                                               *)

\* getPropertyInstance and the toolProps of the manager
SchemaFor(sel, t) ==
  LET types == {TypeOf(i) : i \in ToSet(sel)} IN
  CASE sel = <<>>          -> t
    [] Len(sel) = 1        -> TypeOf(sel[1])
    [] OTHER -> IF "shape" \in types THEN "FillItem"
                ELSE IF "line" \in types THEN "StrokeItem" ELSE "none"

\* get of the stores: the first item speaks for all.
ReadItems(f, cur, of) ==
  IF cur # <<>> /\ f \in DOMAIN of[cur[1]] THEN of[cur[1]][f] ELSE Default

\* Mutant: the items are bound when the first one is selected.
RefreshFirst(sel, t) ==
  LET s == SchemaFor(sel, t) IN
  /\ selected' = sel /\ tool' = t /\ panel' = s
  /\ current' = IF selected # <<>> THEN current ELSE sel
  /\ inputs' = [inputs EXCEPT ![s] = [f \in Schemas[s] |->
       IF sel = <<>> THEN stored[t][f] ELSE ReadItems(f, current', copy)]]

\* propertiesState: it binds the items if there are any, then the container
\* is shown and reloaded.
Refresh(sel, t) ==
  LET s == SchemaFor(sel, t) IN
  /\ selected' = sel /\ tool' = t /\ panel' = s
  /\ current' = IF sel = <<>> THEN current ELSE sel
  /\ inputs' = [inputs EXCEPT ![s] = [f \in Schemas[s] |->
       IF sel = <<>> THEN stored[t][f] ELSE ReadItems(f, sel, copy)]]

ChooseTool(t) ==
  /\ t # tool
  /\ Refresh(selected, t)
  /\ UNCHANGED <<stored, twins, copy, uploads, calls, boardVars, astray, used>>

-----------------------------------------------------------------------------
(* Edits                                                                   *)

\* The items of a list that have a field, as a loop over the list meets them.
Edited(cur, f) ==
  LET those == {k \in DOMAIN cur : f \in FieldsOf(cur[k])} IN
  {[j \in DOMAIN o |-> cur[o[j]]] :
     o \in {p \in UNION {[1..n -> those] : n \in 0..Len(cur)} :
             /\ \A k \in those : \E j \in DOMAIN p : p[j] = k
             /\ \A j, k \in DOMAIN p : j < k => p[j] < p[k]}}

\* editSelectedItem for each of those: it sends the whole item.
EditSelectedItems(those, new) ==
  [k \in DOMAIN those |->
     [op |-> "edit", items |-> {those[k]}, value |-> new[those[k]], at |-> "sent"]]

\* Mutant: only the edit of the first item is sent.
StoreFirst(f, v) ==
  \E those \in Edited(current, f) :
    /\ copy' = [i \in Items |-> IF i \in ToSet(those) THEN [copy[i] EXCEPT ![f] = v] ELSE copy[i]]
    /\ calls' = calls \o (IF those = <<>> THEN <<>> ELSE EditSelectedItems(<<Head(those)>>, copy'))
    /\ UNCHANGED stored

\* set of the ItemPropertyStore
StoreItems(f, v) ==
  \E those \in Edited(current, f) :
    /\ copy' = [i \in Items |-> IF i \in ToSet(those) THEN [copy[i] EXCEPT ![f] = v] ELSE copy[i]]
    /\ calls' = calls \o EditSelectedItems(those, copy')
    /\ UNCHANGED stored

StoreTool(f, v) ==
  /\ stored' = [stored EXCEPT ![panel][f] = v]
  /\ UNCHANGED <<copy, calls>>

Store(f, v) == IF panel \in Tools THEN StoreTool(f, v) ELSE StoreItems(f, v)

CountEdit == used.edits < MaxEdits /\ used' = [used EXCEPT !.edits = @ + 1]

TypeIn(f, v) ==
  /\ f \in Schemas[panel] /\ CountEdit
  /\ inputs' = [inputs EXCEPT ![panel][f] = v]
  /\ IF v = Invalid THEN f \in Numbers /\ UNCHANGED <<copy, calls, stored>> ELSE Store(f, v)
  /\ UNCHANGED <<selected, current, tool, panel, twins, uploads, boardVars, astray>>

\* The handler of the twin reads the other input, this.input by then.
TypeInTwin(f, v) ==
  /\ f \in Schemas[panel] \cap Twins /\ CountEdit
  /\ twins' = [twins EXCEPT ![panel][f] = v]
  /\ IF inputs[panel][f] = Invalid THEN UNCHANGED <<copy, calls, stored>>
     ELSE Store(f, inputs[panel][f])
  /\ UNCHANGED <<selected, current, tool, panel, inputs, uploads, boardVars, astray>>

BeginUpload(v) ==
  /\ panel = "image"
  /\ used.uploads < MaxUploads /\ used' = [used EXCEPT !.uploads = @ + 1]
  /\ uploads' = Append(uploads, v)
  /\ UNCHANGED <<copy, panelVars, calls, boardVars, astray>>

\* Answers come in any order, whatever the panel shows by then.  Only the image
\* tool has a resource, and its container has no other store.
EndUpload(k) ==
  /\ inputs' = [inputs EXCEPT !["image"]["url"] = uploads[k]]
  /\ stored' = [stored EXCEPT !["image"]["url"] = uploads[k]]
  /\ uploads' = RemoveAt(uploads, k)
  /\ UNCHANGED <<copy, selected, current, tool, panel, twins, calls, boardVars, astray, used>>

-----------------------------------------------------------------------------
(* The selection                                                           *)

UnderWay(i) ==
  \/ \E k \in DOMAIN calls : calls[k].op = "edit" /\ i \in calls[k].items
  \/ \E k \in DOMAIN wire : wire[k].item = i

CountSelect == used.selects < MaxSelects /\ used' = [used EXCEPT !.selects = @ + 1]

\* addOwnSelection marks the items before the board has answered.
AddOwnSelection(i) ==
  /\ i \notin ToSet(selected)
  /\ CountSelect
  /\ Refresh(Append(selected, i), tool)
  /\ calls' = Append(calls, [op |-> "add", items |-> {i}, at |-> "sent"])
  /\ astray' = IF UnderWay(i) THEN astray \cup {i} ELSE astray
  /\ UNCHANGED <<stored, twins, copy, uploads, boardVars>>

CancelSelection ==
  /\ selected # <<>>
  /\ calls' = Append(calls, [op |-> "remove", items |-> ToSet(selected), at |-> "sent"])
  /\ Refresh(<<>>, tool)
  /\ UNCHANGED <<stored, twins, copy, uploads, boardVars, astray, used>>

-----------------------------------------------------------------------------
(* The board and the other clients                                         *)

\* A worker takes the next call from the queue.
Begin(k) ==
  /\ calls[k].at = "sent" /\ \A j \in 1..k-1 : calls[j].at # "sent"
  /\ Cardinality({j \in DOMAIN calls : calls[j].at # "sent"}) < Workers
  /\ calls' = [calls EXCEPT ![k].at = "begun"]
  /\ UNCHANGED <<copy, panelVars, uploads, boardVars, astray, used>>

Mine(S) == {i \in S : owner[i] = "me"}

HandleAdd(c) ==
  /\ owner' = [i \in Items |->
                 IF i \in c.items /\ owner[i] = "nobody" THEN "me" ELSE owner[i]]
  /\ UNCHANGED <<items, wire, astray>>

HandleRemove(c) ==
  /\ owner' = [i \in Items |-> IF i \in Mine(c.items) THEN "nobody" ELSE owner[i]]
  /\ UNCHANGED <<items, wire, astray>>

\* The item is replaced and told to the clients while it is held.
SingleItemEdited(i, v, by) ==
  /\ items' = [items EXCEPT ![i] = v]
  /\ wire' = Append(wire, [item |-> i, value |-> v, by |-> by])

\* An edit of the same item that was sent before number k is still to be stored.
Overtakes(k) ==
  \E j \in 1..k-1 : calls[j].op = "edit" /\ calls[j].items = calls[k].items

\* The board looks at the owner once, before the item is taken.
CheckEdit(k) ==
  /\ calls[k].op = "edit" /\ calls[k].at = "begun"
  /\ IF calls[k].items \subseteq Mine(calls[k].items)
     THEN calls' = [calls EXCEPT ![k].at = "checked"] /\ UNCHANGED astray
     ELSE calls' = RemoveAt(calls, k) /\ astray' = astray \cup calls[k].items
  /\ UNCHANGED <<copy, panelVars, uploads, boardVars, used>>

HandleEdit(k) ==
  /\ calls[k].at = "checked"
  /\ \A i \in calls[k].items : SingleItemEdited(i, calls[k].value, "me")
  /\ astray' = IF Overtakes(k) THEN astray \cup calls[k].items ELSE astray
  /\ UNCHANGED owner

\* The effect of a call that a worker has begun, in whatever order.
Handle(k) ==
  /\ calls[k].at # "sent" /\ calls' = RemoveAt(calls, k)
  /\ \/ calls[k].op = "add" /\ HandleAdd(calls[k])
     \/ calls[k].op = "edit" /\ HandleEdit(k)
     \/ calls[k].op = "remove" /\ HandleRemove(calls[k])
  /\ UNCHANGED <<copy, panelVars, uploads, granted, used>>

OtherTakes(i) ==
  /\ owner[i] = "nobody" /\ owner' = [owner EXCEPT ![i] = "other"]
  /\ CountSelect
  /\ UNCHANGED <<copy, panelVars, uploads, calls, items, granted, wire, astray>>

OtherFrees(i) ==
  /\ owner[i] = "other" /\ owner' = [owner EXCEPT ![i] = "nobody"]
  /\ UNCHANGED <<copy, panelVars, uploads, calls, items, granted, wire, astray, used>>

OtherChecks(i) ==
  /\ owner[i] = "other" /\ i \notin granted /\ CountEdit
  /\ granted' = granted \cup {i}
  /\ UNCHANGED <<copy, panelVars, uploads, calls, items, owner, wire, astray>>

\* It is stored whoever owns the item by then.
OtherEdits(i, f, v) ==
  /\ i \in granted /\ f \in FieldsOf(i) /\ granted' = granted \ {i}
  /\ SingleItemEdited(i, [items[i] EXCEPT ![f] = v], "other")
  /\ UNCHANGED <<copy, panelVars, uploads, calls, owner, astray, used>>

\* Mutant: the handler forgets to look at its own selection.
HearAll(n) ==
  /\ copy' = [copy EXCEPT ![n.item] = n.value]
  /\ astray' = astray \ {n.item}

\* What the client has selected, it alone is thought to edit.
HearEdit(n) ==
  IF n.item \in ToSet(selected)
  THEN /\ astray' = IF n.by = "other" THEN astray \cup {n.item} ELSE astray
       /\ UNCHANGED copy
  ELSE /\ copy' = [copy EXCEPT ![n.item] = n.value]
       /\ astray' = astray \ {n.item}

Hear ==
  /\ wire # <<>> /\ wire' = Tail(wire)
  /\ HearEdit(Head(wire))
  /\ UNCHANGED <<panelVars, uploads, calls, items, owner, granted, used>>

-----------------------------------------------------------------------------

Next ==
  \/ \E t \in Tools : ChooseTool(t)
  \/ \E f \in UNION {Schemas[s] : s \in DOMAIN Schemas} :
       \/ \E v \in Values \cup {Invalid} : TypeIn(f, v)
       \/ \E v \in Values : TypeInTwin(f, v)
       \/ \E i \in Items, v \in Values : OtherEdits(i, f, v)
  \/ \E v \in Values : BeginUpload(v)
  \/ \E k \in DOMAIN uploads : EndUpload(k)
  \/ \E i \in Items :
       AddOwnSelection(i) \/ OtherTakes(i) \/ OtherFrees(i) \/ OtherChecks(i)
  \/ \E k \in DOMAIN calls : Begin(k) \/ CheckEdit(k) \/ Handle(k)
  \/ CancelSelection \/ Hear

Spec == Init /\ [][Next]_vars

-----------------------------------------------------------------------------

Rest == calls = <<>> /\ wire = <<>>

(* With nothing under way, an item this client has is the item the board   *)
(* has, whoever edited it, unless the client ignored an edit of another    *)
(* while it had selected the item, selected it while edits of it were on   *)
(* their way, edited what the board had not given it, or made an edit that *)
(* a worker stored before an earlier one of the same item.                 *)
CopiesAgree == Rest => \A i \in Items \ astray : copy[i] = items[i]

(* The fields of an item's panel go to the items that are selected now.    *)
PanelIsBound == panel \notin Tools => current = selected

(* An input shows what its store holds, the first item's value if several  *)
(* are selected, whatever came in, unless its text is no number.           *)
ShownIsStored ==
  \A f \in Schemas[panel] :
    \/ inputs[panel][f] = Invalid
    \/ panel \in Tools /\ inputs[panel][f] = stored[panel][f]
    \/ panel \notin Tools /\ f \notin FieldsOf(selected[1])
    \/ panel \notin Tools /\ inputs[panel][f] = copy[selected[1]][f]

(* The inputs built first show what their store holds, too.                *)
TwinsShowStored ==
  \A f \in Schemas[panel] \cap Twins :
    \/ panel \in Tools /\ twins[panel][f] = stored[panel][f]
    \/ panel \notin Tools /\ f \notin FieldsOf(selected[1])
    \/ panel \notin Tools /\ twins[panel][f] = copy[selected[1]][f]

(* What is typed in an input of the panel is what the items have then.     *)
TypedIsStored ==
  [][\A f \in Twins, v \in Values :
       TypeInTwin(f, v) =>
         \A i \in ToSet(current) : f \in FieldsOf(i) => copy'[i][f] = v]_vars
=============================================================================
