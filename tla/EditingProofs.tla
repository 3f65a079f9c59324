--------------------------- MODULE EditingProofs ---------------------------
(***************************************************************************)
(* For any items, values, selections, edits, uploads and workers: the      *)
(* fields of an item's panel go to what is selected, the inputs show what  *)
(* their store holds, and a client has the items the board has once        *)
(* nothing is under way.                                                   *)
(*                                                                         *)
(* CopiesAgree is not inductive.  Pipeline says of every item that went    *)
(* not astray what the calls and the notifications under way will make of  *)
(* it.                                                                     *)
(***************************************************************************)
EXTENDS Editing, SequenceTheorems, TLAPS

USE ValuesAssumption, TypesAssumption

Val == Values \cup {Invalid}

Stages == {"sent", "begun", "checked"}

AddCalls    == [op : {"add"}, items : SUBSET Items, at : Stages]
RemoveCalls == [op : {"remove"}, items : SUBSET Items, at : Stages]
EditCalls ==
  UNION {[op : {"edit"}, items : {{i}}, value : [FieldsOf(i) -> Values], at : Stages] :
           i \in Items}
Calls == AddCalls \cup RemoveCalls \cup EditCalls

Notices ==
  UNION {[item : {i}, value : [FieldsOf(i) -> Values], by : {"me", "other"}] : i \in Items}

\* b has a value of its type for every item.
IsBoard(b) ==
  /\ b = [i \in Items |-> b[i]]
  /\ \A i \in Items : b[i] \in [FieldsOf(i) -> Values]

PanelTyped ==
  /\ selected \in Seq(Items) /\ current \in Seq(Items) /\ tool \in Tools
  /\ panel = SchemaFor(selected, tool)
  /\ stored = [t \in Tools |-> stored[t]]
  /\ \A t \in Tools : stored[t] \in [Schemas[t] -> Values]
  /\ inputs = [s \in DOMAIN Schemas |-> inputs[s]]
  /\ \A s \in DOMAIN Schemas : inputs[s] \in [Schemas[s] -> Val]
  /\ uploads \in Seq(Values)

TypeInv ==
  /\ IsBoard(copy) /\ IsBoard(items)
  /\ calls \in Seq(Calls) /\ wire \in Seq(Notices)
  /\ PanelTyped

\* The edits of i under way, the last one of which is number k.
LastEdit(i, k) ==
  /\ k \in DOMAIN calls /\ calls[k].op = "edit" /\ i \in calls[k].items
  /\ \A j \in DOMAIN calls : j > k => ~(calls[j].op = "edit" /\ i \in calls[j].items)

EditUnderWay(i) == \E k \in DOMAIN calls : calls[k].op = "edit" /\ i \in calls[k].items

OthersNotice(i) == \E k \in DOMAIN wire : wire[k].item = i /\ wire[k].by = "other"

\* The last notice of i tells what the board has.
WireCurrent ==
  \A k \in DOMAIN wire :
    (\A j \in DOMAIN wire : j > k => wire[j].item # wire[k].item)
      => items[wire[k].item] = wire[k].value

\* An item that is not selected will be what the last notice says; one that is
\* selected will be on the board what the last edit says.
Pipeline ==
  \A i \in Items \ astray :
    IF i \in ToSet(selected)
    THEN \/ OthersNotice(i)
         \/ /\ EditUnderWay(i) \/ copy[i] = items[i]
            /\ \A k \in DOMAIN calls : LastEdit(i, k) => calls[k].value = copy[i]
    ELSE UnderWay(i) \/ copy[i] = items[i]

IInv == TypeInv /\ PanelIsBound /\ ShownIsStored /\ WireCurrent /\ Pipeline

-----------------------------------------------------------------------------
(* Sequences, schemas and what a list has                                  *)

\* The first message and the others.
LEMMA TailFacts ==
  ASSUME NEW S, NEW s \in Seq(S), s # <<>>
  PROVE  /\ Tail(s) \in Seq(S) /\ Head(s) \in S /\ Head(s) = s[1]
         /\ Len(Tail(s)) = Len(s) - 1 /\ 1 \in DOMAIN s
         /\ \A k \in DOMAIN Tail(s) : k + 1 \in DOMAIN s /\ Tail(s)[k] = s[k + 1]
         /\ \A k \in DOMAIN s : k # 1 => k - 1 \in DOMAIN Tail(s) /\ Tail(s)[k - 1] = s[k]
OBVIOUS

\* One more message.
LEMMA AppendFacts ==
  ASSUME NEW S, NEW s \in Seq(S), NEW x \in S
  PROVE  /\ Append(s, x) \in Seq(S)
         /\ DOMAIN Append(s, x) = 1 .. (Len(s) + 1) /\ DOMAIN s = 1 .. Len(s)
         /\ \A k \in DOMAIN s : Append(s, x)[k] = s[k]
         /\ Append(s, x)[Len(s) + 1] = x
OBVIOUS

\* Several more messages.
LEMMA Joined ==
  ASSUME NEW S, NEW s \in Seq(S), NEW t \in Seq(S)
  PROVE  /\ DOMAIN s = 1 .. Len(s) /\ DOMAIN (s \o t) = 1 .. (Len(s) + Len(t))
         /\ \A k \in 1 .. Len(s) : (s \o t)[k] = s[k]
         /\ \A k \in 1 .. Len(t) : (s \o t)[Len(s) + k] = t[k]
<1>1. /\ Len(s) \in Nat /\ Len(t) \in Nat /\ Len(s \o t) = Len(s) + Len(t)
      /\ DOMAIN s = 1 .. Len(s) /\ DOMAIN (s \o t) = 1 .. Len(s \o t)
  OBVIOUS
<1>2. ASSUME NEW k \in 1 .. Len(s) PROVE (s \o t)[k] = s[k]
  BY <1>1, ConcatProperties
<1>3. ASSUME NEW k \in 1 .. Len(t) PROVE (s \o t)[Len(s) + k] = t[k]
  <2>1. Len(s) + k \in 1 .. Len(s) + Len(t) /\ ~(Len(s) + k <= Len(s)) /\ (Len(s) + k) - Len(s) = k
    BY <1>1
  <2>2. (s \o t)[Len(s) + k] = t[(Len(s) + k) - Len(s)]
    BY <2>1, ConcatProperties
  <2> QED BY <2>1, <2>2
<1> QED BY <1>1, <1>2, <1>3

\* The items of a list.
LEMMA InSet ==
  ASSUME NEW S, NEW s \in Seq(S)
  PROVE  /\ ToSet(s) = {s[k] : k \in 1 .. Len(s)} /\ ToSet(s) \subseteq S
         /\ s # <<>> => s[1] \in ToSet(s) /\ s[1] \in S
BY DEF ToSet

\* The items of a list that has grown.
LEMMA AppendSet ==
  ASSUME NEW S, NEW s \in Seq(S), NEW x \in S
  PROVE  ToSet(Append(s, x)) = ToSet(s) \cup {x}
<1>1. Append(s, x) \in Seq(S)
  OBVIOUS
<1>2. ToSet(Append(s, x)) = {Append(s, x)[k] : k \in 1 .. Len(s) + 1}
  BY <1>1 DEF ToSet
<1>3. ToSet(s) = {s[k] : k \in 1 .. Len(s)}
  BY InSet
<1>4. \A k \in 1 .. Len(s) : Append(s, x)[k] = s[k]
  OBVIOUS
<1>5. Append(s, x)[Len(s) + 1] = x /\ Len(s) \in Nat
  OBVIOUS
<1> QED BY <1>2, <1>3, <1>4, <1>5

\* Which panels there are.
LEMMA SchemaNames ==
  /\ DOMAIN Schemas =
       {"shape", "line", "text", "FillItem", "StrokeItem", "pen", "image", "none"}
  /\ Tools \subseteq DOMAIN Schemas
  /\ Schemas["none"] = {} /\ Schemas["image"] = {"url"} /\ "image" \in Tools /\ "none" \in Tools
BY DEF Schemas, Tools

\* A panel for items is none of a tool, save the empty one.
LEMMA SchemaOfList ==
  ASSUME NEW sel \in Seq(Items), NEW t \in Tools
  PROVE  /\ SchemaFor(sel, t) \in DOMAIN Schemas
         /\ sel = <<>> => SchemaFor(sel, t) = t
         /\ sel # <<>> => SchemaFor(sel, t) \notin Tools \/ SchemaFor(sel, t) = "none"
<1> DEFINE s == SchemaFor(sel, t)
<1>1. CASE sel = <<>>
  <2>1. s = t
    BY <1>1 DEF SchemaFor
  <2> QED BY <2>1, <1>1, SchemaNames
<1>2. CASE Len(sel) = 1
  <2>1. s = TypeOf(sel[1]) /\ sel[1] \in Items /\ sel # <<>>
    BY <1>2 DEF SchemaFor
  <2>2. s \in {"shape", "line", "text"}
    BY <2>1
  <2>3. s \notin Tools
    BY <2>2 DEF Tools
  <2> QED BY <2>1, <2>2, <2>3, SchemaNames
<1>3. CASE sel # <<>> /\ Len(sel) # 1
  <2>1. s \in {"FillItem", "StrokeItem", "none"}
    BY <1>3 DEF SchemaFor
  <2>2. "FillItem" \notin Tools /\ "StrokeItem" \notin Tools
    BY DEF Tools
  <2> QED BY <2>1, <2>2, <1>3, SchemaNames
<1> QED BY <1>1, <1>2, <1>3

-----------------------------------------------------------------------------
(* The panel                                                               *)

\* What the store of items reads is what an input can show.
LEMMA ReadTyped ==
  ASSUME IsBoard(copy), NEW cur \in Seq(Items), NEW f
  PROVE  ReadItems(f, cur, copy) \in Val
<1>1. CASE cur # <<>> /\ f \in DOMAIN copy[cur[1]]
  <2>1. cur[1] \in Items
    BY <1>1
  <2>2. copy[cur[1]] \in [FieldsOf(cur[1]) -> Values]
    BY <2>1 DEF IsBoard
  <2> QED BY <1>1, <2>2 DEF ReadItems, Val
<1>2. CASE ~(cur # <<>> /\ f \in DOMAIN copy[cur[1]])
  BY <1>2 DEF ReadItems, Val
<1> QED BY <1>1, <1>2

\* Whatever is selected and whatever tool is chosen, the panel is bound anew.
LEMMA RefreshStep ==
  ASSUME TypeInv, NEW sel \in Seq(Items), NEW t \in Tools, Refresh(sel, t),
         UNCHANGED <<stored, copy, uploads>>
  PROVE  PanelTyped' /\ PanelIsBound' /\ ShownIsStored'
<1> DEFINE s == SchemaFor(sel, t)
           shown == [f \in Schemas[s] |->
             IF sel = <<>> THEN stored[t][f] ELSE ReadItems(f, sel, copy)]
<1>1. /\ selected' = sel /\ tool' = t /\ panel' = s
      /\ current' = IF sel = <<>> THEN current ELSE sel
      /\ inputs' = [inputs EXCEPT ![s] = shown]
  BY DEF Refresh
<1>2. s \in DOMAIN Schemas /\ (sel = <<>> => s = t)
      /\ (sel # <<>> => s \notin Tools \/ s = "none")
  BY SchemaOfList
<1>3. shown \in [Schemas[s] -> Val]
  <2>1. CASE sel = <<>>
    <3>1. stored[t] \in [Schemas[s] -> Values]
      BY <2>1, <1>2 DEF TypeInv, PanelTyped
    <3> QED BY <2>1, <3>1 DEF Val
  <2>2. CASE sel # <<>>
    BY <2>2, ReadTyped DEF TypeInv
  <2> QED BY <2>1, <2>2
<1> HIDE DEF shown
<1>4. /\ inputs = [r \in DOMAIN Schemas |-> inputs[r]]
      /\ \A r \in DOMAIN Schemas : inputs[r] \in [Schemas[r] -> Val]
  BY DEF TypeInv, PanelTyped
<1>5. /\ inputs' = [r \in DOMAIN Schemas |-> inputs'[r]]
      /\ \A r \in DOMAIN Schemas : inputs'[r] \in [Schemas[r] -> Val]
      /\ inputs'[s] = shown
  BY <1>1, <1>2, <1>3, <1>4
<1>6. PanelTyped'
  <2>1. selected' \in Seq(Items) /\ current' \in Seq(Items) /\ tool' \in Tools
    BY <1>1 DEF TypeInv, PanelTyped
  <2>2. panel' = SchemaFor(selected', tool')
    BY <1>1
  <2>3. /\ stored' = [r \in Tools |-> stored'[r]]
        /\ \A r \in Tools : stored'[r] \in [Schemas[r] -> Values]
        /\ uploads' \in Seq(Values)
    BY DEF TypeInv, PanelTyped
  <2> QED BY <2>1, <2>2, <2>3, <1>5 DEF PanelTyped
<1>7. PanelIsBound'
  BY <1>1, <1>2 DEF PanelIsBound
<1>8. ShownIsStored'
  <2> SUFFICES ASSUME NEW f \in Schemas[s]
               PROVE  \/ inputs'[s][f] = Invalid
                      \/ s \in Tools /\ inputs'[s][f] = stored'[s][f]
                      \/ s \notin Tools /\ f \notin FieldsOf(sel[1])
                      \/ s \notin Tools /\ inputs'[s][f] = copy'[sel[1]][f]
    BY <1>1 DEF ShownIsStored
  <2>1. CASE sel = <<>>
    <3>1. inputs'[s][f] = stored[t][f]
      BY <2>1, <1>5 DEF shown
    <3> QED BY <3>1, <2>1, <1>2
  <2>2. CASE sel # <<>>
    <3>1. s \notin Tools
      BY <2>2, <1>2, SchemaNames
    <3>2. copy[sel[1]] \in [FieldsOf(sel[1]) -> Values]
      BY <2>2 DEF TypeInv, IsBoard
    <3>3. inputs'[s][f] = ReadItems(f, sel, copy)
      BY <2>2, <1>5 DEF shown
    <3>4. f \in FieldsOf(sel[1]) => inputs'[s][f] = copy[sel[1]][f]
      BY <2>2, <3>2, <3>3 DEF ReadItems
    <3> QED BY <3>1, <3>4
  <2> QED BY <2>1, <2>2
<1> QED BY <1>6, <1>7, <1>8

-----------------------------------------------------------------------------
(* Edits of this client                                                    *)

\* An edit goes to the edited items that have the field.
LEMMA EditedFacts ==
  ASSUME NEW cur \in Seq(Items), NEW f, NEW those \in Edited(cur, f)
  PROVE  /\ those \in Seq(Items)
         /\ \A i \in Items : i \in ToSet(those) <=> (i \in ToSet(cur) /\ f \in FieldsOf(i))
<1> DEFINE at == {k \in DOMAIN cur : f \in FieldsOf(cur[k])}
<1>1. PICK o \in UNION {[1..n -> at] : n \in 0..Len(cur)} :
        /\ \A k \in at : \E j \in DOMAIN o : o[j] = k
        /\ those = [j \in DOMAIN o |-> cur[o[j]]]
  BY DEF Edited
<1>2. PICK n \in 0..Len(cur) : o \in [1..n -> at]
  BY <1>1
<1>3. those \in [1..n -> Items] /\ n \in Nat
  BY <1>1, <1>2
<1>4. those \in Seq(Items) /\ Len(those) = n
  BY <1>3
<1>5. ToSet(those) = {cur[o[j]] : j \in 1..n}
  <2>1. \A j \in 1..n : those[j] = cur[o[j]]
    BY <1>1, <1>2
  <2>2. ToSet(those) = {those[j] : j \in 1..n}
    BY <1>4, InSet
  <2> QED BY <2>1, <2>2
<1>6. ToSet(cur) = {cur[k] : k \in DOMAIN cur}
  BY DEF ToSet
<1>7. ASSUME NEW i \in Items, i \in ToSet(those) PROVE i \in ToSet(cur) /\ f \in FieldsOf(i)
  <2>1. PICK j \in 1..n : i = cur[o[j]]
    BY <1>5, <1>7
  <2>2. o[j] \in at
    BY <1>2
  <2> QED BY <2>1, <2>2, <1>6
<1>8. ASSUME NEW i \in Items, i \in ToSet(cur), f \in FieldsOf(i) PROVE i \in ToSet(those)
  <2>1. PICK k \in DOMAIN cur : i = cur[k]
    BY <1>6, <1>8
  <2>2. PICK j \in 1..n : o[j] = k
    BY <2>1, <1>8, <1>1, <1>2
  <2> QED BY <2>1, <2>2, <1>5
<1> QED BY <1>4, <1>7, <1>8

\* ItemPropertyStore.set changes the copies and calls the board for the same items.
LEMMA StoreItemsStep ==
  ASSUME TypeInv, NEW f, NEW v \in Values, StoreItems(f, v)
  PROVE  /\ IsBoard(copy)' /\ calls' \in Seq(Calls) /\ stored' = stored
         /\ \A i \in Items :
              copy'[i] = IF i \in ToSet(current) /\ f \in FieldsOf(i)
                         THEN [copy[i] EXCEPT ![f] = v] ELSE copy[i]
         /\ \E those \in Seq(Items) :
              /\ calls' = calls \o EditSelectedItems(those, copy')
              /\ \A i \in Items : i \in ToSet(those) <=> (i \in ToSet(current) /\ f \in FieldsOf(i))
<1>1. PICK those \in Edited(current, f) :
        /\ copy' = [i \in Items |-> IF i \in ToSet(those) THEN [copy[i] EXCEPT ![f] = v] ELSE copy[i]]
        /\ calls' = calls \o EditSelectedItems(those, copy')
        /\ stored' = stored
  BY DEF StoreItems
<1>2. /\ those \in Seq(Items)
      /\ \A i \in Items : i \in ToSet(those) <=> (i \in ToSet(current) /\ f \in FieldsOf(i))
  BY EditedFacts DEF TypeInv, PanelTyped
<1>3. \A i \in Items : copy[i] \in [FieldsOf(i) -> Values]
  BY DEF TypeInv, IsBoard
<1>4. \A i \in Items : copy'[i] \in [FieldsOf(i) -> Values]
  BY <1>1, <1>2, <1>3
<1>5. IsBoard(copy)'
  <2>1. copy' = [i \in Items |-> copy'[i]]
    BY <1>1
  <2> QED BY <2>1, <1>4 DEF IsBoard
<1>6. calls' \in Seq(Calls)
  <2> DEFINE e == EditSelectedItems(those, copy')
  <2>1. ASSUME NEW k \in DOMAIN those
        PROVE  [op |-> "edit", items |-> {those[k]}, value |-> copy'[those[k]], at |-> "sent"] \in Calls
    <3>1. those[k] \in Items
      BY <1>2
    <3>2. copy'[those[k]] \in [FieldsOf(those[k]) -> Values]
      BY <3>1, <1>4
    <3>3. [op |-> "edit", items |-> {those[k]}, value |-> copy'[those[k]], at |-> "sent"] \in
            [op : {"edit"}, items : {{those[k]}}, value : [FieldsOf(those[k]) -> Values], at : Stages]
      BY <3>2 DEF Stages
    <3> QED BY <3>1, <3>3 DEF Calls, EditCalls
  <2>2. e \in [1 .. Len(those) -> Calls] /\ Len(those) \in Nat
    BY <2>1, <1>2 DEF EditSelectedItems
  <2>3. e \in Seq(Calls)
    BY <2>2
  <2> HIDE DEF e
  <2> QED BY <2>3, <1>1 DEF TypeInv, e
<1> QED BY <1>1, <1>2, <1>5, <1>6

\* The store of a tool changes in one field.
LEMMA StoreToolStep ==
  ASSUME TypeInv, panel \in Tools, NEW f \in Schemas[panel], NEW v \in Values, StoreTool(f, v)
  PROVE  /\ copy' = copy /\ calls' = calls
         /\ stored' = [t \in Tools |-> stored'[t]]
         /\ \A t \in Tools : stored'[t] \in [Schemas[t] -> Values]
         /\ stored'[panel] = [stored[panel] EXCEPT ![f] = v]
<1>1. stored' = [stored EXCEPT ![panel] = [stored[panel] EXCEPT ![f] = v]]
      /\ copy' = copy /\ calls' = calls
  BY DEF StoreTool
<1>2. /\ stored = [t \in Tools |-> stored[t]]
      /\ \A t \in Tools : stored[t] \in [Schemas[t] -> Values]
  BY DEF TypeInv, PanelTyped
<1>3. [stored[panel] EXCEPT ![f] = v] \in [Schemas[panel] -> Values]
  BY <1>2
<1> QED BY <1>1, <1>2, <1>3

\* What is stored is what the panel's inputs are compared with.
LEMMA StoreStep ==
  ASSUME IInv, NEW f \in Schemas[panel], NEW v \in Values, Store(f, v)
  PROVE  /\ IsBoard(copy)' /\ calls' \in Seq(Calls)
         /\ stored' = [t \in Tools |-> stored'[t]]
         /\ \A t \in Tools : stored'[t] \in [Schemas[t] -> Values]
         /\ panel \in Tools => stored'[panel] = [stored[panel] EXCEPT ![f] = v]
         /\ panel \notin Tools =>
              copy'[selected[1]] = IF f \in FieldsOf(selected[1])
                                   THEN [copy[selected[1]] EXCEPT ![f] = v]
                                   ELSE copy[selected[1]]
<1> USE DEF IInv
<1>1. CASE panel \in Tools
  <2>1. StoreTool(f, v)
    BY <1>1 DEF Store
  <2> QED BY <2>1, <1>1, StoreToolStep DEF TypeInv
<1>2. CASE panel \notin Tools
  <2>1. StoreItems(f, v)
    BY <1>2 DEF Store
  <2>2. selected # <<>> /\ selected \in Seq(Items) /\ current = selected
    BY <1>2, SchemaOfList DEF TypeInv, PanelTyped, PanelIsBound
  <2>3. selected[1] \in Items /\ selected[1] \in ToSet(current)
    BY <2>2, InSet
  <2> QED BY <2>1, <2>3, <1>2, StoreItemsStep DEF TypeInv, PanelTyped
<1> QED BY <1>1, <1>2

\* What the panel shows after an input, given what was stored.
LEMMA TypedStep ==
  ASSUME IInv, TypeInv', NEW f \in Schemas[panel], NEW v \in Values, Store(f, v),
         UNCHANGED <<selected, current, tool, panel>>,
         \/ inputs' = [inputs EXCEPT ![panel][f] = v]
         \/ inputs' = inputs /\ inputs[panel][f] = v
  PROVE  PanelIsBound' /\ ShownIsStored'
<1> USE DEF IInv
<1>1. PanelIsBound'
  BY DEF PanelIsBound
<1>2. ASSUME NEW g \in Schemas[panel]
      PROVE  \/ inputs'[panel][g] = Invalid
             \/ panel \in Tools /\ inputs'[panel][g] = stored'[panel][g]
             \/ panel \notin Tools /\ g \notin FieldsOf(selected[1])
             \/ panel \notin Tools /\ inputs'[panel][g] = copy'[selected[1]][g]
  <2>1. panel \in DOMAIN Schemas
    BY SchemaOfList DEF TypeInv, PanelTyped
  <2>2. inputs[panel] \in [Schemas[panel] -> Val] /\ inputs = [s \in DOMAIN Schemas |-> inputs[s]]
    BY <2>1 DEF TypeInv, PanelTyped
  <2>3. inputs'[panel][g] = IF g = f THEN v ELSE inputs[panel][g]
    BY <2>1, <2>2
  <2>4. \/ inputs[panel][g] = Invalid
        \/ panel \in Tools /\ inputs[panel][g] = stored[panel][g]
        \/ panel \notin Tools /\ g \notin FieldsOf(selected[1])
        \/ panel \notin Tools /\ inputs[panel][g] = copy[selected[1]][g]
    BY DEF ShownIsStored
  <2>5. CASE panel \in Tools
    <3>1. stored[panel] \in [Schemas[panel] -> Values]
      BY <2>5 DEF TypeInv, PanelTyped
    <3>2. stored'[panel] = [stored[panel] EXCEPT ![f] = v]
      BY <2>5, StoreStep
    <3>3. stored'[panel][g] = IF g = f THEN v ELSE stored[panel][g]
      BY <3>1, <3>2
    <3> QED BY <3>3, <2>3, <2>4, <2>5
  <2>6. CASE panel \notin Tools
    <3>1. selected[1] \in Items
      BY <2>6, SchemaOfList, InSet DEF TypeInv, PanelTyped
    <3>2. copy[selected[1]] \in [FieldsOf(selected[1]) -> Values]
      BY <3>1 DEF TypeInv, IsBoard
    <3>3. g \in FieldsOf(selected[1]) =>
            copy'[selected[1]][g] = IF g = f THEN v ELSE copy[selected[1]][g]
      BY <3>2, <2>6, StoreStep
    <3> QED BY <3>3, <2>3, <2>4, <2>6
  <2> QED BY <2>5, <2>6
<1>3. ShownIsStored'
  BY <1>2 DEF ShownIsStored
<1> QED BY <1>1, <1>3

\* The edits an input sends are the last ones of their items.
LEMMA StoreKeepsPipeline ==
  ASSUME IInv, NEW f \in Schemas[panel], NEW v \in Values, Store(f, v),
         UNCHANGED <<selected, items, wire, astray>>
  PROVE  Pipeline'
<1> USE DEF IInv
<1>1. CASE panel \in Tools
  <2>1. copy' = copy /\ calls' = calls
    BY <1>1 DEF Store, StoreTool
  <2> QED BY <2>1 DEF Pipeline, OthersNotice, EditUnderWay, LastEdit, UnderWay
<1>2. CASE panel \notin Tools
  <2>1. current = selected
    BY <1>2 DEF PanelIsBound
  <2>2. StoreItems(f, v)
    BY <1>2 DEF Store
  <2>3. PICK those \in Seq(Items) :
          /\ calls' = calls \o EditSelectedItems(those, copy')
          /\ \A i \in Items : i \in ToSet(those) <=> (i \in ToSet(selected) /\ f \in FieldsOf(i))
    BY <2>1, <2>2, StoreItemsStep
  <2>4. \A i \in Items : i \notin ToSet(those) => copy'[i] = copy[i]
    BY <2>1, <2>2, <2>3, StoreItemsStep
  <2> DEFINE e == EditSelectedItems(those, copy')
             n == Len(calls)
           at(k) == [op |-> "edit", items |-> {those[k]}, value |-> copy'[those[k]], at |-> "sent"]
           T == {at(k) : k \in 1 .. Len(those)}
  <2>5. /\ e \in Seq(T) /\ Len(e) = Len(those) /\ n \in Nat
        /\ calls \in Seq(Calls) /\ Len(those) \in Nat
        /\ \A k \in 1 .. Len(those) : e[k] = at(k)
    <3>1. Len(those) \in Nat /\ DOMAIN those = 1 .. Len(those)
      BY <2>3
    <3>2. e = [k \in 1 .. Len(those) |-> at(k)]
      BY <3>1 DEF EditSelectedItems
    <3> HIDE DEF e
    <3>3. e \in [1 .. Len(those) -> T]
      <4>1. \A k \in 1 .. Len(those) : at(k) \in T
        OBVIOUS
      <4> HIDE DEF at, T
      <4> QED BY <4>1, <3>2
    <3> HIDE DEF T
    <3>4. e \in Seq(T) /\ Len(e) = Len(those)
      BY <3>1, <3>3
    <3>5. calls \in Seq(Calls) /\ n \in Nat
      BY DEF TypeInv
    <3> QED BY <3>1, <3>2, <3>4, <3>5
  <2>6. /\ calls' = calls \o e /\ DOMAIN calls = 1 .. n /\ DOMAIN calls' = 1 .. (n + Len(those))
        /\ \A k \in 1 .. n : calls'[k] = calls[k]
        /\ \A k \in 1 .. Len(those) : calls'[n + k] = e[k]
    <3>1. calls' = calls \o e
      BY <2>3
    <3>2. /\ e \in Seq(T) /\ Len(e) = Len(those) /\ calls \in Seq(Calls)
          /\ Len(those) \in Nat /\ n = Len(calls)
      BY <2>5
    <3> HIDE DEF e, T, n
    <3>3. calls \in Seq(Calls \cup T) /\ e \in Seq(Calls \cup T)
      BY <3>2
    <3>4. /\ DOMAIN calls = 1 .. Len(calls) /\ DOMAIN (calls \o e) = 1 .. (Len(calls) + Len(e))
          /\ \A k \in 1 .. Len(calls) : (calls \o e)[k] = calls[k]
          /\ \A k \in 1 .. Len(e) : (calls \o e)[Len(calls) + k] = e[k]
      BY <3>3, Joined
    <3> QED BY <3>1, <3>2, <3>4
  <2> HIDE DEF e, T
  <2>7. \A i \in Items : i \in ToSet(those) <=> \E k \in 1 .. Len(those) : those[k] = i
    BY InSet
  <2> SUFFICES ASSUME NEW i \in Items \ astray
               PROVE  IF i \in ToSet(selected)
                      THEN \/ OthersNotice(i)'
                           \/ /\ EditUnderWay(i)' \/ copy'[i] = items[i]
                              /\ \A k \in DOMAIN calls' : LastEdit(i, k)' => calls'[k].value = copy'[i]
                      ELSE UnderWay(i)' \/ copy'[i] = items[i]
    BY DEF Pipeline
  <2>8. OthersNotice(i) => OthersNotice(i)'
    BY DEF OthersNotice
  <2>9. EditUnderWay(i) => EditUnderWay(i)'
    <3> SUFFICES ASSUME NEW k \in DOMAIN calls, calls[k].op = "edit", i \in calls[k].items
                 PROVE  EditUnderWay(i)'
      BY DEF EditUnderWay
    <3>1. k \in DOMAIN calls' /\ calls'[k] = calls[k]
      BY <2>5, <2>6
    <3> QED BY <3>1 DEF EditUnderWay
  <2>10. CASE i \in ToSet(those)
    <3>1. PICK m \in 1 .. Len(those) : those[m] = i
      BY <2>7, <2>10
    <3>2. n + m \in DOMAIN calls' /\ calls'[n + m].op = "edit" /\ i \in calls'[n + m].items
      <4>1. n + m \in DOMAIN calls' /\ calls'[n + m] = e[m]
        BY <3>1, <2>5, <2>6
      <4>2. e[m] = at(m)
        BY <3>1, <2>5
      <4> QED BY <4>1, <4>2, <3>1
    <3>3. EditUnderWay(i)'
      BY <3>2 DEF EditUnderWay
    <3>4. ASSUME NEW k \in DOMAIN calls', LastEdit(i, k)' PROVE calls'[k].value = copy'[i]
      <4>1. ~(n + m > k)
        BY <3>2, <3>4 DEF LastEdit
      <4>2. k > n /\ k - n \in 1 .. Len(those) /\ k = n + (k - n)
        BY <4>1, <3>1, <2>5, <2>6
      <4>3. calls'[k] = e[k - n]
        BY <4>2, <2>6
      <4>4. calls'[k] = [op |-> "edit", items |-> {those[k - n]}, value |-> copy'[those[k - n]], at |-> "sent"]
        BY <4>2, <4>3, <2>5
      <4>5. i \in calls'[k].items
        BY <3>4 DEF LastEdit
      <4>6. i = those[k - n]
        BY <4>4, <4>5
      <4> QED BY <4>4, <4>6
    <3>5. i \in ToSet(selected)
      BY <2>3, <2>10
    <3> QED BY <3>3, <3>4, <3>5
  <2>11. CASE i \notin ToSet(those)
    <3>1. copy'[i] = copy[i]
      BY <2>4, <2>11
    <3>2. ASSUME NEW k \in DOMAIN calls', LastEdit(i, k)' PROVE LastEdit(i, k) /\ calls'[k] = calls[k]
      <4>1. i \in calls'[k].items /\ calls'[k].op = "edit"
            /\ \A j \in DOMAIN calls' : j > k => ~(calls'[j].op = "edit" /\ i \in calls'[j].items)
        BY <3>2 DEF LastEdit
      <4>2. k \in 1 .. n
        <5> SUFFICES ASSUME k \notin 1 .. n PROVE FALSE
          OBVIOUS
        <5>1. k - n \in 1 .. Len(those) /\ k = n + (k - n)
          BY <2>5, <2>6
        <5>2. calls'[k] = [op |-> "edit", items |-> {those[k - n]}, value |-> copy'[those[k - n]], at |-> "sent"]
          BY <5>1, <2>5, <2>6
        <5>3. i = those[k - n]
          BY <5>2, <4>1
        <5> QED BY <5>1, <5>3, <2>7, <2>11
      <4>3. \A j \in DOMAIN calls : j \in DOMAIN calls' /\ calls'[j] = calls[j]
        BY <2>5, <2>6
      <4>4. k \in DOMAIN calls
        BY <4>2, <2>6
      <4> QED BY <4>1, <4>3, <4>4 DEF LastEdit
    <3>3. UnderWay(i) => UnderWay(i)'
      BY <2>9 DEF UnderWay, EditUnderWay
    <3>4. i \in ToSet(selected) =>
            OthersNotice(i)
            \/ ((EditUnderWay(i) \/ copy[i] = items[i])
                /\ \A k \in DOMAIN calls : LastEdit(i, k) => calls[k].value = copy[i])
      BY DEF Pipeline
    <3>5. i \notin ToSet(selected) => UnderWay(i) \/ copy[i] = items[i]
      BY DEF Pipeline
    <3>6. CASE i \in ToSet(selected)
      <4>1. CASE OthersNotice(i)
        BY <4>1, <2>8, <3>6
      <4>2. CASE ~OthersNotice(i)
        <5>1. \A k \in DOMAIN calls : LastEdit(i, k) => calls[k].value = copy[i]
          BY <3>4, <3>6, <4>2
        <5>2. \A k \in DOMAIN calls' : LastEdit(i, k)' => calls'[k].value = copy'[i]
          <6> SUFFICES ASSUME NEW k \in DOMAIN calls', LastEdit(i, k)'
                       PROVE  calls'[k].value = copy'[i]
            OBVIOUS
          <6>1. LastEdit(i, k) /\ calls'[k] = calls[k]
            BY <3>2
          <6>2. k \in DOMAIN calls
            BY <6>1 DEF LastEdit
          <6> QED BY <6>1, <6>2, <5>1, <3>1
        <5>3. EditUnderWay(i)' \/ copy'[i] = items[i]
          BY <3>4, <3>6, <4>2, <2>9, <3>1
        <5> QED BY <5>2, <5>3, <3>6
      <4> QED BY <4>1, <4>2
    <3>7. CASE i \notin ToSet(selected)
      BY <3>7, <3>5, <3>3, <3>1
    <3> QED BY <3>6, <3>7
  <2> QED BY <2>10, <2>11
<1> QED BY <1>1, <1>2

\* An input that is set shows a value.
LEMMA InputTyped ==
  ASSUME IInv, NEW f \in Schemas[panel], NEW v \in Val, inputs' = [inputs EXCEPT ![panel][f] = v]
  PROVE  /\ inputs' = [s \in DOMAIN Schemas |-> inputs'[s]]
         /\ \A s \in DOMAIN Schemas : inputs'[s] \in [Schemas[s] -> Val]
         /\ inputs'[panel] = [inputs[panel] EXCEPT ![f] = v]
<1> USE DEF IInv
<1>1. panel \in DOMAIN Schemas
  BY SchemaOfList DEF TypeInv, PanelTyped
<1>2. /\ inputs = [s \in DOMAIN Schemas |-> inputs[s]]
      /\ \A s \in DOMAIN Schemas : inputs[s] \in [Schemas[s] -> Val]
  BY DEF TypeInv, PanelTyped
<1>3. [inputs[panel] EXCEPT ![f] = v] \in [Schemas[panel] -> Val]
  BY <1>1, <1>2
<1>4. inputs' = [inputs EXCEPT ![panel] = [inputs[panel] EXCEPT ![f] = v]]
  OBVIOUS
<1> QED BY <1>1, <1>2, <1>3, <1>4

\* The user types into an input.
LEMMA TypeInStep ==
  ASSUME IInv, NEW f, NEW v \in Val, TypeIn(f, v)
  PROVE  IInv'
<1> USE DEF IInv
<1>1. /\ f \in Schemas[panel]
      /\ inputs' = [inputs EXCEPT ![panel][f] = v]
      /\ IF v = Invalid THEN UNCHANGED <<copy, calls, stored>> ELSE Store(f, v)
      /\ UNCHANGED <<selected, current, tool, panel, uploads, items, owner, wire, astray>>
  BY DEF TypeIn, boardVars
<1>2. /\ inputs' = [s \in DOMAIN Schemas |-> inputs'[s]]
      /\ \A s \in DOMAIN Schemas : inputs'[s] \in [Schemas[s] -> Val]
      /\ inputs'[panel] = [inputs[panel] EXCEPT ![f] = v]
  BY <1>1, InputTyped
<1>3. WireCurrent'
  BY <1>1 DEF WireCurrent
<1>4. CASE v = Invalid
  <2>1. TypeInv'
    BY <1>1, <1>2, <1>4 DEF TypeInv, PanelTyped, IsBoard
  <2>2. PanelIsBound'
    BY <1>1 DEF PanelIsBound
  <2>3. ShownIsStored'
    <3>1. panel \in DOMAIN Schemas
      BY SchemaOfList DEF TypeInv, PanelTyped
    <3>2. inputs[panel] \in [Schemas[panel] -> Val]
      BY <3>1 DEF TypeInv, PanelTyped
    <3>3. \A g \in Schemas[panel] :
            inputs'[panel][g] = IF g = f THEN Invalid ELSE inputs[panel][g]
      BY <1>2, <1>4, <3>2
    <3> QED BY <3>3, <1>1, <1>4 DEF ShownIsStored
  <2>4. Pipeline'
    BY <1>1, <1>4 DEF Pipeline, OthersNotice, EditUnderWay, LastEdit, UnderWay
  <2> QED BY <2>1, <2>2, <2>3, <2>4, <1>3
<1>5. CASE v # Invalid
  <2>1. v \in Values /\ Store(f, v)
    BY <1>1, <1>5 DEF Val
  <2>2. /\ IsBoard(copy)' /\ calls' \in Seq(Calls)
        /\ stored' = [t \in Tools |-> stored'[t]]
        /\ \A t \in Tools : stored'[t] \in [Schemas[t] -> Values]
    BY <2>1, <1>1, StoreStep
  <2>3. TypeInv'
    BY <2>2, <1>1, <1>2 DEF TypeInv, PanelTyped, IsBoard
  <2>4. PanelIsBound' /\ ShownIsStored'
    BY <2>1, <2>3, <1>1, TypedStep
  <2>5. Pipeline'
    BY <2>1, <1>1, StoreKeepsPipeline
  <2> QED BY <2>3, <2>4, <2>5, <1>3
<1> QED BY <1>4, <1>5

\* The user types into the second input of a field.
LEMMA TypeInTwinStep ==
  ASSUME IInv, NEW f, NEW w, TypeInTwin(f, w)
  PROVE  IInv'
<1> USE DEF IInv
<1> DEFINE v == inputs[panel][f]
<1>1. /\ f \in Schemas[panel]
      /\ IF v = Invalid THEN UNCHANGED <<copy, calls, stored>> ELSE Store(f, v)
      /\ UNCHANGED <<selected, current, tool, panel, inputs, uploads, items, owner, wire, astray>>
  BY DEF TypeInTwin, boardVars
<1>2. v \in Val
  <2>1. panel \in DOMAIN Schemas
    BY SchemaOfList DEF TypeInv, PanelTyped
  <2> QED BY <2>1, <1>1 DEF TypeInv, PanelTyped
<1> HIDE DEF v
<1>3. WireCurrent'
  BY <1>1 DEF WireCurrent
<1>4. CASE v = Invalid
  <2>1. TypeInv'
    BY <1>1, <1>4 DEF TypeInv, PanelTyped, IsBoard
  <2>2. PanelIsBound' /\ ShownIsStored'
    BY <1>1, <1>4 DEF PanelIsBound, ShownIsStored
  <2>3. Pipeline'
    BY <1>1, <1>4 DEF Pipeline, OthersNotice, EditUnderWay, LastEdit, UnderWay
  <2> QED BY <2>1, <2>2, <2>3, <1>3
<1>5. CASE v # Invalid
  <2>1. v \in Values /\ Store(f, v)
    BY <1>1, <1>2, <1>5 DEF Val
  <2>2. /\ IsBoard(copy)' /\ calls' \in Seq(Calls)
        /\ stored' = [t \in Tools |-> stored'[t]]
        /\ \A t \in Tools : stored'[t] \in [Schemas[t] -> Values]
    BY <2>1, <1>1, StoreStep
  <2>3. TypeInv'
    BY <2>2, <1>1 DEF TypeInv, PanelTyped, IsBoard
  <2>4. PanelIsBound' /\ ShownIsStored'
    BY <2>1, <2>3, <1>1, TypedStep DEF v
  <2>5. Pipeline'
    BY <2>1, <1>1, StoreKeepsPipeline
  <2> QED BY <2>3, <2>4, <2>5, <1>3
<1> QED BY <1>4, <1>5

\* An upload is begun for the panel that is shown.
LEMMA BeginUploadStep ==
  ASSUME IInv, NEW v \in Values, BeginUpload(v)
  PROVE  IInv'
<1> USE DEF IInv, BeginUpload, panelVars, boardVars
<1>1. TypeInv'
  <2>1. uploads' \in Seq(Values)
    BY DEF TypeInv, PanelTyped
  <2> QED BY <2>1 DEF TypeInv, PanelTyped, IsBoard
<1>2. PanelIsBound' /\ ShownIsStored' /\ WireCurrent'
  BY DEF PanelIsBound, ShownIsStored, WireCurrent
<1>3. Pipeline'
  BY DEF Pipeline, OthersNotice, EditUnderWay, LastEdit, UnderWay
<1> QED BY <1>1, <1>2, <1>3

\* An upload ends, whatever panel is shown by then.
LEMMA EndUploadStep ==
  ASSUME IInv, NEW k \in DOMAIN uploads, EndUpload(k)
  PROVE  IInv'
<1> USE DEF IInv
<1> DEFINE v == uploads[k]
<1>1. /\ inputs' = [inputs EXCEPT !["image"] = [inputs["image"] EXCEPT !["url"] = v]]
      /\ stored' = [stored EXCEPT !["image"] = [stored["image"] EXCEPT !["url"] = v]]
      /\ uploads' = RemoveAt(uploads, k)
      /\ UNCHANGED <<copy, selected, current, tool, panel, calls, items, owner, wire, astray>>
  BY DEF EndUpload, boardVars
<1>2. uploads \in Seq(Values) /\ v \in Values
  BY DEF TypeInv, PanelTyped
<1> HIDE DEF v
<1>3. uploads' \in Seq(Values)
  BY <1>1, <1>2 DEF RemoveAt
<1>4. /\ inputs["image"] \in [{"url"} -> Val] /\ stored["image"] \in [{"url"} -> Values]
      /\ "image" \in DOMAIN Schemas
  BY SchemaNames DEF TypeInv, PanelTyped
<1>5. /\ [inputs["image"] EXCEPT !["url"] = v] \in [Schemas["image"] -> Val]
      /\ [stored["image"] EXCEPT !["url"] = v] \in [Schemas["image"] -> Values]
      /\ [inputs["image"] EXCEPT !["url"] = v]["url"] = v
      /\ [stored["image"] EXCEPT !["url"] = v]["url"] = v
  BY <1>2, <1>4, SchemaNames DEF Val
<1>6. /\ inputs = [s \in DOMAIN Schemas |-> inputs[s]]
      /\ \A s \in DOMAIN Schemas : inputs[s] \in [Schemas[s] -> Val]
      /\ stored = [t \in Tools |-> stored[t]]
      /\ \A t \in Tools : stored[t] \in [Schemas[t] -> Values]
  BY DEF TypeInv, PanelTyped
<1>7. /\ inputs' = [s \in DOMAIN Schemas |-> inputs'[s]]
      /\ \A s \in DOMAIN Schemas : inputs'[s] \in [Schemas[s] -> Val]
      /\ stored' = [t \in Tools |-> stored'[t]]
      /\ \A t \in Tools : stored'[t] \in [Schemas[t] -> Values]
      /\ inputs'["image"]["url"] = v /\ stored'["image"]["url"] = v
      /\ \A s \in DOMAIN Schemas : s # "image" => inputs'[s] = inputs[s]
      /\ \A s \in Tools : s # "image" => stored'[s] = stored[s]
  BY <1>1, <1>4, <1>5, <1>6, SchemaNames
<1>8. TypeInv'
  BY <1>1, <1>3, <1>7 DEF TypeInv, PanelTyped, IsBoard
<1>9. PanelIsBound' /\ WireCurrent'
  BY <1>1 DEF PanelIsBound, WireCurrent
<1>10. ShownIsStored'
  <2>1. CASE panel = "image"
    <3>1. \A f \in Schemas[panel] : f = "url"
      BY <2>1, SchemaNames
    <3> QED BY <3>1, <2>1, <1>1, <1>7, SchemaNames DEF ShownIsStored
  <2>2. CASE panel # "image"
    <3>1. panel \in DOMAIN Schemas
      BY SchemaOfList DEF TypeInv, PanelTyped
    <3>2. inputs'[panel] = inputs[panel] /\ (panel \in Tools => stored'[panel] = stored[panel])
      BY <3>1, <2>2, <1>7
    <3> QED BY <3>2, <1>1 DEF ShownIsStored
  <2> QED BY <2>1, <2>2
<1>11. Pipeline'
  BY <1>1 DEF Pipeline, OthersNotice, EditUnderWay, LastEdit, UnderWay
<1> QED BY <1>8, <1>9, <1>10, <1>11

-----------------------------------------------------------------------------
(* The selection                                                           *)

\* Another tool is chosen.
LEMMA ChooseToolStep ==
  ASSUME IInv, NEW t \in Tools, ChooseTool(t)
  PROVE  IInv'
<1> USE DEF IInv
<1>1. /\ Refresh(selected, t) /\ selected \in Seq(Items)
      /\ UNCHANGED <<stored, copy, uploads, calls, items, owner, wire, astray>>
  BY DEF ChooseTool, boardVars, TypeInv, PanelTyped
<1>2. PanelTyped' /\ PanelIsBound' /\ ShownIsStored'
  BY <1>1, RefreshStep
<1>3. selected' = selected
  BY <1>1 DEF Refresh
<1>4. TypeInv' /\ WireCurrent'
  BY <1>1, <1>2 DEF TypeInv, IsBoard, WireCurrent
<1>5. Pipeline'
  BY <1>1, <1>3 DEF Pipeline, OthersNotice, EditUnderWay, LastEdit, UnderWay
<1> QED BY <1>2, <1>4, <1>5

\* A call that is no edit, put at the end, is none of the edits under way.
LEMMA NoEditAppended ==
  ASSUME TypeInv, NEW c \in AddCalls \cup RemoveCalls, calls' = Append(calls, c),
         UNCHANGED wire
  PROVE  /\ calls' \in Seq(Calls)
         /\ \A i \in Items :
              /\ EditUnderWay(i)' <=> EditUnderWay(i)
              /\ UnderWay(i)' <=> UnderWay(i)
              /\ \A k \in DOMAIN calls' :
                   LastEdit(i, k)' => LastEdit(i, k) /\ calls'[k] = calls[k]
<1>1. c.op # "edit" /\ c \in Calls
  BY DEF AddCalls, RemoveCalls, Calls
<1>2. /\ calls' \in Seq(Calls) /\ DOMAIN calls' = 1 .. (Len(calls) + 1)
      /\ DOMAIN calls = 1 .. Len(calls) /\ Len(calls) \in Nat
      /\ \A k \in DOMAIN calls : calls'[k] = calls[k]
      /\ calls'[Len(calls) + 1] = c
  BY <1>1, AppendFacts DEF TypeInv
<1>3. \A k \in DOMAIN calls' : calls'[k].op = "edit" => k \in DOMAIN calls
  BY <1>1, <1>2
<1>4. \A k \in DOMAIN calls : k \in DOMAIN calls'
  BY <1>2
<1>5. ASSUME NEW i \in Items PROVE EditUnderWay(i)' <=> EditUnderWay(i)
  BY <1>2, <1>3, <1>4 DEF EditUnderWay
<1>6. ASSUME NEW i \in Items PROVE UnderWay(i)' <=> UnderWay(i)
  BY <1>5 DEF UnderWay, EditUnderWay
<1>7. ASSUME NEW i \in Items, NEW k \in DOMAIN calls', LastEdit(i, k)'
      PROVE  LastEdit(i, k) /\ calls'[k] = calls[k]
  <2>1. k \in DOMAIN calls
    BY <1>3, <1>7 DEF LastEdit
  <2>2. calls'[k] = calls[k]
    BY <2>1, <1>2
  <2> QED BY <2>1, <2>2, <1>7, <1>2, <1>4 DEF LastEdit
<1> QED BY <1>2, <1>5, <1>6, <1>7

\* The board has given this client an item.
LEMMA AddOwnSelectionStep ==
  ASSUME IInv, NEW i \in Items, AddOwnSelection(i)
  PROVE  IInv'
<1> USE DEF IInv
<1> DEFINE c == [op |-> "add", items |-> {i}, at |-> "sent"]
<1>1. /\ i \notin ToSet(selected) /\ Refresh(Append(selected, i), tool)
      /\ calls' = Append(calls, c)
      /\ astray' = IF UnderWay(i) THEN astray \cup {i} ELSE astray
      /\ UNCHANGED <<stored, copy, uploads, items, owner, wire>>
  BY DEF AddOwnSelection, boardVars
<1>2. selected \in Seq(Items) /\ Append(selected, i) \in Seq(Items) /\ tool \in Tools
  BY DEF TypeInv, PanelTyped
<1>3. PanelTyped' /\ PanelIsBound' /\ ShownIsStored'
  BY <1>1, <1>2, RefreshStep
<1>4. ToSet(selected)' = ToSet(selected) \cup {i}
  BY <1>1, <1>2, AppendSet DEF Refresh
<1>5. c \in AddCalls \cup RemoveCalls
  BY DEF AddCalls, Stages
<1> HIDE DEF c
<1>6. /\ calls' \in Seq(Calls)
      /\ \A j \in Items :
           /\ EditUnderWay(j)' <=> EditUnderWay(j)
           /\ UnderWay(j)' <=> UnderWay(j)
           /\ \A k \in DOMAIN calls' :
                LastEdit(j, k)' => LastEdit(j, k) /\ calls'[k] = calls[k]
  BY <1>1, <1>5, NoEditAppended
<1>7. TypeInv' /\ WireCurrent'
  BY <1>1, <1>3, <1>6 DEF TypeInv, IsBoard, WireCurrent
<1>8. ASSUME NEW j \in Items \ astray'
      PROVE  IF j \in ToSet(selected)'
             THEN \/ OthersNotice(j)'
                  \/ /\ EditUnderWay(j)' \/ copy'[j] = items'[j]
                     /\ \A k \in DOMAIN calls' : LastEdit(j, k)' => calls'[k].value = copy'[j]
             ELSE UnderWay(j)' \/ copy'[j] = items'[j]
  <2>1. j \notin astray /\ (j = i => ~UnderWay(i))
    BY <1>8, <1>1
  <2>2. CASE j = i
    <3>1. copy[j] = items[j]
      BY <2>1, <2>2, <1>1 DEF Pipeline
    <3>2. ~EditUnderWay(j)'
      BY <2>1, <2>2, <1>6 DEF UnderWay, EditUnderWay
    <3>3. \A k \in DOMAIN calls' : ~LastEdit(j, k)'
      BY <3>2 DEF LastEdit, EditUnderWay
    <3> QED BY <3>1, <3>3, <2>2, <1>1, <1>4
  <2>3. CASE j # i
    <3>1. j \in ToSet(selected)' <=> j \in ToSet(selected)
      BY <2>3, <1>4
    <3>2. CASE j \in ToSet(selected)
      <4>1. \/ OthersNotice(j)
            \/ /\ EditUnderWay(j) \/ copy[j] = items[j]
               /\ \A k \in DOMAIN calls : LastEdit(j, k) => calls[k].value = copy[j]
        BY <2>1, <3>2 DEF Pipeline
      <4>2. OthersNotice(j) => OthersNotice(j)'
        BY <1>1 DEF OthersNotice
      <4>3. \A k : LastEdit(j, k) => k \in DOMAIN calls
        BY DEF LastEdit
      <4> QED BY <4>1, <4>2, <4>3, <3>1, <3>2, <1>1, <1>6
    <3>3. CASE j \notin ToSet(selected)
      BY <2>1, <3>1, <3>3, <1>1, <1>6 DEF Pipeline
    <3> QED BY <3>2, <3>3
  <2> QED BY <2>2, <2>3
<1>9. Pipeline'
  BY <1>8 DEF Pipeline
<1> QED BY <1>3, <1>7, <1>9

\* This client gives its items up.
LEMMA CancelSelectionStep ==
  ASSUME IInv, CancelSelection
  PROVE  IInv'
<1> USE DEF IInv
<1> DEFINE c == [op |-> "remove", items |-> ToSet(selected), at |-> "sent"]
<1>1. /\ Refresh(<<>>, tool)
      /\ calls' = Append(calls, c)
      /\ UNCHANGED <<stored, copy, uploads, items, owner, wire, astray>>
  BY DEF CancelSelection, boardVars
<1>2. selected \in Seq(Items) /\ <<>> \in Seq(Items) /\ tool \in Tools
  BY DEF TypeInv, PanelTyped
<1>3. PanelTyped' /\ PanelIsBound' /\ ShownIsStored'
  BY <1>1, <1>2, RefreshStep
<1>4. ToSet(selected)' = {}
  BY <1>1 DEF Refresh, ToSet
<1>5. c \in AddCalls \cup RemoveCalls
  BY <1>2, InSet DEF RemoveCalls, Stages
<1> HIDE DEF c
<1>6. /\ calls' \in Seq(Calls)
      /\ \A j \in Items : UnderWay(j)' <=> UnderWay(j)
  BY <1>1, <1>5, NoEditAppended
<1>7. TypeInv' /\ WireCurrent'
  BY <1>1, <1>3, <1>6 DEF TypeInv, IsBoard, WireCurrent
<1>8. ASSUME NEW j \in Items \ astray PROVE UnderWay(j) \/ copy[j] = items[j]
  BY DEF Pipeline, OthersNotice, EditUnderWay, UnderWay
<1>9. Pipeline'
  BY <1>1, <1>4, <1>6, <1>8 DEF Pipeline
<1> QED BY <1>3, <1>7, <1>9

-----------------------------------------------------------------------------
(* The board and the other clients                                         *)

\* The panel and the copies take no part.
LEMMA BoardStep ==
  ASSUME IInv, UNCHANGED <<copy, panelVars, uploads>>, IsBoard(items)',
         calls' \in Seq(Calls), wire' \in Seq(Notices)
  PROVE  TypeInv' /\ PanelIsBound' /\ ShownIsStored'
<1> USE DEF IInv, panelVars
<1>1. TypeInv'
  BY DEF TypeInv, PanelTyped, IsBoard
<1>2. PanelIsBound' /\ ShownIsStored'
  BY DEF PanelIsBound, ShownIsStored
<1> QED BY <1>1, <1>2

\* The board has a new value for i and tells it.
LEMMA EditedOnBoard ==
  ASSUME TypeInv, WireCurrent, NEW i \in Items, NEW v \in [FieldsOf(i) -> Values],
         NEW by \in {"me", "other"}, SingleItemEdited(i, v, by)
  PROVE  /\ IsBoard(items)' /\ items'[i] = v /\ \A j \in Items : j # i => items'[j] = items[j]
         /\ wire' \in Seq(Notices) /\ WireCurrent'
         /\ \A k \in DOMAIN wire : k \in DOMAIN wire' /\ wire'[k] = wire[k]
         /\ \E k \in DOMAIN wire' : wire'[k].item = i /\ wire'[k].by = by
<1> DEFINE n == [item |-> i, value |-> v, by |-> by]
<1>1. items' = [items EXCEPT ![i] = v] /\ wire' = Append(wire, n)
  BY DEF SingleItemEdited
<1>2. n \in Notices
  <2>1. n \in [item : {i}, value : [FieldsOf(i) -> Values], by : {"me", "other"}]
    OBVIOUS
  <2> QED BY <2>1 DEF Notices
<1>3. n.item = i /\ n.value = v /\ n.by = by
  OBVIOUS
<1> HIDE DEF n
<1>4. /\ items = [j \in Items |-> items[j]]
      /\ \A j \in Items : items[j] \in [FieldsOf(j) -> Values]
  BY DEF TypeInv, IsBoard
<1>5. items'[i] = v /\ \A j \in Items : j # i => items'[j] = items[j]
  BY <1>1, <1>4
<1>6. IsBoard(items)'
  <2>1. items' = [j \in Items |-> items'[j]]
    BY <1>1, <1>4
  <2> QED BY <2>1, <1>4, <1>5 DEF IsBoard
<1>7. /\ wire' \in Seq(Notices) /\ DOMAIN wire' = 1 .. (Len(wire) + 1)
      /\ DOMAIN wire = 1 .. Len(wire) /\ Len(wire) \in Nat
      /\ \A k \in DOMAIN wire : wire'[k] = wire[k]
      /\ wire'[Len(wire) + 1] = n
  BY <1>1, <1>2, AppendFacts DEF TypeInv
<1>8. WireCurrent'
  <2> SUFFICES ASSUME NEW k \in DOMAIN wire',
                      \A j \in DOMAIN wire' : j > k => wire'[j].item # wire'[k].item
               PROVE  items'[wire'[k].item] = wire'[k].value
    BY DEF WireCurrent
  <2>1. CASE k = Len(wire) + 1
    BY <2>1, <1>3, <1>5, <1>7
  <2>2. CASE k \in DOMAIN wire
    <3>1. wire'[k] = wire[k] /\ wire[k].item # i
      <4>1. Len(wire) + 1 \in DOMAIN wire' /\ Len(wire) + 1 > k
        BY <2>2, <1>7
      <4> QED BY <4>1, <2>2, <1>3, <1>7
    <3>2. \A j \in DOMAIN wire : j > k => wire[j].item # wire[k].item
      BY <2>2, <3>1, <1>7
    <3>3. items[wire[k].item] = wire[k].value
      BY <2>2, <3>2 DEF WireCurrent
    <3>4. wire[k].item \in Items
      BY <2>2 DEF TypeInv, Notices
    <3> QED BY <3>1, <3>3, <3>4, <1>5
  <2> QED BY <2>1, <2>2, <1>7
<1>9. \E k \in DOMAIN wire' : wire'[k].item = i /\ wire'[k].by = by
  BY <1>3, <1>7
<1> QED BY <1>5, <1>6, <1>7, <1>8, <1>9

\* Another client takes an item, frees it or has an edit of it checked.
LEMMA OtherStep ==
  ASSUME IInv, NEW i \in Items, OtherTakes(i) \/ OtherFrees(i) \/ OtherChecks(i)
  PROVE  IInv'
<1> USE DEF IInv
<1>1. UNCHANGED <<copy, panelVars, uploads, calls, items, wire, astray>>
  BY DEF OtherTakes, OtherFrees, OtherChecks
<1>2. TypeInv' /\ PanelIsBound' /\ ShownIsStored'
  BY <1>1, BoardStep DEF TypeInv, IsBoard
<1>3. WireCurrent' /\ Pipeline'
  BY <1>1 DEF WireCurrent, Pipeline, OthersNotice, EditUnderWay, LastEdit, UnderWay, panelVars
<1> QED BY <1>2, <1>3

\* Another client edits an item.
LEMMA OtherEditsStep ==
  ASSUME IInv, NEW i \in Items, NEW f, NEW v \in Values, OtherEdits(i, f, v)
  PROVE  IInv'
<1> USE DEF IInv
<1> DEFINE new == [items[i] EXCEPT ![f] = v]
<1>1. /\ f \in FieldsOf(i) /\ SingleItemEdited(i, new, "other")
      /\ UNCHANGED <<copy, panelVars, uploads, calls, owner, astray>>
  BY DEF OtherEdits
<1>2. new \in [FieldsOf(i) -> Values]
  <2>1. items[i] \in [FieldsOf(i) -> Values]
    BY DEF TypeInv, IsBoard
  <2> QED BY <2>1
<1> HIDE DEF new
<1>3. /\ IsBoard(items)' /\ wire' \in Seq(Notices) /\ WireCurrent'
      /\ \A j \in Items : j # i => items'[j] = items[j]
      /\ \A k \in DOMAIN wire : k \in DOMAIN wire' /\ wire'[k] = wire[k]
      /\ \E k \in DOMAIN wire' : wire'[k].item = i /\ wire'[k].by = "other"
  BY <1>1, <1>2, EditedOnBoard
<1>4. TypeInv' /\ PanelIsBound' /\ ShownIsStored'
  BY <1>1, <1>3, BoardStep DEF TypeInv
<1>5. OthersNotice(i)' /\ UnderWay(i)'
  BY <1>3 DEF OthersNotice, UnderWay
<1>6. \A j \in Items : (OthersNotice(j) => OthersNotice(j)') /\ (UnderWay(j) => UnderWay(j)')
  BY <1>1, <1>3 DEF OthersNotice, UnderWay
<1>7. Pipeline'
  <2> SUFFICES ASSUME NEW j \in Items \ astray
               PROVE  IF j \in ToSet(selected)
                      THEN \/ OthersNotice(j)'
                           \/ /\ EditUnderWay(j) \/ copy[j] = items'[j]
                              /\ \A k \in DOMAIN calls : LastEdit(j, k) => calls[k].value = copy[j]
                      ELSE UnderWay(j)' \/ copy[j] = items'[j]
    BY <1>1 DEF Pipeline, EditUnderWay, LastEdit, panelVars
  <2> QED BY <1>3, <1>5, <1>6 DEF Pipeline
<1> QED BY <1>3, <1>4, <1>7

\* One call leaves the list, and the others keep their order.
LEMMA RemoveFacts ==
  ASSUME NEW S, NEW s \in Seq(S), NEW k \in DOMAIN s
  PROVE  /\ RemoveAt(s, k) \in Seq(S) /\ s[k] \in S
         /\ DOMAIN s = 1 .. Len(s) /\ DOMAIN RemoveAt(s, k) = 1 .. (Len(s) - 1) /\ Len(s) \in Nat
         /\ \A m \in DOMAIN RemoveAt(s, k) : RemoveAt(s, k)[m] = s[IF m < k THEN m ELSE m + 1]
         /\ \A n \in DOMAIN s : n < k => RemoveAt(s, k)[n] = s[n]
         /\ \A n \in DOMAIN s : n > k => RemoveAt(s, k)[n - 1] = s[n]
<1> DEFINE a == SubSeq(s, 1, k - 1)
           b == SubSeq(s, k + 1, Len(s))
<1>1. Len(s) \in Nat /\ k \in 1 .. Len(s) /\ DOMAIN s = 1 .. Len(s) /\ s[k] \in S
  OBVIOUS
<1>2. /\ a \in Seq(S) /\ Len(a) = k - 1 /\ \A m \in 1 .. (k - 1) : a[m] = s[m]
      /\ b \in Seq(S) /\ Len(b) = Len(s) - k /\ \A m \in 1 .. (Len(s) - k) : b[m] = s[k + m]
  <2>1. /\ a \in Seq(S) /\ Len(a) = k - 1 /\ b \in Seq(S) /\ Len(b) = Len(s) - k
    BY <1>1, SubSeqProperties
  <2>2. \A m \in 1 .. (k - 1) : a[m] = s[m]
    BY <1>1
  <2>3. \A m \in 1 .. (Len(s) - k) : b[m] = s[k + m]
    BY <1>1
  <2> QED BY <2>1, <2>2, <2>3
<1>3. RemoveAt(s, k) = a \o b
  BY DEF RemoveAt
<1> HIDE DEF a, b
<1>4. /\ DOMAIN (a \o b) = 1 .. (Len(s) - 1)
      /\ \A m \in 1 .. (k - 1) : (a \o b)[m] = s[m]
      /\ \A m \in 1 .. (Len(s) - k) : (a \o b)[(k - 1) + m] = s[k + m]
  <2>1. /\ DOMAIN (a \o b) = 1 .. (Len(a) + Len(b))
        /\ \A m \in 1 .. Len(a) : (a \o b)[m] = a[m]
        /\ \A m \in 1 .. Len(b) : (a \o b)[Len(a) + m] = b[m]
    <3>1. a \in Seq(S) /\ b \in Seq(S)
      BY <1>2
    <3> QED BY <3>1, Joined
  <2>2. (k - 1) + (Len(s) - k) = Len(s) - 1
    BY <1>1
  <2> QED BY <2>1, <2>2, <1>2
<1>5. a \o b \in Seq(S)
  BY <1>2, ConcatProperties
<1>6. ASSUME NEW m \in 1 .. (Len(s) - 1) PROVE (a \o b)[m] = s[IF m < k THEN m ELSE m + 1]
  <2>1. CASE m < k
    <3>1. m \in 1 .. (k - 1)
      BY <2>1, <1>1
    <3> QED BY <3>1, <2>1, <1>4
  <2>2. CASE ~(m < k)
    <3>1. m - (k - 1) \in 1 .. (Len(s) - k) /\ (k - 1) + (m - (k - 1)) = m /\ k + (m - (k - 1)) = m + 1
      BY <2>2, <1>1
    <3> QED BY <3>1, <2>2, <1>4
  <2> QED BY <2>1, <2>2
<1>7. ASSUME NEW n \in DOMAIN s, n > k PROVE (a \o b)[n - 1] = s[n]
  <2>1. n - 1 \in 1 .. (Len(s) - 1) /\ ~(n - 1 < k) /\ (n - 1) + 1 = n
    BY <1>1, <1>7
  <2> QED BY <2>1, <1>6
<1>8. ASSUME NEW n \in DOMAIN s, n < k PROVE (a \o b)[n] = s[n]
  <2>1. n \in 1 .. (k - 1)
    BY <1>1, <1>8
  <2> QED BY <2>1, <1>4
<1> QED BY <1>1, <1>3, <1>4, <1>5, <1>6, <1>7, <1>8

\* What is left of the edits when call number k is gone.
LEMMA CallGone ==
  ASSUME TypeInv, NEW k \in DOMAIN calls, calls' = RemoveAt(calls, k)
  PROVE  /\ calls' \in Seq(Calls) /\ calls[k] \in Calls
         /\ \A i \in Items : EditUnderWay(i)' => EditUnderWay(i)
         /\ \A i \in Items : ~(calls[k].op = "edit" /\ i \in calls[k].items) =>
              (EditUnderWay(i) => EditUnderWay(i)')
         /\ \A i \in Items :
              (calls[k].op = "edit" /\ i \in calls[k].items =>
                 \A j \in 1..k-1 : ~(calls[j].op = "edit" /\ i \in calls[j].items)) =>
              \A m \in DOMAIN calls' :
                LastEdit(i, m)' => \E n \in DOMAIN calls : LastEdit(i, n) /\ calls'[m] = calls[n]
         /\ \A i \in Items :
              calls[k].op = "edit" /\ i \in calls[k].items /\ ~EditUnderWay(i)' => LastEdit(i, k)
<1>1. calls \in Seq(Calls)
  BY DEF TypeInv
<1>2. /\ calls' \in Seq(Calls) /\ calls[k] \in Calls /\ Len(calls) \in Nat
      /\ DOMAIN calls = 1 .. Len(calls) /\ DOMAIN calls' = 1 .. (Len(calls) - 1)
      /\ \A m \in DOMAIN calls' : calls'[m] = calls[IF m < k THEN m ELSE m + 1]
      /\ \A n \in DOMAIN calls : n < k => calls'[n] = calls[n]
      /\ \A n \in DOMAIN calls : n > k => calls'[n - 1] = calls[n]
  BY <1>1, RemoveFacts
<1>3. ASSUME NEW n \in DOMAIN calls, n # k
      PROVE  \E m \in DOMAIN calls' : calls'[m] = calls[n]
  <2>1. CASE n < k
    <3>1. n \in DOMAIN calls'
      BY <2>1, <1>2
    <3> QED BY <3>1, <2>1, <1>2
  <2>2. CASE n > k
    <3>1. n - 1 \in DOMAIN calls'
      BY <2>2, <1>2
    <3> QED BY <3>1, <2>2, <1>2
  <2> QED BY <2>1, <2>2, <1>2, <1>3
<1>4. ASSUME NEW i \in Items, EditUnderWay(i)' PROVE EditUnderWay(i)
  <2>1. PICK m \in DOMAIN calls' : calls'[m].op = "edit" /\ i \in calls'[m].items
    BY <1>4 DEF EditUnderWay
  <2>2. (IF m < k THEN m ELSE m + 1) \in DOMAIN calls
    BY <1>2
  <2> QED BY <2>1, <2>2, <1>2 DEF EditUnderWay
<1>5. ASSUME NEW i \in Items, ~(calls[k].op = "edit" /\ i \in calls[k].items), EditUnderWay(i)
      PROVE  EditUnderWay(i)'
  <2>1. PICK n \in DOMAIN calls : calls[n].op = "edit" /\ i \in calls[n].items
    BY <1>5 DEF EditUnderWay
  <2>2. n # k
    BY <2>1, <1>5
  <2>3. PICK m \in DOMAIN calls' : calls'[m] = calls[n]
    BY <2>2, <1>3
  <2> QED BY <2>1, <2>3 DEF EditUnderWay
<1>6. ASSUME NEW i \in Items,
             calls[k].op = "edit" /\ i \in calls[k].items =>
               \A j \in 1..k-1 : ~(calls[j].op = "edit" /\ i \in calls[j].items),
             NEW m \in DOMAIN calls', LastEdit(i, m)'
      PROVE  \E n \in DOMAIN calls : LastEdit(i, n) /\ calls'[m] = calls[n]
  <2> DEFINE n == IF m < k THEN m ELSE m + 1
  <2>1. /\ n \in DOMAIN calls /\ calls'[m] = calls[n] /\ n \in Int /\ m \in Int /\ k \in Int
        /\ n # k /\ n >= 1 /\ (n < k => n = m) /\ (n > k => n = m + 1)
    BY <1>2
  <2> HIDE DEF n
  <2>2. /\ calls[n].op = "edit" /\ i \in calls[n].items
        /\ \A j \in DOMAIN calls' : j > m => ~(calls'[j].op = "edit" /\ i \in calls'[j].items)
    BY <2>1, <1>6 DEF LastEdit
  <2>3. ASSUME NEW j \in DOMAIN calls, j > n
        PROVE  ~(calls[j].op = "edit" /\ i \in calls[j].items)
    <3>1. CASE j < k
      <4>1. j \in DOMAIN calls' /\ j > m /\ calls'[j] = calls[j]
        BY <3>1, <2>1, <2>3, <1>2
      <4> QED BY <4>1, <2>2
    <3>2. CASE j > k
      <4>1. j - 1 \in DOMAIN calls' /\ j - 1 > m /\ calls'[j - 1] = calls[j]
        BY <3>2, <2>1, <2>3, <1>2
      <4> QED BY <4>1, <2>2
    <3>3. CASE j = k
      <4>1. n \in 1..k-1
        BY <3>3, <2>1, <2>3, <1>2
      <4>2. ~(calls[k].op = "edit" /\ i \in calls[k].items)
        BY <4>1, <2>2, <1>6
      <4> QED BY <4>2, <3>3
    <3> QED BY <3>1, <3>2, <3>3, <1>2
  <2>4. LastEdit(i, n)
    BY <2>1, <2>2, <2>3 DEF LastEdit
  <2> QED BY <2>1, <2>4
<1>7. ASSUME NEW i \in Items, calls[k].op = "edit", i \in calls[k].items, ~EditUnderWay(i)'
      PROVE  LastEdit(i, k)
  <2>1. ASSUME NEW j \in DOMAIN calls, j > k
        PROVE  ~(calls[j].op = "edit" /\ i \in calls[j].items)
    <3>1. j # k
      BY <2>1, <1>2
    <3>2. PICK m \in DOMAIN calls' : calls'[m] = calls[j]
      BY <3>1, <1>3
    <3> QED BY <3>2, <1>7 DEF EditUnderWay
  <2> QED BY <2>1, <1>7 DEF LastEdit
<1> QED BY <1>2, <1>4, <1>5, <1>6, <1>7

\* A call goes on from one stage to the next.
LEMMA CallGoesOn ==
  ASSUME IInv, NEW k \in DOMAIN calls, NEW stage \in Stages,
         calls' = [calls EXCEPT ![k].at = stage],
         UNCHANGED <<copy, panelVars, uploads, items, wire, astray>>
  PROVE  IInv'
<1> USE DEF IInv
<1>1. calls \in Seq(Calls) /\ calls[k] \in Calls
  BY DEF TypeInv
<1>2. calls' = [calls EXCEPT ![k] = [calls[k] EXCEPT !.at = stage]]
  OBVIOUS
<1> DEFINE c == [calls[k] EXCEPT !.at = stage]
<1>3. /\ c \in Calls /\ c.op = calls[k].op /\ c.items = calls[k].items
      /\ calls[k].op = "edit" => c.value = calls[k].value
  <2>1. CASE calls[k] \in AddCalls
    BY <2>1 DEF AddCalls, Calls
  <2>2. CASE calls[k] \in RemoveCalls
    BY <2>2 DEF RemoveCalls, Calls
  <2>3. CASE calls[k] \in EditCalls
    <3>1. PICK i \in Items :
            calls[k] \in [op : {"edit"}, items : {{i}}, value : [FieldsOf(i) -> Values], at : Stages]
      BY <2>3 DEF EditCalls
    <3>2. c \in [op : {"edit"}, items : {{i}}, value : [FieldsOf(i) -> Values], at : Stages]
      BY <3>1
    <3> QED BY <3>1, <3>2 DEF EditCalls, Calls
  <2> QED BY <2>1, <2>2, <2>3, <1>1 DEF Calls
<1> HIDE DEF c
<1>4. /\ calls' \in Seq(Calls) /\ DOMAIN calls' = DOMAIN calls
      /\ \A j \in DOMAIN calls : calls'[j] = IF j = k THEN c ELSE calls[j]
  BY <1>1, <1>2, <1>3 DEF c
<1>5. \A j \in DOMAIN calls : /\ calls'[j].op = calls[j].op /\ calls'[j].items = calls[j].items
                              /\ calls[j].op = "edit" => calls'[j].value = calls[j].value
  BY <1>3, <1>4
<1>6. TypeInv' /\ PanelIsBound' /\ ShownIsStored'
  BY <1>4, BoardStep DEF TypeInv, IsBoard
<1>7. WireCurrent'
  BY DEF WireCurrent
<1>8. ASSUME NEW i \in Items
      PROVE  /\ EditUnderWay(i) => EditUnderWay(i)'
             /\ UnderWay(i) => UnderWay(i)'
             /\ OthersNotice(i) => OthersNotice(i)'
             /\ \A j \in DOMAIN calls' :
                  LastEdit(i, j)' => LastEdit(i, j) /\ calls'[j].value = calls[j].value
  <2>1. EditUnderWay(i) => EditUnderWay(i)'
    BY <1>4, <1>5 DEF EditUnderWay
  <2>2. UnderWay(i) => UnderWay(i)'
    BY <1>4, <1>5 DEF UnderWay
  <2>3. OthersNotice(i) => OthersNotice(i)'
    BY DEF OthersNotice
  <2>4. ASSUME NEW j \in DOMAIN calls', LastEdit(i, j)'
        PROVE  LastEdit(i, j) /\ calls'[j].value = calls[j].value
    BY <2>4, <1>4, <1>5 DEF LastEdit
  <2> QED BY <2>1, <2>2, <2>3, <2>4
<1>9. selected' = selected /\ copy' = copy /\ items' = items /\ astray' = astray
  BY DEF panelVars
<1>10. Pipeline'
  <2> SUFFICES ASSUME NEW i \in Items \ astray
               PROVE  IF i \in ToSet(selected)
                      THEN \/ OthersNotice(i)'
                           \/ /\ EditUnderWay(i)' \/ copy[i] = items[i]
                              /\ \A j \in DOMAIN calls' : LastEdit(i, j)' => calls'[j].value = copy[i]
                      ELSE UnderWay(i)' \/ copy[i] = items[i]
    BY <1>9 DEF Pipeline
  <2> QED BY <1>4, <1>8 DEF Pipeline
<1> QED BY <1>6, <1>7, <1>10

\* A worker begins a call.
LEMMA BeginStep ==
  ASSUME IInv, NEW k \in DOMAIN calls, Begin(k)
  PROVE  IInv'
BY CallGoesOn DEF Begin, boardVars, Stages

\* The calls that are left are those of the items that are not astray.
LEMMA CallGivenUp ==
  ASSUME IInv, NEW k \in DOMAIN calls, calls' = RemoveAt(calls, k),
         calls[k].op = "edit" => astray' = astray \cup calls[k].items,
         calls[k].op # "edit" => astray' = astray,
         UNCHANGED <<copy, panelVars, uploads, items, wire>>
  PROVE  IInv'
<1> USE DEF IInv
<1>1. /\ calls' \in Seq(Calls)
      /\ \A i \in Items : ~(calls[k].op = "edit" /\ i \in calls[k].items) =>
           (EditUnderWay(i) => EditUnderWay(i)')
      /\ \A i \in Items : ~(calls[k].op = "edit" /\ i \in calls[k].items) =>
           \A m \in DOMAIN calls' :
             LastEdit(i, m)' => \E n \in DOMAIN calls : LastEdit(i, n) /\ calls'[m] = calls[n]
  BY CallGone
<1>2. TypeInv' /\ PanelIsBound' /\ ShownIsStored'
  BY <1>1, BoardStep DEF TypeInv, IsBoard
<1>3. WireCurrent'
  BY DEF WireCurrent
<1>4. \A i \in Items \ astray' : i \notin astray /\ ~(calls[k].op = "edit" /\ i \in calls[k].items)
  OBVIOUS
<1>5. ASSUME NEW i \in Items \ astray', UnderWay(i) PROVE UnderWay(i)'
  BY <1>1, <1>4, <1>5 DEF UnderWay, EditUnderWay
<1>6. selected' = selected /\ copy' = copy /\ items' = items /\ wire' = wire
  BY DEF panelVars
<1>7. Pipeline'
  <2> SUFFICES ASSUME NEW i \in Items \ astray'
               PROVE  IF i \in ToSet(selected)
                      THEN \/ OthersNotice(i)
                           \/ /\ EditUnderWay(i)' \/ copy[i] = items[i]
                              /\ \A m \in DOMAIN calls' : LastEdit(i, m)' => calls'[m].value = copy[i]
                      ELSE UnderWay(i)' \/ copy[i] = items[i]
    BY <1>6 DEF Pipeline, OthersNotice
  <2>1. i \in Items \ astray /\ ~(calls[k].op = "edit" /\ i \in calls[k].items)
    BY <1>4
  <2>2. /\ EditUnderWay(i) => EditUnderWay(i)'
        /\ \A m \in DOMAIN calls' :
             LastEdit(i, m)' => \E n \in DOMAIN calls : LastEdit(i, n) /\ calls'[m] = calls[n]
    BY <2>1, <1>1
  <2> QED BY <2>1, <2>2, <1>5 DEF Pipeline
<1> QED BY <1>2, <1>3, <1>7

\* The board looks whose the item is; what it refuses goes astray.
LEMMA CheckEditStep ==
  ASSUME IInv, NEW k \in DOMAIN calls, CheckEdit(k)
  PROVE  IInv'
<1>1. /\ calls[k].op = "edit"
      /\ \/ calls' = [calls EXCEPT ![k].at = "checked"] /\ UNCHANGED astray
         \/ calls' = RemoveAt(calls, k) /\ astray' = astray \cup calls[k].items
      /\ UNCHANGED <<copy, panelVars, uploads, items, wire>>
  BY DEF CheckEdit, boardVars
<1>2. CASE calls' = [calls EXCEPT ![k].at = "checked"] /\ UNCHANGED astray
  BY <1>1, <1>2, CallGoesOn DEF Stages
<1>3. CASE calls' = RemoveAt(calls, k) /\ astray' = astray \cup calls[k].items
  BY <1>1, <1>3, CallGivenUp
<1> QED BY <1>1, <1>2, <1>3

\* The board stores the edit; the item goes astray if an earlier one is still
\* to be stored.
LEMMA HandleEditStep ==
  ASSUME IInv, NEW k \in DOMAIN calls, calls' = RemoveAt(calls, k), calls[k].op = "edit",
         HandleEdit(k), UNCHANGED <<copy, panelVars, uploads>>
  PROVE  IInv'
<1> USE DEF IInv
<1> DEFINE c == calls[k]
<1>1. /\ calls' \in Seq(Calls) /\ c \in Calls
      /\ \A i \in Items : i \notin c.items => (EditUnderWay(i) => EditUnderWay(i)')
      /\ \A i \in Items :
           (i \in c.items => \A j \in 1..k-1 : ~(calls[j].op = "edit" /\ i \in calls[j].items)) =>
           \A m \in DOMAIN calls' :
             LastEdit(i, m)' => \E n \in DOMAIN calls : LastEdit(i, n) /\ calls'[m] = calls[n]
      /\ \A i \in Items : i \in c.items /\ ~EditUnderWay(i)' => LastEdit(i, k)
  BY CallGone
<1>2. PICK i \in Items : c.items = {i} /\ c.value \in [FieldsOf(i) -> Values]
  <2>1. c \in EditCalls
    BY <1>1 DEF Calls, AddCalls, RemoveCalls
  <2> QED BY <2>1 DEF EditCalls
<1>3. selected' = selected /\ copy' = copy
  BY DEF panelVars
<1>4. /\ SingleItemEdited(i, c.value, "me")
      /\ astray' = IF Overtakes(k) THEN astray \cup {i} ELSE astray
  BY <1>2 DEF HandleEdit
<1>5. /\ IsBoard(items)' /\ items'[i] = c.value /\ \A j \in Items : j # i => items'[j] = items[j]
      /\ wire' \in Seq(Notices) /\ WireCurrent'
      /\ \A m \in DOMAIN wire : m \in DOMAIN wire' /\ wire'[m] = wire[m]
      /\ \E m \in DOMAIN wire' : wire'[m].item = i
  BY <1>4, <1>2, EditedOnBoard
<1>6. TypeInv' /\ PanelIsBound' /\ ShownIsStored'
  BY <1>5, <1>1, BoardStep
<1>7. UnderWay(i)'
  BY <1>5 DEF UnderWay
<1>8. \A j \in Items : OthersNotice(j) => OthersNotice(j)'
  BY <1>5 DEF OthersNotice
<1>9. ASSUME NEW j \in Items, j # i, UnderWay(j) PROVE UnderWay(j)'
  BY <1>5, <1>9, <1>1, <1>2 DEF UnderWay, EditUnderWay
<1>10. ASSUME i \notin astray', NEW j \in 1..k-1
       PROVE  ~(calls[j].op = "edit" /\ i \in calls[j].items)
  <2>1. ~Overtakes(k)
    BY <1>4, <1>10
  <2>2. j \in DOMAIN calls /\ calls[j] \in Calls
    BY <1>10 DEF TypeInv
  <2>3. ASSUME calls[j].op = "edit", i \in calls[j].items PROVE calls[j].items = {i}
    <3>1. calls[j] \in EditCalls
      BY <2>2, <2>3 DEF Calls, AddCalls, RemoveCalls
    <3> QED BY <3>1, <2>3 DEF EditCalls
  <2> QED BY <2>1, <2>3, <1>2, <1>10 DEF Overtakes
<1>11. Pipeline'
  <2> SUFFICES ASSUME NEW j \in Items \ astray'
               PROVE  IF j \in ToSet(selected)
                      THEN \/ OthersNotice(j)'
                           \/ /\ EditUnderWay(j)' \/ copy[j] = items'[j]
                              /\ \A m \in DOMAIN calls' : LastEdit(j, m)' => calls'[m].value = copy[j]
                      ELSE UnderWay(j)' \/ copy[j] = items'[j]
    BY <1>3 DEF Pipeline
  <2>1. j \in Items \ astray
    BY <1>4
  <2>2. CASE j \notin ToSet(selected)
    BY <2>1, <2>2, <1>5, <1>7, <1>9 DEF Pipeline
  <2>3. CASE j \in ToSet(selected) /\ OthersNotice(j)
    BY <2>3, <1>8
  <2>4. CASE j \in ToSet(selected) /\ ~OthersNotice(j)
    <3>1. /\ EditUnderWay(j) \/ copy[j] = items[j]
          /\ \A m \in DOMAIN calls : LastEdit(j, m) => calls[m].value = copy[j]
      BY <2>1, <2>4 DEF Pipeline
    <3>2. \A m \in DOMAIN calls' : LastEdit(j, m)' => \E n \in DOMAIN calls : LastEdit(j, n) /\ calls'[m] = calls[n]
      <4>1. j \in c.items => \A n \in 1..k-1 : ~(calls[n].op = "edit" /\ j \in calls[n].items)
        BY <1>2, <1>10
      <4> QED BY <4>1, <1>1
    <3>3. \A m \in DOMAIN calls' : LastEdit(j, m)' => calls'[m].value = copy[j]
      BY <3>1, <3>2
    <3>4. EditUnderWay(j)' \/ copy[j] = items'[j]
      <4>1. CASE j = i /\ ~EditUnderWay(j)'
        <5>1. LastEdit(i, k)
          BY <4>1, <1>1, <1>2
        <5> QED BY <5>1, <4>1, <3>1, <1>5
      <4>2. CASE j # i
        BY <4>2, <3>1, <1>1, <1>2, <1>5
      <4> QED BY <4>1, <4>2
    <3> QED BY <3>3, <3>4, <2>4
  <2> QED BY <2>2, <2>3, <2>4
<1> QED BY <1>5, <1>6, <1>11

\* A call has its effect.
LEMMA HandleStep ==
  ASSUME IInv, NEW k \in DOMAIN calls, Handle(k)
  PROVE  IInv'
<1>1. /\ calls' = RemoveAt(calls, k)
      /\ \/ calls[k].op = "edit" /\ HandleEdit(k)
         \/ calls[k].op \in {"add", "remove"} /\ UNCHANGED <<items, wire, astray>>
      /\ UNCHANGED <<copy, panelVars, uploads>>
  BY DEF Handle, HandleAdd, HandleRemove
<1>2. CASE calls[k].op = "edit" /\ HandleEdit(k)
  BY <1>1, <1>2, HandleEditStep
<1>3. CASE calls[k].op \in {"add", "remove"} /\ UNCHANGED <<items, wire, astray>>
  BY <1>1, <1>3, CallGivenUp
<1> QED BY <1>1, <1>2, <1>3

\* This client hears the next notice.
LEMMA HearStep ==
  ASSUME IInv, Hear
  PROVE  IInv'
<1> USE DEF IInv
<1> DEFINE n == Head(wire)
<1>1. /\ wire # <<>> /\ wire' = Tail(wire) /\ HearEdit(n)
      /\ UNCHANGED <<selected, current, tool, stored, panel, inputs, uploads, calls, items>>
  BY DEF Hear, panelVars
<1>2. /\ wire' \in Seq(Notices) /\ n \in Notices /\ n = wire[1] /\ 1 \in DOMAIN wire
      /\ \A k \in DOMAIN wire' : k + 1 \in DOMAIN wire /\ wire'[k] = wire[k + 1]
      /\ \A k \in DOMAIN wire : k # 1 => k - 1 \in DOMAIN wire' /\ wire'[k - 1] = wire[k]
  BY <1>1, TailFacts DEF TypeInv
<1>3. PICK i \in Items : /\ n.item = i /\ n.value \in [FieldsOf(i) -> Values]
                         /\ n.by \in {"me", "other"}
  BY <1>2 DEF Notices
<1>4. DOMAIN wire \subseteq Int /\ DOMAIN wire' \subseteq Int /\ \A k \in DOMAIN wire : k >= 1
  BY <1>2 DEF TypeInv
<1> HIDE DEF n
<1>5. WireCurrent'
  <2> SUFFICES ASSUME NEW k \in DOMAIN wire',
                      \A j \in DOMAIN wire' : j > k => wire'[j].item # wire'[k].item
               PROVE  items[wire'[k].item] = wire'[k].value
    BY <1>1 DEF WireCurrent
  <2>1. k + 1 \in DOMAIN wire /\ wire'[k] = wire[k + 1] /\ k \in Int /\ k >= 1
    <3>1. k + 1 \in DOMAIN wire /\ wire'[k] = wire[k + 1] /\ k \in Int
      BY <1>2, <1>4
    <3>2. k >= 1
      BY <1>2 DEF TypeInv
    <3> QED BY <3>1, <3>2
  <2>2. ASSUME NEW j \in DOMAIN wire, j > k + 1 PROVE wire[j].item # wire[k + 1].item
    <3>1. j # 1 /\ j - 1 > k
      BY <2>1, <2>2, <1>4
    <3> QED BY <3>1, <2>1, <1>2
  <2> QED BY <2>1, <2>2 DEF WireCurrent
<1>6. (\A k \in DOMAIN wire' : wire'[k].item # i) => items[i] = n.value
  <2> SUFFICES ASSUME \A k \in DOMAIN wire' : wire'[k].item # i PROVE items[i] = n.value
    OBVIOUS
  <2>1. ASSUME NEW j \in DOMAIN wire, j > 1 PROVE wire[j].item # wire[1].item
    <3>1. j # 1
      BY <2>1
    <3> QED BY <3>1, <1>2, <1>3
  <2> QED BY <2>1, <1>2, <1>3 DEF WireCurrent
<1>7. ASSUME NEW j \in Items, j # i PROVE (UnderWay(j) => UnderWay(j)') /\ (OthersNotice(j) => OthersNotice(j)')
  <2>1. ASSUME NEW k \in DOMAIN wire, wire[k].item = j
        PROVE  \E m \in DOMAIN wire' : wire'[m] = wire[k]
    <3>1. k # 1
      BY <2>1, <1>7, <1>2, <1>3
    <3> QED BY <3>1, <2>1, <1>2
  <2>2. UnderWay(j) => UnderWay(j)'
    BY <2>1, <1>1 DEF UnderWay
  <2>3. OthersNotice(j) => OthersNotice(j)'
    BY <2>1 DEF OthersNotice
  <2> QED BY <2>2, <2>3
<1>8. CASE i \in ToSet(selected)
  <2>1. /\ astray' = IF n.by = "other" THEN astray \cup {i} ELSE astray
        /\ copy' = copy
    BY <1>1, <1>3, <1>8 DEF HearEdit
  <2>2. TypeInv' /\ PanelIsBound' /\ ShownIsStored'
    BY <2>1, <1>1, <1>2 DEF TypeInv, PanelTyped, IsBoard, PanelIsBound, ShownIsStored
  <2>3. n.by = "me" /\ OthersNotice(i) => OthersNotice(i)'
    <3> SUFFICES ASSUME n.by = "me", NEW k \in DOMAIN wire, wire[k].item = i, wire[k].by = "other"
                 PROVE  OthersNotice(i)'
      BY DEF OthersNotice
    <3>1. k # 1
      BY <1>2
    <3> QED BY <3>1, <1>2 DEF OthersNotice
  <2>4. Pipeline'
    <3> SUFFICES ASSUME NEW j \in Items \ astray, n.by = "other" => j # i
                 PROVE  IF j \in ToSet(selected)
                        THEN \/ OthersNotice(j)'
                             \/ /\ EditUnderWay(j) \/ copy[j] = items[j]
                                /\ \A k \in DOMAIN calls : LastEdit(j, k) => calls[k].value = copy[j]
                        ELSE UnderWay(j)' \/ copy[j] = items[j]
      BY <2>1, <1>1 DEF Pipeline, EditUnderWay, LastEdit
    <3>1. CASE j = i
      BY <3>1, <1>8, <1>3, <2>3 DEF Pipeline
    <3>2. CASE j # i
      BY <3>2, <1>7 DEF Pipeline
    <3> QED BY <3>1, <3>2
  <2> QED BY <2>2, <2>4, <1>5
<1>9. CASE i \notin ToSet(selected)
  <2>1. copy' = [copy EXCEPT ![i] = n.value] /\ astray' = astray \ {i}
    BY <1>1, <1>3, <1>9 DEF HearEdit
  <2>2. /\ copy = [j \in Items |-> copy[j]]
        /\ \A j \in Items : copy[j] \in [FieldsOf(j) -> Values]
    BY DEF TypeInv, IsBoard
  <2>3. copy'[i] = n.value /\ \A j \in Items : j # i => copy'[j] = copy[j]
    BY <2>1, <2>2
  <2>4. IsBoard(copy)'
    <3>1. copy' = [j \in Items |-> copy'[j]]
      BY <2>1, <2>2
    <3> QED BY <3>1, <2>2, <2>3, <1>3 DEF IsBoard
  <2>5. TypeInv'
    BY <2>4, <1>1, <1>2 DEF TypeInv, PanelTyped, IsBoard
  <2>6. PanelIsBound'
    BY <1>1 DEF PanelIsBound
  <2>7. ShownIsStored'
    <3>1. CASE panel \in Tools
      BY <3>1, <1>1 DEF ShownIsStored
    <3>2. CASE panel \notin Tools
      <4>1. selected[1] \in ToSet(selected) /\ selected[1] \in Items
        BY <3>2, SchemaOfList, InSet DEF TypeInv, PanelTyped
      <4>2. copy'[selected[1]] = copy[selected[1]]
        BY <4>1, <2>3, <1>9
      <4> QED BY <4>2, <1>1 DEF ShownIsStored
    <3> QED BY <3>1, <3>2
  <2>8. UnderWay(i)' \/ copy'[i] = items[i]
    BY <1>6, <2>3 DEF UnderWay
  <2>9. Pipeline'
    <3> SUFFICES ASSUME NEW j \in Items \ astray'
                 PROVE  IF j \in ToSet(selected)
                        THEN \/ OthersNotice(j)'
                             \/ /\ EditUnderWay(j) \/ copy'[j] = items[j]
                                /\ \A k \in DOMAIN calls : LastEdit(j, k) => calls[k].value = copy'[j]
                        ELSE UnderWay(j)' \/ copy'[j] = items[j]
      BY <1>1 DEF Pipeline, EditUnderWay, LastEdit
    <3>1. CASE j = i
      BY <3>1, <1>9, <2>8
    <3>2. CASE j # i
      BY <3>2, <1>7, <2>1, <2>3 DEF Pipeline
    <3> QED BY <3>1, <3>2
  <2> QED BY <2>5, <2>6, <2>7, <2>9, <1>5
<1> QED BY <1>8, <1>9

-----------------------------------------------------------------------------
(* The theorems                                                            *)

\* The invariant holds at the beginning,
LEMMA EditingInit == Init => IInv
<1> SUFFICES ASSUME Init PROVE IInv
  OBVIOUS
<1>1. IsBoard(copy) /\ items = copy /\ calls = <<>> /\ wire = <<>>
  BY DEF Init, IsBoard
<1>2. /\ selected = <<>> /\ current = <<>> /\ tool = "none" /\ panel = "none" /\ uploads = <<>>
      /\ stored = [t \in Tools |-> [f \in Schemas[t] |-> Default]]
      /\ inputs = [s \in DOMAIN Schemas |-> [f \in Schemas[s] |-> Default]]
  BY DEF Init
<1>3. SchemaFor(<<>>, "none") = "none" /\ "none" \in Tools
  BY SchemaNames DEF SchemaFor
<1>4. /\ \A t \in Tools : stored[t] \in [Schemas[t] -> Values]
      /\ \A s \in DOMAIN Schemas : inputs[s] \in [Schemas[s] -> Val]
      /\ stored = [t \in Tools |-> stored[t]] /\ inputs = [s \in DOMAIN Schemas |-> inputs[s]]
  BY <1>2 DEF Val
<1>5. PanelTyped
  BY <1>2, <1>3, <1>4 DEF PanelTyped
<1>6. TypeInv
  BY <1>1, <1>5 DEF TypeInv, IsBoard
<1>7. PanelIsBound /\ ShownIsStored
  BY <1>2, SchemaNames DEF PanelIsBound, ShownIsStored
<1>8. ToSet(selected) = {}
  BY <1>2 DEF ToSet
<1>9. WireCurrent /\ Pipeline
  BY <1>1, <1>8 DEF WireCurrent, Pipeline
<1> QED BY <1>6, <1>7, <1>9 DEF IInv

\* and every step keeps it.
LEMMA EditingStep == IInv /\ [Next]_vars => IInv'
<1> SUFFICES ASSUME IInv, [Next]_vars PROVE IInv'
  OBVIOUS
<1>1. CASE \E t \in Tools : ChooseTool(t)
  BY <1>1, ChooseToolStep
<1>2. CASE \E f \in UNION {Schemas[s] : s \in DOMAIN Schemas}, v \in Values \cup {Invalid} :
             TypeIn(f, v)
  BY <1>2, TypeInStep DEF Val
<1>3. CASE \E f \in UNION {Schemas[s] : s \in DOMAIN Schemas}, v \in Values : TypeInTwin(f, v)
  BY <1>3, TypeInTwinStep
<1>4. CASE \E f \in UNION {Schemas[s] : s \in DOMAIN Schemas}, i \in Items, v \in Values :
             OtherEdits(i, f, v)
  BY <1>4, OtherEditsStep
<1>5. CASE \E v \in Values : BeginUpload(v)
  BY <1>5, BeginUploadStep
<1>6. CASE \E k \in DOMAIN uploads : EndUpload(k)
  BY <1>6, EndUploadStep
<1>7. CASE \E i \in Items : AddOwnSelection(i)
  BY <1>7, AddOwnSelectionStep
<1>8. CASE \E i \in Items : OtherTakes(i) \/ OtherFrees(i) \/ OtherChecks(i)
  BY <1>8, OtherStep
<1>9. CASE CancelSelection
  BY <1>9, CancelSelectionStep
<1>10. CASE \E k \in DOMAIN calls : Begin(k) \/ CheckEdit(k) \/ Handle(k)
  BY <1>10, BeginStep, CheckEditStep, HandleStep
<1>11. CASE Hear
  BY <1>11, HearStep
<1>12. CASE UNCHANGED vars
  BY <1>12 DEF vars, panelVars, boardVars, IInv, TypeInv, PanelTyped, IsBoard, PanelIsBound,
       ShownIsStored, WireCurrent, Pipeline, OthersNotice, EditUnderWay, LastEdit, UnderWay
<1> QED BY <1>1, <1>2, <1>3, <1>4, <1>5, <1>6, <1>7, <1>8, <1>9, <1>10, <1>11, <1>12 DEF Next

\* Editing keeps the whole invariant.
THEOREM EditingSound == Spec => []IInv
<1>1. Init => IInv
  BY EditingInit
<1>2. IInv /\ [Next]_vars => IInv'
  BY EditingStep
<1> QED BY <1>1, <1>2, PTL DEF Spec

\* What is typed in the fields of an item goes to the items selected now, never
\* to those that were selected when the panel was first shown (bindEntries of
\* propertiesState).
THEOREM PanelBound == Spec => []PanelIsBound
<1>1. IInv => PanelIsBound
  BY DEF IInv
<1> QED BY <1>1, EditingSound, PTL

\* The panel never shows a value its store does not hold: no upload, no edit
\* of another client and no change of the selection or of the tool leaves an
\* input behind.
THEOREM InputsShowStore == Spec => []ShownIsStored
<1>1. IInv => ShownIsStored
  BY DEF IInv
<1> QED BY <1>1, EditingSound, PTL

\* Once all calls are handled, by any number of workers in any order, and all
\* notifications heard, the items of this client are those of the board, but
\* for those that went astray.
THEOREM CopiesFollow == Spec => []CopiesAgree
<1>1. IInv => CopiesAgree
  <2> SUFFICES ASSUME IInv, calls = <<>>, wire = <<>>, NEW i \in Items \ astray
               PROVE  copy[i] = items[i]
    BY DEF CopiesAgree, Rest
  <2>1. ~UnderWay(i) /\ ~EditUnderWay(i) /\ ~OthersNotice(i)
    BY DEF UnderWay, EditUnderWay, OthersNotice
  <2> QED BY <2>1 DEF IInv, Pipeline
<1> QED BY <1>1, EditingSound, PTL
=============================================================================
