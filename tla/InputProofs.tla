---------------------------- MODULE InputProofs ----------------------------
(***************************************************************************)
(* The safety properties of Input for any number of pointers, gestures,    *)
(* clicks and answers, and any selection of tools.                         *)
(*                                                                         *)
(* Two invariants, over state that hardly meets: Places, what became of    *)
(* every gesture, and Tooling, what the tools, their completions and the   *)
(* tool state say of each other.  Tooling needs of Places only which tools *)
(* a dragged gesture may have.                                             *)
(***************************************************************************)
EXTENDS Input, SequenceTheorems, TLAPS

AllTools == DragTools \cup ClickTools
Creating == {"pen", "line", "shape", "polygon", "text"}
Numbers  == Nat \ {0}

GestureRecords == [pointer : Pointers, phase : {"peek", "press", "drag", "done"},
                   tool : AllTools \cup {Nobody}]
ItemRecords == [tool : AllTools, points : SUBSET Numbers, by : Nat]
CallRecords == [tool : AllTools, gesture : Numbers]

TypeOK ==
  /\ gestures \in Seq(GestureRecords)
  /\ current \in [Pointers -> Nat]
  /\ \A p \in Pointers : current[p] # 0 => current[p] \in DOMAIN gestures
  /\ builder \subseteq Numbers /\ items \subseteq ItemRecords
  /\ calls \subseteq CallRecords

Uses(i, g) == g \in i.points \cup {i.by}

Done(g) == g \in DOMAIN gestures /\ gestures[g].phase = "done"

Free(g) ==
  /\ g \notin builder
  /\ \A i \in items : ~Uses(i, g)
  /\ \A c \in calls : c.gesture # g

\* A gesture is in one place at most, and in none before it is done.
Separate ==
  /\ \A g \in Numbers : ~Done(g) => Free(g)
  /\ \A g \in Numbers : \A i, j \in items : Uses(i, g) /\ Uses(j, g) => i = j
  /\ \A g \in builder : \A i \in items : ~Uses(i, g)
  /\ \A c \in calls : c.gesture \notin builder /\ \A i \in items : ~Uses(i, c.gesture)
  /\ \A c, d \in calls : c.gesture = d.gesture => c = d

Kept == \A g \in DOMAIN gestures :
          gestures[g].phase = "done" /\ gestures[g].tool \in Creating => ~Free(g)

DragsFit == \A g \in DOMAIN gestures :
              gestures[g].phase = "drag" => gestures[g].tool \in DragTools \cup {Nobody}

-----------------------------------------------------------------------------
(* Sequences of filters                                                    *)

Distinct(s) == \A j, k \in DOMAIN s : s[j] = s[k] => j = k

LEMMA RemoveFirstType ==
  ASSUME NEW S, NEW s \in Seq(S), NEW e, Distinct(s)
  PROVE  /\ RemoveFirst(s, e) \in Seq(S)
         /\ Distinct(RemoveFirst(s, e))
         /\ ToSet(RemoveFirst(s, e)) = ToSet(s) \ {e}
<1>1. CASE \A i \in 1 .. Len(s) : s[i] # e
  <2>1. RemoveFirst(s, e) = s
    BY <1>1 DEF RemoveFirst
  <2> QED BY <2>1, <1>1 DEF ToSet
<1>2. CASE \E i \in 1 .. Len(s) : s[i] = e
  <2>1. PICK k \in 1 .. Len(s) : s[k] = e
    BY <1>2
  <2>2. {i \in 1 .. Len(s) : s[i] = e} = {k}
    BY <2>1 DEF Distinct
  <2>3. SelectInSeq(s, LAMBDA v : v = e) = k
    BY <2>2 DEF SelectInSeq, Min
  <2>4. RemoveFirst(s, e) = RemoveAt(s, k)
    BY <1>2, <2>3 DEF RemoveFirst
  <2> DEFINE r == RemoveAt(s, k)
  <2>5. /\ r \in Seq(S) /\ Len(r) = Len(s) - 1
        /\ \A i \in 1 .. Len(s) - 1 : r[i] = IF i < k THEN s[i] ELSE s[i + 1]
    <3> DEFINE x == SubSeq(s, 1, k - 1)
               y == SubSeq(s, k + 1, Len(s))
    <3>1. /\ x \in Seq(S) /\ Len(x) = k - 1
          /\ \A i \in 1 .. k - 1 : x[i] = s[i]
      BY <2>1
    <3>2. /\ y \in Seq(S) /\ Len(y) = Len(s) - k
          /\ \A i \in 1 .. Len(s) - k : y[i] = s[i + k]
      BY <2>1
    <3>3. r = x \o y
      BY DEF RemoveAt
    <3> HIDE DEF x, y, r
    <3>4. r \in Seq(S) /\ Len(r) = Len(s) - 1
      BY <3>1, <3>2, <3>3, <2>1
    <3>5. ASSUME NEW i \in 1 .. Len(s) - 1 PROVE r[i] = IF i < k THEN s[i] ELSE s[i + 1]
      <4>1. CASE i < k
        BY <4>1, <3>1, <3>2, <3>3, <2>1
      <4>2. CASE ~(i < k)
        <5>1. i - (k - 1) \in 1 .. Len(s) - k
          BY <4>2, <2>1
        <5>2. r[i] = y[i - (k - 1)]
          BY <5>1, <4>2, <3>1, <3>2, <3>3, <2>1
        <5>3. y[i - (k - 1)] = s[i - (k - 1) + k]
          BY <5>1, <3>2
        <5>4. i - (k - 1) + k = i + 1
          BY <2>1
        <5> QED BY <5>2, <5>3, <5>4, <4>2
      <4> QED BY <4>1, <4>2
    <3> QED BY <3>4, <3>5
  <2> HIDE DEF r
  <2>6. Distinct(r)
    <3> SUFFICES ASSUME NEW i \in DOMAIN r, NEW j \in DOMAIN r, r[i] = r[j] PROVE i = j
      BY DEF Distinct
    <3>1. i \in 1 .. Len(s) - 1 /\ j \in 1 .. Len(s) - 1
      BY <2>5
    <3>2. PICK a \in 1 .. Len(s) : r[i] = s[a] /\ a = IF i < k THEN i ELSE i + 1
      BY <3>1, <2>5, <2>1
    <3>3. PICK b \in 1 .. Len(s) : r[j] = s[b] /\ b = IF j < k THEN j ELSE j + 1
      BY <3>1, <2>5, <2>1
    <3>4. a = b
      <4>1. s[a] = s[b]
        BY <3>2, <3>3
      <4>2. DOMAIN s = 1 .. Len(s)
        OBVIOUS
      <4> QED BY <4>1, <4>2 DEF Distinct
    <3> QED BY <3>1, <3>2, <3>3, <3>4, <2>1
  <2>7. ToSet(r) = ToSet(s) \ {e}
    <3>1. ASSUME NEW x \in ToSet(r) PROVE x \in ToSet(s) \ {e}
      <4>1. PICK i \in 1 .. Len(s) - 1 : x = r[i]
        BY <3>1, <2>5 DEF ToSet
      <4> QED BY <4>1, <2>5, <2>1 DEF ToSet, Distinct
    <3>2. ASSUME NEW x \in ToSet(s) \ {e} PROVE x \in ToSet(r)
      <4>1. PICK i \in 1 .. Len(s) : x = s[i] /\ i # k
        BY <3>2, <2>1 DEF ToSet
      <4>2. CASE i < k
        <5>1. i \in DOMAIN r /\ r[i] = s[i]
          BY <4>1, <4>2, <2>5, <2>1
        <5> QED BY <5>1, <4>1 DEF ToSet
      <4>3. CASE i > k
        <5>1. i - 1 \in DOMAIN r /\ r[i - 1] = s[i]
          BY <4>1, <4>3, <2>5, <2>1
        <5> QED BY <5>1, <4>1 DEF ToSet
      <4> QED BY <4>1, <4>2, <4>3, <2>1
    <3> QED BY <3>1, <3>2
  <2> QED BY <2>4, <2>5, <2>6, <2>7 DEF r
<1> QED BY <1>1, <1>2
-----------------------------------------------------------------------------
(* What becomes of a gesture                                               *)

LEMMA DecideEffect ==
  ASSUME TypeOK, NEW g \in DOMAIN gestures, NEW phase \in {"peek", "press", "drag", "done"},
         NEW t \in AllTools \cup {Nobody}, Decide(g, phase, t)
  PROVE  /\ gestures' \in Seq(GestureRecords) /\ DOMAIN gestures' = DOMAIN gestures
         /\ gestures'[g].phase = phase /\ gestures'[g].tool = t
         /\ \A h \in DOMAIN gestures \ {g} : gestures'[h] = gestures[h]
<1>1. gestures' = [gestures EXCEPT ![g] = [@ EXCEPT !.phase = phase, !.tool = t]]
  BY DEF Decide, TypeOK, GestureRecords
<1>2. gestures \in Seq(GestureRecords) /\ gestures[g] \in GestureRecords
  BY DEF TypeOK
<1>3. [gestures[g] EXCEPT !.phase = phase, !.tool = t] \in GestureRecords
  BY <1>2 DEF GestureRecords
<1> DEFINE e == [gestures[g] EXCEPT !.phase = phase, !.tool = t]
<1>4. e.phase = phase /\ e.tool = t
  BY <1>2 DEF GestureRecords
<1>5. g \in 1 .. Len(gestures) /\ DOMAIN gestures = 1 .. Len(gestures)
  BY <1>2
<1> HIDE DEF e
<1>6. gestures' = [gestures EXCEPT ![g] = e]
  BY <1>1 DEF e
<1>7. /\ gestures' \in Seq(GestureRecords) /\ Len(gestures') = Len(gestures)
      /\ \A h \in 1 .. Len(gestures) : gestures'[h] = IF h = g THEN e ELSE gestures[h]
  BY <1>2, <1>3, <1>5, <1>6, ExceptSeq DEF e
<1>8. DOMAIN gestures' = 1 .. Len(gestures')
  BY <1>7
<1> QED BY <1>4, <1>5, <1>7, <1>8

\* What the handlers do with the gesture g that tool t was given.
Lands(g, t) ==
  \/ /\ items' = items \cup {[tool |-> t, points |-> {g}, by |-> 0]} /\ t \in AllTools
     /\ UNCHANGED <<builder, calls>>
  \/ /\ calls' = calls \cup {[tool |-> t, gesture |-> g]} /\ t \in AllTools
     /\ UNCHANGED <<builder, items>>
  \/ /\ builder' = builder \cup {g}
     /\ UNCHANGED <<items, calls>>
  \/ /\ items' = items \cup {[tool |-> "polygon", points |-> builder, by |-> g]}
     /\ builder' = {} /\ builder # {}
     /\ UNCHANGED calls
  \/ t \notin Creating /\ UNCHANGED <<items, builder, calls>>

\* One gesture lands in one place.
LEMMA GestureLands ==
  ASSUME TypeOK, Separate, Kept,
         NEW g \in DOMAIN gestures, ~Done(g), NEW t \in AllTools \cup {Nobody}, Decide(g, "done", t),
         Lands(g, t)
  PROVE  Separate' /\ Kept'
<1>1. /\ g \in Numbers /\ Free(g)
      /\ 0 \notin builder
      /\ \A i \in items : 0 \notin i.points
  BY DEF Separate, TypeOK, Numbers, ItemRecords
<1>2. /\ DOMAIN gestures' = DOMAIN gestures
      /\ gestures'[g].phase = "done" /\ gestures'[g].tool = t
      /\ \A h \in DOMAIN gestures \ {g} : gestures'[h] = gestures[h]
  BY DecideEffect
<1>3. \A h : Done(h)' <=> Done(h) \/ h = g
  BY <1>2 DEF Done
<1>4. CASE /\ items' = items \cup {[tool |-> t, points |-> {g}, by |-> 0]}
           /\ UNCHANGED <<builder, calls>>
  <2> DEFINE new == [tool |-> t, points |-> {g}, by |-> 0]
  <2>1. \A h \in Numbers : Uses(new, h) <=> h = g
    BY DEF Uses, Numbers
  <2> HIDE DEF new
  <2>2. \A h \in Numbers : Free(h)' <=> Free(h) /\ h # g
    BY <1>1, <1>4, <2>1 DEF Free, new
  <2>3. /\ \A h \in Numbers : ~Done(h)' => Free(h)'
        /\ \A c \in calls' : c.gesture \notin builder'
        /\ \A c, d \in calls' : c.gesture = d.gesture => c = d
    BY <1>3, <1>4, <2>2 DEF Separate
  <2>8. \A h \in builder' : \A i \in items' : ~Uses(i, h)
    <3>1. \A h \in builder : h \in Numbers /\ h # g
      BY <1>1 DEF Free, TypeOK
    <3>2. \A i \in items' : i \in items \/ i = new
      BY <1>4 DEF new
    <3> QED BY <1>4, <2>1, <3>1, <3>2 DEF Separate
  <2>5. \A c \in calls' : \A i \in items' : ~Uses(i, c.gesture)
    <3> SUFFICES ASSUME NEW c \in calls, NEW i \in items' PROVE ~Uses(i, c.gesture)
      BY <1>4
    <3>1. c.gesture \in Numbers /\ c.gesture # g
      BY <1>1 DEF Free, TypeOK, CallRecords
    <3>2. i \in items \/ i = new
      BY <1>4 DEF new
    <3> QED BY <3>1, <3>2, <2>1 DEF Separate
  <2>6. \A h \in Numbers : \A i, j \in items' : Uses(i, h) /\ Uses(j, h) => i = j
    BY <1>1, <1>4, <2>1 DEF Separate, Free, new
  <2>7. Separate'
    BY <2>3, <2>5, <2>6, <2>8 DEF Separate, Free, Done, Uses
  <2>4. Kept'
    BY <1>1, <1>2, <1>4, <2>1, <2>2 DEF Kept, Numbers, TypeOK
  <2> QED BY <2>4, <2>7
<1>5. CASE /\ calls' = calls \cup {[tool |-> t, gesture |-> g]}
           /\ UNCHANGED <<builder, items>>
  <2> DEFINE new == [tool |-> t, gesture |-> g]
  <2>1. new.gesture = g
    OBVIOUS
  <2> HIDE DEF new
  <2>2. \A h \in Numbers : Free(h)' <=> Free(h) /\ h # g
    BY <1>1, <1>5, <2>1 DEF Free, new
  <2>3. Separate'
    BY <1>1, <1>3, <1>5, <2>1, <2>2 DEF Separate, Free, TypeOK, CallRecords, new
  <2>4. Kept'
    BY <1>1, <1>2, <1>5, <2>2 DEF Kept, Numbers, TypeOK
  <2> QED BY <2>3, <2>4
<1>6. CASE /\ builder' = builder \cup {g}
           /\ UNCHANGED <<items, calls>>
  <2>2. \A h \in Numbers : Free(h)' <=> Free(h) /\ h # g
    BY <1>1, <1>6 DEF Free
  <2>3. Separate'
    BY <1>1, <1>3, <1>6, <2>2 DEF Separate, Free, TypeOK, CallRecords
  <2>4. Kept'
    BY <1>1, <1>2, <1>6, <2>2 DEF Kept, Numbers, TypeOK
  <2> QED BY <2>3, <2>4
<1>7. CASE /\ items' = items \cup {[tool |-> "polygon", points |-> builder, by |-> g]}
           /\ builder' = {} /\ builder # {}
           /\ UNCHANGED calls
  <2> DEFINE new == [tool |-> "polygon", points |-> builder, by |-> g]
  <2>1. \A h : Uses(new, h) <=> h = g \/ h \in builder
    BY DEF Uses
  <2> HIDE DEF new
  <2>2. \A h \in Numbers : Free(h)' <=> Free(h) /\ h # g
    BY <1>1, <1>7, <2>1 DEF Free, new
  <2>3. Separate'
    BY <1>1, <1>3, <1>7, <2>1, <2>2 DEF Separate, Free, new, TypeOK, CallRecords
  <2>4. Kept'
    BY <1>1, <1>2, <1>7, <2>1, <2>2 DEF Kept, Numbers, TypeOK
  <2> QED BY <2>3, <2>4
<1>8. CASE t \notin Creating /\ UNCHANGED <<items, builder, calls>>
  <2>1. \A h \in Numbers : Free(h)' <=> Free(h)
    BY <1>8 DEF Free
  <2>2. Separate'
    BY <1>3, <1>8, <2>1 DEF Separate
  <2>3. Kept'
    BY <1>2, <1>8, <2>1 DEF Kept, Numbers, TypeOK
  <2> QED BY <2>2, <2>3
<1> QED BY <1>4, <1>5, <1>6, <1>7, <1>8 DEF Lands

LEMMA LandsType ==
  ASSUME TypeOK, NEW g \in DOMAIN gestures, NEW t, Lands(g, t)
  PROVE  builder' \subseteq Numbers /\ items' \subseteq ItemRecords /\ calls' \subseteq CallRecords
<1>1. g \in Numbers
  BY DEF TypeOK, Numbers
<1>2. "polygon" \in AllTools
  BY DEF AllTools, DragTools
<1> QED BY <1>1, <1>2 DEF Lands, TypeOK, ItemRecords, CallRecords, Numbers

LEMMA NothingLands ==
  ASSUME Separate, Kept, UNCHANGED <<items, builder, calls>>,
         \A h : Done(h) => Done(h)',
         \A h \in DOMAIN gestures' : gestures'[h].phase = "done" /\ gestures'[h].tool \in Creating
           => Done(h) /\ gestures[h].tool \in Creating
  PROVE  Separate' /\ Kept'
<1>1. \A h : Free(h)' <=> Free(h)
  BY DEF Free
<1>2. \A h \in Numbers : ~Done(h)' => Free(h)'
  BY <1>1 DEF Separate
<1>3. Separate'
  BY <1>2 DEF Separate, Uses
<1>4. Kept'
  BY <1>1 DEF Kept, Done
<1> QED BY <1>3, <1>4

LEMMA AnswerLands ==
  ASSUME TypeOK, Separate, Kept, NEW c \in calls, Answer(c)
  PROVE  /\ Separate' /\ Kept'
         /\ items' \subseteq ItemRecords /\ calls' \subseteq calls /\ builder' = builder
<1> DEFINE g == c.gesture
           new == [tool |-> c.tool, points |-> {g}, by |-> 0]
<1>1. /\ items' = items \cup {new} /\ calls' = calls \ {c}
      /\ UNCHANGED <<builder, gestures>>
  BY DEF Answer, Create, inputVars
<1>2. g \in Numbers /\ c.tool \in AllTools /\ new \in ItemRecords
  BY DEF TypeOK, CallRecords, ItemRecords, Numbers
<1>3. \A h \in Numbers : Uses(new, h) <=> h = g
  BY DEF Uses, Numbers
<1>4. Done(g) /\ g \notin builder /\ (\A i \in items : ~Uses(i, g))
  BY <1>2 DEF Separate, Free
<1>5. \A d \in calls' : d.gesture \in Numbers /\ d.gesture # g
  BY <1>1 DEF Separate, TypeOK, CallRecords
<1> HIDE DEF new, g
<1>6. \A h \in Numbers : Free(h)' <=> Free(h)
  <2> SUFFICES ASSUME NEW h \in Numbers PROVE Free(h)' <=> Free(h)
    OBVIOUS
  <2>1. CASE h = g
    BY <1>1, <1>3, <2>1 DEF Free, g
  <2>2. CASE h # g
    BY <1>1, <1>3, <2>2 DEF Free, g
  <2> QED BY <2>1, <2>2
<1>7. \A h \in Numbers : ~Done(h)' => Free(h)'
  BY <1>1, <1>6 DEF Separate, Done
<1>8. \A h \in Numbers : \A i, j \in items' : Uses(i, h) /\ Uses(j, h) => i = j
  BY <1>1, <1>3, <1>4 DEF Separate
<1>9. \A h \in builder' : \A i \in items' : ~Uses(i, h)
  BY <1>1, <1>3, <1>4 DEF Separate, TypeOK
<1>10. \A d \in calls' : d.gesture \notin builder' /\ \A i \in items' : ~Uses(i, d.gesture)
  BY <1>1, <1>3, <1>5 DEF Separate
<1>11. \A d, e \in calls' : d.gesture = e.gesture => d = e
  BY <1>1 DEF Separate
<1>12. Separate'
  BY <1>7, <1>8, <1>9, <1>10, <1>11 DEF Separate, Done, Free, Uses
<1>13. Kept'
  BY <1>1, <1>6 DEF Kept, TypeOK, Numbers
<1> QED BY <1>1, <1>2, <1>12, <1>13 DEF TypeOK

\* A cancelled polygon becomes an item.
LEMMA CancelLands ==
  ASSUME TypeOK, Separate, Kept, CancelAction, UNCHANGED <<gestures, calls>>
  PROVE  Separate' /\ Kept' /\ items' \subseteq ItemRecords /\ builder' \subseteq Numbers
<1>1. CASE UNCHANGED <<builder, items>>
  BY <1>1, NothingLands DEF Done, TypeOK
<1>2. CASE ~UNCHANGED <<builder, items>>
  <2> DEFINE new == [tool |-> "polygon", points |-> builder, by |-> 0]
  <2>1. items' = items \cup {new} /\ builder' = {} /\ builder # {}
    BY <1>2 DEF CancelAction, Finish, Create
  <2>2. new \in ItemRecords
    BY DEF TypeOK, ItemRecords, AllTools, DragTools
  <2>3. \A h \in Numbers : Uses(new, h) <=> h \in builder
    BY DEF Uses, Numbers
  <2> HIDE DEF new
  <2>4. \A h \in Numbers : Free(h)' <=> Free(h)
    <3> SUFFICES ASSUME NEW h \in Numbers PROVE Free(h)' <=> Free(h)
      OBVIOUS
    <3>1. CASE h \in builder
      BY <2>1, <2>3, <3>1 DEF Free
    <3>2. CASE h \notin builder
      BY <2>1, <2>3, <3>2 DEF Free
    <3> QED BY <3>1, <3>2
  <2>5. \A h \in Numbers : ~Done(h)' => Free(h)'
    BY <2>4 DEF Separate, Done
  <2>6. \A h \in Numbers : \A i, j \in items' : Uses(i, h) /\ Uses(j, h) => i = j
    BY <2>1, <2>3 DEF Separate
  <2>7. \A c \in calls' : c.gesture \notin builder' /\ \A i \in items' : ~Uses(i, c.gesture)
    BY <2>1, <2>3 DEF Separate, TypeOK, CallRecords
  <2>8. Separate'
    BY <2>1, <2>5, <2>6, <2>7 DEF Separate, Done, Free, Uses
  <2>9. Kept'
    BY <2>4 DEF Kept, TypeOK, Numbers
  <2> QED BY <2>1, <2>2, <2>8, <2>9 DEF TypeOK
<1> QED BY <1>1, <1>2

LEMMA DragLands ==
  ASSUME NEW t \in DragTools \cup {Nobody}, NEW g, DragEnds(t, g)
  PROVE  Lands(g, t)
<1> USE DEF DragEnds, Lands, AllTools, DragTools, Creating, Nobody
<1>1. CASE t = "line"
  BY <1>1 DEF DragLine, Create
<1>2. CASE t = "shape"
  BY <1>2 DEF DragShape, Create
<1>3. CASE t = "pen"
  BY <1>3 DEF DragPath, Await
<1>4. CASE t = "polygon"
  BY <1>4 DEF DragPolygon, ProcessPoint, Finish, Create, NoItem
<1>5. CASE t = "pan" \/ t = Nobody
  BY <1>5 DEF DragPan, toolVars
<1> QED BY <1>1, <1>2, <1>3, <1>4, <1>5

LEMMA PressLands ==
  ASSUME NEW t \in ClickTools \cup {Nobody}, NEW g, Press(t, g)
  PROVE  Lands(g, t)
<1> USE DEF Press, Lands, AllTools, ClickTools, Creating, Nobody
<1>1. CASE t = "shape"
  BY <1>1 DEF PressShape, Create
<1>2. CASE t = "text"
  BY <1>2 DEF PressText, Await
<1>3. CASE t = "image"
  BY <1>3 DEF PressImage, Await, toolVars
<1>4. CASE t = "polygon"
  BY <1>4 DEF PressPolygon, ProcessPoint, Finish, Create, NoItem
<1>5. CASE t = "pick" \/ t = Nobody
  BY <1>5 DEF PressPick, toolVars
<1> QED BY <1>1, <1>2, <1>3, <1>4, <1>5

LEMMA TakersFit ==
  ASSUME NEW kinds, NEW t \in Takers(kinds)
  PROVE  t \in kinds \cup {Nobody}
BY DEF Takers
-----------------------------------------------------------------------------
(* The invariant of the gestures                                           *)

Places == TypeOK /\ DragsFit /\ Separate /\ Kept

LEMMA PlacesInit == Init => Places
BY SMTT(20) DEF Init, Places, TypeOK, DragsFit, Separate, Kept, Free, Numbers

\* A gesture that goes on is not done before or after.
LEMMA GestureGoesOn ==
  ASSUME Places, NEW g \in DOMAIN gestures, NEW phase \in {"peek", "press", "drag", "done"},
         NEW t \in AllTools \cup {Nobody}, Decide(g, phase, t),
         gestures[g].phase # "done",
         phase = "drag" => t \in DragTools \cup {Nobody}, phase = "done" => t = Nobody,
         UNCHANGED <<items, builder, calls>>
  PROVE  /\ Separate' /\ Kept' /\ DragsFit'
         /\ gestures' \in Seq(GestureRecords) /\ DOMAIN gestures' = DOMAIN gestures
<1>1. /\ gestures' \in Seq(GestureRecords) /\ DOMAIN gestures' = DOMAIN gestures
      /\ gestures'[g].phase = phase /\ gestures'[g].tool = t
      /\ \A h \in DOMAIN gestures \ {g} : gestures'[h] = gestures[h]
  BY DecideEffect DEF Places
<1>2. \A h : Done(h) => Done(h)'
  BY <1>1 DEF Done
<1>3. \A h \in DOMAIN gestures' : gestures'[h].phase = "done" /\ gestures'[h].tool \in Creating
        => Done(h) /\ gestures[h].tool \in Creating
  BY <1>1 DEF Done, Creating, Nobody
<1>4. Separate' /\ Kept'
  BY <1>2, <1>3, NothingLands DEF Places
<1>5. DragsFit'
  BY <1>1 DEF DragsFit, Places
<1> QED BY <1>1, <1>4, <1>5

LEMMA PlacesDown ==
  ASSUME Places, NEW p \in Pointers, PointerDown(p)
  PROVE  Places'
<1> DEFINE g == Len(gestures) + 1
           new == [pointer |-> p, phase |-> "peek", tool |-> Nobody]
<1>1. /\ gestures' = Append(gestures, new) /\ current' = [current EXCEPT ![p] = g]
      /\ UNCHANGED <<items, builder, calls>>
  BY DEF PointerDown, toolVars
<1>2. new \in GestureRecords /\ new.phase = "peek"
  BY DEF GestureRecords
<1> HIDE DEF new
<1>3. /\ gestures' \in Seq(GestureRecords) /\ DOMAIN gestures' = 1 .. g
      /\ DOMAIN gestures = 1 .. Len(gestures)
      /\ gestures'[g] = new /\ \A h \in DOMAIN gestures : gestures'[h] = gestures[h]
      /\ Len(gestures) \in Nat
  BY <1>1, <1>2 DEF Places, TypeOK
<1>4. \A h \in DOMAIN gestures' : h = g \/ h \in DOMAIN gestures
  BY <1>3
<1>5. Separate' /\ Kept'
  BY <1>1, <1>2, <1>3, <1>4, NothingLands DEF Places, Done
<1>6. DragsFit'
  BY <1>2, <1>3, <1>4 DEF Places, DragsFit
<1>7. TypeOK'
  BY <1>1, <1>3 DEF Places, TypeOK
<1> QED BY <1>5, <1>6, <1>7 DEF Places

LEMMA PlacesMove ==
  ASSUME Places, NEW p \in Pointers, PointerMove(p)
  PROVE  Places'
<1> DEFINE g == current[p]
<1>1. g \in DOMAIN gestures /\ UNCHANGED current
  BY DEF PointerMove, Places, TypeOK
<1>2. CASE UNCHANGED <<gestures, toolVars>>
  <2>1. Separate' /\ Kept'
    BY <1>2, NothingLands DEF Places, toolVars, Done
  <2> QED BY <1>1, <1>2, <2>1 DEF Places, toolVars, TypeOK, DragsFit
<1>3. ASSUME gestures[g].phase = "peek", NEW t \in Takers(DragTools), Decide(g, "drag", t),
             DragBegins(t, g)
      PROVE  Places'
  <2>1. t \in DragTools \cup {Nobody} /\ t \in AllTools \cup {Nobody}
    BY <1>3, TakersFit DEF AllTools
  <2>2. UNCHANGED <<items, builder, calls>>
    BY <1>3 DEF DragBegins
  <2>3. /\ Separate' /\ Kept' /\ DragsFit'
        /\ gestures' \in Seq(GestureRecords) /\ DOMAIN gestures' = DOMAIN gestures
    BY <1>1, <1>3, <2>1, <2>2, GestureGoesOn
  <2> QED BY <1>1, <2>2, <2>3 DEF Places, TypeOK
<1> QED BY <1>2, <1>3 DEF PointerMove

LEMMA PlacesUp ==
  ASSUME Places, NEW p \in Pointers, PointerUp(p)
  PROVE  Places'
<1> DEFINE g == current[p]
<1>1. g \in DOMAIN gestures /\ current' = [current EXCEPT ![p] = 0]
  BY DEF PointerUp, Places, TypeOK
<1>2. CASE UNCHANGED <<gestures, toolVars>>
  <2>1. Separate' /\ Kept'
    BY <1>2, NothingLands DEF Places, toolVars, Done
  <2> QED BY <1>1, <1>2, <2>1 DEF Places, toolVars, TypeOK, DragsFit
<1>3. ASSUME NEW t \in AllTools \cup {Nobody}, Decide(g, "done", t), Lands(g, t), ~Done(g)
      PROVE  Places'
  <2>1. Separate' /\ Kept'
    BY <1>1, <1>3, GestureLands DEF Places
  <2>2. /\ gestures' \in Seq(GestureRecords) /\ DOMAIN gestures' = DOMAIN gestures
        /\ gestures'[g].phase = "done"
        /\ \A h \in DOMAIN gestures \ {g} : gestures'[h] = gestures[h]
    BY <1>1, <1>3, DecideEffect DEF Places
  <2>3. builder' \subseteq Numbers /\ items' \subseteq ItemRecords /\ calls' \subseteq CallRecords
    BY <1>1, <1>3, LandsType DEF Places
  <2>4. TypeOK'
    BY <1>1, <2>2, <2>3 DEF Places, TypeOK
  <2>5. DragsFit'
    BY <2>2 DEF Places, DragsFit
  <2> QED BY <2>1, <2>4, <2>5 DEF Places
<1>4. ASSUME gestures[g].phase \in {"peek", "press"}, NEW t \in Takers(ClickTools),
             Decide(g, "done", t), Press(t, g)
      PROVE  Places'
  <2>1. t \in ClickTools \cup {Nobody} /\ t \in AllTools \cup {Nobody}
    BY <1>4, TakersFit DEF AllTools
  <2> QED BY <1>3, <1>4, <2>1, PressLands DEF Done
<1>5. CASE /\ gestures[g].phase = "drag" /\ Decide(g, "done", gestures[g].tool)
           /\ DragEnds(gestures[g].tool, g)
  <2>1. /\ gestures[g].tool \in DragTools \cup {Nobody}
        /\ gestures[g].tool \in AllTools \cup {Nobody}
    BY <1>1, <1>5 DEF Places, DragsFit, AllTools
  <2> QED BY <1>3, <1>5, <2>1, DragLands DEF Done
<1> QED BY <1>2, <1>4, <1>5 DEF PointerUp

LEMMA PlacesTimeout ==
  ASSUME Places, NEW g \in DOMAIN gestures, FirstTimeout(g) \/ EndTimeout(g)
  PROVE  Places'
<1>1. UNCHANGED <<current, items, builder, calls>>
  BY DEF FirstTimeout, EndTimeout, toolVars
<1>2. /\ Separate' /\ Kept' /\ DragsFit'
      /\ gestures' \in Seq(GestureRecords) /\ DOMAIN gestures' = DOMAIN gestures
  <2>1. CASE FirstTimeout(g)
    BY <1>1, <2>1, GestureGoesOn DEF FirstTimeout
  <2>2. CASE EndTimeout(g)
    BY <1>1, <2>2, GestureGoesOn DEF EndTimeout
  <2> QED BY <2>1, <2>2
<1> QED BY <1>1, <1>2 DEF Places, TypeOK

\* Icons and panels finish the polygon at most.
LEMMA PlacesClick ==
  ASSUME Places, CancelAction, UNCHANGED <<gestures, current, calls>>
  PROVE  Places'
<1>1. Separate' /\ Kept' /\ items' \subseteq ItemRecords /\ builder' \subseteq Numbers
  BY CancelLands DEF Places
<1> QED BY <1>1 DEF Places, TypeOK, DragsFit

LEMMA PlacesStays ==
  ASSUME Places, UNCHANGED <<gestures, current, items, builder, calls>>
  PROVE  Places'
<1>1. Separate' /\ Kept'
  BY NothingLands DEF Places, Done
<1> QED BY <1>1 DEF Places, TypeOK, DragsFit

LEMMA PlacesStep ==
  ASSUME Places, [Next]_vars
  PROVE  Places'
<1>1. ASSUME NEW p \in Pointers, PointerDown(p) PROVE Places'
  BY <1>1, PlacesDown
<1>2. ASSUME NEW p \in Pointers, PointerMove(p) PROVE Places'
  BY <1>2, PlacesMove
<1>3. ASSUME NEW p \in Pointers, PointerUp(p) PROVE Places'
  BY <1>3, PlacesUp
<1>4. ASSUME NEW p \in Pointers, CursorTimeout(p) PROVE Places'
  BY <1>4, PlacesStays DEF CursorTimeout, toolVars
<1>5. ASSUME NEW g \in DOMAIN gestures, FirstTimeout(g) \/ EndTimeout(g) PROVE Places'
  BY <1>5, PlacesTimeout
<1>6. ASSUME NEW c \in calls, Answer(c) PROVE Places'
  <2>1. /\ Separate' /\ Kept'
        /\ items' \subseteq ItemRecords /\ calls' \subseteq calls /\ builder' = builder
    BY <1>6, AnswerLands DEF Places
  <2> QED BY <1>6, <2>1 DEF Places, TypeOK, DragsFit, Answer, inputVars
<1>7. ASSUME NEW item \in news, Created(item) PROVE Places'
  BY <1>7, PlacesStays DEF Created, inputVars
<1>8. ASSUME NEW t \in Tools, ClickIcon(t) PROVE Places'
  BY <1>8, PlacesClick DEF ClickIcon, inputVars
<1>9. CASE TogglePanel
  BY <1>9, PlacesStays DEF TogglePanel, inputVars, toolVars
<1>10. CASE CancelPanel
  BY <1>10, PlacesClick DEF CancelPanel, inputVars
<1>11. CASE UNCHANGED vars
  BY <1>11, PlacesStays DEF vars, inputVars, toolVars
<1> QED BY <1>1, <1>2, <1>3, <1>4, <1>5, <1>6, <1>7, <1>8, <1>9, <1>10, <1>11 DEF Next

(* Every gesture is in its place: nowhere before it is done, then in one   *)
(* item, in the polygon or with the call that is awaited, and nowhere else *)
(* (tool/ and canvas/Canvas.ts).                                           *)
THEOREM GesturesInPlace == Spec => []Places
<1>1. Places /\ [Next]_vars => Places'
  BY PlacesStep
<1> QED BY PlacesInit, <1>1, PTL DEF Spec

LEMMA PlacesSuffices ==
  ASSUME Places
  PROVE  NothingLost
<1> SUFFICES ASSUME NEW g \in DOMAIN gestures
             PROVE
    LET uses == {i \in items : g \in i.points \cup {i.by}} IN
    /\ \A i, j \in uses : i = j
    /\ gestures[g].phase = "done" /\ gestures[g].tool \in Creating
       => \/ uses # {} /\ g \notin builder
          \/ uses = {} /\ g \in builder
          \/ \E c \in calls : c.gesture = g
  BY DEF NothingLost, Creating
<1>1. g \in Numbers
  BY DEF Places, TypeOK, Numbers
<1>2. \A i, j \in items : Uses(i, g) /\ Uses(j, g) => i = j
  BY <1>1 DEF Places, Separate
<1>3. g \in builder => \A i \in items : ~Uses(i, g)
  BY DEF Places, Separate
<1>4. gestures[g].phase = "done" /\ gestures[g].tool \in Creating => ~Free(g)
  BY DEF Places, Kept
<1> QED BY <1>2, <1>3, <1>4 DEF Free, Uses

(* No gesture a creating tool has taken is lost or used twice, for any     *)
(* number of pointers, presses and clicks (tool/ onDragGesture,            *)
(* onPressGesture, cancelAction).                                          *)
THEOREM GesturesKept == Spec => []NothingLost
<1>1. Places => NothingLost
  BY PlacesSuffices
<1> QED BY <1>1, GesturesInPlace, PTL
-----------------------------------------------------------------------------
(* What a tool and the tool state say of each other                        *)

UiRecords == [listening : Seq(Tools), state : [tool : Tools \cup {Nobody}, action : Nat],
              active : SUBSET Tools, completion : [Tools -> Nat]]

UiOK(u) ==
  /\ u \in UiRecords /\ Distinct(u.listening)
  /\ u.state.action # 0
     => u.state.tool \in Tools /\ u.completion[u.state.tool] = u.state.action
  /\ "polygon" \in u.active => u.completion["polygon"] # 0

\* The parts of a record of UiRecords that is made of others.
LEMMA UiParts ==
  ASSUME NEW l \in Seq(Tools), NEW s \in [tool : Tools \cup {Nobody}, action : Nat],
         NEW a \in SUBSET Tools, NEW c \in [Tools -> Nat],
         Distinct(l), s.action # 0 => s.tool \in Tools /\ c[s.tool] = s.action,
         "polygon" \in a => c["polygon"] # 0
  PROVE  UiOK([listening |-> l, state |-> s, active |-> a, completion |-> c])
BY DEF UiOK, UiRecords

LEMMA StartOK ==
  ASSUME NEW u, UiOK(u), NEW t \in Tools, NEW g \in Numbers
  PROVE  /\ UiOK(Start(u, t, g))
         /\ Start(u, t, g).listening = u.listening
         /\ Start(u, t, g).state.tool = u.state.tool
         /\ Start(u, t, g).active = u.active \cup {t}
         /\ Start(u, t, g).completion = [u.completion EXCEPT ![t] = g]
<1> DEFINE l == u.listening
           s == IF u.state.tool = t THEN [u.state EXCEPT !.action = g] ELSE u.state
           a == u.active \cup {t}
           c == [u.completion EXCEPT ![t] = g]
           r == [listening |-> l, state |-> s, active |-> a, completion |-> c]
<1>1. u \in UiRecords /\ g \in Nat /\ g # 0
  BY DEF UiOK, Numbers
<1>2. Start(u, t, g) = r
  <2>1. Start(u, t, g) = [u EXCEPT !.active = a, !.completion = c, !.state = s]
    BY DEF Start
  <2> HIDE DEF s, a, c
  <2> QED BY <1>1, <2>1 DEF UiRecords
<1>3. l \in Seq(Tools) /\ a \in SUBSET Tools /\ c \in [Tools -> Nat]
  BY <1>1 DEF UiRecords
<1>4. /\ s \in [tool : Tools \cup {Nobody}, action : Nat] /\ s.tool = u.state.tool
      /\ s.action = IF u.state.tool = t THEN g ELSE u.state.action
  BY <1>1 DEF UiRecords
<1>5. \A x \in Tools : c[x] = IF x = t THEN g ELSE u.completion[x]
  BY <1>1 DEF UiRecords
<1>6. r.listening = l /\ r.state = s /\ r.active = a /\ r.completion = c
  OBVIOUS
<1>7. Distinct(l) /\ (s.action # 0 => s.tool \in Tools /\ c[s.tool] = s.action)
  BY <1>1, <1>4, <1>5 DEF UiOK
<1>8. "polygon" \in a => c["polygon"] # 0
  BY <1>1, <1>3, <1>5 DEF UiOK
<1> HIDE DEF l, s, a, c
<1>9. UiOK(r)
  BY <1>3, <1>4, <1>7, <1>8, UiParts
<1> QED BY <1>2, <1>4, <1>6, <1>9 DEF l, a, c

LEMMA EndOK ==
  ASSUME NEW u, UiOK(u), NEW t \in Tools
  PROVE  /\ UiOK(End(u, t))
         /\ ToSet(End(u, t).listening) = ToSet(u.listening) \ {t}
         /\ End(u, t).state = IF u.completion[t] # 0 THEN NoTool ELSE u.state
         /\ End(u, t).active = u.active \ {t}
         /\ End(u, t).completion = [u.completion EXCEPT ![t] = 0]
<1> DEFINE l == RemoveFirst(u.listening, t)
           s == IF u.completion[t] # 0 THEN NoTool ELSE u.state
           a == u.active \ {t}
           c == [u.completion EXCEPT ![t] = 0]
           r == [listening |-> l, state |-> s, active |-> a, completion |-> c]
<1>1. u \in UiRecords /\ u.listening \in Seq(Tools) /\ Distinct(u.listening)
  BY DEF UiOK, UiRecords
<1>2. End(u, t) = r
  <2>1. Pause(u, t) = [u EXCEPT !.listening = l]
    BY DEF Pause
  <2>2. /\ Pause(u, t).active = u.active /\ Pause(u, t).completion = u.completion
        /\ Pause(u, t).state = u.state
    BY <1>1, <2>1 DEF UiRecords
  <2>3. End(u, t) = [Pause(u, t) EXCEPT !.active = a, !.completion = c, !.state = s]
    BY <2>2 DEF End
  <2> HIDE DEF l, s, a, c
  <2> QED BY <1>1, <2>1, <2>3 DEF UiRecords
<1>3. l \in Seq(Tools) /\ Distinct(l) /\ ToSet(l) = ToSet(u.listening) \ {t}
  BY <1>1, RemoveFirstType
<1>4. a \in SUBSET Tools /\ c \in [Tools -> Nat]
  BY <1>1 DEF UiRecords
<1>5. s \in [tool : Tools \cup {Nobody}, action : Nat]
  BY <1>1 DEF UiRecords, NoTool
<1>6. \A x \in Tools : c[x] = IF x = t THEN 0 ELSE u.completion[x]
  BY <1>1 DEF UiRecords
<1>7. r.listening = l /\ r.state = s /\ r.active = a /\ r.completion = c
  OBVIOUS
<1>8. s.action # 0 => s.tool \in Tools /\ c[s.tool] = s.action
  BY <1>1, <1>6 DEF UiOK, NoTool
<1>9. "polygon" \in a => c["polygon"] # 0
  BY <1>1, <1>4, <1>6 DEF UiOK
<1> HIDE DEF l, s, a, c
<1>10. UiOK(r)
  BY <1>3, <1>4, <1>5, <1>8, <1>9, UiParts
<1> QED BY <1>2, <1>3, <1>7, <1>10 DEF s, a, c

LEMMA CancelOK ==
  ASSUME NEW u, UiOK(u)
  PROVE  /\ UiOK(Cancel(u)) /\ Cancel(u).state = NoTool
         /\ ToSet(Cancel(u).listening) = ToSet(u.listening) \ {u.state.tool}
         /\ Cancel(u).active = u.active \ {u.state.tool}
<1> DEFINE t == u.state.tool
<1>1. /\ u \in UiRecords /\ u.listening \in Seq(Tools) /\ Distinct(u.listening)
      /\ u.active \in SUBSET Tools /\ u.completion \in [Tools -> Nat]
  BY DEF UiOK, UiRecords
<1>2. Nobody \notin Tools
  BY ToolsAssumption DEF DragTools, ClickTools, Nobody
<1>3. CASE u.state = NoTool
  <2>1. t = Nobody /\ Nobody \notin ToSet(u.listening) /\ Nobody \notin u.active
    BY <1>1, <1>2, <1>3 DEF NoTool, ToSet
  <2> QED BY <1>3, <2>1 DEF Cancel
<1>4. CASE u.state # NoTool
  <2> DEFINE l == RemoveFirst(u.listening, t)
             a == u.active \ {t}
             c == u.completion
             r == [listening |-> l, state |-> NoTool, active |-> a, completion |-> c]
  <2>1. Cancel(u) = r
    BY <1>1, <1>4 DEF Cancel, Pause, UiRecords
  <2>2. l \in Seq(Tools) /\ Distinct(l) /\ ToSet(l) = ToSet(u.listening) \ {t}
    BY <1>1, RemoveFirstType
  <2>3. a \in SUBSET Tools /\ c \in [Tools -> Nat] /\ ("polygon" \in a => c["polygon"] # 0)
    BY <1>1 DEF UiOK
  <2>4. NoTool \in [tool : Tools \cup {Nobody}, action : Nat] /\ NoTool.action = 0
    BY DEF NoTool
  <2>5. r.listening = l /\ r.state = NoTool /\ r.active = a
    OBVIOUS
  <2> HIDE DEF l, a, c
  <2>6. UiOK(r)
    BY <2>2, <2>3, <2>4, UiParts
  <2> QED BY <2>1, <2>2, <2>5, <2>6 DEF a
<1> QED BY <1>3, <1>4

LEMMA ChooseOK ==
  ASSUME NEW u, UiOK(u), NEW t \in Tools
  PROVE  /\ UiOK(Choose(u, t)) /\ Choose(u, t).state.tool = t
         /\ ToSet(Choose(u, t).listening) = (ToSet(u.listening) \ {u.state.tool}) \cup {t}
         /\ Choose(u, t).active = u.active \ {u.state.tool}
<1> DEFINE v == Cancel(u)
           l == IF Contains(v.listening, t) THEN v.listening ELSE Append(v.listening, t)
           s == [tool |-> t, action |-> 0]
           a == v.active
           c == v.completion
           r == [listening |-> l, state |-> s, active |-> a, completion |-> c]
<1>1. /\ UiOK(v) /\ ToSet(v.listening) = ToSet(u.listening) \ {u.state.tool}
      /\ v.active = u.active \ {u.state.tool}
  BY CancelOK
<1> HIDE DEF v
<1>2. /\ v \in UiRecords /\ v.listening \in Seq(Tools) /\ Distinct(v.listening)
      /\ a \in SUBSET Tools /\ c \in [Tools -> Nat] /\ ("polygon" \in a => c["polygon"] # 0)
  BY <1>1 DEF UiOK, UiRecords
<1>3. Choose(u, t) = r
  <2>1. Resume(v, t) = [v EXCEPT !.listening = l]
    BY <1>2 DEF Resume, UiRecords
  <2>2. Choose(u, t) = [Resume(v, t) EXCEPT !.state = s]
    BY DEF Choose, v
  <2> HIDE DEF l, s
  <2> QED BY <1>2, <2>1, <2>2 DEF UiRecords
<1>4. l \in Seq(Tools) /\ Distinct(l) /\ ToSet(l) = ToSet(v.listening) \cup {t}
  <2>1. CASE Contains(v.listening, t)
    BY <1>2, <2>1 DEF Contains, ToSet
  <2>2. CASE ~Contains(v.listening, t)
    <3> DEFINE n == Len(v.listening)
    <3>1. /\ l \in Seq(Tools) /\ DOMAIN l = 1 .. n + 1 /\ n \in Nat
          /\ l[n + 1] = t /\ \A k \in 1 .. n : l[k] = v.listening[k]
      BY <1>2, <2>2
    <3>2. DOMAIN v.listening = 1 .. n /\ \A k \in 1 .. n : v.listening[k] # t
      BY <1>2, <2>2 DEF Contains
    <3> HIDE DEF n, l
    <3>3. Distinct(l)
      BY <1>2, <3>1, <3>2 DEF Distinct
    <3>4. \A k \in DOMAIN l : k = n + 1 \/ k \in 1 .. n
      BY <3>1
    <3>5. \A k \in 1 .. n : k \in DOMAIN l
      BY <3>1
    <3>6. n + 1 \in DOMAIN l
      BY <3>1
    <3>7. ToSet(l) = ToSet(v.listening) \cup {t}
      BY <3>1, <3>2, <3>4, <3>5, <3>6 DEF ToSet
    <3> QED BY <3>1, <3>3, <3>7
  <2> QED BY <2>1, <2>2
<1>5. s \in [tool : Tools \cup {Nobody}, action : Nat] /\ s.action = 0 /\ s.tool = t
  OBVIOUS
<1>6. r.listening = l /\ r.state = s /\ r.active = a
  OBVIOUS
<1> HIDE DEF l, s, c
<1>7. UiOK(r)
  BY <1>2, <1>4, <1>5, UiParts
<1> QED BY <1>1, <1>3, <1>4, <1>5, <1>6, <1>7
-----------------------------------------------------------------------------
(* The invariant of the tools                                              *)

Led(u) == ToSet(u.listening) = {u.state.tool} \ {Nobody}

Obedient == ~late => Led(ui)

Drawn == builder # {} <=> "polygon" \in ui.active

Known ==
  /\ \A g \in DOMAIN gestures : gestures[g].tool \in Tools \cup {Nobody}
  /\ \A c \in calls : c.tool \in Tools /\ c.tool \in {"pen", "text", "image"}

Tooling == UiOK(ui) /\ Drawn /\ Known /\ Obedient

LEMMA ToolingInit == Init => Tooling
<1> SUFFICES ASSUME Init PROVE Tooling
  OBVIOUS
<1>1. UiOK(ui)
  <2> DEFINE c == [t \in Tools |-> 0]
  <2>1. ui = [listening |-> <<>>, state |-> NoTool, active |-> {}, completion |-> c]
    BY DEF Init
  <2>2. c \in [Tools -> Nat] /\ Distinct(<<>>) /\ <<>> \in Seq(Tools)
    BY DEF Distinct
  <2>3. NoTool \in [tool : Tools \cup {Nobody}, action : Nat] /\ NoTool.action = 0
    BY DEF NoTool
  <2> HIDE DEF c
  <2> QED BY <2>1, <2>2, <2>3, UiParts
<1>2. Led(ui)
  BY DEF Init, Led, ToSet, NoTool
<1> QED BY <1>1, <1>2 DEF Init, Tooling, Drawn, Known, Obedient, NoTool

LEMMA NobodyIsNoTool == Nobody \notin Tools
BY ToolsAssumption DEF DragTools, ClickTools, Nobody

LEMMA TakersKnown ==
  ASSUME Tooling, NEW kinds, NEW t \in Takers(kinds), t # Nobody
  PROVE  t \in Tools
<1>1. PICK k \in DOMAIN ui.listening : t = ui.listening[k]
  BY DEF Takers
<1> QED BY <1>1 DEF Tooling, UiOK, UiRecords

LEMMA StartKeeps ==
  ASSUME Tooling, NEW t \in Tools, NEW g \in Numbers, ui' = Start(ui, t, g), UNCHANGED late
  PROVE  UiOK(ui') /\ Obedient' /\ ui'.active = ui.active \cup {t}
<1> DEFINE u == Start(ui, t, g)
<1>1. /\ UiOK(u) /\ u.listening = ui.listening /\ u.state.tool = ui.state.tool
      /\ u.active = ui.active \cup {t} /\ u.completion = [ui.completion EXCEPT ![t] = g]
  BY StartOK DEF Tooling
<1>2. ui' = u
  OBVIOUS
<1> HIDE DEF u
<1> QED BY <1>1, <1>2 DEF Obedient, Led, Tooling

\* Only an action that the tool state shows still ends in good order: it turns
\* the icon off with the filter.
LEMMA EndKeeps ==
  ASSUME NEW u, UiOK(u), NEW t \in Tools, NEW g \in Numbers, EndAction(u, t, g),
         ~late => Led(u), t = "polygon" => u.completion[t] # 0
  PROVE  UiOK(ui') /\ Obedient' /\ ui'.active = u.active \ {t}
<1>1. /\ UiOK(ui') /\ ToSet(ui'.listening) = ToSet(u.listening) \ {t}
      /\ ui'.state = IF u.completion[t] # 0 THEN NoTool ELSE u.state
      /\ ui'.active = u.active \ {t}
  <2> DEFINE e == End(u, t)
  <2>1. /\ UiOK(e) /\ ToSet(e.listening) = ToSet(u.listening) \ {t}
        /\ e.state = IF u.completion[t] # 0 THEN NoTool ELSE u.state
        /\ e.active = u.active \ {t}
    BY EndOK
  <2> HIDE DEF e
  <2>2. ui' = e
    BY DEF e, EndAction
  <2> QED BY <2>1, <2>2
<1>2. ASSUME ~late' PROVE Led(ui')
  <2>1. ~late /\ ~Outlived(u, t, g)
    BY <1>2 DEF EndAction
  <2>2. u.state.tool = t /\ u.completion[t] # 0
    <3>1. u.state.tool = t /\ (t # "polygon" => u.state.action = g)
      BY <2>1 DEF Outlived
    <3>2. CASE t = "polygon"
      BY <3>1, <3>2
    <3>3. CASE t # "polygon"
      BY <3>1, <3>3 DEF UiOK, Numbers
    <3> QED BY <3>1, <3>2, <3>3
  <2>3. ToSet(u.listening) \subseteq {t} /\ ui'.state.tool = Nobody
    BY <1>1, <2>1, <2>2 DEF Led, NoTool
  <2> QED BY <1>1, <2>3 DEF Led
<1> QED BY <1>1, <1>2 DEF Obedient

LEMMA PointKeeps ==
  ASSUME Tooling, "polygon" \in Tools, NEW g \in Numbers, ProcessPoint(g)
  PROVE  UiOK(ui') /\ Obedient' /\ Drawn' /\ calls' = calls
<1>1. CASE builder = {} /\ ui' = Start(ui, "polygon", g) /\ builder' = {g} /\ UNCHANGED <<calls, late>>
  <2>1. UiOK(ui') /\ Obedient' /\ ui'.active = ui.active \cup {"polygon"}
    BY <1>1, StartKeeps
  <2> QED BY <1>1, <2>1 DEF Drawn
<1>2. CASE builder # {} /\ builder' = {} /\ EndAction(ui, "polygon", g) /\ UNCHANGED calls
  <2>1. ui.completion["polygon"] # 0
    BY <1>2 DEF Tooling, Drawn, UiOK
  <2>2. UiOK(ui) /\ (~late => Led(ui))
    BY DEF Tooling, Obedient
  <2>3. UiOK(ui') /\ Obedient' /\ ui'.active = ui.active \ {"polygon"}
    BY <1>2, <2>1, <2>2, EndKeeps
  <2> QED BY <1>2, <2>3 DEF Drawn
<1>3. CASE builder # {} /\ builder' = builder \cup {g} /\ UNCHANGED <<ui, calls, late>>
  BY <1>3 DEF Drawn, Tooling, Obedient
<1> QED BY <1>1, <1>2, <1>3 DEF ProcessPoint, Finish

-----------------------------------------------------------------------------
(* What the handlers do to the tools                                       *)

KnownCalls == \A c \in calls' : c.tool \in Tools /\ c.tool \in {"pen", "text", "image"}

\* A tool that awaits an answer for its gesture.
LEMMA AwaitKnown ==
  ASSUME Tooling, NEW t \in Tools, t \in {"pen", "text", "image"}, NEW g, Await(t, g)
  PROVE  KnownCalls
<1> DEFINE c == [tool |-> t, gesture |-> g]
<1>1. c.tool = t /\ calls' = calls \cup {c}
  BY DEF Await
<1> HIDE DEF c
<1> QED BY <1>1 DEF KnownCalls, Tooling, Known

LEMMA SameCalls ==
  ASSUME Tooling, calls' \subseteq calls
  PROVE  KnownCalls
BY DEF KnownCalls, Tooling, Known

\* Nothing happens to the tools.
LEMMA SameTools ==
  ASSUME Tooling, UNCHANGED toolVars
  PROVE  UiOK(ui') /\ Obedient' /\ Drawn' /\ KnownCalls
BY DEF toolVars, Tooling, Obedient, Led, Drawn, KnownCalls, Known

LEMMA DragKeeps ==
  ASSUME Tooling, NEW g \in Numbers,
         NEW t \in Tools \cup {Nobody}, t \in DragTools \cup {Nobody}, DragEnds(t, g)
  PROVE  UiOK(ui') /\ Obedient' /\ Drawn' /\ KnownCalls
<1> USE DEF DragEnds, DragTools, Nobody
<1>1. CASE t = "line" \/ t = "shape"
  <2>1. t \in Tools /\ EndAction(ui, t, g) /\ UNCHANGED <<builder, calls>> /\ t # "polygon"
    BY <1>1, NobodyIsNoTool DEF DragLine, DragShape
  <2>2. UiOK(ui) /\ (~late => Led(ui))
    BY DEF Tooling, Obedient
  <2>3. UiOK(ui') /\ Obedient' /\ ui'.active = ui.active \ {t}
    BY <2>1, <2>2, EndKeeps
  <2>4. Drawn'
    BY <2>1, <2>3 DEF Tooling, Drawn
  <2> QED BY <2>1, <2>3, <2>4, SameCalls
<1>2. CASE t = "pen"
  <2>1. t \in Tools /\ Await(t, g) /\ UNCHANGED <<ui, builder, late>>
    BY <1>2, NobodyIsNoTool DEF DragPath
  <2>2. KnownCalls
    BY <1>2, <2>1, AwaitKnown
  <2> QED BY <2>1, <2>2 DEF Drawn, Tooling, Obedient
<1>3. CASE t = "polygon"
  <2>1. t \in Tools /\ ProcessPoint(g)
    BY <1>3, NobodyIsNoTool DEF DragPolygon
  <2>2. calls' = calls
    BY <2>1 DEF ProcessPoint
  <2> QED BY <1>3, <2>1, <2>2, PointKeeps, SameCalls
<1>4. CASE t = "pan" \/ t = Nobody
  BY <1>4, SameTools DEF DragPan
<1> QED BY <1>1, <1>2, <1>3, <1>4

LEMMA PressKeeps ==
  ASSUME Tooling, NEW g \in Numbers,
         NEW t \in Tools \cup {Nobody}, t \in ClickTools \cup {Nobody}, Press(t, g)
  PROVE  UiOK(ui') /\ Obedient' /\ Drawn' /\ KnownCalls
<1> USE DEF Press, ClickTools, Nobody
<1>1. CASE t = "shape"
  <2> DEFINE u == Start(ui, t, g)
  <2>1. t \in Tools /\ EndAction(u, t, g) /\ UNCHANGED <<builder, calls>>
    BY <1>1, NobodyIsNoTool DEF PressShape
  <2>2. /\ UiOK(u) /\ u.listening = ui.listening /\ u.state.tool = ui.state.tool
        /\ u.active = ui.active \cup {t} /\ u.completion = [ui.completion EXCEPT ![t] = g]
    BY <2>1, StartOK DEF Tooling
  <2> HIDE DEF u
  <2>3. ~late => Led(u)
    BY <2>2 DEF Tooling, Obedient, Led
  <2>4. UiOK(ui') /\ Obedient' /\ ui'.active = u.active \ {t}
    BY <1>1, <2>1, <2>2, <2>3, EndKeeps
  <2>5. Drawn'
    BY <1>1, <2>1, <2>2, <2>4 DEF Tooling, Drawn
  <2> QED BY <2>1, <2>4, <2>5, SameCalls
<1>2. CASE /\ t = "text" \/ t = "image"
           /\ Await(t, g) /\ ui' = Start(ui, t, g) /\ UNCHANGED <<builder, late>>
  <2>1. t \in Tools
    BY <1>2, NobodyIsNoTool
  <2>2. KnownCalls
    BY <1>2, <2>1, AwaitKnown
  <2>3. UiOK(ui') /\ Obedient' /\ ui'.active = ui.active \cup {t}
    BY <1>2, <2>1, StartKeeps
  <2>4. Drawn'
    BY <1>2, <2>3 DEF Tooling, Drawn
  <2> QED BY <2>2, <2>3, <2>4
<1>3. CASE t = "polygon"
  <2>1. t \in Tools /\ ProcessPoint(g)
    BY <1>3, NobodyIsNoTool DEF PressPolygon
  <2>2. calls' = calls
    BY <2>1 DEF ProcessPoint
  <2> QED BY <1>3, <2>1, <2>2, PointKeeps, SameCalls
<1>4. CASE UNCHANGED toolVars
  BY <1>4, SameTools
<1>5. CASE t = "pick" \/ t = Nobody
  BY <1>4, <1>5 DEF PressPick
<1>6. CASE t = "text"
  BY <1>2, <1>6 DEF PressText
<1>7. CASE t = "image"
  BY <1>2, <1>4, <1>7 DEF PressImage
<1> QED BY <1>1, <1>3, <1>5, <1>6, <1>7
-----------------------------------------------------------------------------
(* The steps                                                               *)

LEMMA KnownGestures ==
  ASSUME Places, Tooling, NEW g \in DOMAIN gestures,
         NEW phase \in {"peek", "press", "drag", "done"},
         NEW t \in Tools \cup {Nobody}, Decide(g, phase, t)
  PROVE  /\ \A h \in DOMAIN gestures' : gestures'[h].tool \in Tools \cup {Nobody}
         /\ g \in Numbers
<1>1. t \in AllTools \cup {Nobody}
  BY ToolsAssumption DEF AllTools
<1>2. /\ DOMAIN gestures' = DOMAIN gestures /\ gestures'[g].tool = t
      /\ \A h \in DOMAIN gestures \ {g} : gestures'[h] = gestures[h]
  BY <1>1, DecideEffect DEF Places
<1>3. g \in Numbers
  BY DEF Places, TypeOK, Numbers
<1> QED BY <1>2, <1>3 DEF Tooling, Known

LEMMA ToolingStays ==
  ASSUME Tooling, UNCHANGED <<ui, builder, calls, late>>,
         \A h \in DOMAIN gestures' : gestures'[h].tool \in Tools \cup {Nobody}
  PROVE  Tooling'
BY DEF Tooling, Obedient, Led, Drawn, Known

LEMMA ToolingDown ==
  ASSUME Places, Tooling, NEW p \in Pointers, PointerDown(p)
  PROVE  Tooling'
<1> DEFINE new == [pointer |-> p, phase |-> "peek", tool |-> Nobody]
<1>1. gestures' = Append(gestures, new) /\ UNCHANGED <<ui, builder, calls, late>>
  BY DEF PointerDown, toolVars, panelVars
<1>2. new.tool = Nobody
  OBVIOUS
<1> HIDE DEF new
<1>3. \A h \in DOMAIN gestures' :
        \/ gestures'[h] = new
        \/ h \in DOMAIN gestures /\ gestures'[h] = gestures[h]
  BY <1>1 DEF Places, TypeOK
<1>4. \A h \in DOMAIN gestures' : gestures'[h].tool \in Tools \cup {Nobody}
  BY <1>2, <1>3 DEF Tooling, Known
<1> QED BY <1>1, <1>4, ToolingStays

LEMMA ToolingMove ==
  ASSUME Places, Tooling, NEW p \in Pointers, PointerMove(p)
  PROVE  Tooling'
<1> DEFINE g == current[p]
<1>1. g \in DOMAIN gestures
  BY DEF PointerMove, Places, TypeOK
<1>2. CASE UNCHANGED <<gestures, toolVars>>
  BY <1>2, ToolingStays DEF toolVars, Tooling, Known
<1>3. ASSUME NEW t \in Takers(DragTools), Decide(g, "drag", t), DragBegins(t, g)
      PROVE  Tooling'
  <2>1. t \in DragTools \cup {Nobody} /\ t \in Tools \cup {Nobody}
    BY <1>3, TakersFit, TakersKnown
  <2>2. /\ \A h \in DOMAIN gestures' : gestures'[h].tool \in Tools \cup {Nobody}
        /\ g \in Numbers
    BY <1>1, <1>3, <2>1, KnownGestures
  <2>3. UNCHANGED <<builder, calls, late>>
    BY <1>3 DEF DragBegins
  <2>4. CASE t \in {"pen", "line", "shape"}
    <3>1. t \in Tools /\ t # Nobody /\ ui' = Start(ui, t, g)
      BY <1>3, <2>1, <2>4 DEF DragBegins, Nobody
    <3>2. UiOK(ui') /\ Obedient' /\ ui'.active = ui.active \cup {t}
      BY <2>2, <2>3, <3>1, StartKeeps
    <3> QED BY <2>2, <2>3, <2>4, <3>2 DEF Tooling, Drawn, Known
  <2>5. CASE t \notin {"pen", "line", "shape"}
    <3>1. ui' = ui
      BY <1>3, <2>5 DEF DragBegins
    <3> QED BY <2>2, <2>3, <3>1, ToolingStays
  <2> QED BY <2>4, <2>5
<1> QED BY <1>2, <1>3 DEF PointerMove

LEMMA ToolingUp ==
  ASSUME Places, Tooling, NEW p \in Pointers, PointerUp(p)
  PROVE  Tooling'
<1> DEFINE g == current[p]
<1>1. g \in DOMAIN gestures
  BY DEF PointerUp, Places, TypeOK
<1>2. CASE UNCHANGED <<gestures, toolVars>>
  BY <1>2, ToolingStays DEF toolVars, Tooling, Known
<1>3. ASSUME NEW t \in Takers(ClickTools), Decide(g, "done", t), Press(t, g)
      PROVE  Tooling'
  <2>1. t \in ClickTools \cup {Nobody} /\ t \in Tools \cup {Nobody}
    BY <1>3, TakersFit, TakersKnown
  <2>2. /\ \A h \in DOMAIN gestures' : gestures'[h].tool \in Tools \cup {Nobody}
        /\ g \in Numbers
    BY <1>1, <1>3, <2>1, KnownGestures
  <2>3. UiOK(ui') /\ Obedient' /\ Drawn' /\ KnownCalls
    BY <1>3, <2>1, <2>2, PressKeeps
  <2> QED BY <2>2, <2>3 DEF Tooling, Known, KnownCalls
<1>4. CASE /\ gestures[g].phase = "drag" /\ Decide(g, "done", gestures[g].tool)
           /\ DragEnds(gestures[g].tool, g)
  <2> DEFINE t == gestures[g].tool
  <2>1. t \in Tools \cup {Nobody} /\ t \in DragTools \cup {Nobody}
    BY <1>1, <1>4 DEF Places, DragsFit, Tooling, Known
  <2>2. /\ \A h \in DOMAIN gestures' : gestures'[h].tool \in Tools \cup {Nobody}
        /\ g \in Numbers
    BY <1>1, <1>4, <2>1, KnownGestures
  <2>3. DragEnds(t, g)
    BY <1>4
  <2> HIDE DEF t
  <2>4. UiOK(ui') /\ Obedient' /\ Drawn' /\ KnownCalls
    BY <2>1, <2>2, <2>3, DragKeeps
  <2> QED BY <2>2, <2>4 DEF Tooling, Known, KnownCalls
<1> QED BY <1>2, <1>3, <1>4 DEF PointerUp

LEMMA ToolingTimeout ==
  ASSUME Places, Tooling, NEW g \in DOMAIN gestures, FirstTimeout(g) \/ EndTimeout(g)
  PROVE  Tooling'
<1>1. UNCHANGED <<ui, builder, calls, late>>
  BY DEF FirstTimeout, EndTimeout, toolVars
<1>2. \A h \in DOMAIN gestures' : gestures'[h].tool \in Tools \cup {Nobody}
  <2>1. CASE FirstTimeout(g)
    BY <2>1, KnownGestures DEF FirstTimeout
  <2>2. CASE EndTimeout(g)
    BY <2>2, KnownGestures DEF EndTimeout
  <2> QED BY <2>1, <2>2
<1> QED BY <1>1, <1>2, ToolingStays

LEMMA ToolingAnswer ==
  ASSUME Places, Tooling, NEW c \in calls, Answer(c)
  PROVE  Tooling'
<1> DEFINE t == c.tool
           g == c.gesture
<1>1. calls' = calls \ {c} /\ EndAction(ui, t, g) /\ UNCHANGED <<builder, gestures>>
  BY DEF Answer, inputVars
<1>2. t \in Tools /\ t \in {"pen", "text", "image"} /\ g \in Numbers
  BY DEF Tooling, Known, Places, TypeOK, CallRecords
<1>3. UiOK(ui) /\ (~late => Led(ui))
  BY DEF Tooling, Obedient
<1> HIDE DEF t, g
<1>4. UiOK(ui') /\ Obedient' /\ ui'.active = ui.active \ {t}
  BY <1>1, <1>2, <1>3, EndKeeps
<1>5. Drawn'
  BY <1>1, <1>2, <1>4 DEF Tooling, Drawn
<1> QED BY <1>1, <1>4, <1>5 DEF Tooling, Known

\* A user chooses or cancels a tool.
LEMMA ToolingClick ==
  ASSUME Tooling, CancelAction, UNCHANGED <<gestures, calls, late>>, NEW u,
         ui' = u, UiOK(u), u.active = ui.active \ {ui.state.tool},
         Led(ui) => Led(u)
  PROVE  Tooling'
<1>1. Drawn'
  <2>1. CASE ui.state.tool = "polygon" /\ "polygon" \in ui.active
    BY <2>1 DEF CancelAction, Finish, Tooling, Drawn
  <2>2. CASE ~(ui.state.tool = "polygon" /\ "polygon" \in ui.active)
    BY <2>2 DEF CancelAction, Tooling, Drawn
  <2> QED BY <2>1, <2>2
<1>2. Obedient'
  BY DEF Obedient, Tooling
<1> QED BY <1>1, <1>2 DEF Tooling, Known

LEMMA ToolingChoice ==
  ASSUME Places, Tooling, NEW t \in Tools, ClickIcon(t)
  PROVE  Tooling'
<1>1. CASE ui' = Cancel(ui)
  <2> DEFINE u == Cancel(ui)
  <2>1. /\ UiOK(u) /\ u.state = NoTool
        /\ ToSet(u.listening) = ToSet(ui.listening) \ {ui.state.tool}
        /\ u.active = ui.active \ {ui.state.tool}
    BY CancelOK DEF Tooling
  <2>2. ui' = u
    BY <1>1
  <2> HIDE DEF u
  <2>3. Led(ui) => Led(u)
    BY <2>1 DEF Led, NoTool
  <2> QED BY <2>1, <2>2, <2>3, ToolingClick DEF ClickIcon, inputVars
<1>2. CASE ui' = Choose(ui, t)
  <2> DEFINE u == Choose(ui, t)
  <2>1. /\ UiOK(u) /\ u.state.tool = t
        /\ ToSet(u.listening) = (ToSet(ui.listening) \ {ui.state.tool}) \cup {t}
        /\ u.active = ui.active \ {ui.state.tool}
    BY ChooseOK DEF Tooling
  <2>2. ui' = u
    BY <1>2
  <2> HIDE DEF u
  <2>3. Led(ui) => Led(u)
    BY <2>1, NobodyIsNoTool DEF Led
  <2> QED BY <2>1, <2>2, <2>3, ToolingClick DEF ClickIcon, inputVars
<1> QED BY <1>1, <1>2 DEF ClickIcon

LEMMA ToolingCancel ==
  ASSUME Places, Tooling, CancelPanel
  PROVE  Tooling'
<1> DEFINE u == Cancel(ui)
<1>1. /\ UiOK(u) /\ u.state = NoTool
      /\ ToSet(u.listening) = ToSet(ui.listening) \ {ui.state.tool}
      /\ u.active = ui.active \ {ui.state.tool}
  BY CancelOK DEF Tooling
<1>2. ui' = u
  BY DEF CancelPanel
<1> HIDE DEF u
<1>3. Led(ui) => Led(u)
  BY <1>1 DEF Led, NoTool
<1> QED BY <1>1, <1>2, <1>3, ToolingClick DEF CancelPanel, inputVars

LEMMA ToolingStep ==
  ASSUME Places, Tooling, [Next]_vars
  PROVE  Tooling'
<1>0. ASSUME UNCHANGED <<gestures, ui, builder, calls, late>> PROVE Tooling'
  BY <1>0, ToolingStays DEF Tooling, Known
<1>1. ASSUME NEW p \in Pointers, PointerDown(p) PROVE Tooling'
  BY <1>1, ToolingDown
<1>2. ASSUME NEW p \in Pointers, PointerMove(p) PROVE Tooling'
  BY <1>2, ToolingMove
<1>3. ASSUME NEW p \in Pointers, PointerUp(p) PROVE Tooling'
  BY <1>3, ToolingUp
<1>4. ASSUME NEW p \in Pointers, CursorTimeout(p) PROVE Tooling'
  BY <1>0, <1>4 DEF CursorTimeout, toolVars, panelVars
<1>5. ASSUME NEW g \in DOMAIN gestures, FirstTimeout(g) \/ EndTimeout(g) PROVE Tooling'
  BY <1>5, ToolingTimeout
<1>6. ASSUME NEW c \in calls, Answer(c) PROVE Tooling'
  BY <1>6, ToolingAnswer
<1>7. ASSUME NEW item \in news, Created(item) PROVE Tooling'
  BY <1>0, <1>7 DEF Created, inputVars
<1>8. ASSUME NEW t \in Tools, ClickIcon(t) PROVE Tooling'
  BY <1>8, ToolingChoice
<1>9. CASE TogglePanel
  BY <1>0, <1>9 DEF TogglePanel, inputVars, toolVars
<1>10. CASE CancelPanel
  BY <1>10, ToolingCancel
<1>11. CASE UNCHANGED vars
  BY <1>0, <1>11 DEF vars, inputVars, toolVars, panelVars
<1> QED BY <1>1, <1>2, <1>3, <1>4, <1>5, <1>6, <1>7, <1>8, <1>9, <1>10, <1>11 DEF Next

(* The invariant of the tools, the tool state and what runs (Tool.ts,      *)
(* UIManager.ts).                                                          *)
THEOREM ToolsAgree == Spec => []Tooling
<1>1. Places /\ Tooling /\ [Next]_vars => Tooling'
  BY ToolingStep
<1> QED BY ToolingInit, <1>1, GesturesInPlace, PTL DEF Spec

(* Until an action ends that its tool's icon no longer shows, a tool       *)
(* listens exactly while its icon is lit, for any number of pointers,      *)
(* presses and clicks (UIManager.ts onIconSelect, cancelTool).             *)
THEOREM Listening == Spec => []OneToolListens
<1>1. Tooling => OneToolListens
  BY DEF Tooling, Obedient, Led, OneToolListens, Selected
<1> QED BY <1>1, ToolsAgree, PTL

(* The action the panel can cancel is the latest of its tool and awaited,  *)
(* and the polygon being drawn belongs to a tool that cancel finishes      *)
(* (Tool.ts start, end and cancel; Polygon.ts cancelAction).               *)
THEOREM Current == Spec => []ActionIsCurrent
<1>1. Tooling => ActionIsCurrent
  BY DEF Tooling, UiOK, Drawn, ActionIsCurrent
<1> QED BY <1>1, ToolsAgree, PTL
=============================================================================
