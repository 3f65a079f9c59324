------------------------------- MODULE Input -------------------------------
(***************************************************************************)
(* From the pointer to the tools of one client: pointer events and their   *)
(* cursors (canvas/Canvas.ts, util/TimeoutMap.ts), the choice of a gesture *)
(* (canvas/Gesture.ts), the tools (tool/), and the icons and panels that   *)
(* choose and cancel them (ui/UIManager.ts, ui/Icon.ts, ui/Panel.ts).      *)
(*                                                                         *)
(* An action is one task of the event loop with the microtasks it leaves:  *)
(* a move is read by the loop of a tool before the next event comes.  A    *)
(* tool stands for its kind: "text" is Text and Link, "shape" Rectangle    *)
(* and Ellipse.  Places are left out, so whether a point closes a polygon, *)
(* a press hits an item or a gesture lands on the selection is a choice.   *)
(***************************************************************************)
EXTENDS Naturals, Sequences, SequencesExt

CONSTANTS
  Pointers,    \* pointer ids
  Tools,       \* the kinds of tools on the panels
  MaxGestures, \* bound: pointers pressed
  MaxClicks    \* bound: clicks on icons and panels

DragTools  == {"pen", "line", "shape", "polygon", "pan"}
ClickTools == {"image", "text", "shape", "polygon", "pick"}
ModeTools  == {"pan", "pick"}

ASSUME ToolsAssumption == Tools \subseteq DragTools \cup ClickTools

Nobody == "nobody"

VARIABLES
  gestures,  \* what became of every press of a pointer, in order
  current,   \* activeGestures: the gesture of each pointer, 0 if none
  cursors,   \* currentCursors
  timer,     \* TimeoutMap.map: the timer of a pointer is "none", "set" or "fired"
  strays,    \* timers that add has set and the map has forgotten
  ui,        \* filters of the tools, ToolState, and each tool's active and completion
  builder,   \* points of the polygon that is being drawn
  items,     \* items the tools have asked for
  calls,     \* calls the tools wait for
  news,      \* own items whose ItemCreated has not led to a selection
  picked,    \* this client has selected items
  open,      \* openState of the tool panel
  clicks,    \* clicks so far
  late       \* an action has ended that the tool state no longer showed

inputVars == <<gestures, current, cursors, timer, strays>>
toolVars  == <<ui, builder, items, calls, news, late>>
panelVars == <<picked, open, clicks>>
vars == <<inputVars, toolVars, panelVars>>

NoTool == [tool |-> Nobody, action |-> 0]

Init ==
  /\ gestures = <<>> /\ current = [p \in Pointers |-> 0] /\ cursors = {}
  /\ timer = [p \in Pointers |-> "none"] /\ strays = [p \in Pointers |-> 0]
  /\ ui = [listening |-> <<>>, state |-> NoTool, active |-> {},
           completion |-> [t \in Tools |-> 0]]
  /\ builder = {} /\ items = {} /\ calls = {} /\ news = {}
  /\ picked = FALSE /\ open = TRUE /\ clicks = 0 /\ late = FALSE

-----------------------------------------------------------------------------
(* The steps of a tool on ui.  An action is named after its gesture;       *)
(* completion 0 is a promise that is settled, or none.                     *)

Pause(u, t)  == [u EXCEPT !.listening = RemoveFirst(@, t)]

Resume(u, t) == IF Contains(u.listening, t) THEN u
                ELSE [u EXCEPT !.listening = Append(@, t)]

\* Mutant: the promise of an action that still runs is kept.
StartOnce(u, t, g) ==
  [u EXCEPT !.active = @ \cup {t}, !.completion[t] = IF @ = 0 THEN g ELSE @,
            !.state = IF @.tool = t THEN [@ EXCEPT !.action = g] ELSE @]

\* ActionTool.start, with the onBegin of onIconSelect.
Start(u, t, g) ==
  [u EXCEPT !.active = @ \cup {t}, !.completion[t] = g,
            !.state = IF @.tool = t THEN [@ EXCEPT !.action = g] ELSE @]

\* Mutants: the filter stays on; the promise is not settled.
EndListening(u, t) ==
  [u EXCEPT !.active = @ \ {t}, !.completion[t] = 0,
            !.state = IF u.completion[t] # 0 THEN NoTool ELSE @]

EndUnsettled(u, t) == [Pause(u, t) EXCEPT !.active = @ \ {t}]

\* ActionTool.end: whoever completes an action resets the tool state.
End(u, t) ==
  [Pause(u, t) EXCEPT !.active = @ \ {t}, !.completion[t] = 0,
                      !.state = IF u.completion[t] # 0 THEN NoTool ELSE @]

\* The end of the action g of t comes when another tool, another action of t or
\* none is shown.
Outlived(u, t, g) == u.state.tool # t \/ (t # "polygon" /\ u.state.action # g)

EndAction(u, t, g) == ui' = End(u, t) /\ late' = (late \/ Outlived(u, t, g))

\* cancelTool of the manager; cancel of an action does not settle its promise.
Cancel(u) ==
  IF u.state = NoTool THEN u
  ELSE [Pause(u, u.state.tool) EXCEPT !.active = @ \ {u.state.tool}, !.state = NoTool]

Choose(u, t) == [Resume(Cancel(u), t) EXCEPT !.state = [tool |-> t, action |-> 0]]

\* The first filter that takes the kind of gesture captures it, unless the
\* selection does, which lies above the tools.
Takers(kinds) ==
  LET able(k) == ui.listening[k] \in kinds
      first == {k \in DOMAIN ui.listening : able(k) /\ \A j \in 1 .. k - 1 : ~able(j)}
  IN  {ui.listening[k] : k \in first} \cup (IF picked \/ first = {} THEN {Nobody} ELSE {})

-----------------------------------------------------------------------------
(* What the handlers of the tools do with a gesture                        *)

Create(t, points, by) ==
  LET item == [tool |-> t, points |-> points, by |-> by]
  IN  items' = items \cup {item} /\ news' = news \cup {item}

NoItem == UNCHANGED <<items, news>>

Await(t, g) == calls' = calls \cup {[tool |-> t, gesture |-> g]}

\* finish: the builder becomes an item; by is 0 when the tool is cancelled.
Finish(by) == Create("polygon", builder, by) /\ builder' = {}

ProcessPoint(g) ==
  \/ /\ builder = {}
     /\ ui' = Start(ui, "polygon", g) /\ builder' = {g}
     /\ NoItem /\ UNCHANGED <<calls, late>>
  \/ /\ builder # {}
     /\ Finish(g) /\ EndAction(ui, "polygon", g)
     /\ UNCHANGED calls
  \/ /\ builder # {}
     /\ builder' = builder \cup {g}
     /\ NoItem /\ UNCHANGED <<ui, calls, late>>

\* onDragGesture, at the first move.
DragBegins(t, g) ==
  /\ ui' = IF t \in {"pen", "line", "shape"} THEN Start(ui, t, g) ELSE ui
  /\ UNCHANGED <<builder, items, calls, news, late>>

\* The rest of onDragGesture, once the moves end.
DragLine(t, g) == Create(t, {g}, 0) /\ EndAction(ui, t, g) /\ UNCHANGED <<builder, calls>>

DragShape(t, g) == Create(t, {g}, 0) /\ EndAction(ui, t, g) /\ UNCHANGED <<builder, calls>>

DragPath(t, g) == Await(t, g) /\ UNCHANGED <<ui, builder, items, news, late>>

DragPolygon(t, g) == ProcessPoint(g)

DragPan(t, g) == UNCHANGED toolVars

DragEnds(t, g) ==
  CASE t = "line"    -> DragLine(t, g)
    [] t = "shape"   -> DragShape(t, g)
    [] t = "pen"     -> DragPath(t, g)
    [] t = "polygon" -> DragPolygon(t, g)
    [] t = "pan"     -> DragPan(t, g)
    [] OTHER         -> UNCHANGED toolVars

\* onPressGesture
PressShape(t, g) ==
  /\ Create(t, {g}, 0) /\ EndAction(Start(ui, t, g), t, g)
  /\ UNCHANGED <<builder, calls, picked>>

PressText(t, g) ==
  /\ Await(t, g) /\ ui' = Start(ui, t, g)
  /\ UNCHANGED <<builder, items, news, late, picked>>

\* There may be no image yet.
PressImage(t, g) ==
  \/ UNCHANGED <<toolVars, picked>>
  \/ /\ Await(t, g) /\ ui' = Start(ui, t, g)
     /\ UNCHANGED <<builder, items, news, late, picked>>

PressPolygon(t, g) == ProcessPoint(g) /\ UNCHANGED picked

\* The items that are hit are selected.
PressPick(t, g) == picked' \in {picked, TRUE} /\ UNCHANGED toolVars

Press(t, g) ==
  CASE t = "shape"   -> PressShape(t, g)
    [] t = "text"    -> PressText(t, g)
    [] t = "image"   -> PressImage(t, g)
    [] t = "polygon" -> PressPolygon(t, g)
    [] t = "pick"    -> PressPick(t, g)
    [] OTHER         -> UNCHANGED <<toolVars, picked>>

\* The answer a tool waits for: the pen's last one, or that of CreateItem.
Answer(c) ==
  /\ c \in calls /\ calls' = calls \ {c}
  /\ EndAction(ui, c.tool, c.gesture)
  /\ Create(c.tool, {c.gesture}, 0)
  /\ UNCHANGED <<builder, inputVars, panelVars>>

\* ItemCreated of an own item, with the timeout after it: the item is selected.
Created(item) ==
  /\ item \in news /\ news' = news \ {item}
  /\ picked' = TRUE
  /\ UNCHANGED <<ui, builder, items, calls, late, inputVars, open, clicks>>

-----------------------------------------------------------------------------
(* Pointer events                                                          *)

Decide(g, phase, t) == gestures' = [gestures EXCEPT ![g].phase = phase, ![g].tool = t]

AddTimer(p) ==
  /\ timer' = [timer EXCEPT ![p] = "set"]
  /\ strays' = [strays EXCEPT ![p] = IF timer[p] = "set" THEN @ + 1 ELSE @]

\* A pointer that was released elsewhere comes down again without an up.
PointerDown(p) ==
  LET g == Len(gestures) + 1 IN
  /\ g <= MaxGestures
  /\ gestures' = Append(gestures, [pointer |-> p, phase |-> "peek", tool |-> Nobody])
  /\ current' = [current EXCEPT ![p] = g]
  /\ cursors' = cursors \cup {p}
  /\ AddTimer(p)
  /\ UNCHANGED <<toolVars, panelVars>>

\* Mutant: push clears the timer and sets no other.
PushClears(p) == timer' = [timer EXCEPT ![p] = "none"]

PushTimer(p) == timer' = [timer EXCEPT ![p] = "set"]

PointerMove(p) ==
  LET g == current[p] IN
  /\ g # 0
  /\ PushTimer(p)
  /\ \/ /\ gestures[g].phase = "peek"
        /\ \E t \in Takers(DragTools) : Decide(g, "drag", t) /\ DragBegins(t, g)
     \/ gestures[g].phase # "peek" /\ UNCHANGED <<gestures, toolVars>>
  /\ UNCHANGED <<current, cursors, strays, panelVars>>

PointerUp(p) ==
  LET g == current[p] IN
  /\ g # 0
  /\ cursors' = cursors \ {p}
  /\ timer' = [timer EXCEPT ![p] = "none"]
  /\ current' = [current EXCEPT ![p] = 0]
  /\ \/ /\ gestures[g].phase \in {"peek", "press"}
        /\ \E t \in Takers(ClickTools) : Decide(g, "done", t) /\ Press(t, g)
     \/ /\ gestures[g].phase = "drag"
        /\ Decide(g, "done", gestures[g].tool) /\ DragEnds(gestures[g].tool, g)
        /\ UNCHANGED picked
     \/ gestures[g].phase = "done" /\ UNCHANGED <<gestures, toolVars, picked>>
  /\ UNCHANGED <<strays, open, clicks>>

\* The limits of processEvents: on the first move, then on the end.  No tool
\* takes the long press that is left.
FirstTimeout(g) ==
  /\ gestures[g].phase = "peek" /\ Decide(g, "press", Nobody)
  /\ UNCHANGED <<current, cursors, timer, strays, toolVars, panelVars>>

EndTimeout(g) ==
  /\ gestures[g].phase = "press" /\ Decide(g, "done", Nobody)
  /\ UNCHANGED <<current, cursors, timer, strays, toolVars, panelVars>>

\* The limits of processEvents are shorter than the cursor's.
CursorTimeout(p) ==
  /\ \/ /\ timer[p] = "set"
        /\ current[p] # 0 => gestures[current[p]].phase \in {"drag", "done"}
        /\ timer' = [timer EXCEPT ![p] = "fired"] /\ UNCHANGED strays
     \/ /\ strays[p] > 0
        /\ strays' = [strays EXCEPT ![p] = @ - 1] /\ UNCHANGED timer
  /\ cursors' = cursors \ {p}
  /\ UNCHANGED <<gestures, current, toolVars, panelVars>>

-----------------------------------------------------------------------------
(* Icons and panels: out of reach while a cursor is down (isGesture).      *)

PanelState == IF picked \/ ui.state.action # 0 THEN "cancellable" ELSE "active"

Click == cursors = {} /\ clicks < MaxClicks /\ clicks' = clicks + 1

\* Mutant: a cancelled polygon is dropped.
CancelDrops ==
  /\ builder' = IF ui.state.tool = "polygon" /\ "polygon" \in ui.active THEN {} ELSE builder
  /\ NoItem

\* cancelAction does something for the polygon only.
CancelAction ==
  IF ui.state.tool = "polygon" /\ "polygon" \in ui.active /\ builder # {}
  THEN Finish(0) ELSE UNCHANGED <<builder, items, news>>

\* The edit icons can be seen when their panel is enabled and open.
ClickIcon(t) ==
  /\ t \in ModeTools \/ (PanelState = "active" /\ open)
  /\ Click
  /\ ui' = IF ui.state.tool = t THEN Cancel(ui) ELSE Choose(ui, t)
  /\ CancelAction
  /\ UNCHANGED <<calls, late, picked, open, inputVars>>

TogglePanel ==
  /\ PanelState = "active" /\ Click
  /\ open' = ~open
  /\ UNCHANGED <<toolVars, picked, inputVars>>

\* "cancel" of the panel: the tool, then the selection.
CancelPanel ==
  /\ PanelState = "cancellable"
  /\ Click
  /\ ui' = Cancel(ui) /\ CancelAction
  /\ picked' = FALSE
  /\ UNCHANGED <<calls, late, open, inputVars>>

-----------------------------------------------------------------------------

Next ==
  \/ \E p \in Pointers : PointerDown(p) \/ PointerMove(p) \/ PointerUp(p) \/ CursorTimeout(p)
  \/ \E g \in DOMAIN gestures : FirstTimeout(g) \/ EndTimeout(g)
  \/ \E c \in calls : Answer(c)
  \/ \E item \in news : Created(item)
  \/ \E t \in Tools : ClickIcon(t)
  \/ TogglePanel \/ CancelPanel

Spec == Init /\ [][Next]_vars

\* Timers fire and the server answers; users owe nothing.
FairSpec ==
  /\ Spec
  /\ \A p \in Pointers : WF_vars(CursorTimeout(p))
  /\ \A g \in 1 .. MaxGestures :
       WF_vars(g \in DOMAIN gestures /\ (FirstTimeout(g) \/ EndTimeout(g)))
  /\ WF_vars(\E c \in calls : Answer(c))
-----------------------------------------------------------------------------
Selected == {ui.state.tool} \ {Nobody}

(* A tool listens to gestures exactly while its icon is lit, whatever is   *)
(* chosen and cancelled while actions run, until an action ends after it   *)
(* was cancelled or its tool left: its end resets the tool that was chosen *)
(* since and leaves it listening (UIManager.ts).                           *)
OneToolListens == ~late => ToSet(ui.listening) = Selected

(* The action the panel offers to cancel is the latest of its tool, whose  *)
(* completion is still awaited, and a polygon that is being drawn belongs  *)
(* to a tool that cancel would finish (Tool.ts start and cancel).          *)
ActionIsCurrent ==
  /\ ui.state.action # 0 => ui.completion[ui.state.tool] = ui.state.action
  /\ builder # {} <=> "polygon" \in ui.active

(* No gesture a creating tool has taken is lost, cancelled or not: it is   *)
(* part of exactly one item, of the polygon being drawn, or waited for.    *)
NothingLost ==
  \A g \in DOMAIN gestures :
    LET uses == {i \in items : g \in i.points \cup {i.by}} IN
    /\ \A i, j \in uses : i = j
    /\ gestures[g].phase = "done" /\ gestures[g].tool \in {"pen", "line", "shape", "polygon", "text"}
       => \/ uses # {} /\ g \notin builder
          \/ uses = {} /\ g \in builder
          \/ \E c \in calls : c.gesture = g

(* Every action but a polygon's leaves the panel in the end, if pointers   *)
(* are lifted, unless its own was released where nobody saw it (Canvas.ts, *)
(* pointerUp; Tool.ts, end).                                               *)
InHand(g) ==
  ui.state.action = g /\ ui.state.tool # "polygon"
  /\ (gestures[g].phase = "drag" => current[gestures[g].pointer] = g)

PointersLift == \A p \in Pointers : []<>(current[p] = 0)

ActionEnds == PointersLift => \A g \in 1 .. MaxGestures : InHand(g) ~> ~InHand(g)

(* The panels do not stay out of reach: no cursor stays for ever, even if  *)
(* its pointer is never seen lifted (TimeoutMap.ts).                       *)
CursorsExpire == \A p \in Pointers : p \in cursors ~> p \notin cursors

(* A mode tool stays chosen until the user clicks an icon or the panel.    *)
ModeStays ==
  [][ui.state.tool \in ModeTools /\ ui'.state.tool # ui.state.tool
     => (\E t \in Tools : ClickIcon(t)) \/ CancelPanel]_vars
=============================================================================
