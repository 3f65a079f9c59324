------------------------------- MODULE Scene -------------------------------
(***************************************************************************)
(* What follows from what on the canvas and the panels of one client: the  *)
(* coordinate mapping, the border and the handles of its selection, and    *)
(* the icons and panels that the tool state and the selection enable       *)
(* (canvas/CanvasBase.ts, Canvas.ts, SelectionUI.ts, ui/UIManager.ts,      *)
(* Panel.ts, Icon.ts, util/StateSet.ts).  One point of the border, one     *)
(* stretch handle and one icon stand for all.                              *)
(***************************************************************************)
EXTENDS Reactive

CONSTANT MaxSets  \* bound: how often states are set

SceneParts ==
  [mapping |-> {"targetOffset", "stretch", "screenOrigin"},
   cursorPos |-> {"cursorPos"}, elementBounds |-> {"elementBounds"},
   srt |-> {"srt"}, bbox |-> {"bbox"},
   ownItems |-> {"ownItems"}, toolState |-> {"toolState"}, openState |-> {"openState"}]

\* CanvasController.origin and zoom
ScenePicks == [origin |-> {"targetOffset"}, zoom |-> {"stretch"}]

Derived(from, to)  == <<[from |-> from, to |-> to, strong |-> FALSE]>>
Both(one, two, to) == Derived(one, to) \o Derived(two, to)
WatchOn(from, leaf) == Derived(from, leaf)
Watch(from, leaf) == <<[from |-> from, to |-> leaf, strong |-> TRUE]>>

\* getUnscaledPos, with the transform or the point that follows it
Unscaled(pos, unscaled, leaf) ==
  Both("mapping", pos, unscaled) \o WatchOn(unscaled, leaf)

CanvasLinks ==
  WatchOn("mapping", "scaledRoot")
  \o Both("cursorPos", "mapping", "cursorPosition")
  \o Derived("mapping", "origin") \o Derived("mapping", "zoom")
  \o Watch("elementBounds", "screen")

\* SelectionBox
BoxLinks == Watch("srt", "rootTransform") \o Derived("bbox", "size")

BorderLinks == Both("srt", "size", "corner") \o Unscaled("corner", "unscaledCorner", "border")

StretchLinks ==
  Derived("size", "offset")
  \o Both("srt", "offset", "stretchPos") \o Unscaled("stretchPos", "unscaledStretch", "stretchHandle")

RotateLinks ==
  Derived("srt", "extraOffset")
  \o Derived("size", "edge") \o Both("edge", "srt", "srtOffset")
  \o Both("extraOffset", "srtOffset", "totalOffset")
  \o Unscaled("totalOffset", "unscaledTotal", "rotateHandle")

ToolPanelActive ==
  Derived("ownItems", "selectedItems") \o Derived("selectedItems", "count")
  \o Both("count", "toolState", "enabled")

PanelLinks ==
  WatchOn("enabled", "panelColor")
  \o Both("enabled", "openState", "visIcon") \o WatchOn("visIcon", "iconImage")
  \o Both("enabled", "openState", "panelVisible") \o WatchOn("panelVisible", "panelClass")

PropertiesLinks ==
  Both("toolState", "selectedItems", "propertiesState")
  \o WatchOn("propertiesState", "propertiesPanel")

\* The icon's own state is bound to the tool state.
IconLinks ==
  Derived("toolState", "iconState") \o Derived("iconState", "active")
  \o Watch("active", "selectedClass")

SelectionLinks ==
  BoxLinks \o BorderLinks \o StretchLinks \o RotateLinks \o Derived("srt", "inverse")

SceneLinks ==
  CanvasLinks \o ToolPanelActive \o PanelLinks \o PropertiesLinks \o IconLinks \o SelectionLinks

SceneLatecomers == {l.to : l \in ToSet(SelectionLinks)}

\* What the actions below rely on.
ASSUME SceneAssumption ==
  /\ {"cursorPos", "stretch", "openState", "bbox", "targetOffset", "ownItems", "toolState",
      "screenOrigin"} \subseteq Parts
  /\ "corner" \in Latecomers
  \* Only the selection watches its srt; its box does with watch().
  /\ "srt" \in Roots /\ "srt" \in PartsOf["srt"]
  /\ \A l \in ToSet(Links) : l.from = "srt" => l.to \in Latecomers
  /\ [from |-> "srt", to |-> "rootTransform", strong |-> TRUE] \in ToSet(Links)
  \* The watcher of the bounds.
  /\ "elementBounds" \in Roots /\ PartsOf["elementBounds"] = {"elementBounds"}
  /\ [from |-> "elementBounds", to |-> "screen", strong |-> TRUE] \in ToSet(Links)
  /\ "screen" \notin Latecomers

-----------------------------------------------------------------------------

Sets == LET sum[S \in SUBSET Parts] ==
              IF S = {} THEN 0 ELSE LET p == CHOOSE p \in S : TRUE IN version[p] + sum[S \ {p}]
        IN  sum[Parts \ {"screenOrigin"}]

Set(p) ==
  /\ Sets < MaxSets
  /\ SetPart(p, version[p] + 1)
  /\ UNCHANGED <<slots, tasks, alive>>

\* Events of the browser, each a task of its own.
Event == \E p \in {"cursorPos", "elementBounds", "stretch", "openState"} : tasks = <<>> /\ Set(p)

Measured == "size" \in alive /\ tasks = <<>> /\ Set("bbox")

\* The loops of the tools and the calls of the table go on in microtasks.
Pan == Set("targetOffset")
UpdateSrt == "corner" \in alive /\ Set("srt")
ChangeItems == Set("ownItems")
ChangeTool == Set("toolState")

\* The watcher of the bounds sets the origin in the mapping.
FollowBounds ==
  /\ tasks # <<>> /\ Head(tasks).to = "screen"
  /\ \E v \in Head(tasks).value : SetPart("screenOrigin", v[2])
  /\ Slot(Head(tasks))
  /\ tasks' = Tail(tasks)
  /\ UNCHANGED alive

RunOther == tasks # <<>> /\ Head(tasks).to # "screen" /\ RunWrite

\* A restored selection updates its srt when only the box watches it.
CreateSelection ==
  /\ stack = <<>> /\ "corner" \notin alive
  /\ \E restored \in BOOLEAN :
       /\ restored => Sets < MaxSets
       /\ version' = IF restored THEN [version EXCEPT !["srt"] = @ + 1] ELSE version
       /\ Build(Latecomers, version')
       /\ IF restored
          THEN Queue([from |-> "srt", to |-> "rootTransform", value |-> Fresh("srt", version')])
          ELSE UNCHANGED tasks
  /\ UNCHANGED stack

Next ==
  \/ Call \/ RunOther \/ FollowBounds
  \/ Event \/ Measured \/ Pan \/ UpdateSrt \/ ChangeItems \/ ChangeTool
  \/ CreateSelection

Spec == Init /\ [][Next]_vars
=============================================================================
