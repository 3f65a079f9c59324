# A verification of the virtual whiteboard

The whiteboard is a Rust server (`src/project/server/src`) that keeps boards in
memory and on disk, and a TypeScript client (`src/project/client/typescript/src`)
that shows a board and edits it over a WebSocket. This directory holds TLA+ models
of that program, the TLC runs that check them on small instances, and theorems
about them that TLAPS proves for all instances.

## 1. The system

### Components, state and operations

| Component | State | Operations |
|---|---|---|
| Board (`board/active.rs`, `active_helpers.rs`, `method_impls.rs`, `iterate_impls.rs`) | `clients` (info, socket handle, selection of each client), `client_ids`, `selected_items` (owner of each selectable item), `active_paths`, the canvas | `handle_message`: session requests, connect, disconnect, twelve methods, two iterates; `send_notify_c` |
| ActiveCanvas (`canvas/active.rs`) | `next_id`, `item_ids`, `items` | `add_item`, `delete_item`, `get_ref`, `get_item_ids`, `scan_items` |
| Board manager and files (`board/manager.rs`, `board/file.rs`, `main.rs`) | table of boards (file, loaded or not), the file and its temporary twin | `load_board`, `get_or_refresh`, `autosave`, `load_canvas`, `save_canvas` |
| Sessions (`client.rs`, `board/board.rs`) | registry of sessions, one task pair per socket, the queue to the board | create session, connect, message, disconnect |
| Protocol (`message/*.rs`) | call ids, the part counter of an iterate | answer, reject, flush, finalise |
| RawClient (`client/RawClient.ts`) | pending calls, receivers, queue of payloads | call, iterate, dispatch of what arrives |
| Streams (`client/IterateReceiver.ts`, `util/Channel.ts`, `util/AsyncIter.ts`) | next and last part, kept parts, queue, waiting readers | `handlePayload`, `push`, `pop`, `close` |
| BoardTable (`BoardTable.ts`, `Board.ts`) | items, remote clients, own selection | `bootstrap`, notification handlers, own selection |
| Selections (`canvas/Selection.ts`, `SelectionUI.ts`, `Transform.ts`) | the selection root transform (`srt`), the transform of each item in it (`sit`), the drag that goes on | add, move, cancel, drags of the box and of a handle |
| Tools (`tool/*.ts`, `ui/UIManager.ts`) | tool state, filters, the completion of the action of each tool, points of a polygon | select, start, end, cancel |
| Gestures (`canvas/Gesture.ts`, `canvas/Canvas.ts`, `util/TimeoutMap.ts`) | gesture and cursor of each pointer, timers | pointer events, timeouts |
| Properties (`ui/PropertiesEditor.ts`, `ui/ResourcePicker.ts`, `Properties.ts`, `canvas/items/`) | the panel shown, what its inputs show, the stores behind them | choose a panel, type, upload |
| Reactive state (`util/State.ts`, `StateSet.ts`, `ExtensionsImpl.ts`) | values, watchers, microtasks | set, derive, combine, extract, watch |

### How they interact

`load_board` starts a board: one unbounded queue and `BOARD_TASKS = 4` tasks that
each take a message, handle it to its end and take the next. All tasks share the
tables of the board. The tables are concurrent maps whose entries are locked one by
one; `client_ids` is a reader-writer lock. Most handlers hold an entry only between two
statements. These keep one while they wait for another:

* `handle_selection_remove_items` keeps the entry of its client for its whole loop
  (`method_impls.rs:116-150`), and in it the entry of an item in `selected_items` while it waits
  for the item (130);
* `send_notify_c` keeps `client_ids` for reading while it takes the entry of each client in turn
  (`active_helpers.rs:109`);
* `handle_edit_single_item` keeps its item across `send_notify_c` (222-231).

The last two and the first can wait for each other for ever; see the run `stuck`.

Sockets put messages on the queue without waiting. Answers and notifications go to the handle the client has
when they are made, and from there to the socket in order.

### What is hard about it

* Handlers of different clients, and of the same client, interleave at every
  `await`, and `BoardTable` awaits none of the calls that select, move, edit or give up items
  (`BoardTable.ts:279, 285, 307, 313`), so a later call may overtake an earlier one. Two tables record a selection: `selected_items` (who owns an item) and
  `ClientState.selection` (what a client has), and no lock covers both.
* Checks and the acts they allow are separate steps (`EditSingleItem`,
  `DeleteItems`).
* Session, connection and call messages of one client may be handled out of order.
* A panic ends a worker; after the last the queue is closed, and the next
  `load_board` builds another board on the canvas in memory.
* Notifications are sent after the change, by whichever task made it.
* A path passes through four queues: the channel of pointer moves, the calls, the buffer
  each listener has on the server, the parts on the socket. Each can lose or repeat its end.
* In the client one thread runs, but its tasks and microtasks interleave: a tool waits for
  an answer while the user chooses another, pointers come down and are never seen lifted, a
  selection is dragged while items are added to it, an edit of another client meets one's own,
  a state is set within a watcher of another.
* The place of a selected item is a product of three transforms, kept by its holder, by the
  board and by every other client, who each compute it on their own.
* Autosave scans a canvas that goes on changing, and the program may be killed between
  the steps of a save.

What makes each part correct is in section 3; `PROJECT.json` lists every hazard with
its line and the properties that watch it.

## 2. Modules

| Module | Models |
|---|---|
| `Board` | the queue, the workers, sessions and sockets as the board sees them, the methods on selections and items, the canvas, the rebuilt board |
| `BoardInvariants` | the inductive invariants of `Board`: `ItemsInv` about ids, `OwnersInv` about who owns what |
| `BoardProofs` | the theorems about `Board` |
| `BoardViews` | `Board` with what each connected client makes of the notifications: the items it knows, and in whose box it draws them |
| `BoardViewsProofs` | the theorems about `BoardViews` |
| `MCBoard`, `MCBoardViews` | the calls of each run, symmetry |
| `Paths` | one active path on the server: its points, its listeners and their iterate handles, the item it becomes |
| `Channels` | `util/Channel.ts` with its one reader, as values |
| `Drawing` | `Paths` and `Channels` with the pointer, the drag gesture, the path tool, the iterate receivers and `handlePath` of the watchers |
| `DrawingProofs` | the theorems about `Drawing` |
| `LiveLine` | abstract: a line that grows, and viewers who see ever longer beginnings of it |
| `Persistence` | the table of boards, loading, autosave, board files, errors and crashes |
| `BoardStore` | abstract: a store of snapshots, each replaced in one step |
| `PersistenceProofs` | the theorems about `Persistence` |
| `MCPersistence` | which boards share a file |
| `Input` | pointers, cursors and timers, gestures, every tool, the tool state, icons and panels of one client |
| `InputProofs` | the theorems about `Input` |
| `Transforms` | own and remote selections, on the holder, the board and a watcher, over any group of transforms |
| `TransformsProofs` | the theorems about `Transforms` |
| `MCTransforms` | a small group that does not commute |
| `Reactive` | states, watchers, their order and microtasks, for any graph of states |
| `Scene` | `Reactive` with the graph of this client: mapping, selection box, handles, panels and icons |
| `SceneProofs` | the theorems about `Scene` |
| `Editing` | the properties panel, its stores and uploads, edits of selected items by this client and others, the board |
| `EditingProofs` | the theorems about `Editing` |
| `MCEditing` | the types of the items of the runs |

### State and actions of `Board`

`queue` is the channel; `pc`, `msg`, `reply`, `todo`, `done`, `cur`, `tell` are the
locals of each worker task: the phase of its handler, the message, the handle that
`create_handle` captured, the ids its loop has still to visit and has kept, the id a
two-step operation is at, the clients still to notify. `clients`, `clientIds`,
`handle`, `selection`, `lock` are `Board.clients` and `Board.client_ids`; `owner` is
`Board.selected_items` (a partial function: an id outside its domain is not
selectable); `items`, `itemIds`, `nextId` are the canvas.

Each handler is cut where it takes or drops a lock or awaits:

| Handler | Actions |
|---|---|
| `launch` loop, `handle_message` | `Recv`, `SetHandle` |
| `handle_session_request` | `InsertClient`, `RegisterClient`, `StartNotify`, `Notify` |
| `create_handle`, `get_handle` | `CreateHandle` |
| `handle_selection_add_items` | `CheckOwned` per old item, `StartTaking`, `TakeItem` per new item, `UpdateSelection` |
| `handle_selection_remove_items` | `LockClient`, `PickItem` and `RemoveItem` per item, `FinishRemove` |
| `handle_selection_move` | `CheckOwned`, `UpdateSelection` |
| `handle_edit_single_item` | `CheckEdit`, `EditItem`; the item is held (`Holds`) until `Notify` has told everybody |
| `handle_delete_items` | `CheckDelete` and `Unselect` per item, `DropFromSelection`, `DeleteItem` per item |
| `handle_create_item` | `AddItem`, `ListItem`, `OfferItem` |
| `handle_get_active_path` | `LookUpPath` |
| `send_notify_c` | `StartNotify`, `Notify` |
| `get_or_refresh` | `Refresh` |
| sockets | `RequestSession`, `Connect`, `Close`, `LoseSocket`, `Send` |

The lists of ids in calls are sets, visited in any order. Transforms, strokes and
item contents are left out: no property here tells two of them apart. A client sends a call
whenever it likes, whatever else it has in progress: only `PathTool` awaits its answers.

Locks held across a step are `lock` (the entry of a client), `EntryHeld` (the entry of an item in
`selected_items`, while `SelectionRemoveItems` waits for the item) and `ItemHeld` (an item that an edit
holds); the steps that need one wait for it. The maps of `scc` lock a bucket, which may hold several keys:
here a lock is of one key.

`raced` is history: when a worker takes a call while another works on a call of the same client, the ids both
name join it if the two clash, that is if one is a `SelectionRemoveItems` or `DeleteItems` and the other
is of another kind. About such ids the program promises nothing: the handlers check the owner and act in two steps, and the
client's own call comes between. All properties of ownership hold of every other id, although one client's calls
run at once.

`Clinch` names the cyclic wait: an edit that holds its item and has still to tell a client, and the
`SelectionRemoveItems` of that client waiting for the item. `Stop` lets the model stay there, and in a server
that waits for messages (`Idle`), so that TLC reports every other state in which all is stuck.

### `BoardViews`

`view[d]` are the items client `d` knows, each with the other client in whose box it is drawn, when `d` has read
everything sent to it. A socket is FIFO, so the view is advanced when a notification is sent.
`d` ignores notifications of its own calls (`BoardTable.ts:161, 181`): its own box follows what it does and is in
`Transforms`. A `SelectionItemsRemoved` puts its items back on the canvas whatever box they were in, and
ends at the first item `d` does not know (`assume` throws). Nothing in the client binds `ItemsDeleted` and nothing
calls `DeleteItems`, which `ViewsAssumption` says. The reads of `bootstrap` are one moment here; `Transforms` cuts them in two.

| Code | Operators |
|---|---|
| `bootstrap`, `addClient` | `ReadAll`, within `Bootstrap` |
| `ItemCreated`, `SelectionItemsAdded`, `SelectionItemsRemoved` | `SeeItem`, `SeeAdded`, `SeeRemoved` |
| `send_notify_c`, `try_send_payload` | `Tell`: a client without a handle is not told |

`crossed` is history: ids that two handlers at work at the same time, of whatever clients, both name when one gives
up what the other wants, or that a handler names while they are still being created. Their news may reach a client in either order.

### `Paths`, `Channels` and `Drawing`

| Code | Actions and operators |
|---|---|
| `handle_begin_path` | `BeginPath`, then `TellStarted` per client |
| `handle_continue_path`, `add_items`, `flush_response` | `ContinuePath`; whether `PATH_FLUSH_TIME` has passed is left open |
| `handle_end_path`, `finalize` | `EndPath`: the entry is removed before its owner is compared |
| `handle_get_active_path` | `GetActivePath`; `todo!()` ends the worker |
| `Canvas.pointerDown`, `pointerMove`, `pointerUp` | `PointerDown`, `PointerMove`, `PointerUp` |
| `processEvents`, `PathTool.onDragGesture` | `Press`, `StartDrag`, `NextPoint`, `FinishDrag`, `Answer` |
| `Board.handlePath`, `PathHelper.addNodes` | `Watch`, and `Read` with `AddNodes` within `Deliver`; `shown` are the points a watcher has drawn |
| `RawClient.handleMessageObject`, `IterateReceiver.handlePayload` | `Deliver`, `Handle` |

A handler holds the entry of its path from look-up to end, so it is one step. Between the
watchers and the tool the browser runs microtasks to the end before the next event:
a reader that is handed a value has asked for the next one before another message
is dispatched. `Meddle` lets a watcher call `ContinuePath` or `EndPath` on a path that is not its
own. The long-press timer is left out here and part of `Input`: a press without a move ends in
`Press` or goes on to a drag at any time.

### `Persistence`

| Code | Actions |
|---|---|
| `load_board`, `load_canvas` | `LoadBoard`: one step, since it holds the entry and reads one file; ids are given out anew |
| `add_item`, `get_ref`, `delete_item` | `Change`: `AddItem`, `EditItem`, `DeleteItem`, also during a save |
| the loop of `main`, `autosave` | `StartRound`, `PassBy` |
| `save_canvas` | `BeginSave` (create and truncate the temporary file), `ScanItem` per item, `CloseTemp`, `Rename` |
| `unwrap`, `expect` in `save_canvas` | `Panic`: the round ends |
| the process is killed | `Crash`: memory is lost, files stay |

The ids in a file record are history: the file has no ids, they say which item of the
canvas a record is. `steady`, `during` and `spoiled` are history too. `spoiled` is set by the
two errors the code ignores, a failed write of an item and a failed read, after which
nothing is promised.

### `Input`

One step is one task of the event loop with the microtasks it leaves. A gesture is named by the
number of its press, and an action of a tool by its gesture. `ui.completion[t]` is the promise of the
latest action of `t`, `0` when it is settled.

| Code | Actions and operators |
|---|---|
| `Canvas.pointerDown`, `pointerMove`, `pointerUp`, `currentCursors` | `PointerDown`, `PointerMove`, `PointerUp` |
| `TimeoutMap.add`, `push`, `clear` | `AddTimer`, `PushTimer`, `timer` and `strays`; `CursorTimeout` |
| `processEvents` of `Gesture.ts` | `FirstTimeout`, `EndTimeout`, and the choice between press and drag in the pointer's actions |
| `GestureLayer` and its filters | `Takers`, `Pause`, `Resume` |
| `ActionTool.start`, `end`, `cancel`; `onIconSelect`, `cancelTool` | `Start`, `End`, `Cancel`, `Choose` |
| the tools' `onDragGesture`, `onPressGesture` | `DragLine`, `DragShape`, `DragPath`, `DragPan`, `DragPolygon`, `PressShape`, `PressText`, `PressImage`, `PressPolygon`, `PressPick`; `ProcessPoint`, `Finish` |
| answers, `ItemCreated` of an own item | `Answer`, `Created` |
| icons, panels | `ClickIcon`, `CancelPanel`, `TogglePanel` |

Places on the canvas are left out, so whether a point closes a polygon, a press hits an item, or the
selection above the tools takes a gesture is a choice. A pointer may come down again without having
been lifted: its release happened outside the window. `late` is history: an action ended that the
tool state no longer showed, because its tool was cancelled, or another was chosen, while it ran. Its
completion then resets whatever was chosen since.

### `Transforms`

`srt` and `sits` are those of `LocalSelection`, `item` the holder's copies; `board` is what the server
has, `watcher` the table and the `RemoteSelection` of another client. Transforms are elements of any group
(`Matrix`, `Identity`, `Mul`, `Inv`): the properties need no more of matrices, and a point of a line is
moved by the same products. `AddFromTransforms` is the one piece of algebra, used on both sides. A
location update is the new transform of the item.

| Code | Actions |
|---|---|
| `addOwnSelection`, `addFromCanvas`, `addFromTransforms` | `AddOwnSelection`; where the box of several items lies is a choice |
| drags of the box and of the handles, `updateSrt` | `DragStart`, `DragPoint`, `DragEnd`; a box drag goes on from a matrix that is shared with the state |
| the interval that sends `SelectionMove` | `SendSrtUpdate` |
| `cancelSelection`, `getFinalTransforms` | `CancelSelection` |
| a page loaded again, `bootstrap` of a resumed session | `Reload` |
| `handle_selection_add_items`, `_move`, `_remove_items` | `HandleAdd`, `HandleMove`, `HandleRemove` |
| `bootstrap` of another client, in its two reads | `FetchItems`, `AddClient` |
| `bindSelectionEvents`, `RemoteSelection` | `AddItems`, `MoveItems`, `RemoveItems` |

The workers take the calls from one queue in order (`Begin`), change the board in any order (`Handle(k)`) and send
their notifications in any order (`Tell(k)`), `Workers` calls at a time. The checks of an addition are one step and so is the loop
of a removal; `Board` takes them item by item.

`lag`, `overtaken` and `misled` are history and name when the code is known not to show items in the right place:
`lag` is 1 after an addition whose new root transform the watcher has not been told, and 2 when no move can put that right;
`overtaken` says that a worker checked or handled a call before an earlier one did, or that a page was loaded before its calls were
handled; `misled` that the watcher heard two notices in the wrong order or fetched while an item moved.

### `Reactive` and `Scene`

A value is the set of the parts of mutable states it was computed from, with their versions: the map of a
derived state is any function of those. `stack` are the updates in progress, innermost first: the state that is
updated, its value and the watchers it has still to call, the weak ones first and each kind in order of
registration; an update that has called everybody is gone. `tasks` are the microtasks of `watch`. `Call` is one of those calls, `SetPart` is `set` or `updateBy`
of a mutable state and `set` of an extracted one, `RunWrite` a microtask that only writes, `Build` the
constructors of what is made later. `Scene` lists who watches whom, in order of registration, as
the constructors register it; one corner of the border, one stretch handle and one icon stand for
all. `FollowBounds` is the one watcher that sets another state.

`LinksAssumption` says what the constructors of `State.ts` make of any graph: a state registers with its
sources before anybody can watch it, and what is handed to `watch` is no state and watches one thing.
`SceneAssumption` names the states the actions set and who watches them.

### `Editing`

`copy` are the items of the `BoardTable`, `selected` is `self.items`, `current` what the
`ItemPropertyStore` edits (any listing of the edited items), `stored` the stores of the tools, `inputs` what the input elements show.
A struct property builds its inputs twice; `twins` are those built first, which no reload reaches. Nothing reads them, so `Editing.cfg`
leaves them out of the state (`VIEW AllButTwins`); `EditingTwins.cfg` is about them.

| Code | Actions |
|---|---|
| `getPropertyInstance`, `propertiesState`, the panel and its containers | `SchemaFor`, `Refresh`, within `ChooseTool`, `AddOwnSelection`, `CancelSelection` |
| `NumberPropertyUI` and its like, `ItemPropertyStore.set`, `editSelectedItem` | `TypeIn`, `StoreItems`, `StoreTool`, `EditSelectedItems` |
| the second input `StructPropertyUI` makes for a field | `TypeInTwin` |
| `ResourcePicker` | `BeginUpload`, `EndUpload` in any order |
| the workers | `Begin(k)` in the order of the queue, `Handle(k)` in any order |
| `handle_selection_add_items`, `_remove_items` | `HandleAdd`, `HandleRemove` |
| `handle_edit_single_item` | `CheckEdit(k)`, `HandleEdit(k)`: the item is held from its replacement to the end of the notification, so those are one step |
| another client | `OtherTakes`, `OtherChecks`, `OtherEdits`, `OtherFrees` |
| `SingleItemEdited` in `BoardTable` | `HearEdit` |

`astray` is history: items whose foreign edit this client ignored, which it selected while edits of them were under way, which it edited without having
been given them, or of which a worker stored an edit before an earlier one.

## 3. Properties and runs

| Run | Checks | Instance |
|---|---|---|
| `board` | `SelectionsMatch`: a client with no call in progress has in its `ClientState` the items it owns in `selected_items`; `SelectionsDisjoint`: no two readable selections share an item; `EditsByOwner`, `EditTargetExists`, `DeletesOnlyOwned`: what was checked still holds at the act (all of these but for `raced` ids); `SelectableExists`: what can be selected is on the canvas; `Handover`: an item changes hands only by way of being free, and a deleted one never returns; the inductive `OwnersInv`, `ItemsInv`; `TypeOK` | 2 clients that await nothing, 2 workers that may die, 3 calls of 8 kinds, closed and lost sockets, a rebuilt board |
| `live` | `HandlersFinish`: no handler waits for ever, but in a `Clinch`; `QueueDrains`; `ViewsAgree`: at rest, each client knows the items and draws each in the box of its owner, but for `crossed` ids | 2 clients, 2 workers, 2 calls, weak fairness of each worker |
| `stuck` | `EditsAreShared` fails: an edit and a removal wait for each other | 1 client, 2 workers, 3 calls |
| `race` | `EditsOnlyByOwner` fails: an item is freed between the check and the edit | 1 client, 2 workers, 3 calls |
| `views_diverge` | `ViewsConverge` fails | 2 workers |
| `drawing` | `NodesAsDrawn`: the path has the points drawn, in order, whatever others call; `ListenersFollow`: what a watcher shows, what is on the way and what is buffered for it make up the path; `WatchersSeeItem`: who stops watching has seen the whole item; `ToolFinishes`, `WatchersFinish`; `LiveLineSpec`: refinement of `LiveLine` | 3 points, 2 watchers of whom one meddles, 2 workers |
| `store` | `FileWhole`: no half-written file; `SaveInv` (inductive); `SavesKeepItems`: a save takes nothing off the disk that is on the board; `SavedEventually`; `StoreSpec`: refinement of `BoardStore` | 2 boards, 2 contents, 2 changes, 1 failing operation of any kind, 1 crash |
| `input` | `OneToolListens`: a tool listens exactly while its icon is lit, until `late`; `ActionIsCurrent`: the action offered for cancelling is the latest of its tool, and a polygon that is drawn is one cancel finishes; `NothingLost`: every gesture a creating tool took is in one item, in the polygon or with an awaited call; `ActionEnds`, `CursorsExpire` | 2 pointers, 8 kinds of tools, 2 presses, 3 clicks |
| `transforms` | `ItemsStay`: selecting and deselecting move nothing; `BoardAgrees`: board and holder show an item in one place; `WatcherAgrees`: so does a watcher; the last two until `overtaken`, `misled` or `lag` | a box and a line, 6 transforms that do not commute, 2 workers, 2 additions, 1 drag, 1 reload, 2 messages under way |
| `watched` | `WatcherSeesAll` fails: what is added to a selection is shown elsewhere until the next move | as `transforms` |
| `scene` | `Settled`: derived states never lag behind; `Painted`: whatever may be painted is current; `NeverBack`: no element goes back to an older state | 8 mutable states, 4 sets, a selection built at any time |
| `editing` | `CopiesAgree`: at rest, copy and board agree on every item not `astray`; `PanelIsBound`: the panel edits what is selected; `ShownIsStored`: an input shows what its store holds | a shape and a line, 2 workers, 2 edits, 2 selections (of this client and of others), 1 upload |

`MCBoardViews.cfg` is a wider instance of `ViewsAgree`, which passes: three calls, more of them about the item that is created, without liveness.

The following configurations are refuted by TLC, in seconds. They document what the code does not meet,
or why an assumption of another run is needed:

| Configuration | What fails |
|---|---|
| `MCBoardAnswers.cfg` (`MCBoard`) | `AnswersReachCaller`: a call overtakes the `ClientConnected` of its socket and its answer is dropped |
| `MCBoardResume.cfg` (`MCBoard`) | `OpenSocketIsHandle`: the late `Close` of an old socket deafens the new one, although "a session should be able to be resumed where possible" (`Objectives v2.md:189`) |
| `DrawingTail.cfg` (`Drawing`) | `WholeGesture`: points still in the channel when it is closed are lost, although "A path should be drawn along the cursor movement" (`Test table.md:6`) |
| `MCPersistenceNames.cfg` (`MCPersistence`) | `SavesKeepItems`, when two names have one file |
| `InputModes.cfg` (`Input`) | `ModeStays`: a late completion deselects the mode tool chosen since, although mode tools "stay active until deselected" (`Classes and structures.md:184`) |
| `EditingTwins.cfg` (`MCEditing`) | `TwinsShowStored` and `TypedIsStored`: the first of the two inputs of a field does not follow its store, and what is typed into it is not what is stored |
| `TransformsOvertaken.cfg` (`MCTransforms`) | `BoardAlwaysAgrees`: a `SelectionMove` or an addition overtakes an earlier addition, and the board keeps the older transform |

**Bounds.** `MaxCalls` (calls and closed or lost sockets together), `MaxConns` and `MaxBoards` bound the behaviours, not
the states of a handler. Two workers are enough for every race named in the
hazards: each is between two handlers; a longer cycle of locks, of several clients that edit and give up items at once,
needs more. Three calls let one client select, and two
handlers then race over the item; two calls kill both workers and leave one for the board rebuilt. Liveness is
checked with two calls, which reach every wait of the handlers; the runs `board` and `stuck` check three for deadlock.
One item on the canvas and one that may be created give every call an item that is
owned, free, foreign, deleted or unknown. Three points let one be in the channel, one in a call and one
in a listener's buffer at once. Two changes and one error are enough for an item to be
added, edited or deleted on either side of the scan and for each step of a save to fail, and a crash may
come at each of them; two boards let one be loaded while the other is saved. Workers and clients are symmetric where no
liveness is checked. Two pointers and two presses let one action outlive its tool while another gesture goes on; three clicks let
a tool be chosen, cancelled and another chosen. Of transforms only that they form a group matters,
and that they do not commute: six affine maps of the integers modulo 3 are the smallest that show a product in the
wrong order. Two additions give the selection old and new items; a box lends its transform to an empty selection and a line does
not. Four sets of states let one be set while watchers of two others wait. Two items of different types are enough for every schema of a
selection, two selections for an item to be taken by each of two clients, two edits for one to be stored before the other.
`Transforms.cfg` ends a behaviour where a worker has overtaken another or the watcher was misled (`Ordered`): its two invariants promise nothing from then on.

**Fairness.** `FairSpec` assumes weak fairness of each worker's steps: tokio polls a task
that can go on. Locks of the model are taken in any order, so a step blocked again and
again is not promised to happen; the bounded number of calls makes weak fairness
enough. Clients are promised nothing. `Drawing` assumes it of the workers together, of the path tool
and of each watcher (the browser dispatches what has arrived), never of the pointer or of meddlers.
`Persistence` assumes it of the autosave task only. `Input` assumes it of each timer, which the browser
fires, and of the answers the tools await; pointers and users owe nothing, so `ActionEnds` asks in its premise that pointers
are lifted again and again. Deadlock is checked in every run of `Board` and
`Persistence`; `Stop` of `Board` is the only step that may repeat for ever, and only when every worker
waits in `recv` with nothing to receive, or in the cyclic wait that is named. In `Drawing` everything comes to rest when the path has
ended, and in the modules of the client when nothing is done to it, so there it is not checked.

**Assumptions about the outside.** Messages of a socket are dispatched in the order they
arrived, although `onSocketMessage` awaits `Blob.text()`. A scan of the concurrent map
visits every item that is there throughout. A rename replaces the file in one step and is on disk when it
returns; `sync_all` before it puts the contents there.

**What the violations show.** Each is a statement of the documents or comments that the
code does not meet; `PROJECT.json` quotes the lines. `stuck`, `race` and `views_diverge` need two of the four workers. Seen on the way and not given runs:
`handle_selection_remove_items` is not all-or-nothing although
`message/method.rs:212` asks for it, and a created item is not selected by its creator
although `Objectives v2.md:186` lets the client assume it. `item_ids` keeps the ids of deleted items
(`canvas/active.rs:81`). `IterateReceiver` never fills `futureParts`, so a part out of order is lost
(`IterateReceiver.ts:23`). A write error within a save is ignored and the torn file renamed over the good
one (`file.rs:118`). A rejected `ContinuePath` is never answered, and the path tool waits for ever
(`RawClient.ts:108`). Points are flushed to watchers only by a later call, so the last ones
show when the path ends (`method_impls.rs:332`). A resumed session marks none of its items as selected, so they can be
selected twice (`BoardTable.ts:128`).

## 4. Proofs

`BoardProofs` proves for every number of clients, workers, items and calls:

* `TypeCorrect`, `ItemsSafe`, `SelectableItemsExist`: of every behaviour. `SelectableExists`
  is not inductive alone: a handler may be about to offer, withdraw or delete an id.
  `ItemsInv` adds that ids handed out by `next_id` and not yet offered are on the canvas and
  held by one handler (`FreshIds`), that what `DeleteItems` has kept is withdrawn
  (`DeletedWithdrawn`), and that a loop starts with nothing kept.
* `FirstComeFirstServed`: `Handover`, from `ItemsInv`, whatever the clients do.
* `OwnersSafe` and its corollaries `SelectionsAgree`, `SelectionsApart`, `OwnersEdit`,
  `EditsFindTheirItem`, `OwnersDelete`, with any number of calls of a client in progress at once. `OwnersInv` says that
  two handlers of one client that clash have no id in common but `raced` ones (`NoClash`), that a handler is about what its call names
  (`InCalls`), that an entry is locked exactly by the `SelectionRemoveItems` of its client (`LockHeld`), and of all other ids that what
  a handler has kept it owns or has given up (`KeptOwned`) and that the two records of a selection differ by
  exactly what a handler of that client holds (`NearMatch`, `NearDisjoint`). The runs `race` and `stuck` show what the excuse is for.

They rest on `ConstantsAssumption` only: there is a worker, the markers `Free` and `NoOne`
are no clients or workers, the calls are well typed.

`PersistenceProofs` proves for every number of boards, items, failures and crashes:

* `StoreTyped` and `FilesWhole`, from `FilesInv`: the shape of the state, and that a torn
  temporary file was paid for with `spoiled`.
* `SaveSafe` and `NothingLost`, when each board has its own file (`Separate`; `MCPersistenceNames.cfg`
  shows why). `SaveInv` adds to `FilesInv` that ids in files of loaded boards are below `next_id`
  (`SavedIds`), so an id given out during a save is in no file, and that the save has written what it
  has visited and will visit what the file and the board still share (`SaveProgress`).

* `StoreImplemented`: `Separate => (Spec => StoreSpec)`. `LoadBoard` maps to `Open`, `Change`, `BeginSave`, `Rename`,
  `Panic` and `Crash` to `Change`, `Begin`, `Commit`, `Abandon` and `Crash`, every other step to a stutter, until an error is
  ignored. It needs `WrittenInv` beside `SaveInv`: a file holds no id twice, and what a save has written was on the board at some
  moment since it began, which is what `Commit` asks of a snapshot.

They rest on `PersistenceAssumption`: the files are given per board, there is some content.

`TransformsProofs` proves for every group of transforms, any items and any number of workers, additions, drags and
reloads:

* `TransformsTyped` and `BoardFollows`, from `IInv`. `BoardAgrees` speaks of a state without calls under way and is
  not inductive; `Agree` says that the board, as long as no worker has overtaken another, once it has handled the calls under way, has
  the items and the `sits` of the holder, and its `srt` if that was sent.
* `SelectingMovesNothing`: `ItemsStay`, from the type invariant and the algebra of `AddFromTransforms`:
  for items that were there `newSrt * (newSrt^-1 * oldSrt * sit) = oldSrt * sit`, for new ones
  `newSrt * newSrt^-1` is the identity.

* `WatcherFollows`: `WatcherAgrees`, from `WatchInv`, which says what the watcher will hold once it has heard
  the notices under way and whatever the calls under way will send: the transforms of the board unless that is two steps ahead
  (`lag`), and the `srt` of the board when it is level. It needs `Fits`: every addition under way was computed for what the
  board will be when it handles it.

They rest on `GroupAssumption`, `ItemsAssumption` and `WorkersAssumption`.

`InputProofs` proves for any number of pointers, presses, clicks and answers and any selection of tools:

* `GesturesInPlace`, from `Places`: a gesture is nowhere before it is done (`Separate`), then in at most one place, and
  one that a creating tool took is in one (`Kept`). `GesturesKept` is `NothingLost`, a corollary.
* `ToolsAgree`, from `Tooling`: the action of the tool state is the completion of its tool and a polygon in
  progress has a completion (`UiOK`), points of a polygon exist exactly while its tool is active (`Drawn`), and, until
  `late`, the tool that is shown listens and no other (`Obedient`). Without the first parts `OneToolListens` is not inductive: an action that ends with its completion
  settled earlier would take the filter of its tool and leave the icon lit. `Listening` and `Current` are `OneToolListens` and
  `ActionIsCurrent`, corollaries.

They rest on `ToolsAssumption` only: the kinds of tools are those of the program.

`EditingProofs` proves for any items, fields, values and uploads and any number of workers, edits and selections:

* `EditingSound`, of the inductive `IInv`, and its corollaries `PanelBound` and `InputsShowStore`: `PanelIsBound` is
  inductive by itself, and `ShownIsStored` needs it: an input is refreshed from the store the panel is bound to.
* `CopiesFollow`: `CopiesAgree`. It speaks of a state without messages under way, so `IInv` adds `Pipeline`: for every item not
  `astray`, the copy of a selected one is what the last edit of it that is under way will store, or what the board holds, and
  any other is as on the board unless edits or notices of it are under way; and `WireCurrent`: what is on the wire was sent for items this client holds.

They rest on `ValuesAssumption`, `TypesAssumption` and `WorkersAssumption`.

`DrawingProofs` proves for any number of watchers, of clients that meddle, of workers and of points:

* `DrawingSound`, of the inductive `IInv`, and its corollaries `DrawingTyped`, `PathAsDrawn`, `ListenersKeepUp` and `WatchersEndWithItem`. `DrawerInv` says how far the gesture, the tool and the
  path on the server are with respect to each other, and which call is pending (`DrawerCalls`). `WatcherInv` says for every
  watcher that the points of the path are cut in order into those it shows, those in the parts on their way to it
  and those in the buffer of its listener, that parts are numbered in the order of their queue, and that only the last
  is marked complete.
* `DrawingIsLiveLine`: every behaviour implements `LiveLine`. `ContinuePath` maps to `Extend`, `EndPath` to `End`,
  `Deliver` of a part to `See` or `Finish`, the rest to stutters.

They rest on `PathsAssumption` and `MaxPointsAssumption`.

`BoardViewsProofs` proves for any clients, workers, items and calls, whatever clients do:

* `ViewsSound`, of the inductive `ViewsInv`, and `ViewsMeet`, which is `ViewsAgree`. A view differs from the board while a
  handler is between its change and its notification: `Views` says that `d` knows an item or is owed the news of its creation,
  and draws it where it should or is owed news of it. It needs `AllRight`: what a handler has still to tell is true, for every id
  at which it crossed no other (`NoCross`); and `Introduced`: only clients that `send_notify_c` visits have a handle, so that nobody
  is connected who would be left out.

So the order of concurrent handlers at one id is the only reason why views part, and `views_diverge` shows that two workers are
enough. They rest on `ConstantsAssumption` and `ViewsAssumption`.

`SceneProofs` proves for any graph of states and watchers and any number of sets:

* `LinksKept`, of the inductive `SceneInv`. None of the three properties is inductive: each speaks of states that
  are reached by several ways, of which an update in progress has called some. `LinksOK` says it link by link: the link
  is still to be called, or what it brought last, or is on its way in a microtask, is what its source is now; and
  what it brings is never older than what it brought before. `Shape` says that every update in progress passes on
  what its state is now, although inner updates have run since it began: whoever an outer update's state watches
  registered before an inner one's watchers (`Under`), so an inner update never reaches an outer one's state again.
* `StatesSettled`, `LeavesPainted` and `LeavesOnward`, which are `Settled`, `Painted` and `NeverBack`. From links to states
  the step is an induction along the order of registration (`NodeInduction`), which the well-foundedness of
  finite sets gives.

They rest on `LinksAssumption` and `SceneAssumption`.

Model-checked only: liveness (`HandlersFinish`, `QueueDrains`, `ToolFinishes`, `WatchersFinish`,
`SavedEventually`, `ActionEnds`, `CursorsExpire`), which the provers do not reach. Every other property of a passing run is
a theorem.

## 5. Not modelled, and the plan

* Rejections in `RawClient`, which are only logged, its queue of calls before the socket opens, the order in which
  blobs are parsed, the HTTP calls. A model of its own, `RawClient`, would show what never settles.
* The registry of sessions and the sender task of a socket (`client.rs`), a `create_session` that waits on a dead
  board, and read calls such as `GetClientState`: a module `Sessions` composed with `Board`.
* That `ItemCreated` and `PathStarted` are bound among the steps of `bootstrap`: a module `BoardTable`
  composed with `BoardViews`.
* Uploads and scripts (`upload.rs`): a counter of ids and the file system.
* Memory: weak watchers that are collected. Every watcher of `Scene` is held by its element.
* Left out for good: code generation, static pages, SVG attributes, the builders of items, curves of a path, the
  Markdown parser, prototypes and the tooling of the documents. They hold no protocol or shared state.

* The item lock in `Persistence`: `scan_items` waits for an item that an edit holds, so a board stuck in a `Clinch` also
  holds up autosave. `SavedEventually` is about boards that are not.

Theorems, next: an abstract lock service, in which an item is free or held by one client, that `Board` implements but for
`raced` ids; and the same for `Paths` with several paths at once.
