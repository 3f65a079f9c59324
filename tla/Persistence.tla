---------------------------- MODULE Persistence ----------------------------
(***************************************************************************)
(* Boards in memory and on disk: the table of boards and the autosave task *)
(* (board/manager.rs, main.rs), reading and writing a board file           *)
(* (board/file.rs), while the items of the canvas (canvas/active.rs) go on *)
(* changing.  The program may be killed, and the machine lose power, at    *)
(* any time.                                                               *)
(*                                                                         *)
(* load_board and a save hold the entry of their board, so a board is not  *)
(* loaded while it is being saved; loading reads one file and is one step. *)
(* A scan visits each item when it gets to it, and changes go on meanwhile.*)
(***************************************************************************)
EXTENDS Naturals, Sequences, FiniteSets, SequencesExt

CONSTANTS
  Boards,
  Contents,    \* what an item can look like
  FileOf,      \* the file of each board: filenamify of its name
  Faults,      \* I/O operations that may fail: "create", "write", "close", "rename", "read"
  MaxFaults,   \* bound: failing operations
  MaxChanges,  \* bound: changes of items
  MaxCrashes,  \* bound: crashes
  NoBoard

ASSUME PersistenceAssumption ==
  /\ DOMAIN FileOf = Boards /\ NoBoard \notin Boards /\ Contents # {}
  /\ Faults \subseteq {"create", "write", "close", "rename", "read"}

Files == {FileOf[b] : b \in Boards}

VARIABLES
  canvas,    \* the items of the loaded boards, by id
  nextId,    \* ActiveCanvas.next_id
  file,      \* board files: [form, items], items as <<id, content>>; the ids
             \* are not in the file, they say here which item it is
  temp,      \* the temporary file of the save in progress
  round,     \* boards this round of autosave has still to visit
  saving,    \* the board save_canvas is at
  seen,      \* seen_ids
  steady,    \* history: ids on the canvas since the save began
  during,    \* history: all it has had since then, as <<id, content>>
  spoiled,   \* history: an error that may have cost items was ignored
  faults, changes, crashes   \* how many there have been

saveVars == <<round, saving, seen, steady, during>>
counters == <<spoiled, faults, changes, crashes>>
vars == <<canvas, nextId, file, temp, saveVars, counters>>

Pairs(s) == {<<i, s[i]>> : i \in DOMAIN s}
Loaded == DOMAIN canvas
NoFile == [form |-> "none", items |-> <<>>]

\* Which content an item starts with makes no difference.
First == CHOOSE c \in Contents : TRUE
OldFile == [form |-> "ended", items |-> <<<<1, First>>>>]

Init ==
  /\ canvas = <<>> /\ nextId = [b \in Boards |-> 1]
  /\ file \in [Files -> {NoFile, OldFile}]
  /\ temp = NoFile
  /\ round = {} /\ saving = NoBoard /\ seen = {} /\ steady = {} /\ during = {}
  /\ spoiled = FALSE /\ faults = 0 /\ changes = 0 /\ crashes = 0

Fails(op) ==
  /\ op \in Faults /\ faults < MaxFaults
  /\ faults' = faults + 1 /\ spoiled' = (spoiled \/ op \in {"write", "read"})
  /\ UNCHANGED <<changes, crashes>>

-----------------------------------------------------------------------------
(* Loading.                                                                *)

\* The items load_canvas finds, in the order of the file.  A board without
\* items is written as invalid JSON, which does not parse; the caller falls
\* back to an empty canvas, which is what was saved.
ItemsIn(content) == IF content.form = "ended" THEN content.items ELSE <<>>

\* Mutant: the counter of ids does not follow the items that are loaded.
LoadKeepsNextId(b, items) ==
  /\ b \in Boards \ Loaded
  /\ canvas' = [a \in Loaded \cup {b} |->
                  IF a = b THEN [i \in DOMAIN items |-> items[i][2]] ELSE canvas[a]]
  /\ UNCHANGED <<nextId, temp, saveVars>>

\* load_board of a board that is not loaded: ids are given out anew.
Load(b, items) ==
  /\ b \in Boards \ Loaded
  /\ canvas' = [a \in Loaded \cup {b} |->
                  IF a = b THEN [i \in DOMAIN items |-> items[i][2]] ELSE canvas[a]]
  /\ nextId' = [nextId EXCEPT ![b] = Len(items) + 1]
  /\ UNCHANGED <<temp, saveVars>>

Renumbered(items) == [i \in DOMAIN items |-> <<i, items[i][2]>>]

LoadBoard(b) ==
  LET f == FileOf[b]  found == ItemsIn(file[f]) IN
  \/ /\ Load(b, found) /\ UNCHANGED counters
     /\ file' = [file EXCEPT ![f].items = Renumbered(found)]
  \/ Load(b, <<>>) /\ Fails("read") /\ UNCHANGED file

-----------------------------------------------------------------------------
(* The canvas changes, also while it is saved.                             *)

Put(b, items) ==
  /\ canvas' = [canvas EXCEPT ![b] = items]
  /\ changes < MaxChanges /\ changes' = changes + 1
  /\ IF saving = b THEN /\ steady' = steady \cap DOMAIN items
                        /\ during' = during \cup Pairs(items)
                   ELSE UNCHANGED <<steady, during>>
  /\ UNCHANGED <<file, temp, round, saving, seen, spoiled, faults, crashes>>

AddItem(b) ==
  /\ Put(b, [i \in DOMAIN canvas[b] \cup {nextId[b]} |->
               IF i = nextId[b] THEN First ELSE canvas[b][i]])
  /\ nextId' = [nextId EXCEPT ![b] = @ + 1]

EditItem(b, i, c) == Put(b, [canvas[b] EXCEPT ![i] = c]) /\ UNCHANGED nextId

DeleteItem(b, i) == Put(b, Restrict(canvas[b], DOMAIN canvas[b] \ {i})) /\ UNCHANGED nextId

Change(b) ==
  /\ b \in Loaded
  /\ \/ AddItem(b)
     \/ \E i \in DOMAIN canvas[b] : DeleteItem(b, i) \/ \E c \in Contents : EditItem(b, i, c)

-----------------------------------------------------------------------------
(* Autosave.                                                               *)

\* The loop of main.rs: the next round, ten seconds later.
StartRound ==
  /\ round = {} /\ round' = Boards
  /\ UNCHANGED <<canvas, nextId, file, temp, saving, seen, steady, during, counters>>

\* Mutant: a loaded board may be taken for one that is not.
PassByAny(b) ==
  /\ saving = NoBoard /\ b \in round
  /\ round' = round \ {b}
  /\ UNCHANGED <<canvas, nextId, file, temp, saving, seen, steady, during, counters>>

\* The next entry of the table: nothing to save, or its temporary file could
\* not be created or begun, which autosave ignores.
PassBy(b) ==
  /\ saving = NoBoard /\ b \in round
  /\ \/ b \notin Loaded /\ UNCHANGED counters
     \/ b \in Loaded /\ Fails("create")
  /\ round' = round \ {b}
  /\ UNCHANGED <<canvas, nextId, file, temp, saving, seen, steady, during>>

\* Mutant: the board file itself is truncated and written.
BeginSaveInPlace(b) ==
  /\ saving = NoBoard /\ b \in round \cap Loaded
  /\ saving' = b /\ seen' = {}
  /\ temp' = [form |-> "open", items |-> <<>>]
  /\ file' = [file EXCEPT ![FileOf[b]] = [form |-> "open", items |-> <<>>]]
  /\ steady' = DOMAIN canvas[b] /\ during' = Pairs(canvas[b])
  /\ UNCHANGED <<canvas, nextId, round, counters>>

\* File::create truncates what an interrupted save has left.
BeginSave(b) ==
  /\ saving = NoBoard /\ b \in round \cap Loaded
  /\ saving' = b /\ seen' = {}
  /\ temp' = [form |-> "open", items |-> <<>>]
  /\ steady' = DOMAIN canvas[b] /\ during' = Pairs(canvas[b])
  /\ UNCHANGED <<canvas, nextId, file, round, counters>>

Writing(forms) == saving # NoBoard /\ temp.form \in forms

\* Mutant: no seen_ids.
ScanItemAgain(i) ==
  /\ Writing({"open"}) /\ Len(temp.items) <= Cardinality(DOMAIN canvas[saving])
  /\ seen' = seen \cup {i}
  /\ temp' = [temp EXCEPT !.items = Append(@, <<i, canvas[saving][i]>>)]
  /\ UNCHANGED <<canvas, nextId, file, round, saving, steady, during, counters>>

\* The callback of scan_items; what writing the item returns is ignored.
ScanItem(i) ==
  /\ Writing({"open", "torn"})
  /\ i \in DOMAIN canvas[saving] \ seen
  /\ seen' = seen \cup {i}
  /\ \/ /\ temp' = [temp EXCEPT !.items = Append(@, <<i, canvas[saving][i]>>)]
        /\ UNCHANGED counters
     \/ temp' = [temp EXCEPT !.form = "torn"] /\ Fails("write")
  /\ UNCHANGED <<canvas, nextId, file, round, saving, steady, during>>

\* Mutant: the scan may end before it has visited all.
CloseTempEarly ==
  /\ Writing({"open"})
  /\ temp' = [temp EXCEPT !.form = "ended"]
  /\ UNCHANGED <<canvas, nextId, file, saveVars, counters>>

\* A scan visits at least every item that is there all the time.
CloseTemp ==
  /\ Writing({"open"}) /\ steady \subseteq seen
  /\ temp' = [temp EXCEPT !.form = "ended"]
  /\ UNCHANGED <<canvas, nextId, file, saveVars, counters>>

\* A temporary file that was not renamed is truncated before it is used again.
EndSave == saving' = NoBoard /\ temp' = NoFile /\ seen' = {} /\ steady' = {} /\ during' = {}

Rename ==
  /\ Writing({"ended"}) \/ (Writing({"torn"}) /\ steady \subseteq seen)
  /\ file' = [file EXCEPT ![FileOf[saving]] = temp]
  /\ round' = round \ {saving} /\ EndSave
  /\ UNCHANGED <<canvas, nextId, counters>>

\* unwrap and expect: the task of this round panics.
Panic ==
  /\ \/ Writing({"open", "torn"}) /\ steady \subseteq seen /\ Fails("close")
     \/ Writing({"ended"}) /\ Fails("rename")
  /\ round' = {} /\ EndSave
  /\ UNCHANGED <<canvas, nextId, file>>

Autosave ==
  \/ StartRound \/ CloseTemp \/ Rename \/ Panic
  \/ \E b \in Boards : PassBy(b) \/ BeginSave(b)
  \/ saving # NoBoard /\ \E i \in DOMAIN canvas[saving] : ScanItem(i)

-----------------------------------------------------------------------------
\* The program starts again and finds the files; BoardManager::new reads none.
\* A file is synced before it is renamed, and a rename is taken to be atomic
\* and on disk when it returns.
Crash ==
  /\ crashes < MaxCrashes /\ crashes' = crashes + 1 /\ UNCHANGED <<spoiled, faults, changes>>
  /\ canvas' = <<>> /\ nextId' = [b \in Boards |-> 1]
  /\ round' = {} /\ EndSave
  /\ UNCHANGED file

Next ==
  \/ Autosave \/ Crash
  \/ \E b \in Boards : LoadBoard(b) \/ Change(b)

Spec == Init /\ [][Next]_vars

\* The runtime polls the autosave task.
FairSpec == Spec /\ WF_vars(Autosave)

-----------------------------------------------------------------------------
TypeOK ==
  /\ Loaded \subseteq Boards
  /\ \A b \in Loaded : DOMAIN canvas[b] \subseteq 1..(nextId[b] - 1) /\ ToSet(canvas[b]) \subseteq Contents
  /\ \A f \in Files : file[f].form \in {"none", "ended", "torn"}
  /\ round \subseteq Boards /\ saving \in Loaded \cup {NoBoard}

\* A board file is never one that was being written when something failed or
\* the program was killed, unless the error of a write was ignored.
FileWhole == spoiled \/ \A f \in Files : file[f].form \in {"none", "ended"}

Saved(b) == ToSet(file[FileOf[b]].items)
Ids(pairs) == {p[1] : p \in pairs}

\* While a board is loaded, no save of anything takes an item out of its file
\* that is still on the board.
KeepsItems ==
  \A b \in Loaded \cap DOMAIN canvas' :
    spoiled' \/ Ids(Saved(b)) \cap DOMAIN canvas[b] \cap DOMAIN canvas'[b] \subseteq Ids(Saved(b)')
SavesKeepItems == [][KeepsItems]_vars

\* Why it holds: what the file has and the board still has is steady, a save
\* that ends has visited all that is steady, and an id given out anew is in
\* no file.
Forms == {"none", "open", "torn", "ended"}
Content == [form : Forms, items : Seq(Nat \X Contents)]

Shape ==
  /\ Loaded \subseteq Boards /\ canvas = [b \in Loaded |-> canvas[b]]
  /\ nextId \in [Boards -> Nat \ {0}]
  /\ \A b \in Loaded : canvas[b] \in [DOMAIN canvas[b] -> Contents] /\ DOMAIN canvas[b] \subseteq 1..(nextId[b] - 1)
  /\ file \in [Files -> Content] /\ temp \in Content
  /\ \A f \in Files : file[f].form # "open"
  /\ round \subseteq Boards /\ saving \in Loaded \cup {NoBoard} /\ spoiled \in BOOLEAN

TornSpoils == temp.form = "torn" \/ (\E f \in Files : file[f].form = "torn") => spoiled

SavedIds ==
  \A b \in Loaded : Ids(Saved(b)) \subseteq 1..(nextId[b] - 1)

Visited == Ids(ToSet(temp.items))

SaveProgress ==
  saving # NoBoard =>
    /\ temp.form \in {"open", "ended"}
    /\ Visited = seen /\ seen \subseteq 1..(nextId[saving] - 1)
    /\ temp.form = "ended" => steady \subseteq seen
    /\ Ids(Saved(saving)) \cap DOMAIN canvas[saving] \subseteq steady

FilesInv == Shape /\ TornSpoils
SaveInv == FilesInv /\ (spoiled \/ (SavedIds /\ SaveProgress))

\* An item that stays as it is on a loaded board gets to the file.
SavedEventually ==
  \A b \in Boards, i \in 1..(MaxChanges + 1), c \in Contents :
    b \in Loaded /\ <<i, c>> \in Pairs(canvas[b])
      ~> spoiled \/ b \notin Loaded \/ <<i, c>> \notin Pairs(canvas[b]) \/ <<i, c>> \in Saved(b)

\* The files and the tables implement a store of boards, but for errors of
\* reading and writing that the code ignores.
Snapshot(content) ==
  LET items == ToSet(ItemsIn(content)) IN
  [i \in Ids(items) |-> (CHOOSE p \in items : p[1] = i)[2]]

Store == INSTANCE BoardStore WITH
  live <- canvas,
  stored <- [b \in Boards |-> Snapshot(file[FileOf[b]])],
  window <- IF saving = NoBoard THEN {} ELSE {[board |-> saving, steady |-> steady, seen |-> during]}
StoreSpec == Store!Init /\ [][Store!Next \/ spoiled']_(Store!storeVars)
=============================================================================
