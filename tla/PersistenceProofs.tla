------------------------- MODULE PersistenceProofs -------------------------
(* What TLAPS proves of Persistence for every number of boards, items,     *)
(* failures and crashes: its safety invariants, and that it implements     *)
(* BoardStore.                                                             *)
EXTENDS Persistence, TLAPS

\* filenamify gives each board a file of its own.
Separate == \A a, b \in Boards : FileOf[a] = FileOf[b] => a = b

USE PersistenceAssumption

-----------------------------------------------------------------------------
(* Sequences of items.                                                     *)

\* What Append adds to the ids that occur.
LEMMA IdsAppend ==
  ASSUME NEW s \in Seq(Nat \X Contents), NEW i \in Nat, NEW c \in Contents
  PROVE  Ids(ToSet(Append(s, <<i, c>>))) = Ids(ToSet(s)) \cup {i}
<1> DEFINE t == Append(s, <<i, c>>)
<1>1. t \in Seq(Nat \X Contents) /\ Len(t) = Len(s) + 1 /\ DOMAIN t = 1..(Len(s) + 1)
  OBVIOUS
<1>2. \A k \in DOMAIN s : k \in DOMAIN t /\ t[k] = s[k]
  OBVIOUS
<1>3. t[Len(s) + 1] = <<i, c>>
  OBVIOUS
<1>4. ToSet(t) = ToSet(s) \cup {<<i, c>>}
  BY <1>1, <1>2, <1>3 DEF ToSet
<1> QED BY <1>4 DEF Ids

\* No items, no ids.
LEMMA IdsEmpty == Ids(ToSet(<<>>)) = {}
BY DEF Ids, ToSet

\* Items that are loaded get the ids 1, 2, ...
LEMMA RenumberedItems ==
  ASSUME NEW s \in Seq(Nat \X Contents)
  PROVE  /\ Renumbered(s) \in Seq(Nat \X Contents)
         /\ Ids(ToSet(Renumbered(s))) = 1..Len(s)
         /\ [i \in DOMAIN s |-> s[i][2]] \in [1..Len(s) -> Contents]
<1>1. DOMAIN s = 1..Len(s) /\ \A i \in DOMAIN s : s[i] \in Nat \X Contents
  OBVIOUS
<1>2. \A i \in DOMAIN s : s[i][2] \in Contents
  BY <1>1
<1>3. Renumbered(s) = [i \in 1..Len(s) |-> <<i, s[i][2]>>]
  BY <1>1 DEF Renumbered
<1>4. Renumbered(s) \in Seq(Nat \X Contents)
  <2>1. \A i \in 1..Len(s) : <<i, s[i][2]>> \in Nat \X Contents
    BY <1>1, <1>2
  <2> QED BY <1>3, <2>1
<1>5. ToSet(Renumbered(s)) = {<<i, s[i][2]>> : i \in 1..Len(s)}
  BY <1>3 DEF ToSet
<1>6. Ids(ToSet(Renumbered(s))) = 1..Len(s)
  <2>1. \A i \in 1..Len(s) : <<i, s[i][2]>> \in ToSet(Renumbered(s)) /\ <<i, s[i][2]>>[1] = i
    BY <1>5
  <2>2. \A p \in ToSet(Renumbered(s)) : p[1] \in 1..Len(s)
    BY <1>5
  <2> QED BY <2>1, <2>2 DEF Ids
<1> QED BY <1>1, <1>2, <1>4, <1>6

-----------------------------------------------------------------------------
(* The shape of the state, and torn files.                                 *)

\* The beginning: no board is loaded, every file is absent or whole.
LEMMA InitFiles == Init => FilesInv
<1> SUFFICES ASSUME Init PROVE FilesInv
  OBVIOUS
<1> USE DEF Init
<1>1. First \in Contents
  BY DEF First
<1>2. OldFile \in Content /\ NoFile \in Content
  <2>1. <<<<1, First>>>> \in Seq(Nat \X Contents) /\ <<>> \in Seq(Nat \X Contents)
    BY <1>1
  <2> QED BY <2>1 DEF OldFile, NoFile, Content, Forms
<1>3. file \in [Files -> Content] /\ temp \in Content
  BY <1>2
<1>4. \A f \in Files : file[f].form \in {"none", "ended"}
  BY DEF OldFile, NoFile
<1>5. Loaded = {} /\ canvas = [b \in Loaded |-> canvas[b]]
  BY DEF Loaded
<1>6. Shape
  <2>1. nextId \in [Boards -> Nat \ {0}]
    OBVIOUS
  <2>2. round \subseteq Boards /\ saving \in Loaded \cup {NoBoard} /\ spoiled \in BOOLEAN
    OBVIOUS
  <2>3. \A f \in Files : file[f].form # "open"
    BY <1>4
  <2> QED BY <1>3, <1>5, <2>1, <2>2, <2>3 DEF Shape
<1>7. TornSpoils
  BY <1>4 DEF TornSpoils, NoFile
<1> QED BY <1>6, <1>7 DEF FilesInv

\* What a board is loaded with: items under the ids 1, 2, ..., below next_id.
LEMMA LoadShape ==
  ASSUME NEW b \in Boards, NEW s \in Seq(Nat \X Contents), Shape, Load(b, s)
  PROVE  /\ Loaded' = Loaded \cup {b} /\ Loaded' \subseteq Boards /\ b \notin Loaded
         /\ canvas' = [a \in Loaded' |-> canvas'[a]]
         /\ nextId' \in [Boards -> Nat \ {0}] /\ nextId'[b] = Len(s) + 1
         /\ \A a \in Loaded : canvas'[a] = canvas[a] /\ nextId'[a] = nextId[a]
         /\ \A a \in Loaded' : /\ canvas'[a] \in [DOMAIN canvas'[a] -> Contents]
                              /\ DOMAIN canvas'[a] \subseteq 1..(nextId'[a] - 1)
         /\ saving' \in Loaded' \cup {NoBoard} /\ saving' = saving
<1> USE DEF Load, Shape
<1>1. Loaded' = Loaded \cup {b} /\ b \notin Loaded
  BY DEF Loaded
<1>2. canvas' = [a \in Loaded' |-> canvas'[a]]
  BY <1>1
<1>3. Len(s) \in Nat /\ nextId' \in [Boards -> Nat \ {0}] /\ nextId'[b] = Len(s) + 1
  OBVIOUS
<1>4. \A a \in Loaded : canvas'[a] = canvas[a] /\ nextId'[a] = nextId[a]
  BY <1>1
<1>5. canvas'[b] = [i \in DOMAIN s |-> s[i][2]] /\ DOMAIN s = 1..Len(s)
  BY <1>1
<1>6. canvas'[b] \in [1..Len(s) -> Contents] /\ DOMAIN canvas'[b] = 1..Len(s)
  BY <1>5, RenumberedItems
<1>7. \A a \in Loaded' : /\ canvas'[a] \in [DOMAIN canvas'[a] -> Contents]
                        /\ DOMAIN canvas'[a] \subseteq 1..(nextId'[a] - 1)
  BY <1>1, <1>3, <1>4, <1>6
<1> QED BY <1>1, <1>2, <1>3, <1>4, <1>7 DEF saveVars

\* What a change leaves: the other boards, and ids below next_id.
LEMMA ChangeShape ==
  ASSUME NEW b \in Boards, Shape, Change(b)
  PROVE  /\ Loaded' = Loaded /\ b \in Loaded
         /\ canvas' = [a \in Loaded' |-> canvas'[a]]
         /\ nextId' \in [Boards -> Nat \ {0}]
         /\ \A a \in Loaded : DOMAIN canvas'[a] \subseteq DOMAIN canvas[a] \cup {nextId[a]}
         /\ \A a \in Loaded : nextId'[a] \in {nextId[a], nextId[a] + 1}
         /\ \A a \in Loaded' : /\ canvas'[a] \in [DOMAIN canvas'[a] -> Contents]
                              /\ DOMAIN canvas'[a] \subseteq 1..(nextId'[a] - 1)
<1> USE DEF Shape
<1>0. b \in Loaded
  BY DEF Change
<1> DEFINE Fits(g, n) == g \in [DOMAIN g -> Contents] /\ DOMAIN g \subseteq 1..(n - 1)
<1>1. ASSUME NEW g, Put(b, g), Fits(g, nextId'[b]), DOMAIN g \subseteq DOMAIN canvas[b] \cup {nextId[b]},
             nextId' \in [Boards -> Nat \ {0}], nextId'[b] \in {nextId[b], nextId[b] + 1},
             \A a \in Boards \ {b} : nextId'[a] = nextId[a]
      PROVE  /\ Loaded' = Loaded
             /\ canvas' = [a \in Loaded' |-> canvas'[a]]
             /\ \A a \in Loaded : DOMAIN canvas'[a] \subseteq DOMAIN canvas[a] \cup {nextId[a]}
             /\ \A a \in Loaded : nextId'[a] \in {nextId[a], nextId[a] + 1}
             /\ \A a \in Loaded' : Fits(canvas'[a], nextId'[a])
  <2>1. canvas' = [canvas EXCEPT ![b] = g]
    BY <1>1 DEF Put
  <2>2. Loaded' = Loaded
    BY <2>1 DEF Loaded
  <2>3. canvas'[b] = g /\ \A a \in Loaded \ {b} : canvas'[a] = canvas[a]
    BY <1>0, <2>1
  <2>4. canvas' = [a \in Loaded' |-> canvas'[a]]
    BY <2>1, <2>2
  <2>5. \A a \in Loaded \ {b} : Fits(canvas'[a], nextId'[a])
    BY <1>1, <2>3
  <2>6. Fits(canvas'[b], nextId'[b])
    BY <1>1, <2>3
  <2> QED BY <1>1, <2>2, <2>3, <2>4, <2>5, <2>6
<1>2. CASE AddItem(b)
  <2> DEFINE g == [i \in DOMAIN canvas[b] \cup {nextId[b]} |->
                     IF i = nextId[b] THEN First ELSE canvas[b][i]]
  <2>1. Put(b, g) /\ nextId' = [nextId EXCEPT ![b] = @ + 1]
    BY <1>2 DEF AddItem
  <2>2. First \in Contents
    BY DEF First
  <2>3. canvas[b] \in [DOMAIN canvas[b] -> Contents] /\ DOMAIN canvas[b] \subseteq 1..(nextId[b] - 1)
    BY <1>0
  <2>4. nextId' \in [Boards -> Nat \ {0}] /\ nextId'[b] = nextId[b] + 1 /\ nextId[b] \in Nat \ {0}
        /\ \A a \in Boards \ {b} : nextId'[a] = nextId[a]
    BY <2>1
  <2>5. Fits(g, nextId'[b])
    BY <2>2, <2>3, <2>4
  <2>6. DOMAIN g \subseteq DOMAIN canvas[b] \cup {nextId[b]}
    OBVIOUS
  <2> HIDE DEF g
  <2> QED BY <1>0, <1>1, <2>1, <2>4, <2>5, <2>6
<1>3. ASSUME NEW i \in DOMAIN canvas[b], DeleteItem(b, i) \/ \E c \in Contents : EditItem(b, i, c)
      PROVE  \E g : /\ Put(b, g) /\ nextId' = nextId
                    /\ g \in [DOMAIN g -> Contents] /\ DOMAIN g \subseteq DOMAIN canvas[b]
  <2>0. canvas[b] \in [DOMAIN canvas[b] -> Contents]
    BY <1>0
  <2>1. CASE DeleteItem(b, i)
    <3>1. Put(b, Restrict(canvas[b], DOMAIN canvas[b] \ {i})) /\ nextId' = nextId
      BY <2>1 DEF DeleteItem
    <3>2. Restrict(canvas[b], DOMAIN canvas[b] \ {i}) \in [DOMAIN canvas[b] \ {i} -> Contents]
      BY <2>0 DEF Restrict
    <3> QED BY <3>1, <3>2
  <2>2. CASE \E c \in Contents : EditItem(b, i, c)
    <3>1. PICK c \in Contents : EditItem(b, i, c)
      BY <2>2
    <3>2. Put(b, [canvas[b] EXCEPT ![i] = c]) /\ nextId' = nextId
      BY <3>1 DEF EditItem
    <3>3. [canvas[b] EXCEPT ![i] = c] \in [DOMAIN canvas[b] -> Contents]
      BY <2>0
    <3> QED BY <3>2, <3>3
  <2> QED BY <1>3, <2>1, <2>2
<1>4. CASE \E i \in DOMAIN canvas[b] : DeleteItem(b, i) \/ \E c \in Contents : EditItem(b, i, c)
  <2>1. PICK g : /\ Put(b, g) /\ nextId' = nextId
                 /\ g \in [DOMAIN g -> Contents] /\ DOMAIN g \subseteq DOMAIN canvas[b]
    BY <1>3, <1>4
  <2>2. DOMAIN canvas[b] \subseteq 1..(nextId[b] - 1)
    BY <1>0
  <2> QED BY <1>0, <1>1, <2>1, <2>2
<1> QED BY <1>0, <1>2, <1>4 DEF Change, AddItem

\* A file in the form the store expects, whatever was in it before.
LEMMA FileReplaced ==
  ASSUME NEW f \in Files, NEW content \in Content, content.form # "open", Shape,
         file' = [file EXCEPT ![f] = content]
  PROVE  file' \in [Files -> Content] /\ \A g \in Files : file'[g].form # "open"
BY DEF Shape

\* Every step keeps the shape of the state, and a torn file costs spoiled.
LEMMA FilesStep == FilesInv /\ [Next]_vars => FilesInv'
<1> SUFFICES ASSUME FilesInv, [Next]_vars PROVE FilesInv'
  OBVIOUS
<1> USE DEF FilesInv
<1>empty. NoFile \in Content /\ [form |-> "open", items |-> <<>>] \in Content /\ NoFile.form = "none"
  BY DEF Content, Forms, NoFile
<1>0. CASE UNCHANGED vars
  <2>1. Shape' = Shape
    BY <1>0 DEF Shape, vars, saveVars, counters, Loaded
  <2> QED BY <2>1, <1>0 DEF TornSpoils, vars, saveVars, counters
<1>1. ASSUME NEW b \in Boards, LoadBoard(b) PROVE FilesInv'
  <2> DEFINE f == FileOf[b]
             found == ItemsIn(file[f])
  <2>0. f \in Files /\ file[f] \in Content
    BY DEF Files, Shape
  <2>1. found \in Seq(Nat \X Contents) /\ <<>> \in Seq(Nat \X Contents)
    BY <2>0 DEF ItemsIn, Content
  <2>2. CASE Load(b, found) /\ UNCHANGED counters /\ file' = [file EXCEPT ![f].items = Renumbered(found)]
    <3> HIDE DEF found
    <3>1. Renumbered(found) \in Seq(Nat \X Contents)
      BY <2>1, RenumberedItems
    <3>2. file' = [file EXCEPT ![f] = [file[f] EXCEPT !.items = Renumbered(found)]]
      BY <2>2
    <3>3. [file[f] EXCEPT !.items = Renumbered(found)] \in Content
      BY <2>0, <3>1 DEF Content
    <3>4. [file[f] EXCEPT !.items = Renumbered(found)].form = file[f].form
      BY <2>0 DEF Content
    <3> HIDE DEF f
    <3>5. file' \in [Files -> Content] /\ \A g \in Files : file'[g].form = file[g].form
      BY <2>0, <3>2, <3>3, <3>4 DEF Shape
    <3>6. temp' = temp /\ round' = round /\ spoiled' = spoiled
      BY <2>2 DEF Load, saveVars, counters
    <3>7. Shape'
      BY <2>1, <2>2, <3>5, <3>6, LoadShape DEF Shape
    <3> QED BY <3>5, <3>6, <3>7 DEF TornSpoils
  <2>3. CASE Load(b, <<>>) /\ Fails("read") /\ UNCHANGED file
    <3>1. temp' = temp /\ round' = round /\ spoiled' = TRUE /\ file' = file
      BY <2>3 DEF Load, saveVars, Fails
    <3>2. Shape'
      BY <2>1, <2>3, <3>1, LoadShape DEF Shape
    <3> QED BY <3>1, <3>2 DEF TornSpoils
  <2> QED BY <1>1, <2>2, <2>3 DEF LoadBoard
<1>2. ASSUME NEW b \in Boards, Change(b) PROVE FilesInv'
  <2>1. file' = file /\ temp' = temp /\ round' = round /\ saving' = saving /\ spoiled' = spoiled
    BY <1>2 DEF Change, AddItem, EditItem, DeleteItem, Put
  <2>2. Shape'
    BY <1>2, <2>1, ChangeShape DEF Shape
  <2> QED BY <2>1, <2>2 DEF TornSpoils
<1>3. ASSUME UNCHANGED <<canvas, nextId>>, file' \in [Files -> Content], \A g \in Files : file'[g].form # "open",
             temp' \in Content, round' \subseteq Boards, saving' \in Loaded \cup {NoBoard}, spoiled' \in BOOLEAN
      PROVE  Shape'
  <2>1. Loaded' = Loaded
    BY <1>3 DEF Loaded
  <2> QED BY <1>3, <2>1 DEF Shape
<1>4. CASE StartRound
  BY <1>3, <1>4 DEF StartRound, Shape, TornSpoils, counters
<1>5. ASSUME NEW b \in Boards, PassBy(b) PROVE FilesInv'
  BY <1>3, <1>5 DEF PassBy, Shape, TornSpoils, counters, Fails
<1>6. ASSUME NEW b \in Boards, BeginSave(b) PROVE FilesInv'
  <2>1. b \in Loaded
    BY <1>6 DEF BeginSave
  <2> QED BY <1>3, <1>6, <2>1, <1>empty DEF BeginSave, Shape, TornSpoils, counters
<1>7. ASSUME saving # NoBoard, NEW i \in DOMAIN canvas[saving], ScanItem(i) PROVE FilesInv'
  <2>1. file' = file /\ round' = round /\ saving' = saving /\ UNCHANGED <<canvas, nextId>>
    BY <1>7 DEF ScanItem
  <2>2. CASE temp' = [temp EXCEPT !.items = Append(@, <<i, canvas[saving][i]>>)] /\ UNCHANGED counters
    <3>1. i \in Nat /\ canvas[saving][i] \in Contents
      BY <1>7 DEF Shape
    <3>2. temp' \in Content /\ temp'.form = temp.form
      <4>1. temp \in Content /\ temp.items \in Seq(Nat \X Contents)
        BY DEF Shape, Content
      <4>2. Append(temp.items, <<i, canvas[saving][i]>>) \in Seq(Nat \X Contents)
        BY <3>1, <4>1
      <4> QED BY <2>2, <4>1, <4>2 DEF Content
    <3>3. Shape'
      BY <1>3, <2>1, <2>2, <3>2 DEF Shape, counters
    <3> QED BY <2>1, <2>2, <3>2, <3>3 DEF TornSpoils, counters
  <2>3. CASE temp' = [temp EXCEPT !.form = "torn"] /\ Fails("write")
    <3>1. temp' \in Content /\ spoiled' = TRUE
      BY <2>3 DEF Shape, Content, Forms, Fails
    <3>2. Shape'
      BY <1>3, <2>1, <3>1 DEF Shape
    <3> QED BY <3>1, <3>2 DEF TornSpoils
  <2> QED BY <1>7, <2>2, <2>3 DEF ScanItem
<1>8. CASE CloseTemp
  <2>1. temp' \in Content /\ temp'.form = "ended"
    BY <1>8 DEF CloseTemp, Shape, Content, Forms
  <2>2. Shape'
    BY <1>3, <1>8, <2>1 DEF CloseTemp, Shape, saveVars, counters
  <2> QED BY <1>8, <2>1, <2>2 DEF CloseTemp, TornSpoils, saveVars, counters
<1>9. CASE Rename
  <2>0. saving \in Boards /\ FileOf[saving] \in Files /\ temp.form \in {"ended", "torn"}
    BY <1>9 DEF Rename, Writing, Shape, Files
  <2>1. file' = [file EXCEPT ![FileOf[saving]] = temp] /\ temp' = NoFile /\ saving' = NoBoard /\ spoiled' = spoiled
    BY <1>9 DEF Rename, EndSave, counters
  <2>2. file' \in [Files -> Content] /\ \A g \in Files : file'[g].form # "open"
    <3>1. temp \in Content /\ temp.form # "open"
      BY <2>0 DEF Shape
    <3> QED BY <2>0, <2>1, <3>1, FileReplaced
  <2>3. Shape'
    BY <1>3, <1>9, <1>empty, <2>1, <2>2 DEF Rename, Shape
  <2>4. \A g \in Files : file'[g].form = "torn" => temp.form = "torn" \/ file[g].form = "torn"
    BY <2>0, <2>1 DEF Shape
  <2> QED BY <1>empty, <2>1, <2>3, <2>4 DEF TornSpoils
<1>10. CASE Panic
  <2>1. file' = file /\ temp' = NoFile /\ saving' = NoBoard /\ round' = {} /\ spoiled' = spoiled
    BY <1>10 DEF Panic, EndSave, Fails, Shape
  <2>2. Shape'
    BY <1>3, <1>10, <1>empty, <2>1 DEF Panic, Shape
  <2> QED BY <1>empty, <2>1, <2>2 DEF TornSpoils
<1>11. CASE Crash
  <2>1. file' = file /\ temp' = NoFile /\ saving' = NoBoard /\ round' = {} /\ spoiled' = spoiled
    BY <1>11 DEF Crash, EndSave
  <2>2. Loaded' = {} /\ canvas' = [b \in Loaded' |-> canvas'[b]]
    BY <1>11 DEF Crash, Loaded
  <2>3. nextId' \in [Boards -> Nat \ {0}]
    BY <1>11 DEF Crash
  <2>4. Shape'
    BY <1>empty, <2>1, <2>2, <2>3 DEF Shape
  <2> QED BY <1>empty, <2>1, <2>4 DEF TornSpoils
<1> QED BY <1>0, <1>1, <1>2, <1>4, <1>5, <1>6, <1>7, <1>8, <1>9, <1>10, <1>11 DEF Next, Autosave

\* The shape of the state is what TypeOK asks for, and more.
LEMMA ShapeIsTyped == Shape => TypeOK
<1> SUFFICES ASSUME Shape PROVE TypeOK
  OBVIOUS
<1>1. \A b \in Loaded : ToSet(canvas[b]) \subseteq Contents
  <2> SUFFICES ASSUME NEW b \in Loaded PROVE ToSet(canvas[b]) \subseteq Contents
    OBVIOUS
  <2>1. canvas[b] \in [DOMAIN canvas[b] -> Contents]
    BY DEF Shape
  <2> QED BY <2>1 DEF ToSet
<1>2. \A f \in Files : file[f].form \in {"none", "ended", "torn"}
  BY DEF Shape, Content, Forms
<1> QED BY <1>1, <1>2 DEF Shape, TypeOK

\* Types and torn files, of every behaviour.
LEMMA FilesSafe == Spec => []FilesInv
BY InitFiles, FilesStep, PTL DEF Spec

\* Boards, files and the save in progress are well typed in every reachable
\* state, and ids on a canvas stay below next_id (get_id, canvas/active.rs).
THEOREM StoreTyped == Spec => []TypeOK
<1>1. FilesInv => TypeOK
  BY ShapeIsTyped DEF FilesInv
<1> QED BY FilesSafe, <1>1, PTL

\* No crash and no reported error leaves a half-written board file, because a
\* save writes another file and renames it (save_canvas, board/file.rs); only
\* the write errors it ignores can.
THEOREM FilesWhole == Spec => []FileWhole
<1>1. FilesInv => FileWhole
  BY DEF FilesInv, Shape, TornSpoils, FileWhole, Content, Forms
<1> QED BY FilesSafe, <1>1, PTL

-----------------------------------------------------------------------------
(* Saves.                                                                  *)

\* What the store and the save in progress keep, unless an error was ignored.
Sound == spoiled \/ (SavedIds /\ SaveProgress)

\* The invariants hold at the beginning.
LEMMA InitSound == Init => Sound
BY DEF Init, Sound, SavedIds, SaveProgress, Loaded

\* What was spoiled stays so.
LEMMA Unspoiled == Shape /\ [Next]_vars /\ ~spoiled' => spoiled = FALSE
BY DEF Shape, Next, Autosave, LoadBoard, Change, AddItem, EditItem, DeleteItem, Put, StartRound, PassBy, BeginSave, ScanItem, CloseTemp, Rename, Panic, Crash, Fails, vars, counters

\* Every step keeps it, when boards have files of their own.
LEMMA SoundStep == Separate /\ FilesInv /\ FilesInv' /\ Sound /\ [Next]_vars => Sound'
<1> SUFFICES ASSUME Separate, FilesInv, FilesInv', Sound, [Next]_vars, ~spoiled' PROVE SavedIds' /\ SaveProgress'
  BY DEF Sound
<1> USE DEF FilesInv
<1>sound. spoiled = FALSE /\ SavedIds /\ SaveProgress
  <2>1. spoiled = FALSE
    BY Unspoiled
  <2> QED BY <2>1 DEF Sound
<1>0. CASE UNCHANGED vars
  BY <1>0, <1>sound DEF SavedIds, SaveProgress, Visited, Saved, Loaded, vars, saveVars, counters
<1>1. ASSUME NEW b \in Boards, LoadBoard(b) PROVE SavedIds' /\ SaveProgress'
  <2> DEFINE f == FileOf[b]
             found == ItemsIn(file[f])
  <2>0. f \in Files /\ file[f] \in Content
    BY DEF Files, Shape
  <2>1. found \in Seq(Nat \X Contents)
    BY <2>0 DEF ItemsIn, Content
  <2>2. Load(b, found) /\ file' = [file EXCEPT ![f].items = Renumbered(found)]
    BY <1>1 DEF LoadBoard, Fails
  <2> HIDE DEF found
  <2>3. file'[f].items = Renumbered(found) /\ \A g \in Files \ {f} : file'[g] = file[g]
    <3>1. file \in [Files -> Content]
      BY DEF Shape
    <3> QED BY <2>0, <2>2, <3>1 DEF Content
  <2> HIDE DEF f
  <2>4. Ids(Saved(b)') = 1..Len(found)
    BY <2>1, <2>3, RenumberedItems DEF Saved, f
  <2>5. \A a \in Loaded : FileOf[a] \in Files \ {f}
    <3>1. b \notin Loaded /\ Loaded \subseteq Boards
      BY <2>2 DEF Load, Shape
    <3> QED BY <3>1 DEF Separate, Files, f
  <2>6. \A a \in Loaded : Saved(a)' = Saved(a)
    BY <2>3, <2>5 DEF Saved
  <2>7. SavedIds'
    <3>1. Loaded' = Loaded \cup {b} /\ nextId'[b] = Len(found) + 1 /\ Len(found) \in Nat
          /\ \A a \in Loaded : nextId'[a] = nextId[a]
      BY <2>1, <2>2, LoadShape
    <3> QED BY <1>sound, <2>4, <2>6, <3>1 DEF SavedIds
  <2>8. SaveProgress'
    <3> SUFFICES ASSUME saving' # NoBoard PROVE SaveProgress'
      BY DEF SaveProgress
    <3>1. temp' = temp /\ seen' = seen /\ steady' = steady /\ saving' = saving
      BY <2>2 DEF Load, saveVars
    <3>2. saving \in Loaded
      BY <3>1 DEF Shape
    <3>3. canvas'[saving] = canvas[saving] /\ nextId'[saving] = nextId[saving]
      BY <2>1, <2>2, <3>2, LoadShape
    <3> QED BY <1>sound, <2>6, <3>1, <3>2, <3>3 DEF SaveProgress, Visited
  <2> QED BY <2>7, <2>8
<1>2. ASSUME NEW b \in Boards, Change(b) PROVE SavedIds' /\ SaveProgress'
  <2>1. file' = file /\ temp' = temp /\ saving' = saving /\ seen' = seen
    BY <1>2 DEF Change, AddItem, EditItem, DeleteItem, Put
  <2>2. steady' = IF saving = b THEN steady \cap DOMAIN canvas'[b] ELSE steady
    <3>1. \A g : Put(b, g) => steady' = IF saving = b THEN steady \cap DOMAIN canvas'[b] ELSE steady
      <4> SUFFICES ASSUME NEW g, Put(b, g)
                   PROVE  steady' = IF saving = b THEN steady \cap DOMAIN canvas'[b] ELSE steady
        OBVIOUS
      <4>1. canvas'[b] = g
        BY <1>2 DEF Put, Change, Shape, Loaded
      <4> QED BY <4>1 DEF Put
    <3> QED BY <1>2, <3>1 DEF Change, AddItem, EditItem, DeleteItem
  <2>3. Loaded' = Loaded /\ \A a \in Loaded : /\ nextId[a] \in Nat /\ nextId'[a] \in {nextId[a], nextId[a] + 1}
                                            /\ DOMAIN canvas'[a] \subseteq DOMAIN canvas[a] \cup {nextId[a]}
    BY <1>2, ChangeShape DEF Shape
  <2>4. SavedIds'
    BY <1>sound, <2>1, <2>3 DEF SavedIds, Saved
  <2>5. ASSUME saving # NoBoard
        PROVE  Ids(Saved(saving)) \cap DOMAIN canvas'[saving] \subseteq steady'
    <3>1. saving \in Loaded
      BY <2>5 DEF Shape
    <3>2. nextId[saving] \notin Ids(Saved(saving))
      BY <1>sound, <2>3, <3>1 DEF SavedIds
    <3>3. Ids(Saved(saving)) \cap DOMAIN canvas'[saving] \subseteq steady
      BY <1>sound, <2>3, <2>5, <3>1, <3>2 DEF SaveProgress
    <3> QED BY <2>2, <3>3
  <2>6. SaveProgress'
    <3> SUFFICES ASSUME saving # NoBoard PROVE SaveProgress'
      BY <2>1 DEF SaveProgress
    <3>1. saving \in Loaded
      BY DEF Shape
    <3>2. seen \subseteq 1..(nextId'[saving] - 1)
      BY <1>sound, <2>3, <3>1 DEF SaveProgress
    <3>3. temp.form = "ended" => steady' \subseteq seen
      BY <1>sound, <2>2 DEF SaveProgress
    <3> QED BY <1>sound, <2>1, <2>5, <3>2, <3>3 DEF SaveProgress, Visited, Saved
  <2> QED BY <2>4, <2>6
<1>3. UNCHANGED <<canvas, nextId, file>> => SavedIds'
  BY <1>sound DEF SavedIds, Saved, Loaded
<1>4. UNCHANGED <<canvas, nextId, file, temp, saving, seen, steady>> => SaveProgress'
  BY <1>sound DEF SaveProgress, Saved, Visited
<1>5. ASSUME saving' = NoBoard PROVE SaveProgress'
  BY <1>5 DEF SaveProgress
<1>6. CASE StartRound
  BY <1>3, <1>4, <1>6 DEF StartRound
<1>7. ASSUME NEW b \in Boards, PassBy(b) PROVE SavedIds' /\ SaveProgress'
  BY <1>3, <1>4, <1>7 DEF PassBy
<1>8. ASSUME NEW b \in Boards, BeginSave(b) PROVE SavedIds' /\ SaveProgress'
  <2>1. UNCHANGED <<canvas, nextId, file>> /\ saving' = b /\ seen' = {} /\ steady' = DOMAIN canvas[b]
        /\ temp' = [form |-> "open", items |-> <<>>]
    BY <1>8 DEF BeginSave
  <2>2. Visited' = {}
    BY <2>1, IdsEmpty DEF Visited
  <2> QED BY <1>3, <2>1, <2>2 DEF SaveProgress, Saved
<1>9. ASSUME saving # NoBoard, NEW i \in DOMAIN canvas[saving], ScanItem(i) PROVE SavedIds' /\ SaveProgress'
  <2>1. UNCHANGED <<canvas, nextId, file, saving, steady>> /\ seen' = seen \cup {i}
        /\ temp' = [temp EXCEPT !.items = Append(@, <<i, canvas[saving][i]>>)]
    BY <1>9 DEF ScanItem, Fails
  <2>2. i \in 1..(nextId[saving] - 1) /\ canvas[saving][i] \in Contents /\ nextId[saving] \in Nat
    BY <1>9 DEF Shape
  <2>3. temp.items \in Seq(Nat \X Contents) /\ temp' = [temp EXCEPT !.items = Append(temp.items, <<i, canvas[saving][i]>>)]
    BY <2>1 DEF Shape, Content
  <2>4. temp'.items = Append(temp.items, <<i, canvas[saving][i]>>) /\ temp'.form = temp.form
    BY <2>3 DEF Shape, Content
  <2>5. Visited' = Visited \cup {i}
    BY <2>2, <2>3, <2>4, IdsAppend DEF Visited
  <2>6. temp.form = "open"
    BY <1>9, <1>sound DEF ScanItem, Writing, SaveProgress
  <2>7. SaveProgress'
    BY <1>9, <1>sound, <2>1, <2>2, <2>4, <2>5, <2>6 DEF SaveProgress, Saved
  <2> QED BY <1>3, <2>1, <2>7
<1>10. CASE CloseTemp
  <2>1. UNCHANGED <<canvas, nextId, file, saving, seen, steady>> /\ steady \subseteq seen
        /\ temp'.form = "ended" /\ temp'.items = temp.items
    BY <1>10 DEF CloseTemp, saveVars, Shape, Content
  <2>2. SaveProgress'
    BY <1>sound, <2>1 DEF SaveProgress, Saved, Visited
  <2> QED BY <1>3, <2>1, <2>2
<1>11. CASE Rename
  <2>1. UNCHANGED <<canvas, nextId>> /\ saving' = NoBoard /\ file' = [file EXCEPT ![FileOf[saving]] = temp]
    BY <1>11 DEF Rename, EndSave
  <2>2. saving \in Loaded /\ FileOf[saving] \in Files /\ Loaded' = Loaded
    BY <1>11, <2>1 DEF Rename, Writing, Shape, Files, Loaded
  <2>3. \A a \in Loaded \ {saving} : file'[FileOf[a]] = file[FileOf[a]]
    BY <2>1, <2>2 DEF Separate, Shape, Files
  <2>4. file'[FileOf[saving]] = temp
    BY <2>1, <2>2 DEF Shape
  <2>5. Visited \subseteq 1..(nextId[saving] - 1)
    BY <1>11, <1>sound DEF SaveProgress, Rename, Writing
  <2>6. ASSUME NEW a \in Loaded PROVE Ids(ToSet(file'[FileOf[a]].items)) \subseteq 1..(nextId[a] - 1)
    <3>1. CASE a = saving
      BY <2>4, <2>5, <3>1 DEF Visited
    <3>2. CASE a # saving
      BY <1>sound, <2>3, <3>2 DEF SavedIds, Saved
    <3> QED BY <3>1, <3>2
  <2>7. SavedIds'
    BY <2>1, <2>2, <2>6 DEF SavedIds, Saved
  <2> QED BY <1>5, <2>1, <2>7
<1>12. CASE Panic
  BY <1>3, <1>5, <1>12 DEF Panic, EndSave
<1>13. CASE Crash
  <2>1. Loaded' = {} /\ saving' = NoBoard
    BY <1>13 DEF Crash, EndSave, Loaded
  <2> QED BY <1>5, <2>1 DEF SavedIds
<1> QED BY <1>0, <1>1, <1>2, <1>6, <1>7, <1>8, <1>9, <1>10, <1>11, <1>12, <1>13 DEF Next, Autosave

\* What a save keeps and a load renumbers, for boards with files of their own:
\* ids in a file are below next_id, and what the file has of the board being
\* saved and is still on it the save will write (save_canvas, load_canvas).
THEOREM SaveSafe == Separate => (Spec => []SaveInv)
<1> SUFFICES ASSUME Separate PROVE Spec => []SaveInv
  OBVIOUS
<1>1. Init => SaveInv
  BY InitFiles, InitSound DEF SaveInv, Sound
<1>2. SaveInv /\ [Next]_vars => SaveInv'
  BY FilesStep, SoundStep DEF SaveInv, Sound
<1> QED BY <1>1, <1>2, PTL DEF Spec

\* No step keeps less: only a rename touches the file of a loaded board.
LEMMA StepKeepsItems == Separate /\ SaveInv /\ SaveInv' /\ [Next]_vars => [KeepsItems]_vars
<1> SUFFICES ASSUME Separate, SaveInv, SaveInv', Next, ~spoiled', NEW b \in Loaded, b \in Loaded'
             PROVE  Ids(Saved(b)) \cap DOMAIN canvas[b] \cap DOMAIN canvas'[b] \subseteq Ids(Saved(b)')
  BY DEF KeepsItems, Loaded
<1> USE DEF SaveInv, FilesInv
<1>0. FileOf[b] \in Files /\ b \in Boards
  BY DEF Shape, Files
<1>1. ASSUME NEW a \in Boards, LoadBoard(a) PROVE file'[FileOf[b]] = file[FileOf[b]]
  <2>1. a # b
    BY <1>1 DEF LoadBoard, Load
  <2>2. FileOf[a] # FileOf[b]
    BY <1>0, <2>1 DEF Separate
  <2> QED BY <1>0, <1>1, <2>2 DEF LoadBoard, Shape
<1>2. CASE Rename
  <2>1. file' = [file EXCEPT ![FileOf[saving]] = temp] /\ spoiled' = spoiled
    BY <1>2 DEF Rename, counters
  <2>2. spoiled = FALSE
    BY <2>1 DEF Shape
  <2>3. CASE b = saving
    <3>1. file'[FileOf[b]] = temp
      BY <1>0, <2>1, <2>3 DEF Shape
    <3>2. temp.form = "ended" /\ saving # NoBoard /\ SaveProgress
      BY <1>2, <2>2 DEF Rename, Writing, SaveProgress
    <3>3. Ids(Saved(b)) \cap DOMAIN canvas[b] \subseteq Visited
      BY <2>3, <3>2 DEF SaveProgress
    <3> QED BY <3>1, <3>3 DEF Visited, Saved
  <2>4. CASE b # saving
    <3>1. saving \in Boards
      BY <1>2 DEF Rename, Writing, Shape
    <3>2. FileOf[b] # FileOf[saving]
      BY <1>0, <2>4, <3>1 DEF Separate
    <3> QED BY <1>0, <2>1, <3>2 DEF Saved, Shape
  <2> QED BY <2>3, <2>4
<1>3. CASE file' = file
  BY <1>3 DEF Saved
<1>4. ASSUME ~Rename, \A a \in Boards : ~LoadBoard(a) PROVE file' = file
  BY <1>4 DEF Next, Autosave, Change, AddItem, EditItem, DeleteItem, Put, StartRound, PassBy, BeginSave, ScanItem, CloseTemp, Panic, Crash
<1> QED BY <1>1, <1>2, <1>3, <1>4 DEF Saved

\* With a file for each board no save drops an item that is still on its
\* board, whatever changes during the scan, and whatever fails or crashes.
THEOREM NothingLost == Separate => (Spec => SavesKeepItems)
<1> SUFFICES ASSUME Separate PROVE Spec => SavesKeepItems
  OBVIOUS
<1>1. SaveInv /\ SaveInv' /\ [Next]_vars => [KeepsItems]_vars
  BY StepKeepsItems
<1>2. Spec => []SaveInv
  BY SaveSafe
<1> QED BY <1>1, <1>2, PTL DEF Spec, SavesKeepItems

-----------------------------------------------------------------------------
(* The store.                                                              *)

\* No two entries are of one item.
Distinct(s) == \A j, k \in DOMAIN s : s[j][1] = s[k][1] => j = k

\* What the store needs besides SaveInv: files without doubles, a save that
\* has written only what was on the board since it began.
WrittenInv ==
  spoiled \/ /\ \A f \in Files : Distinct(file[f].items)
             /\ saving # NoBoard => /\ Distinct(temp.items) /\ ToSet(temp.items) \subseteq during
                                    /\ Pairs(canvas[saving]) \subseteq during

\* A list without repeated ids stays one when it is given another id.
LEMMA DistinctAppend ==
  ASSUME NEW s \in Seq(Nat \X Contents), NEW i \in Nat, NEW c \in Contents,
         Distinct(s), i \notin Ids(ToSet(s))
  PROVE  /\ Distinct(Append(s, <<i, c>>))
         /\ ToSet(Append(s, <<i, c>>)) = ToSet(s) \cup {<<i, c>>}
<1> DEFINE t == Append(s, <<i, c>>)
<1>1. /\ Len(s) \in Nat /\ DOMAIN s = 1..Len(s) /\ DOMAIN t = 1..(Len(s) + 1)
      /\ \A k \in DOMAIN s : t[k] = s[k]
      /\ t[Len(s) + 1] = <<i, c>>
  OBVIOUS
<1>2. \A k \in DOMAIN s : s[k][1] # i
  BY DEF Ids, ToSet
<1> HIDE DEF t
<1>3. Distinct(t)
  <2> SUFFICES ASSUME NEW j \in DOMAIN t, NEW k \in DOMAIN t, t[j][1] = t[k][1] PROVE j = k
    BY DEF Distinct
  <2>1. \A m \in DOMAIN t : m \in DOMAIN s \/ m = Len(s) + 1
    BY <1>1
  <2>2. t[Len(s) + 1][1] = i
    BY <1>1
  <2> QED BY <1>1, <1>2, <2>1, <2>2 DEF Distinct
<1>4. ToSet(t) = ToSet(s) \cup {<<i, c>>}
  <2>1. \A k \in DOMAIN t : k \in DOMAIN s \/ k = Len(s) + 1
    BY <1>1
  <2>2. \A k \in DOMAIN s : k \in DOMAIN t
    BY <1>1
  <2>3. Len(s) + 1 \in DOMAIN t
    BY <1>1
  <2> QED BY <1>1, <2>1, <2>2, <2>3 DEF ToSet
<1> QED BY <1>3, <1>4 DEF t

\* A file that is read gives every item an id of its own.
LEMMA DistinctRenumbered ==
  ASSUME NEW s \in Seq(Nat \X Contents)
  PROVE  Distinct(Renumbered(s))
<1>1. \A i \in DOMAIN s : Renumbered(s)[i] = <<i, s[i][2]>>
  BY DEF Renumbered
<1>2. DOMAIN Renumbered(s) = DOMAIN s
  BY DEF Renumbered
<1>3. \A i \in DOMAIN s : Renumbered(s)[i][1] = i
  BY <1>1
<1> QED BY <1>2, <1>3 DEF Distinct

\* What a file holds, as items with their ids.
LEMMA ItemsInType ==
  ASSUME NEW content \in Content
  PROVE  ItemsIn(content) \in Seq(Nat \X Contents)
<1>1. <<>> \in Seq(Nat \X Contents)
  OBVIOUS
<1> QED BY <1>1 DEF ItemsIn, Content

\* A snapshot has the items of the file, one entry for each id.
LEMMA SnapshotFacts ==
  ASSUME NEW content \in Content, NEW s, s = ItemsIn(content)
  PROVE  /\ DOMAIN Snapshot(content) = Ids(ToSet(s))
         /\ Snapshot(content) = [i \in Ids(ToSet(s)) |-> Snapshot(content)[i]]
         /\ \A i \in Ids(ToSet(s)) : <<i, Snapshot(content)[i]>> \in ToSet(s)
<1> DEFINE items == ToSet(s)
<1>1. Snapshot(content) = [i \in Ids(items) |-> (CHOOSE p \in items : p[1] = i)[2]]
  BY DEF Snapshot
<1>2. \A p \in items : p = <<p[1], p[2]>>
  <2>1. s \in Seq(Nat \X Contents)
    BY ItemsInType
  <2>2. \A k \in DOMAIN s : s[k] \in Nat \X Contents
    BY <2>1
  <2> QED BY <2>2 DEF ToSet
<1> HIDE DEF items
<1>3. ASSUME NEW i \in Ids(items) PROVE <<i, Snapshot(content)[i]>> \in items
  <2>1. \E p \in items : p[1] = i
    BY DEF Ids
  <2>2. PICK q : q = CHOOSE p \in items : p[1] = i
    OBVIOUS
  <2>3. q \in items /\ q[1] = i
    BY <2>1, <2>2
  <2>4. Snapshot(content)[i] = q[2]
    BY <1>1, <2>2
  <2> QED BY <1>2, <2>3, <2>4
<1>4. DOMAIN Snapshot(content) = Ids(items) /\ Snapshot(content) = [i \in Ids(items) |-> Snapshot(content)[i]]
  BY <1>1
<1> QED BY <1>3, <1>4 DEF items

\* A file that is loaded is what the board is from then on.
LEMMA SnapshotRenumbered ==
  ASSUME NEW content \in Content, NEW s \in Seq(Nat \X Contents), ItemsIn(content) = Renumbered(s)
  PROVE  Snapshot(content) = [i \in DOMAIN s |-> s[i][2]]
<1> DEFINE r == Renumbered(s)
<1>1. /\ DOMAIN Snapshot(content) = Ids(ToSet(r))
      /\ Snapshot(content) = [i \in Ids(ToSet(r)) |-> Snapshot(content)[i]]
      /\ \A i \in Ids(ToSet(r)) : <<i, Snapshot(content)[i]>> \in ToSet(r)
  BY SnapshotFacts
<1>2. Ids(ToSet(r)) = 1..Len(s) /\ DOMAIN s = 1..Len(s)
  BY RenumberedItems
<1>3. ToSet(r) = {<<i, s[i][2]>> : i \in DOMAIN s}
  BY DEF Renumbered, ToSet
<1> HIDE DEF r
<1>4. \A i \in DOMAIN s : Snapshot(content)[i] = s[i][2]
  BY <1>1, <1>2, <1>3
<1> QED BY <1>1, <1>2, <1>4

\* The items that are loaded are those of the snapshot, under new ids.
LEMMA LoadedSame ==
  ASSUME NEW content \in Content, NEW s, s = ItemsIn(content), Distinct(s)
  PROVE  Store!SameContents([i \in DOMAIN s |-> s[i][2]], Snapshot(content))
<1> DEFINE live == [i \in DOMAIN s |-> s[i][2]]
           g == [i \in DOMAIN s |-> s[i][1]]
           T == Ids(ToSet(s))
<1>1. /\ DOMAIN Snapshot(content) = T
      /\ \A i \in T : <<i, Snapshot(content)[i]>> \in ToSet(s)
  BY SnapshotFacts
<1>2. ToSet(s) = {s[k] : k \in DOMAIN s}
  BY DEF ToSet
<1>3. T = {s[k][1] : k \in DOMAIN s}
  BY <1>2 DEF Ids
<1>4. g \in [DOMAIN s -> T]
  BY <1>3
<1>5. \A j, k \in DOMAIN s : g[j] = g[k] => j = k
  BY DEF Distinct
<1>6. \A t \in T : \E k \in DOMAIN s : g[k] = t
  BY <1>3
<1>7. ASSUME NEW k \in DOMAIN s PROVE live[k] = Snapshot(content)[g[k]]
  <2>1. g[k] \in T /\ g[k] = s[k][1]
    BY <1>4
  <2>2. PICK m \in DOMAIN s : s[m] = <<g[k], Snapshot(content)[g[k]]>>
    BY <1>1, <1>2, <2>1
  <2>3. s[m][1] = s[k][1] /\ s[m][2] = Snapshot(content)[g[k]]
    BY <2>1, <2>2
  <2>4. m = k
    BY <2>3 DEF Distinct
  <2> QED BY <2>3, <2>4
<1>8. DOMAIN live = DOMAIN s
  OBVIOUS
<1>9. g \in Store!Bijection(DOMAIN s, T)
  <2> HIDE DEF g, T
  <2> QED BY <1>4, <1>5, <1>6 DEF Store!Bijection, Store!Injection, Store!Surjection, Store!IsInjective
<1> HIDE DEF g, live
<1>10. Store!SameContents(live, Snapshot(content))
  BY <1>1, <1>7, <1>8, <1>9 DEF Store!SameContents
<1> QED BY <1>10 DEF live

\* What a change of a board does to the save of it.
LEMMA ChangeWindow ==
  ASSUME NEW b \in Boards, Shape, Change(b)
  PROVE  /\ DOMAIN canvas' = DOMAIN canvas /\ b \in DOMAIN canvas
         /\ \A a \in DOMAIN canvas \ {b} : canvas'[a] = canvas[a]
         /\ IF saving = b
            THEN steady' = steady \cap DOMAIN canvas'[b] /\ during' = during \cup Pairs(canvas'[b])
            ELSE UNCHANGED <<steady, during>>
         /\ UNCHANGED <<file, temp, saving, seen, spoiled>>
<1>1. b \in DOMAIN canvas
  BY DEF Change, Loaded
<1>2. PICK g : Put(b, g)
  BY DEF Change, AddItem, EditItem, DeleteItem
<1>3. canvas' = [canvas EXCEPT ![b] = g]
  BY <1>2 DEF Put
<1>4. DOMAIN canvas' = DOMAIN canvas /\ canvas'[b] = g /\ \A a \in DOMAIN canvas \ {b} : canvas'[a] = canvas[a]
  BY <1>1, <1>3
<1> QED BY <1>1, <1>2, <1>4 DEF Put

\* At the beginning nothing is being saved.
LEMMA InitWritten == Init => WrittenInv
<1> SUFFICES ASSUME Init PROVE WrittenInv
  OBVIOUS
<1>1. Distinct(<<>>)
  BY DEF Distinct
<1>2. Distinct(<<<<1, First>>>>)
  <2>1. DOMAIN <<<<1, First>>>> = {1}
    OBVIOUS
  <2> QED BY <2>1 DEF Distinct
<1>3. \A f \in Files : file[f].items = <<>> \/ file[f].items = <<<<1, First>>>>
  BY DEF Init, NoFile, OldFile
<1>4. saving = NoBoard
  BY DEF Init
<1> QED BY <1>1, <1>2, <1>3, <1>4 DEF WrittenInv

\* A save writes each item once, and only what is or was on the board.
LEMMA WrittenStep == SaveInv /\ WrittenInv /\ [Next]_vars => WrittenInv'
<1> SUFFICES ASSUME SaveInv, WrittenInv, [Next]_vars, ~spoiled' PROVE WrittenInv'
  BY DEF WrittenInv
<1> USE DEF SaveInv, FilesInv
<1> DEFINE Whole == \A f \in Files : Distinct(file[f].items)
           Fresh == saving # NoBoard => /\ Distinct(temp.items) /\ ToSet(temp.items) \subseteq during
                                        /\ Pairs(canvas[saving]) \subseteq during
<1>now. spoiled = FALSE /\ Whole /\ Fresh /\ SaveProgress /\ Shape
  BY Unspoiled DEF WrittenInv
<1> SUFFICES Whole' /\ Fresh'
  BY DEF WrittenInv
<1>1. ASSUME NEW b \in Boards, LoadBoard(b) PROVE Whole' /\ Fresh'
  <2> DEFINE f == FileOf[b]
             found == ItemsIn(file[f])
  <2>1. f \in Files /\ file[f] \in Content /\ file \in [Files -> Content]
    BY DEF Files, Shape
  <2>2. found \in Seq(Nat \X Contents)
    BY <2>1, ItemsInType
  <2>3. Load(b, found) /\ file' = [file EXCEPT ![f].items = Renumbered(found)]
    BY <1>1 DEF LoadBoard, Fails
  <2> HIDE DEF found
  <2>4. file'[f].items = Renumbered(found) /\ \A g \in Files \ {f} : file'[g] = file[g]
    BY <2>1, <2>3 DEF Content
  <2> HIDE DEF f
  <2>5. Whole'
    BY <1>now, <2>2, <2>4, DistinctRenumbered
  <2>6. UNCHANGED <<temp, saving, during>> /\ \A a \in Loaded : canvas'[a] = canvas[a]
    BY <2>2, <2>3, LoadShape DEF Load, saveVars
  <2>7. Fresh'
    BY <1>now, <2>6 DEF Shape
  <2> QED BY <2>5, <2>7
<1>2. ASSUME NEW b \in Boards, Change(b) PROVE Whole' /\ Fresh'
  <2>1. UNCHANGED <<file, temp, saving>>
    BY <1>2, ChangeWindow
  <2>2. CASE saving = b
    BY <1>now, <1>2, <2>1, <2>2, ChangeWindow
  <2>3. CASE saving # b
    <3>1. during' = during /\ (saving # NoBoard => canvas'[saving] = canvas[saving])
      BY <1>2, <2>3, ChangeWindow DEF Shape, Loaded
    <3> QED BY <1>now, <2>1, <3>1
  <2> QED BY <2>2, <2>3
<1>3. UNCHANGED file => Whole'
  BY <1>now
<1>4. UNCHANGED <<canvas, temp, saving, during>> => Fresh'
  BY <1>now
<1>5. ASSUME NEW b \in Boards, PassBy(b) PROVE Whole' /\ Fresh'
  BY <1>3, <1>4, <1>5 DEF PassBy
<1>6. ASSUME NEW b \in Boards, BeginSave(b) PROVE Whole' /\ Fresh'
  <2>1. /\ UNCHANGED <<canvas, file>> /\ saving' = b /\ during' = Pairs(canvas[b])
        /\ temp'.items = <<>>
    BY <1>6 DEF BeginSave
  <2>2. Distinct(<<>>) /\ ToSet(<<>>) = {}
    BY DEF Distinct, ToSet
  <2> QED BY <1>3, <2>1, <2>2
<1>7. ASSUME saving # NoBoard, NEW i \in DOMAIN canvas[saving], ScanItem(i) PROVE Whole' /\ Fresh'
  <2>1. UNCHANGED <<canvas, file, saving, during>> /\ i \notin seen
        /\ temp' = [temp EXCEPT !.items = Append(@, <<i, canvas[saving][i]>>)]
    BY <1>7 DEF ScanItem, Fails
  <2>2. PICK c \in Contents : c = canvas[saving][i]
    BY <1>7 DEF Shape
  <2>3. i \in Nat
    BY <1>7 DEF Shape
  <2>4. temp.items \in Seq(Nat \X Contents) /\ temp'.items = Append(temp.items, <<i, c>>)
    BY <2>1, <2>2 DEF Shape, Content
  <2>5. i \notin Ids(ToSet(temp.items))
    BY <1>7, <1>now, <2>1 DEF SaveProgress, Visited
  <2>6. Distinct(temp'.items) /\ ToSet(temp'.items) = ToSet(temp.items) \cup {<<i, c>>}
    BY <1>7, <1>now, <2>3, <2>4, <2>5, DistinctAppend
  <2>7. <<i, c>> \in Pairs(canvas[saving])
    BY <1>7, <2>2 DEF Pairs
  <2> QED BY <1>3, <1>7, <1>now, <2>1, <2>6, <2>7
<1>8. CASE CloseTemp
  <2>1. UNCHANGED <<canvas, file, saving, during>> /\ temp'.items = temp.items
    BY <1>8 DEF CloseTemp, saveVars, Shape, Content
  <2> QED BY <1>3, <1>now, <2>1
<1>9. CASE Rename
  <2>1. file' = [file EXCEPT ![FileOf[saving]] = temp] /\ saving' = NoBoard /\ saving # NoBoard
    BY <1>9 DEF Rename, EndSave, Writing
  <2>2. \A f \in Files : file'[f] = file[f] \/ file'[f] = temp
    BY <2>1 DEF Shape
  <2> QED BY <1>now, <2>1, <2>2
<1>10. CASE saving' = NoBoard /\ UNCHANGED file
  BY <1>3, <1>10
<1> QED BY <1>1, <1>2, <1>3, <1>4, <1>5, <1>6, <1>7, <1>8, <1>9, <1>10
       DEF Next, Autosave, StartRound, Panic, Crash, EndSave, vars, saveVars

\* The save in progress, as the store sees it.
Window == IF saving = NoBoard THEN {} ELSE {[board |-> saving, steady |-> steady, seen |-> during]}

\* What is stored of each board.
Stored == [b \in Boards |-> Snapshot(file[FileOf[b]])]

\* Loading opens a board, with what is stored of it under new ids.
LEMMA LoadOpens ==
  ASSUME Separate, Shape, WrittenInv, NEW b \in Boards, LoadBoard(b), spoiled = FALSE, ~spoiled'
  PROVE  Store!Open(b)
<1>1. FileOf[b] \in Files /\ file[FileOf[b]] \in Content /\ file \in [Files -> Content]
  BY DEF Files, Shape
<1>2. PICK found \in Seq(Nat \X Contents) : found = ItemsIn(file[FileOf[b]])
  BY <1>1, ItemsInType
<1>3. Load(b, found) /\ file' = [file EXCEPT ![FileOf[b]].items = Renumbered(found)]
  BY <1>2 DEF LoadBoard, Fails
<1>4. PICK new : new = [i \in DOMAIN found |-> found[i][2]]
  OBVIOUS
<1>5. /\ b \in Boards \ DOMAIN canvas /\ DOMAIN canvas' = DOMAIN canvas \cup {b}
      /\ canvas'[b] = new /\ \A a \in DOMAIN canvas : canvas'[a] = canvas[a]
      /\ UNCHANGED <<saving, steady, during>>
  BY <1>3, <1>4 DEF Load, Loaded, saveVars
<1>6. Distinct(found)
  <2>1. Distinct(<<>>)
    BY DEF Distinct
  <2> QED BY <1>1, <1>2, <2>1 DEF WrittenInv, ItemsIn
<1>7. Store!SameContents(new, Snapshot(file[FileOf[b]]))
  BY <1>1, <1>2, <1>4, <1>6, LoadedSame
<1>8. PICK next \in Content : next = [file[FileOf[b]] EXCEPT !.items = Renumbered(found)]
  <2>1. Renumbered(found) \in Seq(Nat \X Contents)
    BY RenumberedItems
  <2> QED BY <1>1, <2>1 DEF Content
<1>9. file'[FileOf[b]] = next /\ \A f \in Files \ {FileOf[b]} : file'[f] = file[f]
  BY <1>1, <1>3, <1>8
<1>10. Snapshot(next) = new
  <2>1. next.form = file[FileOf[b]].form /\ next.items = Renumbered(found)
    BY <1>1, <1>8 DEF Content
  <2>2. Renumbered(<<>>) = <<>>
    BY DEF Renumbered
  <2>3. ItemsIn(next) = Renumbered(found)
    BY <1>2, <2>1, <2>2 DEF ItemsIn
  <2> QED BY <1>4, <2>3, SnapshotRenumbered
<1>11. \A a \in Boards \ {b} : file'[FileOf[a]] = file[FileOf[a]]
  BY <1>9 DEF Separate, Files
<1>12. Stored' = [Stored EXCEPT ![b] = new]
  <2>1. Stored'[b] = new
    BY <1>9, <1>10 DEF Stored
  <2>2. \A a \in Boards \ {b} : Stored'[a] = Stored[a]
    BY <1>11 DEF Stored
  <2>3. Stored' = [a \in Boards |-> Stored'[a]] /\ Stored = [a \in Boards |-> Stored[a]]
    BY DEF Stored
  <2> QED BY <2>1, <2>2, <2>3
<1>13. Window' = Window
  BY <1>5 DEF Window
<1>14. Stored[b] = Snapshot(file[FileOf[b]])
  BY DEF Stored
<1> QED BY <1>5, <1>7, <1>12, <1>13, <1>14 DEF Store!Open, Stored, Window

\* A change of a board is a change of the live board and of its window.
LEMMA ChangeChanges ==
  ASSUME Shape, NEW b \in Boards, Change(b)
  PROVE  Store!Change(b)
<1>1. /\ b \in DOMAIN canvas /\ DOMAIN canvas' = DOMAIN canvas
      /\ \A a \in DOMAIN canvas \ {b} : canvas'[a] = canvas[a]
      /\ UNCHANGED <<file, saving>>
  BY ChangeWindow
<1>2. Stored' = Stored
  BY <1>1 DEF Stored
<1>3. PICK live : live = canvas'[b]
  OBVIOUS
<1>4. Window' = {IF w.board = b
                 THEN [w EXCEPT !.steady = @ \cap DOMAIN live, !.seen = @ \cup Pairs(live)]
                 ELSE w : w \in Window}
  <2>1. CASE saving = NoBoard
    BY <1>1, <2>1 DEF Window
  <2>2. CASE saving # NoBoard /\ saving # b
    <3>1. steady' = steady /\ during' = during
      BY <2>2, ChangeWindow
    <3> QED BY <1>1, <2>2, <3>1 DEF Window
  <2>3. CASE saving # NoBoard /\ saving = b
    <3>1. steady' = steady \cap DOMAIN live /\ during' = during \cup Pairs(live)
      BY <1>3, <2>3, ChangeWindow
    <3>2. PICK w : w = [board |-> saving, steady |-> steady, seen |-> during]
      OBVIOUS
    <3>3. Window = {w} /\ w.board = b
      BY <2>3, <3>2 DEF Window
    <3>4. Window' = {[board |-> b, steady |-> steady \cap DOMAIN live, seen |-> during \cup Pairs(live)]}
      BY <1>1, <2>3, <3>1 DEF Window
    <3>5. [w EXCEPT !.steady = @ \cap DOMAIN live, !.seen = @ \cup Pairs(live)]
            = [board |-> b, steady |-> steady \cap DOMAIN live, seen |-> during \cup Pairs(live)]
      <4>1. w = [board |-> b, steady |-> steady, seen |-> during]
        BY <2>3, <3>2
      <4>2. PICK x, y : x = steady \cap DOMAIN live /\ y = during \cup Pairs(live)
        OBVIOUS
      <4>3. w.steady \cap DOMAIN live = x /\ w.seen \cup Pairs(live) = y
        BY <4>1, <4>2
      <4>4. [w EXCEPT !.steady = x, !.seen = y] = [board |-> b, steady |-> x, seen |-> y]
        <5>1. PICK v : v = [w EXCEPT !.steady = x, !.seen = y]
          OBVIOUS
        <5>2. v = [board |-> b, steady |-> x, seen |-> y]
          BY <4>1, <5>1
        <5> QED BY <5>1, <5>2
      <4> QED BY <4>2, <4>3, <4>4
    <3> QED BY <3>3, <3>4, <3>5
  <2> QED BY <2>1, <2>2, <2>3
<1>5. Window' = {IF w.board = b
                 THEN [w EXCEPT !.steady = @ \cap DOMAIN canvas'[b], !.seen = @ \cup Pairs(canvas'[b])]
                 ELSE w : w \in Window}
  BY <1>3, <1>4
<1> QED BY <1>1, <1>2, <1>5 DEF Store!Change, Store!Pairs, Pairs, Stored, Window

\* A save that ends well replaces the snapshot.
LEMMA RenameCommits ==
  ASSUME Separate, SaveInv, WrittenInv, Rename, spoiled = FALSE
  PROVE  \E w \in Window : Store!Commit(w)
<1> USE DEF SaveInv, FilesInv
<1>1. /\ saving \in Loaded /\ saving \in Boards /\ saving # NoBoard /\ canvas' = canvas
      /\ file' = [file EXCEPT ![FileOf[saving]] = temp] /\ saving' = NoBoard
  BY DEF Rename, EndSave, Writing, Shape
<1>2. temp.form = "ended" /\ temp \in Content /\ steady \subseteq Visited
  BY <1>1 DEF Rename, Writing, SaveProgress, Shape
<1>3. ToSet(temp.items) \subseteq during
  BY <1>1 DEF WrittenInv
<1>4. PICK s : s = ItemsIn(temp)
  OBVIOUS
<1>5. s = temp.items
  BY <1>2, <1>4 DEF ItemsIn
<1>6. steady \subseteq DOMAIN Snapshot(temp)
  BY <1>2, <1>4, <1>5, SnapshotFacts DEF Visited
<1>7. Pairs(Snapshot(temp)) \subseteq during
  <2>1. \A i \in DOMAIN Snapshot(temp) : <<i, Snapshot(temp)[i]>> \in ToSet(s)
    BY <1>2, <1>4, SnapshotFacts
  <2> QED BY <1>3, <1>5, <2>1 DEF Pairs
<1>8. file'[FileOf[saving]] = temp /\ \A a \in Boards \ {saving} : file'[FileOf[a]] = file[FileOf[a]]
  BY <1>1 DEF Separate, Files, Shape
<1>9. Stored'[saving] = Snapshot(temp) /\ \A a \in Boards \ {saving} : Stored'[a] = Stored[a]
  BY <1>1, <1>8 DEF Stored
<1>10. PICK w : w = [board |-> saving, steady |-> steady, seen |-> during]
  OBVIOUS
<1>11. Window = {w} /\ w.board = saving /\ w.steady = steady /\ w.seen = during /\ Window' = {}
  BY <1>1, <1>10 DEF Window
<1>12. Store!Commit(w)
  BY <1>1, <1>6, <1>7, <1>9, <1>11 DEF Store!Commit, Store!Others, Store!Pairs, Pairs, Stored, Window
<1> QED BY <1>11, <1>12

\* Every step of the program is one of the store, or an error is ignored.
LEMMA StepStores ==
  ASSUME Separate, SaveInv, WrittenInv, [Next]_vars
  PROVE  [Store!Next \/ spoiled']_(Store!storeVars)
<1> SUFFICES ASSUME ~spoiled' PROVE Store!Next \/ UNCHANGED <<canvas, Stored, Window>>
  BY DEF Store!storeVars, Stored, Window
<1>now. spoiled = FALSE /\ Shape
  BY Unspoiled DEF SaveInv, FilesInv
<1>1. ASSUME UNCHANGED <<canvas, file, saving, steady, during>>
      PROVE  UNCHANGED <<canvas, Stored, Window>>
  BY <1>1 DEF Stored, Window
<1>2. ASSUME NEW b \in Boards, LoadBoard(b) PROVE Store!Open(b)
  BY <1>2, <1>now, LoadOpens
<1>3. ASSUME NEW b \in Boards, Change(b) PROVE Store!Change(b)
  BY <1>3, <1>now, ChangeChanges
<1>4. ASSUME NEW b \in Boards, BeginSave(b) PROVE Store!Begin(b)
  <2>1. /\ saving = NoBoard /\ b \in DOMAIN canvas /\ saving' = b /\ UNCHANGED <<canvas, file>>
        /\ steady' = DOMAIN canvas[b] /\ during' = Pairs(canvas[b])
    BY <1>4 DEF BeginSave, Loaded
  <2>2. Window = {} /\ Stored' = Stored
    BY <2>1 DEF Window, Stored
  <2>3. Window' = {[board |-> b, steady |-> DOMAIN canvas[b], seen |-> Pairs(canvas[b])]}
    BY <2>1 DEF Window
  <2> QED BY <2>1, <2>2, <2>3 DEF Store!Begin, Store!Pairs, Pairs, Stored, Window
<1>5. CASE Rename
  <2>1. PICK w \in Window : Store!Commit(w)
    BY <1>5, <1>now, RenameCommits
  <2> QED BY <2>1 DEF Store!Next, Window
<1>6. ASSUME Panic PROVE Store!Abandon
  <2>1. UNCHANGED <<canvas, file>> /\ saving # NoBoard /\ saving' = NoBoard
    BY <1>6 DEF Panic, Writing, EndSave
  <2>2. Window # {} /\ Window' = {} /\ Stored' = Stored
    BY <2>1 DEF Window, Stored
  <2> QED BY <2>1, <2>2 DEF Store!Abandon, Stored, Window
<1>7. ASSUME Crash PROVE Store!Crash
  <2>1. canvas' = <<>> /\ file' = file /\ saving' = NoBoard
    BY <1>7 DEF Crash, EndSave
  <2>2. Window' = {} /\ Stored' = Stored
    BY <2>1 DEF Window, Stored
  <2> QED BY <2>1, <2>2 DEF Store!Crash, Stored, Window
<1>8. CASE StartRound \/ CloseTemp \/ (\E b \in Boards : PassBy(b))
           \/ (saving # NoBoard /\ \E i \in DOMAIN canvas[saving] : ScanItem(i))
  BY <1>1, <1>8 DEF StartRound, CloseTemp, PassBy, ScanItem, saveVars
<1>9. CASE UNCHANGED vars
  BY <1>1, <1>9 DEF vars, saveVars
<1> QED BY <1>2, <1>3, <1>4, <1>5, <1>6, <1>7, <1>8, <1>9 DEF Next, Autosave, Store!Next

\* With a file for each board, the table of boards, the files and autosave
\* (manager.rs, file.rs) implement the store: a board opens with all that is
\* stored, a save replaces it in one step by what was there throughout and
\* nothing that never was, and a crash leaves it, until an error is ignored.
THEOREM StoreImplemented == Separate => (Spec => StoreSpec)
<1> SUFFICES ASSUME Separate PROVE Spec => StoreSpec
  OBVIOUS
<1>1. Init => SaveInv /\ WrittenInv
  BY InitFiles, InitSound, InitWritten DEF SaveInv, Sound
<1>2. SaveInv /\ WrittenInv /\ [Next]_vars => SaveInv' /\ WrittenInv'
  BY FilesStep, SoundStep, WrittenStep DEF SaveInv, Sound
<1>3. Init => Store!Init
  BY DEF Init, Store!Init
<1>4. SaveInv /\ WrittenInv /\ [Next]_vars => [Store!Next \/ spoiled']_(Store!storeVars)
  BY StepStores
<1> QED BY <1>1, <1>2, <1>3, <1>4, PTL DEF Spec, StoreSpec
=============================================================================
