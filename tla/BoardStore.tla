----------------------------- MODULE BoardStore -----------------------------
(***************************************************************************)
(* What keeping boards on disk promises.  Each board has a stored snapshot *)
(* of its items.  A board is opened with what is stored of it, under new   *)
(* ids.  A save replaces the snapshot in one step by one that has every    *)
(* item that was on the board throughout the save, and nothing that was    *)
(* never on it during the save.  A crash closes the boards and leaves what *)
(* is stored.                                                              *)
(***************************************************************************)
EXTENDS Naturals, FiniteSets, Functions

CONSTANTS Boards

VARIABLES
  live,    \* the items of the open boards, by id
  stored,  \* the snapshot of each board
  window   \* of the save in progress: [board, steady, seen]

storeVars == <<live, stored, window>>

Pairs(s) == {<<i, s[i]>> : i \in DOMAIN s}
SameContents(s, t) == \E g \in Bijection(DOMAIN s, DOMAIN t) : \A i \in DOMAIN s : s[i] = t[g[i]]
Others(b, f, g) == \A a \in Boards \ {b} : f[a] = g[a]

Init == live = <<>> /\ window = {}

Open(b) ==
  /\ b \in Boards \ DOMAIN live
  /\ DOMAIN live' = DOMAIN live \cup {b}
  /\ SameContents(live'[b], stored[b]) /\ stored' = [stored EXCEPT ![b] = live'[b]]
  /\ \A a \in DOMAIN live : live'[a] = live[a]
  /\ UNCHANGED window

Change(b) ==
  /\ b \in DOMAIN live
  /\ DOMAIN live' = DOMAIN live /\ \A a \in DOMAIN live \ {b} : live'[a] = live[a]
  /\ window' = {IF w.board = b
                THEN [w EXCEPT !.steady = @ \cap DOMAIN live'[b], !.seen = @ \cup Pairs(live'[b])]
                ELSE w : w \in window}
  /\ UNCHANGED stored

Begin(b) ==
  /\ b \in DOMAIN live /\ window = {}
  /\ window' = {[board |-> b, steady |-> DOMAIN live[b], seen |-> Pairs(live[b])]}
  /\ UNCHANGED <<live, stored>>

Commit(w) ==
  /\ w \in window /\ window' = {}
  /\ w.steady \subseteq DOMAIN stored'[w.board] /\ Pairs(stored'[w.board]) \subseteq w.seen
  /\ Others(w.board, stored', stored)
  /\ UNCHANGED live

Abandon == window # {} /\ window' = {} /\ UNCHANGED <<live, stored>>

Crash == live' = <<>> /\ window' = {} /\ UNCHANGED stored

Next ==
  \/ \E b \in Boards : Open(b) \/ Change(b) \/ Begin(b)
  \/ \E w \in window : Commit(w)
  \/ Abandon \/ Crash

Spec == Init /\ [][Next]_storeVars
=============================================================================
