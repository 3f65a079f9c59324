--------------------------- MODULE DrawingProofs ---------------------------
(***************************************************************************)
(* For any watchers, meddlers, workers and gestures of any length: a path  *)
(* has the points of the gesture in their order, every watcher is shown    *)
(* ever more of it and stops with the whole of it, and so the drawing      *)
(* implements a live line.                                                 *)
(*                                                                         *)
(* DrawerInv says how far the gesture, the tool and the path are with      *)
(* respect to each other, WatcherInv what each watcher has had, will get   *)
(* and expects next.                                                       *)
(***************************************************************************)
EXTENDS Drawing, SequenceTheorems, TLAPS

USE PathsAssumption, MaxPointsAssumption

Points == 1 .. MaxPoints

Methods == {"BeginPath", "ContinuePath", "EndPath", "GetActivePath"}

Requests == [m : Methods, c : {Drawer} \cup Watchers, points : Seq(0 .. MaxPoints)]
Parts    == [part : Nat, complete : BOOLEAN, items : Seq(Points)]
Ears     == [part : Nat, items : Seq(Points)]

Chans(T) ==
  [queue : Seq(T), waiting : BOOLEAN, closed : BOOLEAN, read : Seq(T), ended : BOOLEAN]

Receivers == [registered : BOOLEAN, next : Nat, last : SUBSET Nat, chan : Chans(Seq(Points))]

TypeInv ==
  /\ requests \subseteq Requests
  /\ answered \in BOOLEAN /\ foreign \in BOOLEAN
  /\ path \in {"none", "active", "gone"}
  /\ nodes \in Seq(Points) /\ item \in Seq(Points)
  /\ DOMAIN ears \subseteq Watchers /\ ears \in [DOMAIN ears -> Ears]
  /\ telling \subseteq Watchers /\ told \subseteq Watchers
  /\ sent \in [Watchers -> Seq(Parts)]
  /\ dead \in 0 .. Tasks
  /\ pointer \in {"up", "down", "lifted"}
  /\ drawn \in Seq(Points) /\ moves \in Chans(Points)
  /\ tool \in {"idle", "press", "begin", "next", "continue", "end", "done"}
  /\ taken \in Nat
  /\ receivers \in [Watchers -> Receivers]
  /\ shown \in [Watchers -> Seq(Points)]
  /\ watching \subseteq Watchers /\ meddled \subseteq Watchers

\* The moves handed to the gesture and those still in the queue.
MovesInv ==
  /\ \A k \in DOMAIN drawn : drawn[k] = k
  /\ drawn = moves.read \o moves.queue
  /\ pointer = "up" => drawn = <<>>

\* A call of the drawer that no worker has handled yet.
DrawerCalls(r) ==
  /\ ~answered
  /\ \/ r.m = "BeginPath" /\ tool = "begin" /\ path = "none"
     \/ /\ r.m = "ContinuePath" /\ tool = "continue" /\ r.points = <<drawn[taken]>>
        /\ taken \in DOMAIN moves.read /\ Len(nodes) + 1 = taken
     \/ r.m = "EndPath" /\ tool = "end" /\ r.points = <<>> /\ Len(nodes) = taken

DrawerInv ==
  /\ \A r \in requests : r.c = Drawer => DrawerCalls(r)
  /\ \A r \in requests, q \in requests : r.c = Drawer /\ q.c = Drawer => r = q
  /\ \A r \in requests : r.m = "BeginPath" => r.c = Drawer
  /\ taken <= Len(moves.read)
  /\ answered => tool \in {"begin", "continue", "end"} /\ path # "none" /\ Len(nodes) = taken
  /\ tool \in {"idle", "press"} => path = "none"
  /\ tool \in {"idle", "press", "begin"} => taken = 0
  /\ tool = "next" => ~answered /\ Len(nodes) = taken
  /\ tool \in {"next", "continue", "end", "done"} => path # "none"
  /\ Len(nodes) <= taken
  /\ nodes = SubSeq(drawn, 1, Len(nodes))
  /\ path = "none" => telling = {} /\ told = {}
  /\ item = IF path = "gone" /\ ~foreign THEN nodes ELSE <<>>
  /\ foreign => path = "gone"
  /\ path # "active" => DOMAIN ears = {}

\* What w has drawn, the parts on their way to it and the buffer of its handle
\* are consecutive stretches of the path.
Follows(w) ==
  \E cut \in [0 .. Len(sent[w]) -> 0 .. Len(nodes)] :
    /\ shown[w] = SubSeq(nodes, 1, cut[0])
    /\ Stretches(sent[w], cut)
    /\ w \in DOMAIN ears => ears[w].items = SubSeq(nodes, cut[Len(sent[w])] + 1, Len(nodes))
    /\ \A k \in DOMAIN sent[w] : sent[w][k].complete => cut[k] = Len(nodes)
    /\ receivers[w].chan.ended => cut[0] = Len(nodes)

\* A watcher before its call is handled has had nothing.
Untouched(w) == w \notin DOMAIN ears /\ sent[w] = <<>> /\ shown[w] = <<>>

\* A channel whose reader waits, as the receiver of a watcher keeps it.
Waits(ch) == ch.waiting /\ ~ch.closed /\ ~ch.ended /\ ch.queue = <<>>

ChannelInv(w) ==
  IF receivers[w].registered
  THEN receivers[w].last = {} /\ Waits(receivers[w].chan)
  ELSE w \in watching => receivers[w].chan.ended

WatcherOK(w) ==
  /\ w \notin watching => Untouched(w) /\ receivers[w] = NewReceiver
  /\ ChannelInv(w)
  /\ w \in DOMAIN ears =>
       receivers[w].registered /\ ears[w].part = receivers[w].next + Len(sent[w])
  /\ \A k \in DOMAIN sent[w] :
       /\ sent[w][k].part = receivers[w].next + k - 1
       /\ sent[w][k].complete => k = Len(sent[w]) /\ path = "gone" /\ ~foreign
  /\ ~receivers[w].registered => sent[w] = <<>>
  /\ receivers[w].chan.ended => path = "gone" /\ ~foreign
  /\ Follows(w)

\* A call of a watcher for the path.
Asks(r) ==
  /\ r.c \in watching /\ Untouched(r.c) /\ r.points = <<>>
  /\ receivers[r.c].registered /\ receivers[r.c].next = 0

WatcherInv ==
  /\ watching \subseteq told /\ meddled \subseteq told
  /\ \A r \in requests : r.m = "GetActivePath" => Asks(r)
  /\ \A w \in Watchers : WatcherOK(w)

IInv == TypeInv /\ MovesInv /\ DrawerInv /\ WatcherInv

-----------------------------------------------------------------------------
(* Stretches of a sequence                                                 *)

\* A stretch of a sequence, from after a to b.
LEMMA StretchType ==
  ASSUME NEW S, NEW s \in Seq(S), NEW a \in 0 .. Len(s), NEW b \in a .. Len(s)
  PROVE  SubSeq(s, a + 1, b) \in Seq(S) /\ Len(SubSeq(s, a + 1, b)) = b - a
<1>1. \A i \in a + 1 .. b : s[i] \in S
  OBVIOUS
<1>2. /\ SubSeq(s, a + 1, b) \in Seq(S)
      /\ Len(SubSeq(s, a + 1, b)) = IF a + 1 <= b THEN b - (a + 1) + 1 ELSE 0
  BY <1>1, SubSeqProperties
<1> QED BY <1>2

\* Consecutive stretches make up one.
LEMMA StretchJoin ==
  ASSUME NEW S, NEW s \in Seq(S), NEW a \in 0 .. Len(s), NEW b \in a .. Len(s),
         NEW c \in b .. Len(s)
  PROVE  SubSeq(s, a + 1, b) \o SubSeq(s, b + 1, c) = SubSeq(s, a + 1, c)
<1>1. a + 1 \in 1 .. Len(s) + 1 /\ b \in (a + 1) - 1 .. Len(s) /\ c \in b .. Len(s)
  OBVIOUS
<1> QED BY <1>1, ConcatAdjacentSubSeq

\* What comes after a stretch does not change it.
LEMMA StretchGrow ==
  ASSUME NEW S, NEW s \in Seq(S), NEW t \in Seq(S), NEW a \in 0 .. Len(s), NEW b \in a .. Len(s)
  PROVE  SubSeq(s \o t, a + 1, b) = SubSeq(s, a + 1, b)
<1>1. CASE a = b
  BY <1>1, SubSeqEmpty
<1>2. CASE a # b
  <2>1. a + 1 \in 1 .. Len(s) /\ b \in 1 .. Len(s)
    BY <1>2
  <2> QED BY <2>1, SubSeqOfConcat1
<1> QED BY <1>1, <1>2

\* A last stretch grows with the sequence.
LEMMA StretchTail ==
  ASSUME NEW S, NEW s \in Seq(S), NEW t \in Seq(S), NEW a \in 0 .. Len(s)
  PROVE  SubSeq(s, a + 1, Len(s)) \o t = SubSeq(s \o t, a + 1, Len(s \o t))
<1> DEFINE u == s \o t
<1>1. u \in Seq(S) /\ Len(u) = Len(s) + Len(t) /\ Len(s) \in Nat /\ Len(t) \in Nat
  BY ConcatProperties
<1>2. SubSeq(u, Len(s) + 1, Len(u)) = t
  <2>1. CASE t = <<>>
    BY <2>1, <1>1, SubSeqEmpty
  <2>2. CASE t # <<>>
    <3>1. Len(t) >= 1
      BY <2>2
    <3>2. Len(s) + 1 \in Len(s) + 1 .. Len(s) + Len(t) /\ Len(u) \in Len(s) + 1 .. Len(s) + Len(t)
      BY <3>1, <1>1
    <3>3. SubSeq(u, Len(s) + 1, Len(u)) = SubSeq(t, (Len(s) + 1) - Len(s), Len(u) - Len(s))
      BY <3>2, SubSeqOfConcat2
    <3>4. (Len(s) + 1) - Len(s) = 1 /\ Len(u) - Len(s) = Len(t)
      BY <1>1
    <3> QED BY <3>3, <3>4, SubSeqFull
  <2> QED BY <2>1, <2>2
<1>3. SubSeq(u, a + 1, Len(s)) = SubSeq(s, a + 1, Len(s))
  BY StretchGrow
<1> HIDE DEF u
<1>4. a \in 0 .. Len(u) /\ Len(s) \in a .. Len(u) /\ Len(u) \in Len(s) .. Len(u)
  BY <1>1
<1>5. SubSeq(u, a + 1, Len(s)) \o SubSeq(u, Len(s) + 1, Len(u)) = SubSeq(u, a + 1, Len(u))
  BY <1>1, <1>4, StretchJoin
<1> QED BY <1>2, <1>3, <1>5 DEF u

\* The stretch before the first element.
LEMMA EmptyStretch == ASSUME NEW s PROVE SubSeq(s, 1, 0) = <<>>
BY SubSeqEmpty

-----------------------------------------------------------------------------
(* Channels                                                                *)

\* A reader that is served loses and repeats nothing.
LEMMA SettleFacts ==
  ASSUME NEW T, NEW ch \in Chans(T)
  PROVE  /\ Settle(ch) \in Chans(T)
         /\ Settle(ch).closed = ch.closed /\ Settle(ch).ended = ch.ended
         /\ Settle(ch).read \o Settle(ch).queue = ch.read \o ch.queue
         /\ Len(Settle(ch).read) >= Len(ch.read)
<1>1. CASE ch.waiting /\ ch.queue # <<>>
  <2> DEFINE h == Head(ch.queue)
             t == Tail(ch.queue)
  <2>1. /\ ch.read \in Seq(T) /\ ch.queue \in Seq(T) /\ ch.closed \in BOOLEAN
        /\ ch.ended \in BOOLEAN /\ ch.waiting \in BOOLEAN
    BY DEF Chans
  <2>2. h \in T /\ t \in Seq(T) /\ ch.queue = <<h>> \o t
    BY <1>1, <2>1
  <2>3. Settle(ch) = [queue |-> t, waiting |-> FALSE, closed |-> ch.closed,
                      read |-> Append(ch.read, h), ended |-> ch.ended]
    BY <1>1 DEF Settle, Chans
  <2> HIDE DEF h, t
  <2>4. Append(ch.read, h) \o t = ch.read \o ch.queue
    <3> DEFINE o == <<h>>
    <3>1. Append(ch.read, h) = ch.read \o o /\ o \in Seq(T) /\ ch.queue = o \o t
      BY <2>1, <2>2, AppendIsConcat
    <3> HIDE DEF o
    <3>2. (ch.read \o o) \o t = ch.read \o (o \o t)
      <4> DEFINE a == ch.read
      <4>1. a \in Seq(T) /\ o \in Seq(T) /\ t \in Seq(T)
        BY <2>1, <2>2, <3>1
      <4> HIDE DEF a
      <4>2. (a \o o) \o t = a \o (o \o t)
        BY <4>1
      <4> QED BY <4>2 DEF a
    <3> QED BY <3>1, <3>2
  <2>5. Append(ch.read, h) \in Seq(T) /\ Len(Append(ch.read, h)) = Len(ch.read) + 1
        /\ Len(ch.read) \in Nat
    BY <2>1, <2>2
  <2> QED BY <2>1, <2>2, <2>3, <2>4, <2>5 DEF Chans
<1>2. CASE ~(ch.waiting /\ ch.queue # <<>>)
  <2>1. Settle(ch) = ch
    BY <1>2 DEF Settle
  <2>2. Len(ch.read) \in Nat
    BY DEF Chans
  <2> QED BY <2>1, <2>2
<1> QED BY <1>1, <1>2

\* pop takes values in their order.
LEMMA PopFacts ==
  ASSUME NEW T, NEW ch \in Chans(T)
  PROVE  /\ Pop(ch) \in Chans(T) /\ Pop(ch).closed = ch.closed
         /\ Pop(ch).read \o Pop(ch).queue = ch.read \o ch.queue
         /\ Len(Pop(ch).read) >= Len(ch.read)
<1>1. CASE ch.closed
  <2> DEFINE e == [ch EXCEPT !.ended = TRUE]
  <2>1. Pop(ch) = e
    BY <1>1 DEF Pop
  <2>2. Len(ch.read) \in Nat
    BY DEF Chans
  <2>3. e.read = ch.read /\ e.queue = ch.queue /\ e.closed = ch.closed /\ e \in Chans(T)
    BY DEF Chans
  <2> HIDE DEF e
  <2> QED BY <2>1, <2>2, <2>3
<1>2. CASE ~ch.closed
  <2> DEFINE w == [ch EXCEPT !.waiting = TRUE]
  <2>1. /\ Pop(ch) = Settle(w) /\ w \in Chans(T)
        /\ w.closed = ch.closed /\ w.read = ch.read /\ w.queue = ch.queue
    BY <1>2 DEF Pop, Chans
  <2> HIDE DEF w
  <2> QED BY <2>1, SettleFacts
<1> QED BY <1>1, <1>2

\* push puts one value behind the others.
LEMMA PushFacts ==
  ASSUME NEW T, NEW ch \in Chans(T), NEW v \in T
  PROVE  /\ Push(ch, v) \in Chans(T) /\ Push(ch, v).closed = ch.closed
         /\ Push(ch, v).read \o Push(ch, v).queue = Append(ch.read \o ch.queue, v)
         /\ Len(Push(ch, v).read) >= Len(ch.read)
<1> DEFINE q == [ch EXCEPT !.queue = Append(ch.queue, v)]
<1>1. /\ ch.read \in Seq(T) /\ ch.queue \in Seq(T)
  BY DEF Chans
<1>2. /\ Push(ch, v) = Settle(q) /\ q \in Chans(T)
      /\ q.closed = ch.closed /\ q.read = ch.read /\ q.queue = Append(ch.queue, v)
  <2>1. Append(ch.queue, v) \in Seq(T)
    BY <1>1
  <2> QED BY <2>1 DEF Push, Chans
<1> HIDE DEF q
<1>3. ch.read \o Append(ch.queue, v) = Append(ch.read \o ch.queue, v)
  <2> DEFINE o == <<v>>
  <2>1. Append(ch.queue, v) = ch.queue \o o /\ o \in Seq(T) /\ ch.read \o ch.queue \in Seq(T)
    BY <1>1, AppendIsConcat
  <2>2. Append(ch.read \o ch.queue, v) = (ch.read \o ch.queue) \o o
    BY <2>1, AppendIsConcat
  <2> HIDE DEF o
  <2>3. (ch.read \o ch.queue) \o o = ch.read \o (ch.queue \o o)
    <3> DEFINE a == ch.read
               b == ch.queue
    <3>1. a \in Seq(T) /\ b \in Seq(T)
      BY <1>1
    <3> HIDE DEF a, b
    <3>2. (a \o b) \o o = a \o (b \o o)
      BY <3>1, <2>1
    <3> QED BY <3>2 DEF a, b
  <2> QED BY <2>1, <2>2, <2>3
<1> QED BY <1>2, <1>3, SettleFacts

\* close leaves what was queued and what was read.
LEMMA CloseFacts ==
  ASSUME NEW T, NEW ch \in Chans(T)
  PROVE  /\ Close(ch) \in Chans(T) /\ Close(ch).closed
         /\ Close(ch).read = ch.read /\ Close(ch).queue = ch.queue
BY DEF Close, Chans

\* A new channel is open and empty.
LEMMA NewFacts == ASSUME NEW T PROVE NewChannel \in Chans(T) /\ ~NewChannel.closed
                                     /\ NewChannel.read = <<>> /\ NewChannel.queue = <<>>
BY DEF NewChannel, Chans

\* A new receiver waits for its first part.
LEMMA NewReceiverFacts ==
  /\ NewReceiver \in Receivers
  /\ Pop(NewChannel) \in Chans(Seq(Points)) /\ Waits(Pop(NewChannel))
<1>1. NewReceiver \in Receivers
  BY NewFacts DEF NewReceiver, Receivers
<1>2. Pop(NewChannel) = [queue |-> <<>>, waiting |-> TRUE, closed |-> FALSE, read |-> <<>>,
                         ended |-> FALSE]
  BY DEF Pop, NewChannel, Settle
<1>3. Waits(Pop(NewChannel))
  BY <1>2 DEF Waits
<1> QED BY <1>1, <1>3, PopFacts, NewFacts

\* A value pushed to a reader that waits is read at once.
LEMMA PushWaiting ==
  ASSUME NEW T, NEW ch \in Chans(T), Waits(ch), NEW v \in T
  PROVE  Push(ch, v) = [queue |-> <<>>, waiting |-> FALSE, closed |-> FALSE,
                        read |-> Append(ch.read, v), ended |-> FALSE]
<1> DEFINE q == [ch EXCEPT !.queue = Append(ch.queue, v)]
<1>1. Append(ch.queue, v) = <<v>>
  BY DEF Waits
<1>2. Head(<<v>>) = v /\ Tail(<<v>>) = <<>> /\ <<v>> # <<>>
  OBVIOUS
<1>3. q = [queue |-> <<v>>, waiting |-> TRUE, closed |-> FALSE, read |-> ch.read, ended |-> FALSE]
  <2>1. ch = [queue |-> ch.queue, waiting |-> ch.waiting, closed |-> ch.closed, read |-> ch.read,
              ended |-> ch.ended]
    BY DEF Chans
  <2>2. ch.waiting = TRUE /\ ch.closed = FALSE /\ ch.ended = FALSE
    BY DEF Waits, Chans
  <2> DEFINE w == Append(ch.queue, v)
  <2>3. [ch EXCEPT !.queue = w] =
          [queue |-> w, waiting |-> ch.waiting, closed |-> ch.closed, read |-> ch.read,
           ended |-> ch.ended]
    <3> HIDE DEF w
    <3> QED BY <2>1
  <2> QED BY <1>1, <2>2, <2>3
<1>4. Push(ch, v) = Settle(q)
  BY DEF Push
<1> HIDE DEF q
<1> QED BY <1>2, <1>3, <1>4 DEF Settle

\* A channel whose flag of waiting is set.
LEMMA SetWaiting ==
  ASSUME NEW q, NEW w, NEW c, NEW r, NEW d, NEW b, NEW ch,
         ch = [queue |-> q, waiting |-> w, closed |-> c, read |-> r, ended |-> d]
  PROVE  [ch EXCEPT !.waiting = b] =
           [queue |-> q, waiting |-> b, closed |-> c, read |-> r, ended |-> d]
OBVIOUS

\* What a receiver is made of.
LEMMA ReceiverRecord ==
  ASSUME NEW r \in BOOLEAN, NEW n \in Nat, NEW l \in SUBSET Nat, NEW c \in Chans(Seq(Points))
  PROVE  [registered |-> r, next |-> n, last |-> l, chan |-> c] \in Receivers
BY DEF Receivers

\* The part a receiver waits for is handed to the reader, who draws it and
\* asks for more, or is told that it was the last.
LEMMA HandleNext ==
  ASSUME NEW rc \in Receivers, rc.registered, rc.last = {}, Waits(rc.chan),
         NEW p \in Parts, p.part = rc.next,
         NEW new, new = [Handle(rc, p) EXCEPT !.chan = Read(@)], NEW points \in Seq(Points)
  PROVE  /\ new \in Receivers /\ new.registered = ~p.complete /\ new.next = rc.next + 1
         /\ AddNodes(points, rc.chan, Handle(rc, p).chan) = points \o p.items
         /\ IF p.complete THEN new.chan.ended
            ELSE new.last = {} /\ Waits(new.chan)
<1> DEFINE T == Seq(Points)
           ch == rc.chan
           fed == IF p.items # <<>> THEN Push(ch, p.items) ELSE ch
           last == IF p.complete THEN {p.part} ELSE {}
           finished == \E k \in last : rc.next + 1 > k
           r == ~finished
           n == rc.next + 1
           out == IF finished THEN Close(fed) ELSE fed
<1>1. /\ ch \in Chans(T) /\ rc.next \in Nat /\ p.complete \in BOOLEAN /\ p.items \in T
      /\ p.part \in Nat
  BY DEF Receivers, Parts
<1>2. r = ~p.complete /\ (finished <=> p.complete)
  <2>1. CASE p.complete
    <3>1. p.part \in last /\ rc.next + 1 > p.part
      BY <2>1, <1>1
    <3>2. finished
      BY <3>1
    <3>3. p.complete = TRUE /\ r = FALSE
      BY <3>2, <2>1, <1>1
    <3> QED BY <3>2, <3>3
  <2>2. CASE ~p.complete
    <3>1. last = {}
      BY <2>2
    <3>2. ~finished
      BY <3>1
    <3>3. p.complete = FALSE /\ r = TRUE
      BY <3>2, <2>2, <1>1
    <3> QED BY <3>2, <3>3
  <2> QED BY <2>1, <2>2, <1>1
<1>3. Handle(rc, p) = [registered |-> r, next |-> n, last |-> last, chan |-> out]
  BY DEF Handle
<1> HIDE DEF finished, r, n
<1>4. new = [registered |-> r, next |-> n, last |-> last, chan |-> Read(out)]
  <2> DEFINE h == Handle(rc, p)
  <2>1. h = [registered |-> r, next |-> n, last |-> last, chan |-> out]
    BY <1>3
  <2>2. new = [h EXCEPT !.chan = Read(h.chan)]
    OBVIOUS
  <2> HIDE DEF h, last, out
  <2>3. h.chan = out
    BY <2>1
  <2> QED BY <2>1, <2>2, <2>3
<1> HIDE DEF ch, out
<1>5. ch = [queue |-> <<>>, waiting |-> TRUE, closed |-> FALSE, read |-> ch.read, ended |-> FALSE]
      /\ ch.read \in Seq(T)
  <2>1. ch = [queue |-> ch.queue, waiting |-> ch.waiting, closed |-> ch.closed, read |-> ch.read,
              ended |-> ch.ended] /\ ch.read \in Seq(T)
    BY <1>1 DEF Chans
  <2>2. ch.waiting = TRUE /\ ch.closed = FALSE /\ ch.ended = FALSE /\ ch.queue = <<>>
    BY <1>1 DEF Waits, Chans, ch
  <2> QED BY <2>1, <2>2
<1>6. fed \in Chans(T) /\ ~fed.closed
      /\ IF p.items # <<>>
         THEN fed = [queue |-> <<>>, waiting |-> FALSE, closed |-> FALSE,
                     read |-> Append(ch.read, p.items), ended |-> FALSE]
         ELSE fed = ch
  <2>1. CASE p.items # <<>>
    <3>1. fed = [queue |-> <<>>, waiting |-> FALSE, closed |-> FALSE,
                 read |-> Append(ch.read, p.items), ended |-> FALSE]
      BY <2>1, <1>1, PushWaiting DEF ch
    <3>2. fed \in Chans(T)
      BY <2>1, <1>1, PushFacts
    <3> QED BY <2>1, <3>1, <3>2
  <2>2. CASE p.items = <<>>
    <3>1. fed = ch
      BY <2>2
    <3> QED BY <3>1, <2>2, <1>1, <1>5
  <2> QED BY <2>1, <2>2
<1> HIDE DEF fed
<1>7. out \in Chans(T) /\ out.read = fed.read
  <2>1. Close(fed) \in Chans(T) /\ Close(fed).read = fed.read
    BY <1>6, CloseFacts
  <2> QED BY <2>1, <1>6 DEF out
<1>8. AddNodes(points, ch, out) = points \o p.items
  <2>1. CASE p.items # <<>>
    <3>1. out.read = Append(ch.read, p.items)
      BY <2>1, <1>6, <1>7
    <3>2. Len(out.read) = Len(ch.read) + 1 /\ Len(ch.read) \in Nat /\ Last(out.read) = p.items
      BY <3>1, <1>1, <1>5, AppendProperties DEF Last
    <3> QED BY <3>2 DEF AddNodes
  <2>2. CASE p.items = <<>>
    <3>1. out.read = ch.read /\ Len(ch.read) \in Nat
      BY <2>2, <1>5, <1>6, <1>7
    <3>2. points \o <<>> = points
      BY ConcatEmptySeq
    <3> QED BY <3>1, <3>2, <2>2 DEF AddNodes
  <2> QED BY <2>1, <2>2
<1>9. Read(out) \in Chans(T)
  BY <1>7, PopFacts DEF Read
<1>10. IF p.complete THEN Read(out).ended ELSE Waits(Read(out))
  <2>1. CASE p.complete
    <3>1. out = [fed EXCEPT !.closed = TRUE, !.waiting = FALSE, !.ended = fed.ended \/ fed.waiting]
      BY <2>1, <1>2 DEF out, Close
    <3>2. out.closed /\ ~out.waiting
      BY <3>1, <1>6 DEF Chans
    <3>3. CASE out.ended
      BY <2>1, <3>3 DEF Read
    <3>4. CASE ~out.ended
      <4>1. Read(out) = [out EXCEPT !.ended = TRUE]
        BY <3>2, <3>4 DEF Read, Pop
      <4>2. [out EXCEPT !.ended = TRUE].ended
        BY <1>7 DEF Chans
      <4> QED BY <4>1, <4>2, <2>1
    <3> QED BY <3>3, <3>4
  <2>2. CASE ~p.complete
    <3>1. out = fed
      BY <2>2, <1>2 DEF out
    <3>2. CASE p.items = <<>>
      <4>1. out = ch /\ Waits(ch)
        BY <3>1, <3>2, <1>6 DEF ch
      <4>2. Read(out) = ch
        BY <4>1 DEF Read, Waits
      <4> QED BY <4>1, <4>2, <2>2
    <3>3. CASE p.items # <<>>
      <4> DEFINE rd == Append(ch.read, p.items)
      <4>1. out = [queue |-> <<>>, waiting |-> FALSE, closed |-> FALSE, read |-> rd, ended |-> FALSE]
        BY <3>1, <3>3, <1>6
      <4> HIDE DEF rd
      <4>2. [out EXCEPT !.waiting = TRUE] =
              [queue |-> <<>>, waiting |-> TRUE, closed |-> FALSE, read |-> rd, ended |-> FALSE]
        <5> DEFINE e == <<>>
                   f == FALSE
                   t == TRUE
        <5>1. out = [queue |-> e, waiting |-> f, closed |-> f, read |-> rd, ended |-> f]
          BY <4>1
        <5> HIDE DEF T, e, f, t
        <5>2. [out EXCEPT !.waiting = t] =
                [queue |-> e, waiting |-> t, closed |-> f, read |-> rd, ended |-> f]
          BY <5>1, SetWaiting
        <5> QED BY <5>2 DEF e, f, t
      <4>3. Read(out) = Settle([out EXCEPT !.waiting = TRUE])
        BY <4>1 DEF Read, Pop
      <4>4. Read(out) =
              [queue |-> <<>>, waiting |-> TRUE, closed |-> FALSE, read |-> rd, ended |-> FALSE]
        BY <4>2, <4>3 DEF Settle
      <4> QED BY <4>4, <2>2 DEF Waits
    <3> QED BY <3>2, <3>3
  <2> QED BY <2>1, <2>2, <1>1
<1>11. new \in Receivers
  <2>1. last \in SUBSET Nat
    BY <1>1
  <2>2. r \in BOOLEAN
    BY <1>1, <1>2
  <2>3. n \in Nat
    BY <1>1 DEF n
  <2>4. Read(out) \in Chans(Seq(Points))
    BY <1>9
  <2> HIDE DEF last
  <2> HIDE DEF T
  <2>5. [registered |-> r, next |-> n, last |-> last, chan |-> Read(out)] \in Receivers
    BY <2>1, <2>2, <2>3, <2>4, ReceiverRecord
  <2> QED BY <2>5, <1>4
<1>12. AddNodes(points, rc.chan, Handle(rc, p).chan) = points \o p.items
  BY <1>3, <1>8 DEF ch
<1>13. new.registered = ~p.complete /\ new.next = rc.next + 1 /\ new.chan = Read(out)
       /\ (~p.complete => new.last = {})
  BY <1>2, <1>4 DEF n
<1> QED BY <1>10, <1>11, <1>12, <1>13

-----------------------------------------------------------------------------
(* Steps that leave one side alone                                         *)

\* Calls that wait are well typed.
LEMMA RequestType ==
  ASSUME TypeInv, NEW r \in requests
  PROVE  /\ r.m \in Methods /\ r.c \in {Drawer} \cup Watchers /\ r.points \in Seq(0 .. MaxPoints)
         /\ r = [m |-> r.m, c |-> r.c, points |-> r.points]
BY DEF TypeInv, Requests

\* Watchers are served as before when one of them calls a method on the path.
LEMMA OneMeddles ==
  ASSUME WatcherInv, UNCHANGED <<nodes, ears, sent, foreign, receivers, shown, watching>>,
         meddled' \subseteq meddled \cup told,
         path' = path \/ path = "none", told \subseteq told',
         \A r \in requests' \ requests : r.m # "GetActivePath"
  PROVE  WatcherInv'
<1>1. watching' \subseteq told' /\ meddled' \subseteq told'
  BY DEF WatcherInv
<1>2. \A r \in requests' : r.m = "GetActivePath" => Asks(r)'
  BY DEF WatcherInv, Asks, Untouched
<1>3. ASSUME NEW w \in Watchers PROVE WatcherOK(w)'
  <2>1. WatcherOK(w)
    BY DEF WatcherInv
  <2>2. Follows(w)'
    BY <2>1 DEF WatcherOK, Follows, Stretches
  <2>3. ChannelInv(w)' /\ (w \notin watching' => Untouched(w)' /\ receivers'[w] = NewReceiver)
    BY <2>1 DEF WatcherOK, ChannelInv, Untouched
  <2>4. path = "gone" => path' = "gone"
    OBVIOUS
  <2> QED BY <2>1, <2>2, <2>3, <2>4 DEF WatcherOK
<1> QED BY <1>1, <1>2, <1>3 DEF WatcherInv

\* What is on its way to watchers stays when the drawer alone moves.
LEMMA WatchersQuiet ==
  ASSUME WatcherInv, UNCHANGED <<nodes, ears, sent, foreign, watcherVars>>,
         path' = path \/ path = "none", told \subseteq told',
         \A r \in requests' \ requests : r.m # "GetActivePath"
  PROVE  WatcherInv'
<1>1. UNCHANGED <<nodes, ears, sent, foreign, receivers, shown, watching>> /\ meddled' = meddled
  BY DEF watcherVars
<1> QED BY <1>1, OneMeddles

\* The drawer is where it was when others call.
LEMMA DrawerQuiet ==
  ASSUME MovesInv, DrawerInv, requests' = requests \/ (\E r : requests' = requests \cup {r}
                                          /\ r.c # Drawer /\ r.m # "BeginPath"),
         UNCHANGED <<answered, path, nodes, ears, telling, told, item, foreign, drawerVars>>
  PROVE  MovesInv' /\ DrawerInv'
<1> USE DEF drawerVars
<1>1. MovesInv'
  BY DEF MovesInv
<1>2. ASSUME NEW r \in requests', r.c = Drawer \/ r.m = "BeginPath" PROVE r \in requests
  BY <1>2
<1>3. \A r : DrawerCalls(r) => DrawerCalls(r)'
  BY DEF DrawerCalls
<1>4. /\ \A r \in requests' : r.c = Drawer => DrawerCalls(r)'
      /\ \A r \in requests', q \in requests' : r.c = Drawer /\ q.c = Drawer => r = q
      /\ \A r \in requests' : r.m = "BeginPath" => r.c = Drawer
  BY <1>2, <1>3 DEF DrawerInv
<1>5. DrawerInv'
  BY <1>4 DEF DrawerInv
<1> QED BY <1>1, <1>5

\* A call that a worker has taken is not there any more.
LEMMA CallTaken ==
  ASSUME DrawerInv, NEW r \in requests, requests' = requests \ {r}
  PROVE  /\ r.c = Drawer => \A q \in requests' : q.c # Drawer
         /\ \A q \in requests' : q \in requests
BY DEF DrawerInv

-----------------------------------------------------------------------------
(* The pointer and the gesture                                             *)

\* The tool has read a beginning of what was drawn.
LEMMA DrawnFacts ==
  ASSUME TypeInv, MovesInv
  PROVE  /\ Len(moves.read) <= Len(drawn) /\ Len(drawn) \in Nat /\ Len(moves.read) \in Nat
         /\ \A k \in DOMAIN moves.read : k \in DOMAIN drawn /\ drawn[k] = moves.read[k]
         /\ moves.read \in Seq(Points) /\ drawn \in Seq(Points)
<1>1. moves.read \in Seq(Points) /\ moves.queue \in Seq(Points) /\ drawn \in Seq(Points)
  BY DEF TypeInv, Chans
<1>2. drawn = moves.read \o moves.queue
  BY DEF MovesInv
<1>3. /\ Len(drawn) = Len(moves.read) + Len(moves.queue)
      /\ \A k \in 1 .. Len(moves.read) : drawn[k] = moves.read[k]
      /\ Len(moves.read) \in Nat /\ Len(moves.queue) \in Nat
      /\ DOMAIN drawn = 1 .. Len(drawn) /\ DOMAIN moves.read = 1 .. Len(moves.read)
      /\ Len(moves.read) <= Len(drawn) /\ Len(drawn) \in Nat
  <2> DEFINE a == moves.read
             b == moves.queue
  <2>1. a \in Seq(Points) /\ b \in Seq(Points) /\ drawn = a \o b
    BY <1>1, <1>2
  <2> HIDE DEF a, b
  <2>2. /\ Len(drawn) = Len(a) + Len(b) /\ \A k \in 1 .. Len(a) : drawn[k] = a[k]
        /\ Len(a) \in Nat /\ Len(b) \in Nat
        /\ DOMAIN drawn = 1 .. Len(drawn) /\ DOMAIN a = 1 .. Len(a) /\ Len(a) <= Len(drawn)
        /\ Len(drawn) \in Nat
    BY <2>1
  <2> QED BY <2>2 DEF a, b
<1>5. ASSUME NEW k \in DOMAIN moves.read PROVE k \in DOMAIN drawn /\ drawn[k] = moves.read[k]
  <2> DEFINE n == Len(moves.read)
             m == Len(drawn)
  <2>1. k \in 1 .. n /\ n <= m /\ n \in Nat /\ m \in Nat
    BY <1>3
  <2>2. k \in 1 .. m
    <3> HIDE DEF n, m
    <3> QED BY <2>1
  <2> QED BY <2>1, <2>2, <1>3
<1> QED BY <1>1, <1>3, <1>5

\* More moves, or more of them handed to the gesture, change nothing of what
\* was drawn.
LEMMA MoreMoves ==
  ASSUME TypeInv, MovesInv, DrawerInv, MovesInv', drawn' \in Seq(Points), moves' \in Chans(Points),
         Len(moves'.read) >= Len(moves.read),
         drawn' = drawn \/ \E p \in Points : drawn' = Append(drawn, p),
         UNCHANGED <<pathVars, tool, taken>>
  PROVE  DrawerInv'
<1> USE DEF pathVars
<1>1. /\ Len(moves.read) <= Len(drawn) /\ Len(drawn) \in Nat /\ Len(moves.read) \in Nat
      /\ drawn \in Seq(Points) /\ moves'.read \in Seq(Points) /\ Len(moves'.read) \in Nat
      /\ moves.read \in Seq(Points)
  BY DrawnFacts DEF Chans
<1>2. \A k \in DOMAIN drawn : drawn'[k] = drawn[k]
  BY <1>1
<1>3. taken \in Nat /\ taken <= Len(moves.read) /\ Len(nodes) <= taken /\ Len(nodes) \in Nat
  BY DEF TypeInv, DrawerInv
<1>4. SubSeq(drawn', 1, Len(nodes)) = SubSeq(drawn, 1, Len(nodes))
  <2>1. CASE drawn' = drawn
    BY <2>1
  <2>2. ASSUME NEW p \in Points, drawn' = Append(drawn, p)
        PROVE  SubSeq(drawn', 1, Len(nodes)) = SubSeq(drawn, 1, Len(nodes))
    <3> DEFINE o == <<p>>
    <3>1. o \in Seq(Points) /\ drawn' = drawn \o o
      BY <2>2, <1>1, AppendIsConcat
    <3> HIDE DEF o
    <3>2. 0 \in 0 .. Len(drawn) /\ Len(nodes) \in 0 .. Len(drawn) /\ 0 + 1 = 1
      BY <1>1, <1>3
    <3>3. SubSeq(drawn \o o, 0 + 1, Len(nodes)) = SubSeq(drawn, 0 + 1, Len(nodes))
      BY <3>1, <3>2, <1>1, StretchGrow
    <3> QED BY <3>1, <3>2, <3>3
  <2> QED BY <2>1, <2>2
<1>5. \A r : DrawerCalls(r) => DrawerCalls(r)'
  <2> SUFFICES ASSUME NEW r, DrawerCalls(r) PROVE DrawerCalls(r)'
    OBVIOUS
  <2>1. taken \in DOMAIN moves.read => taken \in DOMAIN drawn /\ taken \in DOMAIN moves'.read
    BY <1>1, <1>3
  <2> QED BY <2>1, <1>2 DEF DrawerCalls
<1>6. taken' <= Len(moves'.read)
  BY <1>1, <1>3
<1>7. nodes' = SubSeq(drawn', 1, Len(nodes'))
  BY <1>4 DEF DrawerInv
<1> QED BY <1>5, <1>6, <1>7 DEF DrawerInv

\* The pointer comes down, moves or is lifted.
LEMMA PointerStep ==
  ASSUME IInv, Pointer
  PROVE  IInv'
<1> USE DEF IInv
<1>1. UNCHANGED <<tool, taken, pathVars, watcherVars>>
  BY DEF Pointer, PointerDown, PointerMove, PointerUp
<1>2. drawn \in Seq(Points) /\ moves \in Chans(Points) /\ moves.read \in Seq(Points)
  BY DEF TypeInv, Chans
<1>3. /\ drawn' \in Seq(Points) /\ moves' \in Chans(Points) /\ MovesInv'
      /\ Len(moves'.read) >= Len(moves.read)
      /\ drawn' = drawn \/ \E p \in Points : drawn' = Append(drawn, p)
      /\ pointer' \in {"up", "down", "lifted"}
  <2>1. CASE PointerDown
    <3>1. /\ pointer' = "down" /\ moves' = Pop(NewChannel) /\ drawn' = drawn /\ drawn = <<>>
      BY <2>1 DEF PointerDown, MovesInv
    <3>2. /\ moves' \in Chans(Points)
          /\ moves'.read \o moves'.queue = NewChannel.read \o NewChannel.queue
          /\ NewChannel.read = <<>> /\ NewChannel.queue = <<>>
      BY <3>1, PopFacts, NewFacts
    <3>3. Len(moves.read) = 0 /\ Len(moves'.read) >= 0
      <4>1. Len(moves.read) <= 0 /\ Len(moves.read) \in Nat
        BY <3>1, DrawnFacts
      <4>2. Len(moves'.read) \in Nat
        BY <3>2 DEF Chans
      <4> QED BY <4>1, <4>2
    <3>4. drawn' = moves'.read \o moves'.queue
      BY <3>1, <3>2
    <3> QED BY <3>1, <3>2, <3>3, <3>4, <1>2 DEF MovesInv
  <2>2. CASE PointerMove
    <3> DEFINE p == Len(drawn) + 1
    <3>1. /\ pointer = "down" /\ pointer' = pointer /\ p <= MaxPoints
          /\ drawn' = Append(drawn, p) /\ moves' = Push(moves, p)
      BY <2>2 DEF PointerMove
    <3>2. p \in Points /\ Len(drawn) \in Nat
      <4>1. Len(drawn) \in Nat
        BY <1>2
      <4> QED BY <4>1, <3>1 DEF Points
    <3>3. /\ drawn' \in Seq(Points) /\ Len(drawn') = p
          /\ \A k \in 1 .. Len(drawn) : drawn'[k] = drawn[k]
          /\ drawn'[p] = p
      BY <3>1, <3>2, <1>2, AppendProperties
    <3>4. \A k \in DOMAIN drawn' : drawn'[k] = k
      <4>1. DOMAIN drawn' = 1 .. p /\ DOMAIN drawn = 1 .. Len(drawn)
        BY <3>3, <1>2
      <4>2. \A k \in 1 .. Len(drawn) : drawn'[k] = k
        BY <4>1, <3>3 DEF MovesInv
      <4>3. \A k \in 1 .. p : k \in 1 .. Len(drawn) \/ k = p
        BY <3>2
      <4> QED BY <4>1, <4>2, <4>3, <3>3
    <3> HIDE DEF p
    <3>5. /\ moves' \in Chans(Points) /\ Len(moves'.read) >= Len(moves.read)
          /\ moves'.read \o moves'.queue = Append(moves.read \o moves.queue, p)
      BY <3>1, <3>2, <1>2, PushFacts
    <3>6. drawn' = moves'.read \o moves'.queue
      BY <3>1, <3>5 DEF MovesInv
    <3>7. MovesInv'
      BY <3>1, <3>4, <3>6 DEF MovesInv
    <3> QED BY <3>1, <3>2, <3>3, <3>5, <3>7
  <2>3. CASE PointerUp
    <3>1. pointer' = "lifted" /\ moves' = Close(moves) /\ drawn' = drawn
      BY <2>3 DEF PointerUp
    <3>2. moves' \in Chans(Points) /\ moves'.read = moves.read /\ moves'.queue = moves.queue
      BY <3>1, <1>2, CloseFacts
    <3>3. MovesInv'
      BY <3>1, <3>2 DEF MovesInv
    <3>4. Len(moves.read) \in Nat
      BY <1>2
    <3> QED BY <3>1, <3>2, <3>3, <3>4, <1>2
  <2> QED BY <2>1, <2>2, <2>3 DEF Pointer
<1>4. TypeInv'
  BY <1>1, <1>3 DEF TypeInv, pathVars, watcherVars
<1>5. DrawerInv'
  BY <1>1, <1>3, MoreMoves
<1>6. WatcherInv'
  BY <1>1, WatchersQuiet DEF pathVars
<1> QED BY <1>3, <1>4, <1>5, <1>6

\* No call of the drawer is under way unless the path tool waits for it.
LEMMA NoDrawerCall ==
  ASSUME DrawerInv, tool \notin {"begin", "continue", "end"} \/ answered
  PROVE  \A r \in requests : r.c # Drawer
BY DEF DrawerInv, DrawerCalls

\* Request adds one call.
LEMMA RequestFacts ==
  ASSUME TypeInv, NEW m \in Methods, NEW c \in {Drawer} \cup Watchers,
         NEW points \in Seq(0 .. MaxPoints), Request(m, c, points)
  PROVE  /\ requests' \subseteq Requests
         /\ requests' = requests \cup {[m |-> m, c |-> c, points |-> points]}
BY DEF Request, Call, Requests, TypeInv

\* The gesture is a press.
LEMMA PressStep ==
  ASSUME IInv, Press
  PROVE  IInv'
<1> USE DEF IInv
<1>1. tool = "idle" /\ tool' = "press"
      /\ UNCHANGED <<pointer, drawn, moves, taken, pathVars, watcherVars>>
  BY DEF Press
<1>2. TypeInv'
  BY <1>1 DEF TypeInv, pathVars, watcherVars
<1>3. \A r \in requests : r.c # Drawer
  BY <1>1, NoDrawerCall
<1>4. MovesInv' /\ DrawerInv'
  BY <1>1, <1>3 DEF MovesInv, DrawerInv, pathVars
<1>5. WatcherInv'
  BY <1>1, WatchersQuiet DEF pathVars
<1> QED BY <1>2, <1>4, <1>5

\* The gesture becomes a drag and the tool begins a path.
LEMMA StartDragStep ==
  ASSUME IInv, StartDrag
  PROVE  IInv'
<1> USE DEF IInv
<1>1. /\ tool = "idle" /\ tool' = "begin" /\ Request("BeginPath", Drawer, <<>>)
      /\ UNCHANGED <<pointer, drawn, moves, taken, answered, sent, serverRest, watcherVars>>
  BY DEF StartDrag
<1> DEFINE r == [m |-> "BeginPath", c |-> Drawer, points |-> <<>>]
<1>2. requests' \subseteq Requests /\ requests' = requests \cup {r}
  <2> DEFINE e == <<>>
  <2>1. e \in Seq(0 .. MaxPoints) /\ "BeginPath" \in Methods
    BY DEF Methods
  <2> HIDE DEF e
  <2>2. Request("BeginPath", Drawer, e)
    BY <1>1 DEF e
  <2>3. requests' \subseteq Requests
        /\ requests' = requests \cup {[m |-> "BeginPath", c |-> Drawer, points |-> e]}
    BY <2>1, <2>2, RequestFacts
  <2> QED BY <2>3 DEF e
<1>3. r.m = "BeginPath" /\ r.c = Drawer
  OBVIOUS
<1> HIDE DEF r
<1>4. TypeInv'
  BY <1>1, <1>2 DEF TypeInv, serverRest, watcherVars
<1>5. \A q \in requests : q.c # Drawer
  BY <1>1, NoDrawerCall
<1>6. DrawerCalls(r)'
  BY <1>1, <1>3 DEF DrawerCalls, DrawerInv, serverRest
<1>7. MovesInv' /\ DrawerInv'
  BY <1>1, <1>2, <1>3, <1>5, <1>6 DEF MovesInv, DrawerInv, serverRest
<1>8. WatcherInv'
  BY <1>1, <1>2, <1>3, WatchersQuiet DEF serverRest
<1> QED BY <1>4, <1>7, <1>8

\* The tool has read all and ends its path.
LEMMA FinishDragStep ==
  ASSUME IInv, FinishDrag
  PROVE  IInv'
<1> USE DEF IInv
<1>1. /\ tool = "next" /\ tool' = "end" /\ Request("EndPath", Drawer, <<>>)
      /\ UNCHANGED <<pointer, drawn, moves, taken, answered, sent, serverRest, watcherVars>>
  BY DEF FinishDrag
<1> DEFINE r == [m |-> "EndPath", c |-> Drawer, points |-> <<>>]
<1>2. requests' \subseteq Requests /\ requests' = requests \cup {r}
  <2> DEFINE e == <<>>
  <2>1. e \in Seq(0 .. MaxPoints) /\ "EndPath" \in Methods
    BY DEF Methods
  <2> HIDE DEF e
  <2>2. Request("EndPath", Drawer, e)
    BY <1>1 DEF e
  <2>3. requests' \subseteq Requests
        /\ requests' = requests \cup {[m |-> "EndPath", c |-> Drawer, points |-> e]}
    BY <2>1, <2>2, RequestFacts
  <2> QED BY <2>3 DEF e
<1>3. r.m = "EndPath" /\ r.c = Drawer /\ r.points = <<>>
  OBVIOUS
<1> HIDE DEF r
<1>4. TypeInv'
  BY <1>1, <1>2 DEF TypeInv, serverRest, watcherVars
<1>5. \A q \in requests : q.c # Drawer
  BY <1>1, NoDrawerCall
<1>6. DrawerCalls(r)'
  BY <1>1, <1>3 DEF DrawerCalls, DrawerInv, serverRest
<1>7. MovesInv' /\ DrawerInv'
  BY <1>1, <1>2, <1>3, <1>5, <1>6 DEF MovesInv, DrawerInv, serverRest
<1>8. WatcherInv'
  BY <1>1, <1>2, <1>3, WatchersQuiet DEF serverRest
<1> QED BY <1>4, <1>7, <1>8

\* An answer lets the tool go on.
LEMMA AnswerStep ==
  ASSUME IInv, Answer
  PROVE  IInv'
<1> USE DEF IInv
<1>1. /\ answered /\ answered' = FALSE /\ tool' = IF tool = "end" THEN "done" ELSE "next"
      /\ UNCHANGED <<pointer, drawn, moves, taken, requests, sent, serverRest, watcherVars>>
  BY DEF Answer
<1>2. TypeInv'
  BY <1>1 DEF TypeInv, serverRest, watcherVars
<1>3. \A q \in requests : q.c # Drawer
  BY <1>1, NoDrawerCall
<1>4. tool \in {"begin", "continue", "end"} /\ Len(nodes) = taken /\ path # "none"
  BY <1>1 DEF DrawerInv
<1>5. MovesInv' /\ DrawerInv'
  BY <1>1, <1>3, <1>4 DEF MovesInv, DrawerInv, serverRest
<1>6. WatcherInv'
  BY <1>1, WatchersQuiet DEF serverRest
<1> QED BY <1>2, <1>5, <1>6

\* The tool sends the next point it reads.
LEMMA NextPointStep ==
  ASSUME IInv, NextPoint
  PROVE  IInv'
<1> USE DEF IInv
<1>1. /\ tool = "next" /\ UNCHANGED <<pointer, drawn, answered, sent, serverRest, watcherVars>>
      /\ IF taken < Len(moves.read)
         THEN /\ taken' = taken + 1 /\ tool' = "continue"
              /\ Request("ContinuePath", Drawer, <<moves.read[taken + 1]>>)
              /\ UNCHANGED moves
         ELSE moves' = Pop(moves) /\ UNCHANGED <<tool, taken, requests>>
  BY DEF NextPoint
<1>2. CASE taken < Len(moves.read)
  <2>1. PICK p : p = moves.read[taken + 1]
    OBVIOUS
  <2>2. PICK r : r = [m |-> "ContinuePath", c |-> Drawer, points |-> <<p>>]
    OBVIOUS
  <2>3. /\ taken' = taken + 1 /\ tool' = "continue" /\ moves' = moves
        /\ Request("ContinuePath", Drawer, <<p>>)
    BY <1>1, <1>2, <2>1
  <2>4. taken \in Nat /\ Len(moves.read) \in Nat /\ taken + 1 \in DOMAIN moves.read
        /\ moves.read \in Seq(Points)
    <3>1. taken \in Nat /\ moves.read \in Seq(Points)
      BY DEF TypeInv, Chans
    <3> QED BY <3>1, <1>2
  <2>5. p \in Points /\ p \in 0 .. MaxPoints /\ drawn[taken + 1] = p
    BY <2>4, <2>1, DrawnFacts DEF Points
  <2>6. <<p>> \in Seq(0 .. MaxPoints)
    BY <2>5
  <2>7. requests' \subseteq Requests /\ requests' = requests \cup {r}
    BY <2>3, <2>6, <2>2, RequestFacts DEF Methods
  <2>8. r.m = "ContinuePath" /\ r.c = Drawer /\ r.points = <<p>>
    BY <2>2
  <2>9. TypeInv'
    BY <1>1, <2>3, <2>4, <2>7 DEF TypeInv, serverRest, watcherVars
  <2>10. \A q \in requests : q.c # Drawer
    BY <1>1, NoDrawerCall
  <2>11. ~answered /\ Len(nodes) = taken /\ path # "none"
    BY <1>1 DEF DrawerInv
  <2>12. DrawerCalls(r)'
    <3>1. drawn' = drawn /\ nodes' = nodes /\ ~answered'
      BY <1>1, <2>11 DEF serverRest
    <3>2. r.points = <<drawn'[taken']>>
      BY <3>1, <2>3, <2>5, <2>8
    <3>3. taken' \in DOMAIN moves'.read /\ Len(nodes') + 1 = taken'
      BY <3>1, <2>3, <2>4, <2>11
    <3>4. /\ r.m = "ContinuePath" /\ tool' = "continue" /\ r.points = <<drawn'[taken']>>
          /\ taken' \in DOMAIN moves'.read /\ Len(nodes') + 1 = taken'
      BY <3>2, <3>3, <2>3, <2>8
    <3> QED BY ONLY <3>1, <3>4 DEF DrawerCalls
  <2>13. taken' <= Len(moves.read) /\ Len(nodes) <= taken'
    BY <2>3, <2>4, <2>11, <1>2
  <2>14. MovesInv'
    BY <1>1, <2>3 DEF MovesInv
  <2>15. DrawerInv'
    <3>1. /\ \A q \in requests' : q.c = Drawer => DrawerCalls(q)'
          /\ \A q \in requests', s \in requests' : q.c = Drawer /\ s.c = Drawer => q = s
          /\ \A q \in requests' : q.m = "BeginPath" => q.c = Drawer
      <4>1. \A q \in requests' : q.c = Drawer => q = r
        BY <2>7, <2>10
      <4>2. \A q \in requests : q.m = "BeginPath" => q.c = Drawer
        BY DEF DrawerInv
      <4>3. \A q \in requests' : q.m = "BeginPath" => q \in requests
        BY <2>7, <2>8
      <4>4. ASSUME NEW q \in requests', q.c = Drawer PROVE DrawerCalls(q)'
        <5>1. q = r
          BY <4>1, <4>4
        <5> QED BY <5>1, <2>12 DEF DrawerCalls
      <4> QED BY <4>1, <4>2, <4>3, <4>4
    <3>2. /\ UNCHANGED <<answered, path, nodes, ears, telling, told, item, foreign, drawn>>
          /\ tool' = "continue" /\ moves' = moves
      BY <1>1, <2>3 DEF serverRest
    <3> QED BY <3>1, <3>2, <2>11, <2>13 DEF DrawerInv
  <2>16. WatcherInv'
    BY <1>1, <2>7, <2>8, WatchersQuiet DEF serverRest
  <2> QED BY <2>9, <2>14, <2>15, <2>16
<1>3. CASE ~(taken < Len(moves.read))
  <2>1. moves' = Pop(moves) /\ UNCHANGED <<tool, taken, requests>>
    BY <1>1, <1>3
  <2>2. moves \in Chans(Points)
    BY DEF TypeInv
  <2>3. /\ moves' \in Chans(Points) /\ Len(moves'.read) >= Len(moves.read)
        /\ moves'.read \o moves'.queue = moves.read \o moves.queue
    BY <2>1, <2>2, PopFacts
  <2>4. TypeInv'
    BY <1>1, <2>1, <2>3 DEF TypeInv, serverRest, watcherVars
  <2>5. MovesInv'
    BY <1>1, <2>3 DEF MovesInv
  <2>6. DrawerInv'
    BY <1>1, <2>1, <2>3, <2>4, <2>5, MoreMoves DEF pathVars, serverRest, TypeInv
  <2>7. WatcherInv'
    BY <1>1, <2>1, WatchersQuiet DEF serverRest
  <2> QED BY <2>4, <2>5, <2>6, <2>7
<1> QED BY <1>2, <1>3

\* All steps of the tool.
LEMMA ToolStep ==
  ASSUME IInv, Tool
  PROVE  IInv'
BY PressStep, StartDragStep, NextPointStep, FinishDragStep, AnswerStep DEF Tool

-----------------------------------------------------------------------------
(* The parts a watcher is sent                                             *)

\* A path that grows keeps its stretches.
LEMMA StretchesGrow ==
  ASSUME nodes \in Seq(Points), NEW more \in Seq(Points), nodes' = nodes \o more,
         NEW parts \in Seq(Parts), NEW cut \in [0 .. Len(parts) -> 0 .. Len(nodes)],
         Stretches(parts, cut)
  PROVE  /\ Len(nodes') \in Nat /\ Len(nodes) <= Len(nodes') /\ Len(nodes) \in Nat
         /\ nodes' \in Seq(Points)
         /\ cut \in [0 .. Len(parts) -> 0 .. Len(nodes')]
         /\ Stretches(parts, cut)'
         /\ \A a \in 0 .. Len(nodes) : SubSeq(nodes', 1, a) = SubSeq(nodes, 1, a)
<1>1. /\ Len(nodes') \in Nat /\ Len(nodes) <= Len(nodes') /\ Len(nodes) \in Nat
      /\ nodes' \in Seq(Points)
  BY ConcatProperties
<1>2. cut \in [0 .. Len(parts) -> 0 .. Len(nodes')]
  BY <1>1
<1>3. ASSUME NEW a \in 0 .. Len(nodes), NEW b \in a .. Len(nodes)
      PROVE  SubSeq(nodes', a + 1, b) = SubSeq(nodes, a + 1, b)
  BY StretchGrow
<1>4. ASSUME NEW k \in DOMAIN parts
      PROVE  cut[k - 1] <= cut[k] /\ parts[k].items = SubSeq(nodes', cut[k - 1] + 1, cut[k])
  <2>1. k \in 1 .. Len(parts) /\ k - 1 \in 0 .. Len(parts) /\ k \in 0 .. Len(parts)
    OBVIOUS
  <2>2. cut[k - 1] \in 0 .. Len(nodes) /\ cut[k] \in 0 .. Len(nodes)
    BY <2>1
  <2>3. cut[k - 1] <= cut[k] /\ parts[k].items = SubSeq(nodes, cut[k - 1] + 1, cut[k])
    BY DEF Stretches
  <2>4. cut[k] \in cut[k - 1] .. Len(nodes)
    BY <2>2, <2>3
  <2> QED BY <2>2, <2>3, <2>4, <1>3
<1>5. Stretches(parts, cut)'
  BY <1>4 DEF Stretches
<1>6. \A a \in 0 .. Len(nodes) : SubSeq(nodes', 1, a) = SubSeq(nodes, 1, a)
  <2>1. 0 \in 0 .. Len(nodes) /\ 0 + 1 = 1 /\ \A a \in 0 .. Len(nodes) : a \in 0 .. Len(nodes)
    BY <1>1
  <2> QED BY <2>1, <1>3
<1> QED BY <1>1, <1>2, <1>5, <1>6

\* One more part reaches to the end of the path.
LEMMA OneMorePart ==
  ASSUME nodes' \in Seq(Points), NEW parts \in Seq(Parts), NEW p \in Parts,
         NEW cut \in [0 .. Len(parts) -> 0 .. Len(nodes')], Stretches(parts, cut)',
         p.items = SubSeq(nodes', cut[Len(parts)] + 1, Len(nodes'))
  PROVE  \E c \in [0 .. Len(Append(parts, p)) -> 0 .. Len(nodes')] :
           /\ Stretches(Append(parts, p), c)'
           /\ \A k \in 0 .. Len(parts) : c[k] = cut[k]
           /\ c[Len(parts) + 1] = Len(nodes')
<1> DEFINE n == Len(parts)
           m == Len(nodes')
<1>1. /\ n \in Nat /\ m \in Nat /\ Len(Append(parts, p)) = n + 1
      /\ DOMAIN Append(parts, p) = 1 .. n + 1 /\ DOMAIN parts = 1 .. n
      /\ \A k \in 1 .. n : Append(parts, p)[k] = parts[k]
      /\ Append(parts, p)[n + 1] = p
  OBVIOUS
<1> HIDE DEF n, m
<1>2. \A k \in 0 .. n : k \in 0 .. n + 1 /\ k # n + 1
  BY <1>1
<1>3. PICK c : c = [k \in 0 .. n + 1 |-> IF k = n + 1 THEN m ELSE cut[k]]
  OBVIOUS
<1>4. /\ c \in [0 .. n + 1 -> 0 .. m]
      /\ c[n + 1] = m /\ \A k \in 0 .. n : c[k] = cut[k]
  <2>1. c \in [0 .. n + 1 -> 0 .. m]
    BY <1>1, <1>3 DEF n, m
  <2>2. c[n + 1] = m /\ \A k \in 0 .. n : c[k] = cut[k]
    BY <1>1, <1>2, <1>3
  <2> QED BY <2>1, <2>2
<1>5. ASSUME NEW k \in 1 .. n + 1
      PROVE  /\ c[k - 1] <= c[k]
             /\ Append(parts, p)[k].items = SubSeq(nodes', c[k - 1] + 1, c[k])
  <2>1. CASE k = n + 1
    <3>1. k - 1 = n /\ n \in 0 .. n
      BY <2>1, <1>1
    <3>2. c[k - 1] = cut[n] /\ c[k] = m /\ cut[n] \in 0 .. m
      BY <2>1, <3>1, <1>4 DEF n, m
    <3>3. p.items = SubSeq(nodes', cut[n] + 1, m)
      BY DEF n, m
    <3> QED BY <2>1, <3>2, <3>3, <1>1
  <2>2. CASE k # n + 1
    <3>1. k \in 1 .. n /\ k - 1 \in 0 .. n /\ k \in 0 .. n
      BY <2>2, <1>1
    <3>2. c[k - 1] = cut[k - 1] /\ c[k] = cut[k]
      BY <3>1, <1>4
    <3>3. cut[k - 1] <= cut[k] /\ parts[k].items = SubSeq(nodes', cut[k - 1] + 1, cut[k])
      BY <3>1, <1>1 DEF Stretches
    <3> QED BY <3>1, <3>2, <3>3, <1>1
  <2> QED BY <2>1, <2>2
<1>6. Stretches(Append(parts, p), c)'
  BY <1>1, <1>5 DEF Stretches
<1> QED BY <1>1, <1>4, <1>6 DEF n, m

\* A watcher that is sent nothing while the path grows.
LEMMA PathGrows ==
  ASSUME TypeInv, NEW w \in Watchers, WatcherOK(w), path = "active",
         NEW more \in Seq(Points), nodes' = nodes \o more, sent'[w] = sent[w],
         w \in DOMAIN ears' =>
           /\ w \in DOMAIN ears /\ ears'[w].part = ears[w].part
           /\ ears'[w].items = ears[w].items \o more,
         UNCHANGED watcherVars
  PROVE  WatcherOK(w)'
<1> USE DEF watcherVars
<1>1. nodes \in Seq(Points) /\ sent[w] \in Seq(Parts)
  BY DEF TypeInv
<1>2. PICK parts \in Seq(Parts) : parts = sent[w]
  BY <1>1
<1>3. PICK cut \in [0 .. Len(parts) -> 0 .. Len(nodes)] :
        /\ shown[w] = SubSeq(nodes, 1, cut[0])
        /\ Stretches(parts, cut)
        /\ w \in DOMAIN ears => ears[w].items = SubSeq(nodes, cut[Len(parts)] + 1, Len(nodes))
  BY <1>2 DEF WatcherOK, Follows
<1>4. /\ cut \in [0 .. Len(parts) -> 0 .. Len(nodes')]
      /\ Stretches(parts, cut)'
      /\ \A a \in 0 .. Len(nodes) : SubSeq(nodes', 1, a) = SubSeq(nodes, 1, a)
  BY <1>1, <1>3, StretchesGrow
<1>5. 0 \in 0 .. Len(parts) /\ Len(parts) \in 0 .. Len(parts)
  OBVIOUS
<1>6. shown'[w] = SubSeq(nodes', 1, cut[0])
  BY <1>3, <1>4, <1>5
<1>7. w \in DOMAIN ears' => ears'[w].items = SubSeq(nodes', cut[Len(parts)] + 1, Len(nodes'))
  <2> DEFINE a == cut[Len(parts)]
  <2>1. a \in 0 .. Len(nodes)
    BY <1>5
  <2> HIDE DEF a
  <2>2. SubSeq(nodes, a + 1, Len(nodes)) \o more = SubSeq(nodes', a + 1, Len(nodes'))
    BY <2>1, <1>1, StretchTail
  <2> QED BY <2>2, <1>3 DEF a
<1>8. ~receivers[w].chan.ended /\ \A k \in DOMAIN sent[w] : ~sent[w][k].complete
  BY DEF WatcherOK
<1>9. Follows(w)'
  BY <1>2, <1>4, <1>6, <1>7, <1>8 DEF Follows
<1>10. ChannelInv(w)' /\ (w \notin watching' => Untouched(w)' /\ receivers'[w] = NewReceiver)
  BY DEF WatcherOK, ChannelInv, Untouched
<1>11. w \in DOMAIN ears' =>
         receivers'[w].registered /\ ears'[w].part = receivers'[w].next + Len(sent'[w])
  BY DEF WatcherOK
<1>12. /\ \A k \in DOMAIN sent'[w] :
            /\ sent'[w][k].part = receivers'[w].next + k - 1
            /\ ~sent'[w][k].complete
       /\ ~receivers'[w].registered => sent'[w] = <<>>
       /\ ~receivers'[w].chan.ended
  BY <1>8 DEF WatcherOK
<1> QED BY <1>9, <1>10, <1>11, <1>12 DEF WatcherOK

\* A watcher that is sent what it had still to be sent of the path.
LEMMA PartSent ==
  ASSUME TypeInv, NEW w \in Watchers, WatcherOK(w), path = "active",
         w \in watching, receivers[w].registered,
         NEW more \in Seq(Points), nodes' = nodes \o more,
         NEW parts \in Seq(Parts), parts = sent[w],
         NEW p \in Parts, sent'[w] = Append(parts, p),
         NEW cut \in [0 .. Len(parts) -> 0 .. Len(nodes)],
         shown[w] = SubSeq(nodes, 1, cut[0]), Stretches(parts, cut),
         p.items = SubSeq(nodes, cut[Len(parts)] + 1, Len(nodes)) \o more,
         p.part = receivers[w].next + Len(parts),
         p.complete => path' = "gone" /\ ~foreign',
         w \in DOMAIN ears' => ears'[w].part = p.part + 1 /\ ears'[w].items = <<>>,
         UNCHANGED watcherVars
  PROVE  WatcherOK(w)'
<1> USE DEF watcherVars
<1>1. nodes \in Seq(Points) /\ receivers[w].next \in Nat
  BY DEF TypeInv, Receivers
<1>2. /\ cut \in [0 .. Len(parts) -> 0 .. Len(nodes')] /\ nodes' \in Seq(Points)
      /\ Stretches(parts, cut)'
      /\ \A a \in 0 .. Len(nodes) : SubSeq(nodes', 1, a) = SubSeq(nodes, 1, a)
  BY <1>1, StretchesGrow
<1> DEFINE n == Len(parts)
<1>3. /\ 0 \in 0 .. n /\ n \in 0 .. n /\ n \in Nat
      /\ Len(Append(parts, p)) = n + 1 /\ DOMAIN Append(parts, p) = 1 .. n + 1
      /\ DOMAIN parts = 1 .. n
      /\ \A k \in 1 .. n : Append(parts, p)[k] = parts[k]
      /\ Append(parts, p)[n + 1] = p
  OBVIOUS
<1>4. p.items = SubSeq(nodes', cut[Len(parts)] + 1, Len(nodes'))
  <2>1. PICK a \in 0 .. Len(nodes) : a = cut[Len(parts)]
    BY <1>3
  <2>2. SubSeq(nodes, a + 1, Len(nodes)) \o more = SubSeq(nodes', a + 1, Len(nodes'))
    <3>1. /\ nodes' = nodes \o more /\ more \in Seq(Points) /\ nodes \in Seq(Points)
          /\ a \in 0 .. Len(nodes)
      BY <1>1
    <3> QED BY ONLY <3>1, StretchTail
  <2> QED BY <2>1, <2>2
<1>5. PICK c \in [0 .. Len(Append(parts, p)) -> 0 .. Len(nodes')] :
        /\ Stretches(Append(parts, p), c)'
        /\ \A k \in 0 .. Len(parts) : c[k] = cut[k]
        /\ c[Len(parts) + 1] = Len(nodes')
  <2>1. /\ parts \in Seq(Parts) /\ p \in Parts
        /\ nodes' \in Seq(Points) /\ cut \in [0 .. Len(parts) -> 0 .. Len(nodes')]
    BY <1>2
  <2> QED BY ONLY <2>1, <1>2, <1>4, OneMorePart
<1>6. /\ ~receivers[w].chan.ended
      /\ \A k \in 1 .. n : ~parts[k].complete /\ parts[k].part = receivers[w].next + k - 1
  BY <1>3 DEF WatcherOK
<1>7. shown'[w] = SubSeq(nodes', 1, c[0])
  BY <1>2, <1>3, <1>5
<1>8. w \in DOMAIN ears' => ears'[w].items = SubSeq(nodes', c[n + 1] + 1, Len(nodes'))
  <2>1. SubSeq(nodes', Len(nodes') + 1, Len(nodes')) = <<>>
    BY <1>2, SubSeqEmpty
  <2> QED BY <2>1, <1>5
<1> HIDE DEF n
<1>9. \A k \in 1 .. n + 1 :
        /\ Append(parts, p)[k].part = receivers[w].next + k - 1
        /\ Append(parts, p)[k].complete => k = n + 1 /\ path' = "gone" /\ ~foreign'
  <2> SUFFICES ASSUME NEW k \in 1 .. n + 1
               PROVE  /\ Append(parts, p)[k].part = receivers[w].next + k - 1
                      /\ Append(parts, p)[k].complete => k = n + 1 /\ path' = "gone" /\ ~foreign'
    OBVIOUS
  <2>1. CASE k = n + 1
    <3>1. p.part = receivers[w].next + (n + 1) - 1
      BY <1>1, <1>3 DEF n
    <3> QED BY <2>1, <3>1, <1>3
  <2>2. CASE k # n + 1
    <3>1. k \in 1 .. n
      BY <2>2, <1>3
    <3> QED BY <3>1, <1>3, <1>6
  <2> QED BY <2>1, <2>2
<1>10. Follows(w)'
  <2>1. \A k \in DOMAIN sent'[w] : sent'[w][k].complete => c[k] = Len(nodes')
    BY <1>3, <1>5, <1>9 DEF n
  <2>2. ~receivers'[w].chan.ended
    BY <1>6
  <2>3. /\ c \in [0 .. Len(sent'[w]) -> 0 .. Len(nodes')]
        /\ \A k \in DOMAIN sent'[w] :
             c[k - 1] <= c[k] /\ sent'[w][k].items = SubSeq(nodes', c[k - 1] + 1, c[k])
    BY <1>5 DEF Stretches
  <2>4. w \in DOMAIN ears' =>
          ears'[w].items = SubSeq(nodes', c[Len(sent'[w])] + 1, Len(nodes'))
    BY <1>8, <1>3
  <2> QED BY <1>7, <2>1, <2>2, <2>3, <2>4 DEF Follows, Stretches
<1>11. ChannelInv(w)'
  BY DEF WatcherOK, ChannelInv
<1>12. w \in DOMAIN ears' => ears'[w].part = receivers'[w].next + Len(sent'[w])
  BY <1>1, <1>3 DEF n
<1> QED BY <1>3, <1>6, <1>9, <1>10, <1>11, <1>12 DEF WatcherOK

\* Every listener is given the same points.
LEMMA AddItemsFacts ==
  ASSUME NEW D, NEW h \in [D -> Ears], NEW points \in Seq(Points)
  PROVE  /\ AddItems(h, points) \in [D -> Ears]
         /\ \A w \in D : /\ AddItems(h, points)[w].part = h[w].part
                         /\ AddItems(h, points)[w].items = h[w].items \o points
<1>1. DOMAIN h = D
  OBVIOUS
<1>2. ASSUME NEW w \in D
      PROVE  /\ [h[w] EXCEPT !.items = h[w].items \o points] \in Ears
             /\ [h[w] EXCEPT !.items = h[w].items \o points].part = h[w].part
             /\ [h[w] EXCEPT !.items = h[w].items \o points].items = h[w].items \o points
  <2> DEFINE e == h[w]
  <2>1. e \in Ears
    OBVIOUS
  <2> HIDE DEF e
  <2>2. e = [part |-> e.part, items |-> e.items] /\ e.part \in Nat /\ e.items \in Seq(Points)
    BY <2>1 DEF Ears
  <2> DEFINE i == e.items \o points
  <2>3. i \in Seq(Points)
    BY <2>2
  <2> HIDE DEF i
  <2>4. [e EXCEPT !.items = i] = [part |-> e.part, items |-> i]
    BY <2>2
  <2>5. [e EXCEPT !.items = i] \in Ears /\ [e EXCEPT !.items = i].part = e.part
        /\ [e EXCEPT !.items = i].items = i
    BY <2>2, <2>3, <2>4 DEF Ears
  <2> QED BY <2>5 DEF e, i
<1> QED BY <1>1, <1>2 DEF AddItems

\* A flush empties buffers and counts parts.
LEMMA FlushedFacts ==
  ASSUME NEW D, NEW h \in [D -> Ears]
  PROVE  /\ Flushed(h) \in [D -> Ears]
         /\ \A w \in D : Flushed(h)[w].part = h[w].part + 1 /\ Flushed(h)[w].items = <<>>
<1>1. DOMAIN h = D /\ \A w \in D : h[w].part \in Nat
  BY DEF Ears
<1>2. \A w \in D : [part |-> h[w].part + 1, items |-> <<>>] \in Ears
  <2> DEFINE e == <<>>
  <2>1. e \in Seq(Points)
    OBVIOUS
  <2> HIDE DEF e
  <2>2. \A w \in D : [part |-> h[w].part + 1, items |-> e] \in Ears
    BY <1>1, <2>1 DEF Ears
  <2> QED BY <2>2 DEF e
<1> QED BY <1>1, <1>2 DEF Flushed

\* A part takes its number and its points from its listener.
LEMMA PartFacts ==
  ASSUME NEW ear \in Ears, NEW complete \in BOOLEAN
  PROVE  /\ Part(ear, complete) \in Parts /\ Part(ear, complete).complete = complete
         /\ Part(ear, complete).part = ear.part /\ Part(ear, complete).items = ear.items
BY DEF Part, Parts, Ears

\* A part is sent to every listener and to nobody else.
LEMMA SendFacts ==
  ASSUME sent \in [Watchers -> Seq(Parts)], NEW D, NEW h \in [D -> Ears],
         NEW complete \in BOOLEAN, SendParts(h, complete)
  PROVE  /\ sent' \in [Watchers -> Seq(Parts)]
         /\ \A w \in Watchers : sent'[w] = IF w \in D THEN Append(sent[w], Part(h[w], complete))
                                           ELSE sent[w]
<1>1. DOMAIN h = D /\ \A w \in D : Part(h[w], complete) \in Parts
  BY PartFacts
<1>2. \A w \in Watchers : sent'[w] = IF w \in D THEN Append(sent[w], Part(h[w], complete))
                                     ELSE sent[w]
  BY <1>1 DEF SendParts
<1>3. ASSUME NEW w \in Watchers PROVE sent'[w] \in Seq(Parts)
  <2>1. CASE w \in D
    <3>1. PICK p \in Parts : p = Part(h[w], complete)
      BY <1>1, <2>1
    <3>2. PICK s \in Seq(Parts) : s = sent[w]
      OBVIOUS
    <3>3. sent'[w] = Append(s, p)
      BY <1>2, <2>1, <3>1, <3>2
    <3> QED BY <3>3
  <2>2. CASE w \notin D
    BY <1>2, <2>2
  <2> QED BY <2>1, <2>2
<1>4. sent' = [w \in Watchers |-> sent'[w]]
  BY <1>1 DEF SendParts
<1> QED BY <1>2, <1>3, <1>4

-----------------------------------------------------------------------------
(* The server                                                              *)

\* handle_begin_path creates the entry.
LEMMA BeginStep ==
  ASSUME IInv, NEW r \in requests, BeginPath(r), UNCHANGED <<drawerVars, watcherVars>>
  PROVE  IInv'
<1> USE DEF IInv
<1>1. /\ r.m = "BeginPath" /\ requests' = requests \ {r}
      /\ path' = "active" /\ answered' = TRUE /\ telling' = Watchers
      /\ UNCHANGED <<nodes, ears, told, sent, item, foreign, dead>>
  BY DEF BeginPath, Handles
<1>2. r.c = Drawer /\ tool = "begin" /\ path = "none"
  BY <1>1 DEF DrawerInv, DrawerCalls
<1>3. \A q \in requests' : q.c # Drawer /\ q \in requests
  BY <1>1, <1>2, CallTaken
<1>4. TypeInv'
  BY <1>1 DEF TypeInv, drawerVars, watcherVars
<1>5. MovesInv'
  BY DEF MovesInv, drawerVars
<1>6. Len(nodes) = taken /\ DOMAIN ears = {} /\ ~foreign
  BY <1>2 DEF DrawerInv, TypeInv
<1>7. DrawerInv'
  BY <1>1, <1>2, <1>3, <1>6 DEF DrawerInv, drawerVars
<1>8. WatcherInv'
  BY <1>1, <1>2, WatchersQuiet
<1> QED BY <1>4, <1>5, <1>7, <1>8

\* PathStarted reaches a client.
LEMMA TellStep ==
  ASSUME IInv, NEW w \in telling, TellStarted(w), UNCHANGED <<drawerVars, watcherVars>>
  PROVE  IInv'
<1> USE DEF IInv
<1>1. /\ telling' = telling \ {w} /\ told' = told \cup {w}
      /\ UNCHANGED <<requests, answered, path, nodes, ears, sent, item, foreign, dead>>
  BY DEF TellStarted
<1>2. TypeInv' /\ MovesInv'
  BY <1>1 DEF TypeInv, MovesInv, drawerVars, watcherVars
<1>3. path # "none"
  BY DEF DrawerInv
<1>4. \A r : DrawerCalls(r) => DrawerCalls(r)'
  BY <1>1 DEF DrawerCalls, drawerVars
<1>5. DrawerInv'
  BY <1>1, <1>3, <1>4 DEF DrawerInv, drawerVars
<1>6. WatcherInv'
  BY <1>1, WatchersQuiet
<1> QED BY <1>2, <1>5, <1>6

\* A call that is rejected.
LEMMA RejectedStep ==
  ASSUME IInv, NEW r \in requests, requests' = requests \ {r},
         dead' \in 0 .. Tasks,
         UNCHANGED <<answered, path, nodes, ears, telling, told, sent, item, foreign,
                     drawerVars, watcherVars>>
  PROVE  IInv'
<1> USE DEF IInv
<1>1. TypeInv' /\ MovesInv'
  BY DEF TypeInv, MovesInv, drawerVars, watcherVars
<1>2. \A q : DrawerCalls(q) => DrawerCalls(q)'
  BY DEF DrawerCalls, drawerVars
<1>3. DrawerInv'
  BY <1>2 DEF DrawerInv, drawerVars
<1>4. WatcherInv'
  BY WatchersQuiet
<1> QED BY <1>1, <1>3, <1>4

\* A watcher that had asked and had nothing still has nothing.
LEMMA StillAsks ==
  ASSUME TypeInv, WatcherInv, requests' \subseteq requests, UNCHANGED watcherVars,
         DOMAIN ears' \subseteq DOMAIN ears,
         \A w \in Watchers : w \notin DOMAIN ears => sent'[w] = sent[w]
  PROVE  \A r \in requests' : r.m = "GetActivePath" => Asks(r)'
<1> SUFFICES ASSUME NEW r \in requests', r.m = "GetActivePath" PROVE Asks(r)'
  OBVIOUS
<1>1. Asks(r) /\ r.c \in Watchers
  BY DEF WatcherInv, Asks, TypeInv
<1> QED BY <1>1 DEF Asks, Untouched, watcherVars

\* The listener of a watcher that watches.
LEMMA ListenerFacts ==
  ASSUME TypeInv, WatcherInv, NEW w \in DOMAIN ears
  PROVE  /\ w \in Watchers /\ w \in watching /\ receivers[w].registered /\ WatcherOK(w)
         /\ ears[w].part = receivers[w].next + Len(sent[w])
BY DEF TypeInv, WatcherInv, WatcherOK, Untouched

\* handle_continue_path adds points, and may flush.
LEMMA ContinueStep ==
  ASSUME IInv, NEW r \in requests, ContinuePath(r), UNCHANGED <<drawerVars, watcherVars>>
  PROVE  IInv'
<1> USE DEF IInv
<1>1. /\ r.m = "ContinuePath" /\ requests' = requests \ {r} /\ dead < Tasks
      /\ UNCHANGED <<path, telling, told, item, foreign, dead>>
  BY DEF ContinuePath, Handles
<1>2. CASE ~(path = "active" /\ r.c = Drawer)
  <2>1. UNCHANGED <<answered, nodes, ears, sent>>
    BY <1>2 DEF ContinuePath
  <2>2. dead' \in 0 .. Tasks
    BY <1>1 DEF TypeInv
  <2> QED BY <1>1, <2>1, <2>2, RejectedStep
<1>3. CASE path = "active" /\ r.c = Drawer
  <2>1. /\ answered' = TRUE /\ nodes' = nodes \o r.points
        /\ \/ ears' = AddItems(ears, r.points) /\ UNCHANGED sent
           \/ /\ ears' = Flushed(AddItems(ears, r.points))
              /\ SendParts(AddItems(ears, r.points), FALSE)
    BY <1>3 DEF ContinuePath
  <2>2. /\ tool = "continue" /\ r.points = <<drawn[taken]>>
        /\ taken \in DOMAIN moves.read /\ Len(nodes) + 1 = taken
    BY <1>1, <1>3 DEF DrawerInv, DrawerCalls
  <2>3. PICK p \in Points : p = drawn[taken] /\ taken \in DOMAIN drawn
    <3>1. taken \in DOMAIN drawn /\ drawn \in Seq(Points)
      BY <2>2, DrawnFacts
    <3> QED BY <3>1
  <2>4. PICK more \in Seq(Points) : more = <<p>> /\ more = r.points
    <3>1. <<p>> \in Seq(Points)
      OBVIOUS
    <3> QED BY <2>2, <2>3, <3>1
  <2>5. nodes \in Seq(Points) /\ Len(nodes) \in Nat /\ taken \in Nat /\ drawn \in Seq(Points)
    BY DEF TypeInv
  <2>6. nodes' \in Seq(Points) /\ Len(nodes') = taken /\ nodes' = Append(nodes, p)
    BY <2>1, <2>2, <2>4, <2>5, AppendIsConcat
  <2>7. nodes' = SubSeq(drawn, 1, taken)
    <3>1. PICK n \in Nat : n = Len(nodes)
      BY <2>5
    <3>2. taken = n + 1 /\ taken \in 1 .. Len(drawn)
      BY <2>2, <2>3, <2>5, <3>1
    <3>3. nodes = SubSeq(drawn, 1, n)
      BY <3>1 DEF DrawerInv
    <3>4. 1 \in 1 .. Len(drawn) /\ n + 1 \in 1 .. Len(drawn)
      BY <3>2
    <3>5. SubSeq(drawn, 1, n + 1) = Append(SubSeq(drawn, 1, n), drawn[n + 1])
      BY <2>5, <3>4, SubSeqRecursiveSecond
    <3> QED BY <2>3, <2>6, <3>2, <3>3, <3>5
  <2>8. PICK D : D = DOMAIN ears
    OBVIOUS
  <2>9. ears \in [D -> Ears] /\ D \subseteq Watchers
    BY <2>8 DEF TypeInv
  <2>10. PICK heard \in [D -> Ears] :
           /\ heard = AddItems(ears, r.points)
           /\ \A w \in D : heard[w].part = ears[w].part /\ heard[w].items = ears[w].items \o more
    <3>1. PICK heard : heard = AddItems(ears, more)
      OBVIOUS
    <3>2. /\ heard \in [D -> Ears]
          /\ \A w \in D : heard[w].part = ears[w].part /\ heard[w].items = ears[w].items \o more
      BY <2>9, <3>1, AddItemsFacts
    <3> QED BY <2>4, <3>1, <3>2
  <2>11. /\ ears' \in [D -> Ears] /\ DOMAIN ears' = D /\ sent' \in [Watchers -> Seq(Parts)]
         /\ \A w \in Watchers : w \notin D => sent'[w] = sent[w]
    <3>1. CASE ears' = heard /\ UNCHANGED sent
      BY <3>1 DEF TypeInv
    <3>2. CASE ears' = Flushed(heard) /\ SendParts(heard, FALSE)
      <4>1. ears' \in [D -> Ears]
        BY <3>2, FlushedFacts
      <4>2. PICK no \in BOOLEAN : no = FALSE
        OBVIOUS
      <4>3. /\ sent' \in [Watchers -> Seq(Parts)]
            /\ \A w \in Watchers : sent'[w] = IF w \in D THEN Append(sent[w], Part(heard[w], no))
                                              ELSE sent[w]
        <5>1. sent \in [Watchers -> Seq(Parts)] /\ SendParts(heard, no)
          BY <3>2, <4>2 DEF TypeInv
        <5> QED BY <5>1, SendFacts
      <4> QED BY <4>1, <4>3
    <3> QED BY <2>1, <2>10, <3>1, <3>2
  <2>12. TypeInv'
    <3>1. requests' \subseteq Requests
      BY <1>1 DEF TypeInv
    <3>2. DOMAIN ears' \subseteq Watchers /\ ears' \in [DOMAIN ears' -> Ears]
      BY <2>9, <2>11
    <3> QED BY <1>1, <2>1, <2>6, <2>11, <3>1, <3>2 DEF TypeInv, drawerVars, watcherVars
  <2>13. MovesInv'
    BY DEF MovesInv, drawerVars
  <2>14. DrawerInv'
    <3>1. \A q \in requests' : q.c # Drawer /\ q \in requests
      BY <1>1, <1>3, CallTaken
    <3>2. nodes' = SubSeq(drawn', 1, Len(nodes'))
      BY <2>6, <2>7 DEF drawerVars
    <3>3. DOMAIN ears' = DOMAIN ears
      BY <2>8, <2>11
    <3> QED BY <1>1, <1>3, <2>1, <2>2, <2>6, <3>1, <3>2, <3>3 DEF DrawerInv, drawerVars
  <2>15. ASSUME NEW w \in Watchers PROVE WatcherOK(w)'
    <3>1. WatcherOK(w)
      BY DEF WatcherInv
    <3>2. nodes' = nodes \o more /\ UNCHANGED <<foreign, watcherVars>>
      BY <1>1, <2>1, <2>4
    <3>3. CASE w \notin D
      BY <1>3, <2>11, <3>1, <3>2, <3>3, PathGrows
    <3>4. CASE w \in D /\ ears' = heard /\ UNCHANGED sent
      <4>1. w \in DOMAIN ears /\ ears'[w].part = ears[w].part
            /\ ears'[w].items = ears[w].items \o more /\ sent'[w] = sent[w]
        BY <2>8, <2>10, <3>4
      <4> QED BY <1>3, <3>1, <3>2, <4>1, PathGrows
    <3>5. CASE w \in D /\ ears' = Flushed(heard) /\ SendParts(heard, FALSE)
      <4>1. PICK no \in BOOLEAN : no = FALSE
        OBVIOUS
      <4>2. sent'[w] = Append(sent[w], Part(heard[w], no))
        <5>1. sent \in [Watchers -> Seq(Parts)] /\ SendParts(heard, no)
          BY <3>5, <4>1 DEF TypeInv
        <5>2. \A v \in Watchers : sent'[v] = IF v \in D THEN Append(sent[v], Part(heard[v], no))
                                              ELSE sent[v]
          BY <5>1, SendFacts
        <5> QED BY <5>2, <3>5
      <4>3. PICK e \in Ears : e = heard[w]
        BY <3>5
      <4>4. PICK part \in Parts : /\ part = Part(heard[w], no)
                                  /\ ~part.complete /\ part.part = ears[w].part
                                  /\ part.items = ears[w].items \o more
        BY <4>1, <4>3, <2>10, <3>5, PartFacts
      <4>5. PICK parts \in Seq(Parts) : parts = sent[w]
        BY DEF TypeInv
      <4>6. /\ w \in watching /\ receivers[w].registered
            /\ ears[w].part = receivers[w].next + Len(parts) /\ w \in DOMAIN ears
        BY <2>8, <3>5, <4>5, ListenerFacts
      <4>7. PICK cut \in [0 .. Len(parts) -> 0 .. Len(nodes)] :
              /\ shown[w] = SubSeq(nodes, 1, cut[0]) /\ Stretches(parts, cut)
              /\ ears[w].items = SubSeq(nodes, cut[Len(parts)] + 1, Len(nodes))
        BY <3>1, <4>5, <4>6 DEF WatcherOK, Follows
      <4>8. w \in DOMAIN ears' => ears'[w].part = part.part + 1 /\ ears'[w].items = <<>>
        BY <3>5, <4>4, <2>10, FlushedFacts
      <4>9. /\ sent'[w] = Append(parts, part)
            /\ part.items = SubSeq(nodes, cut[Len(parts)] + 1, Len(nodes)) \o more
            /\ part.part = receivers[w].next + Len(parts)
        BY <4>2, <4>4, <4>5, <4>6, <4>7
      <4> QED BY <1>3, <3>1, <3>2, <4>4, <4>5, <4>6, <4>7, <4>8, <4>9, PartSent
    <3> QED BY <2>1, <2>10, <3>3, <3>4, <3>5
  <2>16. WatcherInv'
    <3>1. \A q \in requests' : q.m = "GetActivePath" => Asks(q)'
      BY <1>1, <2>8, <2>11, StillAsks
    <3>2. watching' \subseteq told' /\ meddled' \subseteq told'
      BY <1>1 DEF WatcherInv, watcherVars
    <3> QED BY <2>15, <3>1, <3>2 DEF WatcherInv
  <2> QED BY <2>12, <2>13, <2>14, <2>16
<1> QED BY <1>2, <1>3

\* handle_end_path removes the entry and sends the last parts.
LEMMA EndStep ==
  ASSUME IInv, NEW r \in requests, EndPath(r), UNCHANGED <<drawerVars, watcherVars>>
  PROVE  IInv'
<1> USE DEF IInv
<1>1. /\ r.m = "EndPath" /\ requests' = requests \ {r} /\ UNCHANGED <<nodes, telling, told, dead>>
  BY DEF EndPath, Handles
<1>2. CASE path # "active"
  <2>1. UNCHANGED <<path, ears, sent, item, answered, foreign>>
    BY <1>2 DEF EndPath
  <2>2. dead' \in 0 .. Tasks
    BY <1>1 DEF TypeInv
  <2> QED BY <1>1, <2>1, <2>2, RejectedStep
<1>3. CASE path = "active"
  <2>1. /\ path' = "gone" /\ ears' = <<>>
        /\ IF r.c = Drawer
           THEN /\ SendParts(ears, TRUE)
                /\ item' = nodes /\ answered' = (nodes # <<>>) /\ UNCHANGED foreign
           ELSE foreign' = TRUE /\ UNCHANGED <<sent, item, answered>>
    BY <1>3 DEF EndPath
  <2>2. DOMAIN ears' = {} /\ ears' \in [{} -> Ears]
    BY <2>1
  <2>3. PICK D : D = DOMAIN ears /\ D \subseteq Watchers /\ ears \in [D -> Ears]
    BY DEF TypeInv
  <2>4. PICK none \in Seq(Points) : none = <<>>
    <3>1. <<>> \in Seq(Points)
      OBVIOUS
    <3> QED BY <3>1
  <2>5. nodes' = nodes \o none /\ nodes \in Seq(Points)
    <3>1. nodes \in Seq(Points)
      BY DEF TypeInv
    <3> QED BY <1>1, <2>4, <3>1, ConcatEmptySeq
  <2>6. MovesInv'
    BY DEF MovesInv, drawerVars
  <2>7. ~foreign /\ item = <<>>
    BY <1>3 DEF DrawerInv
  <2>8. CASE r.c = Drawer
    <3>1. PICK yes \in BOOLEAN : yes = TRUE
      OBVIOUS
    <3>2. /\ sent' \in [Watchers -> Seq(Parts)]
          /\ \A w \in Watchers : sent'[w] = IF w \in D THEN Append(sent[w], Part(ears[w], yes))
                                            ELSE sent[w]
      <4>1. sent \in [Watchers -> Seq(Parts)] /\ SendParts(ears, yes)
        BY <2>1, <2>8, <3>1 DEF TypeInv
      <4> QED BY <4>1, <2>3, SendFacts
    <3>3. tool = "end" /\ Len(nodes) = taken
      BY <1>1, <2>8 DEF DrawerInv, DrawerCalls
    <3>4. TypeInv'
      <4>1. requests' \subseteq Requests /\ item' \in Seq(Points) /\ answered' \in BOOLEAN
            /\ foreign' \in BOOLEAN
        BY <1>1, <2>1, <2>5, <2>8 DEF TypeInv
      <4> QED BY <1>1, <2>1, <2>2, <3>2, <4>1 DEF TypeInv, drawerVars, watcherVars
    <3>5. DrawerInv'
      <4>1. \A q \in requests' : q.c # Drawer /\ q \in requests
        BY <1>1, <2>8, CallTaken
      <4>2. item' = nodes /\ foreign' = foreign
        BY <2>1, <2>8
      <4> QED BY <1>1, <1>3, <2>1, <2>2, <2>7, <3>3, <4>1, <4>2 DEF DrawerInv, drawerVars
    <3>6. ASSUME NEW w \in Watchers PROVE WatcherOK(w)'
      <4>1. WatcherOK(w)
        BY DEF WatcherInv
      <4>2. CASE w \notin D
        <5>1. sent'[w] = sent[w]
          BY <3>2, <4>2
        <5> QED BY <1>3, <2>2, <2>5, <4>1, <5>1, PathGrows
      <4>3. CASE w \in D
        <5>1. PICK e \in Ears : e = ears[w]
          BY <2>3, <4>3
        <5>2. PICK part \in Parts : /\ part = Part(ears[w], yes)
                                    /\ part.part = ears[w].part /\ part.items = ears[w].items
          BY <5>1, PartFacts
        <5>3. PICK parts \in Seq(Parts) : parts = sent[w]
          BY DEF TypeInv
        <5>4. /\ w \in watching /\ receivers[w].registered
              /\ ears[w].part = receivers[w].next + Len(parts) /\ w \in DOMAIN ears
          BY <2>3, <4>3, <5>3, ListenerFacts
        <5>5. PICK cut \in [0 .. Len(parts) -> 0 .. Len(nodes)] :
                /\ shown[w] = SubSeq(nodes, 1, cut[0]) /\ Stretches(parts, cut)
                /\ ears[w].items = SubSeq(nodes, cut[Len(parts)] + 1, Len(nodes))
          BY <4>1, <5>3, <5>4 DEF WatcherOK, Follows
        <5>6. part.items = SubSeq(nodes, cut[Len(parts)] + 1, Len(nodes)) \o none
          <6>1. PICK s : s = part.items
            OBVIOUS
          <6>2. s \in Seq(Points)
            BY <6>1 DEF Parts
          <6>3. s \o none = s
            BY <2>4, <6>2, ConcatEmptySeq
          <6> QED BY <5>2, <5>5, <6>1, <6>3
        <5>7. /\ sent'[w] = Append(parts, part) /\ part.part = receivers[w].next + Len(parts)
              /\ path' = "gone" /\ ~foreign'
          BY <2>1, <2>7, <2>8, <3>2, <4>3, <5>2, <5>3, <5>4
        <5> QED BY <1>3, <2>2, <2>5, <4>1, <5>3, <5>4, <5>5, <5>6, <5>7, PartSent
      <4> QED BY <4>2, <4>3
    <3>7. \A w \in Watchers : w \notin DOMAIN ears => sent'[w] = sent[w]
      BY <2>3, <3>2
    <3>8. \A q \in requests' : q.m = "GetActivePath" => Asks(q)'
      BY <1>1, <2>2, <3>7, StillAsks
    <3>9. WatcherInv'
      BY <1>1, <3>6, <3>8 DEF WatcherInv, watcherVars
    <3> QED BY <2>6, <3>4, <3>5, <3>9
  <2>9. CASE r.c # Drawer
    <3>1. foreign' = TRUE /\ UNCHANGED <<sent, item, answered>>
      BY <2>1, <2>9
    <3>2. TypeInv'
      <4>1. requests' \subseteq Requests
        BY <1>1 DEF TypeInv
      <4> QED BY <1>1, <2>1, <2>2, <3>1, <4>1 DEF TypeInv, drawerVars, watcherVars
    <3>3. DrawerInv'
      <4>1. ASSUME NEW q \in requests', q.c = Drawer PROVE DrawerCalls(q)'
        <5>1. DrawerCalls(q) /\ path # "none"
          BY <1>1, <1>3, <4>1 DEF DrawerInv
        <5> QED BY <5>1, <1>1, <3>1 DEF DrawerCalls, drawerVars
      <4>2. \A q \in requests' : q \in requests
        BY <1>1
      <4> QED BY <1>1, <1>3, <2>1, <2>2, <2>7, <3>1, <4>1, <4>2 DEF DrawerInv, drawerVars
    <3>4. ASSUME NEW w \in Watchers PROVE WatcherOK(w)'
      <4>1. WatcherOK(w) /\ sent'[w] = sent[w]
        BY <3>1 DEF WatcherInv
      <4> QED BY <1>3, <2>2, <2>5, <4>1, PathGrows
    <3>5. \A q \in requests' : q.m = "GetActivePath" => Asks(q)'
      BY <1>1, <2>2, <3>1, StillAsks
    <3>6. WatcherInv'
      BY <1>1, <3>4, <3>5 DEF WatcherInv, watcherVars
    <3> QED BY <2>6, <3>2, <3>3, <3>6
  <2> QED BY <2>8, <2>9
<1> QED BY <1>2, <1>3

\* handle_get_active_path adds a listener, or ends its worker.
LEMMA GetStep ==
  ASSUME IInv, NEW r \in requests, GetActivePath(r), UNCHANGED <<drawerVars, watcherVars>>
  PROVE  IInv'
<1> USE DEF IInv
<1>1. /\ r.m = "GetActivePath" /\ requests' = requests \ {r} /\ dead < Tasks
      /\ UNCHANGED <<answered, path, nodes, telling, told, item, foreign>>
  BY DEF GetActivePath, Handles
<1>2. CASE path # "active"
  <2>1. dead' = dead + 1 /\ UNCHANGED <<sent, ears>>
    BY <1>2 DEF GetActivePath
  <2>2. dead' \in 0 .. Tasks
    BY <1>1, <2>1 DEF TypeInv
  <2> QED BY <1>1, <2>1, <2>2, RejectedStep
<1>3. CASE path = "active"
  <2>1. /\ r.c \in watching /\ r.points = <<>> /\ receivers[r.c].registered
        /\ receivers[r.c].next = 0 /\ Untouched(r.c)
    BY <1>1 DEF WatcherInv, Asks
  <2>2. PICK c \in Watchers : c = r.c
    BY <2>1 DEF TypeInv
  <2>3. PICK ear : ear = [part |-> 0, items |-> nodes]
    OBVIOUS
  <2>4. PICK no \in BOOLEAN : no = FALSE
    OBVIOUS
  <2>5. PICK next : next = [part |-> 1, items |-> <<>>]
    OBVIOUS
  <2>6. /\ sent' = [sent EXCEPT ![c] = Append(sent[c], Part(ear, no))]
        /\ ears' = [w \in DOMAIN ears \cup {c} |-> IF w = c THEN next ELSE ears[w]]
        /\ UNCHANGED dead
    BY <1>3, <2>2, <2>3, <2>4, <2>5 DEF GetActivePath
  <2>7. nodes \in Seq(Points)
    BY DEF TypeInv
  <2>8. ear \in Ears /\ ear.part = 0 /\ ear.items = nodes
    BY <2>3, <2>7 DEF Ears
  <2>9. next \in Ears /\ next.part = 1 /\ next.items = <<>>
    <3>1. PICK e \in Seq(Points) : e = <<>>
      <4>1. <<>> \in Seq(Points)
        OBVIOUS
      <4> QED BY <4>1
    <3>2. next = [part |-> 1, items |-> e] /\ next \in Ears
      BY <2>5, <3>1 DEF Ears
    <3> QED BY <3>1, <3>2
  <2>10. PICK p \in Parts : /\ p = Part(ear, no) /\ ~p.complete
                            /\ p.part = 0 /\ p.items = nodes
    BY <2>4, <2>8, PartFacts
  <2>11. PICK none \in Seq(Points) : none = <<>>
    <3>1. <<>> \in Seq(Points)
      OBVIOUS
    <3> QED BY <3>1
  <2>12. nodes' = nodes \o none
    BY <1>1, <2>7, <2>11, ConcatEmptySeq
  <2>13. c \notin DOMAIN ears /\ sent[c] = <<>> /\ shown[c] = <<>>
    BY <2>1, <2>2 DEF Untouched
  <2>14. PICK parts \in Seq(Parts) : parts = <<>> /\ parts = sent[c]
    <3>1. sent[c] \in Seq(Parts)
      BY DEF TypeInv
    <3> QED BY <2>13, <3>1
  <2>15. /\ sent' \in [Watchers -> Seq(Parts)] /\ sent'[c] = Append(parts, p)
         /\ \A w \in Watchers : w # c => sent'[w] = sent[w]
    <3>1. Append(parts, p) \in Seq(Parts) /\ sent \in [Watchers -> Seq(Parts)]
      BY DEF TypeInv
    <3>2. sent' = [sent EXCEPT ![c] = Append(parts, p)]
      BY <2>6, <2>10, <2>14
    <3> QED BY <3>1, <3>2
  <2>16. /\ DOMAIN ears' = DOMAIN ears \cup {c} /\ DOMAIN ears' \subseteq Watchers
         /\ ears' \in [DOMAIN ears' -> Ears]
         /\ ears'[c] = next /\ \A w \in DOMAIN ears : ears'[w] = ears[w]
    BY <2>6, <2>9, <2>13 DEF TypeInv
  <2>17. TypeInv'
    <3>1. requests' \subseteq Requests
      BY <1>1 DEF TypeInv
    <3> QED BY <1>1, <2>6, <2>15, <2>16, <3>1 DEF TypeInv, drawerVars, watcherVars
  <2>18. MovesInv'
    BY DEF MovesInv, drawerVars
  <2>19. DrawerInv'
    <3>1. \A q : DrawerCalls(q) => DrawerCalls(q)'
      BY <1>1 DEF DrawerCalls, drawerVars
    <3>2. \A q \in requests' : q \in requests
      BY <1>1
    <3> QED BY <1>1, <1>3, <3>1, <3>2 DEF DrawerInv, drawerVars
  <2>20. ASSUME NEW w \in Watchers PROVE WatcherOK(w)'
    <3>1. WatcherOK(w)
      BY DEF WatcherInv
    <3>2. CASE w # c
      <4>1. sent'[w] = sent[w] /\ (w \in DOMAIN ears' => w \in DOMAIN ears /\ ears'[w] = ears[w])
        BY <2>15, <2>16, <3>2
      <4>2. w \in DOMAIN ears' => ears'[w].items = ears[w].items \o none
        <5> SUFFICES ASSUME w \in DOMAIN ears' PROVE ears'[w].items = ears[w].items \o none
          OBVIOUS
        <5>1. PICK s : s = ears[w].items
          OBVIOUS
        <5>2. s \in Seq(Points)
          BY <4>1, <5>1 DEF TypeInv, Ears
        <5>3. s \o none = s
          BY <2>11, <5>2, ConcatEmptySeq
        <5> QED BY <4>1, <5>1, <5>3
      <4> QED BY <1>3, <2>12, <3>1, <4>1, <4>2, PathGrows
    <3>3. CASE w = c
      <4>1. PICK cut : cut = [k \in 0 .. 0 |-> 0]
        OBVIOUS
      <4>2. Len(parts) = 0 /\ DOMAIN parts = {} /\ Len(nodes) \in Nat
        BY <2>7, <2>14
      <4>3. cut \in [0 .. Len(parts) -> 0 .. Len(nodes)] /\ cut[0] = 0
        BY <4>1, <4>2
      <4>4. shown[w] = SubSeq(nodes, 1, cut[0])
        BY <2>13, <3>3, <4>3, EmptyStretch
      <4>5. Stretches(parts, cut)
        BY <4>2 DEF Stretches
      <4>6. p.items = SubSeq(nodes, cut[Len(parts)] + 1, Len(nodes)) \o none
        <5>1. SubSeq(nodes, 1, Len(nodes)) = nodes /\ nodes \o none = nodes
          BY <2>7, <2>11, SubSeqFull, ConcatEmptySeq
        <5>2. cut[Len(parts)] + 1 = 1
          BY <4>2, <4>3
        <5> QED BY <2>10, <5>1, <5>2
      <4>7. w \in watching /\ receivers[w].registered /\ p.part = receivers[w].next + Len(parts)
        BY <2>1, <2>2, <2>10, <3>3, <4>2
      <4>8. ears'[w].part = p.part + 1 /\ ears'[w].items = <<>>
        BY <2>9, <2>10, <2>16, <3>3
      <4>9. parts = sent[w] /\ sent'[w] = Append(parts, p)
        BY <2>14, <2>15, <3>3
      <4> QED BY <1>3, <2>10, <2>12, <3>1, <4>3, <4>4, <4>5, <4>6, <4>7, <4>8, <4>9, PartSent
    <3> QED BY <3>2, <3>3
  <2>21. \A q \in requests' : q.m = "GetActivePath" => Asks(q)'
    <3> SUFFICES ASSUME NEW q \in requests', q.m = "GetActivePath" PROVE Asks(q)'
      OBVIOUS
    <3>1. q \in requests /\ q # r /\ Asks(q)
      BY <1>1 DEF WatcherInv
    <3>2. q.c # c
      BY <1>1, <2>1, <2>2, <3>1, RequestType DEF Asks
    <3>3. q.c \in Watchers /\ q.c \notin DOMAIN ears /\ sent[q.c] = <<>> /\ shown[q.c] = <<>>
      BY <3>1 DEF Asks, Untouched, TypeInv
    <3>4. q.c \notin DOMAIN ears' /\ sent'[q.c] = <<>> /\ shown'[q.c] = <<>>
      BY <2>15, <2>16, <3>2, <3>3 DEF watcherVars
    <3> QED BY <3>1, <3>4 DEF Asks, Untouched, watcherVars
  <2>22. WatcherInv'
    BY <1>1, <2>20, <2>21 DEF WatcherInv, watcherVars
  <2> QED BY <2>17, <2>18, <2>19, <2>22
<1> QED BY <1>2, <1>3

\* All steps of the server.
LEMMA ServerStep ==
  ASSUME IInv, Server
  PROVE  IInv'
<1>1. \A r : (Handles(r, "BeginPath") \/ Handles(r, "ContinuePath") \/ Handles(r, "EndPath")
              \/ Handles(r, "GetActivePath")) => r \in requests
  BY DEF Handles
<1> QED BY BeginStep, ContinueStep, EndStep, GetStep, TellStep DEF Server, Serve

-----------------------------------------------------------------------------
(* The watchers                                                            *)

\* A watcher calls a method on a path it does not own.
LEMMA MeddleStep ==
  ASSUME IInv, NEW w \in Watchers, NEW m \in {"ContinuePath", "EndPath"}, Meddle(w, m)
  PROVE  IInv'
<1> USE DEF IInv
<1>1. /\ w \in told /\ meddled' = meddled \cup {w} /\ Request(m, w, <<0>>)
      /\ UNCHANGED <<receivers, shown, watching, answered, sent, serverRest, drawerVars>>
  BY DEF Meddle
<1>2. PICK points \in Seq(0 .. MaxPoints) : points = <<0>>
  <2>1. <<0>> \in Seq(0 .. MaxPoints)
    <3>1. 0 \in 0 .. MaxPoints
      OBVIOUS
    <3> QED BY <3>1
  <2> QED BY <2>1
<1>3. PICK r : r = [m |-> m, c |-> w, points |-> points]
  OBVIOUS
<1>4. requests' \subseteq Requests /\ requests' = requests \cup {r}
  <2>1. Request(m, w, points) /\ m \in Methods
    BY <1>1, <1>2 DEF Methods
  <2> QED BY <1>3, <2>1, RequestFacts
<1>5. r.c # Drawer /\ r.m # "BeginPath" /\ r.m # "GetActivePath"
  BY <1>3
<1>6. TypeInv'
  BY <1>1, <1>4 DEF TypeInv, serverRest, drawerVars
<1>7. MovesInv' /\ DrawerInv'
  BY <1>1, <1>4, <1>5, DrawerQuiet DEF serverRest
<1>8. WatcherInv'
  BY <1>1, <1>4, <1>5, OneMeddles DEF serverRest
<1> QED BY <1>6, <1>7, <1>8

\* A watcher that was told of the path asks for it.
LEMMA WatchStep ==
  ASSUME IInv, NEW w \in Watchers, Watch(w)
  PROVE  IInv'
<1> USE DEF IInv
<1>1. /\ w \in told /\ w \notin watching /\ watching' = watching \cup {w}
      /\ Request("GetActivePath", w, <<>>)
      /\ receivers' = [receivers EXCEPT ![w].registered = TRUE,
                                        ![w].chan = Pop(receivers[w].chan)]
      /\ UNCHANGED <<shown, meddled, answered, sent, serverRest, drawerVars>>
  BY DEF Watch
<1>2. PICK none \in Seq(0 .. MaxPoints) : none = <<>>
  <2>1. <<>> \in Seq(0 .. MaxPoints)
    OBVIOUS
  <2> QED BY <2>1
<1>3. PICK r : r = [m |-> "GetActivePath", c |-> w, points |-> none]
  OBVIOUS
<1>4. requests' \subseteq Requests /\ requests' = requests \cup {r}
  <2>1. Request("GetActivePath", w, none) /\ "GetActivePath" \in Methods
    BY <1>1, <1>2 DEF Methods
  <2> QED BY <1>3, <2>1, RequestFacts
<1>5. r.c = w /\ r.m = "GetActivePath" /\ r.points = <<>> /\ r.c # Drawer
  BY <1>2, <1>3
<1>6. WatcherOK(w) /\ Untouched(w) /\ receivers[w] = NewReceiver /\ receivers[w] \in Receivers
  BY <1>1 DEF WatcherInv, WatcherOK, TypeInv
<1>7. PICK ch : ch = Pop(NewChannel)
  OBVIOUS
<1>8. ch \in Chans(Seq(Points)) /\ Waits(ch)
  BY <1>7, NewReceiverFacts
<1>9. PICK rc : rc = [registered |-> TRUE, next |-> 0, last |-> {}, chan |-> ch]
  OBVIOUS
<1>10. rc \in Receivers /\ rc.registered /\ rc.next = 0 /\ rc.last = {} /\ Waits(rc.chan)
  BY <1>8, <1>9 DEF Receivers
<1>11. receivers'[w] = rc /\ receivers' \in [Watchers -> Receivers]
       /\ \A v \in Watchers : v # w => receivers'[v] = receivers[v]
  <2>1. NewReceiver.chan = NewChannel
    BY DEF NewReceiver
  <2>2. receivers' = [receivers EXCEPT ![w].registered = TRUE, ![w].chan = ch]
    BY <1>1, <1>6, <1>7, <2>1
  <2>3. receivers \in [Watchers -> Receivers]
    BY DEF TypeInv
  <2>4. receivers'[w] = [NewReceiver EXCEPT !.registered = TRUE, !.chan = ch]
    BY <1>6, <2>2, <2>3
  <2>5. receivers'[w] = rc
    BY <1>9, <2>4 DEF NewReceiver
  <2>6. receivers' = [receivers EXCEPT ![w] = rc]
    BY <2>2, <2>3, <2>4, <2>5, <1>6
  <2> QED BY <2>3, <2>5, <2>6, <1>10
<1>12. TypeInv'
  BY <1>1, <1>4, <1>11 DEF TypeInv, serverRest, drawerVars
<1>13. MovesInv' /\ DrawerInv'
  BY <1>1, <1>4, <1>5, DrawerQuiet DEF serverRest
<1>14. ASSUME NEW v \in Watchers PROVE WatcherOK(v)'
  <2>1. WatcherOK(v)
    BY DEF WatcherInv
  <2>2. UNCHANGED <<path, nodes, ears, sent, shown, foreign>>
    BY <1>1 DEF serverRest
  <2>3. CASE v # w
    <3>1. receivers'[v] = receivers[v] /\ (v \in watching' <=> v \in watching)
      BY <1>1, <1>11, <2>3
    <3>2. Follows(v)'
      BY <2>1, <2>2, <3>1 DEF WatcherOK, Follows, Stretches
    <3> QED BY <2>1, <2>2, <3>1, <3>2 DEF WatcherOK, ChannelInv, Untouched
  <2>4. CASE v = w
    <3>1. v \in watching' /\ v \notin DOMAIN ears' /\ sent'[v] = <<>> /\ DOMAIN sent'[v] = {}
      BY <1>1, <1>6, <2>2, <2>4 DEF Untouched
    <3>2. receivers'[v] = rc /\ ~rc.chan.ended
      BY <1>10, <1>11, <2>4 DEF Waits
    <3>3. Follows(v)'
      BY <2>1, <2>2, <3>2 DEF WatcherOK, Follows, Stretches
    <3>4. ChannelInv(v)'
      BY <1>10, <3>2 DEF ChannelInv
    <3> QED BY <1>10, <3>1, <3>2, <3>3, <3>4 DEF WatcherOK
  <2> QED BY <2>3, <2>4
<1>15. \A q \in requests' : q.m = "GetActivePath" => Asks(q)'
  <2> SUFFICES ASSUME NEW q \in requests', q.m = "GetActivePath" PROVE Asks(q)'
    OBVIOUS
  <2>1. CASE q = r
    <3>1. Untouched(q.c)' /\ q.c \in watching' /\ q.points = <<>>
      BY <1>1, <1>5, <1>6, <2>1 DEF Untouched, serverRest
    <3>2. receivers'[q.c].registered /\ receivers'[q.c].next = 0
      BY <1>5, <1>10, <1>11, <2>1
    <3> QED BY <3>1, <3>2 DEF Asks
  <2>2. CASE q # r
    <3>1. Asks(q) /\ q.c \in watching /\ q.c \in Watchers
      BY <1>4, <2>2 DEF WatcherInv, Asks, TypeInv
    <3>2. q.c # w
      BY <1>1, <3>1
    <3> QED BY <1>1, <1>11, <3>1, <3>2 DEF Asks, Untouched, serverRest
  <2> QED BY <2>1, <2>2
<1>16. WatcherInv'
  BY <1>1, <1>14, <1>15 DEF WatcherInv, serverRest
<1> QED BY <1>12, <1>13, <1>16

\* The part a watcher is handed is the one it waits for.
LEMMA PartTaken ==
  ASSUME TypeInv, WatcherInv, NEW w \in Watchers, Deliver(w)
  PROVE  \E parts \in Seq(Parts), p \in Parts, rc \in Receivers, new \in Receivers,
            points \in Seq(Points) :
           /\ parts = sent[w] /\ parts # <<>> /\ p = parts[1]
           /\ rc = receivers[w] /\ points = shown[w]
           /\ rc.registered /\ ~rc.chan.ended /\ p.part = rc.next /\ rc.next \in Nat
           /\ new.registered = ~p.complete /\ new.next = rc.next + 1
           /\ IF p.complete THEN new.chan.ended ELSE new.last = {} /\ Waits(new.chan)
           /\ receivers' = [receivers EXCEPT ![w] = new]
           /\ shown' = [shown EXCEPT ![w] = points \o p.items]
           /\ sent' = [sent EXCEPT ![w] = Tail(parts)]
<1>1. sent[w] # <<>> /\ sent' = [sent EXCEPT ![w] = Tail(sent[w])]
  BY DEF Deliver
<1>2. WatcherOK(w)
  BY DEF WatcherInv
<1>3. PICK parts \in Seq(Parts) : parts = sent[w] /\ parts # <<>>
  BY <1>1 DEF TypeInv
<1>4. Head(parts) = parts[1] /\ 1 \in DOMAIN parts
  BY <1>3
<1>5. PICK p \in Parts : p = Head(parts) /\ p = parts[1]
  BY <1>4
<1>6. PICK rc \in Receivers : rc = receivers[w]
  BY DEF TypeInv
<1>7. rc.registered /\ rc.last = {} /\ Waits(rc.chan) /\ p.part = rc.next /\ rc.next \in Nat
  <2>1. rc.registered
    BY <1>1, <1>2, <1>6 DEF WatcherOK
  <2>2. rc.next \in Nat
    BY DEF Receivers
  <2>3. p.part = rc.next + 1 - 1
    BY <1>2, <1>3, <1>4, <1>5, <1>6 DEF WatcherOK
  <2> QED BY <2>1, <2>2, <2>3, <1>2, <1>6 DEF WatcherOK, ChannelInv
<1>8. PICK new : new = [Handle(rc, p) EXCEPT !.chan = Read(Handle(rc, p).chan)]
  OBVIOUS
<1>9. PICK points \in Seq(Points) : points = shown[w]
  BY DEF TypeInv
<1>10. /\ new \in Receivers /\ new.registered = ~p.complete /\ new.next = rc.next + 1
       /\ AddNodes(points, rc.chan, Handle(rc, p).chan) = points \o p.items
       /\ IF p.complete THEN new.chan.ended
          ELSE new.last = {} /\ Waits(new.chan)
  BY <1>7, <1>8, HandleNext
<1>11. /\ receivers' = [receivers EXCEPT ![w] = new]
       /\ shown' = [shown EXCEPT ![w] = AddNodes(points, rc.chan, Handle(rc, p).chan)]
  BY <1>3, <1>5, <1>6, <1>7, <1>8, <1>9 DEF Deliver
<1>12. shown' = [shown EXCEPT ![w] = points \o p.items]
  BY <1>10, <1>11
<1>13. sent' = [sent EXCEPT ![w] = Tail(parts)] /\ ~rc.chan.ended
  BY <1>1, <1>3, <1>7 DEF Waits
<1> QED BY <1>3, <1>5, <1>6, <1>7, <1>9, <1>10, <1>11, <1>12, <1>13

\* A part reaches its receiver, which may hand it on to the line that is drawn.
LEMMA DeliverStep ==
  ASSUME IInv, NEW w \in Watchers, Deliver(w)
  PROVE  IInv'
<1> USE DEF IInv
<1>1. UNCHANGED <<watching, meddled, requests, answered, serverRest, drawerVars>>
  BY DEF Deliver
<1>2. WatcherOK(w)
  BY DEF WatcherInv
<1>3. PICK parts \in Seq(Parts), p \in Parts, rc \in Receivers, new \in Receivers,
            points \in Seq(Points) :
        /\ parts = sent[w] /\ parts # <<>> /\ p = parts[1]
        /\ rc = receivers[w] /\ points = shown[w]
        /\ rc.registered /\ ~rc.chan.ended /\ p.part = rc.next /\ rc.next \in Nat
        /\ new.registered = ~p.complete /\ new.next = rc.next + 1
        /\ IF p.complete THEN new.chan.ended ELSE new.last = {} /\ Waits(new.chan)
        /\ receivers' = [receivers EXCEPT ![w] = new]
        /\ shown' = [shown EXCEPT ![w] = points \o p.items]
        /\ sent' = [sent EXCEPT ![w] = Tail(parts)]
  BY PartTaken
<1>4. PICK n \in Nat : n = Len(parts)
  OBVIOUS
<1>5. /\ n >= 1 /\ DOMAIN parts = 1 .. n /\ 1 \in 1 .. n /\ 0 \in 0 .. n /\ 1 \in 0 .. n
      /\ Tail(parts) \in Seq(Parts) /\ Len(Tail(parts)) = n - 1
      /\ DOMAIN Tail(parts) = 1 .. n - 1
      /\ \A k \in 1 .. n - 1 : k + 1 \in 1 .. n /\ Tail(parts)[k] = parts[k + 1]
  BY <1>3, <1>4
<1>6. sent[w] # <<>> /\ rc.next \in Nat
  BY <1>3
<1>7. p.items \in Seq(Points) /\ p.complete \in BOOLEAN
  BY DEF Parts
<1>8. /\ receivers' \in [Watchers -> Receivers] /\ receivers'[w] = new
       /\ \A v \in Watchers : v # w => receivers'[v] = receivers[v]
  BY <1>3 DEF TypeInv
<1>9. /\ shown' \in [Watchers -> Seq(Points)] /\ shown'[w] = points \o p.items
       /\ \A v \in Watchers : v # w => shown'[v] = shown[v]
  <2>1. PICK more \in Seq(Points) : more = points \o p.items
    <3>1. PICK i \in Seq(Points) : i = p.items
      BY <1>7
    <3>2. points \o i \in Seq(Points)
      OBVIOUS
    <3> QED BY <3>1, <3>2
  <2>2. shown' = [shown EXCEPT ![w] = more]
    BY <1>3, <2>1
  <2> QED BY <2>1, <2>2 DEF TypeInv
<1>10. /\ sent' \in [Watchers -> Seq(Parts)] /\ sent'[w] = Tail(parts)
       /\ \A v \in Watchers : v # w => sent'[v] = sent[v]
  <2>1. sent' = [sent EXCEPT ![w] = Tail(parts)] /\ sent \in [Watchers -> Seq(Parts)]
    BY <1>3 DEF TypeInv
  <2> QED BY <1>5, <2>1
<1>11. TypeInv'
  BY <1>1, <1>8, <1>9, <1>10 DEF TypeInv, serverRest, drawerVars
<1>12. MovesInv' /\ DrawerInv'
  BY <1>1, DrawerQuiet DEF serverRest
<1>13. UNCHANGED <<path, nodes, ears, foreign, watching, requests, told, meddled>>
  BY <1>1 DEF serverRest
<1>14. PICK cut \in [0 .. n -> 0 .. Len(nodes)] :
         /\ points = SubSeq(nodes, 1, cut[0])
         /\ Stretches(parts, cut)
         /\ w \in DOMAIN ears => ears[w].items = SubSeq(nodes, cut[n] + 1, Len(nodes))
         /\ \A k \in 1 .. n : parts[k].complete => cut[k] = Len(nodes)
  BY <1>2, <1>3, <1>4, <1>5 DEF WatcherOK, Follows
<1>15. nodes \in Seq(Points) /\ Len(nodes) \in Nat
  BY DEF TypeInv
<1>16. points \o p.items = SubSeq(nodes, 1, cut[1])
  <2>1. cut[0] <= cut[1] /\ p.items = SubSeq(nodes, cut[0] + 1, cut[1])
    <3>1. cut[1 - 1] <= cut[1] /\ parts[1].items = SubSeq(nodes, cut[1 - 1] + 1, cut[1])
      BY <1>5, <1>14 DEF Stretches
    <3> QED BY <1>3, <3>1
  <2>2. PICK a \in 0 .. Len(nodes), b \in 0 .. Len(nodes) : a = cut[0] /\ b = cut[1]
    BY <1>5
  <2>3. 0 \in 0 .. Len(nodes) /\ a \in 0 .. Len(nodes) /\ b \in a .. Len(nodes) /\ 0 + 1 = 1
    BY <1>15, <2>1, <2>2
  <2>4. SubSeq(nodes, 0 + 1, a) \o SubSeq(nodes, a + 1, b) = SubSeq(nodes, 0 + 1, b)
    BY <1>15, <2>3, StretchJoin
  <2> QED BY <1>14, <2>1, <2>2, <2>3, <2>4
<1>17. PICK c : c = [k \in 0 .. n - 1 |-> cut[k + 1]]
  OBVIOUS
<1>18. c \in [0 .. n - 1 -> 0 .. Len(nodes)] /\ \A k \in 0 .. n - 1 : c[k] = cut[k + 1]
  <2>1. \A k \in 0 .. n - 1 : k + 1 \in 0 .. n
    OBVIOUS
  <2> QED BY <1>17, <2>1
<1>19. /\ 0 \in 0 .. n - 1 /\ n - 1 \in 0 .. n - 1 /\ n - 1 + 1 = n
       /\ c[0] = cut[1] /\ c[n - 1] = cut[n]
  <2>1. 0 \in 0 .. n - 1 /\ n - 1 \in 0 .. n - 1 /\ n - 1 + 1 = n /\ 0 + 1 = 1
    BY <1>5
  <2>2. c[0] = cut[0 + 1] /\ c[n - 1] = cut[n - 1 + 1]
    BY <1>18, <2>1
  <2> QED BY <2>1, <2>2
<1>20. \A k \in DOMAIN sent'[w] :
         /\ c[k - 1] <= c[k] /\ sent'[w][k].items = SubSeq(nodes', c[k - 1] + 1, c[k])
         /\ sent'[w][k].complete => c[k] = Len(nodes') /\ parts[k + 1].complete
         /\ sent'[w][k].part = parts[k + 1].part
  <2> SUFFICES ASSUME NEW k \in 1 .. n - 1
               PROVE  /\ c[k - 1] <= c[k] /\ parts[k + 1].items = SubSeq(nodes, c[k - 1] + 1, c[k])
                      /\ parts[k + 1].complete => c[k] = Len(nodes)
    BY <1>5, <1>10, <1>13
  <2>1. k + 1 \in 1 .. n /\ k - 1 \in 0 .. n - 1 /\ k \in 0 .. n - 1 /\ k + 1 - 1 = k - 1 + 1
    BY <1>5
  <2>2. c[k - 1] = cut[k + 1 - 1] /\ c[k] = cut[k + 1]
    <3>1. c[k - 1] = cut[k - 1 + 1] /\ c[k] = cut[k + 1]
      BY <1>18, <2>1
    <3> QED BY <2>1, <3>1
  <2>3. /\ cut[k + 1 - 1] <= cut[k + 1]
        /\ parts[k + 1].items = SubSeq(nodes, cut[k + 1 - 1] + 1, cut[k + 1])
    <3>1. PICK j \in DOMAIN parts : j = k + 1
      BY <1>5, <2>1
    <3>2. cut[j - 1] <= cut[j] /\ parts[j].items = SubSeq(nodes, cut[j - 1] + 1, cut[j])
      BY <1>14 DEF Stretches
    <3> QED BY <3>1, <3>2
  <2> QED BY <1>14, <2>1, <2>2, <2>3
<1>21. p.complete => n = 1 /\ path = "gone" /\ ~foreign /\ cut[1] = Len(nodes)
  BY <1>2, <1>3, <1>4, <1>5, <1>14 DEF WatcherOK
<1>22. new.chan.ended => p.complete
  BY <1>3 DEF Waits
<1>23. Follows(w)'
  <2>1. shown'[w] = SubSeq(nodes', 1, c[0])
    BY <1>9, <1>13, <1>16, <1>19
  <2>2. c \in [0 .. Len(sent'[w]) -> 0 .. Len(nodes')]
    BY <1>5, <1>10, <1>13, <1>18
  <2>3. w \in DOMAIN ears' => ears'[w].items = SubSeq(nodes', c[Len(sent'[w])] + 1, Len(nodes'))
    BY <1>5, <1>10, <1>13, <1>14, <1>19
  <2>4. receivers'[w].chan.ended => c[0] = Len(nodes')
    BY <1>8, <1>13, <1>19, <1>21, <1>22
  <2> QED BY <1>20, <2>1, <2>2, <2>3, <2>4 DEF Follows, Stretches
<1>24. w \in watching
  BY <1>2, <1>6 DEF WatcherOK, Untouched
<1>25. WatcherOK(w)'
  <2>1. ChannelInv(w)'
    BY <1>3, <1>7, <1>8 DEF ChannelInv
  <2>2. w \in DOMAIN ears' =>
          receivers'[w].registered /\ ears'[w].part = receivers'[w].next + Len(sent'[w])
    <3> SUFFICES ASSUME w \in DOMAIN ears
                 PROVE  new.registered /\ ears[w].part = new.next + (n - 1)
      BY <1>5, <1>8, <1>10, <1>13
    <3>1. path = "active"
      BY DEF DrawerInv
    <3>2. new.registered
      BY <1>3, <1>7, <1>21, <3>1
    <3>3. ears[w].part = rc.next + n
      BY <1>2, <1>3, <1>4 DEF WatcherOK
    <3>4. new.next = rc.next + 1
      BY <1>3
    <3>5. new.next + (n - 1) = rc.next + n
      <4>1. PICK a \in Nat : a = rc.next
        BY <1>6
      <4>2. (a + 1) + (n - 1) = a + n
        OBVIOUS
      <4> QED BY <3>4, <4>1, <4>2
    <3> QED BY <3>2, <3>3, <3>5
  <2>3. \A k \in DOMAIN sent'[w] :
          /\ sent'[w][k].part = receivers'[w].next + k - 1
          /\ sent'[w][k].complete => k = Len(sent'[w]) /\ path' = "gone" /\ ~foreign'
    <3>5. DOMAIN sent'[w] = 1 .. n - 1 /\ Len(sent'[w]) = n - 1
      BY <1>5, <1>10
    <3>6. receivers'[w].next = new.next /\ path' = path /\ foreign' = foreign
      BY <1>8, <1>13
    <3> SUFFICES ASSUME NEW k \in 1 .. n - 1
                 PROVE  /\ Tail(parts)[k].part = new.next + k - 1
                        /\ Tail(parts)[k].complete => k = n - 1 /\ path = "gone" /\ ~foreign
      BY <1>10, <3>5, <3>6
    <3>1. k + 1 \in 1 .. n
      BY <1>5
    <3>2. /\ parts[k + 1].part = rc.next + (k + 1) - 1
          /\ parts[k + 1].complete => k + 1 = n /\ path = "gone" /\ ~foreign
      BY <1>2, <1>3, <1>4, <1>5, <3>1 DEF WatcherOK
    <3>3. new.next = rc.next + 1 /\ Tail(parts)[k] = parts[k + 1]
      BY <1>5, <1>3
    <3>4. rc.next + (k + 1) - 1 = (rc.next + 1) + k - 1 /\ (k + 1 = n => k = n - 1)
      BY <1>3
    <3> QED BY <3>2, <3>3, <3>4
  <2>4. ~receivers'[w].registered => sent'[w] = <<>>
    <3> SUFFICES ASSUME ~new.registered PROVE Tail(parts) = <<>>
      BY <1>8, <1>10
    <3>1. n = 1
      BY <1>3, <1>7, <1>21
    <3>2. Tail(parts) \in Seq(Parts) /\ Len(Tail(parts)) = 0
      <4>1. n - 1 = 0
        BY <3>1
      <4> QED BY <1>5, <4>1
    <3> QED BY <3>2, EmptySeq
  <2>5. receivers'[w].chan.ended => path' = "gone" /\ ~foreign'
    BY <1>8, <1>13, <1>21, <1>22
  <2> QED BY <1>13, <1>23, <1>24, <2>1, <2>2, <2>3, <2>4, <2>5 DEF WatcherOK
<1>26. ASSUME NEW v \in Watchers, v # w PROVE WatcherOK(v)'
  <2>1. WatcherOK(v) /\ UNCHANGED <<receivers[v], shown[v], sent[v]>>
    BY <1>8, <1>9, <1>10, <1>26 DEF WatcherInv
  <2>2. Follows(v)'
    BY <1>13, <2>1 DEF WatcherOK, Follows, Stretches
  <2> QED BY <1>13, <2>1, <2>2 DEF WatcherOK, ChannelInv, Untouched
<1>27. \A q \in requests' : q.m = "GetActivePath" => Asks(q)'
  <2> SUFFICES ASSUME NEW q \in requests', q.m = "GetActivePath" PROVE Asks(q)'
    OBVIOUS
  <2>1. Asks(q) /\ q.c \in Watchers /\ q.c # w
    BY <1>6, <1>13 DEF WatcherInv, Asks, Untouched, TypeInv
  <2> QED BY <1>8, <1>9, <1>10, <1>13, <2>1 DEF Asks, Untouched
<1>28. WatcherInv'
  BY <1>13, <1>25, <1>26, <1>27 DEF WatcherInv
<1> QED BY <1>11, <1>12, <1>28

-----------------------------------------------------------------------------
(* The theorems                                                            *)

\* The invariant holds at the beginning,
LEMMA InitSound == Init => IInv
<1> SUFFICES ASSUME Init PROVE IInv
  OBVIOUS
<1>1. NewChannel \in Chans(Points) /\ NewChannel.read = <<>> /\ NewChannel.queue = <<>>
  BY NewFacts
<1>2. PICK none \in Seq(Points) : none = <<>> /\ DOMAIN none = {} /\ Len(none) = 0
  <2>1. <<>> \in Seq(Points) /\ DOMAIN <<>> = {} /\ Len(<<>>) = 0
    OBVIOUS
  <2> QED BY <2>1
<1>3. PICK nothing \in Seq(Parts) : nothing = <<>>
  <2>1. <<>> \in Seq(Parts)
    OBVIOUS
  <2> QED BY <2>1
<1>4. TypeInv
  <2>1. nodes \in Seq(Points) /\ item \in Seq(Points) /\ drawn \in Seq(Points)
    BY <1>2 DEF Init, PathsInit
  <2>2. DOMAIN ears = {} /\ ears \in [{} -> Ears]
    BY DEF Init, PathsInit
  <2>3. sent \in [Watchers -> Seq(Parts)]
    BY <1>3 DEF Init, PathsInit
  <2>4. shown \in [Watchers -> Seq(Points)]
    BY <1>2 DEF Init
  <2>5. receivers \in [Watchers -> Receivers]
    BY NewReceiverFacts DEF Init
  <2>6. /\ requests = {} /\ answered = FALSE /\ foreign = FALSE /\ path = "none"
        /\ telling = {} /\ told = {} /\ dead = 0 /\ pointer = "up" /\ tool = "idle"
        /\ taken = 0 /\ watching = {} /\ meddled = {} /\ moves \in Chans(Points)
    BY <1>1 DEF Init, PathsInit
  <2>7. dead \in 0 .. Tasks
    BY <2>6
  <2> QED BY <2>1, <2>2, <2>3, <2>4, <2>5, <2>6, <2>7 DEF TypeInv
<1>5. MovesInv
  BY <1>1, <1>2, ConcatEmptySeq DEF MovesInv, Init
<1>6. DrawerInv
  <2>1. Len(nodes) = 0 /\ Len(moves.read) = 0 /\ DOMAIN ears = {}
    BY <1>1, <1>2 DEF Init, PathsInit
  <2>2. nodes = SubSeq(drawn, 1, Len(nodes))
    BY <2>1, EmptyStretch DEF Init, PathsInit
  <2> QED BY <2>1, <2>2 DEF DrawerInv, Init, PathsInit
<1>7. ASSUME NEW w \in Watchers PROVE WatcherOK(w)
  <2>1. sent[w] = <<>> /\ DOMAIN sent[w] = {} /\ Len(sent[w]) = 0 /\ shown[w] = <<>>
        /\ receivers[w] = NewReceiver /\ w \notin DOMAIN ears /\ w \notin watching
    BY DEF Init, PathsInit
  <2>2. ~receivers[w].registered /\ ~receivers[w].chan.ended
    BY <2>1 DEF NewReceiver, NewChannel
  <2>3. Follows(w)
    <3>1. PICK cut : cut = [k \in 0 .. 0 |-> 0]
      OBVIOUS
    <3>2. Len(nodes) \in Nat
      BY <1>4 DEF TypeInv
    <3>3. cut \in [0 .. Len(sent[w]) -> 0 .. Len(nodes)] /\ cut[0] = 0
      BY <2>1, <3>1, <3>2
    <3>4. shown[w] = SubSeq(nodes, 1, cut[0])
      BY <2>1, <3>3, EmptyStretch
    <3> QED BY <2>1, <2>2, <3>3, <3>4 DEF Follows, Stretches
  <2> QED BY <2>1, <2>2, <2>3 DEF WatcherOK, ChannelInv, Untouched
<1>8. WatcherInv
  BY <1>7 DEF WatcherInv, Init, PathsInit
<1> QED BY <1>4, <1>5, <1>6, <1>8 DEF IInv

\* and every step keeps it.
LEMMA StepSound == IInv /\ [Next]_vars => IInv'
<1> SUFFICES ASSUME IInv, [Next]_vars PROVE IInv'
  OBVIOUS
<1>1. CASE Next
  BY <1>1, ServerStep, ToolStep, PointerStep, WatchStep, DeliverStep, MeddleStep
     DEF Next, Receive
<1>2. CASE UNCHANGED vars
  <2>1. UNCHANGED <<answered, path, nodes, ears, telling, told, sent, item, foreign, requests,
                    dead, drawerVars, watcherVars>>
    BY <1>2 DEF vars, pathVars
  <2>2. TypeInv'
    BY <2>1 DEF IInv, TypeInv, drawerVars, watcherVars
  <2>3. MovesInv' /\ DrawerInv'
    BY <2>1, DrawerQuiet DEF IInv
  <2>4. WatcherInv'
    BY <2>1, WatchersQuiet DEF IInv
  <2> QED BY <2>2, <2>3, <2>4 DEF IInv
<1> QED BY <1>1, <1>2

\* The invariant of the whole drawing: how far the gesture, the path tool, the
\* path and every watcher are with respect to each other.
THEOREM DrawingSound == Spec => []IInv
BY InitSound, StepSound, PTL DEF Spec

\* The server's side keeps its types: no entry but one of a watcher, no count
\* of dead workers beyond those there are.
THEOREM DrawingTyped == Spec => []TypeOK
<1>1. IInv => TypeOK
  BY DEF IInv, TypeInv, TypeOK, Points
<1> QED BY <1>1, DrawingSound, PTL

\* continue_path adds the points in the order the pointer moved over them and
\* takes none from another client: a path is a beginning of the gesture.
THEOREM PathAsDrawn == Spec => []NodesAsDrawn
<1>1. IInv => NodesAsDrawn
  <2> SUFFICES ASSUME IInv PROVE NodesAsDrawn
    OBVIOUS
  <2>1. Len(nodes) <= Len(drawn) /\ nodes = SubSeq(drawn, 1, Len(nodes))
        /\ nodes \in Seq(Points)
    <3>1. Len(moves.read) <= Len(drawn) /\ Len(moves.read) \in Nat /\ Len(drawn) \in Nat
      BY DrawnFacts DEF IInv
    <3>2. Len(nodes) \in Nat /\ taken \in Nat /\ Len(nodes) <= taken /\ taken <= Len(moves.read)
      BY DEF IInv, TypeInv, DrawerInv
    <3> QED BY <3>1, <3>2 DEF IInv, TypeInv, DrawerInv
  <2>2. SubSeq(nodes, 1, Len(nodes)) = nodes
    BY <2>1, SubSeqFull
  <2> QED BY <2>1, <2>2 DEF NodesAsDrawn, IsPrefix
<1> QED BY <1>1, DrawingSound, PTL

\* A listener is sent every point once: what it shows, what is on the way and
\* the buffer of its IterateHandle are the path, cut up, and the receiver waits
\* for the part that comes next.
THEOREM ListenersKeepUp == Spec => []ListenersFollow
<1>1. IInv => ListenersFollow
  <2> SUFFICES ASSUME IInv PROVE ListenersFollow
    OBVIOUS
  <2>1. ASSUME NEW w \in DOMAIN ears
        PROVE  \E cut \in [0 .. Len(sent[w]) -> 0 .. Len(nodes)] :
                 /\ shown[w] = SubSeq(nodes, 1, cut[0])
                 /\ Stretches(sent[w], cut)
                 /\ ears[w].items = SubSeq(nodes, cut[Len(sent[w])] + 1, Len(nodes))
    <3>1. Follows(w)
      BY DEF IInv, TypeInv, WatcherInv, WatcherOK
    <3> QED BY <3>1 DEF Follows
  <2>2. \A w \in Watchers : \A k \in DOMAIN sent[w] : sent[w][k].part = receivers[w].next + k - 1
    BY DEF IInv, WatcherInv, WatcherOK
  <2> QED BY <2>1, <2>2 DEF ListenersFollow
<1> QED BY <1>1, DrawingSound, PTL

\* A watcher whose loop has ended has drawn the whole of the item, and only
\* end_path by the owner ends it.
THEOREM WatchersEndWithItem == Spec => []WatchersSeeItem
<1>1. IInv => WatchersSeeItem
  <2> SUFFICES ASSUME IInv, NEW w \in Watchers, receivers[w].chan.ended
               PROVE  path = "gone" /\ ~foreign /\ shown[w] = item
    BY DEF WatchersSeeItem
  <2>1. path = "gone" /\ ~foreign /\ shown[w] = SubSeq(nodes, 1, Len(nodes))
    BY DEF IInv, WatcherInv, WatcherOK, Follows
  <2>2. item = nodes /\ SubSeq(nodes, 1, Len(nodes)) = nodes
    BY <2>1, SubSeqFull DEF IInv, DrawerInv, TypeInv
  <2> QED BY <2>1, <2>2
<1> QED BY <1>1, DrawingSound, PTL

-----------------------------------------------------------------------------
(* The refinement                                                          *)

\* A path that the drawer adds to gets one point more.
LEMMA OnePointMore ==
  ASSUME IInv, NEW r \in requests, ContinuePath(r), path = "active", r.c = Drawer
  PROVE  \E p \in Points : nodes' = Append(nodes, p)
<1> USE DEF IInv
<1>1. r.m = "ContinuePath" /\ nodes' = nodes \o r.points
  BY DEF ContinuePath, Handles
<1>2. r.points = <<drawn[taken]>> /\ taken \in DOMAIN moves.read
  BY <1>1 DEF DrawerInv, DrawerCalls
<1>3. PICK p \in Points : p = drawn[taken]
  <2>1. taken \in DOMAIN drawn /\ drawn \in Seq(Points)
    BY <1>2, DrawnFacts
  <2> QED BY <2>1
<1>4. nodes \in Seq(Points) /\ nodes' = nodes \o <<p>>
  BY <1>1, <1>2, <1>3 DEF TypeInv
<1> QED BY <1>4, AppendIsConcat

\* Whether w has stopped watching.
Done(w) == receivers[w].chan.ended

\* What a watcher is handed is a longer beginning of the path, and the whole of
\* it when it stops.
LEMMA ViewGrows ==
  ASSUME IInv, IInv', NEW w \in Watchers, Deliver(w)
  PROVE  /\ UNCHANGED <<nodes, path>> /\ ~Done(w) /\ Done(w)' \in BOOLEAN
         /\ \A v \in Watchers : v # w => UNCHANGED Done(v)
         /\ Done(w)' => path = "gone" /\ shown' = [shown EXCEPT ![w] = nodes]
         /\ \E n \in Len(shown[w]) .. Len(nodes) : shown' = [shown EXCEPT ![w] = SubSeq(nodes, 1, n)]
<1> USE DEF IInv
<1>1. UNCHANGED <<nodes, path>>
  BY DEF Deliver, serverRest
<1>2. PICK parts \in Seq(Parts), p \in Parts, rc \in Receivers, new \in Receivers,
            points \in Seq(Points) :
        /\ parts = sent[w] /\ parts # <<>> /\ p = parts[1]
        /\ rc = receivers[w] /\ points = shown[w]
        /\ rc.registered /\ ~rc.chan.ended /\ p.part = rc.next /\ rc.next \in Nat
        /\ new.registered = ~p.complete /\ new.next = rc.next + 1
        /\ IF p.complete THEN new.chan.ended ELSE new.last = {} /\ Waits(new.chan)
        /\ receivers' = [receivers EXCEPT ![w] = new]
        /\ shown' = [shown EXCEPT ![w] = points \o p.items]
        /\ sent' = [sent EXCEPT ![w] = Tail(parts)]
  BY PartTaken
<1>3. /\ receivers'[w] = new /\ \A v \in Watchers : v # w => receivers'[v] = receivers[v]
      /\ shown'[w] = points \o p.items
  BY <1>2 DEF TypeInv
<1>4. new.chan.ended \in BOOLEAN
  BY DEF Receivers, Chans
<1>5. nodes \in Seq(Points) /\ Len(nodes) \in Nat
  BY DEF TypeInv
<1>6. PICK n \in 0 .. Len(nodes) : /\ shown'[w] = SubSeq(nodes, 1, n)
                                   /\ new.chan.ended => n = Len(nodes) /\ path = "gone"
  <2>1. Follows(w)' /\ (new.chan.ended => path = "gone")
    BY <1>1, <1>3 DEF WatcherInv, WatcherOK
  <2>2. PICK cut \in [0 .. Len(sent'[w]) -> 0 .. Len(nodes)] :
          /\ shown'[w] = SubSeq(nodes, 1, cut[0])
          /\ new.chan.ended => cut[0] = Len(nodes)
    BY <1>1, <1>3, <2>1 DEF Follows
  <2>3. 0 \in 0 .. Len(sent'[w])
    <3>1. Len(sent'[w]) \in Nat
      BY DEF TypeInv
    <3> QED BY <3>1
  <2> QED BY <2>1, <2>2, <2>3
<1>7. Len(points) \in Nat /\ Len(points) <= n
  <2>1. PICK i \in Seq(Points) : i = p.items
    BY DEF Parts
  <2>2. Len(points \o i) = Len(points) + Len(i) /\ Len(points) \in Nat /\ Len(i) \in Nat
    OBVIOUS
  <2>3. 0 \in 0 .. Len(nodes) /\ n \in 0 .. Len(nodes) /\ 0 + 1 = 1 /\ n - 0 = n
    BY <1>5
  <2>4. Len(SubSeq(nodes, 0 + 1, n)) = n - 0
    BY <1>5, <2>3, StretchType
  <2>5. points \o i = SubSeq(nodes, 1, n)
    BY <1>3, <1>6, <2>1
  <2> QED BY <2>2, <2>3, <2>4, <2>5
<1>8. shown' = [shown EXCEPT ![w] = SubSeq(nodes, 1, n)] /\ n \in Len(shown[w]) .. Len(nodes)
  BY <1>2, <1>3, <1>6, <1>7
<1>9. new.chan.ended => path = "gone" /\ shown' = [shown EXCEPT ![w] = nodes]
  BY <1>5, <1>6, <1>8, SubSeqFull
<1> QED BY <1>1, <1>2, <1>3, <1>4, <1>8, <1>9 DEF Done

Ended == [w \in Watchers |-> Done(w)]

\* A step of the drawing is one of the line or none.
LEMMA DrawingStepsLine ==
  ASSUME IInv, IInv', [Next]_vars
  PROVE  [Line!Next]_(Line!lineVars)
<1> USE DEF Points
<1>1. /\ Line!lineVars = <<nodes, path = "gone", shown, Ended>>
      /\ \A w \in Watchers : Done(w) \in BOOLEAN
  BY DEF Line!lineVars, Ended, Done, IInv, TypeInv, Receivers, Chans
<1>2. ASSUME UNCHANGED <<nodes, shown>>, (path' = "gone") = (path = "gone"),
             \A w \in Watchers : UNCHANGED Done(w)
      PROVE  UNCHANGED Line!lineVars
  BY <1>1, <1>2 DEF Line!lineVars, Ended, Done
<1>3. CASE UNCHANGED vars
  BY <1>2, <1>3 DEF vars, pathVars, watcherVars, Done
<1>4. CASE Tool
  <2>1. UNCHANGED <<nodes, path, watcherVars>>
    BY <1>4 DEF Tool, Press, StartDrag, NextPoint, FinishDrag, Answer, pathVars, serverRest
  <2> QED BY <1>2, <2>1 DEF watcherVars, Done
<1>5. CASE Pointer
  <2>1. UNCHANGED <<nodes, path, watcherVars>>
    BY <1>5 DEF Pointer, PointerDown, PointerMove, PointerUp, pathVars
  <2> QED BY <1>2, <2>1 DEF watcherVars, Done
<1>6. ASSUME Server
      PROVE  \/ Line!Extend \/ Line!End \/ UNCHANGED Line!lineVars
  <2>1. UNCHANGED watcherVars
    BY <1>6 DEF Server
  <2>2. UNCHANGED Ended /\ UNCHANGED shown /\ \A w \in Watchers : UNCHANGED Done(w)
    BY <2>1 DEF watcherVars, Ended, Done
  <2>3. ASSUME NEW r \in requests, ContinuePath(r) PROVE Line!Extend \/ UNCHANGED Line!lineVars
    <3>1. UNCHANGED path
      BY <2>3 DEF ContinuePath
    <3>2. CASE path = "active" /\ r.c = Drawer
      <4>1. \E p \in Points : nodes' = Append(nodes, p)
        BY <2>3, <3>2, OnePointMore
      <4> QED BY <3>1, <3>2, <4>1, <2>2 DEF Line!Extend, Ended, Done
    <3>3. CASE ~(path = "active" /\ r.c = Drawer)
      <4>1. UNCHANGED nodes
        BY <2>3, <3>3 DEF ContinuePath
      <4> QED BY <1>2, <2>2, <3>1, <4>1
    <3> QED BY <3>2, <3>3
  <2>4. ASSUME NEW r \in requests, EndPath(r) PROVE Line!End \/ UNCHANGED Line!lineVars
    <3>1. UNCHANGED nodes
      BY <2>4 DEF EndPath
    <3>2. CASE path = "active"
      <4>1. path' = "gone"
        BY <2>4, <3>2 DEF EndPath
      <4> QED BY <3>1, <3>2, <4>1, <2>2 DEF Line!End, Ended, Done
    <3>3. CASE path # "active"
      <4>1. UNCHANGED path
        BY <2>4, <3>3 DEF EndPath
      <4> QED BY <1>2, <2>2, <3>1, <4>1
    <3> QED BY <3>2, <3>3
  <2>5. ASSUME NEW r \in requests, BeginPath(r) PROVE UNCHANGED Line!lineVars
    <3>1. UNCHANGED nodes /\ path' = "active"
      BY <2>5 DEF BeginPath
    <3>2. path = "none"
      BY <2>5 DEF BeginPath, Handles, IInv, DrawerInv, DrawerCalls
    <3> QED BY <1>2, <2>2, <3>1, <3>2
  <2>6. ASSUME NEW r \in requests, GetActivePath(r) PROVE UNCHANGED Line!lineVars
    <3>1. UNCHANGED <<nodes, path>>
      BY <2>6 DEF GetActivePath
    <3> QED BY <1>2, <2>2, <3>1
  <2>7. ASSUME NEW w \in telling, TellStarted(w) PROVE UNCHANGED Line!lineVars
    <3>1. UNCHANGED <<nodes, path>>
      BY <2>7 DEF TellStarted
    <3> QED BY <1>2, <2>2, <3>1
  <2> QED BY <1>6, <2>3, <2>4, <2>5, <2>6, <2>7 DEF Server, Serve
<1>7. ASSUME NEW w \in Watchers, Watch(w) PROVE UNCHANGED Line!lineVars
  <2>1. UNCHANGED <<nodes, path, shown>> /\ w \notin watching
        /\ receivers' = [receivers EXCEPT ![w].registered = TRUE,
                                          ![w].chan = Pop(receivers[w].chan)]
    BY <1>7 DEF Watch, serverRest
  <2>2. receivers \in [Watchers -> Receivers] /\ receivers[w] = NewReceiver
    BY <2>1 DEF IInv, TypeInv, WatcherInv, WatcherOK
  <2>3. Pop(NewChannel).ended = FALSE /\ NewReceiver.chan = NewChannel
        /\ NewChannel.ended = FALSE
    BY NewReceiverFacts DEF Waits, Chans, NewReceiver, NewChannel
  <2>4. receivers'[w].chan = Pop(NewChannel)
        /\ \A v \in Watchers : v # w => receivers'[v] = receivers[v]
    BY <2>1, <2>2, <2>3 DEF NewReceiver
  <2>5. \A v \in Watchers : UNCHANGED Done(v)
    BY <2>2, <2>3, <2>4 DEF Done
  <2> QED BY <1>2, <2>1, <2>5
<1>8. ASSUME NEW w \in Watchers, Deliver(w) PROVE Line!See(w) \/ Line!Finish(w)
  <2>1. /\ UNCHANGED <<nodes, path>> /\ ~Done(w) /\ Done(w)' \in BOOLEAN
        /\ \A v \in Watchers : v # w => UNCHANGED Done(v)
        /\ Done(w)' => path = "gone" /\ shown' = [shown EXCEPT ![w] = nodes]
        /\ \E n \in Len(shown[w]) .. Len(nodes) : shown' = [shown EXCEPT ![w] = SubSeq(nodes, 1, n)]
    BY <1>8, ViewGrows
  <2>2. CASE Done(w)'
    <3>1. Ended' = [Ended EXCEPT ![w] = TRUE]
      <4>1. Done(w)' = TRUE
        BY <2>1, <2>2
      <4> QED BY <2>1, <4>1 DEF Ended
    <3> QED BY <2>1, <2>2, <3>1 DEF Line!Finish, Ended, Done
  <2>3. CASE ~Done(w)'
    <3>1. Ended' = Ended
      <4>1. Done(w) = FALSE /\ Done(w)' = FALSE
        BY <1>1, <2>1, <2>3
      <4> QED BY <2>1, <4>1 DEF Ended
    <3> QED BY <2>1, <3>1 DEF Line!See, Ended, Done
  <2> QED BY <2>2, <2>3
<1>9. ASSUME NEW w \in Watchers, NEW m, Meddle(w, m) PROVE UNCHANGED Line!lineVars
  <2>1. UNCHANGED <<nodes, path, shown, receivers>>
    BY <1>9 DEF Meddle, serverRest
  <2> QED BY <1>2, <2>1 DEF Done
<1> QED BY <1>3, <1>4, <1>5, <1>6, <1>7, <1>8, <1>9 DEF Next, Receive, Line!Next

\* The drawing is a live line: it grows only by the drawer's points and until it
\* is over, and every watcher sees ever more of it and, when it stops, all of it.
THEOREM DrawingIsLiveLine == Spec => LiveLineSpec
<1>1. Init => Line!Init
  <2> SUFFICES ASSUME Init PROVE Line!Init
    OBVIOUS
  <2>1. \A w \in Watchers : receivers[w].chan.ended = FALSE
    BY DEF Init, NewReceiver, NewChannel
  <2> QED BY <2>1 DEF Init, PathsInit, Line!Init
<1>2. IInv /\ IInv' /\ [Next]_vars => [Line!Next]_(Line!lineVars)
  BY DrawingStepsLine
<1> QED BY <1>1, <1>2, DrawingSound, PTL DEF Spec, LiveLineSpec, Line!Spec
=============================================================================
