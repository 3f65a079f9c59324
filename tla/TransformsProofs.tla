-------------------------- MODULE TransformsProofs --------------------------
(***************************************************************************)
(* For every group of transforms, any number of items, workers, additions, *)
(* drags and reloads: selecting and deselecting move nothing, and the      *)
(* board has every item where its holder sees it, unless a worker overtook *)
(* another where it checks or changes the board.                           *)
(*                                                                         *)
(* BoardAgrees is not inductive: calls may be under way, some of them      *)
(* checked.  Agree says that the board will have what the holder has once  *)
(* it has handled them all; Settled, that the checks refuse nothing.  Nor  *)
(* is WatcherAgrees: WatchInv says what the watcher will be once it has    *)
(* heard all notices, and rests on every call under way being made for     *)
(* what the board is when it handles it (Fits).                            *)
(***************************************************************************)
EXTENDS Transforms, SequenceTheorems, TLAPS

Partial == UNION {[S -> Matrix] : S \in SUBSET Items}

BoardStates == [item : [Items -> Matrix], srt : Matrix, sits : Partial]

Additions == [op : {"add"}, srt : Matrix, new : Partial, old : Partial, steady : BOOLEAN]
Moves     == [op : {"move"}, srt : Matrix]
Removals  == [op : {"remove"}, items : Partial]
Calls     == Additions \cup Moves \cup Removals

Notices ==
  [op : {"add"}, srt : Matrix, items : SUBSET Items, steady : BOOLEAN] \cup Moves \cup Removals

\* What the board tells of c.
Notice(c) ==
  IF c.op = "add" THEN [op |-> "add", srt |-> c.srt, items |-> DOMAIN c.new, steady |-> c.steady]
  ELSE c

TypeOK ==
  /\ item \in [Items -> Matrix] /\ srt \in Matrix /\ sits \in Partial
  /\ marked \subseteq Items /\ sent \in BOOLEAN
  /\ drag \in [kind : {"none", "box", "handle"}, start : Matrix, shared : BOOLEAN]
  /\ calls \in Seq(Calls) /\ begun \in 0 .. Len(calls) /\ owned \in SUBSET Items
  /\ board \in BoardStates /\ untold \in Seq(Notices) /\ overtaken \in BOOLEAN

\* What the board is when it has handled c.
After(b, c) ==
  IF c.op = "add"
  THEN [item |-> b.item, srt |-> c.srt, sits |-> Over(c.old, Over(c.new, b.sits))]
  ELSE IF c.op = "move" THEN [item |-> b.item, srt |-> c.srt, sits |-> b.sits]
  ELSE [item |-> Over(c.items, b.item), srt |-> b.srt, sits |-> Without(b.sits, DOMAIN c.items)]

\* What an owner check leaves of c.
Checked(c) ==
  IF c.op = "remove" THEN [op |-> "remove", items |-> Within(c.items, owned)] ELSE c

\* The call c was made for what the board is, b, when it handles c.
Fits(b, c) ==
  /\ c.op = "remove" => DOMAIN c.items \subseteq DOMAIN b.sits
  /\ c.op = "add" =>
       /\ c.new = [i \in DOMAIN c.new |-> Inv(c.srt)]
       /\ DOMAIN c.old = DOMAIN b.sits \ DOMAIN c.new
       /\ c.steady => \A i \in DOMAIN c.old : c.old[i] = Mul(Mul(Inv(c.srt), b.srt), b.sits[i])

\* xs, taken one after the other, lead from x to y by the steps in R.
Leads(R, S, x, xs, y) ==
  \E f \in [0 .. Len(xs) -> S] :
    /\ f[0] = x /\ f[Len(xs)] = y
    /\ \A k \in 1 .. Len(xs) : <<f[k - 1], xs[k], f[k]>> \in R

Handling ==
  {t \in BoardStates \X Calls \X BoardStates : Fits(t[1], t[2]) /\ t[3] = After(t[1], t[2])}

\* b becomes d when the calls cs are handled.
Reaches(b, cs, d) == Leads(Handling, BoardStates, b, cs, d)

Mirrors(d) == d.item = item /\ d.sits = sits /\ (sent => d.srt = srt)

\* d is what the holder has next.
MirrorsNext(d) == d.item = item' /\ d.sits = sits' /\ (sent' => d.srt = srt')

Agree == \E d \in BoardStates : Reaches(board, calls, d) /\ Mirrors(d)

\* What an addition takes before it changes the board.
Taken == IF begun > 0 /\ calls[1].op = "add" THEN DOMAIN calls[1].new ELSE {}

\* The owner's items are those in its selection, and the first call alone takes.
Settled ==
  /\ owned = DOMAIN board.sits \cup Taken
  /\ \A k \in 2 .. begun : calls[k].op # "add"

IInv == TypeOK /\ (~overtaken => Agree /\ Settled)

WatcherStates ==
  [stage : {"none", "items", "live"}, item : [Items -> Matrix], srt : Matrix, sits : Partial,
   held : SUBSET Items, lag : 0 .. 2]

\* What the watcher w is when it has heard n.
Heard(w, n) ==
  IF n.op = "add"
  THEN [stage |-> w.stage, item |-> w.item, srt |-> w.srt,
        sits |-> AddFromTransforms(w.sits, w.srt, [i \in n.items |-> Inv(n.srt)], n.srt),
        held |-> w.held \cup n.items,
        lag |-> IF w.held = {} \/ (w.lag = 0 /\ n.steady) THEN 1 ELSE 2]
  ELSE IF n.op = "move"
  THEN [stage |-> w.stage, item |-> w.item, srt |-> n.srt, sits |-> w.sits,
        held |-> w.held, lag |-> IF w.lag = 1 THEN 0 ELSE w.lag]
  ELSE [stage |-> w.stage, item |-> Over(n.items, w.item), srt |-> w.srt, sits |-> w.sits,
        held |-> w.held \ DOMAIN n.items,
        lag |-> IF w.held \ DOMAIN n.items = {} THEN 0 ELSE w.lag]

Hearing == {t \in WatcherStates \X Notices \X WatcherStates : t[3] = Heard(t[1], t[2])}

\* w becomes z when it hears ns.
Hears(w, ns, z) == Leads(Hearing, WatcherStates, w, ns, z)

\* The watcher z has the transforms of the board b, and its srt too if it lags not.
Sees(z, b) ==
  /\ z.item = b.item
  /\ z.held = DOMAIN b.sits /\ z.held \subseteq DOMAIN z.sits
  /\ z.lag < 2 => \A i \in z.held : z.sits[i] = b.sits[i]
  /\ z.lag = 0 => z.held = {} \/ z.srt = b.srt

WatchInv ==
  /\ watcher \in WatcherStates /\ wire \in Seq(Notices) /\ misled \in BOOLEAN
  /\ watcher.stage # "live" => wire = <<>> /\ watcher.lag = 0
  /\ watcher.stage = "items" /\ ~misled => watcher.item = board.item
  /\ watcher.stage = "live" /\ ~overtaken /\ ~misled =>
       \E z \in WatcherStates : Hears(watcher, wire \o untold, z) /\ Sees(z, board)

-----------------------------------------------------------------------------
(* Partial functions and the group                                         *)

LEMMA PartialType ==
  ASSUME NEW S \in SUBSET Items, NEW f \in [S -> Matrix]
  PROVE  f \in Partial
BY DEF Partial

LEMMA PartialDomain ==
  ASSUME NEW f \in Partial
  PROVE  DOMAIN f \in SUBSET Items /\ f \in [DOMAIN f -> Matrix]
<1>1. PICK S \in SUBSET Items : f \in [S -> Matrix]
  BY DEF Partial
<1> QED BY <1>1

LEMMA OverPartial ==
  ASSUME NEW f \in Partial, NEW g \in Partial
  PROVE  Over(f, g) \in Partial
<1>1. DOMAIN f \cup DOMAIN g \in SUBSET Items
  BY PartialDomain
<1>2. Over(f, g) \in [DOMAIN f \cup DOMAIN g -> Matrix]
  BY PartialDomain DEF Over
<1> QED BY <1>1, <1>2, PartialType

LEMMA WithinPartial ==
  ASSUME NEW f \in Partial, NEW S
  PROVE  Within(f, S) \in Partial
<1>1. DOMAIN f \cap S \in SUBSET Items
  BY PartialDomain
<1>2. Within(f, S) \in [DOMAIN f \cap S -> Matrix]
  BY PartialDomain DEF Within
<1> QED BY <1>1, <1>2, PartialType

LEMMA WithinAll ==
  ASSUME NEW f \in Partial, NEW S, DOMAIN f \subseteq S
  PROVE  Within(f, S) = f
<1>1. f = [i \in DOMAIN f |-> f[i]]
  BY PartialDomain
<1>2. DOMAIN f \cap S = DOMAIN f
  OBVIOUS
<1> QED BY <1>1, <1>2 DEF Within

LEMMA OverTotal ==
  ASSUME NEW f \in Partial, NEW g \in [Items -> Matrix]
  PROVE  Over(f, g) \in [Items -> Matrix]
<1>1. DOMAIN f \cup DOMAIN g = Items
  BY PartialDomain
<1> QED BY <1>1, PartialDomain DEF Over

LEMMA WithoutPartial ==
  ASSUME NEW f \in Partial, NEW S
  PROVE  Without(f, S) \in Partial
<1>1. DOMAIN f \ S \in SUBSET Items
  BY PartialDomain
<1>2. Without(f, S) \in [DOMAIN f \ S -> Matrix]
  BY PartialDomain DEF Without
<1> QED BY <1>1, <1>2, PartialType

LEMMA NothingPartial == Nothing \in Partial
<1>1. Nothing \in [{} -> Matrix]
  BY DEF Nothing
<1>2. {} \in SUBSET Items
  OBVIOUS
<1> QED BY <1>1, <1>2, PartialType

LEMMA PreMultiplyPartial ==
  ASSUME NEW f \in Partial, NEW m \in Matrix
  PROVE  PreMultiply(f, m) \in Partial
<1>1. PreMultiply(f, m) \in [DOMAIN f -> Matrix]
  BY PartialDomain, GroupAssumption DEF PreMultiply
<1> QED BY <1>1, PartialDomain, PartialType

LEMMA InvType == ASSUME NEW m \in Matrix PROVE Inv(m) \in Matrix
BY GroupAssumption

LEMMA MulType == ASSUME NEW m \in Matrix, NEW n \in Matrix PROVE Mul(m, n) \in Matrix
BY GroupAssumption

LEMMA AddFromTransformsPartial ==
  ASSUME NEW old \in Partial, NEW new \in Partial, NEW m \in Matrix, NEW n \in Matrix
  PROVE  AddFromTransforms(old, m, new, n) \in Partial
<1>1. Mul(Inv(n), m) \in Matrix
  BY InvType, MulType
<1>2. PreMultiply(old, Mul(Inv(n), m)) \in Partial
  BY <1>1, PreMultiplyPartial
<1>3. Over(new, PreMultiply(old, Mul(Inv(n), m))) \in Partial
  BY <1>2, OverPartial
<1> QED BY <1>3 DEF AddFromTransforms

\* A new root n takes the place of m.
LEMMA Reroot ==
  ASSUME NEW m \in Matrix, NEW n \in Matrix, NEW t \in Matrix
  PROVE  Mul(n, Mul(Mul(Inv(n), m), t)) = Mul(m, t)
<1>1. Inv(n) \in Matrix /\ Mul(Inv(n), m) \in Matrix
  BY InvType, MulType
<1>2. Mul(n, Mul(Mul(Inv(n), m), t)) = Mul(Mul(n, Mul(Inv(n), m)), t)
  BY <1>1, GroupAssumption
<1>3. Mul(n, Mul(Inv(n), m)) = Mul(Mul(n, Inv(n)), m)
  BY <1>1, GroupAssumption
<1>4. Mul(n, Inv(n)) = Identity /\ Mul(Identity, m) = m
  BY GroupAssumption
<1> QED BY <1>2, <1>3, <1>4

-----------------------------------------------------------------------------
(* The board and the calls under way                                       *)

LEMMA AfterType ==
  ASSUME NEW b \in BoardStates, NEW c \in Calls
  PROVE  After(b, c) \in BoardStates
<1>1. CASE c \in Additions
  <2>1. c.op = "add" /\ c.srt \in Matrix /\ c.new \in Partial /\ c.old \in Partial
    BY <1>1 DEF Additions
  <2>2. Over(c.old, Over(c.new, b.sits)) \in Partial
    BY <2>1, OverPartial DEF BoardStates
  <2> QED BY <2>1, <2>2 DEF After, BoardStates
<1>2. CASE c \in Moves
  <2>1. c.op = "move" /\ c.srt \in Matrix
    BY <1>2 DEF Moves
  <2> QED BY <2>1 DEF After, BoardStates
<1>3. CASE c \in Removals
  <2>1. c.op = "remove" /\ c.items \in Partial
    BY <1>3 DEF Removals
  <2>2. Over(c.items, b.item) \in [Items -> Matrix]
    BY <2>1, OverTotal DEF BoardStates
  <2>3. Without(b.sits, DOMAIN c.items) \in Partial
    BY WithoutPartial DEF BoardStates
  <2> QED BY <2>1, <2>2, <2>3 DEF After, BoardStates
<1> QED BY <1>1, <1>2, <1>3 DEF Calls

LEMMA LeadsNone ==
  ASSUME NEW R, NEW S, NEW x \in S
  PROVE  Leads(R, S, x, <<>>, x) /\ \A y : Leads(R, S, x, <<>>, y) => y = x
<1>1. Len(<<>>) = 0
  OBVIOUS
<1> DEFINE f == [k \in 0 .. 0 |-> x]
<1>2. /\ f \in [0 .. 0 -> S] /\ f[0] = x
      /\ \A k \in 1 .. 0 : <<f[k - 1], <<>>[k], f[k]>> \in R
  OBVIOUS
<1> HIDE DEF f
<1>3. Leads(R, S, x, <<>>, x)
  BY <1>1, <1>2 DEF Leads
<1>4. ASSUME NEW y, Leads(R, S, x, <<>>, y) PROVE y = x
  BY <1>1, <1>4 DEF Leads
<1> QED BY <1>3, <1>4

LEMMA LeadsAppend ==
  ASSUME NEW R, NEW S, NEW x \in S, NEW y \in S, NEW z \in S,
         NEW T, NEW xs \in Seq(T), NEW c \in T,
         Leads(R, S, x, xs, y), <<y, c, z>> \in R
  PROVE  Leads(R, S, x, Append(xs, c), z)
<1>1. PICK f \in [0 .. Len(xs) -> S] :
        /\ f[0] = x /\ f[Len(xs)] = y
        /\ \A k \in 1 .. Len(xs) : <<f[k - 1], xs[k], f[k]>> \in R
  BY DEF Leads
<1> DEFINE n == Len(xs)
           g == [k \in 0 .. n + 1 |-> IF k = n + 1 THEN z ELSE f[k]]
<1>2. n \in Nat /\ Len(Append(xs, c)) = n + 1
  OBVIOUS
<1>3. g \in [0 .. n + 1 -> S]
  BY <1>1, <1>2
<1>4. g[0] = x /\ g[n + 1] = z
  BY <1>1, <1>2
<1>5. ASSUME NEW k \in 1 .. n + 1 PROVE <<g[k - 1], Append(xs, c)[k], g[k]>> \in R
  <2>1. CASE k = n + 1
    <3>1. Append(xs, c)[k] = c /\ g[k - 1] = f[n]
      BY <2>1, <1>2
    <3> QED BY <3>1, <2>1, <1>1, <1>4
  <2>2. CASE k # n + 1
    <3>1. k \in 1 .. n /\ k - 1 \in 0 .. n
      BY <2>2, <1>2
    <3>2. Append(xs, c)[k] = xs[k] /\ g[k] = f[k] /\ g[k - 1] = f[k - 1]
      BY <3>1, <1>2
    <3> QED BY <3>1, <3>2, <1>1
  <2> QED BY <2>1, <2>2
<1> HIDE DEF g
<1> QED BY <1>2, <1>3, <1>4, <1>5 DEF Leads

LEMMA LeadsTail ==
  ASSUME NEW R, NEW S, NEW x \in S, NEW z \in S,
         NEW T, NEW xs \in Seq(T), xs # <<>>, Leads(R, S, x, xs, z)
  PROVE  \E y \in S : <<x, Head(xs), y>> \in R /\ Leads(R, S, y, Tail(xs), z)
<1>1. PICK f \in [0 .. Len(xs) -> S] :
        /\ f[0] = x /\ f[Len(xs)] = z
        /\ \A k \in 1 .. Len(xs) : <<f[k - 1], xs[k], f[k]>> \in R
  BY DEF Leads
<1> DEFINE n == Len(xs)
           g == [k \in 0 .. n - 1 |-> f[k + 1]]
<1>2. n \in Nat /\ n >= 1 /\ Len(Tail(xs)) = n - 1 /\ Head(xs) = xs[1]
  OBVIOUS
<1>3. g \in [0 .. n - 1 -> S]
  BY <1>1, <1>2
<1>4. g[0] = f[1] /\ f[1] \in S /\ <<x, Head(xs), f[1]>> \in R /\ g[n - 1] = z
  BY <1>1, <1>2
<1>5. ASSUME NEW k \in 1 .. n - 1 PROVE <<g[k - 1], Tail(xs)[k], g[k]>> \in R
  <2>1. k + 1 \in 1 .. n /\ k - 1 \in 0 .. n - 1 /\ k \in 0 .. n - 1
    BY <1>2
  <2>2. Tail(xs)[k] = xs[k + 1] /\ g[k] = f[k + 1] /\ g[k - 1] = f[k]
    BY <2>1, <1>2
  <2>3. <<f[(k + 1) - 1], xs[k + 1], f[k + 1]>> \in R /\ (k + 1) - 1 = k
    BY <2>1, <1>1
  <2> QED BY <2>1, <2>2, <2>3
<1> HIDE DEF g
<1>6. Leads(R, S, f[1], Tail(xs), z)
  BY <1>2, <1>3, <1>4, <1>5 DEF Leads
<1> QED BY <1>4, <1>6

LEMMA ReachesAppend ==
  ASSUME NEW b \in BoardStates, NEW cs \in Seq(Calls), NEW d \in BoardStates, NEW c \in Calls,
         Reaches(b, cs, d), Fits(d, c)
  PROVE  Reaches(b, Append(cs, c), After(d, c))
<1>1. PICK e \in BoardStates : e = After(d, c)
  BY AfterType
<1>2. <<d, c, e>> \in Handling
  BY <1>1 DEF Handling
<1>3. Reaches(b, Append(cs, c), e)
  BY <1>2, LeadsAppend DEF Reaches
<1> QED BY <1>1, <1>3

LEMMA ReachesTail ==
  ASSUME NEW b \in BoardStates, NEW cs \in Seq(Calls), NEW d \in BoardStates,
         cs # <<>>, Reaches(b, cs, d)
  PROVE  Reaches(After(b, Head(cs)), Tail(cs), d) /\ Fits(b, Head(cs))
<1>1. PICK e \in BoardStates :
        <<b, Head(cs), e>> \in Handling /\ Leads(Handling, BoardStates, e, Tail(cs), d)
  BY LeadsTail DEF Reaches
<1>2. e = After(b, Head(cs)) /\ Fits(b, Head(cs))
  BY <1>1 DEF Handling
<1> QED BY <1>1, <1>2 DEF Reaches

LEMMA ReachesNone ==
  ASSUME NEW b \in BoardStates
  PROVE  Reaches(b, <<>>, b) /\ \A d : Reaches(b, <<>>, d) => d = b
BY LeadsNone DEF Reaches

\* The kth of xs leaves; if it is the first, the tail is left.
LEMMA RemoveAtFacts ==
  ASSUME NEW T, NEW xs \in Seq(T), NEW k \in 1 .. Len(xs)
  PROVE  /\ RemoveAt(xs, k) \in Seq(T) /\ Len(RemoveAt(xs, k)) = Len(xs) - 1
         /\ k = 1 => RemoveAt(xs, k) = Tail(xs)
<1> DEFINE r == RemoveAt(xs, k)
<1>1. r = SubSeq(xs, 1, k - 1) \o SubSeq(xs, k + 1, Len(xs))
  BY DEF RemoveAt
<1>2. /\ SubSeq(xs, 1, k - 1) \in Seq(T) /\ Len(SubSeq(xs, 1, k - 1)) = k - 1
      /\ SubSeq(xs, k + 1, Len(xs)) \in Seq(T) /\ Len(SubSeq(xs, k + 1, Len(xs))) = Len(xs) - k
  BY SubSeqProperties
<1>3. r \in Seq(T) /\ Len(r) = Len(xs) - 1
  <2>1. PICK a \in Seq(T), b \in Seq(T) :
          r = a \o b /\ Len(a) = k - 1 /\ Len(b) = Len(xs) - k
    BY <1>1, <1>2
  <2>2. a \o b \in Seq(T) /\ Len(a \o b) = Len(a) + Len(b)
    BY <2>1, ConcatProperties
  <2> QED BY <2>1, <2>2
<1>4. ASSUME k = 1 PROVE r = Tail(xs)
  <2>1. Tail(xs) \in Seq(T) /\ Len(Tail(xs)) = Len(xs) - 1
    BY <1>4
  <2>2. ASSUME NEW j \in 1 .. Len(xs) - 1 PROVE r[j] = Tail(xs)[j]
    <3>1. r[j] = SubSeq(xs, k + 1, Len(xs))[j]
      BY <1>1, <1>2, <1>4
    <3>2. SubSeq(xs, k + 1, Len(xs))[j] = xs[j + 1]
      BY <1>4
    <3> QED BY <3>1, <3>2, <1>4
  <2> HIDE DEF r
  <2> QED BY <1>3, <2>1, <2>2, SeqEqual
<1> QED BY <1>3, <1>4

-----------------------------------------------------------------------------
(* Steps                                                                   *)

\* What a step of the holder that sends c does to the two halves of IInv.
LEMMA SendKeepsAgree ==
  ASSUME IInv, NEW c \in Calls, Send(c),
         ASSUME NEW d \in BoardStates, Mirrors(d) PROVE Fits(d, c) /\ MirrorsNext(After(d, c))
  PROVE  /\ calls' \in Seq(Calls) /\ begun' \in 0 .. Len(calls')
         /\ UNCHANGED <<begun, owned, board, untold, overtaken>>
         /\ ~overtaken' => Agree' /\ Settled'
<1>1. /\ calls' = Append(calls, c) /\ calls \in Seq(Calls) /\ board \in BoardStates
      /\ begun \in 0 .. Len(calls) /\ UNCHANGED <<begun, owned, board, untold, overtaken>>
  BY DEF Send, IInv, TypeOK
<1>2. /\ calls' \in Seq(Calls) /\ Len(calls') = Len(calls) + 1
      /\ \A k \in 1 .. begun : calls'[k] = calls[k]
  BY <1>1
<1>3. ASSUME ~overtaken PROVE Agree'
  <2>1. PICK d \in BoardStates : Reaches(board, calls, d) /\ Mirrors(d)
    BY <1>3 DEF IInv, Agree
  <2>2. After(d, c) \in BoardStates
    BY AfterType
  <2>3. Reaches(board, Append(calls, c), After(d, c))
    BY <1>1, <2>1, ReachesAppend
  <2>4. Mirrors(After(d, c))'
    BY <2>1 DEF Mirrors, MirrorsNext
  <2> QED BY <1>1, <2>2, <2>3, <2>4 DEF Agree
<1>4. ASSUME ~overtaken PROVE Settled'
  <2>1. Settled
    BY <1>4 DEF IInv
  <2>2. Taken' = Taken
    BY <1>1, <1>2 DEF Taken
  <2> QED BY <1>1, <1>2, <2>1, <2>2 DEF Settled
<1> QED BY <1>1, <1>2, <1>3, <1>4

LEMMA NewRootsType ==
  ASSUME IInv, NEW S \in SUBSET Items, NEW m \in NewRoots(S)
  PROVE  m \in Matrix
<1>1. m \in {item[i] : i \in S} \/ m \in Translations
  BY DEF NewRoots
<1>2. \A i \in S : item[i] \in Matrix
  BY DEF IInv, TypeOK
<1>3. Translations \subseteq Matrix
  BY GroupAssumption
<1> QED BY <1>1, <1>2, <1>3

LEMMA AddOwnSelectionKeeps ==
  ASSUME IInv, NEW S \in SUBSET Items, AddOwnSelection(S)
  PROVE  IInv'
<1> USE DEF IInv, TypeOK
<1>1. PICK newSrt \in NewRoots(S) :
        LET new == [i \in S |-> Inv(newSrt)]
        IN  /\ sits' = AddFromTransforms(sits, srt, new, newSrt)
            /\ srt' = newSrt
            /\ Send([op |-> "add", srt |-> newSrt, new |-> new, old |-> Without(sits', S),
                     steady |-> sent \/ sits = Nothing])
  BY DEF AddOwnSelection
<1> DEFINE new == [i \in S |-> Inv(newSrt)]
           c == [op |-> "add", srt |-> newSrt, new |-> new, old |-> Without(sits', S),
                 steady |-> sent \/ sits = Nothing]
<1>2. newSrt \in Matrix
  BY NewRootsType
<1>3. new \in Partial
  <2>1. new \in [S -> Matrix]
    BY <1>2, InvType
  <2> QED BY <2>1, PartialType
<1>4. sits' \in Partial
  BY <1>1, <1>2, <1>3, AddFromTransformsPartial
<1>5. c \in Calls
  BY <1>2, <1>3, <1>4, WithoutPartial DEF Calls, Additions
<1>6. UNCHANGED <<item, sent, drag>> /\ marked' = marked \cup S
  BY DEF AddOwnSelection
<1>7. Over(c.old, Over(c.new, sits)) = sits'
  <2>1. /\ DOMAIN sits' = S \cup DOMAIN sits
        /\ \A i \in S : sits'[i] = new[i]
    BY <1>1 DEF AddFromTransforms, Over, PreMultiply
  <2>2. c.new = new /\ DOMAIN new = S /\ c.old = [i \in DOMAIN sits' \ S |-> sits'[i]]
    BY DEF Without
  <2> HIDE DEF c, new
  <2>3. /\ DOMAIN c.old \cup (S \cup DOMAIN sits) = DOMAIN sits'
        /\ \A i \in DOMAIN sits' :
             Over(c.old, Over(c.new, sits))[i] = sits'[i]
    BY <2>1, <2>2 DEF Over
  <2>4. Over(c.old, Over(c.new, sits)) = [i \in DOMAIN sits' |-> Over(c.old, Over(c.new, sits))[i]]
    BY <2>1, <2>2, <2>3 DEF Over
  <2>5. sits' = [i \in DOMAIN sits' |-> sits'[i]]
    BY <1>4, PartialDomain
  <2> QED BY <2>3, <2>4, <2>5
<1>8. ASSUME NEW d \in BoardStates, Mirrors(d) PROVE Fits(d, c) /\ MirrorsNext(After(d, c))
  <2>1. MirrorsNext(After(d, c))
    BY <1>1, <1>6, <1>7, <1>8 DEF Mirrors, MirrorsNext, After
  <2>2. c.new = [i \in DOMAIN c.new |-> Inv(c.srt)]
    OBVIOUS
  <2>3. DOMAIN sits' = S \cup DOMAIN sits
    BY <1>1 DEF AddFromTransforms, Over, PreMultiply
  <2>4. DOMAIN c.old = DOMAIN d.sits \ DOMAIN c.new
    BY <2>3, <1>8 DEF Without, Mirrors
  <2>5. ASSUME c.steady, NEW i \in DOMAIN c.old
        PROVE  c.old[i] = Mul(Mul(Inv(c.srt), d.srt), d.sits[i])
    <3>1. i \in DOMAIN sits /\ i \notin S /\ c.old[i] = sits'[i]
      BY <2>3, <2>5 DEF Without
    <3>2. sits'[i] = Mul(Mul(Inv(newSrt), srt), sits[i])
      BY <1>1, <3>1 DEF AddFromTransforms, Over, PreMultiply
    <3>3. sent
      BY <3>1, <2>5 DEF Nothing
    <3> QED BY <3>1, <3>2, <3>3, <1>8 DEF Mirrors
  <2>6. c.op = "add"
    OBVIOUS
  <2> HIDE DEF c
  <2> QED BY <2>1, <2>2, <2>4, <2>5, <2>6 DEF Fits
<1>9. Send(c)
  BY <1>1
<1>10. /\ calls' \in Seq(Calls) /\ begun' \in 0 .. Len(calls')
       /\ UNCHANGED <<begun, owned, board, untold, overtaken>>
       /\ ~overtaken' => Agree' /\ Settled'
  <2> HIDE DEF c
  <2> QED BY <1>5, <1>6, <1>8, <1>9, SendKeepsAgree
<1> QED BY <1>1, <1>2, <1>4, <1>6, <1>10

LEMMA CancelSelectionKeeps ==
  ASSUME IInv, CancelSelection
  PROVE  IInv'
<1> USE DEF IInv, TypeOK
<1> DEFINE c == [op |-> "remove", items |-> FinalTransforms]
<1>1. /\ item' = Over(FinalTransforms, item) /\ sits' = Nothing
      /\ marked' = marked \ DOMAIN sits /\ Send(c)
      /\ UNCHANGED <<srt, sent, drag>>
  BY DEF CancelSelection, ApplyLocationUpdates
<1>2. FinalTransforms \in Partial
  <2>1. ASSUME NEW i \in DOMAIN sits PROVE LocationUpdate(i, Mul(srt, sits[i])) \in Matrix
    <3>1. i \in Items /\ sits[i] \in Matrix /\ item[i] \in Matrix
      BY PartialDomain
    <3> QED BY <3>1, MulType DEF LocationUpdate
  <2>2. FinalTransforms \in [DOMAIN sits -> Matrix]
    BY <2>1 DEF FinalTransforms
  <2> QED BY <2>2, PartialDomain, PartialType
<1>3. c \in Calls
  BY <1>2 DEF Calls, Removals
<1>4. item' \in [Items -> Matrix] /\ sits' \in Partial
  BY <1>1, <1>2, OverTotal, NothingPartial
<1>5. Without(sits, DOMAIN FinalTransforms) = Nothing
  BY DEF Without, FinalTransforms, Nothing
<1>6. ASSUME NEW d \in BoardStates, Mirrors(d) PROVE Fits(d, c) /\ MirrorsNext(After(d, c))
  BY <1>1, <1>5, <1>6 DEF Mirrors, MirrorsNext, After, Fits, FinalTransforms
<1>7. /\ calls' \in Seq(Calls) /\ begun' \in 0 .. Len(calls')
      /\ UNCHANGED <<begun, owned, board, untold, overtaken>>
      /\ ~overtaken' => Agree' /\ Settled'
  <2> HIDE DEF c
  <2> QED BY <1>1, <1>3, <1>6, SendKeepsAgree
<1> QED BY <1>1, <1>4, <1>7

LEMMA SendSrtUpdateKeeps ==
  ASSUME IInv, SendSrtUpdate
  PROVE  IInv'
<1> USE DEF IInv, TypeOK
<1> DEFINE c == [op |-> "move", srt |-> srt]
<1>1. Send(c) /\ sent' = TRUE /\ UNCHANGED <<item, srt, sits, marked, drag>>
  BY DEF SendSrtUpdate
<1>2. c \in Calls
  BY DEF Calls, Moves
<1>3. ASSUME NEW d \in BoardStates, Mirrors(d) PROVE Fits(d, c) /\ MirrorsNext(After(d, c))
  BY <1>1, <1>3 DEF Mirrors, MirrorsNext, After, Fits
<1>4. /\ calls' \in Seq(Calls) /\ begun' \in 0 .. Len(calls')
      /\ UNCHANGED <<begun, owned, board, untold, overtaken>>
      /\ ~overtaken' => Agree' /\ Settled'
  <2> HIDE DEF c
  <2> QED BY <1>1, <1>2, <1>3, SendKeepsAgree
<1> QED BY <1>1, <1>4

LEMMA BeginKeeps ==
  ASSUME IInv, Begin
  PROVE  IInv'
<1> DEFINE n == begun + 1
           c == calls[n]
<1>1. /\ calls \in Seq(Calls) /\ begun \in 0 .. Len(calls) /\ begun < Len(calls)
      /\ begun' = n /\ UNCHANGED <<holderVars, board, untold>>
  BY DEF Begin, IInv, TypeOK
<1>2. n \in 1 .. Len(calls) /\ c \in Calls /\ overtaken \in BOOLEAN /\ owned \in SUBSET Items
  BY <1>1 DEF IInv, TypeOK
<1>3. CASE c.op = "add"
  <2>1. /\ calls' = [calls EXCEPT ![n].old = Within(@, owned)]
        /\ owned' = owned \cup DOMAIN c.new /\ overtaken' = (overtaken \/ begun > 0)
    BY <1>1, <1>3 DEF Begin
  <2>2. c \in Additions
    BY <1>2, <1>3 DEF Calls, Moves, Removals
  <2>3. c.old \in Partial /\ c.new \in Partial
    BY <2>2 DEF Additions
  <2>4. Within(c.old, owned) \in Partial /\ DOMAIN c.new \in SUBSET Items
    BY <2>3, WithinPartial, PartialDomain
  <2>5. PICK w \in Partial : w = Within(c.old, owned)
    BY <2>4
  <2>6. [c EXCEPT !.old = w] \in Calls
    BY <2>2 DEF Additions, Calls
  <2>7. calls' = [calls EXCEPT ![n] = [c EXCEPT !.old = w]]
    BY <2>1, <2>5
  <2>8. calls' \in Seq(Calls) /\ Len(calls') = Len(calls)
    BY <1>1, <1>2, <2>6, <2>7
  <2>9. overtaken' \in BOOLEAN /\ owned' \in SUBSET Items /\ begun' \in 0 .. Len(calls')
    BY <1>1, <1>2, <2>1, <2>4, <2>8
  <2>10. TypeOK'
    BY <1>1, <2>8, <2>9 DEF IInv, TypeOK, holderVars
  <2>11. ASSUME ~overtaken' PROVE Agree' /\ Settled'
    <3>0. ~overtaken /\ ~(begun > 0)
      BY <2>1, <2>11, Zenon
    <3>1. ~overtaken /\ begun = 0 /\ n = 1
      BY <1>1, <3>0
    <3>2. PICK d \in BoardStates : Reaches(board, calls, d) /\ Mirrors(d)
      BY <3>1 DEF IInv, Agree
    <3>3. calls # <<>> /\ Head(calls) = c /\ board \in BoardStates
      BY <1>1, <3>1 DEF IInv, TypeOK
    <3>4. Fits(board, c)
      BY <1>1, <3>2, <3>3, ReachesTail
    <3>5. DOMAIN c.old \subseteq owned /\ owned = DOMAIN board.sits
      BY <1>3, <3>1, <3>4 DEF IInv, Settled, Taken, Fits
    <3>6. w = c.old
      BY <2>3, <2>5, <3>5, WithinAll
    <3>7. [c EXCEPT !.old = w] = c
      BY <2>2, <3>6 DEF Additions
    <3>8. calls' = calls
      BY <1>1, <1>2, <2>7, <3>7
    <3>9. Agree'
      BY <1>1, <3>2, <3>8 DEF Agree, Mirrors, holderVars
    <3>10. Taken' = DOMAIN c.new
      BY <1>1, <1>3, <3>1, <3>8 DEF Taken
    <3>11. owned' = DOMAIN board'.sits \cup Taken'
      BY <1>1, <2>1, <3>5, <3>10
    <3>12. begun' = 1
      BY <1>1, <3>1
    <3>13. Settled'
      BY <3>11, <3>12 DEF Settled
    <3> QED BY <3>9, <3>13
  <2> QED BY <2>10, <2>11 DEF IInv
<1>4. CASE c.op # "add"
  <2>1. UNCHANGED <<calls, owned, overtaken>>
    BY <1>1, <1>4 DEF Begin
  <2>2. TypeOK'
    BY <1>1, <1>2, <2>1 DEF IInv, TypeOK, holderVars
  <2>3. ASSUME ~overtaken' PROVE Agree' /\ Settled'
    <3>1. Agree /\ Settled
      BY <2>1, <2>3 DEF IInv
    <3>2. Agree'
      BY <1>1, <2>1, <3>1 DEF Agree, Mirrors, holderVars
    <3>3. Taken' = Taken
      <4>1. CASE begun = 0
        BY <4>1, <1>1, <1>4, <2>1 DEF Taken
      <4>2. CASE begun # 0
        BY <4>2, <1>1, <2>1 DEF Taken
      <4> QED BY <4>1, <4>2
    <3>4. \A k \in 2 .. begun' : calls'[k].op # "add"
      BY <1>1, <1>4, <2>1, <3>1 DEF Settled
    <3> QED BY <1>1, <2>1, <3>1, <3>2, <3>3, <3>4 DEF Settled
  <2> QED BY <2>2, <2>3 DEF IInv
<1> QED BY <1>3, <1>4

LEMMA CheckedType ==
  ASSUME NEW c \in Calls
  PROVE  Checked(c) \in Calls
<1>1. CASE c.op = "remove"
  <2>1. c.items \in Partial
    BY <1>1 DEF Calls, Additions, Moves, Removals
  <2> QED BY <1>1, <2>1, WithinPartial DEF Checked, Calls, Removals
<1>2. CASE c.op # "remove"
  BY <1>2 DEF Checked
<1> QED BY <1>1, <1>2

LEMMA NoticeType ==
  ASSUME NEW c \in Calls
  PROVE  Notice(c) \in Notices
<1>1. CASE c \in Additions
  BY <1>1, PartialDomain DEF Additions, Notice, Notices
<1>2. CASE c \in Moves \cup Removals
  BY <1>2 DEF Moves, Removals, Notice, Notices
<1> QED BY <1>1, <1>2 DEF Calls

\* What a worker that handles the kth call does.
LEMMA HandleIsAfter ==
  ASSUME IInv, NEW k \in 1 .. begun, Handle(k)
  PROVE  /\ k \in 1 .. Len(calls) /\ calls[k] \in Calls
         /\ board' = After(board, Checked(calls[k]))
         /\ untold' = Append(untold, Notice(Checked(calls[k])))
         /\ owned' = IF calls[k].op = "remove" THEN owned \ DOMAIN Checked(calls[k]).items
                     ELSE owned
         /\ calls' = RemoveAt(calls, k) /\ begun' = begun - 1
         /\ overtaken' = (overtaken \/ k # 1)
         /\ misled' = IF calls[k].op = "remove" THEN (misled \/ watcher.stage = "items") ELSE misled
         /\ UNCHANGED <<holderVars, wire, watcher>>
<1>1. PICK c : c = calls[k]
  OBVIOUS
<1>2. /\ k \in 1 .. Len(calls) /\ calls' = RemoveAt(calls, k) /\ begun' = begun - 1
      /\ overtaken' = (overtaken \/ k # 1) /\ UNCHANGED <<holderVars, wire, watcher>>
  BY DEF Handle, IInv, TypeOK
<1>3. c \in Calls
  BY <1>1, <1>2 DEF IInv, TypeOK
<1>4. board = [item |-> board.item, srt |-> board.srt, sits |-> board.sits]
  BY DEF IInv, TypeOK, BoardStates
<1>5. \/ c.op = "add" /\ HandleAdd(c)
      \/ c.op = "move" /\ HandleMove(c)
      \/ c.op = "remove" /\ HandleRemove(c)
  BY <1>1 DEF Handle
<1>6. board' = After(board, Checked(c))
  BY <1>4, <1>5 DEF HandleAdd, HandleMove, HandleRemove, After, ApplyLocationUpdates, Checked
<1>7. untold' = Append(untold, Notice(Checked(c)))
  BY <1>5 DEF HandleAdd, HandleMove, HandleRemove, Notice, Checked
<1>8. /\ owned' = IF c.op = "remove" THEN owned \ DOMAIN Checked(c).items ELSE owned
      /\ misled' = IF c.op = "remove" THEN (misled \/ watcher.stage = "items") ELSE misled
  BY <1>5 DEF HandleAdd, HandleMove, HandleRemove, Checked
<1> QED BY <1>1, <1>2, <1>3, <1>6, <1>7, <1>8

\* The first call, if nothing was overtaken, is handled as it was made.
LEMMA FirstFits ==
  ASSUME IInv, ~overtaken, begun > 0
  PROVE  /\ calls # <<>> /\ Head(calls) = calls[1] /\ calls[1] \in Calls
         /\ Fits(board, calls[1]) /\ Checked(calls[1]) = calls[1]
<1>1. /\ calls \in Seq(Calls) /\ begun \in 0 .. Len(calls) /\ board \in BoardStates
      /\ calls # <<>> /\ Head(calls) = calls[1] /\ calls[1] \in Calls
  BY DEF IInv, TypeOK
<1>2. PICK d \in BoardStates : Reaches(board, calls, d)
  BY DEF IInv, Agree
<1>3. Fits(board, calls[1])
  BY <1>1, <1>2, ReachesTail
<1>4. CASE calls[1].op = "remove"
  <2>1. calls[1] \in Removals
    BY <1>1, <1>4 DEF Calls, Additions, Moves
  <2>2. calls[1].items \in Partial /\ calls[1] = [op |-> "remove", items |-> calls[1].items]
    BY <2>1 DEF Removals
  <2>3. DOMAIN calls[1].items \subseteq owned
    BY <1>3, <1>4 DEF Fits, IInv, Settled
  <2>4. Within(calls[1].items, owned) = calls[1].items
    BY <2>2, <2>3, WithinAll
  <2> QED BY <1>1, <1>3, <1>4, <2>2, <2>4 DEF Checked
<1>5. CASE calls[1].op # "remove"
  BY <1>1, <1>3, <1>5 DEF Checked
<1> QED BY <1>4, <1>5

LEMMA HandleKeeps ==
  ASSUME IInv, NEW k \in 1 .. begun, Handle(k)
  PROVE  IInv'
<1>1. PICK c \in Calls : c = calls[k]
  BY HandleIsAfter
<1>2. PICK e \in Calls : e = Checked(c)
  BY CheckedType
<1>3. /\ board' = After(board, e) /\ untold' = Append(untold, Notice(e))
      /\ owned' = IF c.op = "remove" THEN owned \ DOMAIN e.items ELSE owned
      /\ calls' = RemoveAt(calls, k) /\ begun' = begun - 1
      /\ overtaken' = (overtaken \/ k # 1) /\ UNCHANGED holderVars
      /\ k \in 1 .. Len(calls)
  BY <1>1, <1>2, HandleIsAfter
<1>4. /\ calls \in Seq(Calls) /\ begun \in 0 .. Len(calls) /\ board \in BoardStates
      /\ owned \in SUBSET Items /\ untold \in Seq(Notices) /\ overtaken \in BOOLEAN
  BY DEF IInv, TypeOK
<1>5. /\ board' \in BoardStates /\ untold' \in Seq(Notices)
      /\ owned' \in SUBSET Items /\ overtaken' \in BOOLEAN
  <2>1. PICK m \in Notices : m = Notice(e)
    BY NoticeType
  <2>2. Append(untold, m) \in Seq(Notices)
    BY <1>4
  <2> QED BY <1>3, <1>4, <2>1, <2>2, AfterType
<1>6. calls' \in Seq(Calls) /\ begun' \in 0 .. Len(calls')
  BY <1>3, <1>4, RemoveAtFacts
<1>7. TypeOK'
  BY <1>3, <1>5, <1>6 DEF IInv, TypeOK, holderVars
<1>8. ASSUME ~overtaken' PROVE Agree' /\ Settled'
  <2>0. ~overtaken /\ ~(k # 1)
    BY <1>3, <1>8, Zenon
  <2>1. ~overtaken /\ k = 1 /\ begun > 0
    BY <1>4, <2>0
  <2>2. calls' = Tail(calls) /\ e = c /\ Head(calls) = c /\ calls # <<>> /\ Fits(board, c)
    BY <1>1, <1>2, <1>3, <1>4, <2>1, FirstFits, RemoveAtFacts
  <2>3. PICK d \in BoardStates : Reaches(board, calls, d) /\ Mirrors(d)
    BY <2>1 DEF IInv, Agree
  <2>4. Reaches(board', calls', d)
    BY <1>3, <1>4, <2>2, <2>3, ReachesTail
  <2>5. Agree'
    BY <1>3, <2>3, <2>4 DEF Agree, Mirrors, holderVars
  <2>6. \A j \in 1 .. begun' : calls'[j] = calls[j + 1] /\ calls[j + 1].op # "add"
    <3>1. ASSUME NEW j \in 1 .. begun' PROVE calls'[j] = calls[j + 1] /\ calls[j + 1].op # "add"
      <4>1. j \in 1 .. Len(calls) - 1 /\ j + 1 \in 2 .. begun
        BY <1>3, <1>4, <3>1
      <4>2. Tail(calls)[j] = calls[j + 1]
        BY <1>4, <2>2, <4>1
      <4> QED BY <2>1, <2>2, <4>1, <4>2 DEF IInv, Settled
    <3> QED BY <3>1
  <2>7. Taken' = {}
    BY <1>3, <1>4, <2>6 DEF Taken
  <2>8. owned' = DOMAIN board'.sits
    <3>1. owned = DOMAIN board.sits \cup (IF c.op = "add" THEN DOMAIN c.new ELSE {})
      BY <1>1, <2>1 DEF IInv, Settled, Taken
    <3>2. CASE c.op = "add"
      <4>1. board'.sits = Over(c.old, Over(c.new, board.sits))
        BY <1>3, <2>2, <3>2 DEF After
      <4>2. DOMAIN board'.sits = DOMAIN c.old \cup DOMAIN c.new \cup DOMAIN board.sits
        BY <4>1 DEF Over
      <4>3. DOMAIN c.old \subseteq DOMAIN board.sits
        BY <2>2, <3>2 DEF Fits
      <4> QED BY <1>3, <3>1, <3>2, <4>2, <4>3
    <3>3. CASE c.op = "move"
      <4>1. board'.sits = board.sits
        BY <1>3, <2>2, <3>3 DEF After
      <4> QED BY <1>3, <3>1, <3>3, <4>1
    <3>4. CASE c.op = "remove"
      <4>1. board'.sits = Without(board.sits, DOMAIN c.items)
        BY <1>3, <2>2, <3>4 DEF After
      <4>2. DOMAIN board'.sits = DOMAIN board.sits \ DOMAIN c.items
        BY <4>1 DEF Without
      <4> QED BY <1>3, <2>2, <3>1, <3>4, <4>2
    <3> QED BY <3>2, <3>3, <3>4 DEF Calls, Additions, Moves, Removals
  <2>9. \A j \in 2 .. begun' : calls'[j].op # "add"
    BY <2>6
  <2>10. Settled'
    BY <2>7, <2>8, <2>9 DEF Settled
  <2> QED BY <2>5, <2>10
<1> QED BY <1>7, <1>8 DEF IInv

LEMMA TellKeeps ==
  ASSUME IInv, NEW k \in DOMAIN untold, Tell(k)
  PROVE  IInv'
<1>1. /\ untold' = RemoveAt(untold, k)
      /\ UNCHANGED <<holderVars, calls, begun, owned, board, overtaken>>
  BY DEF Tell
<1>2. untold' \in Seq(Notices)
  BY <1>1, RemoveAtFacts DEF IInv, TypeOK
<1> QED BY <1>1, <1>2 DEF IInv, TypeOK, Agree, Mirrors, Settled, Taken, holderVars

\* What the board has when no call is under way.
LEMMA AtRest ==
  ASSUME IInv, ~overtaken, calls = <<>>
  PROVE  board \in BoardStates /\ Mirrors(board)
<1>1. PICK d \in BoardStates : Reaches(board, calls, d) /\ Mirrors(d)
  BY DEF IInv, Agree
<1>2. board \in BoardStates
  BY DEF IInv, TypeOK
<1> QED BY <1>1, <1>2, ReachesNone

LEMMA AddToNothing ==
  ASSUME NEW f \in Partial, NEW m, NEW n
  PROVE  AddFromTransforms(Nothing, m, f, n) = f
<1>1. f = [i \in DOMAIN f |-> f[i]]
  BY PartialDomain
<1> QED BY <1>1 DEF AddFromTransforms, PreMultiply, Nothing, Over

LEMMA ReloadKeeps ==
  ASSUME IInv, Reload
  PROVE  IInv'
<1>1. board \in BoardStates /\ overtaken \in BOOLEAN
  BY DEF IInv, TypeOK
<1>2. /\ item' = board.item /\ srt' = board.srt /\ sits' = board.sits
      /\ marked' = {} /\ sent' = TRUE /\ drag' = NoDrag
      /\ overtaken' = (overtaken \/ calls # <<>>)
      /\ UNCHANGED <<calls, begun, owned, board, untold>>
  BY <1>1, AddToNothing DEF Reload, BoardStates
<1>3. TypeOK'
  BY <1>1, <1>2, GroupAssumption DEF IInv, TypeOK, BoardStates, NoDrag
<1>4. ASSUME ~overtaken' PROVE Agree' /\ Settled'
  <2>1. calls = <<>> /\ ~overtaken
    BY <1>2, <1>4
  <2>2. Reaches(board, <<>>, board)
    BY <1>1, ReachesNone
  <2>3. Mirrors(board)'
    BY <1>2 DEF Mirrors
  <2>4. Agree'
    BY <1>1, <1>2, <2>1, <2>2, <2>3 DEF Agree
  <2>5. Settled'
    BY <1>2, <2>1 DEF IInv, Settled, Taken
  <2> QED BY <2>4, <2>5
<1> QED BY <1>3, <1>4 DEF IInv

LEMMA DragKeeps ==
  ASSUME IInv, (\E kind \in {"box", "handle"} : DragStart(kind)) \/ DragPoint \/ DragEnd
  PROVE  IInv'
<1>1. /\ UNCHANGED <<item, sits, marked, boardVars>>
      /\ \/ UNCHANGED <<srt, sent>>
         \/ DragPoint /\ sent' = FALSE
  BY DEF DragStart, DragPoint, DragEnd
<1>2. srt' \in Matrix
  <2>1. CASE DragPoint
    <3>1. PICK t \in Matrix, m \in Matrix : srt' = Mul(t, m)
      BY <2>1, GroupAssumption DEF DragPoint, UpdateSrt, IInv, TypeOK
    <3> QED BY <3>1, MulType
  <2> QED BY <2>1, <1>1 DEF IInv, TypeOK
<1>3. drag' \in [kind : {"none", "box", "handle"}, start : Matrix, shared : BOOLEAN]
  <2>1. CASE \E kind \in {"box", "handle"} : DragStart(kind)
    BY <2>1 DEF DragStart, IInv, TypeOK
  <2>2. CASE DragPoint
    BY <2>2 DEF DragPoint, IInv, TypeOK
  <2>3. CASE DragEnd
    BY <2>3, GroupAssumption DEF DragEnd, NoDrag
  <2> QED BY <2>1, <2>2, <2>3
<1>4. TypeOK'
  BY <1>1, <1>2, <1>3 DEF IInv, TypeOK, boardVars
<1>5. ASSUME ~overtaken PROVE Agree'
  <2>1. PICK d \in BoardStates : Reaches(board, calls, d) /\ Mirrors(d)
    BY <1>5 DEF IInv, Agree
  <2>2. Mirrors(d)'
    BY <1>1, <2>1 DEF Mirrors
  <2> QED BY <1>1, <2>1, <2>2 DEF Agree, boardVars
<1>6. ASSUME ~overtaken PROVE Settled'
  BY <1>1, <1>6 DEF IInv, Settled, Taken, boardVars
<1> QED BY <1>1, <1>4, <1>5, <1>6 DEF IInv, boardVars

LEMMA InitIInv ==
  ASSUME Init
  PROVE  IInv
<1>1. /\ item \in [Items -> Matrix] /\ srt = Identity /\ sits = Nothing /\ sent = TRUE
      /\ marked = {} /\ drag = NoDrag /\ calls = <<>> /\ begun = 0 /\ owned = {}
      /\ untold = <<>> /\ board = [item |-> item, srt |-> Identity, sits |-> Nothing]
  BY DEF Init
<1>2. overtaken \in BOOLEAN
  BY Zenon DEF Init
<1>3. board \in BoardStates
  BY <1>1, NothingPartial, GroupAssumption DEF BoardStates
<1>4. TypeOK
  BY <1>1, <1>2, <1>3, NothingPartial, GroupAssumption DEF TypeOK, NoDrag
<1>5. Agree
  <2>1. Reaches(board, <<>>, board)
    BY <1>3, ReachesNone
  <2>2. Mirrors(board)
    BY <1>1 DEF Mirrors
  <2> QED BY <1>1, <1>3, <2>1, <2>2 DEF Agree
<1>6. Settled
  <2>1. DOMAIN board.sits = {} /\ Taken = {}
    BY <1>1 DEF Nothing, Taken
  <2> QED BY <1>1, <2>1 DEF Settled
<1> QED BY <1>4, <1>5, <1>6 DEF IInv

LEMMA NextIInv ==
  ASSUME IInv, [Next]_vars
  PROVE  IInv'
<1>1. CASE FetchItems \/ AddClient \/ Hear \/ UNCHANGED vars
  <2>1. UNCHANGED <<holderVars, boardVars>>
    BY <1>1 DEF FetchItems, AddClient, Hear, vars
  <2> QED BY <2>1 DEF IInv, TypeOK, Agree, Mirrors, Settled, Taken, holderVars, boardVars
<1> QED BY <1>1, AddOwnSelectionKeeps, CancelSelectionKeeps, SendSrtUpdateKeeps, BeginKeeps,
           HandleKeeps, TellKeeps, ReloadKeeps, DragKeeps DEF Next

-----------------------------------------------------------------------------
(* The watcher                                                             *)

LEMMA HeardType ==
  ASSUME NEW w \in WatcherStates, NEW n \in Notices
  PROVE  Heard(w, n) \in WatcherStates
<1>1. /\ w.stage \in {"none", "items", "live"} /\ w.item \in [Items -> Matrix] /\ w.srt \in Matrix
      /\ w.sits \in Partial /\ w.held \in SUBSET Items /\ w.lag \in 0 .. 2
  BY DEF WatcherStates
<1>2. CASE n.op = "add"
  <2>1. n.srt \in Matrix /\ n.items \in SUBSET Items
    BY <1>2 DEF Notices, Moves, Removals
  <2>2. [i \in n.items |-> Inv(n.srt)] \in Partial
    <3>1. [i \in n.items |-> Inv(n.srt)] \in [n.items -> Matrix]
      BY <2>1, InvType
    <3> QED BY <2>1, <3>1, PartialType
  <2>3. AddFromTransforms(w.sits, w.srt, [i \in n.items |-> Inv(n.srt)], n.srt) \in Partial
    BY <1>1, <2>1, <2>2, AddFromTransformsPartial
  <2> QED BY <1>1, <1>2, <2>1, <2>3 DEF Heard, WatcherStates
<1>3. CASE n.op = "move"
  <2>1. n.srt \in Matrix
    BY <1>3 DEF Notices, Moves, Removals
  <2> QED BY <1>1, <1>3, <2>1 DEF Heard, WatcherStates
<1>4. CASE n.op # "add" /\ n.op # "move"
  <2>1. n.items \in Partial
    BY <1>4 DEF Notices, Moves, Removals
  <2>2. Over(n.items, w.item) \in [Items -> Matrix]
    BY <1>1, <2>1, OverTotal
  <2> QED BY <1>1, <1>4, <2>2 DEF Heard, WatcherStates
<1> QED BY <1>2, <1>3, <1>4

\* The watcher takes an addition in as the board does, if it has the old srt.
LEMMA AdditionSeen ==
  ASSUME NEW b \in BoardStates, NEW c \in Additions, Fits(b, c),
         NEW z \in WatcherStates, Sees(z, b)
  PROVE  Sees(Heard(z, Notice(c)), After(b, c))
<1>1. /\ c.op = "add" /\ c.srt \in Matrix /\ c.new \in Partial /\ c.old \in Partial
      /\ c.steady \in BOOLEAN
  BY DEF Additions
<1>2. /\ b.sits \in Partial /\ z.sits \in Partial /\ z.lag \in 0 .. 2
  BY DEF BoardStates, WatcherStates
<1>3. PICK S : S = DOMAIN c.new
  OBVIOUS
<1>4. PICK new \in Partial : new = c.new /\ DOMAIN new = S /\ new = [i \in S |-> Inv(c.srt)]
  BY <1>1, <1>3 DEF Fits
<1>5. PICK h : h = Heard(z, Notice(c))
  OBVIOUS
<1>6. PICK a : a = After(b, c)
  OBVIOUS
<1>7. /\ h.item = z.item /\ h.srt = z.srt /\ h.held = z.held \cup S
      /\ h.sits = Over(new, PreMultiply(z.sits, Mul(Inv(c.srt), z.srt)))
      /\ h.lag = IF z.held = {} \/ (z.lag = 0 /\ c.steady) THEN 1 ELSE 2
  BY <1>1, <1>3, <1>4, <1>5 DEF Heard, Notice, AddFromTransforms
<1>8. a.item = b.item /\ a.sits = Over(c.old, Over(new, b.sits))
  BY <1>1, <1>4, <1>6 DEF After
<1>9. DOMAIN c.old = DOMAIN b.sits \ S
  BY <1>1, <1>3 DEF Fits
<1>10. DOMAIN a.sits = DOMAIN b.sits \cup S
  BY <1>4, <1>8, <1>9 DEF Over
<1>11. h.held = DOMAIN a.sits /\ h.held \subseteq DOMAIN h.sits
  BY <1>4, <1>7, <1>10 DEF Sees, Over, PreMultiply
<1>12. ASSUME h.lag < 2, NEW i \in h.held PROVE h.sits[i] = a.sits[i]
  <2>1. z.held = {} \/ (z.lag = 0 /\ c.steady)
    BY <1>7, <1>12
  <2>2. CASE i \in S
    <3>1. h.sits[i] = new[i]
      BY <2>2, <1>4, <1>7 DEF Over
    <3>2. i \notin DOMAIN c.old
      BY <2>2, <1>9
    <3>3. a.sits[i] = new[i]
      BY <2>2, <3>2, <1>4, <1>8 DEF Over
    <3> QED BY <3>1, <3>3
  <2>3. CASE i \notin S
    <3>1. i \in z.held /\ i \in DOMAIN z.sits /\ i \in DOMAIN b.sits /\ i \in DOMAIN c.old
      BY <2>3, <1>7, <1>9 DEF Sees
    <3>2. z.lag = 0 /\ c.steady /\ z.srt = b.srt /\ z.sits[i] = b.sits[i]
      BY <2>1, <3>1 DEF Sees
    <3>3. h.sits[i] = Mul(Mul(Inv(c.srt), z.srt), z.sits[i])
      BY <2>3, <3>1, <1>4, <1>7 DEF Over, PreMultiply
    <3>4. a.sits[i] = c.old[i]
      BY <3>1, <1>8 DEF Over
    <3>5. c.old[i] = Mul(Mul(Inv(c.srt), b.srt), b.sits[i])
      BY <3>1, <3>2, <1>1 DEF Fits
    <3> QED BY <3>2, <3>3, <3>4, <3>5
  <2> QED BY <2>2, <2>3
<1>13. h.item = a.item
  BY <1>7, <1>8 DEF Sees
<1>14. h.lag # 0
  BY <1>7
<1>15. Sees(h, a)
  BY <1>11, <1>12, <1>13, <1>14 DEF Sees
<1> QED BY <1>5, <1>6, <1>15

LEMMA CallSeen ==
  ASSUME NEW b \in BoardStates, NEW c \in Calls, Fits(b, c), NEW z \in WatcherStates, Sees(z, b)
  PROVE  Sees(Heard(z, Notice(c)), After(b, c))
<1>1. CASE c \in Additions
  BY <1>1, AdditionSeen
<1>2. CASE c \in Moves
  <2>1. PICK h : h = Heard(z, c)
    OBVIOUS
  <2>2. PICK a : a = After(b, c)
    OBVIOUS
  <2>3. c.op = "move" /\ Notice(c) = c
    BY <1>2 DEF Moves, Notice
  <2>4. /\ h.item = z.item /\ h.srt = c.srt /\ h.sits = z.sits /\ h.held = z.held
        /\ h.lag = IF z.lag = 1 THEN 0 ELSE z.lag
        /\ a.item = b.item /\ a.srt = c.srt /\ a.sits = b.sits
    BY <2>1, <2>2, <2>3 DEF Heard, After
  <2>5. z.lag \in 0 .. 2
    BY DEF WatcherStates
  <2>6. Sees(h, a)
    BY <2>4, <2>5 DEF Sees
  <2> QED BY <2>1, <2>2, <2>3, <2>6
<1>3. CASE c \in Removals
  <2>1. PICK h : h = Heard(z, c)
    OBVIOUS
  <2>2. PICK a : a = After(b, c)
    OBVIOUS
  <2>3. c.op = "remove" /\ Notice(c) = c
    BY <1>3 DEF Removals, Notice
  <2>4. /\ h.item = Over(c.items, z.item) /\ h.srt = z.srt /\ h.sits = z.sits
        /\ h.held = z.held \ DOMAIN c.items
        /\ h.lag = IF h.held = {} THEN 0 ELSE z.lag
        /\ a.item = Over(c.items, b.item) /\ a.srt = b.srt
        /\ a.sits = Without(b.sits, DOMAIN c.items)
    BY <2>1, <2>2, <2>3 DEF Heard, After
  <2>5. /\ DOMAIN a.sits = DOMAIN b.sits \ DOMAIN c.items
        /\ \A i \in DOMAIN a.sits : a.sits[i] = b.sits[i]
    BY <2>4 DEF Without
  <2>6. Sees(h, a)
    BY <2>4, <2>5 DEF Sees
  <2> QED BY <2>1, <2>2, <2>3, <2>6
<1> QED BY <1>1, <1>2, <1>3 DEF Calls

LEMMA HandleWatched ==
  ASSUME IInv, WatchInv, NEW k \in 1 .. begun, Handle(k)
  PROVE  WatchInv'
<1>1. PICK c \in Calls : c = calls[k]
  BY HandleIsAfter
<1>2. PICK e \in Calls : e = Checked(c)
  BY CheckedType
<1>3. /\ board' = After(board, e) /\ untold' = Append(untold, Notice(e))
      /\ overtaken' = (overtaken \/ k # 1) /\ UNCHANGED <<wire, watcher>>
      /\ misled' = IF c.op = "remove" THEN (misled \/ watcher.stage = "items") ELSE misled
  BY <1>1, <1>2, HandleIsAfter
<1>4. wire \in Seq(Notices) /\ untold \in Seq(Notices) /\ board \in BoardStates
  BY DEF IInv, TypeOK, WatchInv
<1>5. misled' \in BOOLEAN
  BY <1>3 DEF WatchInv
<1>6. ASSUME watcher.stage = "items", ~misled' PROVE watcher.item = board'.item
  <2>1. c.op # "remove" /\ ~misled /\ e = c
    BY <1>2, <1>3, <1>6 DEF Checked
  <2> QED BY <1>3, <1>6, <2>1 DEF WatchInv, After, Calls, Additions, Moves, Removals
<1>7. ASSUME watcher.stage = "live", ~overtaken', ~misled'
      PROVE  \E z \in WatcherStates : Hears(watcher, wire \o untold', z) /\ Sees(z, board')
  <2>0. ~overtaken /\ ~(k # 1)
    BY <1>3, <1>7, Zenon
  <2>1. ~overtaken /\ k = 1 /\ ~misled /\ begun > 0
    <3>1. ~misled
      BY <1>3, <1>7, Zenon
    <3> QED BY <2>0, <3>1 DEF IInv, TypeOK
  <2>2. e = c /\ Fits(board, c)
    BY <1>1, <1>2, <2>1, FirstFits
  <2>3. PICK z \in WatcherStates : Hears(watcher, wire \o untold, z) /\ Sees(z, board)
    BY <1>7, <2>1 DEF WatchInv
  <2>4. PICK n \in Notices : n = Notice(c)
    BY NoticeType
  <2>5. PICK y \in WatcherStates : y = Heard(z, n)
    BY HeardType
  <2>6. <<z, n, y>> \in Hearing
    BY <2>5 DEF Hearing
  <2>7. wire \o untold \in Seq(Notices)
        /\ wire \o Append(untold, n) = Append(wire \o untold, n)
    BY <1>4, AppendIsConcat, ConcatAssociative
  <2>8. Hears(watcher, Append(wire \o untold, n), y)
    BY <2>3, <2>6, <2>7, LeadsAppend DEF Hears, WatchInv
  <2>9. Sees(y, board')
    BY <1>3, <1>4, <2>2, <2>3, <2>4, <2>5, CallSeen
  <2> QED BY <1>3, <2>2, <2>4, <2>7, <2>8, <2>9
<1> QED BY <1>3, <1>4, <1>5, <1>6, <1>7 DEF WatchInv

LEMMA TellWatched ==
  ASSUME IInv, WatchInv, NEW k \in DOMAIN untold, Tell(k)
  PROVE  WatchInv'
<1>1. /\ untold' = RemoveAt(untold, k) /\ misled' = (misled \/ k # 1)
      /\ wire' = IF watcher.stage = "live" THEN Append(wire, untold[k]) ELSE wire
      /\ UNCHANGED <<board, overtaken, watcher>>
  BY DEF Tell
<1>2. wire \in Seq(Notices) /\ untold \in Seq(Notices) /\ k \in 1 .. Len(untold)
  BY DEF IInv, TypeOK, WatchInv
<1>3. wire' \in Seq(Notices) /\ misled' \in BOOLEAN
  BY <1>1, <1>2 DEF WatchInv
<1>4. ASSUME watcher.stage = "live", ~overtaken', ~misled'
      PROVE  \E z \in WatcherStates : Hears(watcher, wire' \o untold', z) /\ Sees(z, board)
  <2>1. ~misled /\ k = 1 /\ ~overtaken
    BY <1>1, <1>4 DEF WatchInv
  <2>2. untold' = Tail(untold) /\ wire' = Append(wire, untold[1])
    BY <1>1, <1>2, <1>4, <2>1, RemoveAtFacts
  <2>3. wire' \o untold' = wire \o untold
    <3>1. Append(wire, untold[1]) = wire \o <<untold[1]>> /\ untold = <<untold[1]>> \o Tail(untold)
      BY <1>2
    <3>2. (wire \o <<untold[1]>>) \o Tail(untold) = wire \o (<<untold[1]>> \o Tail(untold))
      <4>1. <<untold[1]>> \in Seq(Notices) /\ Tail(untold) \in Seq(Notices)
        BY <1>2, <2>1
      <4> QED BY <1>2, <4>1, ConcatAssociative
    <3> QED BY <2>2, <3>1, <3>2
  <2> QED BY <1>1, <1>4, <2>1, <2>3 DEF WatchInv
<1>5. ASSUME watcher.stage = "items", ~misled' PROVE watcher.item = board.item
  BY <1>1, <1>5 DEF WatchInv
<1> QED BY <1>1, <1>3, <1>4, <1>5 DEF WatchInv

LEMMA FetchItemsWatched ==
  ASSUME IInv, WatchInv, FetchItems
  PROVE  WatchInv'
<1>1. /\ watcher.stage = "none" /\ UNCHANGED <<board, wire, misled>>
      /\ watcher' = [watcher EXCEPT !.stage = "items", !.item = board.item]
  BY DEF FetchItems, boardVars
<1>2. watcher' \in WatcherStates
  BY <1>1 DEF WatchInv, WatcherStates, IInv, TypeOK, BoardStates
<1>3. watcher'.stage = "items" /\ watcher'.item = board.item /\ watcher'.lag = watcher.lag
  BY <1>1 DEF WatchInv, WatcherStates
<1> QED BY <1>1, <1>2, <1>3 DEF WatchInv

LEMMA AddClientWatched ==
  ASSUME IInv, WatchInv, AddClient
  PROVE  WatchInv'
<1>1. /\ watcher.stage = "items" /\ UNCHANGED <<board, wire, untold, overtaken>>
      /\ misled' = (misled \/ untold # <<>>)
      /\ watcher' = [watcher EXCEPT !.stage = "live", !.srt = board.srt,
                                     !.sits = board.sits, !.held = DOMAIN board.sits]
  BY DEF AddClient, boardVars
<1>2. board \in BoardStates /\ board.sits \in Partial /\ DOMAIN board.sits \in SUBSET Items
  BY PartialDomain DEF IInv, TypeOK, BoardStates
<1>3. watcher' \in WatcherStates
  BY <1>1, <1>2 DEF WatchInv, WatcherStates, BoardStates
<1>4. /\ watcher'.stage = "live" /\ watcher'.item = watcher.item /\ watcher'.srt = board.srt
      /\ watcher'.sits = board.sits /\ watcher'.held = DOMAIN board.sits
  BY <1>1 DEF WatchInv, WatcherStates
<1>5. wire' = <<>> /\ misled' \in BOOLEAN /\ wire' \in Seq(Notices)
  BY <1>1 DEF WatchInv
<1>6. ASSUME ~misled'
      PROVE  \E z \in WatcherStates : Hears(watcher', wire' \o untold', z) /\ Sees(z, board')
  <2>1. untold = <<>> /\ watcher.item = board.item
    BY <1>1, <1>6 DEF WatchInv
  <2>2. wire' \o untold' = <<>>
    BY <1>1, <1>5, <2>1
  <2>3. PICK z \in WatcherStates : z = watcher'
    BY <1>3
  <2>4. Hears(watcher', wire' \o untold', z)
    BY <2>2, <2>3, LeadsNone DEF Hears
  <2>5. Sees(z, board')
    BY <1>1, <1>4, <2>1, <2>3 DEF Sees
  <2> QED BY <2>4, <2>5
<1> QED BY <1>3, <1>4, <1>5, <1>6 DEF WatchInv

LEMMA HearIsHeard ==
  ASSUME WatchInv, Hear
  PROVE  /\ watcher' = Heard(watcher, Head(wire)) /\ wire # <<>> /\ wire' = Tail(wire)
         /\ Head(wire) \in Notices /\ wire' \in Seq(Notices)
         /\ UNCHANGED <<board, untold, overtaken, misled>>
<1>1. /\ wire # <<>> /\ wire' = Tail(wire) /\ wire \in Seq(Notices)
      /\ UNCHANGED <<board, untold, overtaken, misled>>
  BY DEF Hear, WatchInv, boardVars
<1>2. PICK n \in Notices : n = Head(wire)
  BY <1>1
<1>3. \/ n.op = "add" /\ AddItems(n)
      \/ n.op = "move" /\ MoveItems(n)
      \/ n.op = "remove" /\ RemoveItems(n)
  BY <1>2 DEF Hear
<1>4. PICK stage, old, root, those, held, lag :
        watcher = [stage |-> stage, item |-> old, srt |-> root, sits |-> those,
                   held |-> held, lag |-> lag]
  BY DEF WatchInv, WatcherStates
<1>5. ASSUME n.op = "add", AddItems(n) PROVE watcher' = Heard(watcher, n)
  <2>1. PICK f : f = AddFromTransforms(those, root, [i \in n.items |-> Inv(n.srt)], n.srt)
    OBVIOUS
  <2>2. PICK k : k = IF held = {} \/ (lag = 0 /\ n.steady) THEN 1 ELSE 2
    OBVIOUS
  <2>3. Lag(n) = k
    BY <1>4, <2>2 DEF Lag
  <2>4. watcher' = [watcher EXCEPT !.sits = f, !.held = held \cup n.items, !.lag = k]
    BY <1>4, <1>5, <2>1, <2>3 DEF AddItems
  <2>5. watcher' = [stage |-> stage, item |-> old, srt |-> root, sits |-> f,
                    held |-> held \cup n.items, lag |-> k]
    BY <1>4, <2>4
  <2>6. Heard(watcher, n) = [stage |-> stage, item |-> old, srt |-> root, sits |-> f,
                             held |-> held \cup n.items, lag |-> k]
    BY <1>4, <1>5, <2>1, <2>2 DEF Heard
  <2> QED BY <2>5, <2>6
<1>6. ASSUME n.op = "move", MoveItems(n) PROVE watcher' = Heard(watcher, n)
  <2>1. watcher' = [stage |-> stage, item |-> old, srt |-> n.srt, sits |-> those,
                    held |-> held, lag |-> IF lag = 1 THEN 0 ELSE lag]
    BY <1>4, <1>6 DEF MoveItems
  <2>2. Heard(watcher, n) = [stage |-> stage, item |-> old, srt |-> n.srt, sits |-> those,
                    held |-> held, lag |-> IF lag = 1 THEN 0 ELSE lag]
    BY <1>4, <1>6 DEF Heard
  <2> QED BY <2>1, <2>2
<1>7. ASSUME n.op = "remove", RemoveItems(n) PROVE watcher' = Heard(watcher, n)
  <2>1. PICK rest : rest = held \ DOMAIN n.items
    OBVIOUS
  <2>2. PICK k : k = IF rest = {} THEN 0 ELSE lag
    OBVIOUS
  <2>3. watcher' = [watcher EXCEPT !.item = Over(n.items, old), !.held = rest, !.lag = k]
    BY <1>4, <1>7, <2>1, <2>2 DEF RemoveItems, ApplyLocationUpdates
  <2>4. watcher' = [stage |-> stage, item |-> Over(n.items, old), srt |-> root, sits |-> those,
                    held |-> rest, lag |-> k]
    BY <1>4, <2>3
  <2>5. Heard(watcher, n) = [stage |-> stage, item |-> Over(n.items, old), srt |-> root,
                             sits |-> those, held |-> rest, lag |-> k]
    BY <1>4, <1>7, <2>1, <2>2 DEF Heard
  <2> QED BY <2>4, <2>5
<1>8. watcher' = Heard(watcher, n)
  BY <1>3, <1>5, <1>6, <1>7
<1> QED BY <1>1, <1>2, <1>8

LEMMA HearWatched ==
  ASSUME IInv, WatchInv, Hear
  PROVE  WatchInv'
<1>1. PICK n \in Notices : n = Head(wire) /\ watcher' = Heard(watcher, n)
  BY HearIsHeard
<1>2. watcher' \in WatcherStates /\ watcher'.stage = watcher.stage /\ watcher.stage = "live"
  <2>1. Heard(watcher, n).stage = watcher.stage
    BY DEF Heard
  <2> QED BY <1>1, <2>1, HeardType, HearIsHeard DEF WatchInv
<1>3. /\ wire # <<>> /\ wire' = Tail(wire) /\ wire' \in Seq(Notices)
      /\ UNCHANGED <<board, untold, overtaken, misled>>
  BY HearIsHeard
<1>4. wire \in Seq(Notices) /\ untold \in Seq(Notices)
  BY DEF WatchInv, IInv, TypeOK
<1>5. ASSUME ~overtaken, ~misled
      PROVE  \E z \in WatcherStates : Hears(watcher', wire' \o untold, z) /\ Sees(z, board)
  <2>1. PICK z \in WatcherStates : Hears(watcher, wire \o untold, z) /\ Sees(z, board)
    BY <1>2, <1>5 DEF WatchInv
  <2>2. /\ wire \o untold \in Seq(Notices) /\ wire \o untold # <<>>
        /\ Head(wire \o untold) = n /\ Tail(wire \o untold) = wire' \o untold
    <3>1. wire = <<n>> \o Tail(wire)
      BY <1>1, <1>3, <1>4
    <3>2. wire \o untold = <<n>> \o (Tail(wire) \o untold)
      BY <1>3, <1>4, <3>1, ConcatAssociative
    <3>3. Tail(wire) \o untold \in Seq(Notices)
      BY <1>3, <1>4
    <3> QED BY <1>3, <1>4, <3>2, <3>3
  <2>3. PICK y \in WatcherStates :
          <<watcher, n, y>> \in Hearing /\ Leads(Hearing, WatcherStates, y, wire' \o untold, z)
    BY <2>1, <2>2, LeadsTail DEF Hears, WatchInv
  <2>4. y = watcher'
    BY <1>1, <2>3 DEF Hearing
  <2> QED BY <2>1, <2>3, <2>4 DEF Hears
<1> QED BY <1>2, <1>3, <1>5 DEF WatchInv

LEMMA InitWatched ==
  ASSUME Init
  PROVE  WatchInv
<1>1. /\ wire = <<>> /\ misled = FALSE /\ item \in [Items -> Matrix] /\ Identity \in Matrix
      /\ watcher = [stage |-> "none", item |-> item, srt |-> Identity,
                    sits |-> Nothing, held |-> {}, lag |-> 0]
  BY GroupAssumption DEF Init
<1>2. watcher \in WatcherStates
  BY <1>1, NothingPartial DEF WatcherStates
<1>3. watcher.stage = "none" /\ watcher.lag = 0
  BY <1>1
<1>4. misled \in BOOLEAN
  BY <1>1, Zenon
<1>5. wire \in Seq(Notices)
  BY <1>1
<1> QED BY <1>1, <1>2, <1>3, <1>4, <1>5 DEF WatchInv

LEMMA NextWatched ==
  ASSUME IInv, WatchInv, [Next]_vars
  PROVE  WatchInv'
<1>1. CASE UNCHANGED <<board, untold, watchVars>>
  <2>1. overtaken => overtaken'
    <3>1. UNCHANGED overtaken \/ overtaken' = (overtaken \/ begun > 0)
          \/ overtaken' = (overtaken \/ calls # <<>>)
          \/ \E k \in 1 .. begun : overtaken' = (overtaken \/ k # 1)
      BY DEF Next, vars, boardVars, AddOwnSelection, DragStart, DragPoint, DragEnd, Send,
             SendSrtUpdate, CancelSelection, Reload, Begin, Handle, Tell, FetchItems, AddClient, Hear
    <3> QED BY <3>1, Zenon
  <2> QED BY <1>1, <2>1 DEF WatchInv, Hears, Sees, watchVars
<1>2. CASE ~UNCHANGED <<board, untold, watchVars>>
  <2>1. \/ \E k \in 1 .. begun : Handle(k)
        \/ \E k \in DOMAIN untold : Tell(k)
        \/ FetchItems \/ AddClient \/ Hear
    BY <1>2 DEF Next, vars, boardVars, AddOwnSelection, DragStart, DragPoint, DragEnd,
                SendSrtUpdate, CancelSelection, Reload, Send, Begin
  <2> QED BY <2>1, HandleWatched, TellWatched, FetchItemsWatched, AddClientWatched, HearWatched
<1> QED BY <1>1, <1>2

-----------------------------------------------------------------------------
(* Theorems                                                                *)

(* Transforms, selections and calls are well typed, and the calls under    *)
(* way lead the board to what the holder has (Selection.ts, method_impls), *)
(* however many workers handle them, as long as none overtakes another.    *)
THEOREM TransformsTyped == Spec => []IInv
<1> QED BY InitIInv, NextIInv, PTL DEF Spec

(* Once the board has handled what it was sent, every item is there where  *)
(* its holder sees it, for every group and any number of items, calls and  *)
(* workers, unless a worker overtook another.                              *)
THEOREM BoardFollows == Spec => []BoardAgrees
<1>1. ASSUME IInv PROVE BoardAgrees
  <2> SUFFICES ASSUME sent, calls = <<>>, ~overtaken, NEW i \in Items PROVE OnBoard(i) = Shown(i)
    BY DEF BoardAgrees
  <2>1. board.item = item /\ board.sits = sits /\ board.srt = srt
    BY <1>1, AtRest DEF Mirrors
  <2> QED BY <2>1 DEF OnBoard, Shown
<1> QED BY <1>1, TransformsTyped, PTL

(* A client that watches sees items where the board has them, for every    *)
(* group and any number of workers, if none overtook another, it was not   *)
(* misled, and every addition was steady and followed by a move.           *)
THEOREM WatcherFollows == Spec => []WatcherAgrees
<1>1. ASSUME WatchInv PROVE WatcherAgrees
  <2> SUFFICES ASSUME watcher.stage = "live", wire = <<>>, untold = <<>>,
                      ~overtaken, ~misled, watcher.lag = 0, NEW i \in Items
               PROVE  Watched(i) = OnBoard(i)
    BY DEF WatcherAgrees
  <2>1. PICK z \in WatcherStates : Hears(watcher, <<>>, z) /\ Sees(z, board)
    <3>1. wire \o untold = <<>>
      OBVIOUS
    <3> QED BY <1>1, <3>1 DEF WatchInv
  <2>2. z = watcher
    BY <1>1, <2>1, LeadsNone DEF Hears, WatchInv
  <2> QED BY <2>1, <2>2 DEF Sees, Watched, OnBoard
<1> QED BY <1>1, InitWatched, NextWatched, InitIInv, NextIInv, PTL DEF Spec

\* An addition moves only what is added a second time.
LEMMA AdditionsStay ==
  ASSUME IInv, NEW S \in SUBSET Items, AddOwnSelection(S), NEW i \in Items,
         i \notin DOMAIN sits \ marked
  PROVE  Shown(i)' = Shown(i)
<1>1. PICK newSrt \in NewRoots(S) :
        /\ sits' = AddFromTransforms(sits, srt, [j \in S |-> Inv(newSrt)], newSrt)
        /\ srt' = newSrt
  BY DEF AddOwnSelection
<1>2. newSrt \in Matrix /\ item' = item /\ S \cap marked = {}
  BY NewRootsType DEF AddOwnSelection
<1>3. srt \in Matrix /\ item[i] \in Matrix /\ sits \in Partial
  BY DEF IInv, TypeOK
<1>4. DOMAIN sits' = S \cup DOMAIN sits
  BY <1>1 DEF AddFromTransforms, Over, PreMultiply
<1>5. CASE i \in S
  <2>1. i \notin DOMAIN sits /\ sits'[i] = Inv(newSrt)
    BY <1>1, <1>2, <1>5 DEF AddFromTransforms, Over, PreMultiply
  <2>2. Mul(newSrt, Inv(newSrt)) = Identity /\ Mul(Identity, item[i]) = item[i]
    BY <1>2, <1>3, GroupAssumption
  <2> QED BY <2>1, <2>2, <1>1, <1>2, <1>4, <1>5 DEF Shown
<1>6. CASE i \notin S /\ i \in DOMAIN sits
  <2>1. sits'[i] = Mul(Mul(Inv(newSrt), srt), sits[i])
    BY <1>1, <1>6 DEF AddFromTransforms, Over, PreMultiply
  <2>2. Mul(newSrt, sits'[i]) = Mul(srt, sits[i])
    BY <2>1, <1>2, <1>3, <1>6, PartialDomain, Reroot
  <2> QED BY <2>2, <1>1, <1>2, <1>4, <1>6 DEF Shown
<1>7. CASE i \notin S /\ i \notin DOMAIN sits
  BY <1>2, <1>4, <1>7 DEF Shown
<1> QED BY <1>5, <1>6, <1>7

LEMMA CancelStays ==
  ASSUME IInv, CancelSelection, NEW i \in Items
  PROVE  Shown(i)' = Shown(i)
<1>1. item' = Over(FinalTransforms, item) /\ sits' = Nothing
  BY DEF CancelSelection, ApplyLocationUpdates
<1>2. i \notin DOMAIN sits' /\ Shown(i)' = item'[i]
  BY <1>1 DEF Nothing, Shown
<1>3. item'[i] = IF i \in DOMAIN sits THEN FinalTransforms[i] ELSE item[i]
  BY <1>1 DEF Over, FinalTransforms, IInv, TypeOK
<1> QED BY <1>2, <1>3 DEF Shown, FinalTransforms, LocationUpdate

LEMMA ReloadStays ==
  ASSUME IInv, Reload, sent, ~overtaken', NEW i \in Items
  PROVE  Shown(i)' = Shown(i)
<1>1. calls = <<>> /\ ~overtaken
  BY DEF Reload, IInv, TypeOK
<1>2. board \in BoardStates /\ board.item = item /\ board.sits = sits /\ board.srt = srt
  BY <1>1, AtRest DEF Mirrors
<1>3. item' = item /\ srt' = srt /\ sits' = sits
  BY <1>2, AddToNothing DEF Reload, BoardStates
<1> QED BY <1>3 DEF Shown

(* Selecting and deselecting never move an item, for every group and any   *)
(* number of items, drags, additions and reloads: only a drag does, or a   *)
(* reload that loses a move nobody sent or comes before its calls, or a    *)
(* second selection.                                                       *)
THEOREM SelectingMovesNothing == Spec => ItemsStay
<1>1. ASSUME IInv, [Next]_vars
      PROVE  [\A i \in Items :
                Shown(i)' # Shown(i) => \/ DragPoint
                                        \/ Reload /\ (~sent \/ overtaken')
                                        \/ i \in DOMAIN sits \ marked]_vars
  <2> SUFFICES ASSUME NEW i \in Items, ~DragPoint, ~(Reload /\ (~sent \/ overtaken')),
                      i \notin DOMAIN sits \ marked
               PROVE  Shown(i)' = Shown(i)
    BY <1>1
  <2>1. CASE UNCHANGED <<item, srt, sits>>
    BY <2>1 DEF Shown
  <2>2. CASE ~UNCHANGED <<item, srt, sits>>
    <3>1. (\E S \in SUBSET Items : AddOwnSelection(S)) \/ CancelSelection \/ Reload
      BY <1>1, <2>2 DEF Next, vars, holderVars, DragStart, DragEnd, SendSrtUpdate, Begin,
                        Handle, Tell, FetchItems, AddClient, Hear
    <3> QED BY <1>1, <3>1, AdditionsStay, CancelStays, ReloadStays
  <2> QED BY <2>1, <2>2
<1> QED BY <1>1, TransformsTyped, PTL DEF Spec, ItemsStay
=============================================================================
