---------------------------- MODULE SceneProofs ----------------------------
(***************************************************************************)
(* What TLAPS proves of Scene, for any graph of states and watchers that   *)
(* is built before it is watched.                                          *)
(***************************************************************************)
EXTENDS Scene, FiniteSetTheorems, WellFoundedInduction, TLAPS

-----------------------------------------------------------------------------
(* Induction on the links, from the well-foundedness of finite sets.       *)

\* A set of indices has a least one.
LEMMA LeastIndex ==
  ASSUME NEW N \in Nat, NEW T, T \subseteq 1..N, T # {}
  PROVE  \E x \in T : \A y \in T : x <= y
<1> DEFINE U == {1..k : k \in T}
<1>1. U \subseteq SUBSET (1..N) /\ U # {}
  <2>1. \A k \in T : 1..k \in SUBSET (1..N)
    OBVIOUS
  <2>2. \A X \in U : X \in SUBSET (1..N)
    BY <2>1
  <2>3. PICK k \in T : TRUE
    OBVIOUS
  <2>4. 1..k \in U
    OBVIOUS
  <2> HIDE DEF U
  <2> QED
    BY <2>2, <2>4
<1>2. IsFiniteSet(1..N)
  BY FS_Interval
<1>3. IsWellFoundedOn(StrictSubsetOrdering(1..N), SUBSET (1..N))
  BY <1>2, FS_StrictSubsetOrderingWellFounded, FS_FiniteSubsetsOfFinite, Zenon
<1> HIDE DEF U
<1>4. PICK X \in U : \A Y \in U : ~(<<Y, X>> \in StrictSubsetOrdering(1..N))
  BY <1>1, <1>3, WFMin, Zenon
<1>5. PICK x \in T : X = 1..x
  BY DEF U
<1>6. ASSUME NEW y \in T, y < x PROVE FALSE
  <2>1. 1..y \in U
    BY DEF U
  <2>2. 1..y \subseteq 1..x /\ 1..y # 1..x
    BY <1>6
  <2> QED
    BY <1>1, <1>4, <1>5, <2>1, <2>2 DEF StrictSubsetOrdering
<1> QED
  BY <1>6

\* What holds of 0 and is handed on holds of every index.
LEMMA UpTo ==
  ASSUME NEW N \in Nat, NEW S, 0 \in S, \A k \in 0..N : k < N /\ k \in S => k + 1 \in S
  PROVE  0..N \subseteq S
<1> DEFINE T == {k \in 1..N : k \notin S}
<1>1. CASE T = {}
  BY <1>1
<1>2. CASE T # {}
  <2>1. T \subseteq 1..N
    OBVIOUS
  <2> HIDE DEF T
  <2>2. PICK x \in T : \A y \in T : x <= y
    BY <1>2, <2>1, LeastIndex
  <2>3. x \in 1..N /\ x \notin S
    BY DEF T
  <2>4. x - 1 \in 0..N /\ x - 1 < N /\ (x - 1) + 1 = x
    BY <2>3
  <2>5. x - 1 \in S
    <3>1. CASE x - 1 = 0
      BY <3>1
    <3>2. CASE x - 1 # 0
      <4>1. x - 1 \in 1..N /\ ~(x <= x - 1)
        BY <2>3, <3>2
      <4> QED
        BY <2>2, <4>1 DEF T
    <3> QED
      BY <3>1, <3>2
  <2> QED
    BY <2>3, <2>4, <2>5
<1> QED
  BY <1>1, <1>2

-----------------------------------------------------------------------------
(* The graph.                                                              *)

N == Len(Links)
All == Roots \cup Watchers

\* What the assumption says of each link.
LEMMA LinkFacts ==
  /\ N \in Nat /\ DOMAIN Links = 1..N
  /\ \A k \in 1..N : Links[k].from \in All /\ Links[k].to \in Watchers /\ Links[k].strong \in BOOLEAN
  /\ \A n \in Watchers : \E k \in 1..N : Links[k].to = n
  /\ \A n, s : s \in SourcesOf(n) <=> \E k \in 1..N : Links[k].to = n /\ Links[k].from = s
  /\ \A n : IsStrong(n) <=> \E k \in 1..N : Links[k].to = n /\ Links[k].strong
  /\ \A i, j \in 1..N : Links[i].to = Links[j].from => i < j
  /\ \A i, j \in 1..N : Links[i].strong /\ Links[i].to = Links[j].to => i = j
  /\ \A i, j \in 1..N : Links[i].strong => Links[i].to # Links[j].from
  /\ \A n : n \in Leaves <=> n \in Watchers /\ \A k \in 1..N : Links[k].from # n
<1>1. Links \in Seq([from : All, to : Watchers, strong : BOOLEAN])
  BY LinksAssumption DEF All
<1> DEFINE R == [from : All, to : Watchers, strong : BOOLEAN]
<1>2. /\ N \in Nat /\ DOMAIN Links = 1..N
      /\ \A k \in 1..N : Links[k] \in [from : All, to : Watchers, strong : BOOLEAN]
  <2>1. Links \in Seq(R)
    BY <1>1
  <2> HIDE DEF R
  <2>2. N \in Nat /\ DOMAIN Links = 1..N /\ \A k \in 1..N : Links[k] \in R
    BY <2>1 DEF N
  <2> QED
    BY <2>2 DEF R
<1> HIDE DEF R
<1>3. ToSet(Links) = {Links[k] : k \in 1..N}
  BY <1>2 DEF ToSet
<1>4. \A n \in Watchers : \E k \in 1..N : Links[k].to = n
  BY <1>3 DEF Watchers
<1>5. \A n, s : s \in SourcesOf(n) <=> \E k \in 1..N : Links[k].to = n /\ Links[k].from = s
  BY <1>3 DEF SourcesOf
<1>6. \A n : IsStrong(n) <=> \E k \in 1..N : Links[k].to = n /\ Links[k].strong
  BY <1>3 DEF IsStrong
<1>7. \A n : n \in Leaves <=> n \in Watchers /\ \A k \in 1..N : Links[k].from # n
  BY <1>3 DEF Leaves
<1>8. /\ \A i, j \in 1..N : Links[i].to = Links[j].from => i < j
      /\ \A i, j \in 1..N : Links[i].strong /\ Links[i].to = Links[j].to => i = j
      /\ \A i, j \in 1..N : Links[i].strong => Links[i].to # Links[j].from
  BY <1>2, LinksAssumption
<1> QED
  BY <1>2, <1>4, <1>5, <1>6, <1>7, <1>8

\* A link leads to another node, and strong links to nodes without others.
LEMMA Distinct ==
  /\ \A k \in 1..N : Links[k].from # Links[k].to
  /\ \A n : n \in Roots => n \notin Watchers /\ SourcesOf(n) = {}
  /\ \A k \in 1..N : ~Links[k].strong => ~IsStrong(Links[k].to)
  /\ \A k \in 1..N : ~IsStrong(Links[k].from)
<1>1. \A k \in 1..N : Links[k].from # Links[k].to
  BY LinkFacts
<1>2. \A n : n \in Roots => n \notin Watchers
  BY LinksAssumption
<1>3. \A n : n \in Roots => SourcesOf(n) = {}
  BY <1>2, LinkFacts
<1>4. \A k \in 1..N : ~Links[k].strong => ~IsStrong(Links[k].to)
  BY LinkFacts
<1>5. \A k \in 1..N : ~IsStrong(Links[k].from)
  BY LinkFacts
<1> QED
  BY <1>1, <1>2, <1>3, <1>4, <1>5

\* What a node is made of, given what its sources are made of.
Made(n, f) ==
  IF n \in Roots THEN PartsOf[n]
  ELSE LET all == UNION {f[s] : s \in SourcesOf(n)}
       IN  IF n \in DOMAIN Picks THEN all \cap Picks[n] ELSE all

\* The nodes all of whose links are among the first k.
Known(k) == Roots \cup {n \in Watchers : \A j \in 1..N : Links[j].to = n => j <= k}

\* Only the sources count.
LEMMA MadeSame ==
  ASSUME NEW n, NEW f, NEW g, \A s \in SourcesOf(n) : f[s] = g[s]
  PROVE  Made(n, f) = Made(n, g)
BY DEF Made

\* What a node is made of is known before it.
LEMMA KnownSources ==
  ASSUME NEW k \in Nat, NEW n \in Known(k + 1), NEW s \in SourcesOf(n)
  PROVE  s \in Known(k)
<1>1. PICK j \in 1..N : Links[j].to = n /\ Links[j].from = s
  BY LinkFacts
<1>2. j <= k + 1
  <2>1. n \notin Roots
    BY Distinct
  <2> QED
    BY <1>1, <2>1 DEF Known
<1>3. \A i \in 1..N : Links[i].to = s => i < j
  BY <1>1, LinkFacts
<1>4. \A i \in 1..N : Links[i].to = s => i <= k
  BY <1>2, <1>3
<1>5. s \in All
  BY <1>1, LinkFacts
<1> QED
  BY <1>4, <1>5 DEF Known, All

\* The recursion that defines Support ends: links lead onwards.
LEMMA SupportIs == \A n \in All : Support[n] = Made(n, Support)
<1> DEFINE S == {k \in 0..N : \E f : f = [n \in Known(k) |-> Made(n, f)]}
<1>1. 0 \in S
  <2>1. Known(0) = Roots
    BY LinkFacts DEF Known
  <2> DEFINE f == [n \in Roots |-> PartsOf[n]]
  <2>2. f = [n \in Roots |-> Made(n, f)]
    BY DEF Made
  <2> HIDE DEF f
  <2>3. 0 \in 0..N
    BY LinkFacts
  <2> QED
    BY <2>1, <2>2, <2>3
<1>2. ASSUME NEW k \in 0..N, k < N, k \in S PROVE k + 1 \in S
  <2>1. PICK f : f = [n \in Known(k) |-> Made(n, f)]
    BY <1>2
  <2> DEFINE g == [n \in Known(k + 1) |-> IF n \in Known(k) THEN f[n] ELSE Made(n, f)]
  <2>2. k + 1 \in 0..N /\ Known(k) \subseteq Known(k + 1)
    BY <1>2, LinkFacts DEF Known
  <2>3. ASSUME NEW n \in Known(k + 1), NEW s \in SourcesOf(n) PROVE s \in Known(k)
    BY <2>3, <1>2, LinkFacts, KnownSources
  <2>4. \A n \in Known(k) : g[n] = f[n]
    BY <2>2
  <2>5. \A n \in Known(k + 1) : g[n] = Made(n, f)
    BY <2>1
  <2> HIDE DEF g
  <2>6. \A n \in Known(k + 1) : Made(n, f) = Made(n, g)
    <3> SUFFICES ASSUME NEW n \in Known(k + 1) PROVE Made(n, f) = Made(n, g)
      OBVIOUS
    <3>1. \A s \in SourcesOf(n) : f[s] = g[s]
      BY <2>3, <2>4
    <3> QED
      BY <3>1, MadeSame
  <2>7. g = [n \in Known(k + 1) |-> Made(n, g)]
    <3>1. g = [n \in Known(k + 1) |-> g[n]]
      BY DEF g
    <3> QED
      BY <3>1, <2>5, <2>6
  <2> QED
    BY <2>2, <2>7
<1>3. N \in S
  <2>1. N \in Nat /\ N \in 0..N
    BY LinkFacts
  <2> HIDE DEF S
  <2> QED
    BY <1>1, <1>2, <2>1, UpTo
<1>4. Known(N) = All
  BY LinkFacts DEF Known, All
<1>5. PICK f : f = [n \in All |-> Made(n, f)]
  BY <1>3, <1>4
<1>6. Support = [n \in All |-> Made(n, Support)]
  BY <1>5 DEF Support, Made, All
<1> QED
  BY <1>6

\* What is inherited from the sources holds of every node.
LEMMA NodeInduction ==
  ASSUME NEW S, \A n \in All : SourcesOf(n) \subseteq S => n \in S
  PROVE  All \subseteq S
<1> DEFINE T == {k \in 0..N : Known(k) \subseteq S}
<1>1. 0 \in T
  <2>1. Known(0) = Roots
    BY LinkFacts DEF Known
  <2>2. Roots \subseteq S
    BY Distinct DEF All
  <2> QED
    BY <2>1, <2>2, LinkFacts
<1>2. ASSUME NEW k \in 0..N, k < N, k \in T PROVE k + 1 \in T
  <2>1. k \in Nat /\ k + 1 \in 0..N
    BY <1>2, LinkFacts
  <2>2. ASSUME NEW n \in Known(k + 1) PROVE n \in S
    <3>1. SourcesOf(n) \subseteq Known(k)
      BY <2>1, KnownSources
    <3>2. n \in All
      BY DEF Known, All
    <3> QED
      BY <1>2, <3>1, <3>2
  <2> QED
    BY <2>1, <2>2
<1>3. N \in T
  <2>1. N \in Nat /\ N \in 0..N
    BY LinkFacts
  <2> HIDE DEF T
  <2> QED
    BY <1>1, <1>2, <2>1, UpTo
<1>4. Known(N) = All
  BY LinkFacts DEF Known, All
<1> QED
  BY <1>3, <1>4

\* States are computed from parts of mutable states.
LEMMA SupportParts == \A n \in All : Support[n] \subseteq Parts
<1> DEFINE S == {n \in All : Support[n] \subseteq Parts}
<1>1. ASSUME NEW n \in All, SourcesOf(n) \subseteq S PROVE n \in S
  <2>1. Support[n] = Made(n, Support)
    BY SupportIs
  <2>2. CASE n \in Roots
    BY <2>1, <2>2 DEF Made, Parts
  <2>3. CASE n \notin Roots
    <3>1. UNION {Support[s] : s \in SourcesOf(n)} \subseteq Parts
      BY <1>1
    <3> QED
      BY <2>1, <2>3, <3>1 DEF Made
  <2> QED
    BY <2>2, <2>3
<1> HIDE DEF S
<1>2. All \subseteq S
  BY <1>1, NodeInduction
<1> QED
  BY <1>2 DEF S

-----------------------------------------------------------------------------
(* Values.                                                                 *)

Values == SUBSET (Parts \X Nat)

\* Nothing in the second value is older than in the first.
Older(A, B) == \A v \in B : \E w \in A : w[1] = v[1] /\ w[2] <= v[2]

\* Nothing is older than itself,
LEMMA OlderSelf ==
  ASSUME NEW A \in Values
  PROVE  Older(A, A)
BY DEF Older, Values

\* what is newer than newer is newer,
LEMMA OlderTwice ==
  ASSUME NEW A \in Values, NEW B \in Values, NEW C \in Values, Older(A, B), Older(B, C)
  PROVE  Older(A, C)
<1> SUFFICES ASSUME NEW v \in C PROVE \E w \in A : w[1] = v[1] /\ w[2] <= v[2]
  BY DEF Older
<1>1. PICK u \in B : u[1] = v[1] /\ u[2] <= v[2]
  BY DEF Older
<1>2. PICK w \in A : w[1] = u[1] /\ w[2] <= u[2]
  BY DEF Older
<1>3. v[2] \in Nat /\ u[2] \in Nat /\ w[2] \in Nat
  BY DEF Values
<1> QED
  BY <1>1, <1>2, <1>3

\* and an extracted state goes forward with its source.
LEMMA OlderPick ==
  ASSUME NEW n, NEW A, NEW B, Older(A, B)
  PROVE  Older(Pick(n, A), Pick(n, B))
BY DEF Older, Pick

\* An extracted value is a value.
LEMMA PickTyped ==
  ASSUME NEW n, NEW A \in Values
  PROVE  Pick(n, A) \in Values
BY DEF Pick, Values

\* What the mutable states say is a value.
LEMMA FreshTyped ==
  ASSUME NEW n \in All, NEW ver \in [Parts -> Nat]
  PROVE  Fresh(n, ver) \in Values
BY SupportParts DEF Fresh, Values

\* A mutable state is its parts.
LEMMA FreshRoot ==
  ASSUME NEW r \in Roots, NEW ver
  PROVE  Fresh(r, ver) = {<<p, ver[p]>> : p \in PartsOf[r]}
<1>1. r \in All
  BY DEF All
<1>2. Support[r] = PartsOf[r]
  BY <1>1, SupportIs DEF Made
<1> QED
  BY <1>2 DEF Fresh

\* A watcher is computed from its sources as it would be from the mutable states.
LEMMA FreshIs ==
  ASSUME NEW n \in Watchers, NEW ver
  PROVE  Fresh(n, ver) = Pick(n, UNION {Fresh(s, ver) : s \in SourcesOf(n)})
<1>1. n \in All /\ n \notin Roots
  BY Distinct DEF All
<1> DEFINE all == UNION {Support[s] : s \in SourcesOf(n)}
           fresh == UNION {Fresh(s, ver) : s \in SourcesOf(n)}
<1>2. Support[n] = IF n \in DOMAIN Picks THEN all \cap Picks[n] ELSE all
  BY <1>1, SupportIs DEF Made
<1>3. fresh = {<<p, ver[p]>> : p \in all}
  <2>1. \A v : v \in fresh <=> \E s \in SourcesOf(n) : \E p \in Support[s] : v = <<p, ver[p]>>
    BY DEF Fresh
  <2>2. \A p : p \in all <=> \E s \in SourcesOf(n) : p \in Support[s]
    OBVIOUS
  <2> HIDE DEF all, fresh
  <2>3. \A v : v \in fresh <=> \E p \in all : v = <<p, ver[p]>>
    BY <2>1, <2>2
  <2> QED
    BY <2>3
<1> HIDE DEF all
<1>4. Fresh(n, ver) = Pick(n, fresh)
  <2> HIDE DEF fresh
  <2>1. CASE n \in DOMAIN Picks
    <3>1. Pick(n, fresh) = {v \in fresh : v[1] \in Picks[n]}
      BY <2>1 DEF Pick
    <3>2. Fresh(n, ver) = {<<p, ver[p]>> : p \in all \cap Picks[n]}
      BY <1>2, <2>1 DEF Fresh
    <3>3. \A v : v \in Pick(n, fresh) <=> \E p \in all \cap Picks[n] : v = <<p, ver[p]>>
      BY <1>3, <3>1
    <3> QED
      BY <3>2, <3>3
  <2>2. CASE n \notin DOMAIN Picks
    BY <1>2, <1>3, <2>2 DEF Pick, Fresh
  <2> QED
    BY <2>1, <2>2
<1> QED
  BY <1>4

-----------------------------------------------------------------------------
(* When every slot is current, every state is what the mutable ones say.   *)

\* What a watcher of n that is called now is given.
Now(n, sl, ver) ==
  IF n \in Roots THEN {<<p, ver[p]>> : p \in PartsOf[n]} ELSE Compute(n, sl)

\* What is built was built after its sources.
Founded(al) ==
  /\ Roots \subseteq al /\ al \subseteq All
  /\ \A k \in 1..N : Links[k].to \in al => Links[k].from \in al

\* A watcher whose slots are fresh is fresh.
LEMMA Derives ==
  ASSUME NEW ver, NEW sl, NEW n \in Watchers, \A s \in SourcesOf(n) : sl[n][s] = Fresh(s, ver)
  PROVE  Now(n, sl, ver) = Fresh(n, ver)
<1>1. n \notin Roots
  BY Distinct
<1>2. {sl[n][s] : s \in SourcesOf(n)} = {Fresh(s, ver) : s \in SourcesOf(n)}
  OBVIOUS
<1> QED
  BY <1>1, <1>2, FreshIs DEF Now, Compute

\* When the slots of derived states are current they are fresh, however ways meet again.
LEMMA Settles ==
  ASSUME NEW ver, NEW sl, NEW al, Founded(al),
         \A k \in 1..N : Links[k].to \in al /\ ~Links[k].strong
                           => sl[Links[k].to][Links[k].from] = Now(Links[k].from, sl, ver)
  PROVE  \A n \in al : ~IsStrong(n) => Now(n, sl, ver) = Fresh(n, ver)
<1> DEFINE S == {n \in All : n \in al /\ ~IsStrong(n) => Now(n, sl, ver) = Fresh(n, ver)}
<1>1. ASSUME NEW n \in All, SourcesOf(n) \subseteq S PROVE n \in S
  <2> SUFFICES ASSUME n \in al, ~IsStrong(n) PROVE Now(n, sl, ver) = Fresh(n, ver)
    OBVIOUS
  <2>1. CASE n \in Roots
    BY <2>1, FreshRoot DEF Now
  <2>2. CASE n \notin Roots
    <3>1. n \in Watchers
      BY <2>2 DEF All
    <3>2. ASSUME NEW s \in SourcesOf(n) PROVE sl[n][s] = Fresh(s, ver)
      <4>1. PICK k \in 1..N : Links[k].to = n /\ Links[k].from = s
        BY LinkFacts
      <4>2. ~Links[k].strong
        BY <4>1, LinkFacts
      <4>3. s \in al /\ ~IsStrong(s)
        BY <4>1, Distinct DEF Founded
      <4>4. Now(s, sl, ver) = Fresh(s, ver)
        BY <1>1, <4>3
      <4> QED
        BY <4>1, <4>2, <4>4
    <3> QED
      BY <3>1, <3>2, Derives
  <2> QED
    BY <2>1, <2>2
<1> HIDE DEF S
<1>2. All \subseteq S
  BY <1>1, NodeInduction
<1> QED
  BY <1>2 DEF S, Founded

-----------------------------------------------------------------------------
(* Slots.                                                                  *)

Shaped(sl) ==
  /\ sl = [n \in Watchers |-> [s \in SourcesOf(n) |-> sl[n][s]]]
  /\ \A n \in Watchers : \A s \in SourcesOf(n) : sl[n][s] \in Values

\* Only what m had of f is new.
Given(sm, sl, m, f, x) ==
  \A n \in Watchers : \A s \in SourcesOf(n) :
    sm[n][s] = IF n = m /\ s = f THEN x ELSE sl[n][s]

\* A handler of a combined state writes one slot and no other.
LEMMA SlotIs ==
  ASSUME NEW sl, Shaped(sl), NEW m \in Watchers, NEW f \in SourcesOf(m), NEW x \in Values,
         NEW sm, sm = [sl EXCEPT ![m][f] = x]
  PROVE  Shaped(sm) /\ Given(sm, sl, m, f, x)
<1>1. DOMAIN sl = Watchers
  BY DEF Shaped
<1>2. sm = [n \in Watchers |-> IF n = m THEN [sl[m] EXCEPT ![f] = x] ELSE sl[n]]
  BY <1>1 DEF Shaped
<1>3. \A n \in Watchers : sl[n] = [s \in SourcesOf(n) |-> sl[n][s]]
  BY DEF Shaped
<1>4. sm[m] = [s \in SourcesOf(m) |-> IF s = f THEN x ELSE sl[m][s]]
  BY <1>2, <1>3
<1>5. \A n \in Watchers : n # m => sm[n] = [s \in SourcesOf(n) |-> sl[n][s]]
  BY <1>2, <1>3
<1>6. \A n \in Watchers : \A s \in SourcesOf(n) :
        sm[n][s] = IF n = m /\ s = f THEN x ELSE sl[n][s]
  BY <1>4, <1>5
<1>7. \A n \in Watchers : sm[n] = [s \in SourcesOf(n) |-> sm[n][s]]
  BY <1>4, <1>5
<1>8. sm = [n \in Watchers |-> [s \in SourcesOf(n) |-> sm[n][s]]]
  <2>1. sm = [n \in Watchers |-> sm[n]]
    BY <1>2
  <2> QED
    BY <1>7, <2>1
<1>9. \A n \in Watchers : \A s \in SourcesOf(n) : sm[n][s] \in Values
  BY <1>6 DEF Shaped
<1> QED
  BY <1>6, <1>8, <1>9 DEF Shaped, Given

\* What is passed on is a value.
LEMMA NowTyped ==
  ASSUME NEW ver \in [Parts -> Nat], NEW sl, Shaped(sl), NEW n \in All
  PROVE  Now(n, sl, ver) \in Values
<1>1. CASE n \in Roots
  <2>1. PartsOf[n] \subseteq Parts
    BY <1>1 DEF Parts
  <2> QED
    BY <1>1, <2>1 DEF Now, Values
<1>2. CASE n \notin Roots
  <2>1. n \in Watchers
    BY <1>2 DEF All
  <2>2. UNION {sl[n][s] : s \in SourcesOf(n)} \in Values
    BY <2>1 DEF Shaped, Values
  <2> QED
    BY <1>2, <2>2, PickTyped DEF Now, Compute
<1> QED
  BY <1>1, <1>2

\* A state whose slots stay stays.
LEMMA NowSame ==
  ASSUME NEW ver, NEW sl, NEW sm, NEW n, \A s \in SourcesOf(n) : sm[n][s] = sl[n][s]
  PROVE  Now(n, sm, ver) = Now(n, sl, ver)
<1>1. {sm[n][s] : s \in SourcesOf(n)} = {sl[n][s] : s \in SourcesOf(n)}
  OBVIOUS
<1> QED
  BY <1>1 DEF Now, Compute

\* A state goes forward with its slots.
LEMMA NowOlder ==
  ASSUME NEW ver \in [Parts -> Nat], NEW sl, Shaped(sl), NEW sm, NEW n \in All,
         \A s \in SourcesOf(n) : Older(sl[n][s], sm[n][s])
  PROVE  Older(Now(n, sl, ver), Now(n, sm, ver))
<1>1. CASE n \in Roots
  BY <1>1, NowTyped, OlderSelf DEF Now
<1>2. CASE n \notin Roots
  <2>1. Older(UNION {sl[n][s] : s \in SourcesOf(n)}, UNION {sm[n][s] : s \in SourcesOf(n)})
    BY DEF Older
  <2> QED
    BY <1>2, <2>1, OlderPick DEF Now, Compute
<1> QED
  BY <1>1, <1>2

\* No state goes back, and none but m changes.
Forth(ver, sl, sm)    == \A n \in All : Older(Now(n, sl, ver), Now(n, sm, ver))
Aside(ver, sl, sm, m) == \A n \in All : n # m => Now(n, sm, ver) = Now(n, sl, ver)

\* A slot that is given a newer value takes every state forward.
LEMMA SlotOlder ==
  ASSUME NEW ver \in [Parts -> Nat], NEW sl, Shaped(sl), NEW m \in Watchers, NEW f \in SourcesOf(m),
         NEW x \in Values, Older(sl[m][f], x), NEW sm, sm = [sl EXCEPT ![m][f] = x]
  PROVE  Forth(ver, sl, sm) /\ Aside(ver, sl, sm, m)
<1>0. Given(sm, sl, m, f, x)
  BY SlotIs
<1>1. \A n \in Watchers : \A s \in SourcesOf(n) :
        sm[n][s] = IF n = m /\ s = f THEN x ELSE sl[n][s]
  BY <1>0 DEF Given
<1>2. \A n \in All : \A s \in SourcesOf(n) : n \in Watchers
  BY Distinct DEF All
<1>3. ASSUME NEW n \in All, NEW s \in SourcesOf(n) PROVE Older(sl[n][s], sm[n][s])
  <2>1. n \in Watchers /\ sl[n][s] \in Values
    BY <1>2 DEF Shaped
  <2> QED
    BY <1>1, <2>1, OlderSelf
<1>4. \A n \in All : Older(Now(n, sl, ver), Now(n, sm, ver))
  BY <1>3, NowOlder
<1>5. ASSUME NEW n \in All, n # m PROVE Now(n, sm, ver) = Now(n, sl, ver)
  <2>1. \A s \in SourcesOf(n) : sm[n][s] = sl[n][s]
    BY <1>1, <1>2, <1>5
  <2> QED
    BY <2>1, NowSame
<1> QED
  BY <1>4, <1>5 DEF Forth, Aside

-----------------------------------------------------------------------------
(* The stack.                                                              *)

Updates == [from : All, value : Values, left : SUBSET (1..N)]

Pending(k, st) == \E i \in 1..Len(st) : k \in st[i].left

\* An update passes on what its state is, to watchers that were built.
Runs(u, sl, ver, al) ==
  /\ u.value = Now(u.from, sl, ver)
  /\ \A k \in u.left : Links[k].from = u.from /\ Links[k].to \in al

\* Whoever m watches was watched before anybody watched n.
Under(m, n) == \A a, b \in 1..N : Links[a].to = m /\ Links[b].from = n => a < b

Shape(st, sl, ver, al) ==
  /\ \A i \in 1..Len(st) : Runs(st[i], sl, ver, al) /\ st[i].left # {}
  /\ \A i, j \in 1..Len(st) : i < j => Under(st[j].from, st[i].from)

\* What an update entered adds to what is to be called.
LEMMA EnterIs ==
  ASSUME NEW st \in Seq(Updates), NEW u \in Updates
  PROVE  /\ Enter(u, st) \in Seq(Updates)
         /\ \A k : Pending(k, Enter(u, st)) <=> k \in u.left \/ Pending(k, st)
         /\ \A i \in 1..Len(Enter(u, st)) :
              Enter(u, st)[i].from = u.from \/ \E j \in 1..Len(st) : Enter(u, st)[i].from = st[j].from
<1>1. CASE u.left = {}
  BY <1>1 DEF Enter, Pending
<1>2. CASE u.left # {}
  <2> DEFINE sn == <<u>> \o st
  <2>1. Enter(u, st) = sn
    BY <1>2 DEF Enter
  <2>2. sn \in Seq(Updates) /\ Len(sn) = Len(st) + 1 /\ Len(st) \in Nat
    OBVIOUS
  <2>3. sn[1] = u /\ \A i \in 1..Len(st) : sn[i + 1] = st[i]
    OBVIOUS
  <2> HIDE DEF sn
  <2>4. \A i \in 1..Len(sn) : i = 1 \/ (i - 1 \in 1..Len(st) /\ sn[i] = st[i - 1])
    <3> SUFFICES ASSUME NEW i \in 1..Len(sn), i # 1 PROVE i - 1 \in 1..Len(st) /\ sn[i] = st[i - 1]
      OBVIOUS
    <3>1. i - 1 \in 1..Len(st) /\ (i - 1) + 1 = i
      BY <2>2
    <3> QED
      BY <2>3, <3>1
  <2>5. \A i \in 1..Len(st) : i + 1 \in 1..Len(sn)
    BY <2>2
  <2>6. 1 \in 1..Len(sn)
    BY <2>2
  <2>7. \A k : Pending(k, sn) <=> k \in u.left \/ Pending(k, st)
    BY <2>3, <2>4, <2>5, <2>6 DEF Pending
  <2> QED
    BY <2>1, <2>2, <2>3, <2>4, <2>7
<1> QED
  BY <1>1, <1>2

\* An update may be entered when all it waits for lies above it.
LEMMA EnterShape ==
  ASSUME NEW st \in Seq(Updates), NEW u \in Updates, NEW sl, NEW ver, NEW al, Shape(st, sl, ver, al),
         Runs(u, sl, ver, al), \A j \in 1..Len(st) : Under(st[j].from, u.from)
  PROVE  Shape(Enter(u, st), sl, ver, al)
<1>1. CASE u.left = {}
  BY <1>1 DEF Enter
<1>2. CASE u.left # {}
  <2> DEFINE sn == <<u>> \o st
  <2>1. Enter(u, st) = sn
    BY <1>2 DEF Enter
  <2>2. Len(sn) = Len(st) + 1 /\ Len(st) \in Nat
    OBVIOUS
  <2>3. sn[1] = u /\ \A i \in 1..Len(st) : sn[i + 1] = st[i]
    OBVIOUS
  <2> HIDE DEF sn
  <2>4. \A i \in 1..Len(sn) : i = 1 \/ (i - 1 \in 1..Len(st) /\ sn[i] = st[i - 1])
    <3> SUFFICES ASSUME NEW i \in 1..Len(sn), i # 1 PROVE i - 1 \in 1..Len(st) /\ sn[i] = st[i - 1]
      OBVIOUS
    <3>1. i - 1 \in 1..Len(st) /\ (i - 1) + 1 = i
      BY <2>2
    <3> QED
      BY <2>3, <3>1
  <2>5. \A i \in 1..Len(sn) : Runs(sn[i], sl, ver, al) /\ sn[i].left # {}
    BY <1>2, <2>3, <2>4 DEF Shape
  <2>6. ASSUME NEW i \in 1..Len(sn), NEW j \in 1..Len(sn), i < j
        PROVE  Under(sn[j].from, sn[i].from)
    <3>1. j # 1 /\ j - 1 \in 1..Len(st) /\ sn[j] = st[j - 1]
      BY <2>2, <2>4, <2>6
    <3>2. CASE i = 1
      BY <2>3, <3>1, <3>2
    <3>3. CASE i # 1
      <4>1. i - 1 \in 1..Len(st) /\ sn[i] = st[i - 1] /\ i - 1 < j - 1
        BY <2>2, <2>4, <2>6, <3>3
      <4> QED
        BY <3>1, <4>1 DEF Shape
    <3> QED
      BY <3>2, <3>3
  <2> QED
    BY <2>1, <2>5, <2>6 DEF Shape
<1> QED
  BY <1>1, <1>2

\* The innermost update and the others.
LEMMA TailIs ==
  ASSUME NEW st \in Seq(Updates), st # <<>>, NEW sl, NEW ver, NEW al, Shape(st, sl, ver, al)
  PROVE  /\ Head(st) \in Updates /\ Runs(Head(st), sl, ver, al) /\ Head(st).left # {}
         /\ Tail(st) \in Seq(Updates) /\ Shape(Tail(st), sl, ver, al)
         /\ \A j \in 1..Len(Tail(st)) : Under(Tail(st)[j].from, Head(st).from)
         /\ \A k : Pending(k, st) <=> k \in Head(st).left \/ Pending(k, Tail(st))
<1> DEFINE rest == Tail(st)
<1>1. Len(st) \in Nat /\ Len(st) >= 1 /\ Head(st) = st[1] /\ Head(st) \in Updates
  OBVIOUS
<1>2. rest \in Seq(Updates) /\ Len(rest) = Len(st) - 1 /\ \A i \in 1..Len(rest) : rest[i] = st[i + 1]
  OBVIOUS
<1> HIDE DEF rest
<1>3. \A i \in 1..Len(rest) : i + 1 \in 1..Len(st)
  BY <1>1, <1>2
<1>4. 1 \in 1..Len(st)
  BY <1>1
<1>5. Runs(Head(st), sl, ver, al) /\ Head(st).left # {}
  BY <1>1, <1>4 DEF Shape
<1>6. Shape(rest, sl, ver, al)
  <2>1. \A i, j \in 1..Len(rest) : i < j => i + 1 < j + 1
    BY <1>1, <1>2
  <2> QED
    BY <1>2, <1>3, <2>1 DEF Shape
<1>7. \A j \in 1..Len(rest) : Under(rest[j].from, Head(st).from)
  <2>1. \A j \in 1..Len(rest) : 1 < j + 1
    BY <1>1, <1>2
  <2> QED
    BY <1>1, <1>2, <1>3, <1>4, <2>1 DEF Shape
<1>8. \A k : Pending(k, st) <=> k \in Head(st).left \/ Pending(k, rest)
  <2>1. \A i \in 1..Len(st) : i = 1 \/ (i - 1 \in 1..Len(rest) /\ st[i] = rest[i - 1])
    <3> SUFFICES ASSUME NEW i \in 1..Len(st), i # 1 PROVE i - 1 \in 1..Len(rest) /\ st[i] = rest[i - 1]
      OBVIOUS
    <3>1. i - 1 \in 1..Len(rest) /\ (i - 1) + 1 = i
      BY <1>1, <1>2
    <3> QED
      BY <1>2, <3>1
  <2> QED
    BY <1>1, <1>2, <1>3, <1>4, <2>1 DEF Pending
<1> QED
  BY <1>1, <1>2, <1>5, <1>6, <1>7, <1>8 DEF rest

\* There is a next watcher to call as long as any is left.
LEMMA FirstIs ==
  ASSUME NEW left, left \subseteq 1..N, left # {}
  PROVE  FirstOf(left) \in left
<1> DEFINE W == {k \in left : ~Links[k].strong}
<1>1. \A k \in 1..N : Links[k].strong \in BOOLEAN
  BY LinkFacts
<1>2. N \in Nat
  BY LinkFacts
<1>3. \E k \in left : \A j \in left \ {k} : Sooner(k, j)
  <2>1. CASE W = {}
    <3>1. PICK k \in left : \A j \in left : k <= j
      BY <1>2, LeastIndex
    <3>2. \A j \in left : Links[j].strong = TRUE
      BY <1>1, <2>1
    <3>3. \A j \in left \ {k} : k < j
      BY <1>2, <3>1
    <3> QED
      BY <3>2, <3>3 DEF Sooner
  <2>2. CASE W # {}
    <3>1. W \subseteq 1..N
      OBVIOUS
    <3>2. \A k \in left : k \in W <=> ~Links[k].strong
      OBVIOUS
    <3>3. W \subseteq left
      OBVIOUS
    <3> HIDE DEF W
    <3>4. PICK k \in W : \A j \in W : k <= j
      BY <1>2, <2>2, <3>1, LeastIndex
    <3>5. ASSUME NEW j \in left \ {k} PROVE Sooner(k, j)
      <4>1. CASE j \in W
        <5>1. k < j
          BY <1>2, <3>1, <3>4, <4>1
        <5>2. Links[k].strong = FALSE /\ Links[j].strong = FALSE
          BY <1>1, <3>2, <3>3, <4>1
        <5> QED
          BY <5>1, <5>2 DEF Sooner
      <4>2. CASE j \notin W
        <5>1. Links[k].strong = FALSE /\ Links[j].strong = TRUE
          BY <1>1, <3>2, <3>3, <4>2
        <5> QED
          BY <5>1 DEF Sooner
      <4> QED
        BY <4>1, <4>2
    <3> QED
      BY <3>3, <3>5
  <2> QED
    BY <2>1, <2>2
<1> QED
  BY <1>3 DEF FirstOf

-----------------------------------------------------------------------------
(* What holds between the steps: every link that is alive is either still  *)
(* to be called, or what arrived or is on its way to its watcher ends with *)
(* what its source is; and nothing on its way is overtaken.                *)

Tasks == [from : All, to : Watchers, value : Values]

Typed(ver, sl, st, ta, al) ==
  /\ ver \in [Parts -> Nat] /\ Shaped(sl)
  /\ st \in Seq(Updates) /\ ta \in Seq(Tasks)
  /\ Founded(al)

\* Every microtask is the call of a watcher that asked for one.
Asked(ta, al) ==
  \A i \in 1..Len(ta) : \E k \in 1..N :
    /\ Links[k].strong /\ Links[k].to = ta[i].to /\ Links[k].from = ta[i].from
    /\ Links[k].to \in al

\* What has arrived over a link, as the item 0, and the microtasks for it.
At(k, ta) == {0} \cup {i \in 1..Len(ta) : ta[i].to = Links[k].to}
Item(k, i, sl, ta) == IF i = 0 THEN sl[Links[k].to][Links[k].from] ELSE ta[i].value

Current(k, ver, sl, st, ta) ==
  \/ Pending(k, st)
  \/ \E i \in At(k, ta) : /\ \A j \in At(k, ta) : j <= i
                          /\ Item(k, i, sl, ta) = Now(Links[k].from, sl, ver)

Ordered(k, ver, sl, ta) ==
  \A i \in At(k, ta) :
    /\ Older(Item(k, i, sl, ta), Now(Links[k].from, sl, ver))
    /\ \A j \in At(k, ta) : j <= i => Older(Item(k, j, sl, ta), Item(k, i, sl, ta))

LinkOK(k, ver, sl, st, ta) == Current(k, ver, sl, st, ta) /\ Ordered(k, ver, sl, ta)

LinksOK(ver, sl, st, ta, al) ==
  \A k \in 1..N : Links[k].to \in al => LinkOK(k, ver, sl, st, ta)

Good(ver, sl, st, ta, al) ==
  /\ Typed(ver, sl, st, ta, al) /\ Shape(st, sl, ver, al)
  /\ Asked(ta, al) /\ LinksOK(ver, sl, st, ta, al)

\* Nothing that is computed goes back.
Onward(sl, sm) == \A n \in Watchers : Older(Compute(n, sl), Compute(n, sm))

\* Leaves are among the states that do not go back.
LEMMA OnwardIs ==
  ASSUME NEW ver, NEW sl, NEW sm, Forth(ver, sl, sm)
  PROVE  Onward(sl, sm)
BY Distinct DEF Onward, Forth, Now, All

\* What comes over a link is a value.
LEMMA ItemTyped ==
  ASSUME NEW sl, Shaped(sl), NEW ta \in Seq(Tasks), NEW k \in 1..N, NEW i \in At(k, ta)
  PROVE  Item(k, i, sl, ta) \in Values
<1>1. CASE i = 0
  <2>1. Links[k].to \in Watchers /\ Links[k].from \in SourcesOf(Links[k].to)
    BY LinkFacts
  <2> QED
    BY <1>1, <2>1 DEF Item, Shaped
<1>2. CASE i # 0
  <2>1. i \in 1..Len(ta)
    BY <1>2 DEF At
  <2>2. ta[i] \in Tasks
    BY <2>1
  <2> QED
    BY <1>2, <2>2 DEF Item, Tasks
<1> QED
  BY <1>1, <1>2

\* Only watch() waits.
LEMMA WeakAt ==
  ASSUME NEW ta, NEW al, Asked(ta, al), NEW k \in 1..N, ~Links[k].strong
  PROVE  At(k, ta) = {0}
<1>1. \A i \in 1..Len(ta) : ta[i].to # Links[k].to
  BY LinkFacts DEF Asked
<1> QED
  BY <1>1 DEF At

\* A link over which all has arrived.
LEMMA Arrived ==
  ASSUME NEW ver, NEW sl, NEW st, NEW ta, NEW k, At(k, ta) = {0},
         sl[Links[k].to][Links[k].from] = Now(Links[k].from, sl, ver),
         Now(Links[k].from, sl, ver) \in Values
  PROVE  LinkOK(k, ver, sl, st, ta)
BY OlderSelf DEF LinkOK, Current, Ordered, Item

\* Nothing comes over a link.
Quiet(k, sl, ta, sm, tb) ==
  At(k, tb) = At(k, ta) /\ \A i \in At(k, ta) : Item(k, i, sm, tb) = Item(k, i, sl, ta)

\* A link over which nothing comes, from a state that stays.
LEMMA LinkSame ==
  ASSUME NEW ver, NEW sl, NEW st, NEW ta, NEW vm, NEW sm, NEW sn, NEW tb, NEW k,
         LinkOK(k, ver, sl, st, ta), Pending(k, st) => Pending(k, sn),
         Quiet(k, sl, ta, sm, tb),
         Now(Links[k].from, sm, vm) = Now(Links[k].from, sl, ver)
  PROVE  LinkOK(k, vm, sm, sn, tb)
BY DEF LinkOK, Current, Ordered, Quiet

\* A link from a state that changed, whose watcher will be called.
LEMMA LinkCalled ==
  ASSUME NEW ver, NEW sl, NEW st, NEW ta, NEW vm, NEW sm, NEW sn, NEW k \in 1..N,
         LinkOK(k, ver, sl, st, ta), Quiet(k, sl, ta, sm, ta), Pending(k, sn),
         Shaped(sl), ta \in Seq(Tasks),
         Now(Links[k].from, sl, ver) \in Values, Now(Links[k].from, sm, vm) \in Values,
         Older(Now(Links[k].from, sl, ver), Now(Links[k].from, sm, vm))
  PROVE  LinkOK(k, vm, sm, sn, ta)
<1>1. Current(k, vm, sm, sn, ta)
  BY DEF Current
<1> DEFINE was == Now(Links[k].from, sl, ver)
           now == Now(Links[k].from, sm, vm)
<1>2. was \in Values /\ now \in Values
  OBVIOUS
<1> HIDE DEF was, now
<1>3. ASSUME NEW i \in At(k, ta) PROVE Older(Item(k, i, sm, ta), now)
  <2>1. Item(k, i, sl, ta) \in Values
    BY ItemTyped
  <2>2. Older(Item(k, i, sl, ta), was)
    BY DEF LinkOK, Ordered, was
  <2>3. Older(was, now)
    BY DEF was, now
  <2>4. Older(Item(k, i, sl, ta), now)
    BY <1>2, <2>1, <2>2, <2>3, OlderTwice
  <2> QED
    BY <2>4 DEF Quiet
<1>4. Ordered(k, vm, sm, ta)
  BY <1>3 DEF LinkOK, Ordered, Quiet, now
<1> QED
  BY <1>1, <1>4 DEF LinkOK

-----------------------------------------------------------------------------
(* The calls of an update.                                                 *)

\* What the call of link k by update u finds; w is what u has left to do.
Found(ver, sl, st, al, u, k, w) ==
  /\ k \in 1..N /\ k \in u.left /\ Links[k].from = u.from /\ Links[k].to \in al
  /\ u.value = Now(u.from, sl, ver) /\ u.value \in Values
  /\ w \in Updates /\ w.from = u.from /\ w.left = u.left \ {k}
  /\ Runs(w, sl, ver, al)
  /\ Tail(st) \in Seq(Updates) /\ Shape(Tail(st), sl, ver, al)
  /\ \A j \in 1..Len(Tail(st)) : Under(Tail(st)[j].from, u.from)
  /\ \A j : Pending(j, st) <=> j \in u.left \/ Pending(j, Tail(st))

\* The first call of the innermost update finds what Found says.
LEMMA CallFinds ==
  ASSUME NEW ver, NEW sl, NEW st, NEW ta, NEW al, Good(ver, sl, st, ta, al), st # <<>>,
         NEW u, u = Head(st), NEW k, k = FirstOf(u.left),
         NEW w, w = [u EXCEPT !.left = @ \ {k}]
  PROVE  Found(ver, sl, st, al, u, k, w)
<1>1. st \in Seq(Updates) /\ Shape(st, sl, ver, al)
  BY DEF Good, Typed
<1>2. /\ u \in Updates /\ Runs(u, sl, ver, al) /\ u.left # {}
      /\ Tail(st) \in Seq(Updates) /\ Shape(Tail(st), sl, ver, al)
      /\ \A j \in 1..Len(Tail(st)) : Under(Tail(st)[j].from, u.from)
      /\ \A j : Pending(j, st) <=> j \in u.left \/ Pending(j, Tail(st))
  BY <1>1, TailIs, Zenon
<1>3. u.left \subseteq 1..N /\ u.value \in Values /\ u.from \in All
  BY <1>2 DEF Updates
<1>4. k \in u.left
  BY <1>2, <1>3, FirstIs
<1>5. k \in 1..N /\ Links[k].from = u.from /\ Links[k].to \in al /\ u.value = Now(u.from, sl, ver)
  BY <1>2, <1>3, <1>4 DEF Runs
<1>6. w \in Updates /\ w.from = u.from /\ w.value = u.value /\ w.left = u.left \ {k}
  BY <1>2 DEF Updates
<1>7. Runs(w, sl, ver, al)
  BY <1>2, <1>6 DEF Runs
<1> QED
  BY <1>2, <1>3, <1>4, <1>5, <1>6, <1>7 DEF Found

\* The links after m was given the value of f, and those from m are to be called.
LEMMA SlotLinks ==
  ASSUME NEW ver \in [Parts -> Nat], NEW sl, Shaped(sl), NEW st, NEW ta \in Seq(Tasks), NEW al,
         Asked(ta, al), LinksOK(ver, sl, st, ta, al),
         NEW m \in Watchers, NEW f \in All, f # m, ~IsStrong(m), NEW sm, Shaped(sm),
         Given(sm, sl, m, f, Now(f, sl, ver)), Forth(ver, sl, sm), Aside(ver, sl, sm, m),
         NEW sn, \A j \in Calls(m, al) : Pending(j, sn),
         \A j \in 1..N : Pending(j, st) /\ ~(Links[j].to = m /\ Links[j].from = f) => Pending(j, sn)
  PROVE  LinksOK(ver, sm, sn, ta, al)
<1> SUFFICES ASSUME NEW j \in 1..N, Links[j].to \in al
             PROVE  LinkOK(j, ver, sm, sn, ta)
  BY DEF LinksOK
<1>1. Links[j].to \in Watchers /\ Links[j].from \in SourcesOf(Links[j].to) /\ Links[j].from \in All
  BY LinkFacts
<1>2. LinkOK(j, ver, sl, st, ta)
  BY DEF LinksOK
<1>3. Now(Links[j].from, sl, ver) \in Values /\ Now(Links[j].from, sm, ver) \in Values
  BY <1>1, NowTyped
<1>4. CASE Links[j].to = m /\ Links[j].from = f
  <2>1. ~Links[j].strong
    BY <1>4, LinkFacts
  <2>2. At(j, ta) = {0}
    BY <2>1, WeakAt
  <2>3. sm[Links[j].to][Links[j].from] = Now(Links[j].from, sm, ver)
    BY <1>1, <1>4 DEF Given, Aside
  <2> QED
    BY <1>3, <2>2, <2>3, Arrived
<1>5. CASE ~(Links[j].to = m /\ Links[j].from = f)
  <2>1. Quiet(j, sl, ta, sm, ta)
    BY <1>1, <1>5 DEF Quiet, Item, Given
  <2>2. CASE Links[j].from = m
    <3>1. Pending(j, sn)
      BY <2>2, LinkFacts DEF Calls
    <3>2. Older(Now(Links[j].from, sl, ver), Now(Links[j].from, sm, ver))
      BY <1>1 DEF Forth
    <3> QED
      BY <1>2, <1>3, <2>1, <3>1, <3>2, LinkCalled
  <2>3. CASE Links[j].from # m
    <3>1. Pending(j, st) => Pending(j, sn)
      BY <1>5
    <3>2. Now(Links[j].from, sm, ver) = Now(Links[j].from, sl, ver)
      BY <1>1, <2>3 DEF Aside
    <3> QED
      BY <1>2, <2>1, <3>1, <3>2, LinkSame
  <2> QED
    BY <2>2, <2>3
<1> QED
  BY <1>4, <1>5

\* A call of watchOn or of a derived state, which updates its own watchers at once.
LEMMA CallWeak ==
  ASSUME NEW ver, NEW sl, NEW st, NEW ta, NEW al, Good(ver, sl, st, ta, al),
         NEW u, NEW k, NEW w, Found(ver, sl, st, al, u, k, w), ~Links[k].strong,
         NEW m, m = Links[k].to,
         NEW sm, sm = [sl EXCEPT ![m][u.from] = u.value],
         NEW sn, sn = Enter(Update(m, Compute(m, sm), al), Enter(w, Tail(st)))
  PROVE  Good(ver, sm, sn, ta, al) /\ Onward(sl, sm)
<1>1. /\ k \in 1..N /\ k \in u.left /\ Links[k].from = u.from /\ Links[k].to \in al
      /\ u.value = Now(u.from, sl, ver) /\ u.value \in Values
      /\ w \in Updates /\ w.from = u.from /\ w.left = u.left \ {k}
      /\ Runs(w, sl, ver, al)
      /\ Tail(st) \in Seq(Updates) /\ Shape(Tail(st), sl, ver, al)
      /\ \A j \in 1..Len(Tail(st)) : Under(Tail(st)[j].from, u.from)
      /\ \A j : Pending(j, st) <=> j \in u.left \/ Pending(j, Tail(st))
  BY DEF Found
<1>2. /\ ver \in [Parts -> Nat] /\ Shaped(sl) /\ ta \in Seq(Tasks) /\ Founded(al)
      /\ Asked(ta, al) /\ LinksOK(ver, sl, st, ta, al)
  BY DEF Good, Typed
<1>3. m \in Watchers /\ m \in All /\ u.from \in SourcesOf(m) /\ u.from # m /\ u.from \in All
  BY <1>1, LinkFacts, Distinct DEF All
<1>4. At(k, ta) = {0}
  BY <1>1, <1>2, WeakAt
<1>5. Older(sl[m][u.from], u.value)
  BY <1>1, <1>2, <1>4 DEF LinksOK, LinkOK, Ordered, Item
<1>6. Shaped(sm) /\ Given(sm, sl, m, u.from, u.value)
  BY <1>1, <1>2, <1>3, SlotIs
<1>7. /\ \A n \in All : Older(Now(n, sl, ver), Now(n, sm, ver))
      /\ \A n \in All : n # m => Now(n, sm, ver) = Now(n, sl, ver)
  <2>1. Forth(ver, sl, sm) /\ Aside(ver, sl, sm, m)
    BY <1>1, <1>2, <1>3, <1>5, SlotOlder
  <2> QED
    BY <2>1 DEF Forth, Aside
<1>8. \A j \in 1..Len(Tail(st)) : Tail(st)[j].from # m /\ Tail(st)[j].from \in All
  <2> SUFFICES ASSUME NEW j \in 1..Len(Tail(st)) PROVE Tail(st)[j].from # m /\ Tail(st)[j].from \in All
    OBVIOUS
  <2>1. Tail(st)[j] \in Updates
    BY <1>1
  <2>2. Under(Tail(st)[j].from, u.from)
    BY <1>1
  <2>3. Tail(st)[j].from = m => k < k
    BY <1>1, <2>2 DEF Under
  <2>4. N \in Nat
    BY LinkFacts
  <2> QED
    BY <1>1, <2>1, <2>3, <2>4 DEF Updates
<1> DEFINE rest == Enter(w, Tail(st))
           e == Update(m, Compute(m, sm), al)
<1>9. Shape(rest, sm, ver, al) /\ rest \in Seq(Updates)
  <2>1. Shape(Tail(st), sm, ver, al)
    BY <1>1, <1>7, <1>8 DEF Shape, Runs
  <2>2. Runs(w, sm, ver, al)
    BY <1>1, <1>3, <1>7 DEF Runs
  <2> QED
    BY <1>1, <2>1, <2>2, EnterShape, EnterIs
<1>10. /\ \A j : Pending(j, rest) <=> j \in w.left \/ Pending(j, Tail(st))
       /\ \A i \in 1..Len(rest) :
            rest[i].from = w.from \/ \E j \in 1..Len(Tail(st)) : rest[i].from = Tail(st)[j].from
  BY <1>1, EnterIs
<1> HIDE DEF rest
<1>11. e \in Updates /\ e.from = m /\ e.left = Calls(m, al) /\ Runs(e, sm, ver, al)
  <2>1. m \notin Roots
    BY <1>3, Distinct
  <2>2. Compute(m, sm) = Now(m, sm, ver)
    BY <2>1 DEF Now
  <2>3. Now(m, sm, ver) \in Values
    BY <1>2, <1>3, <1>6, NowTyped
  <2>4. Calls(m, al) \subseteq 1..N
    BY LinkFacts DEF Calls
  <2>5. e = [from |-> m, value |-> Now(m, sm, ver), left |-> Calls(m, al)]
    BY <2>2 DEF Update
  <2> HIDE DEF e
  <2>6. e \in Updates /\ e.from = m /\ e.left = Calls(m, al) /\ e.value = Now(m, sm, ver)
    BY <1>3, <2>3, <2>4, <2>5 DEF Updates
  <2> QED
    BY <2>6 DEF Runs, Calls
<1> HIDE DEF e
<1>12. ASSUME NEW j \in 1..Len(rest) PROVE Under(rest[j].from, m)
  <2>1. \A b \in 1..N : Links[b].from = m => k < b
    BY <1>1, LinkFacts
  <2>2. \A a \in 1..N : Links[a].to = rest[j].from => a < k
    <3>1. CASE rest[j].from = w.from
      BY <1>1, <3>1, LinkFacts
    <3>2. CASE \E i \in 1..Len(Tail(st)) : rest[j].from = Tail(st)[i].from
      <4>1. Under(rest[j].from, u.from)
        BY <1>1, <3>2
      <4> QED
        BY <1>1, <4>1 DEF Under
    <3> QED
      BY <1>10, <3>1, <3>2
  <2>3. N \in Nat
    BY LinkFacts
  <2> QED
    BY <1>1, <2>1, <2>2, <2>3 DEF Under
<1>13. sn = Enter(e, rest)
  BY DEF e, rest
<1>14. Shape(sn, sm, ver, al) /\ sn \in Seq(Updates)
  BY <1>9, <1>11, <1>12, <1>13, EnterShape, EnterIs
<1>15. \A j : Pending(j, sn) <=> j \in Calls(m, al) \/ j \in u.left \ {k} \/ Pending(j, Tail(st))
  <2>1. \A j : Pending(j, sn) <=> j \in e.left \/ Pending(j, rest)
    BY <1>9, <1>11, <1>13, EnterIs
  <2> QED
    BY <1>1, <1>10, <1>11, <2>1
<1>16. LinksOK(ver, sm, sn, ta, al)
  <2>1. \A j \in Calls(m, al) : Pending(j, sn)
    BY <1>15
  <2>2. \A j \in 1..N : Pending(j, st) /\ ~(Links[j].to = m /\ Links[j].from = u.from) => Pending(j, sn)
    BY <1>1, <1>15
  <2>3. ~IsStrong(m)
    BY <1>1, Distinct
  <2>4. Given(sm, sl, m, u.from, Now(u.from, sl, ver)) /\ Forth(ver, sl, sm) /\ Aside(ver, sl, sm, m)
    BY <1>1, <1>6, <1>7 DEF Forth, Aside
  <2> QED
    BY <1>2, <1>3, <1>6, <2>1, <2>2, <2>3, <2>4, SlotLinks
<1>17. Onward(sl, sm)
  BY <1>7, OnwardIs DEF Forth
<1> QED
  BY <1>2, <1>6, <1>14, <1>16, <1>17 DEF Good, Typed, LinksOK

-----------------------------------------------------------------------------
(* Microtasks are queued.                                                  *)

\* tb is ta with one more, c.
Queued(ta, c, tb) ==
  /\ tb \in Seq(Tasks) /\ Len(ta) \in Nat /\ Len(tb) = Len(ta) + 1
  /\ tb[Len(tb)] = c /\ \A i \in 1..Len(ta) : tb[i] = ta[i]

\* Queue does what Queued says.
LEMMA AppendIs ==
  ASSUME NEW ta \in Seq(Tasks), NEW c \in Tasks
  PROVE  Queued(ta, c, Append(ta, c))
BY DEF Queued

\* What is on its way over a link when one more is queued.
LEMMA QueuedAt ==
  ASSUME NEW ta, NEW c, NEW tb, Queued(ta, c, tb), NEW j
  PROVE  /\ c.to # Links[j].to => At(j, tb) = At(j, ta)
         /\ c.to = Links[j].to => At(j, tb) = At(j, ta) \cup {Len(tb)}
         /\ \A i \in At(j, ta) : i \in Nat /\ i < Len(tb) /\ (tb[i] = ta[i] \/ i = 0)
<1>1. \A i \in 1..Len(tb) : i = Len(tb) \/ i \in 1..Len(ta)
  BY DEF Queued
<1>2. \A i \in 1..Len(ta) : i \in 1..Len(tb) /\ i < Len(tb) /\ i \in Nat /\ tb[i] = ta[i]
  BY DEF Queued
<1>3. Len(tb) \in 1..Len(tb) /\ tb[Len(tb)] = c
  BY DEF Queued
<1> QED
  BY <1>1, <1>2, <1>3 DEF At

\* What is queued for others is not felt.
LEMMA QueuedOther ==
  ASSUME NEW ta, NEW c, NEW tb, Queued(ta, c, tb), NEW j, c.to # Links[j].to, NEW sl
  PROVE  Quiet(j, sl, ta, sl, tb)
<1>1. At(j, tb) = At(j, ta) /\ \A i \in At(j, ta) : tb[i] = ta[i] \/ i = 0
  BY QueuedAt
<1> QED
  BY <1>1 DEF Quiet, Item

\* What is queued with what the source is now is the latest.
LEMMA QueuedLatest ==
  ASSUME NEW ta \in Seq(Tasks), NEW c, NEW tb, Queued(ta, c, tb), NEW j \in 1..N, c.to = Links[j].to,
         NEW ver, NEW sl, NEW sn, Shaped(sl), Ordered(j, ver, sl, ta),
         c.value = Now(Links[j].from, sl, ver), c.value \in Values
  PROVE  LinkOK(j, ver, sl, sn, tb)
<1> DEFINE L == Len(tb)
           now == Now(Links[j].from, sl, ver)
<1>1. At(j, tb) = At(j, ta) \cup {L} /\ L \in Nat /\ L >= 1
  BY QueuedAt DEF Queued
<1>2. \A i \in At(j, ta) : i \in Nat /\ i < L /\ Item(j, i, sl, tb) = Item(j, i, sl, ta)
  <2>1. \A i \in At(j, ta) : i \in Nat /\ i < Len(tb) /\ (tb[i] = ta[i] \/ i = 0)
    BY QueuedAt
  <2> QED
    BY <1>1, <2>1 DEF Item
<1>3. Item(j, L, sl, tb) = now
  BY <1>1 DEF Item, Queued
<1> HIDE DEF L
<1>4. now \in Values
  OBVIOUS
<1>5. \A i \in At(j, ta) : Older(Item(j, i, sl, ta), now)
  BY DEF Ordered
<1> HIDE DEF now
<1>6. \A i \in At(j, tb) : i <= L
  BY <1>1, <1>2
<1>7. L \in At(j, tb)
  BY <1>1
<1>8. Current(j, ver, sl, sn, tb)
  BY <1>3, <1>6, <1>7 DEF Current, now
<1>9. Older(now, now)
  BY <1>4, OlderSelf
<1>10. ASSUME NEW i \in At(j, tb)
       PROVE  /\ Older(Item(j, i, sl, tb), now)
              /\ \A h \in At(j, tb) : h <= i => Older(Item(j, h, sl, tb), Item(j, i, sl, tb))
  <2>1. Older(Item(j, i, sl, tb), now)
    BY <1>1, <1>2, <1>3, <1>5, <1>9
  <2>2. ASSUME NEW h \in At(j, tb), h <= i
        PROVE  Older(Item(j, h, sl, tb), Item(j, i, sl, tb))
    <3>1. CASE i = L
      BY <1>1, <1>2, <1>3, <1>5, <1>9, <3>1
    <3>2. CASE i # L
      <4>1. i \in At(j, ta) /\ i < L
        BY <1>1, <1>2, <3>2
      <4>2. h # L
        BY <1>1, <1>2, <2>2, <4>1
      <4>3. h \in At(j, ta)
        BY <1>1, <4>2
      <4> QED
        BY <1>2, <2>2, <4>1, <4>3 DEF Ordered
    <3> QED
      BY <3>1, <3>2
  <2> QED
    BY <2>1, <2>2
<1>11. Ordered(j, ver, sl, tb)
  BY <1>10 DEF Ordered, now
<1> QED
  BY <1>8, <1>11 DEF LinkOK

\* A call over a strong link may be queued.
LEMMA QueuedAsked ==
  ASSUME NEW ta, NEW c, NEW tb, Queued(ta, c, tb), NEW al, Asked(ta, al), NEW k \in 1..N,
         Links[k].strong, Links[k].to = c.to, Links[k].from = c.from, Links[k].to \in al
  PROVE  Asked(tb, al)
<1>1. \A i \in 1..Len(tb) : i = Len(tb) \/ i \in 1..Len(ta)
  BY DEF Queued
<1> QED
  BY <1>1 DEF Asked, Queued

\* One more call over link k, of what its source is now.
LEMMA QueueLinks ==
  ASSUME NEW ver, NEW sl, Shaped(sl), NEW st, NEW ta \in Seq(Tasks), NEW al, LinksOK(ver, sl, st, ta, al),
         NEW k \in 1..N, Links[k].strong, NEW c, c.to = Links[k].to,
         c.value = Now(Links[k].from, sl, ver), c.value \in Values,
         NEW tb, Queued(ta, c, tb), NEW sn, \A j \in 1..N : Pending(j, st) /\ j # k => Pending(j, sn)
  PROVE  LinksOK(ver, sl, sn, tb, al)
<1> SUFFICES ASSUME NEW j \in 1..N, Links[j].to \in al PROVE LinkOK(j, ver, sl, sn, tb)
  BY DEF LinksOK
<1>1. LinkOK(j, ver, sl, st, ta)
  BY DEF LinksOK
<1>2. CASE j = k
  <2>1. Ordered(j, ver, sl, ta)
    BY <1>1 DEF LinkOK
  <2>2. c.to = Links[j].to /\ c.value = Now(Links[j].from, sl, ver)
    BY <1>2
  <2> QED
    BY <2>1, <2>2, QueuedLatest
<1>3. CASE j # k
  <2>1. c.to # Links[j].to
    BY <1>3, LinkFacts
  <2>2. Quiet(j, sl, ta, sl, tb)
    BY <2>1, QueuedOther
  <2>3. Pending(j, st) => Pending(j, sn)
    BY <1>3
  <2> QED
    BY <1>1, <2>2, <2>3, LinkSame
<1> QED
  BY <1>2, <1>3

\* A call of watch, which queues.
LEMMA CallStrong ==
  ASSUME NEW ver, NEW sl, NEW st, NEW ta, NEW al, Good(ver, sl, st, ta, al),
         NEW u, NEW k, NEW w, Found(ver, sl, st, al, u, k, w), Links[k].strong,
         NEW c, c = [from |-> u.from, to |-> Links[k].to, value |-> u.value]
  PROVE  Good(ver, sl, Enter(w, Tail(st)), Append(ta, c), al)
<1>1. Found(ver, sl, st, al, u, k, w)
  OBVIOUS
<1>2. /\ ver \in [Parts -> Nat] /\ Shaped(sl) /\ ta \in Seq(Tasks) /\ Founded(al)
      /\ Asked(ta, al) /\ LinksOK(ver, sl, st, ta, al)
  BY DEF Good, Typed
<1>3. k \in 1..N /\ Links[k].from = u.from /\ Links[k].to \in al
  BY <1>1 DEF Found
<1>4. /\ c.to = Links[k].to /\ c.from = Links[k].from /\ c.value = u.value
      /\ c.value = Now(Links[k].from, sl, ver) /\ c.value \in Values
  BY <1>1 DEF Found
<1>5. c \in Tasks
  <2>1. Links[k].from \in All /\ Links[k].to \in Watchers
    BY <1>3, LinkFacts
  <2> QED
    BY <1>3, <1>4, <2>1 DEF Tasks
<1> DEFINE sn == Enter(w, Tail(st))
           tb == Append(ta, c)
<1>6. Queued(ta, c, tb)
  BY <1>2, <1>5, AppendIs
<1>7. Shape(sn, sl, ver, al) /\ sn \in Seq(Updates)
  BY <1>1, EnterIs, EnterShape DEF Found
<1>8. \A j : Pending(j, st) /\ j # k => Pending(j, sn)
  <2>1. \A j : Pending(j, sn) <=> j \in w.left \/ Pending(j, Tail(st))
    BY <1>1, EnterIs DEF Found
  <2> QED
    BY <1>1, <2>1 DEF Found
<1> HIDE DEF sn, tb
<1>9. LinksOK(ver, sl, sn, tb, al)
  BY <1>2, <1>3, <1>4, <1>6, <1>8, QueueLinks
<1>10. Asked(tb, al)
  BY <1>2, <1>3, <1>4, <1>6, QueuedAsked
<1>11. tb \in Seq(Tasks)
  BY <1>6 DEF Queued
<1>12. Good(ver, sl, sn, tb, al)
  BY <1>2, <1>7, <1>9, <1>10, <1>11 DEF Good, Typed
<1> QED
  BY <1>12 DEF sn, tb

-----------------------------------------------------------------------------
(* A state is set.                                                         *)

\* Nothing is to be called when every update has returned.
LEMMA EmptyStack ==
  /\ \A j : ~Pending(j, <<>>)
  /\ <<>> \in Seq(Updates)
  /\ \A sl, ver, al : Shape(<<>>, sl, ver, al)
BY DEF Pending, Shape

\* A part of a mutable state is set to a newer version and its watchers are to be called.
LEMMA SetKeeps ==
  ASSUME NEW ver, NEW sl, NEW ta, NEW al, Good(ver, sl, <<>>, ta, al),
         NEW r \in Roots, NEW p \in PartsOf[r], NEW v \in Nat, ver[p] <= v,
         NEW vm, vm = [ver EXCEPT ![p] = v],
         NEW sn, sn = Enter(Update(r, {<<q, vm[q]>> : q \in PartsOf[r]}, al), <<>>)
  PROVE  Good(vm, sl, sn, ta, al)
<1>1. /\ ver \in [Parts -> Nat] /\ Shaped(sl) /\ ta \in Seq(Tasks) /\ Founded(al)
      /\ Asked(ta, al) /\ LinksOK(ver, sl, <<>>, ta, al)
  BY DEF Good, Typed
<1>2. p \in Parts /\ r \in All
  BY DEF Parts, All
<1>3. vm \in [Parts -> Nat] /\ \A q \in Parts : vm[q] = IF q = p THEN v ELSE ver[q]
  BY <1>1, <1>2
<1>4. \A q \in Parts : ver[q] <= vm[q]
  BY <1>1, <1>3
<1>5. ASSUME NEW n \in All, n # r PROVE Now(n, sl, vm) = Now(n, sl, ver)
  <2>1. CASE n \in Roots
    <3>1. p \notin PartsOf[n]
      BY <1>5, <2>1, LinksAssumption
    <3>2. \A q \in PartsOf[n] : vm[q] = ver[q]
      BY <1>3, <2>1, <3>1 DEF Parts
    <3> QED
      BY <2>1, <3>2 DEF Now
  <2>2. CASE n \notin Roots
    BY <2>2 DEF Now
  <2> QED
    BY <2>1, <2>2
<1>6. Older(Now(r, sl, ver), Now(r, sl, vm))
  <2>1. \A q \in PartsOf[r] : q \in Parts
    BY DEF Parts
  <2>2. ASSUME NEW x \in {<<q, vm[q]>> : q \in PartsOf[r]}
        PROVE  \E y \in {<<q, ver[q]>> : q \in PartsOf[r]} : y[1] = x[1] /\ y[2] <= x[2]
    <3>1. PICK q \in PartsOf[r] : x = <<q, vm[q]>>
      OBVIOUS
    <3>2. <<q, ver[q]>> \in {<<i, ver[i]>> : i \in PartsOf[r]} /\ ver[q] <= vm[q]
      BY <1>4, <2>1
    <3> QED
      BY <3>1, <3>2
  <2> QED
    BY <2>2 DEF Older, Now
<1> DEFINE x == {<<q, vm[q]>> : q \in PartsOf[r]}
           e == Update(r, x, al)
<1>0. sn = Enter(e, <<>>)
  OBVIOUS
<1>7. x = Now(r, sl, vm) /\ x \in Values
  <2>1. x = Now(r, sl, vm)
    BY DEF Now
  <2>2. Now(r, sl, vm) \in Values
    BY <1>1, <1>2, <1>3, NowTyped, Zenon
  <2> QED
    BY <2>1, <2>2
<1> HIDE DEF x
<1>8. e \in Updates /\ Runs(e, sl, vm, al) /\ e.left = Calls(r, al)
  <2>1. e = [from |-> r, value |-> x, left |-> Calls(r, al)]
    BY DEF Update
  <2>2. Calls(r, al) \subseteq 1..N
    BY LinkFacts DEF Calls
  <2> HIDE DEF e
  <2>3. e \in Updates /\ e.from = r /\ e.value = x /\ e.left = Calls(r, al)
    BY <1>2, <1>7, <2>1, <2>2 DEF Updates
  <2> QED
    BY <1>7, <2>3 DEF Runs, Calls
<1> HIDE DEF e
<1>9. sn \in Seq(Updates) /\ Shape(sn, sl, vm, al) /\ \A j \in Calls(r, al) : Pending(j, sn)
  <2>1. \A j \in 1..Len(<<>>) : Under(<<>>[j].from, e.from)
    OBVIOUS
  <2>2. Shape(sn, sl, vm, al)
    BY <1>0, <1>8, <2>1, EmptyStack, EnterShape
  <2>3. sn \in Seq(Updates) /\ \A j : Pending(j, sn) <=> j \in e.left \/ Pending(j, <<>>)
    <3>1. /\ Enter(e, <<>>) \in Seq(Updates)
          /\ \A j : Pending(j, Enter(e, <<>>)) <=> j \in e.left \/ Pending(j, <<>>)
      BY <1>8, EmptyStack, EnterIs
    <3> QED
      BY <1>0, <3>1
  <2> QED
    BY <1>8, <2>2, <2>3
<1>10. ASSUME NEW j \in 1..N, Links[j].to \in al PROVE LinkOK(j, vm, sl, sn, ta)
  <2>1. LinkOK(j, ver, sl, <<>>, ta) /\ Links[j].from \in All
    BY <1>1, <1>10, LinkFacts DEF LinksOK
  <2>2. Quiet(j, sl, ta, sl, ta)
    BY DEF Quiet
  <2>3. CASE Links[j].from = r
    <3>1. Pending(j, sn)
      BY <1>9, <1>10, <2>3, LinkFacts DEF Calls
    <3>2. Older(Now(Links[j].from, sl, ver), Now(Links[j].from, sl, vm))
      BY <1>6, <2>3
    <3>3. Now(Links[j].from, sl, ver) \in Values /\ Now(Links[j].from, sl, vm) \in Values
      BY <1>1, <1>3, <2>1, NowTyped
    <3> QED
      BY <1>1, <2>1, <2>2, <3>1, <3>2, <3>3, LinkCalled
  <2>4. CASE Links[j].from # r
    <3>1. Now(Links[j].from, sl, vm) = Now(Links[j].from, sl, ver)
      BY <1>5, <2>1, <2>4
    <3> QED
      BY <2>1, <2>2, <3>1, EmptyStack, LinkSame
  <2> QED
    BY <2>3, <2>4
<1>11. Good(vm, sl, sn, ta, al)
  BY <1>1, <1>3, <1>9, <1>10 DEF Good, Typed, LinksOK
<1> QED
  BY <1>11

-----------------------------------------------------------------------------
(* A microtask runs.                                                       *)

\* tb is ta without its first, c.
Taken(ta, c, tb) ==
  /\ tb \in Seq(Tasks) /\ Len(tb) \in Nat /\ Len(ta) = Len(tb) + 1
  /\ ta[1] = c /\ \A i \in 1..Len(tb) : tb[i] = ta[i + 1]

\* The next microtask and the others.
LEMMA TakenIs ==
  ASSUME NEW ta \in Seq(Tasks), ta # <<>>
  PROVE  Taken(ta, Head(ta), Tail(ta)) /\ Head(ta) \in Tasks
BY DEF Taken

\* What is on its way over a link when the first has been taken.
LEMMA TakenAt ==
  ASSUME NEW ta, NEW c, NEW tb, Taken(ta, c, tb), NEW j
  PROVE  /\ \A i \in At(j, tb) : i \in Nat /\ (i # 0 => i + 1 \in At(j, ta) /\ tb[i] = ta[i + 1])
         /\ \A i \in At(j, ta) : i \in Nat /\ (i > 1 => i - 1 \in At(j, tb))
         /\ 1 \in At(j, ta) <=> c.to = Links[j].to
         /\ 0 \in At(j, ta) /\ 0 \in At(j, tb)
<1>1. \A i \in 1..Len(tb) : i \in Nat /\ i + 1 \in 1..Len(ta) /\ tb[i] = ta[i + 1]
  BY DEF Taken
<1>2. ASSUME NEW i \in 1..Len(ta), i > 1 PROVE i - 1 \in 1..Len(tb) /\ tb[i - 1] = ta[i]
  <2>1. i - 1 \in 1..Len(tb) /\ (i - 1) + 1 = i
    BY <1>2 DEF Taken
  <2> QED
    BY <2>1 DEF Taken
<1>3. 1 \in 1..Len(ta) /\ ta[1] = c
  BY DEF Taken
<1>4. \A i \in 1..Len(ta) : i \in Nat
  OBVIOUS
<1>5. \A i \in At(j, tb) : i \in Nat /\ (i # 0 => i + 1 \in At(j, ta) /\ tb[i] = ta[i + 1])
  BY <1>1 DEF At
<1>6. \A i \in At(j, ta) : i \in Nat /\ (i > 1 => i - 1 \in At(j, tb))
  BY <1>2, <1>4 DEF At
<1> QED
  BY <1>3, <1>5, <1>6 DEF At

\* What came and comes over a link, counted anew by f.
LEMMA Recount ==
  ASSUME NEW ver, NEW sl, NEW ta, NEW sm, NEW tb, NEW j, LinkOK(j, ver, sl, <<>>, ta), NEW f,
         \A i \in At(j, tb) : f[i] \in At(j, ta) /\ Item(j, i, sm, tb) = Item(j, f[i], sl, ta),
         \A h, i \in At(j, tb) : h <= i <=> f[h] <= f[i],
         \A i \in At(j, ta) : (\A h \in At(j, ta) : h <= i) => \E h \in At(j, tb) : f[h] = i,
         Now(Links[j].from, sm, ver) = Now(Links[j].from, sl, ver)
  PROVE  LinkOK(j, ver, sm, <<>>, tb)
<1>1. PICK i \in At(j, ta) : /\ \A h \in At(j, ta) : h <= i
                             /\ Item(j, i, sl, ta) = Now(Links[j].from, sl, ver)
  BY EmptyStack DEF LinkOK, Current
<1>2. PICK g \in At(j, tb) : f[g] = i
  BY <1>1
<1>3. \A h \in At(j, tb) : h <= g
  BY <1>1, <1>2
<1>4. Item(j, g, sm, tb) = Now(Links[j].from, sm, ver)
  BY <1>1, <1>2
<1>5. Current(j, ver, sm, <<>>, tb)
  BY <1>3, <1>4 DEF Current
<1>6. Ordered(j, ver, sm, tb)
  <2> SUFFICES ASSUME NEW k \in At(j, tb)
               PROVE  /\ Older(Item(j, k, sm, tb), Now(Links[j].from, sm, ver))
                      /\ \A h \in At(j, tb) : h <= k => Older(Item(j, h, sm, tb), Item(j, k, sm, tb))
    BY DEF Ordered
  <2>1. Ordered(j, ver, sl, ta)
    BY DEF LinkOK
  <2>2. Older(Item(j, k, sm, tb), Now(Links[j].from, sm, ver))
    BY <2>1 DEF Ordered
  <2>3. ASSUME NEW h \in At(j, tb), h <= k PROVE Older(Item(j, h, sm, tb), Item(j, k, sm, tb))
    <3>1. f[h] \in At(j, ta) /\ f[k] \in At(j, ta) /\ f[h] <= f[k]
      BY <2>3
    <3>2. Older(Item(j, f[h], sl, ta), Item(j, f[k], sl, ta))
      BY <2>1, <3>1 DEF Ordered
    <3> QED
      BY <3>2
  <2> QED
    BY <2>2, <2>3
<1> QED
  BY <1>5, <1>6 DEF LinkOK

\* The watcher whose turn it is.
LEMMA TakenLink ==
  ASSUME NEW ver, NEW sl, NEW ta, NEW sm, NEW tb, NEW c, Taken(ta, c, tb), NEW j,
         LinkOK(j, ver, sl, <<>>, ta), c.to = Links[j].to, sm[Links[j].to][Links[j].from] = c.value,
         Now(Links[j].from, sm, ver) = Now(Links[j].from, sl, ver)
  PROVE  LinkOK(j, ver, sm, <<>>, tb)
<1>1. /\ \A i \in At(j, tb) : i \in Nat /\ (i # 0 => i + 1 \in At(j, ta) /\ tb[i] = ta[i + 1])
      /\ \A i \in At(j, ta) : i \in Nat /\ (i > 1 => i - 1 \in At(j, tb))
      /\ 1 \in At(j, ta) /\ 0 \in At(j, tb)
  BY TakenAt
<1>2. ta[1] = c
  BY DEF Taken
<1> DEFINE f == [i \in At(j, tb) |-> i + 1]
<1>3. \A i \in At(j, tb) : f[i] = i + 1 /\ f[i] \in At(j, ta) /\ f[i] # 0
  BY <1>1
<1>4. \A i \in At(j, tb) : Item(j, i, sm, tb) = Item(j, f[i], sl, ta)
  BY <1>1, <1>2, <1>3 DEF Item
<1>5. \A h, i \in At(j, tb) : h <= i <=> f[h] <= f[i]
  BY <1>1, <1>3
<1>6. ASSUME NEW i \in At(j, ta), \A h \in At(j, ta) : h <= i PROVE \E h \in At(j, tb) : f[h] = i
  <2>1. i \in Nat /\ 1 <= i
    BY <1>1, <1>6
  <2>2. i - 1 \in At(j, tb)
    BY <1>1, <2>1
  <2> QED
    BY <1>3, <2>1, <2>2
<1> HIDE DEF f
<1> QED
  BY <1>3, <1>4, <1>5, <1>6, Recount

\* The others.
LEMMA PassedLink ==
  ASSUME NEW ver, NEW sl, NEW ta, NEW sm, NEW tb, NEW c, Taken(ta, c, tb), NEW j,
         LinkOK(j, ver, sl, <<>>, ta), c.to # Links[j].to,
         sm[Links[j].to][Links[j].from] = sl[Links[j].to][Links[j].from],
         Now(Links[j].from, sm, ver) = Now(Links[j].from, sl, ver)
  PROVE  LinkOK(j, ver, sm, <<>>, tb)
<1>1. /\ \A i \in At(j, tb) : i \in Nat /\ (i # 0 => i + 1 \in At(j, ta) /\ tb[i] = ta[i + 1])
      /\ \A i \in At(j, ta) : i \in Nat /\ (i > 1 => i - 1 \in At(j, tb))
      /\ 1 \notin At(j, ta) /\ 0 \in At(j, tb) /\ 0 \in At(j, ta)
  BY TakenAt
<1> DEFINE f == [i \in At(j, tb) |-> IF i = 0 THEN 0 ELSE i + 1]
<1>3. \A i \in At(j, tb) : f[i] = (IF i = 0 THEN 0 ELSE i + 1) /\ f[i] \in At(j, ta)
  BY <1>1
<1>4. \A i \in At(j, tb) : Item(j, i, sm, tb) = Item(j, f[i], sl, ta)
  BY <1>1, <1>3 DEF Item
<1>5. \A h, i \in At(j, tb) : h <= i <=> f[h] <= f[i]
  BY <1>1, <1>3
<1>6. ASSUME NEW i \in At(j, ta), \A h \in At(j, ta) : h <= i PROVE \E h \in At(j, tb) : f[h] = i
  <2>1. i \in Nat /\ i # 1
    BY <1>1
  <2>2. CASE i = 0
    BY <1>1, <1>3, <2>2
  <2>3. CASE i # 0
    <3>1. i > 1 /\ (i - 1) + 1 = i /\ i - 1 # 0
      BY <2>1, <2>3
    <3>2. i - 1 \in At(j, tb)
      BY <1>1, <3>1
    <3> QED
      BY <1>3, <3>1, <3>2
  <2> QED
    BY <2>2, <2>3
<1> HIDE DEF f
<1> QED
  BY <1>3, <1>4, <1>5, <1>6, Recount

\* All links, when the watcher of link k was given c.
LEMMA WriteLinks ==
  ASSUME NEW ver, NEW sl, NEW ta, NEW al, LinksOK(ver, sl, <<>>, ta, al),
         NEW c, NEW tb, Taken(ta, c, tb),
         NEW k \in 1..N, Links[k].strong, Links[k].to = c.to, Links[k].from = c.from,
         NEW sm, Given(sm, sl, c.to, c.from, c.value), Aside(ver, sl, sm, c.to)
  PROVE  LinksOK(ver, sm, <<>>, tb, al)
<1> SUFFICES ASSUME NEW j \in 1..N, Links[j].to \in al PROVE LinkOK(j, ver, sm, <<>>, tb)
  BY DEF LinksOK
<1>1. LinkOK(j, ver, sl, <<>>, ta)
  BY DEF LinksOK
<1>2. Links[j].from \in All /\ Links[j].from # c.to
  BY LinkFacts
<1>3. Now(Links[j].from, sm, ver) = Now(Links[j].from, sl, ver)
  BY <1>2 DEF Aside
<1>4. Links[j].to \in Watchers /\ Links[j].from \in SourcesOf(Links[j].to)
  BY LinkFacts
<1>5. CASE Links[j].to = c.to
  <2>1. Links[j].from = c.from
    BY <1>5, LinkFacts
  <2>2. sm[Links[j].to][Links[j].from] = c.value
    BY <1>4, <1>5, <2>1 DEF Given
  <2> QED
    BY <1>1, <1>3, <1>5, <2>2, TakenLink
<1>6. CASE Links[j].to # c.to
  <2>1. sm[Links[j].to][Links[j].from] = sl[Links[j].to][Links[j].from]
    BY <1>4, <1>6 DEF Given
  <2> QED
    BY <1>1, <1>3, <1>6, <2>1, PassedLink
<1> QED
  BY <1>5, <1>6

\* A microtask that writes brings its watcher forward.
LEMMA WriteKeeps ==
  ASSUME NEW ver, NEW sl, NEW ta, NEW al, Good(ver, sl, <<>>, ta, al), ta # <<>>,
         NEW c, c = Head(ta), NEW sm, sm = [sl EXCEPT ![c.to][c.from] = c.value]
  PROVE  Good(ver, sm, <<>>, Tail(ta), al) /\ Onward(sl, sm) /\ Older(sl[c.to][c.from], c.value)
<1>1. /\ ver \in [Parts -> Nat] /\ Shaped(sl) /\ ta \in Seq(Tasks) /\ Founded(al)
      /\ Asked(ta, al) /\ LinksOK(ver, sl, <<>>, ta, al)
  BY DEF Good, Typed
<1> DEFINE tb == Tail(ta)
<1>2. Taken(ta, c, tb) /\ c \in Tasks
  BY <1>1, TakenIs
<1> HIDE DEF tb
<1>3. PICK k \in 1..N : Links[k].strong /\ Links[k].to = c.to /\ Links[k].from = c.from /\ Links[k].to \in al
  <2>1. 1 \in 1..Len(ta) /\ ta[1] = c
    BY <1>2 DEF Taken
  <2> QED
    BY <1>1, <2>1 DEF Asked
<1>4. c.to \in Watchers /\ c.from \in SourcesOf(c.to) /\ c.value \in Values
  BY <1>2, <1>3, LinkFacts DEF Tasks
<1>5. Older(sl[c.to][c.from], c.value)
  <2>1. 1 \in At(k, ta) /\ 0 \in At(k, ta)
    BY <1>2, <1>3, TakenAt
  <2>2. Ordered(k, ver, sl, ta)
    BY <1>1, <1>3 DEF LinksOK, LinkOK
  <2>3. Older(Item(k, 0, sl, ta), Item(k, 1, sl, ta))
    BY <2>1, <2>2 DEF Ordered
  <2>4. ta[1] = c
    BY <1>2 DEF Taken
  <2> QED
    BY <1>3, <2>3, <2>4 DEF Item
<1>6. Shaped(sm) /\ Given(sm, sl, c.to, c.from, c.value)
  BY <1>1, <1>4, SlotIs
<1>7. Forth(ver, sl, sm) /\ Aside(ver, sl, sm, c.to)
  BY <1>1, <1>4, <1>5, SlotOlder
<1>8. LinksOK(ver, sm, <<>>, tb, al)
  BY <1>1, <1>2, <1>3, <1>6, <1>7, WriteLinks
<1>9. Asked(tb, al)
  <2>1. \A i \in 1..Len(tb) : i + 1 \in 1..Len(ta) /\ tb[i] = ta[i + 1]
    BY <1>2 DEF Taken
  <2> QED
    BY <1>1, <2>1 DEF Asked
<1>10. tb \in Seq(Tasks)
  BY <1>2 DEF Taken
<1>11. Good(ver, sm, <<>>, tb, al)
  BY <1>1, <1>6, <1>8, <1>9, <1>10, EmptyStack DEF Good, Typed
<1> QED
  BY <1>5, <1>7, <1>11, OnwardIs DEF tb

-----------------------------------------------------------------------------
(* What Good says of a state without calls under way.                      *)

\* A slot is current when nothing is to be called or on its way.
LEMMA AtRest ==
  ASSUME NEW ver, NEW sl, NEW ta, NEW al, Good(ver, sl, <<>>, ta, al),
         NEW k \in 1..N, Links[k].to \in al, At(k, ta) = {0}
  PROVE  sl[Links[k].to][Links[k].from] = Now(Links[k].from, sl, ver)
<1>1. Current(k, ver, sl, <<>>, ta)
  BY DEF Good, LinksOK, LinkOK
<1> QED
  BY <1>1, EmptyStack DEF Current, Item

\* Nothing is ever on its way to a derived state.
LEMMA WeakAtRest ==
  ASSUME NEW ver, NEW sl, NEW ta, NEW al, Good(ver, sl, <<>>, ta, al),
         NEW k \in 1..N, Links[k].to \in al, ~Links[k].strong
  PROVE  sl[Links[k].to][Links[k].from] = Now(Links[k].from, sl, ver)
<1>1. At(k, ta) = {0}
  BY WeakAt DEF Good
<1> QED
  BY <1>1, AtRest

\* So every derived state is fresh when no call is under way,
LEMMA SettledThen ==
  ASSUME NEW ver, NEW sl, NEW ta, NEW al, Good(ver, sl, <<>>, ta, al)
  PROVE  \A n \in al : ~IsStrong(n) => Now(n, sl, ver) = Fresh(n, ver)
<1>1. Founded(al)
  BY DEF Good, Typed
<1>2. \A k \in 1..N : Links[k].to \in al /\ ~Links[k].strong
        => sl[Links[k].to][Links[k].from] = Now(Links[k].from, sl, ver)
  BY WeakAtRest
<1> QED
  BY <1>1, <1>2, Settles

\* and every leaf when no microtask is either.
LEMMA PaintedThen ==
  ASSUME NEW ver, NEW sl, NEW al, Good(ver, sl, <<>>, <<>>, al), NEW n \in al, n \in Watchers
  PROVE  Now(n, sl, ver) = Fresh(n, ver)
<1>1. ASSUME NEW s \in SourcesOf(n) PROVE sl[n][s] = Fresh(s, ver)
  <2>1. PICK k \in 1..N : Links[k].to = n /\ Links[k].from = s
    BY LinkFacts
  <2>2. At(k, <<>>) = {0}
    BY DEF At
  <2>3. sl[n][s] = Now(s, sl, ver)
    BY <2>1, <2>2, AtRest
  <2>4. s \in al /\ ~IsStrong(s)
    BY <2>1, Distinct DEF Good, Typed, Founded
  <2> QED
    BY <2>3, <2>4, SettledThen
<1> QED
  BY <1>1, Derives

-----------------------------------------------------------------------------
(* More is built.                                                          *)

\* sm is sl with the slots of what is built, from states that are as vm says.
Built(sm, sl, vm) ==
  \A n \in Watchers : \A s \in SourcesOf(n) :
    sm[n][s] = IF n \in Latecomers THEN Fresh(s, vm) ELSE sl[n][s]

\* Of the states only srt may differ.
LEMMA BuildLinks ==
  ASSUME NEW ver, NEW sl, NEW ta, NEW al, Good(ver, sl, <<>>, ta, al), al = All \ Latecomers,
         NEW vm \in [Parts -> Nat], \A q \in Parts : q # "srt" => vm[q] = ver[q],
         NEW sm, Built(sm, sl, vm)
  PROVE  LinksOK(vm, sm, <<>>, ta, All)
<1>1. Founded(al) /\ Asked(ta, al) /\ LinksOK(ver, sl, <<>>, ta, al)
  BY DEF Good, Typed
<1>2. \A k \in 1..N : Links[k].from = "srt" => Links[k].to \in Latecomers
  <2>1. \A k \in 1..N : Links[k] \in ToSet(Links)
    BY LinkFacts DEF ToSet
  <2> QED
    BY <2>1, SceneAssumption
<1>3. ASSUME NEW n \in All, n # "srt" PROVE Now(n, sl, vm) = Now(n, sl, ver)
  <2>1. CASE n \in Roots
    <3>1. "srt" \notin PartsOf[n]
      BY <1>3, <2>1, LinksAssumption, SceneAssumption
    <3>2. \A q \in PartsOf[n] : vm[q] = ver[q]
      BY <2>1, <3>1 DEF Parts
    <3> QED
      BY <2>1, <3>2 DEF Now
  <2>2. CASE n \notin Roots
    BY <2>2 DEF Now
  <2> QED
    BY <2>1, <2>2
<1>4. \A n \in al : ~IsStrong(n) => Now(n, sl, vm) = Fresh(n, vm)
  <2>1. ASSUME NEW k \in 1..N, Links[k].to \in al, ~Links[k].strong
        PROVE  sl[Links[k].to][Links[k].from] = Now(Links[k].from, sl, vm)
    <3>1. Links[k].from \in All /\ Links[k].from # "srt"
      BY <1>2, <2>1, LinkFacts
    <3>2. sl[Links[k].to][Links[k].from] = Now(Links[k].from, sl, ver)
      BY <2>1, WeakAtRest
    <3> QED
      BY <1>3, <3>1, <3>2
  <2> QED
    BY <1>1, <2>1, Settles
<1>5. ASSUME NEW n \in All, n \notin Latecomers PROVE Now(n, sm, vm) = Now(n, sl, vm)
  <2>1. \A s \in SourcesOf(n) : n \in Watchers
    BY Distinct DEF All
  <2>2. \A s \in SourcesOf(n) : sm[n][s] = sl[n][s]
    BY <1>5, <2>1 DEF Built
  <2> QED
    BY <2>2, NowSame
<1>6. ASSUME NEW n \in All, ~IsStrong(n) PROVE Now(n, sm, vm) = Fresh(n, vm)
  <2>1. CASE n \in Latecomers
    <3>1. n \in Watchers
      BY <2>1, LinksAssumption
    <3>2. \A s \in SourcesOf(n) : sm[n][s] = Fresh(s, vm)
      BY <2>1, <3>1 DEF Built
    <3> QED
      BY <3>1, <3>2, Derives
  <2>2. CASE n \notin Latecomers
    BY <1>4, <1>5, <1>6, <2>2
  <2> QED
    BY <2>1, <2>2
<1> SUFFICES ASSUME NEW j \in 1..N PROVE LinkOK(j, vm, sm, <<>>, ta)
  BY DEF LinksOK
<1>7. /\ Links[j].to \in Watchers /\ Links[j].to \in All /\ Links[j].from \in All
      /\ Links[j].from \in SourcesOf(Links[j].to) /\ ~IsStrong(Links[j].from)
  BY LinkFacts, Distinct DEF All
<1>8. CASE Links[j].to \in Latecomers
  <2>1. At(j, ta) = {0}
    BY <1>1, <1>8 DEF At, Asked
  <2>2. sm[Links[j].to][Links[j].from] = Now(Links[j].from, sm, vm)
    BY <1>6, <1>7, <1>8 DEF Built
  <2>3. Now(Links[j].from, sm, vm) \in Values
    BY <1>6, <1>7, FreshTyped
  <2> QED
    BY <2>1, <2>2, <2>3, Arrived
<1>9. CASE Links[j].to \notin Latecomers
  <2>1. Links[j].to \in al /\ Links[j].from \in al /\ Links[j].from # "srt"
    BY <1>1, <1>2, <1>7, <1>9 DEF Founded
  <2>2. LinkOK(j, ver, sl, <<>>, ta)
    BY <1>1, <2>1 DEF LinksOK
  <2>3. Quiet(j, sl, ta, sm, ta)
    BY <1>7, <1>9 DEF Quiet, Item, Built
  <2>4. Now(Links[j].from, sm, vm) = Now(Links[j].from, sl, ver)
    BY <1>3, <1>5, <1>7, <2>1
  <2> QED
    BY <2>2, <2>3, <2>4, LinkSame
<1> QED
  BY <1>8, <1>9

\* What is built later is built from fresh states, and watches only what it should.
LEMMA BuildKeeps ==
  ASSUME NEW ver, NEW sl, NEW ta, NEW al, Good(ver, sl, <<>>, ta, al), al = All \ Latecomers,
         NEW vm \in [Parts -> Nat], \A q \in Parts : q # "srt" => vm[q] = ver[q],
         NEW sm, sm = [n \in Watchers |-> IF n \in Latecomers THEN [s \in SourcesOf(n) |-> Fresh(s, vm)] ELSE sl[n]]
  PROVE  Good(vm, sm, <<>>, ta, All) /\ Built(sm, sl, vm)
<1>1. Shaped(sl) /\ ta \in Seq(Tasks) /\ Founded(al) /\ Asked(ta, al)
  BY DEF Good, Typed
<1>2. Built(sm, sl, vm)
  BY DEF Built
<1>3. \A n \in Watchers : \A s \in SourcesOf(n) : s \in All
  BY LinkFacts
<1>4. Shaped(sm)
  <2>1. \A n \in Watchers : sl[n] = [s \in SourcesOf(n) |-> sl[n][s]]
    BY <1>1 DEF Shaped
  <2>2. \A n \in Watchers : sm[n] = [s \in SourcesOf(n) |-> sm[n][s]]
    BY <2>1
  <2>3. sm = [n \in Watchers |-> sm[n]]
    OBVIOUS
  <2>4. \A n \in Watchers : \A s \in SourcesOf(n) : sm[n][s] \in Values
    <3> SUFFICES ASSUME NEW n \in Watchers, NEW s \in SourcesOf(n) PROVE sm[n][s] \in Values
      OBVIOUS
    <3>1. CASE n \in Latecomers
      BY <1>2, <1>3, <3>1, FreshTyped DEF Built
    <3>2. CASE n \notin Latecomers
      BY <1>1, <1>2, <3>2 DEF Built, Shaped
    <3> QED
      BY <3>1, <3>2
  <2> QED
    BY <2>2, <2>3, <2>4 DEF Shaped
<1>5. Founded(All)
  BY LinkFacts DEF Founded, All
<1>6. Asked(ta, All)
  BY <1>1 DEF Asked
<1>7. LinksOK(vm, sm, <<>>, ta, All)
  BY <1>2, BuildLinks
<1> QED
  BY <1>1, <1>2, <1>4, <1>5, <1>6, <1>7, EmptyStack DEF Good, Typed

-----------------------------------------------------------------------------
(* The scene.                                                              *)

\* The bounds that reached the screen are the origin of the mapping.
ScreenOK(ver, sl, ta) ==
  /\ sl["screen"]["elementBounds"] = {<<"elementBounds", ver["screenOrigin"]>>}
  /\ \A i \in 1..Len(ta) :
       ta[i].to = "screen" => \E x \in Nat : ta[i].value = {<<"elementBounds", x>>}

SceneInv ==
  /\ Good(version, slots, stack, tasks, alive)
  /\ alive = All \/ alive = All \ Latecomers
  /\ ScreenOK(version, slots, tasks)

\* The graph of the scene where its actions rely on it.
LEMMA SceneFacts ==
  /\ "screen" \in Watchers /\ "elementBounds" \in SourcesOf("screen") /\ IsStrong("screen")
  /\ \A k \in 1..N : Links[k].to = "screen" => Links[k].from = "elementBounds"
  /\ \A sl, ver : Now("elementBounds", sl, ver) = {<<"elementBounds", ver["elementBounds"]>>}
  /\ \E k \in 1..N : Links[k].strong /\ Links[k].from = "srt" /\ Links[k].to = "rootTransform"
  /\ "rootTransform" # "screen"
<1>1. \A l : l \in ToSet(Links) <=> \E k \in 1..N : l = Links[k]
  BY LinkFacts DEF ToSet
<1>2. PICK k \in 1..N : Links[k] = [from |-> "elementBounds", to |-> "screen", strong |-> TRUE]
  BY <1>1, SceneAssumption
<1>3. PICK j \in 1..N : Links[j] = [from |-> "srt", to |-> "rootTransform", strong |-> TRUE]
  BY <1>1, SceneAssumption
<1>4. Links[k].from = "elementBounds" /\ Links[k].to = "screen" /\ Links[k].strong
  BY <1>2
<1>5. Links[j].from = "srt" /\ Links[j].to = "rootTransform" /\ Links[j].strong
  BY <1>3
<1>6. \A i \in 1..N : Links[i].to = "screen" => Links[i].from = "elementBounds"
  BY <1>4, LinkFacts
<1>7. \A sl, ver : Now("elementBounds", sl, ver) = {<<"elementBounds", ver["elementBounds"]>>}
  BY SceneAssumption DEF Now
<1> QED
  BY <1>4, <1>5, <1>6, <1>7, LinkFacts

\* The scene begins with everything fresh.
LEMMA InitInv == Init => SceneInv
<1> SUFFICES ASSUME Init PROVE SceneInv
  OBVIOUS
<1>1. /\ version = [p \in Parts |-> 0] /\ stack = <<>> /\ tasks = <<>> /\ alive = All \ Latecomers
      /\ slots = [n \in Watchers |-> [s \in SourcesOf(n) |-> Fresh(s, version)]]
  BY DEF Init, All
<1>2. version \in [Parts -> Nat]
  BY <1>1
<1>3. \A n \in Watchers : \A s \in SourcesOf(n) : s \in All /\ slots[n][s] = Fresh(s, version)
  BY <1>1, LinkFacts
<1>4. Shaped(slots)
  <2>1. \A n \in Watchers : slots[n] = [s \in SourcesOf(n) |-> slots[n][s]]
    BY <1>1
  <2>2. slots = [n \in Watchers |-> slots[n]]
    BY <1>1
  <2>3. \A n \in Watchers : \A s \in SourcesOf(n) : slots[n][s] \in Values
    BY <1>2, <1>3, FreshTyped
  <2> QED
    BY <2>1, <2>2, <2>3 DEF Shaped
<1>5. Founded(alive)
  <2>1. Roots \subseteq alive
    BY <1>1, LinksAssumption DEF All
  <2>2. \A k \in 1..N : Links[k].from \in Latecomers => Links[k].to \in Latecomers
    <3>1. \A k \in 1..N : Links[k] \in ToSet(Links)
      BY LinkFacts DEF ToSet
    <3> QED
      BY <3>1, LinksAssumption
  <2> QED
    BY <1>1, <2>1, <2>2, LinkFacts DEF Founded
<1>6. Asked(tasks, alive) /\ tasks \in Seq(Tasks)
  BY <1>1 DEF Asked
<1>7. \A n \in All : Now(n, slots, version) = Fresh(n, version)
  <2> SUFFICES ASSUME NEW n \in All PROVE Now(n, slots, version) = Fresh(n, version)
    OBVIOUS
  <2>1. CASE n \in Roots
    BY <2>1, FreshRoot DEF Now
  <2>2. CASE n \notin Roots
    BY <1>3, <2>2, Derives DEF All
  <2> QED
    BY <2>1, <2>2
<1>8. LinksOK(version, slots, stack, tasks, alive)
  <2> SUFFICES ASSUME NEW k \in 1..N PROVE LinkOK(k, version, slots, stack, tasks)
    BY DEF LinksOK
  <2>1. Links[k].to \in Watchers /\ Links[k].from \in SourcesOf(Links[k].to) /\ Links[k].from \in All
    BY LinkFacts
  <2>2. At(k, tasks) = {0}
    BY <1>1 DEF At
  <2>3. slots[Links[k].to][Links[k].from] = Now(Links[k].from, slots, version)
    BY <1>3, <1>7, <2>1
  <2>4. Now(Links[k].from, slots, version) \in Values
    BY <1>2, <1>7, <2>1, FreshTyped
  <2> QED
    BY <2>2, <2>3, <2>4, Arrived
<1>9. Good(version, slots, stack, tasks, alive)
  BY <1>1, <1>2, <1>4, <1>5, <1>6, <1>8, EmptyStack DEF Good, Typed
<1>10. ScreenOK(version, slots, tasks)
  <2>1. slots["screen"]["elementBounds"] = Now("elementBounds", slots, version)
    BY <1>3, <1>7, SceneFacts
  <2>2. version["elementBounds"] = 0 /\ version["screenOrigin"] = 0
    <3>1. "elementBounds" \in Parts /\ "screenOrigin" \in Parts
      BY SceneAssumption DEF Parts
    <3> QED
      BY <1>1, <3>1
  <2> QED
    BY <1>1, <2>1, <2>2, SceneFacts DEF ScreenOK
<1> QED
  BY <1>1, <1>9, <1>10 DEF SceneInv

\* A call of an update.
LEMMA CallStep ==
  ASSUME SceneInv, Call
  PROVE  SceneInv' /\ Onward(slots, slots')
<1>1. Good(version, slots, stack, tasks, alive) /\ ScreenOK(version, slots, tasks) /\ stack # <<>>
  BY DEF SceneInv, Call
<1>2. PICK u : u = Head(stack)
  OBVIOUS
<1>3. PICK k : k = FirstOf(u.left)
  OBVIOUS
<1>4. PICK w : w = [u EXCEPT !.left = @ \ {k}]
  OBVIOUS
<1>5. PICK c : c = [from |-> u.from, to |-> Links[k].to, value |-> u.value]
  OBVIOUS
<1>6. c.from = u.from /\ c.to = Links[k].to /\ c.value = u.value
  BY <1>5
<1>7. Found(version, slots, stack, alive, u, k, w)
  BY <1>1, <1>2, <1>3, <1>4, CallFinds
<1>8. version' = version /\ alive' = alive
  BY DEF Call
<1>9. CASE Links[k].strong
  <2>1. slots' = slots /\ stack' = Enter(w, Tail(stack)) /\ tasks' = Append(tasks, c)
    BY <1>2, <1>3, <1>4, <1>5, <1>9 DEF Call, Queue
  <2>2. Good(version, slots, stack', tasks', alive)
    BY <1>1, <1>5, <1>7, <1>9, <2>1, CallStrong
  <2>3. ScreenOK(version, slots, tasks')
    <3>1. tasks \in Seq(Tasks) /\ k \in 1..N /\ u.value = Now(u.from, slots, version) /\ Links[k].from = u.from
      BY <1>1, <1>7 DEF Good, Typed, Found
    <3>2. Queued(tasks, c, tasks')
      <4>1. c \in Tasks
        BY <1>5, <1>7, <3>1, LinkFacts DEF Found, Tasks
      <4> QED
        BY <2>1, <3>1, <4>1, AppendIs
    <3>3. c.to = "screen" => c.value = {<<"elementBounds", version["elementBounds"]>>}
      BY <1>6, <3>1, SceneFacts
    <3>4. version["elementBounds"] \in Nat
      BY <1>1, SceneAssumption DEF Good, Typed, Parts
    <3>5. \A i \in 1..Len(tasks') : i = Len(tasks') \/ i \in 1..Len(tasks)
      BY <3>2 DEF Queued
    <3> QED
      BY <1>1, <3>2, <3>3, <3>4, <3>5 DEF ScreenOK, Queued
  <2>4. Onward(slots, slots')
    <3>1. \A n \in Watchers : n \in All /\ n \notin Roots
      BY Distinct DEF All
    <3>2. \A n \in Watchers : Compute(n, slots) \in Values
      BY <1>1, <3>1, NowTyped DEF Good, Typed, Now
    <3> QED
      BY <2>1, <3>2, OlderSelf DEF Onward
  <2> QED
    BY <1>8, <2>1, <2>2, <2>3, <2>4 DEF SceneInv
<1>10. CASE ~Links[k].strong
  <2>0. PICK m : m = Links[k].to
    OBVIOUS
  <2>1. /\ slots' = [slots EXCEPT ![m][u.from] = u.value] /\ tasks' = tasks
        /\ stack' = Enter(Update(m, Compute(m, slots'), alive), Enter(w, Tail(stack)))
    BY <1>2, <1>3, <1>4, <1>10, <2>0 DEF Call, Slot
  <2>2. Good(version, slots', stack', tasks, alive) /\ Onward(slots, slots')
    BY <1>1, <1>7, <1>10, <2>0, <2>1, CallWeak
  <2>3. ScreenOK(version, slots', tasks)
    <3>1. k \in 1..N /\ Links[k].from = u.from /\ u.value \in Values
      BY <1>7 DEF Found
    <3>2. Links[k].to \in Watchers /\ u.from \in SourcesOf(Links[k].to) /\ Links[k].to # "screen"
      BY <1>10, <3>1, LinkFacts, SceneFacts, Distinct
    <3>3. Given(slots', slots, Links[k].to, u.from, u.value)
      BY <1>1, <2>0, <2>1, <3>1, <3>2, SlotIs DEF Good, Typed
    <3>4. slots'["screen"]["elementBounds"] = slots["screen"]["elementBounds"]
      BY <3>2, <3>3, SceneFacts DEF Given
    <3> QED
      BY <1>1, <3>4 DEF ScreenOK
  <2> QED
    BY <1>8, <2>1, <2>2, <2>3 DEF SceneInv
<1> QED
  BY <1>9, <1>10

\* Events, tools and the table set a part of a state.
LEMMA SetStep ==
  ASSUME SceneInv, NEW p \in Parts, p # "screenOrigin", Set(p)
  PROVE  SceneInv' /\ slots' = slots
<1>1. Good(version, slots, <<>>, tasks, alive) /\ ScreenOK(version, slots, tasks)
  BY DEF SceneInv, Set, SetPart
<1>2. slots' = slots /\ tasks' = tasks /\ alive' = alive
  BY DEF Set
<1>3. PICK root : root = CHOOSE r \in Roots : p \in PartsOf[r]
  OBVIOUS
<1>4. root \in Roots /\ p \in PartsOf[root]
  BY <1>3 DEF Parts
<1>5. /\ version' = [version EXCEPT ![p] = version[p] + 1]
      /\ stack' = Enter(Update(root, {<<q, version'[q]>> : q \in PartsOf[root]}, alive), <<>>)
  BY <1>3 DEF Set, SetPart
<1>6. version \in [Parts -> Nat]
  BY <1>1 DEF Good, Typed
<1>7. version[p] + 1 \in Nat /\ version[p] <= version[p] + 1
  BY <1>6
<1>8. Good(version', slots, stack', tasks, alive)
  BY <1>1, <1>4, <1>5, <1>7, SetKeeps
<1>9. version'["screenOrigin"] = version["screenOrigin"]
  BY <1>5, <1>6, SceneAssumption
<1>10. ScreenOK(version', slots, tasks)
  BY <1>1, <1>9 DEF ScreenOK
<1> QED
  BY <1>2, <1>8, <1>10 DEF SceneInv

\* What both kinds of microtasks do first.
LEMMA WriteStep ==
  ASSUME SceneInv, stack = <<>>, tasks # <<>>, Slot(Head(tasks)), tasks' = Tail(tasks)
  PROVE  /\ Good(version, slots', <<>>, tasks', alive) /\ Onward(slots, slots')
         /\ Older(slots[Head(tasks).to][Head(tasks).from], Head(tasks).value)
         /\ Taken(tasks, Head(tasks), tasks')
         /\ Given(slots', slots, Head(tasks).to, Head(tasks).from, Head(tasks).value)
         /\ Head(tasks).to = "screen" => Head(tasks).from = "elementBounds"
         /\ \A i \in 1..Len(tasks') :
              tasks'[i].to = "screen" => \E x \in Nat : tasks'[i].value = {<<"elementBounds", x>>}
<1>1. Good(version, slots, <<>>, tasks, alive) /\ ScreenOK(version, slots, tasks)
  BY DEF SceneInv
<1>2. PICK c : c = Head(tasks)
  OBVIOUS
<1>3. slots' = [slots EXCEPT ![c.to][c.from] = c.value]
  BY <1>2 DEF Slot
<1>4. Good(version, slots', <<>>, tasks', alive) /\ Onward(slots, slots') /\ Older(slots[c.to][c.from], c.value)
  BY <1>1, <1>2, <1>3, WriteKeeps
<1>5. Shaped(slots) /\ tasks \in Seq(Tasks) /\ Asked(tasks, alive)
  BY <1>1 DEF Good, Typed
<1>6. Taken(tasks, c, tasks') /\ c \in Tasks
  BY <1>2, <1>5, TakenIs
<1>7. PICK k \in 1..N : Links[k].to = c.to /\ Links[k].from = c.from
  <2>1. 1 \in 1..Len(tasks) /\ tasks[1] = c
    BY <1>6 DEF Taken
  <2> QED
    BY <1>5, <2>1 DEF Asked
<1>8. Given(slots', slots, c.to, c.from, c.value)
  <2>1. c.to \in Watchers /\ c.from \in SourcesOf(c.to) /\ c.value \in Values
    BY <1>6, <1>7, LinkFacts DEF Tasks
  <2> QED
    BY <1>3, <1>5, <2>1, SlotIs
<1>9. c.to = "screen" => c.from = "elementBounds"
  BY <1>7, SceneFacts
<1>10. \A i \in 1..Len(tasks') : i + 1 \in 1..Len(tasks) /\ tasks'[i] = tasks[i + 1]
  BY <1>6 DEF Taken
<1>11. \A i \in 1..Len(tasks') :
         tasks'[i].to = "screen" => \E x \in Nat : tasks'[i].value = {<<"elementBounds", x>>}
  BY <1>1, <1>10 DEF ScreenOK
<1> QED
  BY <1>2, <1>4, <1>6, <1>8, <1>9, <1>11

\* A microtask that only writes.
LEMMA RunOtherStep ==
  ASSUME SceneInv, RunOther
  PROVE  SceneInv' /\ Onward(slots, slots')
<1>1. stack = <<>> /\ tasks # <<>> /\ Head(tasks).to # "screen" /\ Slot(Head(tasks)) /\ tasks' = Tail(tasks)
  BY DEF RunOther, RunWrite
<1>2. version' = version /\ stack' = stack /\ alive' = alive
  BY DEF RunOther, RunWrite
<1>3. /\ Good(version, slots', <<>>, tasks', alive) /\ Onward(slots, slots')
      /\ Given(slots', slots, Head(tasks).to, Head(tasks).from, Head(tasks).value)
      /\ \A i \in 1..Len(tasks') :
           tasks'[i].to = "screen" => \E x \in Nat : tasks'[i].value = {<<"elementBounds", x>>}
  BY <1>1, WriteStep
<1>4. slots'["screen"]["elementBounds"] = slots["screen"]["elementBounds"]
  BY <1>1, <1>3, SceneFacts DEF Given
<1>5. ScreenOK(version, slots', tasks')
  BY <1>3, <1>4 DEF ScreenOK, SceneInv
<1> QED
  BY <1>1, <1>2, <1>3, <1>5 DEF SceneInv

\* The watcher of the bounds writes and sets the origin, which is never an older one.
LEMMA FollowBoundsStep ==
  ASSUME SceneInv, FollowBounds
  PROVE  SceneInv' /\ Onward(slots, slots')
<1>1. /\ stack = <<>> /\ tasks # <<>> /\ Head(tasks).to = "screen" /\ Slot(Head(tasks))
      /\ tasks' = Tail(tasks) /\ alive' = alive
  BY DEF FollowBounds, SetPart
<1>2. PICK c : c = Head(tasks)
  OBVIOUS
<1>3. /\ Good(version, slots', <<>>, tasks', alive) /\ Onward(slots, slots')
      /\ Older(slots[c.to][c.from], c.value) /\ Taken(tasks, c, tasks')
      /\ Given(slots', slots, c.to, c.from, c.value)
      /\ c.to = "screen" /\ c.from = "elementBounds"
      /\ \A i \in 1..Len(tasks') :
           tasks'[i].to = "screen" => \E x \in Nat : tasks'[i].value = {<<"elementBounds", x>>}
  BY <1>1, <1>2, WriteStep
<1>4. PICK x \in Nat : c.value = {<<"elementBounds", x>>}
  <2>1. 1 \in 1..Len(tasks) /\ tasks[1] = c
    BY <1>3 DEF Taken
  <2> QED
    BY <1>3, <2>1 DEF SceneInv, ScreenOK
<1>5. SetPart("screenOrigin", x)
  BY <1>2, <1>4 DEF FollowBounds
<1>6. version["screenOrigin"] <= x
  <2>1. Older({<<"elementBounds", version["screenOrigin"]>>}, {<<"elementBounds", x>>})
    BY <1>3, <1>4 DEF SceneInv, ScreenOK
  <2> QED
    BY <2>1 DEF Older
<1>7. "screenOrigin" \in Parts
  BY SceneAssumption
<1>8. PICK root : root = CHOOSE r \in Roots : "screenOrigin" \in PartsOf[r]
  OBVIOUS
<1>9. root \in Roots /\ "screenOrigin" \in PartsOf[root]
  BY <1>7, <1>8 DEF Parts
<1>10. /\ version' = [version EXCEPT !["screenOrigin"] = x]
       /\ stack' = Enter(Update(root, {<<q, version'[q]>> : q \in PartsOf[root]}, alive), <<>>)
  BY <1>5, <1>8 DEF SetPart
<1>11. Good(version', slots', stack', tasks', alive)
  BY <1>3, <1>6, <1>9, <1>10, SetKeeps
<1>12. slots'["screen"]["elementBounds"] = {<<"elementBounds", x>>}
  BY <1>3, <1>4, SceneFacts DEF Given
<1>13. version'["screenOrigin"] = x
  BY <1>7, <1>10 DEF SceneInv, Good, Typed
<1>14. ScreenOK(version', slots', tasks')
  BY <1>3, <1>12, <1>13 DEF ScreenOK
<1> QED
  BY <1>1, <1>3, <1>11, <1>14 DEF SceneInv

\* A selection is built, restored or not.
LEMMA CreateStep ==
  ASSUME SceneInv, CreateSelection
  PROVE  SceneInv' /\ \A n \in Shown : Older(Compute(n, slots), Compute(n, slots'))
<1>1. Good(version, slots, <<>>, tasks, alive) /\ alive = All \ Latecomers /\ ScreenOK(version, slots, tasks)
  <2>1. "corner" \in All /\ "corner" \notin alive /\ stack = <<>>
    BY SceneAssumption, LinksAssumption DEF CreateSelection, All
  <2> QED
    BY <2>1 DEF SceneInv
<1>2. PICK restored \in BOOLEAN :
        /\ version' = IF restored THEN [version EXCEPT !["srt"] = @ + 1] ELSE version
        /\ Build(Latecomers, version')
        /\ restored => Queue([from |-> "srt", to |-> "rootTransform", value |-> Fresh("srt", version')])
        /\ ~restored => tasks' = tasks
  BY DEF CreateSelection
<1>3. version' \in [Parts -> Nat] /\ \A q \in Parts : q # "srt" => version'[q] = version[q]
  <2>1. version \in [Parts -> Nat] /\ "srt" \in Parts
    BY <1>1, SceneAssumption DEF Good, Typed, Parts
  <2>2. CASE restored
    <3>1. version' = [version EXCEPT !["srt"] = version["srt"] + 1]
      BY <1>2, <2>2
    <3> QED
      BY <2>1, <3>1
  <2>3. CASE ~restored
    BY <1>2, <2>1, <2>3
  <2> QED
    BY <2>2, <2>3
<1>4. slots' = [n \in Watchers |->
                  IF n \in Latecomers THEN [s \in SourcesOf(n) |-> Fresh(s, version')] ELSE slots[n]]
  BY <1>2 DEF Build
<1>5. alive' = All /\ stack' = <<>>
  <2>1. alive' = alive \cup Latecomers /\ stack' = stack /\ stack = <<>>
    BY <1>2 DEF Build, CreateSelection
  <2> QED
    BY <1>1, <2>1, LinksAssumption DEF All
<1>6. Good(version', slots', <<>>, tasks, All) /\ Built(slots', slots, version')
  BY <1>1, <1>3, <1>4, BuildKeeps
<1>7. ScreenOK(version', slots', tasks)
  <2>1. slots'["screen"]["elementBounds"] = slots["screen"]["elementBounds"]
    BY <1>6, SceneFacts, SceneAssumption DEF Built
  <2>2. version'["screenOrigin"] = version["screenOrigin"]
    BY <1>3, SceneAssumption
  <2> QED
    BY <1>1, <2>1, <2>2 DEF ScreenOK
<1>8. \A n \in Shown : Older(Compute(n, slots), Compute(n, slots'))
  <2> SUFFICES ASSUME NEW n \in Shown PROVE Older(Compute(n, slots), Compute(n, slots'))
    OBVIOUS
  <2>1. n \in Watchers /\ n \notin Latecomers /\ n \in All /\ n \notin Roots
    BY <1>1, Distinct DEF Shown, Leaves
  <2>2. \A s \in SourcesOf(n) : slots'[n][s] = slots[n][s]
    BY <1>6, <2>1 DEF Built
  <2>3. Now(n, slots', version) = Now(n, slots, version)
    BY <2>2, NowSame
  <2>4. Now(n, slots, version) \in Values
    BY <1>1, <2>1, NowTyped DEF Good, Typed
  <2> QED
    BY <2>1, <2>3, <2>4, OlderSelf DEF Now
<1>9. CASE ~restored
  BY <1>2, <1>5, <1>6, <1>7, <1>8, <1>9 DEF SceneInv
<1>10. CASE restored
  <2>1. PICK c : c = [from |-> "srt", to |-> "rootTransform", value |-> Fresh("srt", version')]
    OBVIOUS
  <2>2. c.from = "srt" /\ c.to = "rootTransform" /\ c.value = Fresh("srt", version')
    BY <2>1
  <2>3. tasks' = Append(tasks, c)
    BY <1>2, <1>10, <2>1 DEF Queue
  <2>4. PICK k \in 1..N : Links[k].strong /\ Links[k].from = c.from /\ Links[k].to = c.to
    BY <2>2, SceneFacts
  <2>5. c.value = Now(Links[k].from, slots', version') /\ c.value \in Values
    <3>1. "srt" \in Roots /\ "srt" \in All
      BY SceneAssumption DEF All
    <3> QED
      BY <1>3, <2>2, <2>4, <3>1, FreshRoot, FreshTyped DEF Now
  <2>6. c \in Tasks
    BY <2>1, <2>2, <2>4, <2>5, LinkFacts DEF Tasks
  <2>7. /\ version' \in [Parts -> Nat] /\ Shaped(slots') /\ tasks \in Seq(Tasks) /\ Founded(All)
        /\ Asked(tasks, All) /\ LinksOK(version', slots', <<>>, tasks, All)
    BY <1>6 DEF Good, Typed
  <2>8. Queued(tasks, c, tasks')
    BY <2>3, <2>6, <2>7, AppendIs
  <2>9. LinksOK(version', slots', <<>>, tasks', All)
    BY <2>4, <2>5, <2>7, <2>8, EmptyStack, QueueLinks
  <2>10. Asked(tasks', All)
    <3>1. Links[k].to \in All
      BY LinkFacts DEF All
    <3> QED
      BY <2>4, <2>7, <2>8, <3>1, QueuedAsked
  <2>11. Good(version', slots', <<>>, tasks', All)
    BY <2>7, <2>8, <2>9, <2>10, EmptyStack DEF Good, Typed, Queued
  <2>12. \A i \in 1..Len(tasks') : i = Len(tasks') \/ i \in 1..Len(tasks)
    BY <2>8 DEF Queued
  <2>13. ScreenOK(version', slots', tasks')
    BY <1>7, <2>2, <2>8, <2>12, SceneFacts DEF ScreenOK, Queued
  <2> QED
    BY <1>5, <1>8, <2>11, <2>13 DEF SceneInv
<1> QED
  BY <1>9, <1>10

\* Every step keeps the invariant and brings no leaf back.
LEMMA NextStep ==
  ASSUME SceneInv, Next
  PROVE  SceneInv' /\ \A n \in Shown : Older(Compute(n, slots), Compute(n, slots'))
<1>1. ASSUME Onward(slots, slots') PROVE \A n \in Shown : Older(Compute(n, slots), Compute(n, slots'))
  BY <1>1 DEF Onward, Shown, Leaves
<1>2. ASSUME slots' = slots PROVE \A n \in Shown : Older(Compute(n, slots), Compute(n, slots'))
  <2> SUFFICES ASSUME NEW n \in Shown PROVE Older(Compute(n, slots), Compute(n, slots))
    BY <1>2
  <2>1. n \in All /\ n \notin Roots
    BY Distinct DEF Shown, Leaves, All
  <2>2. Now(n, slots, version) \in Values
    BY <2>1, NowTyped DEF SceneInv, Good, Typed
  <2> QED
    BY <2>1, <2>2, OlderSelf DEF Now
<1>3. CASE Call
  BY <1>1, <1>3, CallStep
<1>4. CASE RunOther
  BY <1>1, <1>4, RunOtherStep
<1>5. CASE FollowBounds
  BY <1>1, <1>5, FollowBoundsStep
<1>6. CASE Event \/ Measured \/ Pan \/ UpdateSrt \/ ChangeItems \/ ChangeTool
  <2>1. PICK p : /\ Set(p)
                 /\ p \in {"cursorPos", "elementBounds", "stretch", "openState", "bbox", "targetOffset",
                           "srt", "ownItems", "toolState"}
    BY <1>6 DEF Event, Measured, Pan, UpdateSrt, ChangeItems, ChangeTool
  <2>2. p \in Parts /\ p # "screenOrigin"
    BY <2>1, SceneAssumption DEF Parts
  <2> QED
    BY <1>2, <2>1, <2>2, SetStep
<1>7. CASE CreateSelection
  BY <1>7, CreateStep
<1> QED
  BY <1>3, <1>4, <1>5, <1>6, <1>7 DEF Next

-----------------------------------------------------------------------------
(* The theorems.                                                           *)

(* Whatever is set, built, called and queued, every link is either still   *)
(* to be called or what is on its way to its watcher ends with what its    *)
(* source is, in order (State.ts, Scene).                                  *)
THEOREM LinksKept == Spec => []SceneInv
<1>1. Init => SceneInv
  BY InitInv
<1>2. SceneInv /\ [Next]_vars => SceneInv'
  <2>1. CASE Next
    BY <2>1, NextStep
  <2>2. CASE UNCHANGED vars
    BY <2>2 DEF SceneInv, vars
  <2> QED
    BY <2>1, <2>2
<1> QED
  BY <1>1, <1>2, PTL DEF Spec

(* When the call that set a state has returned, every state that follows   *)
(* from it is what the mutable states say, in any graph of states          *)
(* (State.ts:128, update).                                                 *)
THEOREM StatesSettled == Spec => []Settled
<1>1. SceneInv => Settled
  <2> SUFFICES ASSUME SceneInv, stack = <<>>, NEW n \in alive \cap Watchers, ~IsStrong(n)
               PROVE  Value(n) = Fresh(n, version)
    BY DEF Settled
  <2>1. Good(version, slots, <<>>, tasks, alive)
    BY DEF SceneInv
  <2>2. Now(n, slots, version) = Fresh(n, version)
    BY <2>1, SettledThen
  <2> QED
    BY <2>2, Distinct DEF Now, Value
<1> QED
  BY <1>1, LinksKept, PTL

(* Whenever the browser may paint, every element shows the current states, *)
(* those that are called in microtasks too (State.ts:128, update).         *)
THEOREM LeavesPainted == Spec => []Painted
<1>1. SceneInv => Painted
  <2> SUFFICES ASSUME SceneInv, stack = <<>>, tasks = <<>>, NEW n \in Shown
               PROVE  Value(n) = Fresh(n, version)
    BY DEF Painted, Rest
  <2>1. Good(version, slots, <<>>, <<>>, alive)
    BY DEF SceneInv
  <2>2. n \in alive /\ n \in Watchers
    BY DEF Shown, Leaves
  <2>3. Now(n, slots, version) = Fresh(n, version)
    BY <2>1, <2>2, PaintedThen
  <2> QED
    BY <2>2, <2>3, Distinct DEF Now, Value
<1> QED
  BY <1>1, LinksKept, PTL

(* No element goes back to an older state, in whatever order updates and   *)
(* microtasks interleave (State.ts:128, update).                           *)
THEOREM LeavesOnward == Spec => NeverBack
<1> DEFINE Back == \A n \in Shown : \A v \in Value(n)' : \E w \in Value(n) : w[1] = v[1] /\ w[2] <= v[2]
<1>1. SceneInv /\ [Next]_vars => [Back]_vars
  <2> SUFFICES ASSUME SceneInv, Next PROVE Back
    OBVIOUS
  <2>1. \A n \in Shown : Older(Compute(n, slots), Compute(n, slots'))
    BY NextStep
  <2>2. \A n \in Shown : Value(n) = Compute(n, slots) /\ Value(n)' = Compute(n, slots')
    BY DEF Value
  <2> QED
    BY <2>1, <2>2 DEF Older
<1> HIDE DEF Back
<1>2. Spec => [][Back]_vars
  BY <1>1, LinksKept, PTL DEF Spec
<1> QED
  BY <1>2 DEF NeverBack, Back
=============================================================================
