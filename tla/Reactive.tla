------------------------------ MODULE Reactive ------------------------------
(***************************************************************************)
(* The states of util/State.ts and what follows when one of them is set.   *)
(* A watcher of a derived, combined or extracted state, or of watchOn, is  *)
(* called at once and before the next one: the updates in progress, with   *)
(* the watchers each has still to call, are the stack.  A watcher of       *)
(* watch() is queued as a microtask with the value it will be given.       *)
(*                                                                         *)
(* The map of a derived state is any function, so a value is the set of    *)
(* the parts of mutable states it was computed from, with their versions.  *)
(***************************************************************************)
EXTENDS Naturals, Sequences, SequencesExt, FiniteSets

CONSTANTS
  PartsOf,   \* the parts of every mutable state
  Picks,     \* the parts an extracted state keeps
  Links,     \* who watches whom, in order of registration, as [from, to, strong]
  Latecomers \* the states and watchers that are built later

Roots == DOMAIN PartsOf
Parts == UNION {PartsOf[r] : r \in Roots}
Watchers == {l.to : l \in ToSet(Links)}
Leaves == Watchers \ {l.from : l \in ToSet(Links)}
SourcesOf(n) == {l.from : l \in {k \in ToSet(Links) : k.to = n}}
IsStrong(n) == \E l \in ToSet(Links) : l.to = n /\ l.strong

ASSUME LinksAssumption ==
  /\ Links \in Seq([from : Roots \cup Watchers, to : Watchers, strong : BOOLEAN])
  /\ Roots \cap Watchers = {} /\ DOMAIN Picks \subseteq Watchers
  /\ \A r, s \in Roots : r # s => PartsOf[r] \cap PartsOf[s] = {}
  \* A constructor registers with its sources before anybody can watch it.
  /\ \A i, j \in DOMAIN Links : Links[i].to = Links[j].from => i < j
  \* What watch() calls is no state, and watches nothing else.
  /\ \A i, j \in DOMAIN Links :
       Links[i].strong => Links[i].to # Links[j].from /\ (Links[i].to = Links[j].to => i = j)
  /\ Latecomers \subseteq Watchers
  /\ \A l \in ToSet(Links) : l.from \in Latecomers => l.to \in Latecomers

VARIABLES
  version,  \* of every part
  slots,    \* the latest value every watcher had of each of its sources
  stack,    \* updates in progress, the innermost first
  tasks,    \* microtasks with the value they will pass on
  alive     \* what has been built

vars == <<version, slots, stack, tasks, alive>>

Pick(n, value) ==
  IF n \in DOMAIN Picks THEN {v \in value : v[1] \in Picks[n]} ELSE value

Compute(n, held) == Pick(n, UNION {held[n][s] : s \in SourcesOf(n)})

\* this.value of what is no mutable state
Value(n) == Compute(n, slots)

\* What n would be, computed from the mutable states alone.
Support[n \in Roots \cup Watchers] ==
  IF n \in Roots THEN PartsOf[n]
  ELSE LET all == UNION {Support[s] : s \in SourcesOf(n)}
       IN  IF n \in DOMAIN Picks THEN all \cap Picks[n] ELSE all

Fresh(n, ver) == {<<p, ver[p]>> : p \in Support[n]}

Init ==
  /\ version = [p \in Parts |-> 0]
  /\ slots = [n \in Watchers |-> [s \in SourcesOf(n) |-> Fresh(s, version)]]
  /\ stack = <<>> /\ tasks = <<>>
  /\ alive = (Roots \cup Watchers) \ Latecomers

-----------------------------------------------------------------------------

\* The watchers update of n has to call, by the links they are known by.
Calls(n, living) == {k \in DOMAIN Links : Links[k].from = n /\ Links[k].to \in living}

\* First the weak watchers, then the strong ones, in order of registration.
Sooner(k, j)  == IF Links[k].strong = Links[j].strong THEN k < j ELSE Links[j].strong
FirstOf(left) == CHOOSE k \in left : \A j \in left \ {k} : Sooner(k, j)

Update(n, value, living) == [from |-> n, value |-> value, left |-> Calls(n, living)]

\* An update that has called everybody returns.
Enter(update, outer) == IF update.left = {} THEN outer ELSE <<update>> \o outer

\* Mutant: the handlers of a combined state share the last index.
SlotLast(c) ==
  LET last == CHOOSE l \in ToSet(Links) : l.to = c.to
  IN  slots' = [slots EXCEPT ![c.to][last.from] = c.value]

Slot(c) == slots' = [slots EXCEPT ![c.to][c.from] = c.value]

\* Mutants: a watcher that waits is not queued again; the latest comes first.
QueueOnce(c) ==
  tasks' = IF \E k \in DOMAIN tasks : tasks[k].to = c.to THEN tasks ELSE Append(tasks, c)

QueueFirst(c) == tasks' = <<c>> \o tasks

Queue(c) == tasks' = Append(tasks, c)

\* One call of the innermost update.
Call ==
  /\ stack # <<>>
  /\ LET u == Head(stack)
         k == FirstOf(u.left)
         c == [from |-> u.from, to |-> Links[k].to, value |-> u.value]
         rest == Enter([u EXCEPT !.left = @ \ {k}], Tail(stack))
     IN  IF Links[k].strong
         THEN stack' = rest /\ Queue(c) /\ UNCHANGED slots
         ELSE /\ Slot(c)
              /\ stack' = Enter(Update(c.to, Compute(c.to, slots'), alive), rest)
              /\ UNCHANGED tasks
  /\ UNCHANGED <<version, alive>>

\* set, updateBy, mutate, or set of an extracted state, which patches its
\* source and updates that.
SetPart(p, v) ==
  /\ stack = <<>>
  /\ version' = [version EXCEPT ![p] = v]
  /\ LET r == CHOOSE r \in Roots : p \in PartsOf[r]
     IN  stack' = Enter(Update(r, {<<q, version'[q]>> : q \in PartsOf[r]}, alive), <<>>)

\* The next microtask that is no more than a write.
RunWrite ==
  /\ stack = <<>> /\ tasks # <<>>
  /\ Slot(Head(tasks))
  /\ tasks' = Tail(tasks)
  /\ UNCHANGED <<version, stack, alive>>

\* Constructors: the map of what the sources are now.
Build(ns, ver) ==
  /\ alive' = alive \cup ns
  /\ slots' = [n \in Watchers |->
                 IF n \in ns THEN [s \in SourcesOf(n) |-> Fresh(s, ver)] ELSE slots[n]]

-----------------------------------------------------------------------------

Rest == stack = <<>> /\ tasks = <<>>

Shown == alive \cap Leaves

(* As soon as the call that set a state returns, every state derived from  *)
(* it, by whatever ways that meet again, is what the mutable states say.   *)
Settled ==
  stack = <<>> => \A n \in alive \cap Watchers :
                    ~IsStrong(n) => Value(n) = Fresh(n, version)

(* Whenever the browser may paint, every leaf shows the current states.  A *)
(* leaf that was never called shows what it was built with: nothing it     *)
(* depends on has changed since.                                           *)
Painted == Rest => \A n \in Shown : Value(n) = Fresh(n, version)

(* No leaf, however it is called, ever goes back to an older state.        *)
NeverBack ==
  [][\A n \in Shown : \A v \in Value(n)' : \E w \in Value(n) : w[1] = v[1] /\ w[2] <= v[2]]_vars
=============================================================================
