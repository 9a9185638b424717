--------------------------- MODULE WorkbenchProofs ---------------------------
(***************************************************************************)
(* Proofs about Workbench, for any containers, projects and sub-tabs and   *)
(* any number of events: tabs that were closed stay closed, labels and     *)
(* values belong to the page that shows them.                              *)
(***************************************************************************)
EXTENDS Workbench, SequenceLemmas, SequenceTheorems, TLAPS

-----------------------------------------------------------------------------
(* The inductive invariant. *)

\* A task that succeeded names the container it left.
Doable == {t \in Task : t.done = "done" => t.to \in Containers}

\* A navigation has a place to go, an answer is about what was asked for.
Typed ==
  /\ TypeOK /\ tasks \in Seq(Doable)
  /\ going = Still \/ going.to \in Paths
  /\ load.answer = Blank \/ (load.of \in Objects /\ load.answer.of = load.of)

\* Nothing that is shown, or on its way, is older than the last task on the container of the
\* page that settled: the page asked again when it did.
Fresh ==
  /\ \A c \in Containers : told[c] <= rev[c]
  /\ OnContainer /\ route \notin gone =>
       /\ load = NoLoad /\ shown.is = "ok" => shown.of = route /\ shown.rev >= told[route]
       /\ load.answer # Blank => load.answer.rev >= told[route]

\* The page has its tab; a tab that was closed is gone or goes with the transition under way,
\* which does not lead to it.
Tabbed ==
  /\ route \in Objects => IsOpen(route)
  /\ \A p \in closed : IsOpen(p) => p \in going.drops
  /\ going.to \notin closed

WorkbenchInv == Typed /\ LabelIsOwn /\ Fresh /\ Tabbed

-----------------------------------------------------------------------------
(* What the operators of the actions do. *)

\* The Layout's effect opens the tab of the page shown and nothing else.
LEMMA TabSyncKeeps ==
  ASSUME Typed, NEW p \in Paths, NEW q \in Queries, NEW d \in SUBSET Paths, NEW arrived \in BOOLEAN,
         TabSync(p, q, d, arrived)
  PROVE  /\ strip' \in Seq(Objects) /\ IsInjective(strip') /\ saved' \in [Objects -> Queries]
         /\ \A x : Contains(strip', x) <=> (Contains(strip, x) /\ x \notin d) \/ (x = p /\ p \in Objects)
<1> DEFINE kept == Without(strip, d)
<1>1. strip \in Seq(Objects) /\ IsInjective(strip) /\ saved \in [Objects -> Queries]
  BY DEF Typed, TypeOK
<1>2. /\ kept \in Seq(Objects) /\ IsInjective(kept)
      /\ \A x : Contains(kept, x) <=> Contains(strip, x) /\ x \notin d
  BY <1>1, WithoutKeeps
<1>3. strip' = IF p \in Lists \/ Contains(kept, p) THEN kept ELSE Append(kept, p)
  BY DEF TabSync
<1>4. \A x \in Objects : x \notin Lists
  BY WorkbenchAssumption DEF WorkbenchAssumption, Objects, Lists
<1>5. \A x : Contains(kept, x) => x \in Objects
  BY <1>2, ElementOfSeq DEF Contains
<1> HIDE DEF kept
<1>6. CASE p \in Lists \/ Contains(kept, p)
  <2>1. strip' = kept
    BY <1>3, <1>6
  <2>2. \A x : Contains(kept, x) <=> Contains(kept, x) \/ (x = p /\ p \in Objects)
    BY <1>4, <1>5, <1>6
  <2>3. /\ strip' \in Seq(Objects) /\ IsInjective(strip')
        /\ \A x : Contains(strip', x) <=> (Contains(strip, x) /\ x \notin d) \/ (x = p /\ p \in Objects)
    BY <1>2, <2>1, <2>2, Zenon
  <2> QED BY <1>1, <1>4, <2>3 DEF TabSync, Queries, Paths
<1>7. CASE ~(p \in Lists \/ Contains(kept, p))
  <2>1. strip' = Append(kept, p) /\ p \in Objects
    BY <1>3, <1>7 DEF Paths
  <2>2. /\ strip' \in Seq(Objects) /\ IsInjective(strip')
        /\ \A x : Contains(strip', x) <=> Contains(kept, x) \/ x = p
    BY <1>2, <1>7, <2>1, AppendKeeps
  <2>3. \A x : Contains(strip', x) <=> (Contains(strip, x) /\ x \notin d) \/ (x = p /\ p \in Objects)
    BY <1>2, <2>1, <2>2, Zenon
  <2> QED BY <1>1, <2>1, <2>2, <2>3 DEF TabSync, Queries
<1> QED BY <1>6, <1>7

\* A navigation takes the tabs to drop with it, and asks for the tab it leads to.
LEMMA NavigateKeeps ==
  ASSUME Typed, Tabbed, NEW to \in Paths, NEW q \in Queries, NEW drops \in SUBSET Objects,
         Navigate(to, q, drops)
  PROVE  /\ going' \in [to : Paths \cup {None}, query : Queries, drops : SUBSET Paths]
         /\ going'.to \in Paths /\ closed' \subseteq Objects
         /\ \A p \in closed' : IsOpen(p) => p \in going'.drops
         /\ going'.to \notin closed'
<1>1. going \in [to : Paths \cup {None}, query : Queries, drops : SUBSET Paths] /\ closed \subseteq Objects
  BY DEF Typed, TypeOK
<1>2. going' = [to |-> to, query |-> q, drops |-> going.drops \cup drops] /\ closed' = (closed \cup drops) \ {to}
  BY DEF Navigate
<1>3. \A p \in closed : IsOpen(p) => p \in going.drops
  BY DEF Tabbed
<1> QED BY <1>1, <1>2, <1>3 DEF Paths

\* The page's effect leaves a page that was not found, and a sub-tab that cannot be shown.
LEMMA EffectKeeps ==
  ASSUME Typed, Tabbed, NEW v, LeaveOrRedirect(route, query, v)
  PROVE  /\ going' \in [to : Paths \cup {None}, query : Queries, drops : SUBSET Paths]
         /\ going' = Still \/ going'.to \in Paths
         /\ closed' \subseteq Objects
         /\ \A p \in closed' : IsOpen(p) => p \in going'.drops
         /\ going'.to \notin closed'
<1>1. CASE NotFound(route, v)
  <2>1. route \in Objects /\ Navigate("overview", "", {route})
    BY <1>1 DEF LeaveOrRedirect, NotFound
  <2> QED BY <2>1, NavigateKeeps DEF Paths, Lists, Queries
<1>2. CASE ~NotFound(route, v) /\ Redirects(route, query, v)
  <2>1. route \in Paths /\ Navigate(route, "info", {})
    BY <1>2 DEF LeaveOrRedirect, Redirects, Paths, Objects
  <2>2. "info" \in Queries
    BY WorkbenchAssumption DEF WorkbenchAssumption, Queries
  <2> QED BY <2>1, <2>2, NavigateKeeps
<1>3. CASE ~NotFound(route, v) /\ ~Redirects(route, query, v)
  BY <1>3 DEF LeaveOrRedirect, Stay, Typed, TypeOK, Tabbed
<1> QED BY <1>1, <1>2, <1>3

\* What a tab is called is its own, whatever the page's value.
LEMMA LabelKeeps ==
  ASSUME Typed, LabelIsOwn, NEW p, NEW v, NEW d, LabelEffect(p, v, d)
  PROVE  label' \in [Objects -> Objects \cup {None}] /\ LabelIsOwn'
BY DEF Typed, TypeOK, LabelIsOwn, LabelEffect

\* The tab at the left is a page.
LEMMA LeftNeighborIsPath ==
  ASSUME Typed, NEW p
  PROVE  LeftNeighbor(p) \in Paths
<1> DEFINE i == CHOOSE n \in DOMAIN strip : strip[n] = p
<1>1. CASE IsOpen(p) /\ i > 1
  <2>1. strip \in Seq(Objects) /\ Len(strip) \in Nat /\ DOMAIN strip = 1..Len(strip)
    BY LenProperties DEF Typed, TypeOK
  <2>2. i \in 1..Len(strip)
    BY <1>1, <2>1 DEF IsOpen, Contains
  <2>3. strip[i - 1] \in Objects
    <3>1. i - 1 \in 1..Len(strip)
      BY <1>1, <2>1, <2>2
    <3> QED BY <2>1, <3>1, ElementOfSeq
  <2> QED BY <1>1, <2>3 DEF LeftNeighbor, Paths
<1>2. CASE ~(IsOpen(p) /\ i > 1)
  BY <1>2 DEF LeftNeighbor, ListOf, Paths, Lists
<1> QED BY <1>1, <1>2

-----------------------------------------------------------------------------
(* The actions. *)

\* A step that only asks for a navigation, starts a chip's animation, opens a dialog or queues.
LEMMA AsksKeeps ==
  ASSUME WorkbenchInv, UNCHANGED <<docker, place, tabs, load, told, gone>>,
         closing' \subseteq Objects, confirm' \in BOOLEAN, tasks' \in Seq(Doable),
         \/ UNCHANGED <<going, closed>>
         \/ \E to \in Paths, q \in Queries, drops \in SUBSET Objects : Navigate(to, q, drops)
  PROVE  WorkbenchInv'
<1>1. /\ going' \in [to : Paths \cup {None}, query : Queries, drops : SUBSET Paths]
      /\ going' = Still \/ going'.to \in Paths
      /\ closed' \subseteq Objects
      /\ \A p \in closed' : IsOpen(p) => p \in going'.drops
      /\ going'.to \notin closed'
  <2>1. CASE UNCHANGED <<going, closed>>
    BY <2>1 DEF WorkbenchInv, Typed, TypeOK, Tabbed
  <2>2. CASE \E to \in Paths, q \in Queries, drops \in SUBSET Objects : Navigate(to, q, drops)
    BY <2>2, NavigateKeeps DEF WorkbenchInv
  <2> QED BY <2>1, <2>2
<1>2. tasks' \in Seq(Task)
  <2>1. Doable \subseteq Task
    BY DEF Doable
  <2> QED BY <2>1, SeqMonotonic
<1>3. Typed'
  BY <1>1, <1>2 DEF WorkbenchInv, Typed, TypeOK, docker, place, tabs
<1>4. Fresh' /\ LabelIsOwn'
  BY DEF WorkbenchInv, Fresh, LabelIsOwn, OnContainer, docker, place, tabs
<1>5. Tabbed'
  BY <1>1 DEF WorkbenchInv, Tabbed, IsOpen, place, tabs
<1> QED BY <1>3, <1>4, <1>5 DEF WorkbenchInv

LEMMA UserAsks ==
  ASSUME WorkbenchInv,
         \/ \E p \in Paths, q \in Queries : Visit(p, q)
         \/ \E q \in SubTabs : SetTab(q)
         \/ Back \/ AskRemove \/ \E p \in Objects : StartClose(p)
         \/ \E v \in Verbs : Act(v)
         \/ \E yes \in BOOLEAN : AnswerRemove(yes)
  PROVE  WorkbenchInv'
<1>1. closing \subseteq Objects /\ confirm \in BOOLEAN /\ tasks \in Seq(Doable) /\ route \in Paths
  BY DEF WorkbenchInv, Typed, TypeOK
<1>2. CASE \E p \in Paths, q \in Queries : Visit(p, q)
  BY <1>1, <1>2, AsksKeeps DEF Visit
<1>3. CASE \E q \in SubTabs : SetTab(q)
  BY <1>1, <1>3, AsksKeeps DEF SetTab, Queries
<1>4. CASE Back
  <2>1. Navigate("containers", "", {route}) /\ route \in Objects
    BY <1>4 DEF Back, OnContainer, Objects
  <2>2. "containers" \in Paths /\ "" \in Queries /\ {route} \in SUBSET Objects
    BY <2>1 DEF Paths, Lists, Queries
  <2>3. \E to \in Paths, q \in Queries, drops \in SUBSET Objects : Navigate(to, q, drops)
    BY <2>1, <2>2, Zenon
  <2> QED BY <1>1, <1>4, <2>3, AsksKeeps DEF Back
<1>5. CASE AskRemove
  BY <1>1, <1>5, AsksKeeps DEF AskRemove, Stay
<1>6. CASE \E p \in Objects : StartClose(p)
  BY <1>1, <1>6, AsksKeeps DEF StartClose
<1>7. ASSUME NEW verb \in Verbs, OnContainer, Enqueue(verb)
      PROVE  tasks' \in Seq(Doable)
  <2>1. [verb |-> verb, on |-> route, done |-> None, to |-> None] \in Doable
    BY <1>7 DEF Doable, Task, OnContainer, None
  <2> QED BY <1>1, <1>7, <2>1, AppendProperties DEF Enqueue
<1>8. CASE \E v \in Verbs : Act(v)
  BY <1>1, <1>7, <1>8, AsksKeeps DEF Act, Enqueue, Ready
<1>9. CASE \E yes \in BOOLEAN : AnswerRemove(yes)
  <2>1. PICK yes \in BOOLEAN : AnswerRemove(yes)
    BY <1>9
  <2>2. CASE yes /\ OnContainer
    <3>1. Enqueue("delete") /\ "delete" \in Verbs
      BY <2>1, <2>2 DEF AnswerRemove, Verbs
    <3> QED BY <1>1, <1>7, <2>1, <2>2, <3>1, AsksKeeps DEF AnswerRemove, Enqueue
  <2>3. CASE ~(yes /\ OnContainer)
    BY <1>1, <2>1, <2>3, AsksKeeps DEF AnswerRemove
  <2> QED BY <2>2, <2>3
<1> QED BY <1>2, <1>3, <1>4, <1>5, <1>6, <1>8, <1>9

\* A chip that closes takes its tab along, at once or when the page has been left.
LEMMA CloseKeeps ==
  ASSUME WorkbenchInv, NEW p \in Objects, Close(p)
  PROVE  WorkbenchInv'
<1>1. closing' \subseteq Objects /\ confirm' \in BOOLEAN /\ tasks' \in Seq(Doable)
  BY DEF WorkbenchInv, Typed, TypeOK, Close
<1>2. CASE route = p
  <2>1. Navigate(LeftNeighbor(p), "", {p}) /\ "" \in Queries /\ {p} \in SUBSET Objects
    BY <1>2 DEF Close, Queries
  <2>2. LeftNeighbor(p) \in Paths
    BY LeftNeighborIsPath DEF WorkbenchInv
  <2>3. \E to \in Paths, q \in Queries, drops \in SUBSET Objects : Navigate(to, q, drops)
    BY <2>1, <2>2, Zenon
  <2> QED BY <1>1, <1>2, <2>3, AsksKeeps DEF Close
<1>3. CASE route # p
  <2>1. /\ TabSync(route, query, {p}, FALSE) /\ label' = [label EXCEPT ![p] = None]
        /\ closed' = (IF going.to = p THEN closed ELSE closed \cup {p}) /\ going' = going
    BY <1>3 DEF Close
  <2>2. route \in Paths /\ query \in Queries /\ {p} \in SUBSET Paths /\ FALSE \in BOOLEAN
    BY DEF WorkbenchInv, Typed, TypeOK, Paths
  <2>3. /\ strip' \in Seq(Objects) /\ IsInjective(strip') /\ saved' \in [Objects -> Queries]
        /\ \A x : Contains(strip', x) <=> (Contains(strip, x) /\ x # p) \/ (x = route /\ route \in Objects)
    <3>1. /\ strip' \in Seq(Objects) /\ IsInjective(strip') /\ saved' \in [Objects -> Queries]
          /\ \A x : Contains(strip', x)
                    <=> (Contains(strip, x) /\ x \notin {p}) \/ (x = route /\ route \in Objects)
      BY <2>1, <2>2, TabSyncKeeps DEF WorkbenchInv
    <3> QED BY <3>1
  <2>4. Typed'
    BY <1>1, <2>1, <2>3 DEF WorkbenchInv, Typed, TypeOK, Close, docker, place
  <2>5. LabelIsOwn' /\ Fresh'
    BY <2>1 DEF WorkbenchInv, Typed, TypeOK, LabelIsOwn, Fresh, OnContainer, Close, docker, place
  <2>6. route' = route /\ (route \in Objects => Contains(strip, route))
    BY DEF WorkbenchInv, Tabbed, IsOpen, Close, place
  <2>7. \A x \in closed' : Contains(strip', x) => x \in going'.drops
    BY <1>3, <2>1, <2>3, <2>6 DEF WorkbenchInv, Tabbed, IsOpen
  <2>8. Tabbed'
    BY <2>1, <2>3, <2>6, <2>7 DEF WorkbenchInv, Tabbed, IsOpen
  <2> QED BY <2>4, <2>5, <2>8 DEF WorkbenchInv
<1> QED BY <1>2, <1>3

\* A chip that is dragged changes its place and no other tab.
LEMMA MoveTabKeeps ==
  ASSUME WorkbenchInv, NEW p \in Objects, NEW i \in DOMAIN strip, MoveTab(p, i)
  PROVE  WorkbenchInv'
<1> DEFINE kept == Without(strip, {p})
<1>1. /\ strip \in Seq(Objects) /\ IsInjective(strip) /\ Contains(strip, p)
      /\ Len(strip) \in Nat /\ DOMAIN strip = 1..Len(strip)
  BY LenProperties DEF WorkbenchInv, Typed, TypeOK, MoveTab, IsOpen
<1>2. /\ kept \in Seq(Objects) /\ IsInjective(kept)
      /\ \A x : Contains(kept, x) <=> Contains(strip, x) /\ x \notin {p}
  BY <1>1, WithoutKeeps
<1>3. Len(kept) >= Len(strip) - 1 /\ Len(kept) \in Nat
  BY <1>1, <1>2, WithoutOne, LenProperties
<1>4. strip' = InsertAt(kept, i, p)
  BY DEF MoveTab
<1> HIDE DEF kept
<1>5. i \in 1..Len(kept) + 1 /\ ~Contains(kept, p)
  BY <1>1, <1>2, <1>3
<1>6. /\ strip' \in Seq(Objects) /\ IsInjective(strip')
      /\ \A x : Contains(strip', x) <=> Contains(kept, x) \/ x = p
  BY <1>2, <1>4, <1>5, InsertKeeps
<1>7. \A x : Contains(strip', x) <=> Contains(strip, x)
  BY <1>1, <1>2, <1>6
<1>8. Typed'
  BY <1>6 DEF WorkbenchInv, Typed, TypeOK, MoveTab, docker, place
<1>9. LabelIsOwn' /\ Fresh'
  BY DEF WorkbenchInv, LabelIsOwn, Fresh, OnContainer, MoveTab, docker, place
<1>10. Tabbed'
  BY <1>7 DEF WorkbenchInv, Tabbed, IsOpen, MoveTab, place
<1> QED BY <1>8, <1>9, <1>10 DEF WorkbenchInv

\* The page under a transition has its tab when the tabs to drop are gone, and it shows no value
\* of another container as its own: it asks for one.
LEMMA CommitKeeps ==
  ASSUME WorkbenchInv, Commit
  PROVE  WorkbenchInv'
<1> DEFINE p == going.to
           q == going.query
           v == IF SameComponent(p) THEN shown ELSE Blank
           restores == Remembers(p, q, p # last)
<1>1. /\ route' = p /\ query' = q /\ last' = p /\ shown' = v
      /\ load' = IF p = route THEN load
                 ELSE IF p \in Objects THEN [of |-> p, answer |-> Blank] ELSE NoLoad
      /\ TabSync(p, q, going.drops, p # last)
      /\ LabelEffect(p, v, going.drops)
      /\ closed' = IF NotFound(p, v) THEN closed \cup {p} ELSE closed
      /\ going' = IF NotFound(p, v) THEN [to |-> "overview", query |-> "", drops |-> {p}]
                  ELSE IF Redirects(p, q, v) THEN [Still EXCEPT !.to = p, !.query = "info"]
                  ELSE IF restores THEN [Still EXCEPT !.to = p, !.query = saved[p]]
                  ELSE Still
  BY DEF Commit
<1>2. /\ UNCHANGED <<exists, running, rev, closing, confirm, tasks, told, gone>>
      /\ p \in Paths /\ q \in Queries /\ going.drops \in SUBSET Paths /\ shown \in Values
      /\ load \in [of : Objects \cup {None}, answer : Values]
      /\ saved \in [Objects -> Queries] /\ closed \subseteq Objects
  BY DEF Commit, docker, WorkbenchInv, Typed, TypeOK
<1>3. "overview" \in Paths /\ "overview" \notin Objects /\ None \notin Objects /\ "info" \in Queries
  BY WorkbenchAssumption DEF WorkbenchAssumption, Paths, Lists, Objects, Queries, None
<1>4. Blank \in Values
  BY DEF Blank, Values, None
<1>5. v \in Values
  BY <1>2, <1>4
<1>6. label' \in [Objects -> Objects \cup {None}] /\ LabelIsOwn'
  BY <1>1, LabelKeeps DEF WorkbenchInv
<1>7. /\ strip' \in Seq(Objects) /\ IsInjective(strip') /\ saved' \in [Objects -> Queries]
      /\ \A x : Contains(strip', x) <=> (Contains(strip, x) /\ x \notin going.drops) \/ (x = p /\ p \in Objects)
  <2>1. PICK r \in Paths, u \in Queries, d \in SUBSET Paths : r = p /\ u = q /\ d = going.drops
    BY <1>2
  <2>2. TabSync(r, u, d, TRUE) \/ TabSync(r, u, d, FALSE)
    BY <1>1, <2>1 DEF TabSync, Remembers
  <2>3. /\ strip' \in Seq(Objects) /\ IsInjective(strip') /\ saved' \in [Objects -> Queries]
        /\ \A x : Contains(strip', x) <=> (Contains(strip, x) /\ x \notin d) \/ (x = r /\ r \in Objects)
    BY <2>2, TabSyncKeeps DEF WorkbenchInv
  <2> QED BY <2>1, <2>3
<1> HIDE DEF v
<1>8. /\ load' \in [of : Objects \cup {None}, answer : Values] /\ (load' = NoLoad \/ load'.of = route')
      /\ load'.answer = Blank \/ (load'.of \in Objects /\ load'.answer.of = load'.of)
  <2>1. CASE p = route
    BY <1>1, <1>2, <2>1 DEF WorkbenchInv, Typed, TypeOK
  <2>2. CASE p # route /\ p \in Objects
    BY <1>1, <1>4, <2>2
  <2>3. CASE p # route /\ p \notin Objects
    BY <1>1, <1>4, <2>3 DEF NoLoad
  <2> QED BY <2>1, <2>2, <2>3
<1>9. /\ going' \in [to : Paths \cup {None}, query : Queries, drops : SUBSET Paths]
      /\ going' = Still \/ going'.to \in Paths
      /\ going' = Still \/ going'.to = p \/ going'.to = "overview"
      /\ NotFound(p, v) => going'.to = "overview" /\ going'.drops = {p}
      /\ closed' \subseteq Objects
  <2>1. Still \in [to : Paths \cup {None}, query : Queries, drops : SUBSET Paths] /\ Still.to = None
    BY DEF Still, Queries
  <2>2. CASE NotFound(p, v)
    BY <1>1, <1>2, <1>3, <2>2 DEF NotFound, Queries
  <2>3. CASE ~NotFound(p, v) /\ Redirects(p, q, v)
    BY <1>1, <1>2, <1>3, <2>3 DEF Still
  <2>4. CASE ~NotFound(p, v) /\ ~Redirects(p, q, v) /\ restores
    <3>1. saved[p] \in Queries
      BY <1>2, <2>4 DEF Remembers
    <3> QED BY <1>1, <1>2, <2>4, <3>1 DEF Still
  <2>5. CASE ~NotFound(p, v) /\ ~Redirects(p, q, v) /\ ~restores
    BY <1>1, <1>2, <2>1, <2>5
  <2> QED BY <2>2, <2>3, <2>4, <2>5
<1>10. Typed'
  <2>1. route' \in Paths /\ query' \in Queries /\ last' \in Paths \cup {None} /\ shown' \in Values
    BY <1>1, <1>2, <1>5
  <2> QED BY <1>2, <1>6, <1>7, <1>8, <1>9, <2>1 DEF WorkbenchInv, Typed, TypeOK
<1>11. Fresh'
  <2> SUFFICES ASSUME p \in Containers, p \notin gone
               PROVE  /\ load' = NoLoad /\ v.is = "ok" => v.of = p /\ v.rev >= told[p]
                      /\ load'.answer # Blank => load'.answer.rev >= told[p]
    BY <1>1, <1>2 DEF WorkbenchInv, Fresh, OnContainer
  <2>1. CASE p = route
    <3>1. v = shown
      BY <2>1 DEF v, SameComponent
    <3> QED BY <1>1, <2>1, <3>1 DEF WorkbenchInv, Fresh, OnContainer
  <2>2. CASE p # route
    <3>1. load' = [of |-> p, answer |-> Blank] /\ p # None
      BY <1>1, <1>3, <2>2 DEF Objects
    <3> QED BY <3>1 DEF NoLoad
  <2> QED BY <2>1, <2>2
<1>12. Tabbed'
  <2>1. route' \in Objects => Contains(strip', route')
    BY <1>1, <1>7
  <2>2. ASSUME NEW x \in closed', Contains(strip', x) PROVE x \in going'.drops
    <3>1. x \in closed /\ Contains(strip, x) => x \in going.drops
      BY DEF WorkbenchInv, Tabbed, IsOpen
    <3>2. p \notin closed
      BY DEF WorkbenchInv, Tabbed
    <3>3. x = p
      <4>1. x \in closed \/ x = p
        BY <1>1
      <4>2. (Contains(strip, x) /\ x \notin going.drops) \/ x = p
        BY <1>7, <2>2
      <4> QED BY <3>1, <4>1, <4>2
    <3>4. NotFound(p, v)
      BY <1>1, <2>2, <3>2, <3>3
    <3> QED BY <1>9, <3>3, <3>4
  <2>3. going'.to \notin closed'
    <3>1. p \notin closed
      BY DEF WorkbenchInv, Tabbed
    <3>2. CASE NotFound(p, v)
      BY <1>3, <1>9, <3>2
    <3>3. CASE ~NotFound(p, v)
      BY <1>1, <1>2, <1>3, <1>9, <3>1, <3>3 DEF Still
    <3> QED BY <3>2, <3>3
  <2> QED BY <2>1, <2>2, <2>3 DEF Tabbed, IsOpen
<1> QED BY <1>6, <1>10, <1>11, <1>12 DEF WorkbenchInv

\* An answer is of the container or project as it is.
LEMMA ServeKeeps ==
  ASSUME WorkbenchInv, Serve
  PROVE  WorkbenchInv'
<1> DEFINE a == Answer(load.of)
<1>1. /\ load \in [of : Objects \cup {None}, answer : Values] /\ load.of # None /\ load.of = route
      /\ load' = [load EXCEPT !.answer = a] /\ rev \in [Objects -> Nat]
  BY DEF WorkbenchInv, Typed, TypeOK, Serve, NoLoad
<1>2. a \in Values /\ a.of = load.of /\ a.rev = rev[load.of] /\ load.of \in Objects
  BY <1>1 DEF Answer, Values
<1> HIDE DEF a
<1>3. load' \in [of : Objects \cup {None}, answer : Values] /\ load'.of = load.of /\ load'.answer = a
  BY <1>1, <1>2
<1>4. Typed'
  BY <1>1, <1>2, <1>3 DEF WorkbenchInv, Typed, TypeOK, Serve, docker, place, tabs
<1>5. Fresh'
  <2>1. load' # NoLoad
    BY <1>1, <1>3 DEF NoLoad
  <2>2. route' = route /\ rev' = rev /\ told' = told /\ gone' = gone
    BY DEF Serve, docker, place
  <2>3. route \in Containers => a.rev >= told[route]
    <3>1. route \in Containers => told[route] <= rev[route] /\ told[route] \in Nat /\ rev[route] \in Nat
      BY DEF WorkbenchInv, Fresh, Typed, TypeOK, Objects
    <3> QED BY <1>1, <1>2, <3>1
  <2> QED BY <1>3, <2>1, <2>2, <2>3 DEF WorkbenchInv, Fresh, OnContainer
<1>6. LabelIsOwn' /\ Tabbed'
  BY DEF WorkbenchInv, LabelIsOwn, Tabbed, IsOpen, Serve, place, tabs
<1> QED BY <1>4, <1>5, <1>6 DEF WorkbenchInv

\* The page takes an answer about its own container, or the error of its own request.
LEMMA SettlesKeeps ==
  ASSUME WorkbenchInv, Arrives \/ Fails
  PROVE  WorkbenchInv'
<1>1. PICK v : /\ Settles(v) /\ v \in Values
               /\ OnContainer /\ route \notin gone /\ v.is = "ok" => v.of = route /\ v.rev >= told[route]
  <2>1. CASE Arrives
    <3>1. load.answer # Blank /\ Settles(load.answer) /\ load.answer \in Values
      BY <2>1 DEF Arrives, WorkbenchInv, Typed, TypeOK
    <3>2. load.of = route /\ load.answer.of = route
      BY <3>1 DEF WorkbenchInv, Typed, TypeOK, NoLoad
    <3> QED BY <3>1, <3>2 DEF WorkbenchInv, Fresh
  <2>2. CASE Fails
    <3> DEFINE e == [Blank EXCEPT !.of = load.of, !.is = "error"]
    <3>1. e \in Values /\ e.is # "ok"
      BY DEF WorkbenchInv, Typed, TypeOK, Blank, Values
    <3> QED BY <2>2, <3>1 DEF Fails
  <2> QED BY <2>1, <2>2
<1>2. /\ going' \in [to : Paths \cup {None}, query : Queries, drops : SUBSET Paths]
      /\ going' = Still \/ going'.to \in Paths
      /\ closed' \subseteq Objects
      /\ \A p \in closed' : IsOpen(p) => p \in going'.drops
      /\ going'.to \notin closed'
  BY <1>1, EffectKeeps DEF WorkbenchInv, Settles
<1>3. label' \in [Objects -> Objects \cup {None}] /\ LabelIsOwn'
  BY <1>1, LabelKeeps DEF WorkbenchInv, Settles
<1>4. shown' = v /\ load' = NoLoad /\ NoLoad \in [of : Objects \cup {None}, answer : Values]
  BY <1>1 DEF Settles, NoLoad, Blank, Values
<1>5. Typed'
  BY <1>1, <1>2, <1>3, <1>4 DEF WorkbenchInv, Typed, TypeOK, Settles, docker, NoLoad
<1>6. Fresh'
  BY <1>1, <1>4 DEF WorkbenchInv, Fresh, OnContainer, Settles, docker, NoLoad
<1>7. Tabbed'
  BY <1>1, <1>2 DEF WorkbenchInv, Tabbed, IsOpen, Settles
<1> QED BY <1>3, <1>5, <1>6, <1>7 DEF WorkbenchInv

\* Changing one task, or dropping it, leaves tasks.
LEMMA TasksKeep ==
  ASSUME Typed, NEW i \in DOMAIN tasks
  PROVE  /\ tasks[i] \in Doable /\ RemoveAt(tasks, i) \in Seq(Doable)
         /\ \A t \in Doable : [tasks EXCEPT ![i] = t] \in Seq(Doable)
<1>1. tasks \in Seq(Doable) /\ i \in 1..Len(tasks)
  BY LenProperties DEF Typed
<1> QED BY <1>1, ElementOfSeq, RemoveAtTyped, ExceptSeq

\* What changes at the backend: nothing that is shown becomes newer than it was asked for.
LEMMA BackendKeeps ==
  ASSUME WorkbenchInv,
         exists' \subseteq Objects, running' \subseteq Containers, rev' \in [Objects -> Nat],
         \A c \in Containers : rev[c] <= rev'[c], tasks' \in Seq(Doable),
         UNCHANGED <<place, going, tabs, load, closing, confirm, told, gone, closed>>
  PROVE  WorkbenchInv'
<1>1. tasks' \in Seq(Task)
  <2>1. Doable \subseteq Task
    BY DEF Doable
  <2> QED BY <2>1, SeqMonotonic
<1>2. Typed'
  BY <1>1 DEF WorkbenchInv, Typed, TypeOK, place, tabs
<1>3. \A c \in Containers : told[c] <= rev'[c]
  <2> TAKE c \in Containers
  <2>1. told[c] <= rev[c] /\ rev[c] <= rev'[c] /\ told[c] \in Nat /\ rev[c] \in Nat /\ rev'[c] \in Nat
    BY DEF WorkbenchInv, Fresh, Typed, TypeOK, Objects
  <2> QED BY <2>1
<1>4. Fresh' /\ LabelIsOwn' /\ Tabbed'
  BY <1>3 DEF WorkbenchInv, Fresh, LabelIsOwn, Tabbed, OnContainer, IsOpen, place, tabs
<1> QED BY <1>2, <1>4 DEF WorkbenchInv

LEMMA PerformKeeps ==
  ASSUME WorkbenchInv, NEW i \in DOMAIN tasks, NEW to \in Containers, Perform(i, to)
  PROVE  WorkbenchInv'
<1> DEFINE t == tasks[i]
<1>1. t \in Doable /\ t.on \in Containers
  BY TasksKeep DEF WorkbenchInv, Doable, Task
<1>2. tasks' = [tasks EXCEPT ![i] = [t EXCEPT !.done = "done", !.to = to]]
  BY DEF Perform
<1>3. [t EXCEPT !.done = "done", !.to = to] \in Doable
  BY <1>1 DEF Doable, Task
<1>4. tasks' \in Seq(Doable)
  BY <1>2, <1>3, TasksKeep DEF WorkbenchInv
<1>5. exists \subseteq Objects /\ running \subseteq Containers /\ rev \in [Objects -> Nat] /\ to \in Objects
  BY DEF WorkbenchInv, Typed, TypeOK, Objects
<1>6. exists' \subseteq Objects
  <2>1. exists' \in {exists \ {t.on}, (exists \ {t.on}) \cup {to}, exists}
    BY DEF Perform
  <2> QED BY <1>5, <2>1
<1>7. running' \subseteq Containers
  <2>1. running' \in {running \cup {t.on}, running \ {t.on}, (running \ {t.on}) \cup {to}, running}
    BY DEF Perform
  <2> QED BY <1>1, <1>5, <2>1
<1>8. rev' \in [Objects -> Nat] /\ \A c \in Containers : rev[c] <= rev'[c]
  <2>1. rev' = [rev EXCEPT ![to] = @ + 1]
    BY DEF Perform
  <2>2. \A c \in Containers : c \in Objects
    BY DEF Objects
  <2> QED BY <1>5, <2>1, <2>2
<1> QED BY <1>4, <1>6, <1>7, <1>8, BackendKeeps DEF Perform

LEMMA FailKeeps ==
  ASSUME WorkbenchInv, NEW i \in DOMAIN tasks, Fail(i)
  PROVE  WorkbenchInv'
<1> DEFINE t == tasks[i]
<1>1. t \in Doable
  BY TasksKeep DEF WorkbenchInv
<1>2. tasks' = [tasks EXCEPT ![i] = [t EXCEPT !.done = "error"]] /\ [t EXCEPT !.done = "error"] \in Doable
  BY <1>1 DEF Fail, Doable, Task
<1>3. tasks' \in Seq(Doable)
  BY <1>2, TasksKeep DEF WorkbenchInv
<1>4. UNCHANGED docker /\ exists \subseteq Objects /\ running \subseteq Containers /\ rev \in [Objects -> Nat]
  BY DEF WorkbenchInv, Typed, TypeOK, Fail
<1>5. \A c \in Containers : rev[c] <= rev[c]
  BY <1>4 DEF Objects
<1> QED BY <1>3, <1>4, <1>5, BackendKeeps DEF Fail, docker

LEMMA OutsideKeeps ==
  ASSUME WorkbenchInv, NEW o \in Objects, Outside(o)
  PROVE  WorkbenchInv'
<1>1. exists \subseteq Objects /\ running \subseteq Containers /\ rev \in [Objects -> Nat] /\ tasks \in Seq(Doable)
  BY DEF WorkbenchInv, Typed, TypeOK
<1>2. \A c \in Containers : rev[c] <= rev[c]
  BY <1>1 DEF Objects
<1>3. exists' \subseteq Objects /\ running' \subseteq Containers
  BY <1>1 DEF Outside
<1> QED BY <1>1, <1>2, <1>3, BackendKeeps DEF Outside

\* When a task settles the page of its container is left or asks again.
LEMMA SettleKeeps ==
  ASSUME WorkbenchInv, NEW i \in DOMAIN tasks, Settle(i)
  PROVE  WorkbenchInv'
<1> DEFINE t == tasks[i]
           leaves == OnContainer /\ Mine(t) /\ t.done = "done" /\ t.verb \in {"delete", "upgrade"}
<1>1. t \in Doable /\ t.on \in Containers /\ (t.done = "done" => t.to \in Containers)
      /\ t.verb \in Verbs /\ tasks' \in Seq(Doable)
  BY TasksKeep DEF WorkbenchInv, Doable, Task, Settle
<1>2. tasks' \in Seq(Task)
  <2>1. Doable \subseteq Task
    BY DEF Doable
  <2> QED BY <1>1, <2>1, SeqMonotonic
<1>3. /\ told' = [told EXCEPT ![t.on] = IF t.done = "done" THEN rev[t.on] ELSE @]
      /\ gone' = IF t.done = "done" /\ t.verb \in {"delete", "upgrade"} THEN gone \cup {t.on} ELSE gone
      /\ UNCHANGED <<exists, running, rev, route, query, last, shown, strip, saved, label, closing, confirm>>
      /\ OnSettled(t)
  BY DEF Settle, docker, place, tabs
<1> HIDE DEF t
<1>4. /\ told \in [Containers -> Nat] /\ gone \subseteq Containers /\ rev \in [Objects -> Nat]
      /\ load \in [of : Objects \cup {None}, answer : Values]
  BY DEF WorkbenchInv, Typed, TypeOK
<1>5. load' = load \/ (OnContainer /\ Refetch(route))
  BY <1>3 DEF OnSettled
<1>6. /\ going' \in [to : Paths \cup {None}, query : Queries, drops : SUBSET Paths]
      /\ going' = Still \/ going'.to \in Paths
      /\ closed' \subseteq Objects
      /\ \A p \in closed' : IsOpen(p) => p \in going'.drops
      /\ going'.to \notin closed'
  <2>1. CASE leaves
    <3>1. Navigate(IF t.verb = "delete" THEN "containers" ELSE t.to, "", {route})
      BY <1>3, <2>1 DEF OnSettled
    <3>2. (IF t.verb = "delete" THEN "containers" ELSE t.to) \in Paths /\ "" \in Queries
          /\ {route} \in SUBSET Objects
      BY <1>1, <2>1 DEF Paths, Lists, Objects, Queries, OnContainer
    <3> QED BY <3>1, <3>2, NavigateKeeps DEF WorkbenchInv
  <2>2. CASE ~leaves
    <3>1. going' = going /\ closed' = closed
      BY <1>3, <2>2 DEF OnSettled, Stay
    <3> QED BY <3>1 DEF WorkbenchInv, Typed, TypeOK, Tabbed
  <2> QED BY <2>1, <2>2
<1>7. /\ load' \in [of : Objects \cup {None}, answer : Values] /\ (load' = NoLoad \/ load'.of = route)
      /\ load'.answer = Blank \/ (load'.of \in Objects /\ load'.answer.of = load'.of)
  <2>1. Blank \in Values
    BY DEF Blank, Values, None
  <2>2. CASE load' = load
    BY <2>2 DEF WorkbenchInv, Typed, TypeOK
  <2>3. CASE OnContainer /\ Refetch(route)
    BY <2>1, <2>3 DEF Refetch, OnContainer, Objects
  <2> QED BY <1>5, <2>2, <2>3
<1>8. told' \in [Containers -> Nat] /\ gone' \subseteq Containers
  BY <1>1, <1>3, <1>4 DEF Objects
<1>9. Typed'
  BY <1>1, <1>2, <1>3, <1>6, <1>7, <1>8 DEF WorkbenchInv, Typed, TypeOK
<1>10. Fresh'
  <2>1. \A c \in Containers : told'[c] <= rev'[c]
    <3> TAKE c \in Containers
    <3>1. told[c] <= rev[c] /\ rev[c] \in Nat
      BY <1>4 DEF WorkbenchInv, Fresh, Objects
    <3> QED BY <1>3, <1>4, <3>1
  <2>2. ASSUME OnContainer, route \notin gone'
        PROVE  /\ load' = NoLoad /\ shown.is = "ok" => shown.of = route /\ shown.rev >= told'[route]
               /\ load'.answer # Blank => load'.answer.rev >= told'[route]
    <3>1. route \notin gone
      BY <1>3, <2>2
    <3>2. CASE Refetch(route)
      <4>1. load' # NoLoad /\ load'.answer = Blank
        BY <2>2, <3>2, WorkbenchAssumption DEF Refetch, NoLoad, OnContainer, None, WorkbenchAssumption
      <4> QED BY <4>1
    <3>3. CASE load' = load /\ ~Refetch(route)
      <4>1. told'[route] = told[route]
        <5>1. CASE t.on # route \/ t.done # "done"
          BY <1>3, <1>4, <2>2, <5>1 DEF OnContainer
        <5>2. CASE t.on = route /\ t.done = "done"
          <6>1. t.verb \notin {"delete", "upgrade"}
            BY <1>3, <2>2, <5>2
          <6>2. Mine(t) \/ Continues(t)
            BY <5>2 DEF Mine, Continues
          <6>3. Refetch(route)
            BY <1>3, <2>2, <6>1, <6>2 DEF OnSettled
          <6> QED BY <3>3, <6>3
        <5> QED BY <5>1, <5>2
      <4> QED BY <2>2, <3>1, <3>3, <4>1 DEF WorkbenchInv, Fresh
    <3> QED BY <1>5, <3>2, <3>3
  <2> QED BY <1>3, <2>1, <2>2 DEF Fresh, OnContainer
<1>11. LabelIsOwn' /\ Tabbed'
  BY <1>3, <1>6 DEF WorkbenchInv, LabelIsOwn, Tabbed, IsOpen
<1> QED BY <1>9, <1>10, <1>11 DEF WorkbenchInv

-----------------------------------------------------------------------------
(* The theorems. *)

LEMMA WorkbenchInit == Init => WorkbenchInv
<1> SUFFICES ASSUME Init PROVE WorkbenchInv
  OBVIOUS
<1>1. None \notin Objects /\ "overview" \notin Objects /\ "overview" \in Paths
  BY WorkbenchAssumption DEF WorkbenchAssumption, None, Objects, Paths, Lists
<1>2. /\ strip \in Seq(Objects) /\ IsInjective(strip) /\ tasks \in Seq(Doable) /\ tasks \in Seq(Task)
      /\ \A p : ~Contains(strip, p)
  <2>1. strip = <<>> /\ tasks = <<>>
    BY Zenon DEF Init
  <2>2. <<>> \in Seq(Objects) /\ <<>> \in Seq(Doable) /\ <<>> \in Seq(Task)
    OBVIOUS
  <2>3. Len(<<>>) = 0 /\ 1..0 = {}
    OBVIOUS
  <2> QED BY <2>1, <2>2, <2>3 DEF IsInjective, Contains
<1>3. Blank \in Values /\ NoLoad \in [of : Objects \cup {None}, answer : Values]
      /\ Still \in [to : Paths \cup {None}, query : Queries, drops : SUBSET Paths]
  BY DEF Blank, Values, NoLoad, Still, Queries
<1>4. TypeOK
  BY <1>1, <1>2, <1>3, WorkbenchAssumption DEF WorkbenchAssumption, Init, TypeOK, Objects, Queries
<1>5. Typed
  BY <1>2, <1>4 DEF Typed, Init, NoLoad
<1>6. LabelIsOwn /\ Tabbed
  BY <1>1, <1>2 DEF Init, LabelIsOwn, Tabbed
<1>7. Fresh
  <2>1. \A c \in Containers : told[c] = 0 /\ rev[c] = 0
    BY DEF Init, Objects
  <2>2. ~OnContainer
    BY <1>1 DEF Init, OnContainer, Objects
  <2> QED BY <2>1, <2>2 DEF Fresh
<1> QED BY <1>5, <1>6, <1>7 DEF WorkbenchInv

LEMMA WorkbenchNext == WorkbenchInv /\ [Next]_vars => WorkbenchInv'
<1> SUFFICES ASSUME WorkbenchInv, [Next]_vars PROVE WorkbenchInv'
  OBVIOUS
<1>1. CASE \/ \E p \in Paths, q \in Queries : Visit(p, q)
           \/ \E q \in SubTabs : SetTab(q)
           \/ Back \/ AskRemove \/ \E p \in Objects : StartClose(p)
           \/ \E v \in Verbs : Act(v)
           \/ \E yes \in BOOLEAN : AnswerRemove(yes)
  BY <1>1, UserAsks
<1>2. CASE \E p \in Objects : Close(p)
  BY <1>2, CloseKeeps
<1>3. CASE \E p \in Objects : Outside(p)
  BY <1>3, OutsideKeeps
<1>4. CASE \E p \in Objects, i \in DOMAIN strip : MoveTab(p, i)
  BY <1>4, MoveTabKeeps
<1>5. CASE Commit
  BY <1>5, CommitKeeps
<1>6. CASE Serve
  BY <1>6, ServeKeeps
<1>7. CASE Arrives \/ Fails
  BY <1>7, SettlesKeeps
<1>8. CASE \E i \in DOMAIN tasks : Fail(i)
  BY <1>8, FailKeeps
<1>9. CASE \E i \in DOMAIN tasks : Settle(i)
  BY <1>9, SettleKeeps
<1>10. CASE \E i \in DOMAIN tasks : \E to \in Containers : Perform(i, to)
  BY <1>10, PerformKeeps
<1>11. CASE UNCHANGED vars
  BY <1>11 DEF vars, docker, place, tabs, WorkbenchInv, Typed, TypeOK, LabelIsOwn, Fresh, Tabbed,
     OnContainer, IsOpen
<1> QED BY <1>1, <1>2, <1>3, <1>4, <1>5, <1>6, <1>7, <1>8, <1>9, <1>10, <1>11 DEF Next

LEMMA WorkbenchInvHolds == Spec => []WorkbenchInv
<1>1. Init => WorkbenchInv
  BY WorkbenchInit
<1>2. WorkbenchInv /\ [Next]_vars => WorkbenchInv'
  BY WorkbenchNext
<1> QED BY <1>1, <1>2, PTL DEF Spec

\* What is on the screen is its own, whatever the users do: the variables keep their types, a tab
\* shows no other container's name (ContainerDetailPage.tsx:212-223), and the page of a container
\* no task removed shows it as the last task on it left it, or later (179-200).
THEOREM WorkbenchSound == Spec => []Sound
<1>1. WorkbenchInv => Sound
  BY DEF WorkbenchInv, Typed, Fresh, Current, Sound
<1> QED BY <1>1, WorkbenchInvHolds, PTL

\* With no transition under way the page has its tab, and no tab that was closed is in the strip
\* unless it was asked for again (stores/tabs.ts:67-72, Layout.tsx:174-184).
THEOREM ClosedTabsStayClosed == Spec => []ClosedStaysClosed
<1>1. WorkbenchInv => ClosedStaysClosed
  <2> SUFFICES ASSUME Tabbed, going = Still PROVE ClosedStaysClosed
    BY DEF WorkbenchInv, ClosedStaysClosed
  <2>1. going.drops = {}
    BY DEF Still
  <2> QED BY <2>1 DEF Tabbed, ClosedStaysClosed
<1> QED BY <1>1, WorkbenchInvHolds, PTL
=============================================================================
