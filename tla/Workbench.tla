----------------------------- MODULE Workbench -----------------------------
(***************************************************************************)
(* The tabs of the page header and the pages they switch between: the      *)
(* strip and its view state (stores/tabs, Layout), the page of a container *)
(* (ContainerDetailPage) with the writes it queues, and that of a compose  *)
(* project (ComposeDetailPage).                                            *)
(*                                                                         *)
(* A navigation is asked for and commits later, when the router's          *)
(* transition does; one asked for meanwhile replaces it.  Between two      *)
(* containers the page is not remounted: until the new one's inspect is    *)
(* answered it holds the previous one's.  The container's page does not    *)
(* poll; it reads again when a task on its container settles.              *)
(***************************************************************************)
EXTENDS Naturals, FiniteSets, SequencesExt, Filtered

CONSTANTS
  Containers, Projects, \* ids, which are also the paths of their tabs
  Started,              \* the containers there are at first; an upgrade creates another
  SubTabs,              \* among "info", "stats", "files", ...
  MaxEvents             \* bound: what users do, here and elsewhere

ASSUME WorkbenchAssumption ==
  /\ Started \subseteq Containers /\ Containers \cap Projects = {} /\ MaxEvents \in Nat
  /\ {"info", "stats"} \subseteq SubTabs
  /\ {"-", "overview", "containers", "compose"} \cap (Containers \cup Projects) = {}

VARIABLES
  exists, running, \* Docker: the containers and projects there are, those that run
  rev,             \* how often each was changed
  route, query,    \* location.pathname and ?tab=; "" when there is none
  going,           \* the navigation in transition, and the tabs to remove once it commits
  strip,           \* tabs(), from left to right
  saved,           \* savedSearch
  label,           \* whose name each tab shows; None: the placeholder
  last,            \* lastPath of the Layout's effect
  shown,           \* inspectResult (detailResult): the value the page has
  load,            \* its request in flight
  closing,         \* chips whose closing animation runs
  confirm,         \* the dialog that asks before a removal is open
  tasks,           \* the page's queued writes, in the order of their key
  told,            \* ghost: each container's rev when the last task on it settled
  gone,            \* ghost: containers a settled task removed
  closed,          \* ghost: tabs closed, and not asked for again
  events

docker == <<exists, running, rev>>
place == <<route, query, last, shown>>
tabs == <<strip, saved, label>>
vars == <<docker, place, going, tabs, load, closing, confirm, tasks, told, gone, closed, events>>
-----------------------------------------------------------------------------
None == "-"
Objects == Containers \cup Projects
Lists == {"overview", "containers", "compose"}
Paths == Objects \cup Lists
Queries == SubTabs \cup {""}

Still == [to |-> None, query |-> "", drops |-> {}]
Blank == [of |-> None, is |-> None, rev |-> 0, running |-> FALSE]
NoLoad == [of |-> None, answer |-> Blank]
Values == [of : Objects \cup {None}, is : {None, "ok", "404", "error"}, rev : Nat, running : BOOLEAN]

Verbs == {"start", "stop", "delete", "edit", "connect", "upgrade"}
\* done: what became of it at the backend; to: the container an upgrade created.
Task == [verb : Verbs, on : Containers, done : {None, "done", "error"}, to : Containers \cup {None}]

\* Type invariant.
TypeOK ==
  /\ exists \subseteq Objects /\ running \subseteq Containers /\ rev \in [Objects -> Nat]
  /\ route \in Paths /\ query \in Queries /\ last \in Paths \cup {None}
  /\ going \in [to : Paths \cup {None}, query : Queries, drops : SUBSET Paths]
  /\ strip \in Seq(Objects) /\ IsInjective(strip)
  /\ saved \in [Objects -> Queries] /\ label \in [Objects -> Objects \cup {None}]
  /\ shown \in Values /\ load \in [of : Objects \cup {None}, answer : Values]
  /\ (load = NoLoad \/ load.of = route)
  /\ closing \subseteq Objects /\ confirm \in BOOLEAN
  /\ tasks \in Seq(Task) /\ told \in [Containers -> Nat]
  /\ gone \subseteq Containers /\ closed \subseteq Objects
-----------------------------------------------------------------------------
(* The tab strip. *)

IsOpen(p) == Contains(strip, p)

\* The page at the left, or the list the tab was opened from.
ListOf(p) == IF p \in Projects THEN "compose" ELSE "containers"
LeftNeighbor(p) ==
  LET i == CHOOSE n \in DOMAIN strip : strip[n] = p
  IN IF IsOpen(p) /\ i > 1 THEN strip[i - 1] ELSE ListOf(p)

\* The tabs after those of d were removed with what was kept for them, and the
\* Layout's effect ran at path p with search q: it opens the tab of the page shown,
\* and keeps its query or goes back to the one it was left with.
Remembers(p, q, arrived) == p \in Objects /\ arrived /\ q = "" /\ saved[p] # ""
TabSync(p, q, d, arrived) ==
  LET s == [x \in Objects |-> IF x \in d THEN "" ELSE saved[x]]
      kept == Without(strip, d)
  IN /\ strip' = IF p \in Lists \/ Contains(kept, p) THEN kept ELSE Append(kept, p)
     /\ saved' = IF p \in Lists \/ Remembers(p, q, arrived) THEN s ELSE [s EXCEPT ![p] = q]

\* navigate(): what was in transition goes elsewhere; its tabs are still removed.
Navigate(to, q, drops) ==
  /\ going' = [to |-> to, query |-> q, drops |-> going.drops \cup drops]
  /\ closed' = (closed \cup drops) \ {to}
Stay == UNCHANGED <<going, closed>>
-----------------------------------------------------------------------------
(* The page's effects, after the value became v on path p with search q. *)

\* setTabLabel, once the value is this container's own (a project's name comes with
\* the list and is found by its id).
LabelEffect(p, v, d) ==
  label' = [x \in Objects |-> IF x = p /\ v.is = "ok" /\ v.of = p THEN p
                              ELSE IF x \in d THEN None ELSE label[x]]

NotFound(p, v) == p \in Objects /\ v.is = "404"
\* The sub-tab shown needs a running container, and the value says it is stopped.
Redirects(p, q, v) == p \in Containers /\ v.is = "ok" /\ q = "stats" /\ ~v.running

LeaveOrRedirect(p, q, v) ==
  IF NotFound(p, v) THEN Navigate("overview", "", {p})
  ELSE IF Redirects(p, q, v) THEN Navigate(p, "info", {})
  ELSE Stay
-----------------------------------------------------------------------------
Init ==
  /\ exists = Started \cup Projects /\ running \in SUBSET Started
  /\ rev = [o \in Objects |-> 0] /\ told = [c \in Containers |-> 0]
  /\ route = "overview" /\ query = "" /\ last = "overview" /\ going = Still
  /\ strip = <<>> /\ saved = [o \in Objects |-> ""] /\ label = [o \in Objects |-> None]
  /\ shown = Blank /\ load = NoLoad /\ closing = {} /\ confirm = FALSE
  /\ tasks = <<>> /\ gone = {} /\ closed = {} /\ events = 0

User == events < MaxEvents /\ events' = events + 1
\* The container the page is of: id().
OnContainer == route \in Containers
\* Its action strip is there once a value is, and what it offers depends on it.
Ready == OnContainer /\ shown.is = "ok"
Offered(verb) == (verb = "start" => ~shown.running) /\ (verb = "stop" => shown.running)
\* The editable rows and the networks are on the first sub-tab.
OnInfo == query \in {"", "info"}
-----------------------------------------------------------------------------
(* Navigation. *)

\* A link of the sidebar, of a list or of a tab, the browser's back button.
Visit(p, q) ==
  /\ User /\ (p # route \/ going # Still)
  /\ p \in Objects \/ q = ""
  /\ Navigate(p, q, {})
  /\ UNCHANGED <<docker, place, tabs, load, closing, confirm, tasks, told, gone>>

\* The sub-tabs, a mount of the container, the browser's path.
SetTab(q) ==
  /\ User /\ route \in Objects /\ q # query /\ q # ""
  /\ (q = "stats" => shown.running)
  /\ Navigate(route, q, {})
  /\ UNCHANGED <<docker, place, tabs, load, closing, confirm, tasks, told, gone>>

\* 返回
Back ==
  /\ User /\ OnContainer
  /\ Navigate("containers", "", {route})
  /\ UNCHANGED <<docker, place, tabs, load, closing, confirm, tasks, told, gone>>

\* The ✕ of a chip: it closes when its animation is over.
StartClose(p) ==
  /\ User /\ IsOpen(p) /\ p \notin closing
  /\ closing' = closing \cup {p}
  /\ UNCHANGED <<docker, place, going, tabs, load, confirm, tasks, told, gone, closed>>

MutantClose(p) == \* the tab is removed first
  /\ p \in closing
  /\ closing' = closing \ {p}
  /\ IF route = p THEN Navigate(LeftNeighbor(p), "", {}) /\ closed' = closed \cup {p}
     ELSE closed' = closed \cup {p} /\ UNCHANGED going
  /\ TabSync(route, query, {p}, FALSE)
  /\ label' = [label EXCEPT ![p] = None]
  /\ UNCHANGED <<docker, place, load, confirm, tasks, told, gone, events>>

\* closeAndNavigate
Close(p) ==
  /\ p \in closing
  /\ closing' = closing \ {p}
  /\ IF route = p
     THEN Navigate(LeftNeighbor(p), "", {p}) /\ UNCHANGED tabs
     ELSE /\ TabSync(route, query, {p}, FALSE)
          /\ label' = [label EXCEPT ![p] = None]
          /\ closed' = (IF going.to = p THEN closed ELSE closed \cup {p})
          /\ UNCHANGED going
  /\ UNCHANGED <<docker, place, load, confirm, tasks, told, gone, events>>

\* A chip is dragged to place i.
MoveTab(p, i) ==
  /\ User /\ IsOpen(p) /\ strip[i] # p
  /\ strip' = InsertAt(Without(strip, {p}), i, p)
  /\ UNCHANGED <<docker, place, going, saved, label, load, closing, confirm, tasks, told, gone, closed>>

SameComponent(p) == {route, p} \subseteq Containers \/ {route, p} \subseteq Projects

\* The transition commits: the route changes, the Layout's effect runs, the page is
\* replaced or reads its new id, its effects run, and the tabs to drop go.
Commit ==
  /\ going # Still
  /\ LET p == going.to
         q == going.query
         v == IF SameComponent(p) THEN shown ELSE Blank
         restores == Remembers(p, q, p # last)
     IN /\ route' = p /\ query' = q /\ last' = p /\ shown' = v
        /\ load' = IF p = route THEN load
                   ELSE IF p \in Objects THEN [of |-> p, answer |-> Blank] ELSE NoLoad
        /\ TabSync(p, q, going.drops, p # last)
        /\ LabelEffect(p, v, going.drops)
        /\ closed' = IF NotFound(p, v) THEN closed \cup {p} ELSE closed
        /\ going' = IF NotFound(p, v) THEN [to |-> "overview", query |-> "", drops |-> {p}]
                    ELSE IF Redirects(p, q, v) THEN [Still EXCEPT !.to = p, !.query = "info"]
                    ELSE IF restores THEN [Still EXCEPT !.to = p, !.query = saved[p]]
                    ELSE Still
  /\ UNCHANGED <<docker, closing, confirm, tasks, told, gone, events>>
-----------------------------------------------------------------------------
(* What the page reads. *)

Refetch(p) == load' = [of |-> p, answer |-> Blank]

Answer(o) == [of |-> o, is |-> IF o \in exists THEN "ok" ELSE "404",
              rev |-> rev[o], running |-> o \in running]
Serve ==
  /\ load.of # None /\ load.answer = Blank
  /\ LET o == load.of
     IN load' = [load EXCEPT !.answer = Answer(o)]
  /\ UNCHANGED <<docker, place, going, tabs, closing, confirm, tasks, told, gone, closed, events>>

Settles(v) ==
  /\ shown' = v /\ load' = NoLoad
  /\ LabelEffect(route, v, {})
  /\ LeaveOrRedirect(route, query, v)
  /\ UNCHANGED <<docker, route, query, last, strip, saved, closing, confirm, tasks, told, gone, events>>

Arrives == load.answer # Blank /\ Settles(load.answer)
Fails == load.of # None /\ Settles([Blank EXCEPT !.of = load.of, !.is = "error"])
-----------------------------------------------------------------------------
(* What the page queues. *)

Enqueue(verb) ==
  /\ tasks' = Append(tasks, [verb |-> verb, on |-> route, done |-> None, to |-> None])
  /\ UNCHANGED <<docker, place, going, tabs, load, closing, told, gone, closed>>

\* act() for a verb that needs no question, saveName, saveResources, doConnectNet,
\* doDisconnectNet, the upgrade dialog.
Act(verb) ==
  /\ User /\ Ready /\ verb # "delete"
  /\ Offered(verb) /\ (verb \in {"edit", "connect"} => OnInfo)
  /\ Enqueue(verb)
  /\ UNCHANGED confirm

AskRemove ==
  /\ User /\ Ready /\ ~confirm
  /\ confirm' = TRUE
  /\ UNCHANGED <<docker, place, going, tabs, load, closing, tasks, told, gone, closed>>

\* The dialog outlives the page: the answer is about the container shown by then.
AnswerRemove(yes) ==
  /\ User /\ confirm
  /\ confirm' = FALSE
  /\ IF yes /\ OnContainer THEN Enqueue("delete")
     ELSE UNCHANGED <<docker, place, going, tabs, load, closing, tasks, told, gone, closed>>

\* The first task of its key runs: at the backend it succeeds, or nothing happens.
First(i) == \A j \in 1 .. i - 1 : tasks[j].on # tasks[i].on
New(to) == to \in Containers \ Started /\ rev[to] = 0

Perform(i, to) ==
  LET t == tasks[i]
      c == t.on
  IN /\ First(i) /\ t.done = None /\ c \in exists
     /\ (IF t.verb = "upgrade" THEN New(to) ELSE to = c)
     /\ exists' = CASE t.verb = "delete" -> exists \ {c}
                    [] t.verb = "upgrade" -> (exists \ {c}) \cup {to}
                    [] OTHER -> exists
     /\ running' = CASE t.verb = "start" -> running \cup {c}
                     [] t.verb \in {"stop", "delete"} -> running \ {c}
                     [] t.verb = "upgrade" /\ c \in running -> (running \ {c}) \cup {to}
                     [] OTHER -> running
     /\ rev' = [rev EXCEPT ![to] = @ + 1]
     /\ tasks' = [tasks EXCEPT ![i].done = "done", ![i].to = to]
     /\ UNCHANGED <<place, going, tabs, load, closing, confirm, told, gone, closed, events>>

Fail(i) ==
  /\ First(i) /\ tasks[i].done = None
  /\ tasks' = [tasks EXCEPT ![i].done = "error"]
  /\ UNCHANGED <<docker, place, going, tabs, load, closing, confirm, told, gone, closed, events>>

\* onSettled of the page, for tasks that name a container; the refetch that follows an
\* edit or a change of its networks is of the container the page is of by then.
Mine(t) == t.on = route /\ t.verb # "connect"
Continues(t) == t.done = "done" /\ t.verb \in {"edit", "connect"}

MutantOnSettled(t) ==
  IF OnContainer /\ Mine(t) /\ t.done = "done" /\ t.verb = "delete"
  THEN Navigate("containers", "", {route}) /\ UNCHANGED load
  ELSE UNCHANGED <<load, going, closed>>

OnSettled(t) ==
  IF OnContainer /\ Mine(t) /\ t.done = "done" /\ t.verb \in {"delete", "upgrade"}
  THEN Navigate(IF t.verb = "delete" THEN "containers" ELSE t.to, "", {route}) /\ UNCHANGED load
  ELSE /\ IF OnContainer /\ (Mine(t) \/ Continues(t)) THEN Refetch(route) ELSE UNCHANGED load
       /\ Stay

Settle(i) ==
  LET t == tasks[i]
  IN /\ t.done # None
     /\ tasks' = RemoveAt(tasks, i)
     /\ told' = [told EXCEPT ![t.on] = IF t.done = "done" THEN rev[t.on] ELSE @]
     /\ gone' = IF t.done = "done" /\ t.verb \in {"delete", "upgrade"} THEN gone \cup {t.on} ELSE gone
     /\ OnSettled(t)
     /\ UNCHANGED <<docker, place, tabs, closing, confirm, events>>

\* Elsewhere a container is stopped or removed, a project is removed.
Outside(o) ==
  /\ User /\ o \in exists
  /\ IF o \in running THEN UNCHANGED exists ELSE exists' = exists \ {o}
  /\ running' = running \ {o}
  /\ UNCHANGED <<rev, place, going, tabs, load, closing, confirm, tasks, told, gone, closed>>
-----------------------------------------------------------------------------
Next ==
  \/ \E p \in Paths, q \in Queries : Visit(p, q)
  \/ \E q \in SubTabs : SetTab(q)
  \/ Back \/ \E p \in Objects : StartClose(p) \/ Close(p) \/ Outside(p)
  \/ \E p \in Objects, i \in DOMAIN strip : MoveTab(p, i)
  \/ Commit \/ Serve \/ Arrives \/ Fails
  \/ \E v \in Verbs : Act(v)
  \/ AskRemove \/ \E yes \in BOOLEAN : AnswerRemove(yes)
  \/ \E i \in DOMAIN tasks : Fail(i) \/ Settle(i) \/ \E to \in Containers : Perform(i, to)

Spec == Init /\ [][Next]_vars

\* Transitions commit, requests are answered or fail.
FairSpec == Spec /\ WF_vars(Commit) /\ WF_vars(Serve \/ Arrives \/ Fails)
-----------------------------------------------------------------------------
(* Properties. *)

\* With no transition under way, the page of a container or project has its tab, and a
\* tab that was closed, by the user or because its container went, is not in the strip
\* unless a navigation to it was asked for afterwards: tabs are removed once the page
\* under them has been replaced (stores/tabs.ts:67-72, Layout.tsx:174-184).
ClosedStaysClosed ==
  going = Still => /\ route \in Objects => IsOpen(route)
                   /\ \A p \in closed : ~IsOpen(p)

\* A tab never shows the name of another container, whatever the page held when the
\* route changed (ContainerDetailPage.tsx:212-223).
LabelIsOwn == \A o \in Objects : label[o] \in {None, o}

\* With no request in flight, the page of a container that no task removed shows that
\* container as it was after the last task on it settled, or later
\* (ContainerDetailPage.tsx:179-200; the page of one that is gone is to be left).
Current ==
  OnContainer /\ route \notin gone /\ load = NoLoad /\ shown.is = "ok"
  => shown.of = route /\ shown.rev >= told[route]

\* While a request or a navigation is under way on the page of a container that a task
\* deleted or replaced, the page is yet left, or shows the error of its last request,
\* or one of its own sub-tabs, which a user or the page itself asked for, replaces the
\* leave (ContainerDetailPage.tsx:155-200).
LeavesTheGone ==
  \A c \in Containers :
    (c \in gone /\ route = c /\ (load # NoLoad \/ going # Still))
      ~> (route # c \/ shown.is = "error" \/ going.to = c)

\* What is on the screen is its own: types, the names of the tabs, the values of the page.
Sound == TypeOK /\ LabelIsOwn /\ Current
=============================================================================
