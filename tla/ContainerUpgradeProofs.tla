------------------------ MODULE ContainerUpgradeProofs ------------------------
(***************************************************************************)
(* Proofs about ContainerUpgrade, for any number of tasks, dependents,     *)
(* releases and generations, and about ReplaceContainer, its one attempt to *)
(* replace a container, for any networks and addresses.                    *)
(***************************************************************************)
EXTENDS ContainerUpgrade, ReplaceContainer, TLAPS

Listing   == {"lockDeps", "replace", "switching"}
AfterList == Listing \cup {"restart", "recreate"}
Working   == AfterList \cup {"list"}
NamesOf(es) == {Name(e.id) : e \in es}

-----------------------------------------------------------------------------
(* Who holds which lock, for phyless anywhere.                              *)

\* A task between its locking and its end holds its container.
HoldsTarget(t) == task[t].pc \in Working => task[t].id \in task[t].held

\* And the dependents it has locked, which are all of them once it goes on.
HoldsDeps(t) ==
  task[t].pc \in AfterList =>
    /\ task[t].todo \subseteq task[t].deps
    /\ \A e \in task[t].deps : e.id \in task[t].held \/ (task[t].pc = "lockDeps" /\ e \in task[t].todo)

\* A task that has not begun or has ended holds nothing.
HoldsNothing(t) == task[t].pc \notin Working => task[t].held = {}

\* Dependents are those of Main, and the replacement has a generation.
OfMain(t) ==
  /\ task[t].deps # {} => Target(t) = Main
  /\ task[t].pc = "recreate" => task[t].newGen # 0

LockInv == \A t \in Tasks : HoldsTarget(t) /\ HoldsDeps(t) /\ HoldsNothing(t) /\ OfMain(t)

-----------------------------------------------------------------------------
(* What happens to the dependents, for phyless anywhere but in one of them. *)

\* IDs are given once: what a task has seen is not newer than what there is.
NotNewer(t) ==
  /\ task[t].id[2] <= cur[Target(t)].gen
  /\ \A e \in task[t].deps : e.id[2] <= cur[Name(e.id)].gen

\* A container under replacement is the one that was locked.
TargetExists(t) == task[t].pc = "switching" => Exists(task[t].id)

\* What phyless runs in is handed off.
SparesSelf(t) == task[t].pc \in {"replace", "switching"} => Target(t) \notin self

\* A container in a namespace runs, and its mode names the running Main.
Attachment ==
  \A d \in Deps : cur[d].attached =>
    cur[d].running /\ cur[Main].running /\ (d \in ByName \/ cur[d].refers = cur[Main].gen)

\* A task on Main has found whoever may be in its namespace when it stops it, but
\* for those it is unsure of: what it has not found refers to another container and
\* is not going to be pointed at this one.
Found(t) ==
  task[t].pc \in Listing /\ Target(t) = Main /\ Exists(task[t].id) =>
    \A d \in Deps :
      \/ d \in NamesOf(task[t].deps) \cup task[t].unsure
      \/ /\ d \notin ByName /\ cur[d].refers # task[t].id[2]
         /\ \A u \in Tasks : task[u].pc = "recreate" /\ task[u].newGen = task[t].id[2] =>
              \A e \in task[u].todo : Name(e.id) = d => ~Exists(e.id)

\* What it has locked stays what was listed, but for those it is unsure of, and
\* runs only if it did then.
Stays(e) == Exists(e.id) /\ (cur[Name(e.id)].running => e.running)
Kept(t) ==
  task[t].pc \in Listing =>
    \A e \in task[t].deps :
      \/ task[t].pc = "lockDeps" /\ e \in task[t].todo
      \/ Name(e.id) \in task[t].unsure
      \/ Stays(e)

\* A task is about to bring d back into Main's namespace, or to warn of it.
InHand(t, d) ==
  \/ /\ task[t].pc = "switching" /\ task[t].stopped /\ Target(t) = Main
     /\ \E e \in task[t].deps : Name(e.id) = d /\ e.running
  \/ /\ task[t].pc \in {"restart", "recreate"}
     /\ \E e \in task[t].todo : Name(e.id) = d

Served ==
  \A d \in Deps : Stranded(d) => Warned(d) \/ Unsure(d) \/ d \in cut \/ \E t \in Tasks : InHand(t, d)

\* A task is about to point d at Main as it is now, or to warn of it.
Repoints(t, d) ==
  /\ task[t].pc = "recreate"
  /\ \E e \in task[t].todo : Name(e.id) = d /\ (task[t].newGen = cur[Main].gen \/ ~Exists(e.id))

Referred ==
  \A d \in Deps \ ByName : cur[d].refers # cur[Main].gen =>
    Warned(d) \/ Unsure(d) \/ \E t \in Tasks : Repoints(t, d)

\* A task that would point a dependent at a Main that has been replaced meanwhile has
\* been seen by the task that replaced it.
LateIsKnown(t) ==
  task[t].pc = "recreate" /\ task[t].newGen # cur[Main].gen =>
    \A e \in task[t].todo : Exists(e.id) => Name(e.id) \in ByName \/ Unsure(Name(e.id))

\* Notes are made by tasks at work.
NothingNoted(t) ==
  /\ task[t].pc = "idle" => task[t].warned = {}
  /\ task[t].pc \in {"idle", "lock", "list"} => task[t].unsure = {}

TaskInv(t) ==
  NothingNoted(t) /\ NotNewer(t) /\ TargetExists(t) /\ SparesSelf(t) /\ Found(t) /\ Kept(t) /\ LateIsKnown(t)

DepsInv == alive /\ (\A t \in Tasks : TaskInv(t)) /\ Attachment /\ Served /\ Referred

-----------------------------------------------------------------------------
USE UpgradeAssumption DEF UpgradeAssumption

CtrState == [gen : 1..MaxGen, image : 0..MaxImage, running : BOOLEAN,
             attached : BOOLEAN, refers : 1..MaxGen]
TaskState == [pc : Steps \cup Ended, id : Ctrs \X (0..MaxGen), running : BOOLEAN,
              image : 0..MaxImage, env : BOOLEAN, deps : SUBSET Dependent,
              todo : SUBSET Dependent, held : SUBSET (Ctrs \X (0..MaxGen)),
              stopped : BOOLEAN, newGen : 0..MaxGen, warned : SUBSET Deps,
              unsure : SUBSET Deps]

Shaped ==
  /\ cur \in [Ctrs -> CtrState] /\ released \in [Ctrs -> 0..MaxImage]
  /\ task \in [Tasks -> TaskState] /\ self \in Selves /\ alive \in BOOLEAN
Typed == Shaped /\ ending \subseteq Ctrs \X (0..MaxGen) /\ cut \subseteq Deps

\* The steps at the original, until it is stopped or they fail.
Begins(t) == FailsFirst(t) \/ StopOriginal(t)

Locks ==
  /\ locked = UNION {task[t].held : t \in Tasks}
  /\ \A t, u \in Tasks : t # u => task[t].held \cap task[u].held = {}

LEMMA TypeParts == TypeOK <=> Typed /\ Locks
BY DEF TypeOK, Typed, Shaped, Locks, CtrState, TaskState

\* A name of the containers, and the ID of one.
LEMMA Ids ==
  ASSUME Typed
  PROVE  /\ \A c \in Ctrs : Id(c) \in Ctrs \X (0..MaxGen) /\ Name(Id(c)) = c /\ Id(c)[2] = cur[c].gen
         /\ \A t \in Tasks : Target(t) \in Ctrs /\ task[t].id = <<Target(t), task[t].id[2]>> /\ task[t].id[2] \in 0..MaxGen
         /\ \A e \in Dependent : Name(e.id) \in Deps /\ e.id = <<Name(e.id), e.id[2]>> /\ e.id[2] \in 0..MaxGen
BY DEF Typed, Shaped, CtrState, TaskState, Id, Name, Target, Dependent, Ctrs

LEMMA IdleTyped == Idle \in TaskState
BY DEF Idle, TaskState, Steps, Ctrs

\* A step of t on its own record.
LEMMA EndTyped ==
  ASSUME Typed, NEW t \in Tasks, NEW at \in Ended, End(t, at)
  PROVE  /\ task' \in [Tasks -> TaskState]
         /\ \A u \in Tasks \ {t} : task'[u] = task[u]
         /\ task'[t].pc = at /\ task'[t].id = task[t].id /\ task'[t].deps = task[t].deps
         /\ task'[t].warned = task[t].warned /\ task'[t].unsure = task[t].unsure
         /\ task'[t].held = {} /\ task'[t].todo = {}
         /\ locked' = locked \ task[t].held
<1> USE IdleTyped DEF Typed, Shaped
<1>1. task[t] \in TaskState
  OBVIOUS
<1>2. task'[t] = [Idle EXCEPT !.pc = at, !.id = task[t].id, !.deps = task[t].deps,
                                !.warned = task[t].warned, !.unsure = task[t].unsure]
  BY DEF End
<1>3. task'[t] \in TaskState /\ task'[t].pc = at /\ task'[t].id = task[t].id /\ task'[t].deps = task[t].deps
         /\ task'[t].warned = task[t].warned /\ task'[t].unsure = task[t].unsure
         /\ task'[t].held = {} /\ task'[t].todo = {}
  BY <1>1, <1>2 DEF TaskState, Idle
<1>4. QED
  BY <1>3 DEF End

LEMMA ShapedStep ==
  ASSUME Typed, \A t \in Tasks : OfMain(t), [Next]_vars
  PROVE  Shaped'
<1> USE DEF Typed, Shaped
<1>1. ASSUME NEW t \in Tasks, Inspect(t), UNCHANGED self PROVE Shaped'
  <2>1. PICK c \in Ctrs, env \in BOOLEAN :
      task' = [task EXCEPT ![t] = [Idle EXCEPT !.pc = "lock", !.id = Id(c), !.env = env,
                                    !.running = cur[c].running, !.image = cur[c].image]]
    BY <1>1 DEF Inspect
  <2>2. Id(c) \in Ctrs \X (0..MaxGen) /\ cur[c].running \in BOOLEAN /\ cur[c].image \in 0..MaxImage
    BY Ids DEF CtrState
  <2>3. [Idle EXCEPT !.pc = "lock", !.id = Id(c), !.env = env,
                                    !.running = cur[c].running, !.image = cur[c].image] \in TaskState
    BY <2>2, IdleTyped DEF TaskState, Steps
  <2>4. QED
    BY <1>1, <2>1, <2>3 DEF Inspect
<1>2. ASSUME NEW t \in Tasks, Lock(t), UNCHANGED self PROVE Shaped'
  <2>1. CASE task[t].id \in locked
    BY <1>2, <2>1, EndTyped DEF Lock, Ended
  <2>2. CASE task[t].id \notin locked
    <3>1. task[t] \in TaskState /\ task' = [task EXCEPT ![t] = [@ EXCEPT !.pc = "list", !.held = {task[t].id}]]
      BY <1>2, <2>2 DEF Lock
    <3>2. [task[t] EXCEPT !.pc = "list", !.held = {task[t].id}] \in TaskState
      BY <3>1 DEF TaskState, Steps
    <3>3. QED
      BY <1>2, <3>1, <3>2 DEF Lock
  <2>3. QED
    BY <2>1, <2>2
<1>3. ASSUME NEW t \in Tasks, List(t), UNCHANGED self PROVE Shaped'
  <2> DEFINE deps == {[id |-> Id(d), running |-> cur[d].running] : d \in Dependents(task[t].id)}
             unsure == {d \in Deps \ Dependents(task[t].id) : Target(t) = Main /\ Id(d) \in locked}
  <2>1. CASE End(t, "failed")
    BY <1>3, <2>1, EndTyped DEF List, Ended
  <2>2. CASE task' = [task EXCEPT ![t] = [@ EXCEPT !.pc = "lockDeps", !.deps = deps, !.todo = deps, !.unsure = unsure]]
    <3>1. deps \subseteq Dependent
      <4>1. ASSUME NEW d \in Dependents(task[t].id)
            PROVE  [id |-> Id(d), running |-> cur[d].running] \in Dependent
        <5>1. d \in Deps /\ cur[d] \in CtrState
          BY <4>1 DEF Dependents, Ctrs
        <5>2. QED
          BY <5>1 DEF Dependent, CtrState, Id
      <4>2. QED
        BY <4>1
    <3>2. unsure \subseteq Deps /\ task[t] \in TaskState
      OBVIOUS
    <3>. HIDE DEF deps, unsure
    <3>4. [task[t] EXCEPT !.pc = "lockDeps", !.deps = deps, !.todo = deps, !.unsure = unsure] \in TaskState
      BY <3>1, <3>2 DEF TaskState, Steps
    <3>3. QED
      BY <1>3, <2>2, <3>4 DEF List
  <2>3. QED
    BY <1>3, <2>1, <2>2 DEF List
<1>4. ASSUME NEW t \in Tasks, LockDep(t), UNCHANGED self PROVE Shaped'
  <2>1. PICK d \in task[t].todo :
       IF d.id \in locked THEN End(t, "rejected")
       ELSE /\ locked' = locked \cup {d.id}
            /\ task' = [task EXCEPT ![t].todo = @ \ {d}, ![t].held = @ \cup {d.id},
                               ![t].unsure = IF Changed(d) THEN @ \cup {Name(d.id)} ELSE @]
    BY <1>4 DEF LockDep
  <2>2. d.id \in Ctrs \X (0..MaxGen) /\ Name(d.id) \in Deps
    BY Ids DEF TaskState, Dependent, Ctrs
  <2>3. task[t] \in TaskState
    OBVIOUS
  <2>4. [task[t] EXCEPT !.todo = @ \ {d}, !.held = @ \cup {d.id},
                               !.unsure = IF Changed(d) THEN @ \cup {Name(d.id)} ELSE @] \in TaskState
    BY <2>2, <2>3 DEF TaskState
  <2>5. CASE d.id \in locked
    BY <1>4, <2>1, <2>5, EndTyped DEF LockDep, Ended
  <2>6. CASE d.id \notin locked
    <3>1. task' = [task EXCEPT ![t] = [task[t] EXCEPT !.todo = @ \ {d}, !.held = @ \cup {d.id},
                               !.unsure = IF Changed(d) THEN @ \cup {Name(d.id)} ELSE @]]
      BY <2>1, <2>6
    <3>2. QED
      BY <1>4, <2>4, <3>1 DEF LockDep
  <2>7. QED
    BY <2>5, <2>6
<1>5. ASSUME NEW t \in Tasks, Pull(t), UNCHANGED self PROVE Shaped'
  <2>1. CASE End(t, "failed") \/ End(t, "latest") \/ End(t, "handedOff")
    BY <1>5, <2>1, EndTyped DEF Pull, Ended
  <2>2. CASE task' = [task EXCEPT ![t] = [@ EXCEPT !.pc = "replace", !.image = released[Target(t)]]]
    <3>1. released[Target(t)] \in 0..MaxImage /\ task[t] \in TaskState
      BY Ids
    <3>2. [task[t] EXCEPT !.pc = "replace", !.image = released[Target(t)]] \in TaskState
      BY <3>1 DEF TaskState, Steps
    <3>3. QED
      BY <1>5, <2>2, <3>2 DEF Pull
  <2>3. QED
    BY <1>5, <2>1, <2>2 DEF Pull
<1>6. ASSUME NEW c \in Ctrs PROVE Stopped(c) \in [Ctrs -> CtrState]
  <2>1. ASSUME NEW o \in Ctrs PROVE Stopped(c)[o] \in CtrState
    <3>1. cur[o] \in CtrState
      OBVIOUS
    <3>2. Stopped(c)[o] = [cur[o] EXCEPT !.running = @ /\ o # c, !.attached = @ /\ o # c /\ c # Main]
      BY DEF Stopped
    <3>3. (cur[o].running /\ o # c) \in BOOLEAN /\ (cur[o].attached /\ o # c /\ c # Main) \in BOOLEAN
      OBVIOUS
    <3>4. QED
      BY <3>1, <3>2, <3>3 DEF CtrState
  <2>2. QED
    BY <2>1 DEF Stopped
<1>7. StopSelf => task' \in [Tasks -> TaskState] /\ alive' \in BOOLEAN
  <2>1. [Idle EXCEPT !.pc = "killed"] \in TaskState
    BY IdleTyped DEF TaskState, Ended
  <2>2. QED
    BY <2>1 DEF StopSelf
<1>8. ASSUME NEW c \in Ctrs, NEW img \in 0..MaxImage, NEW running \in BOOLEAN, NEW refers \in 1..MaxGen,
             cur[c].gen < MaxGen
      PROVE  Replaced(c, img, running, refers) \in [Ctrs -> CtrState]
  <2>1. cur[c].gen + 1 \in 1..MaxGen
    BY <1>8 DEF CtrState
  <2>2. QED
    <3>1. [gen |-> cur[c].gen + 1, image |-> img, running |-> running,
           attached |-> c # Main /\ running, refers |-> refers] \in CtrState
      BY <2>1 DEF CtrState
    <3>2. QED
      BY <1>6, <3>1 DEF Replaced
<1>9. ASSUME NEW c \in Ctrs, NEW ok \in BOOLEAN PROVE Runs(c, ok) \in [Ctrs -> CtrState]
  <2>1. cur[c] \in CtrState /\ (ok /\ c # Main) \in BOOLEAN
    OBVIOUS
  <2>2. [cur[c] EXCEPT !.running = ok, !.attached = ok /\ c # Main] \in CtrState
    BY <2>1 DEF CtrState
  <2>3. QED
    BY <2>2 DEF Runs
<1>10. ASSUME NEW t \in Tasks, cur' \in Restored(t) PROVE cur' \in [Ctrs -> CtrState]
  <2>1. cur' = cur \/ cur' = Runs(Target(t), TRUE)
    BY <1>10 DEF Restored
  <2>2. Target(t) \in Ctrs
    BY Ids
  <2>3. QED
    BY <2>1, <2>2, <1>9
<1>20. ASSUME NEW t \in Tasks, FailsFirst(t), UNCHANGED self PROVE Shaped'
  BY <1>10, <1>20, EndTyped DEF FailsFirst, Ended
<1>11. ASSUME NEW t \in Tasks, StopOriginal(t), UNCHANGED self PROVE Shaped'
  <2>1. cur' \in [Ctrs -> CtrState]
    <3>1. cur' = Stopped(Target(t)) \/ cur' = cur
      BY <1>11 DEF StopOriginal
    <3>2. QED
      BY <3>1, <1>6, Ids
  <2>2. CASE StopSelf
    BY <1>11, <2>1, <2>2, <1>7 DEF StopOriginal
  <2>3. ASSUME NEW note \in BOOLEAN,
               task' = [task EXCEPT ![t].pc = "switching", ![t].stopped = note], UNCHANGED alive
        PROVE  Shaped'
    <3>1. task[t] \in TaskState
      OBVIOUS
    <3>2. [task[t] EXCEPT !.pc = "switching", !.stopped = note] \in TaskState
      BY <3>1 DEF TaskState, Steps
    <3>3. task' \in [Tasks -> TaskState]
      BY <2>3, <3>2
    <3>4. QED
      BY <1>11, <2>1, <2>3, <3>3 DEF StopOriginal
  <2>4. task[t].running \in BOOLEAN
    BY DEF TaskState
  <2>5. StopSelf \/ \E note \in BOOLEAN :
           task' = [task EXCEPT ![t].pc = "switching", ![t].stopped = note] /\ UNCHANGED alive
    BY <1>11, <2>4 DEF StopOriginal
  <2>6. QED
    BY <2>2, <2>3, <2>5
<1>12. ASSUME NEW t \in Tasks, Switch(t), UNCHANGED self PROVE Shaped'
  <2>1. Target(t) \in Ctrs /\ task[t].image \in 0..MaxImage /\ task[t].running \in BOOLEAN /\ task[t] \in TaskState
    BY Ids DEF TaskState
  <2>2. cur[Target(t)].refers \in 1..MaxGen /\ cur[Target(t)].gen < MaxGen /\ cur[Target(t)].gen + 1 \in 0..MaxGen
    BY <1>12, <2>1 DEF Switch, CtrState
  <2>3. cur' \in [Ctrs -> CtrState]
    BY <1>8, <1>12, <2>1, <2>2 DEF Switch
  <2>4. [task[t] EXCEPT !.pc = "recreate", !.todo = task[t].deps, !.newGen = cur[Target(t)].gen + 1] \in TaskState
    BY <2>1, <2>2 DEF TaskState, Steps
  <2>5. QED
    BY <1>12, <2>3, <2>4 DEF Switch
<1>13. ASSUME NEW t \in Tasks, RollBack(t), UNCHANGED self PROVE Shaped'
  <2>1. cur' \in [Ctrs -> CtrState]
    BY <1>10, <1>13 DEF RollBack
  <2>2. CASE End(t, "failed")
    BY <1>13, <2>1, <2>2, EndTyped DEF RollBack, Ended
  <2>3. CASE task' = [task EXCEPT ![t].pc = "restart", ![t].todo = {d \in task[t].deps : d.running}]
    <3>1. {d \in task[t].deps : d.running} \subseteq Dependent /\ task[t] \in TaskState
      BY DEF TaskState
    <3>2. [task[t] EXCEPT !.pc = "restart", !.todo = {d \in task[t].deps : d.running}] \in TaskState
      BY <3>1 DEF TaskState, Steps
    <3>3. QED
      BY <1>13, <2>1, <2>3, <3>2 DEF RollBack
  <2>4. QED
    BY <1>13, <2>2, <2>3 DEF RollBack
<1>14. ASSUME NEW t \in Tasks, NEW d \in task[t].todo, RestartOne(t, d), UNCHANGED <<released, self>>
      PROVE  Shaped'
  <2>1. Name(d.id) \in Deps /\ Name(d.id) \in Ctrs /\ task[t] \in TaskState
    BY Ids DEF TaskState, Ctrs
  <2>2. cur' \in {cur, Stopped(Name(d.id)), Runs(Name(d.id), TRUE), Runs(Name(d.id), FALSE)}
    BY <1>14 DEF RestartOne
  <2>3. cur' \in [Ctrs -> CtrState]
    BY <2>1, <2>2, <1>6, <1>9
  <2>4. /\ [task[t] EXCEPT !.todo = @ \ {d}] \in TaskState
        /\ [task[t] EXCEPT !.todo = @ \ {d}, !.warned = @ \cup {Name(d.id)}] \in TaskState
    BY <2>1 DEF TaskState
  <2>5. CASE StopSelf
    BY <1>7, <1>14, <2>3, <2>5
  <2>6. CASE /\ \/ task' = [task EXCEPT ![t].todo = @ \ {d}]
                \/ task' = [task EXCEPT ![t].todo = @ \ {d}, ![t].warned = @ \cup {Name(d.id)}]
             /\ UNCHANGED <<locked, alive>>
    BY <1>14, <2>3, <2>4, <2>6
  <2>7. QED
    BY <1>14, <2>5, <2>6 DEF RestartOne
<1>15. ASSUME NEW t \in Tasks, NEW d \in task[t].todo, task[t].newGen # 0, RecreateOne(t, d), UNCHANGED <<released, self>>
      PROVE  Shaped'
  <2> DEFINE c == Name(d.id)
             run == cur[c].running /\ task[t].running
             rest == task' = [task EXCEPT ![t].todo = @ \ {d}]
             warn == task' = [task EXCEPT ![t].todo = @ \ {d}, ![t].warned = @ \cup {c}]
  <2>1. c \in Deps /\ c \in Ctrs /\ task[t] \in TaskState
    BY Ids DEF TaskState, Ctrs
  <2>2. [task[t] EXCEPT !.todo = @ \ {d}] \in TaskState /\ [task[t] EXCEPT !.todo = @ \ {d}, !.warned = @ \cup {c}] \in TaskState
    BY <2>1 DEF TaskState
  <2>3. warn \/ rest => task' \in [Tasks -> TaskState]
    BY <2>2
  <2>4. cur[c].running \in BOOLEAN /\ cur[c].refers \in 1..MaxGen /\ cur[c].image \in 0..MaxImage /\ run \in BOOLEAN
    BY <2>1 DEF CtrState
  <2>5. NewReference(t, c) \in 1..MaxGen
    BY <1>15, <2>1, <2>4 DEF NewReference, TaskState
  <2>. HIDE DEF c, run, rest, warn
  <2>6. CASE StopSelf /\ cur' = Stopped(c)
    BY <1>6, <1>7, <1>15, <2>1, <2>6
  <2>7. CASE warn /\ cur' = cur /\ alive' = alive
    BY <1>15, <2>3, <2>7
  <2>8. CASE warn /\ alive' = alive /\ (cur' = Runs(c, FALSE) \/ cur' = Runs(c, TRUE))
    BY <1>9, <1>15, <2>1, <2>3, <2>8
  <2>9. CASE rest /\ alive' = alive /\ cur[c].gen < MaxGen /\ cur' = Replaced(c, cur[c].image, run, NewReference(t, c))
    BY <1>8, <1>15, <2>1, <2>3, <2>4, <2>5, <2>9
  <2>10. QED
    BY <1>15, <2>4, <2>6, <2>7, <2>8, <2>9 DEF RecreateOne, CanJoin, c, run, rest, warn
<1>16. ASSUME NEW t \in Tasks, Finish(t), UNCHANGED self PROVE Shaped'
  BY <1>16, EndTyped DEF Finish, Ended
<1>17. ASSUME NEW c \in Ctrs, Release(c), UNCHANGED self PROVE Shaped'
  BY <1>17 DEF Release
<1>21. ASSUME NEW id \in ending, StopEnds(id), UNCHANGED self PROVE Shaped'
  <2>1. Name(id) \in Ctrs
    BY DEF Name
  <2>2. QED
    BY <1>6, <1>21, <2>1 DEF StopEnds
<1>18. CASE UNCHANGED vars
  BY <1>18 DEF vars
<1>19. QED
  <2>1. ASSUME NEW t \in Tasks, Restart(t), UNCHANGED self PROVE Shaped'
    BY <1>14, <2>1, EndTyped DEF Restart, Ended
  <2>2. ASSUME NEW t \in Tasks, Recreate(t), UNCHANGED self PROVE Shaped'
    BY <1>15, <2>2 DEF Recreate, OfMain
  <2>3. QED
    BY <1>1, <1>2, <1>3, <1>4, <1>5, <1>11, <1>12, <1>13, <1>20, <1>21, <2>1, <2>2, <1>16, <1>17, <1>18 DEF Next, Run

\* The stops under way are those of containers, and who is cut off depends on Main.
LEMMA TypedStep ==
  ASSUME Typed, \A t \in Tasks : OfMain(t), [Next]_vars
  PROVE  Typed'
<1>1. Shaped'
  BY ShapedStep
<1>2. ASSUME NEW id \in Ctrs \X (0..MaxGen), StopFails(id) PROVE ending' \subseteq Ctrs \X (0..MaxGen)
  BY <1>2 DEF StopFails, Typed
<1>3. /\ \A t \in Tasks : task[t].id \in Ctrs \X (0..MaxGen)
      /\ \A t \in Tasks : \A d \in task[t].todo : d.id \in Ctrs \X (0..MaxGen)
  BY DEF Typed, Shaped, TaskState, Dependent, Ctrs
<1>4. ASSUME NEW deps, deps \subseteq Deps, Cut(deps) PROVE cut' \subseteq Deps
  BY <1>4 DEF Cut
<1>5. cut \subseteq Deps /\ ending \subseteq Ctrs \X (0..MaxGen) /\ \A c : Members(c) \subseteq Deps
  BY DEF Typed, Members
<1>6. ASSUME NEW t \in Tasks, Begins(t) \/ Switch(t) PROVE ending' \subseteq Ctrs \X (0..MaxGen) /\ cut' \subseteq Deps
  <2>1. ending' \subseteq Ctrs \X (0..MaxGen)
    BY <1>2, <1>3, <1>5, <1>6 DEF Begins, FailsFirst, StopOriginal, Switch
  <2>2. \E deps : deps \subseteq Deps /\ Cut(deps)
    <3>1. CASE FailsFirst(t)
      BY <1>5, <3>1 DEF FailsFirst
    <3>2. CASE StopOriginal(t)
      <4>1. Cut(cut) \/ Cut({}) \/ Cut(cut \cup Members(Target(t)))
        BY <3>2 DEF StopOriginal
      <4>2. QED
        BY <1>5, <4>1
    <3>3. CASE Switch(t)
      BY <1>5, <3>3 DEF Switch
    <3>4. QED
      BY <1>6, <3>1, <3>2, <3>3 DEF Begins
  <2>3. QED
    BY <1>4, <2>1, <2>2
<1>7. ASSUME NEW t \in Tasks, Recreate(t) PROVE ending' \subseteq Ctrs \X (0..MaxGen) /\ cut' \subseteq Deps
  BY <1>2, <1>3, <1>4, <1>5, <1>7 DEF Recreate, RecreateOne
<1>8. ASSUME NEW id \in ending, StopEnds(id) PROVE ending' \subseteq Ctrs \X (0..MaxGen) /\ cut' \subseteq Deps
  BY <1>4, <1>5, <1>8 DEF StopEnds
<1>9. CASE UNCHANGED <<ending, cut>> \/ (UNCHANGED ending /\ Cut(cut))
  BY <1>1, <1>4, <1>5, <1>9 DEF Typed
<1>10. QED
  BY <1>1, <1>6, <1>7, <1>8, <1>9 DEF Next, Run, Begins, vars, Typed

-----------------------------------------------------------------------------
(* What a step of task t does to its record, field by field.                *)

Others(t) == \A u \in Tasks \ {t} : task'[u] = task[u]
Same(t) == /\ task'[t].id = task[t].id /\ task'[t].running = task[t].running
           /\ task'[t].newGen = task[t].newGen
SameDeps(t) == task'[t].deps = task[t].deps
SameNotes(t) == task'[t].warned = task[t].warned /\ task'[t].unsure = task[t].unsure
SameLocks(t) == locked' = locked /\ task'[t].held = task[t].held

\* The task ends.
Ends(t) ==
  /\ Others(t) /\ task'[t].pc \in Ended /\ task'[t].id = task[t].id /\ SameDeps(t) /\ SameNotes(t)
  /\ task'[t].todo = {} /\ locked' = locked \ task[t].held /\ task'[t].held = {}

\* The process ends.
Dies == /\ alive' = FALSE /\ locked' = {}
        /\ \A u \in Tasks : task'[u].pc = "killed" /\ task'[u].held = {} /\ task'[u].deps = {}

LEMMA EndEnds ==
  ASSUME Typed, NEW t \in Tasks, NEW at \in Ended, End(t, at)
  PROVE  Ends(t)
BY EndTyped DEF Ends, Others, SameDeps, SameNotes

LEMMA StopSelfDies == StopSelf => Dies
BY DEF StopSelf, Dies, Idle

LEMMA InspectDoes ==
  ASSUME Typed, NEW t \in Tasks, Inspect(t)
  PROVE  /\ task[t].pc = "idle" /\ Others(t) /\ UNCHANGED <<cur, locked, alive>>
         /\ task'[t].pc = "lock" /\ task'[t].held = {} /\ task'[t].deps = {} /\ task'[t].todo = {}
         /\ task'[t].warned = {} /\ task'[t].unsure = {}
         /\ \E c \in Ctrs : task'[t].id = Id(c)
BY DEF Inspect, Others, Idle, Typed, Shaped

LEMMA LockDoes ==
  ASSUME Typed, NEW t \in Tasks, Lock(t)
  PROVE  /\ task[t].pc = "lock" /\ UNCHANGED <<cur, alive>>
         /\ \/ Ends(t)
            \/ /\ Others(t) /\ Same(t) /\ SameDeps(t) /\ SameNotes(t)
               /\ task'[t].pc = "list" /\ task[t].id \notin locked
               /\ locked' = locked \cup {task[t].id} /\ task'[t].held = {task[t].id}
<1>1. CASE task[t].id \in locked
  BY <1>1, EndEnds DEF Lock, Ended
<1>2. CASE task[t].id \notin locked
  BY <1>2 DEF Lock, Others, Same, SameDeps, SameNotes, Typed, Shaped, TaskState
<1>3. QED
  BY <1>1, <1>2

\* What a task on container id lists, and what it is unsure of then.
Listed(id) == {[id |-> Id(d), running |-> cur[d].running] : d \in Dependents(id)}
Busy(id) == {d \in Deps \ Dependents(id) : Name(id) = Main /\ Id(d) \in locked}

LEMMA ListDoes ==
  ASSUME Typed, NEW t \in Tasks, List(t)
  PROVE  /\ task[t].pc = "list" /\ UNCHANGED <<cur, alive>>
         /\ \/ Ends(t)
            \/ /\ Others(t) /\ Same(t) /\ SameLocks(t)
               /\ task'[t].pc = "lockDeps" /\ task'[t].warned = task[t].warned
               /\ task'[t].deps = Listed(task[t].id) /\ task'[t].todo = Listed(task[t].id)
               /\ task'[t].unsure = Busy(task[t].id)
<1>1. CASE End(t, "failed")
  BY <1>1, EndEnds DEF List, Ended
<1>2. CASE ~End(t, "failed")
  <2>1. /\ task' = [task EXCEPT ![t].pc = "lockDeps", ![t].deps = Listed(task[t].id), ![t].todo = Listed(task[t].id),
                               ![t].unsure = Busy(task[t].id)]
        /\ locked' = locked /\ task[t].pc = "list" /\ UNCHANGED <<cur, alive>>
    BY <1>2 DEF List, Listed, Busy, Target
  <2>2. QED
    BY <2>1 DEF Others, Same, SameLocks, Typed, Shaped, TaskState
<1>3. QED
  BY <1>1, <1>2

LEMMA LockDepDoes ==
  ASSUME Typed, NEW t \in Tasks, LockDep(t)
  PROVE  /\ task[t].pc = "lockDeps" /\ UNCHANGED <<cur, alive>>
         /\ \/ Ends(t)
            \/ \E d \in task[t].todo :
                 /\ Others(t) /\ Same(t) /\ SameDeps(t) /\ task'[t].warned = task[t].warned
                 /\ task'[t].pc = "lockDeps" /\ d.id \notin locked
                 /\ locked' = locked \cup {d.id} /\ task'[t].held = task[t].held \cup {d.id}
                 /\ task'[t].todo = task[t].todo \ {d}
                 /\ task'[t].unsure = IF Changed(d) THEN task[t].unsure \cup {Name(d.id)} ELSE task[t].unsure
<1>1. PICK d \in task[t].todo :
       IF d.id \in locked THEN End(t, "rejected")
       ELSE /\ locked' = locked \cup {d.id}
            /\ task' = [task EXCEPT ![t].todo = @ \ {d}, ![t].held = @ \cup {d.id},
                               ![t].unsure = IF Changed(d) THEN @ \cup {Name(d.id)} ELSE @]
  BY DEF LockDep
<1>2. CASE d.id \in locked
  BY <1>1, <1>2, EndEnds DEF LockDep, Ended
<1>3. CASE d.id \notin locked
  <2> DEFINE unsure == IF Changed(d) THEN task[t].unsure \cup {Name(d.id)} ELSE task[t].unsure
  <2>1. task' = [task EXCEPT ![t].todo = @ \ {d}, ![t].held = @ \cup {d.id}, ![t].unsure = unsure]
    BY <1>1, <1>3
  <2>. HIDE DEF unsure
  <2>2. /\ Others(t) /\ Same(t) /\ SameDeps(t) /\ task'[t].warned = task[t].warned
        /\ task'[t].pc = task[t].pc /\ task'[t].held = task[t].held \cup {d.id}
        /\ task'[t].todo = task[t].todo \ {d} /\ task'[t].unsure = unsure
    BY <2>1 DEF Others, Same, SameDeps, Typed, Shaped, TaskState
  <2>3. QED
    BY <1>1, <1>3, <2>2 DEF LockDep, unsure
<1>4. QED
  BY <1>2, <1>3 DEF LockDep

LEMMA PullDoes ==
  ASSUME Typed, NEW t \in Tasks, Pull(t)
  PROVE  /\ task[t].pc = "lockDeps" /\ task[t].todo = {} /\ UNCHANGED <<cur, alive>>
         /\ \/ Ends(t)
            \/ /\ Others(t) /\ Same(t) /\ SameDeps(t) /\ SameNotes(t) /\ SameLocks(t)
               /\ task'[t].pc = "replace" /\ task'[t].todo = task[t].todo /\ Target(t) \notin self
<1>1. CASE End(t, "failed") \/ End(t, "latest") \/ End(t, "handedOff")
  BY <1>1, EndEnds DEF Pull, Ended
<1>2. CASE ~(End(t, "failed") \/ End(t, "latest") \/ End(t, "handedOff"))
  BY <1>2 DEF Pull, HandsOff, Others, Same, SameDeps, SameNotes, SameLocks, Typed, Shaped, TaskState
<1>3. QED
  BY <1>1, <1>2

\* What restores the original of t starts it, if it is down and can be started.
LEMMA RestoredDoes ==
  ASSUME NEW t \in Tasks, cur' \in Restored(t)
  PROVE  \/ cur' = cur
         \/ /\ cur' = Runs(Target(t), TRUE) /\ task[t].running /\ Exists(task[t].id)
            /\ Started(Target(t), cur[Target(t)].refers) /\ ~cur[Target(t)].running
BY DEF Restored

\* What a stop nobody is told of does to whoever is in the namespace.
Unheard(t) == \A d \in Deps : Target(t) = Main /\ cur[d].attached /\ Stranded(d)' => d \in cut'

LEMMA BeginsDoes ==
  ASSUME Typed, NEW t \in Tasks, Begins(t)
  PROVE  /\ task[t].pc = "replace"
         /\ \/ /\ Ends(t) /\ UNCHANGED alive
               /\ \/ cur' = cur
                  \/ /\ cur' = Runs(Target(t), TRUE) /\ Exists(task[t].id)
                     /\ Started(Target(t), cur[Target(t)].refers)
            \/ Dies /\ Target(t) \in self
            \/ /\ Others(t) /\ Same(t) /\ SameDeps(t) /\ SameNotes(t) /\ SameLocks(t)
               /\ Exists(task[t].id) /\ alive' = alive
               /\ task'[t].pc = "switching" /\ task'[t].todo = task[t].todo
               /\ \/ ~task[t].running /\ cur' = cur
                  \/ /\ task[t].running /\ cur' = Stopped(Target(t))
                     /\ task'[t].stopped = TRUE \/ Unheard(t)
<1>1. CASE FailsFirst(t)
  BY <1>1, EndEnds, RestoredDoes DEF FailsFirst, Ended
<1>2. CASE StopOriginal(t) /\ StopSelf /\ Target(t) \in self
  BY <1>2, StopSelfDies DEF StopOriginal
<1>3. ASSUME NEW heard \in BOOLEAN, StopOriginal(t),
             task' = [task EXCEPT ![t].pc = "switching", ![t].stopped = task[t].running /\ heard],
             ~heard => Cut(cut \cup Members(Target(t))),
             UNCHANGED <<locked, alive>>
      PROVE  /\ task[t].pc = "replace"
             /\ Others(t) /\ Same(t) /\ SameDeps(t) /\ SameNotes(t) /\ SameLocks(t)
             /\ Exists(task[t].id) /\ alive' = alive
             /\ task'[t].pc = "switching" /\ task'[t].todo = task[t].todo
             /\ \/ ~task[t].running /\ cur' = cur
                \/ /\ task[t].running /\ cur' = Stopped(Target(t))
                   /\ task'[t].stopped = TRUE \/ Unheard(t)
  <2>1. task[t].running \in BOOLEAN
    BY DEF Typed, Shaped, TaskState
  <2>2. /\ Others(t) /\ Same(t) /\ SameDeps(t) /\ SameNotes(t) /\ SameLocks(t)
        /\ task'[t].pc = "switching" /\ task'[t].todo = task[t].todo
        /\ task'[t].stopped = (task[t].running /\ heard)
    BY <1>3 DEF Others, Same, SameDeps, SameNotes, SameLocks, Typed, Shaped, TaskState
  <2>3. ~heard => Unheard(t)
    BY <1>3 DEF Unheard, Cut, Members
  <2>4. task[t].pc = "replace" /\ Exists(task[t].id) /\ cur' = IF task[t].running THEN Stopped(Target(t)) ELSE cur
    BY <1>3 DEF StopOriginal
  <2>5. QED
    BY <1>3, <2>1, <2>2, <2>3, <2>4
<1>4. StopOriginal(t) /\ ~(StopSelf /\ Target(t) \in self) =>
        \E heard \in BOOLEAN :
          /\ task' = [task EXCEPT ![t].pc = "switching", ![t].stopped = task[t].running /\ heard]
          /\ ~heard => Cut(cut \cup Members(Target(t)))
          /\ UNCHANGED <<locked, alive>>
  BY DEF StopOriginal
<1>5. QED
  BY <1>1, <1>2, <1>3, <1>4 DEF Begins

LEMMA SwitchDoes ==
  ASSUME Typed, NEW t \in Tasks, Switch(t)
  PROVE  /\ task[t].pc = "switching" /\ alive' = alive
         /\ Others(t) /\ SameDeps(t) /\ SameNotes(t) /\ SameLocks(t)
         /\ task'[t].id = task[t].id /\ task'[t].running = task[t].running
         /\ task'[t].pc = "recreate" /\ task'[t].todo = task[t].deps
         /\ task'[t].newGen = cur[Target(t)].gen + 1
         /\ task[t].running => Started(Target(t), cur[Target(t)].refers)
         /\ cur' = Replaced(Target(t), task[t].image, task[t].running, cur[Target(t)].refers)
<1>1. /\ task' = [task EXCEPT ![t].pc = "recreate", ![t].todo = task[t].deps,
                          ![t].newGen = cur[Target(t)].gen + 1]
  BY DEF Switch
<1>2. /\ Others(t) /\ SameDeps(t) /\ SameNotes(t) /\ task'[t].held = task[t].held
      /\ task'[t].id = task[t].id /\ task'[t].running = task[t].running
      /\ task'[t].pc = "recreate" /\ task'[t].todo = task[t].deps
      /\ task'[t].newGen = cur[Target(t)].gen + 1
  BY <1>1 DEF Others, SameDeps, SameNotes, Typed, Shaped, TaskState
<1>3. QED
  BY <1>2 DEF Switch, SameLocks

LEMMA RollBackDoes ==
  ASSUME Typed, NEW t \in Tasks, RollBack(t)
  PROVE  /\ task[t].pc = "switching" /\ alive' = alive
         /\ \/ cur' = cur
            \/ cur' = Runs(Target(t), TRUE) /\ Started(Target(t), cur[Target(t)].refers)
         /\ \/ Ends(t) /\ ~task[t].stopped
            \/ /\ Others(t) /\ Same(t) /\ SameDeps(t) /\ SameNotes(t) /\ SameLocks(t)
               /\ task[t].stopped
               /\ task'[t].pc = "restart" /\ task'[t].todo = {d \in task[t].deps : d.running}
<1>4. \/ cur' = cur
      \/ cur' = Runs(Target(t), TRUE) /\ Started(Target(t), cur[Target(t)].refers)
  BY RestoredDoes DEF RollBack
<1>1. CASE task[t].stopped
  <2>1. /\ task' = [task EXCEPT ![t].pc = "restart", ![t].todo = {d \in task[t].deps : d.running}]
        /\ locked' = locked
    BY <1>1 DEF RollBack
  <2>2. /\ Others(t) /\ Same(t) /\ SameDeps(t) /\ SameNotes(t) /\ SameLocks(t)
        /\ task'[t].pc = "restart" /\ task'[t].todo = {d \in task[t].deps : d.running}
    BY <2>1 DEF Others, Same, SameDeps, SameNotes, SameLocks, Typed, Shaped, TaskState
  <2>3. QED
    BY <1>1, <1>4, <2>2 DEF RollBack
<1>2. CASE ~task[t].stopped
  BY <1>2, <1>4, EndEnds DEF RollBack, Ended
<1>3. QED
  BY <1>1, <1>2

LEMMA RestartDoes ==
  ASSUME Typed, NEW t \in Tasks, Restart(t)
  PROVE  /\ task[t].pc = "restart"
         /\ \/ Ends(t) /\ task[t].todo = {} /\ UNCHANGED <<cur, alive>>
            \/ \E d \in task[t].todo :
                 \/ Dies /\ Name(d.id) \in self
                 \/ /\ Others(t) /\ Same(t) /\ SameDeps(t) /\ SameLocks(t) /\ alive' = alive
                    /\ task'[t].pc = "restart" /\ task'[t].todo = task[t].todo \ {d}
                    /\ task'[t].unsure = task[t].unsure
                    /\ \/ /\ Exists(d.id) /\ CanJoin(Name(d.id), cur[Name(d.id)].refers)
                          /\ cur' = Runs(Name(d.id), TRUE) /\ task'[t].warned = task[t].warned
                       \/ /\ task'[t].warned = task[t].warned \cup {Name(d.id)}
                          /\ \/ cur' = cur
                             \/ Exists(d.id) /\ cur' = Runs(Name(d.id), FALSE)
                             \/ /\ Exists(d.id) /\ CanJoin(Name(d.id), cur[Name(d.id)].refers)
                                /\ cur' = Runs(Name(d.id), TRUE)
<1>1. CASE task[t].todo = {}
  BY <1>1, EndEnds DEF Restart, Ended
<1>2. CASE task[t].todo # {}
  <2>1. PICK d \in task[t].todo : RestartOne(t, d)
    BY <1>2 DEF Restart
  <2> DEFINE c == Name(d.id)
             up == Exists(d.id) /\ CanJoin(c, cur[c].refers)
             rest == task' = [task EXCEPT ![t].todo = @ \ {d}]
             warn == task' = [task EXCEPT ![t].todo = @ \ {d}, ![t].warned = @ \cup {c}]
  <2>2. task[t].pc = "restart"
    BY DEF Restart
  <2>3. rest /\ UNCHANGED locked =>
          /\ Others(t) /\ Same(t) /\ SameDeps(t) /\ SameLocks(t)
          /\ task'[t].pc = "restart" /\ task'[t].todo = task[t].todo \ {d}
          /\ task'[t].unsure = task[t].unsure /\ task'[t].warned = task[t].warned
    BY <2>2 DEF Others, Same, SameDeps, SameLocks, Typed, Shaped, TaskState
  <2>4. warn /\ UNCHANGED locked =>
          /\ Others(t) /\ Same(t) /\ SameDeps(t) /\ SameLocks(t)
          /\ task'[t].pc = "restart" /\ task'[t].todo = task[t].todo \ {d}
          /\ task'[t].unsure = task[t].unsure /\ task'[t].warned = task[t].warned \cup {c}
    BY <2>2 DEF Others, Same, SameDeps, SameLocks, Typed, Shaped, TaskState
  <2>5. \/ c \in self /\ StopSelf
        \/ up /\ cur' = Runs(c, TRUE) /\ rest /\ UNCHANGED <<locked, alive>>
        \/ /\ cur' = cur \/ (Exists(d.id) /\ cur' = Runs(c, FALSE)) \/ (up /\ cur' = Runs(c, TRUE))
           /\ warn /\ UNCHANGED <<locked, alive>>
    BY <2>1 DEF RestartOne
  <2>. HIDE DEF rest, warn
  <2>6. CASE c \in self /\ StopSelf
    BY <2>2, <2>6, StopSelfDies
  <2>7. CASE up /\ cur' = Runs(c, TRUE) /\ rest /\ UNCHANGED <<locked, alive>>
    BY <2>2, <2>3, <2>7
  <2>8. CASE /\ cur' = cur \/ (Exists(d.id) /\ cur' = Runs(c, FALSE)) \/ (up /\ cur' = Runs(c, TRUE))
             /\ warn /\ UNCHANGED <<locked, alive>>
    BY <2>2, <2>4, <2>8
  <2>9. QED
    BY <2>5, <2>6, <2>7, <2>8
<1>3. QED
  BY <1>1, <1>2

LEMMA RecreateDoes ==
  ASSUME Typed, NEW t \in Tasks, Recreate(t)
  PROVE  /\ task[t].pc = "recreate"
         /\ \E d \in task[t].todo :
              \/ Dies /\ Name(d.id) \in self
              \/ /\ Others(t) /\ Same(t) /\ SameDeps(t) /\ SameLocks(t) /\ alive' = alive
                 /\ task'[t].pc = "recreate" /\ task'[t].todo = task[t].todo \ {d}
                 /\ task'[t].unsure = task[t].unsure
                 /\ \/ /\ task'[t].warned = task[t].warned \cup {Name(d.id)}
                       /\ \/ cur' = cur
                          \/ Exists(d.id) /\ cur' = Runs(Name(d.id), FALSE)
                          \/ /\ Exists(d.id) /\ CanJoin(Name(d.id), cur[Name(d.id)].refers)
                             /\ cur' = Runs(Name(d.id), TRUE)
                    \/ /\ task'[t].warned = task[t].warned /\ Exists(d.id)
                       /\ \E run \in BOOLEAN :
                            /\ run => CanJoin(Name(d.id), NewReference(t, Name(d.id)))
                            /\ cur' = Replaced(Name(d.id), cur[Name(d.id)].image, run, NewReference(t, Name(d.id)))
<1>1. PICK d \in task[t].todo : RecreateOne(t, d)
  BY DEF Recreate
<1> DEFINE c == Name(d.id)
           run == cur[c].running /\ task[t].running
           rest == task' = [task EXCEPT ![t].todo = @ \ {d}]
           warn == task' = [task EXCEPT ![t].todo = @ \ {d}, ![t].warned = @ \cup {c}]
<1>2. task[t].pc = "recreate" /\ run \in BOOLEAN
  BY DEF Recreate
<1>3. rest /\ UNCHANGED locked =>
        /\ Others(t) /\ Same(t) /\ SameDeps(t) /\ SameLocks(t)
        /\ task'[t].pc = "recreate" /\ task'[t].todo = task[t].todo \ {d}
        /\ task'[t].unsure = task[t].unsure /\ task'[t].warned = task[t].warned
  BY <1>2 DEF Others, Same, SameDeps, SameLocks, Typed, Shaped, TaskState
<1>4. warn /\ UNCHANGED locked =>
        /\ Others(t) /\ Same(t) /\ SameDeps(t) /\ SameLocks(t)
        /\ task'[t].pc = "recreate" /\ task'[t].todo = task[t].todo \ {d}
        /\ task'[t].unsure = task[t].unsure /\ task'[t].warned = task[t].warned \cup {c}
  BY <1>2 DEF Others, Same, SameDeps, SameLocks, Typed, Shaped, TaskState
<1>5. CASE StopSelf /\ c \in self
  BY <1>2, <1>5, StopSelfDies
<1>. HIDE DEF run, rest, warn
<1>6. CASE warn /\ UNCHANGED <<locked, alive>> /\ cur' = cur
  BY <1>2, <1>4, <1>6
<1>7. CASE warn /\ UNCHANGED <<locked, alive>> /\ Exists(d.id) /\ cur' = Runs(c, FALSE)
  BY <1>2, <1>4, <1>7
<1>8. CASE warn /\ UNCHANGED <<locked, alive>> /\ Exists(d.id) /\ CanJoin(c, cur[c].refers) /\ cur' = Runs(c, TRUE)
  BY <1>2, <1>4, <1>8
<1>9. CASE rest /\ UNCHANGED <<locked, alive>> /\ Exists(d.id) /\ (run => CanJoin(c, NewReference(t, c)))
            /\ cur' = Replaced(c, cur[c].image, run, NewReference(t, c))
  BY <1>2, <1>3, <1>9
<1>10. QED
  BY <1>1, <1>2, <1>5, <1>6, <1>7, <1>8, <1>9 DEF RecreateOne, CanJoin, c, run, rest, warn

LEMMA FinishDoes ==
  ASSUME Typed, NEW t \in Tasks, Finish(t)
  PROVE  task[t].pc = "recreate" /\ task[t].todo = {} /\ Ends(t) /\ UNCHANGED <<cur, alive>>
BY EndEnds DEF Finish, Ended

-----------------------------------------------------------------------------
(* The locks.                                                               *)

\* A step of a task takes a lock nobody holds, or gives back its own, or neither.
LEMMA LocksStep ==
  ASSUME Locks, NEW t \in Tasks, Others(t),
         \/ SameLocks(t)
         \/ locked' = locked \ task[t].held /\ task'[t].held = {}
         \/ \E id : id \notin locked /\ locked' = locked \cup {id} /\ task'[t].held = task[t].held \cup {id}
  PROVE  Locks'
<1> USE DEF Locks, Others
<1>1. \A id : id \in locked <=> \E u \in Tasks : id \in task[u].held
  OBVIOUS
<1>2. \A u, v \in Tasks : u # v => \A id : ~(id \in task[u].held /\ id \in task[v].held)
  OBVIOUS
<1>3. \A u, v \in Tasks : u # v => \A id : ~(id \in task'[u].held /\ id \in task'[v].held)
  BY <1>1, <1>2 DEF SameLocks
<1>4. \A id : id \in locked' <=> \E u \in Tasks : id \in task'[u].held
  BY <1>1, <1>2 DEF SameLocks
<1>5. QED
  BY <1>3, <1>4

LEMMA DiesLocks ==
  ASSUME Dies
  PROVE  Locks'
BY DEF Dies, Locks

LEMMA LockedBy ==
  ASSUME Locks
  PROVE  /\ \A id : id \in locked <=> \E u \in Tasks : id \in task[u].held
         /\ \A u, v \in Tasks : \A id : id \in task[u].held /\ id \in task[v].held => u = v
BY DEF Locks

LEMMA LocksNext ==
  ASSUME Typed, Locks, LockInv, [Next]_vars
  PROVE  Locks'
<1>1. ASSUME NEW t \in Tasks, Ends(t) PROVE Locks'
  BY <1>1, LocksStep DEF Ends
<1>2. ASSUME NEW t \in Tasks, Inspect(t) PROVE Locks'
  BY <1>2, InspectDoes, LocksStep DEF LockInv, HoldsNothing, SameLocks, Working, AfterList, Listing
<1>3. ASSUME NEW t \in Tasks, Lock(t) PROVE Locks'
  <2>1. task[t].held = {} \/ task[t].pc # "lock"
    BY DEF LockInv, HoldsNothing, Working, AfterList, Listing
  <2>2. QED
    BY <1>1, <1>3, <2>1, LockDoes, LocksStep
<1>4. ASSUME NEW t \in Tasks, List(t) \/ Pull(t) PROVE Locks'
  BY <1>1, <1>4, ListDoes, PullDoes, LocksStep
<1>5. ASSUME NEW t \in Tasks, LockDep(t) PROVE Locks'
  BY <1>1, <1>5, LockDepDoes, LocksStep
<1>6. ASSUME NEW t \in Tasks, Begins(t) PROVE Locks'
  BY <1>1, <1>6, BeginsDoes, LocksStep, DiesLocks
<1>7. ASSUME NEW t \in Tasks, Switch(t) \/ RollBack(t) PROVE Locks'
  BY <1>1, <1>7, SwitchDoes, RollBackDoes, LocksStep
<1>8. ASSUME NEW t \in Tasks, Restart(t) PROVE Locks'
  BY <1>1, <1>8, RestartDoes, LocksStep, DiesLocks
<1>9. ASSUME NEW t \in Tasks, Recreate(t) PROVE Locks'
  BY <1>9, RecreateDoes, LocksStep, DiesLocks
<1>10. ASSUME NEW t \in Tasks, Finish(t) PROVE Locks'
  BY <1>1, <1>10, FinishDoes
<1>11. CASE UNCHANGED vars \/ (\E c \in Ctrs : Release(c)) \/ (\E id \in ending : StopEnds(id))
  <2>1. task' = task /\ locked' = locked
    BY <1>11 DEF vars, Release, StopEnds
  <2>2. QED
    BY <2>1 DEF Locks
<1>12. QED
  BY <1>2, <1>3, <1>4, <1>5, <1>6, <1>7, <1>8, <1>9, <1>10, <1>11 DEF Next, Run, Begins

\* What a task that has ended, or has not begun, still says of the locks: nothing.
LEMMA EndsLockInv ==
  ASSUME NEW t \in Tasks, Ends(t), OfMain(t)
  PROVE  HoldsTarget(t)' /\ HoldsDeps(t)' /\ HoldsNothing(t)' /\ OfMain(t)'
BY DEF Ends, SameDeps, HoldsTarget, HoldsDeps, HoldsNothing, OfMain, Working, AfterList, Listing, Ended, Target

LEMMA LockInvStep ==
  ASSUME Typed, Locks, LockInv, [Next]_vars
  PROVE  LockInv'
<1> DEFINE Mine(t) == HoldsTarget(t) /\ HoldsDeps(t) /\ HoldsNothing(t) /\ OfMain(t)
<1> USE DEF Working, AfterList, Listing
<1>0. \A t \in Tasks : Mine(t)
  BY DEF LockInv
<1>1. ASSUME NEW t \in Tasks, Others(t), Mine(t)' PROVE LockInv'
  BY <1>0, <1>1 DEF Others, LockInv, HoldsTarget, HoldsDeps, HoldsNothing, OfMain, Target
<1>2. ASSUME NEW t \in Tasks, Ends(t) PROVE LockInv'
  BY <1>0, <1>1, <1>2, EndsLockInv DEF Ends
<1>3. CASE Dies
  BY <1>3 DEF Dies, LockInv, HoldsTarget, HoldsDeps, HoldsNothing, OfMain
<1> USE DEF HoldsTarget, HoldsDeps, HoldsNothing, OfMain, Same, SameDeps, SameLocks, Target
<1>4. ASSUME NEW t \in Tasks, Inspect(t) PROVE LockInv'
  BY <1>1, <1>4, InspectDoes
<1>5. ASSUME NEW t \in Tasks, Lock(t) PROVE LockInv'
  <2>1. CASE ~Ends(t)
    BY <1>0, <1>1, <1>5, <2>1, LockDoes
  <2>2. QED
    BY <1>2, <2>1
<1>6. ASSUME NEW t \in Tasks, List(t) PROVE LockInv'
  <2>1. CASE ~Ends(t)
    <3>1. Listed(task[t].id) # {} => Target(t) = Main
      BY DEF Listed, Dependents
    <3>2. QED
      BY <1>0, <1>1, <1>6, <2>1, <3>1, ListDoes
  <2>2. QED
    BY <1>2, <2>1
<1>7. ASSUME NEW t \in Tasks, LockDep(t) PROVE LockInv'
  <2>1. CASE ~Ends(t)
    <3>1. PICK d \in task[t].todo :
            /\ Others(t) /\ Same(t) /\ SameDeps(t) /\ task'[t].pc = "lockDeps"
            /\ task'[t].held = task[t].held \cup {d.id} /\ task'[t].todo = task[t].todo \ {d}
      BY <1>7, <2>1, LockDepDoes
    <3>2. task[t].pc = "lockDeps"
      BY <1>7, LockDepDoes
    <3>3. HoldsTarget(t)' /\ HoldsNothing(t)' /\ OfMain(t)'
      BY <1>0, <3>1, <3>2
    <3>4. HoldsDeps(t)'
      BY <1>0, <3>1, <3>2
    <3>5. QED
      BY <1>1, <3>1, <3>3, <3>4
  <2>2. QED
    BY <1>2, <2>1
<1>8. ASSUME NEW t \in Tasks, Pull(t) PROVE LockInv'
  <2>1. CASE ~Ends(t)
    BY <1>0, <1>1, <1>8, <2>1, PullDoes
  <2>2. QED
    BY <1>2, <2>1
<1>9. ASSUME NEW t \in Tasks, Begins(t) PROVE LockInv'
  <2>1. CASE ~Ends(t) /\ ~Dies
    <3>1. /\ task[t].pc = "replace" /\ task'[t].pc = "switching" /\ task'[t].todo = task[t].todo
          /\ Others(t) /\ Same(t) /\ SameDeps(t) /\ SameLocks(t)
      BY <1>9, <2>1, BeginsDoes
    <3>2. QED
      BY <1>0, <1>1, <3>1
  <2>2. QED
    BY <1>2, <1>3, <2>1
<1>10. ASSUME NEW t \in Tasks, Switch(t) PROVE LockInv'
  <2>1. Target(t) \in Ctrs /\ cur[Target(t)].gen + 1 # 0
    BY Ids DEF Typed, Shaped, CtrState
  <2>2. QED
    BY <1>0, <1>1, <1>10, <2>1, SwitchDoes
<1>11. ASSUME NEW t \in Tasks, RollBack(t) PROVE LockInv'
  <2>1. CASE ~Ends(t)
    <3>1. /\ task[t].pc = "switching" /\ task'[t].pc = "restart"
          /\ task'[t].todo = {d \in task[t].deps : d.running}
          /\ Others(t) /\ Same(t) /\ SameDeps(t) /\ SameLocks(t)
      BY <1>11, <2>1, RollBackDoes
    <3>2. QED
      BY <1>0, <1>1, <3>1
  <2>2. QED
    BY <1>2, <2>1
<1>12. ASSUME NEW t \in Tasks, Restart(t) PROVE LockInv'
  <2>1. CASE ~Ends(t) /\ ~Dies
    <3>1. PICK d \in task[t].todo :
            /\ Others(t) /\ Same(t) /\ SameDeps(t) /\ SameLocks(t)
            /\ task'[t].pc = task[t].pc /\ task'[t].todo = task[t].todo \ {d}
      BY <1>12, <2>1, RestartDoes
    <3>2. task[t].pc = "restart"
      BY <1>12, RestartDoes
    <3>3. QED
      BY <1>0, <1>1, <3>1, <3>2
  <2>2. QED
    BY <1>2, <1>3, <2>1
<1>13. ASSUME NEW t \in Tasks, Recreate(t) PROVE LockInv'
  <2>1. CASE ~Dies
    <3>1. PICK d \in task[t].todo :
            /\ Others(t) /\ Same(t) /\ SameDeps(t) /\ SameLocks(t)
            /\ task'[t].pc = task[t].pc /\ task'[t].todo = task[t].todo \ {d}
      BY <1>13, <2>1, RecreateDoes
    <3>2. task[t].pc = "recreate"
      BY <1>13, RecreateDoes
    <3>3. QED
      BY <1>0, <1>1, <3>1, <3>2
  <2>2. QED
    BY <1>3, <2>1
<1>14. ASSUME NEW t \in Tasks, Finish(t) PROVE LockInv'
  BY <1>2, <1>14, FinishDoes
<1>15. CASE UNCHANGED vars \/ (\E c \in Ctrs : Release(c)) \/ (\E id \in ending : StopEnds(id))
  BY <1>15 DEF vars, Release, StopEnds, LockInv
<1>16. QED
  BY <1>4, <1>5, <1>6, <1>7, <1>8, <1>9, <1>10, <1>11, <1>12, <1>13, <1>14, <1>15 DEF Next, Run, Begins

\* What a task touches, it holds the lock of.
LEMMA TouchesHeld ==
  ASSUME LockInv, NEW t \in Tasks
  PROVE  Touches(t) \subseteq task[t].held
<1>1. HoldsTarget(t) /\ HoldsDeps(t)
  BY DEF LockInv
<1>2. QED
  BY <1>1 DEF Touches, HoldsTarget, HoldsDeps, Working, AfterList, Listing

LEMMA InitLocks == Init => Typed /\ Locks /\ LockInv
<1> SUFFICES ASSUME Init PROVE Typed /\ Locks /\ LockInv
  OBVIOUS
<1>1. task \in [Tasks -> TaskState] /\ \A t \in Tasks : task[t] = Idle
  BY IdleTyped DEF Init
<1>2. cur \in [Ctrs -> CtrState]
  <2>1. PICK up \in BOOLEAN, ups \in SUBSET Deps :
          cur = [c \in Ctrs |-> [gen |-> 1, image |-> 0, running |-> IF c = Main THEN up ELSE c \in ups,
                                 attached |-> c \in ups, refers |-> 1]]
    BY DEF Init
  <2>2. 1 \in 1..MaxGen /\ 0 \in 0..MaxImage
    OBVIOUS
  <2>3. ASSUME NEW c \in Ctrs
        PROVE  [gen |-> 1, image |-> 0, running |-> IF c = Main THEN up ELSE c \in ups,
                attached |-> c \in ups, refers |-> 1] \in CtrState
    <3>1. (c \in ups) \in BOOLEAN
      OBVIOUS
    <3>2. CASE c = Main
      BY <2>2, <3>1, <3>2 DEF CtrState
    <3>3. CASE c # Main
      BY <2>2, <3>1, <3>3 DEF CtrState
    <3>4. QED
      BY <3>2, <3>3
  <2>4. QED
    BY <2>1, <2>3
<1>3. Typed
  BY <1>1, <1>2 DEF Init, Typed, Shaped
<1>4. Locks
  BY <1>1 DEF Init, Locks, Idle
<1>5. LockInv
  BY <1>1 DEF LockInv, HoldsTarget, HoldsDeps, HoldsNothing, OfMain, Idle, Working, AfterList, Listing
<1>6. QED
  BY <1>3, <1>4, <1>5

\* The types, and the locks: what is locked is what the tasks hold, and a task at
\* work holds the container it works on and the dependents it has locked.
THEOREM LocksHeld == Spec => [](TypeOK /\ LockInv)
<1>1. Init => TypeOK /\ LockInv
  BY InitLocks, TypeParts
<1>2. TypeOK /\ LockInv /\ [Next]_vars => (TypeOK /\ LockInv)'
  <2>1. (TypeOK <=> Typed /\ Locks)'
    BY TypeParts, PTL
  <2>2. ASSUME Typed, Locks, LockInv, [Next]_vars PROVE Typed' /\ Locks' /\ LockInv'
    BY <2>2, TypedStep, LocksNext, LockInvStep DEF LockInv
  <2>3. QED
    BY <2>1, <2>2, TypeParts
<1>3. QED
  BY <1>1, <1>2, PTL DEF Spec

\* Type correctness, with locks that are each held by one task.
THEOREM TypeCorrect == Spec => []TypeOK
<1>1. TypeOK /\ LockInv => TypeOK
  OBVIOUS
<1>2. QED
  BY <1>1, LocksHeld, PTL

\* "Hold every dependent's lock for the whole upgrade": no container is replaced by
\* two tasks at once, be it the target of one and a dependent of the other.
THEOREM NobodyUnderneath == Spec => []NeverUnderneath
<1>1. TypeOK /\ LockInv => NeverUnderneath
  BY TouchesHeld DEF NeverUnderneath, TypeOK
<1>2. QED
  BY <1>1, LocksHeld, PTL

-----------------------------------------------------------------------------
(* What steps do to the containers.                                         *)

\* phyless runs in Main or outside of the containers, not in a dependent: a
\* dependent that is phyless is recreated by no helper (ContainerUpgrade_self.cfg).
SelfIsMain == \A s \in Selves : s \subseteq {Main}

LEMMA ExistingId ==
  ASSUME Typed
  PROVE  /\ \A t \in Tasks : Exists(task[t].id) <=> task[t].id = Id(Target(t))
         /\ \A t \in Tasks : Exists(task[t].id) <=> cur[Target(t)].gen = task[t].id[2]
         /\ \A e \in Dependent : Exists(e.id) <=> e.id = Id(Name(e.id))
         /\ \A e \in Dependent : Exists(e.id) <=> cur[Name(e.id)].gen = e.id[2]
         /\ \A c \in Ctrs : cur[c].gen \in Nat
<1>1. \A c \in Ctrs : cur[c].gen \in Nat
  BY DEF Typed, Shaped, CtrState
<1>2. \A t \in Tasks : Target(t) \in Ctrs /\ task[t].id = <<Target(t), task[t].id[2]>> /\ Name(task[t].id) = Target(t)
  BY Ids DEF Target
<1>3. \A e \in Dependent : Name(e.id) \in Deps /\ e.id = <<Name(e.id), e.id[2]>>
  BY Ids
<1>4. QED
  BY <1>1, <1>2, <1>3 DEF Exists, Id

\* One that is stopped, one that is started or not, one that is replaced.
LEMMA StoppedCtr ==
  ASSUME Typed, NEW c \in Ctrs, cur' = Stopped(c), NEW o \in Ctrs
  PROVE  /\ cur'[o].gen = cur[o].gen /\ cur'[o].refers = cur[o].refers
         /\ cur'[o].running <=> cur[o].running /\ o # c
         /\ o # c => cur'[o].running = cur[o].running
         /\ cur'[o].attached <=> cur[o].attached /\ o # c /\ c # Main
<1>1. cur[o] \in CtrState
  BY DEF Typed, Shaped
<1>2. cur'[o] = [cur[o] EXCEPT !.running = @ /\ o # c, !.attached = @ /\ o # c /\ c # Main]
  BY DEF Stopped
<1>3. QED
  BY <1>1, <1>2 DEF CtrState

LEMMA RunsCtr ==
  ASSUME Typed, NEW c \in Ctrs, NEW ok \in BOOLEAN, cur' = Runs(c, ok), NEW o \in Ctrs
  PROVE  /\ cur'[o].gen = cur[o].gen /\ cur'[o].refers = cur[o].refers
         /\ o # c => cur'[o] = cur[o]
         /\ cur'[c].running = ok /\ (cur'[c].attached <=> ok /\ c # Main)
<1>1. cur[c] \in CtrState /\ (ok /\ c # Main) \in BOOLEAN
  BY DEF Typed, Shaped
<1>2. cur'[c] = [cur[c] EXCEPT !.running = ok, !.attached = ok /\ c # Main]
  BY DEF Runs, Typed, Shaped
<1>3. o # c => cur'[o] = cur[o]
  BY DEF Runs, Typed, Shaped
<1>4. cur'[c].gen = cur[c].gen /\ cur'[c].refers = cur[c].refers
      /\ cur'[c].running = ok /\ (cur'[c].attached <=> ok /\ c # Main)
  BY <1>1, <1>2 DEF CtrState
<1>5. QED
  BY <1>3, <1>4

LEMMA ReplacedCtr ==
  ASSUME Typed, NEW c \in Ctrs, NEW img, NEW run \in BOOLEAN, NEW ref, cur' = Replaced(c, img, run, ref)
  PROVE  /\ cur'[c].gen = cur[c].gen + 1 /\ cur'[c].refers = ref
         /\ cur'[c].running = run /\ (cur'[c].attached <=> run /\ c # Main)
         /\ \A o \in Ctrs \ {c} :
              /\ cur'[o].gen = cur[o].gen /\ cur'[o].refers = cur[o].refers
              /\ cur'[o].running = cur[o].running
              /\ cur'[o].attached <=> cur[o].attached /\ c # Main
<1>1. cur'[c] = [gen |-> cur[c].gen + 1, image |-> img, running |-> run,
                 attached |-> c # Main /\ run, refers |-> ref]
  BY DEF Replaced, Stopped
<1>2. ASSUME NEW o \in Ctrs \ {c}
      PROVE  /\ cur'[o].gen = cur[o].gen /\ cur'[o].refers = cur[o].refers
             /\ cur'[o].running = cur[o].running
             /\ cur'[o].attached <=> cur[o].attached /\ c # Main
  <2>1. cur[o] \in CtrState
    BY DEF Typed, Shaped
  <2>2. cur'[o] = [cur[o] EXCEPT !.running = @ /\ o # c, !.attached = @ /\ o # c /\ c # Main]
    BY DEF Replaced, Stopped
  <2>3. QED
    BY <2>1, <2>2 DEF CtrState
<1>3. /\ cur'[c].gen = cur[c].gen + 1 /\ cur'[c].refers = ref
      /\ cur'[c].running = run /\ cur'[c].attached = (c # Main /\ run)
  BY <1>1
<1>4. QED
  BY <1>2, <1>3

\* The conditions under which the steps are looked at from here on.
Sane == Typed /\ Locks /\ LockInv /\ DepsInv

\* No step of an upgrade stops phyless.
LEMMA NobodyDies ==
  ASSUME SelfIsMain, Sane, NEW t \in Tasks, Run(t)
  PROVE  alive' = alive
<1>1. self \subseteq {Main} /\ Main \notin Deps
  BY DEF SelfIsMain, Sane, Typed, Shaped
<1>2. \A d \in task[t].todo : Name(d.id) \in Deps
  BY Ids DEF Sane, Typed, Shaped, TaskState
<1>3. CASE Begins(t)
  BY <1>3, BeginsDoes DEF Sane, DepsInv, TaskInv, SparesSelf, Ends
<1>4. CASE Restart(t)
  BY <1>1, <1>2, <1>4, RestartDoes DEF Sane
<1>5. CASE Recreate(t)
  BY <1>1, <1>2, <1>5, RecreateDoes DEF Sane
<1>6. CASE ~(Begins(t) \/ Restart(t) \/ Recreate(t))
  BY <1>6, LockDoes, ListDoes, LockDepDoes, PullDoes, SwitchDoes, RollBackDoes, FinishDoes DEF Run, Begins, Sane
<1>7. QED
  BY <1>3, <1>4, <1>5, <1>6

\* What a step leaves of the notes, and of the containers it holds no lock of.
Frame(t) ==
  /\ Others(t)
  /\ \A c \in Ctrs : \/ Id(c) \in task[t].held
                     \/ /\ cur'[c].gen = cur[c].gen /\ cur'[c].refers = cur[c].refers
                        /\ cur'[c].running = cur[c].running
  /\ \A c \in Ctrs : cur'[c].gen \in Nat /\ cur[c].gen <= cur'[c].gen
  /\ task[t].warned \subseteq task'[t].warned /\ task[t].unsure \subseteq task'[t].unsure

LEMMA StepFrame ==
  ASSUME SelfIsMain, Sane, NEW t \in Tasks, Inspect(t) \/ Run(t)
  PROVE  Frame(t)
<1> DEFINE Cur == /\ \A c \in Ctrs : \/ Id(c) \in task[t].held
                                     \/ /\ cur'[c].gen = cur[c].gen /\ cur'[c].refers = cur[c].refers
                                        /\ cur'[c].running = cur[c].running
                  /\ \A c \in Ctrs : cur'[c].gen \in Nat /\ cur[c].gen <= cur'[c].gen
<1>0. /\ Typed /\ Target(t) \in Ctrs /\ \A c \in Ctrs : cur[c].gen \in Nat
      /\ task[t].todo \subseteq Dependent /\ alive = TRUE
      /\ \A d \in Dependent : Name(d.id) \in Ctrs
  BY ExistingId, Ids DEF Sane, Typed, Shaped, TaskState, Ctrs, DepsInv
<1>1. cur' = cur => Cur
  BY <1>0
<1>2. ASSUME NEW c \in Ctrs, Id(c) \in task[t].held, cur' = Stopped(c) PROVE Cur
  <2>1. \A o \in Ctrs : /\ cur'[o].gen = cur[o].gen /\ cur'[o].refers = cur[o].refers
                        /\ o # c => cur'[o].running = cur[o].running
    BY <1>0, <1>2, StoppedCtr
  <2>2. QED
    BY <1>0, <1>2, <2>1
<1>22. ASSUME NEW c \in Ctrs, Id(c) \in task[t].held, NEW ok \in BOOLEAN, cur' = Runs(c, ok) PROVE Cur
  <2>1. \A o \in Ctrs : /\ cur'[o].gen = cur[o].gen /\ cur'[o].refers = cur[o].refers
                        /\ o # c => cur'[o] = cur[o]
    BY <1>0, <1>22, RunsCtr
  <2>2. QED
    BY <1>0, <1>22, <2>1
<1>3. ASSUME NEW c \in Ctrs, Id(c) \in task[t].held, NEW img, NEW run \in BOOLEAN, NEW ref, cur' = Replaced(c, img, run, ref)
      PROVE  Cur
  <2>1. /\ cur'[c].gen = cur[c].gen + 1
        /\ \A o \in Ctrs \ {c} : /\ cur'[o].gen = cur[o].gen /\ cur'[o].refers = cur[o].refers
                                /\ cur'[o].running = cur[o].running
    BY <1>0, <1>3, ReplacedCtr
  <2>2. QED
    BY <1>0, <1>3, <2>1
<1>4. ASSUME NEW d \in task[t].todo, Exists(d.id), task[t].pc \in {"restart", "recreate"}
      PROVE  Id(Name(d.id)) \in task[t].held
  BY <1>0, <1>4, ExistingId DEF Sane, LockInv, HoldsDeps, AfterList
<1>5. Exists(task[t].id) /\ task[t].pc \in {"replace", "switching"} => Id(Target(t)) \in task[t].held
  BY <1>0, ExistingId DEF Sane, LockInv, HoldsTarget, Working, AfterList, Listing
<1>6. task[t].pc = "switching" => Exists(task[t].id)
  BY DEF Sane, DepsInv, TaskInv, TargetExists
<1>7. NothingNoted(t)
  BY DEF Sane, DepsInv, TaskInv
<1> DEFINE Notes == task[t].warned \subseteq task'[t].warned /\ task[t].unsure \subseteq task'[t].unsure
<1>8. Ends(t) => Others(t) /\ Notes
  BY DEF Ends, SameNotes
<1>9. SameNotes(t) => Notes
  BY DEF SameNotes
<1>10. ~Dies /\ Cur /\ Others(t) /\ Notes => Frame(t)
  BY DEF Frame
<1>11. ~Dies
  BY <1>0, NobodyDies, InspectDoes DEF Dies
<1>. HIDE DEF Cur, Notes
<1>12. CASE Inspect(t)
  <2>1. Others(t) /\ cur' = cur /\ task[t].warned = {} /\ task[t].unsure = {}
    BY <1>0, <1>7, <1>12, InspectDoes DEF NothingNoted
  <2>2. QED
    BY <1>1, <2>1 DEF Frame, Cur
<1>13. CASE Lock(t) \/ Pull(t) \/ Finish(t)
  BY <1>0, <1>1, <1>8, <1>9, <1>10, <1>11, <1>13, LockDoes, PullDoes, FinishDoes DEF Run, Begins
<1>14. CASE List(t)
  <2>1. CASE Ends(t)
    BY <1>0, <1>1, <1>8, <1>10, <1>11, <1>14, <2>1, ListDoes DEF Run, Begins
  <2>2. CASE ~Ends(t)
    <3>1. Others(t) /\ cur' = cur /\ task[t].unsure = {} /\ task'[t].warned = task[t].warned
      BY <1>0, <1>7, <1>14, <2>2, ListDoes DEF NothingNoted
    <3>2. QED
      BY <1>1, <3>1 DEF Frame, Cur
  <2>3. QED
    BY <2>1, <2>2
<1>15. CASE LockDep(t)
  <2>1. Others(t) /\ cur' = cur /\ Notes
    BY <1>0, <1>8, <1>15, LockDepDoes DEF Notes
  <2>2. QED
    BY <1>1, <1>10, <1>11, <1>15, <2>1 DEF Run, Begins
<1>16. CASE Begins(t)
  <2>1. Others(t) /\ Notes /\ ~Dies
    BY <1>0, <1>8, <1>9, <1>11, <1>16, BeginsDoes DEF Run, Begins
  <2>2. \/ cur' = cur
        \/ /\ Exists(task[t].id) /\ task[t].pc = "replace"
           /\ cur' = Stopped(Target(t)) \/ cur' = Runs(Target(t), TRUE)
    BY <1>0, <2>1, <1>16, BeginsDoes
  <2>3. QED
    BY <1>0, <1>1, <1>2, <1>22, <1>5, <1>10, <2>1, <2>2
<1>17. CASE Switch(t)
  <2>1. task[t].running \in BOOLEAN
    BY <1>0 DEF Typed, Shaped, TaskState
  <2>2. QED
    <3>1. Others(t) /\ Notes /\ task[t].pc = "switching"
      BY <1>0, <1>9, <1>17, SwitchDoes
    <3>2. cur' = Replaced(Target(t), task[t].image, task[t].running, cur[Target(t)].refers)
      BY <1>0, <1>17, SwitchDoes
    <3>3. Cur
      BY <1>0, <1>3, <1>5, <1>6, <2>1, <3>1, <3>2
    <3>4. QED
      BY <1>10, <1>11, <1>17, <3>1, <3>3 DEF Run, Begins
<1>18. CASE RollBack(t)
  <2>1. Others(t) /\ Notes /\ task[t].pc = "switching"
    BY <1>0, <1>8, <1>9, <1>18, RollBackDoes
  <2>2. cur' = cur \/ cur' = Runs(Target(t), TRUE)
    BY <1>0, <1>18, RollBackDoes
  <2>3. Cur
    BY <1>0, <1>1, <1>22, <1>5, <1>6, <2>1, <2>2
  <2>4. QED
    BY <1>10, <1>11, <1>18, <2>1, <2>3 DEF Run, Begins
<1>19. CASE Restart(t)
  <2>1. Others(t) /\ Notes
    BY <1>0, <1>8, <1>11, <1>19, RestartDoes DEF Run, Begins, Notes
  <2>2. Cur
    <3>1. CASE cur' = cur
      BY <1>1, <3>1
    <3>2. CASE cur' # cur
      <4>1. PICK d \in task[t].todo : Exists(d.id) /\ (cur' = Runs(Name(d.id), TRUE) \/ cur' = Runs(Name(d.id), FALSE))
        BY <1>0, <1>11, <1>19, <3>2, RestartDoes DEF Run, Begins
      <4>2. QED
        BY <1>0, <1>4, <1>19, <1>22, <4>1, RestartDoes
    <3>3. QED
      BY <3>1, <3>2
  <2>3. QED
    BY <1>10, <1>11, <1>19, <2>1, <2>2 DEF Run, Begins
<1>20. CASE Recreate(t)
  <2>1. Others(t) /\ Notes
    BY <1>0, <1>8, <1>11, <1>20, RecreateDoes DEF Run, Begins, Notes
  <2>2. Cur
    <3>1. CASE cur' = cur
      BY <1>1, <3>1
    <3>2. CASE cur' # cur
      <4>1. PICK d \in task[t].todo :
              /\ Exists(d.id)
              /\ \/ cur' = Runs(Name(d.id), TRUE) \/ cur' = Runs(Name(d.id), FALSE)
                 \/ \E run \in BOOLEAN : cur' = Replaced(Name(d.id), cur[Name(d.id)].image, run, NewReference(t, Name(d.id)))
        BY <1>0, <1>11, <1>20, <3>2, RecreateDoes DEF Run, Begins
      <4>2. Id(Name(d.id)) \in task[t].held /\ Name(d.id) \in Ctrs
        BY <1>0, <1>4, <1>20, <4>1, RecreateDoes
      <4>3. QED
        BY <1>3, <1>22, <4>1, <4>2
    <3>3. QED
      BY <3>1, <3>2
  <2>3. QED
    BY <1>10, <1>11, <1>20, <2>1, <2>2 DEF Run, Begins
<1>21. QED
  BY <1>12, <1>13, <1>14, <1>15, <1>16, <1>17, <1>18, <1>19, <1>20 DEF Run, Begins

\* What t does not hold the lock of is as it was: what u holds, for one.
LEMMA HeldUnchanged ==
  ASSUME Sane, NEW t \in Tasks, Frame(t), NEW u \in Tasks \ {t}, NEW c \in Ctrs, Id(c) \in task[u].held
  PROVE  cur'[c].gen = cur[c].gen /\ cur'[c].refers = cur[c].refers /\ cur'[c].running = cur[c].running
<1>1. Id(c) \notin task[t].held
  BY LockedBy DEF Sane
<1>2. QED
  BY <1>1 DEF Frame

\* A generation that is over does not come back.
LEMMA GoneStaysGone ==
  ASSUME Sane, NEW t \in Tasks, Frame(t)
  PROVE  /\ \A u \in Tasks : Exists(task[u].id)' /\ task'[u].id = task[u].id => Exists(task[u].id)
         /\ \A u \in Tasks : \A e \in task[u].deps : Exists(e.id)' => Exists(e.id)
<1>1. Typed /\ (\A c \in Ctrs : cur[c].gen \in Nat /\ cur'[c].gen \in Nat /\ cur[c].gen <= cur'[c].gen)
  BY ExistingId DEF Sane, Frame
<1>2. ASSUME NEW u \in Tasks, Exists(task[u].id)', task'[u].id = task[u].id PROVE Exists(task[u].id)
  <2>1. cur'[Target(u)].gen = task[u].id[2] /\ task[u].id[2] <= cur[Target(u)].gen /\ Target(u) \in Ctrs
        /\ task[u].id[2] \in Nat
    BY <1>1, <1>2, Ids DEF Exists, Target, Sane, DepsInv, TaskInv, NotNewer
  <2>2. QED
    BY <1>1, <2>1, ExistingId
<1>3. ASSUME NEW u \in Tasks, NEW e \in task[u].deps, Exists(e.id)' PROVE Exists(e.id)
  <2>1. e \in Dependent
    BY <1>1 DEF Typed, Shaped, TaskState
  <2>2. cur'[Name(e.id)].gen = e.id[2] /\ e.id[2] <= cur[Name(e.id)].gen /\ Name(e.id) \in Ctrs
        /\ e.id[2] \in Nat
    BY <1>1, <1>3, <2>1, Ids DEF Exists, Sane, DepsInv, TaskInv, NotNewer, Ctrs
  <2>3. QED
    BY <1>1, <2>1, <2>2, ExistingId
<1>4. QED
  BY <1>2, <1>3

\* The step of t leaves what the other tasks know of what they hold.
LEMMA OthersKeep ==
  ASSUME Sane, NEW t \in Tasks, Frame(t), self' = self, NEW u \in Tasks \ {t}
  PROVE  NothingNoted(u)' /\ NotNewer(u)' /\ TargetExists(u)' /\ SparesSelf(u)' /\ Kept(u)'
<1>1. task'[u] = task[u] /\ TaskInv(u) /\ Typed
  BY DEF Frame, Others, Sane, DepsInv
<1>2. NothingNoted(u)' /\ SparesSelf(u)'
  BY <1>1 DEF TaskInv, NothingNoted, SparesSelf, Target
<1>3. /\ Target(u) \in Ctrs /\ task[u].id[2] \in Nat
      /\ \A e \in task[u].deps : e \in Dependent /\ Name(e.id) \in Ctrs /\ e.id[2] \in Nat
  BY <1>1, Ids DEF Typed, Shaped, TaskState, Ctrs
<1>4. \A c \in Ctrs : cur[c].gen \in Nat /\ cur'[c].gen \in Nat /\ cur[c].gen <= cur'[c].gen
  BY <1>1, ExistingId DEF Frame
<1>5. NotNewer(u)'
  BY <1>1, <1>3, <1>4 DEF TaskInv, NotNewer, Target
<1>6. TargetExists(u)'
  <2>1. SUFFICES ASSUME task[u].pc = "switching" PROVE Exists(task[u].id)'
    BY <1>1 DEF TargetExists
  <2>2. Exists(task[u].id) /\ task[u].id = Id(Target(u)) /\ task[u].id \in task[u].held
    BY <1>1, <2>1, ExistingId DEF TaskInv, TargetExists, Sane, LockInv, HoldsTarget, Working, AfterList, Listing
  <2>3. cur'[Target(u)].gen = cur[Target(u)].gen
    BY <1>3, <2>2, HeldUnchanged
  <2>4. QED
    BY <1>1, <2>2, <2>3 DEF Exists, Target
<1>7. Kept(u)'
  <2>1. SUFFICES ASSUME task[u].pc \in Listing, NEW e \in task[u].deps,
                        ~(task[u].pc = "lockDeps" /\ e \in task[u].todo), Name(e.id) \notin task[u].unsure
                 PROVE  Stays(e)'
    BY <1>1 DEF Kept
  <2>2. Stays(e) /\ e.id \in task[u].held
    BY <1>1, <2>1 DEF TaskInv, Kept, Sane, LockInv, HoldsDeps, AfterList
  <2>3. Exists(e.id) /\ (cur[Name(e.id)].running => e.running) /\ Id(Name(e.id)) \in task[u].held
    BY <1>1, <1>3, <2>2, ExistingId DEF Stays
  <2>4. cur'[Name(e.id)].gen = cur[Name(e.id)].gen /\ cur'[Name(e.id)].running = cur[Name(e.id)].running
    BY <1>3, <2>3, HeldUnchanged
  <2>5. QED
    BY <2>3, <2>4 DEF Stays, Exists
<1>8. QED
  BY <1>2, <1>5, <1>6, <1>7

LEMMA OwnIds ==
  ASSUME SelfIsMain, Sane, NEW t \in Tasks, Inspect(t) \/ Run(t)
  PROVE  NotNewer(t)'
<1>1. Frame(t) /\ Typed /\ NotNewer(t) /\ alive = TRUE
  BY StepFrame DEF Sane, DepsInv, TaskInv
<1>2. \A c \in Ctrs : cur[c].gen \in Nat /\ cur'[c].gen \in Nat /\ cur[c].gen <= cur'[c].gen
  BY <1>1, ExistingId DEF Frame
<1>3. /\ Target(t) \in Ctrs /\ task[t].id[2] \in Nat
      /\ \A e \in task[t].deps : e \in Dependent /\ Name(e.id) \in Ctrs /\ e.id[2] \in Nat
  BY <1>1, Ids DEF Typed, Shaped, TaskState, Ctrs
<1>4. CASE task'[t].id = task[t].id /\ SameDeps(t)
  BY <1>1, <1>2, <1>3, <1>4 DEF NotNewer, Target, SameDeps
<1>5. CASE Inspect(t)
  <2>1. PICK c \in Ctrs : task'[t].id = Id(c) /\ task'[t].deps = {} /\ cur' = cur
    BY <1>1, <1>5, InspectDoes
  <2>2. QED
    BY <1>2, <2>1 DEF NotNewer, Target, Id, Name
<1>6. CASE List(t) /\ ~Ends(t)
  <2>1. task'[t].id = task[t].id /\ task'[t].deps = Listed(task[t].id) /\ cur' = cur
    BY <1>1, <1>6, ListDoes DEF Same
  <2>2. \A e \in Listed(task[t].id) : Name(e.id) \in Ctrs /\ e.id[2] = cur[Name(e.id)].gen
    BY DEF Listed, Dependents, Id, Name, Ctrs
  <2>3. QED
    BY <1>1, <1>2, <2>1, <2>2 DEF NotNewer, Target
<1>7. CASE Ends(t)
  BY <1>4, <1>7 DEF Ends
<1>8. ~Dies
  BY <1>1, NobodyDies, InspectDoes DEF Dies
<1>9. CASE Lock(t) \/ LockDep(t) \/ Pull(t) \/ Finish(t)
  BY <1>1, <1>4, <1>7, <1>9, LockDoes, LockDepDoes, PullDoes, FinishDoes DEF Same
<1>10. CASE Begins(t) \/ Switch(t) \/ RollBack(t)
  BY <1>1, <1>4, <1>7, <1>8, <1>10, BeginsDoes, SwitchDoes, RollBackDoes DEF Same, Run, Begins
<1>11. CASE Restart(t) \/ Recreate(t)
  BY <1>1, <1>4, <1>7, <1>8, <1>11, RestartDoes, RecreateDoes DEF Same, Run, Begins
<1>12. QED
  BY <1>5, <1>6, <1>7, <1>9, <1>10, <1>11 DEF Run, Begins

LEMMA OwnKeeps ==
  ASSUME SelfIsMain, Sane, NEW t \in Tasks, Inspect(t) \/ Run(t), self' = self
  PROVE  NothingNoted(t)' /\ TargetExists(t)' /\ SparesSelf(t)' /\ Kept(t)'
<1> DEFINE Goal == NothingNoted(t)' /\ TargetExists(t)' /\ SparesSelf(t)' /\ Kept(t)'
<1>1. Frame(t) /\ Typed /\ TaskInv(t) /\ alive = TRUE
  BY StepFrame DEF Sane, DepsInv
<1>2. ~Dies
  BY <1>1, NobodyDies, InspectDoes DEF Dies
<1>3. /\ Target(t) \in Ctrs
      /\ \A e \in task[t].deps : e \in Dependent /\ Name(e.id) \in Deps /\ Name(e.id) \in Ctrs
  BY <1>1, Ids DEF Typed, Shaped, TaskState, Ctrs
<1> USE DEF NothingNoted, TargetExists, SparesSelf, Kept, Listing
<1>4. CASE task'[t].pc \in Ended \cup {"recreate", "restart", "list"} /\ (task'[t].pc = "list" => task'[t].unsure = {})
  BY <1>4 DEF Ended
<1>5. CASE Inspect(t)
  BY <1>1, <1>5, InspectDoes
<1>6. CASE Lock(t)
  <2>1. task'[t].pc = "list" => task'[t].unsure = {}
    BY <1>1, <1>6, LockDoes DEF SameNotes, TaskInv, Ends, Ended
  <2>2. QED
    BY <1>1, <1>4, <1>6, <2>1, LockDoes DEF Ends
<1>7. CASE List(t)
  <2>1. CASE Ends(t)
    BY <1>4, <2>1 DEF Ends, Ended
  <2>2. CASE ~Ends(t)
    <3>1. task'[t].pc = "lockDeps" /\ task'[t].todo = task'[t].deps
      BY <1>1, <1>7, <2>2, ListDoes
    <3>2. QED
      BY <3>1
  <2>3. QED
    BY <2>1, <2>2
<1>8. CASE LockDep(t)
  <2>1. CASE Ends(t)
    BY <1>4, <2>1 DEF Ends, Ended
  <2>2. CASE ~Ends(t)
    <3>1. PICK d \in task[t].todo :
            /\ task'[t].pc = "lockDeps" /\ SameDeps(t) /\ task'[t].todo = task[t].todo \ {d} /\ cur' = cur
            /\ task'[t].unsure = IF Changed(d) THEN task[t].unsure \cup {Name(d.id)} ELSE task[t].unsure
      BY <1>1, <1>8, <2>2, LockDepDoes
    <3>2. task[t].pc = "lockDeps"
      BY <1>1, <1>8, LockDepDoes
    <3>3. \A e \in task[t].deps : (Stays(e)' <=> Stays(e)) /\ (~Changed(e) => Stays(e))
      BY <3>1 DEF Stays, Changed, Exists
    <3>4. \A e \in task'[t].deps : e \in task'[t].todo \/ Name(e.id) \in task'[t].unsure \/ Stays(e)'
      BY <1>1, <3>1, <3>2, <3>3 DEF TaskInv, SameDeps
    <3>5. QED
      BY <3>1, <3>4
  <2>3. QED
    BY <2>1, <2>2
<1>9. CASE Pull(t)
  <2>1. CASE Ends(t)
    BY <1>4, <2>1 DEF Ends, Ended
  <2>2. CASE ~Ends(t)
    <3>1. /\ task[t].pc = "lockDeps" /\ task[t].todo = {} /\ task'[t].pc = "replace" /\ task'[t].id = task[t].id
          /\ SameDeps(t) /\ SameNotes(t) /\ cur' = cur /\ Target(t) \notin self
      BY <1>1, <1>9, <2>2, PullDoes DEF Same
    <3>2. \A e \in task[t].deps : Stays(e)' <=> Stays(e)
      BY <3>1 DEF Stays, Exists
    <3>3. QED
      BY <1>1, <3>1, <3>2 DEF TaskInv, SameDeps, SameNotes, Target
  <2>3. QED
    BY <2>1, <2>2
<1>10. CASE Begins(t)
  <2>1. CASE Ends(t)
    BY <1>4, <2>1 DEF Ends, Ended
  <2>2. CASE ~Ends(t)
    <3>1. /\ task[t].pc = "replace" /\ task'[t].pc = "switching" /\ task'[t].id = task[t].id /\ Exists(task[t].id)
          /\ SameDeps(t) /\ SameNotes(t) /\ (cur' = cur \/ cur' = Stopped(Target(t)))
      BY <1>1, <1>2, <1>10, <2>2, BeginsDoes DEF Same, Run, Begins
    <3>2. \A c \in Ctrs : /\ cur'[c].gen = cur[c].gen
                          /\ c # Target(t) => cur'[c].running = cur[c].running
      BY <1>1, <1>3, <3>1, StoppedCtr
    <3>3. \A e \in task[t].deps : Name(e.id) # Target(t)
      BY <1>3 DEF Sane, LockInv, OfMain
    <3>4. \A e \in task[t].deps : Stays(e)' <=> Stays(e)
      BY <1>3, <3>2, <3>3 DEF Stays, Exists
    <3>5. Kept(t)'
      BY <1>1, <3>1, <3>4 DEF TaskInv, SameDeps, SameNotes
    <3>6. TargetExists(t)'
      BY <1>3, <3>1, <3>2 DEF Exists, Target
    <3>7. SparesSelf(t)'
      BY <1>1, <3>1 DEF TaskInv, Target
    <3>8. QED
      BY <3>1, <3>5, <3>6, <3>7
  <2>3. QED
    BY <2>1, <2>2
<1>11. CASE Switch(t) \/ RollBack(t) \/ Restart(t) \/ Recreate(t) \/ Finish(t)
  BY <1>1, <1>2, <1>4, <1>11, SwitchDoes, RollBackDoes, RestartDoes, RecreateDoes, FinishDoes DEF Ends, Ended,
     Run, Begins
<1>12. QED
  BY <1>5, <1>6, <1>7, <1>8, <1>9, <1>10, <1>11 DEF Run, Begins

\* The step recreates dependent c and points it at ref.
Recreates(t, c, ref) ==
  /\ task[t].pc = "recreate" /\ ref = NewReference(t, c)
  /\ \E e \in task[t].todo : Name(e.id) = c /\ Exists(e.id)

\* The ways in which the containers change: what is started in Main's namespace can
\* join it, and only StopOriginal and Switch take that namespace away.
LEMMA CurStep ==
  ASSUME SelfIsMain, Sane, NEW t \in Tasks, Inspect(t) \/ Run(t)
  PROVE  \/ cur' = cur
         \/ /\ cur' = Stopped(Target(t)) /\ Begins(t)
            /\ task'[t].pc = "switching" /\ task'[t].id = task[t].id /\ SameDeps(t)
            /\ Exists(task[t].id) /\ (task'[t].stopped = TRUE \/ Unheard(t))
         \/ \E c \in Deps : cur' = Runs(c, FALSE)
         \/ \E c \in Ctrs : cur' = Runs(c, TRUE) /\ (c # Main => CanJoin(c, cur[c].refers))
         \/ \E c \in Ctrs, run \in BOOLEAN, img \in 0..MaxImage, ref \in 0..MaxGen :
              /\ cur' = Replaced(c, img, run, ref)
              /\ c # Main /\ run => CanJoin(c, ref)
              /\ \/ Switch(t) /\ Target(t) = c /\ ref = cur[c].refers
                 \/ c # Main /\ Recreates(t, c, ref)
<1>1. Typed /\ alive = TRUE /\ Target(t) \in Ctrs /\ task[t] \in TaskState
      /\ (\A e \in task[t].todo : Name(e.id) \in Deps)
  BY Ids DEF Sane, DepsInv, Typed, Shaped, TaskState
<1>2. ~Dies
  BY <1>1, NobodyDies, InspectDoes DEF Dies
<1>3. CASE Inspect(t) \/ Lock(t) \/ List(t) \/ LockDep(t) \/ Pull(t) \/ Finish(t)
  BY <1>1, <1>3, InspectDoes, LockDoes, ListDoes, LockDepDoes, PullDoes, FinishDoes
<1>4. CASE Begins(t)
  BY <1>1, <1>2, <1>4, BeginsDoes DEF Run, Begins, Same, Started
<1>5. CASE Switch(t)
  <2>1. /\ task[t].running \in BOOLEAN /\ task[t].image \in 0..MaxImage /\ cur[Target(t)].refers \in 0..MaxGen
    BY <1>1 DEF Typed, Shaped, TaskState, CtrState
  <2>2. /\ cur' = Replaced(Target(t), task[t].image, task[t].running, cur[Target(t)].refers)
        /\ task[t].running => Started(Target(t), cur[Target(t)].refers)
    BY <1>1, <1>5, SwitchDoes
  <2>3. QED
    BY <1>1, <1>5, <2>1, <2>2 DEF Started
<1>6. CASE RollBack(t)
  <2>1. cur' = cur \/ (cur' = Runs(Target(t), TRUE) /\ Started(Target(t), cur[Target(t)].refers))
    BY <1>1, <1>6, RollBackDoes
  <2>2. QED
    BY <1>1, <2>1 DEF Started
<1>7. CASE Restart(t)
  <2>1. \/ cur' = cur
        \/ \E e \in task[t].todo : \/ cur' = Runs(Name(e.id), FALSE)
                                   \/ cur' = Runs(Name(e.id), TRUE) /\ CanJoin(Name(e.id), cur[Name(e.id)].refers)
    BY <1>1, <1>2, <1>7, RestartDoes DEF Run, Begins
  <2>2. QED
    BY <1>1, <2>1 DEF Ctrs
<1>8. CASE Recreate(t)
  <2>1. CASE \/ cur' = cur
             \/ \E e \in task[t].todo : \/ cur' = Runs(Name(e.id), FALSE)
                                        \/ cur' = Runs(Name(e.id), TRUE) /\ CanJoin(Name(e.id), cur[Name(e.id)].refers)
    BY <1>1, <2>1 DEF Ctrs
  <2>2. ASSUME NEW e \in task[t].todo, Exists(e.id), NEW run \in BOOLEAN,
               cur' = Replaced(Name(e.id), cur[Name(e.id)].image, run, NewReference(t, Name(e.id))),
               run => CanJoin(Name(e.id), NewReference(t, Name(e.id)))
        PROVE  \E c \in Ctrs, r \in BOOLEAN, img \in 0..MaxImage, ref \in 0..MaxGen :
                 /\ cur' = Replaced(c, img, r, ref)
                 /\ c # Main /\ r => CanJoin(c, ref)
                 /\ c # Main /\ Recreates(t, c, ref)
    <3>1. Name(e.id) \in Ctrs /\ Name(e.id) # Main
      BY <1>1 DEF Ctrs
    <3>2. cur[Name(e.id)].image \in 0..MaxImage /\ NewReference(t, Name(e.id)) \in 0..MaxGen
      BY <1>1, <3>1 DEF Typed, Shaped, CtrState, TaskState, NewReference
    <3>3. Recreates(t, Name(e.id), NewReference(t, Name(e.id)))
      BY <1>8, <2>2 DEF Recreates, Recreate
    <3>4. QED
      BY <2>2, <3>1, <3>2, <3>3
  <2>3. CASE \E e \in task[t].todo, run \in BOOLEAN :
               /\ Exists(e.id)
               /\ run => CanJoin(Name(e.id), NewReference(t, Name(e.id)))
               /\ cur' = Replaced(Name(e.id), cur[Name(e.id)].image, run, NewReference(t, Name(e.id)))
    BY <2>2, <2>3
  <2>4. QED
    BY <1>1, <1>2, <1>8, <2>1, <2>3, RecreateDoes DEF Run, Begins
<1>9. QED
  BY <1>3, <1>4, <1>5, <1>6, <1>7, <1>8 DEF Run, Begins

\* Only recreating a dependent changes what it refers to, and only the switch to its
\* replacement gives Main a new generation.
LEMMA RefersStep ==
  ASSUME SelfIsMain, Sane, NEW t \in Tasks, Inspect(t) \/ Run(t)
  PROVE  /\ \A d \in Deps : cur'[d].refers = cur[d].refers \/ Recreates(t, d, cur'[d].refers)
         /\ \/ cur'[Main].gen = cur[Main].gen
            \/ Switch(t) /\ Target(t) = Main /\ cur'[Main].gen = cur[Main].gen + 1
<1>1. Typed /\ Target(t) \in Ctrs /\ Main \in Ctrs /\ Deps \subseteq Ctrs /\ Main \notin Deps
  BY Ids DEF Sane, Ctrs
<1>2. CASE cur' = cur
  BY <1>2
<1>3. CASE cur' = Stopped(Target(t))
  BY <1>1, <1>3, StoppedCtr
<1>4. ASSUME NEW c \in Ctrs, NEW ok \in BOOLEAN, cur' = Runs(c, ok)
      PROVE  \A o \in Ctrs : cur'[o].refers = cur[o].refers /\ cur'[o].gen = cur[o].gen
  BY <1>1, <1>4, RunsCtr
<1>5. CASE \E c \in Ctrs, ok \in BOOLEAN : cur' = Runs(c, ok)
  BY <1>1, <1>4, <1>5
<1>6. ASSUME NEW c \in Ctrs, NEW run \in BOOLEAN, NEW img \in 0..MaxImage, NEW ref \in 0..MaxGen,
             cur' = Replaced(c, img, run, ref)
      PROVE  /\ cur'[c].gen = cur[c].gen + 1 /\ cur'[c].refers = ref
             /\ \A o \in Ctrs \ {c} : cur'[o].gen = cur[o].gen /\ cur'[o].refers = cur[o].refers
  BY <1>1, <1>6, ReplacedCtr
<1>7. CASE \E c \in Ctrs, run \in BOOLEAN, img \in 0..MaxImage, ref \in 0..MaxGen :
             /\ cur' = Replaced(c, img, run, ref)
             /\ \/ Switch(t) /\ Target(t) = c /\ ref = cur[c].refers
                \/ c # Main /\ Recreates(t, c, ref)
  <2>1. PICK c \in Ctrs, ref \in 0..MaxGen :
             /\ cur'[c].gen = cur[c].gen + 1 /\ cur'[c].refers = ref
             /\ \A o \in Ctrs \ {c} : cur'[o].gen = cur[o].gen /\ cur'[o].refers = cur[o].refers
             /\ \/ Switch(t) /\ Target(t) = c /\ ref = cur[c].refers
                \/ c # Main /\ Recreates(t, c, ref)
    BY <1>6, <1>7
  <2>2. QED
    BY <1>1, <2>1
<1>8. QED
  BY <1>1, <1>2, <1>3, <1>5, <1>7, CurStep

\* A task that recreates dependents did so before, or has just switched.
LEMMA RecreatingStep ==
  ASSUME SelfIsMain, Sane, NEW t \in Tasks, Inspect(t) \/ Run(t), task'[t].pc = "recreate"
  PROVE  \/ /\ task[t].pc = "recreate" /\ task'[t].newGen = task[t].newGen
            /\ task'[t].todo \subseteq task[t].todo /\ SameDeps(t)
         \/ /\ Switch(t) /\ task'[t].newGen = cur[Target(t)].gen + 1
            /\ task'[t].todo = task[t].deps /\ SameDeps(t)
<1>1. Typed /\ alive = TRUE
  BY DEF Sane, DepsInv
<1>2. ~Ends(t) /\ ~Dies
  BY <1>1, NobodyDies, InspectDoes DEF Dies, Ends, Ended
<1>3. CASE Inspect(t) \/ Lock(t) \/ List(t) \/ LockDep(t) \/ Pull(t)
  BY <1>1, <1>2, <1>3, InspectDoes, LockDoes, ListDoes, LockDepDoes, PullDoes
<1>4. CASE Begins(t) \/ RollBack(t) \/ Restart(t) \/ Finish(t)
  BY <1>1, <1>2, <1>4, BeginsDoes, RollBackDoes, RestartDoes, FinishDoes DEF Run, Begins
<1>5. CASE Switch(t)
  BY <1>1, <1>5, SwitchDoes
<1>6. CASE Recreate(t)
  BY <1>1, <1>2, <1>6, RecreateDoes DEF Run, Begins, Same
<1>7. QED
  BY <1>3, <1>4, <1>5, <1>6 DEF Run, Begins

\* A task that has listed did so before, or has just listed.
LEMMA ListingStep ==
  ASSUME SelfIsMain, Sane, NEW t \in Tasks, Inspect(t) \/ Run(t), task'[t].pc \in Listing
  PROVE  /\ task'[t].id = task[t].id
         /\ \/ task[t].pc \in Listing /\ SameDeps(t)
            \/ List(t) /\ cur' = cur /\ task'[t].deps = Listed(task[t].id) /\ task'[t].unsure = Busy(task[t].id)
<1>1. Typed /\ alive = TRUE
  BY DEF Sane, DepsInv
<1>2. ~Ends(t) /\ ~Dies
  BY <1>1, NobodyDies, InspectDoes DEF Dies, Ends, Ended, Listing
<1>3. CASE Inspect(t) \/ Lock(t)
  BY <1>1, <1>2, <1>3, InspectDoes, LockDoes DEF Listing
<1>4. CASE List(t)
  BY <1>1, <1>2, <1>4, ListDoes DEF Same
<1>5. CASE LockDep(t) \/ Pull(t)
  BY <1>1, <1>2, <1>5, LockDepDoes, PullDoes DEF Listing, Same
<1>6. CASE Begins(t)
  BY <1>1, <1>2, <1>6, BeginsDoes DEF Listing, Same, Run, Begins
<1>7. CASE Switch(t) \/ RollBack(t) \/ Restart(t) \/ Recreate(t) \/ Finish(t)
  BY <1>1, <1>2, <1>7, SwitchDoes, RollBackDoes, RestartDoes, RecreateDoes, FinishDoes DEF Listing, Run, Begins
<1>8. QED
  BY <1>3, <1>4, <1>5, <1>6, <1>7 DEF Run, Begins

\* No task that recreates dependents of generation g will point d at it.
NotPointedAt(d, g) ==
  \A u \in Tasks : task[u].pc = "recreate" /\ task[u].newGen = g =>
    \A e \in task[u].todo : Name(e.id) = d => ~Exists(e.id)

LEMMA FoundIs ==
  ASSUME NEW t \in Tasks
  PROVE  Found(t) <=>
           (task[t].pc \in Listing /\ Target(t) = Main /\ Exists(task[t].id) =>
              \A d \in Deps : \/ d \in NamesOf(task[t].deps) \cup task[t].unsure
                              \/ /\ d \notin ByName /\ cur[d].refers # task[t].id[2]
                                 /\ NotPointedAt(d, task[t].id[2]))
BY DEF Found, NotPointedAt

\* What refers to no Main of generation g, and is not about to, stays so.
LEMMA UnrelatedStays ==
  ASSUME SelfIsMain, Sane, NEW t \in Tasks, Inspect(t) \/ Run(t), NEW d \in Deps, NEW g \in Nat,
         d \notin ByName, cur[d].refers # g, NotPointedAt(d, g), g <= cur[Main].gen
  PROVE  cur'[d].refers # g /\ NotPointedAt(d, g)'
<1>1. Frame(t) /\ Typed
  BY StepFrame DEF Sane
<1>2. cur'[d].refers # g
  BY RefersStep DEF NotPointedAt, NewReference, Recreates
<1>3. ASSUME NEW u \in Tasks, task'[u].pc = "recreate", task'[u].newGen = g, NEW e \in task'[u].todo, Name(e.id) = d
      PROVE  ~Exists(e.id)'
  <2>1. CASE u # t
    <3>1. task'[u] = task[u]
      BY <1>1, <2>1 DEF Frame, Others
    <3>2. ~Exists(e.id) /\ e \in task[u].deps
      BY <1>3, <3>1 DEF NotPointedAt, Sane, LockInv, HoldsDeps, AfterList
    <3>3. QED
      BY <1>1, <3>2, GoneStaysGone
  <2>2. CASE u = t /\ task[t].pc = "recreate" /\ task'[t].newGen = task[t].newGen /\ task'[t].todo \subseteq task[t].todo
    <3>1. ~Exists(e.id) /\ e \in task[t].deps
      BY <1>3, <2>2 DEF NotPointedAt, Sane, LockInv, HoldsDeps, AfterList
    <3>2. QED
      BY <1>1, <3>1, GoneStaysGone
  <2>3. CASE u = t /\ task'[t].newGen = cur[Target(t)].gen + 1 /\ task'[t].todo = task[t].deps
    <3>1. Target(t) = Main /\ Main \in Ctrs
      BY <1>3, <2>3 DEF Sane, LockInv, OfMain, Ctrs
    <3>2. cur[Main].gen \in Nat
      BY <1>1, <3>1, ExistingId
    <3>3. QED
      BY <1>3, <2>3, <3>1, <3>2
  <2>4. QED
    BY <1>3, <2>1, <2>2, <2>3, RecreatingStep
<1>4. NotPointedAt(d, g)'
  BY <1>3 DEF NotPointedAt, Name
<1>5. QED
  BY <1>2, <1>4

\* Every task still knows what it has found.
LEMMA FoundStep ==
  ASSUME SelfIsMain, Sane, NEW t \in Tasks, Inspect(t) \/ Run(t), NEW u \in Tasks
  PROVE  Found(u)'
<1>1. Frame(t) /\ Typed
  BY StepFrame DEF Sane
<1>2. SUFFICES ASSUME task'[u].pc \in Listing, Target(u)' = Main, Exists(task[u].id)', NEW d \in Deps,
                      d \notin NamesOf(task'[u].deps) \cup task'[u].unsure
               PROVE  d \notin ByName /\ cur'[d].refers # task'[u].id[2] /\ NotPointedAt(d, task[u].id[2])'
  BY DEF Found, NotPointedAt, NamesOf, Name
<1>3. CASE /\ task'[u].id = task[u].id /\ task[u].pc \in Listing /\ task'[u].deps = task[u].deps
           /\ task[u].unsure \subseteq task'[u].unsure
  <2>1. Target(u) = Main /\ Exists(task[u].id) /\ d \notin NamesOf(task[u].deps) \cup task[u].unsure
    BY <1>1, <1>2, <1>3, GoneStaysGone DEF Target
  <2>2. d \notin ByName /\ cur[d].refers # task[u].id[2] /\ NotPointedAt(d, task[u].id[2])
    BY <1>2, <1>3, <2>1, FoundIs DEF Sane, DepsInv, TaskInv
  <2>3. task[u].id[2] \in Nat /\ task[u].id[2] <= cur[Main].gen
    BY <1>1, <2>1, Ids DEF Sane, DepsInv, TaskInv, NotNewer
  <2>4. PICK g \in Nat : g = task[u].id[2]
    BY <2>3
  <2>5. cur'[d].refers # g /\ NotPointedAt(d, g)'
    BY <2>2, <2>3, <2>4, UnrelatedStays
  <2>6. QED
    BY <1>3, <2>2, <2>4, <2>5 DEF NotPointedAt
<1>4. CASE u # t
  <2>1. task'[u] = task[u]
    BY <1>1, <1>4 DEF Frame, Others
  <2>2. QED
    BY <1>2, <1>3, <2>1
<1>5. CASE u = t /\ task[t].pc \in Listing /\ SameDeps(t)
  BY <1>1, <1>2, <1>3, <1>5, ListingStep DEF Frame, SameDeps
<1>6. CASE u = t /\ List(t) /\ cur' = cur /\ task'[t].deps = Listed(task[t].id) /\ task'[t].unsure = Busy(task[t].id)
  <2>1. task'[t].id = task[t].id /\ Target(t) = Main /\ Name(task[t].id) = Main
    BY <1>2, <1>6, ListingStep DEF Target
  <2>2. d \notin Dependents(task[t].id)
    <3>1. Name(Id(d)) = d
      BY DEF Name, Id
    <3>2. d \in Dependents(task[t].id) => [id |-> Id(d), running |-> cur[d].running] \in Listed(task[t].id)
      BY DEF Listed
    <3>3. QED
      BY <1>2, <1>6, <3>1, <3>2 DEF NamesOf
  <2>3. d \notin ByName /\ cur[d].refers # task[t].id[2]
    BY <2>1, <2>2 DEF Dependents
  <2>4. Id(d) \notin locked
    BY <1>2, <1>6, <2>1, <2>2 DEF Busy
  <2>5. NotPointedAt(d, task[t].id[2])
    <3>1. SUFFICES ASSUME NEW v \in Tasks, task[v].pc = "recreate", NEW e \in task[v].todo, Name(e.id) = d, Exists(e.id)
                   PROVE  FALSE
      BY DEF NotPointedAt
    <3>2. e.id = Id(d)
      BY <1>1, <3>1, ExistingId DEF Typed, Shaped, TaskState
    <3>3. e.id \in task[v].held
      BY <3>1 DEF Sane, LockInv, HoldsDeps, AfterList
    <3>4. QED
      BY <2>4, <3>2, <3>3, LockedBy DEF Sane
  <2>6. task[t].id[2] \in Nat /\ task[t].id[2] <= cur[Main].gen
    BY <1>1, <2>1, Ids DEF Sane, DepsInv, TaskInv, NotNewer
  <2>7. NotPointedAt(d, task[t].id[2])'
    BY <2>3, <2>5, <2>6, UnrelatedStays, <2>1 DEF NotPointedAt
  <2>8. QED
    BY <1>6, <2>1, <2>3, <2>7
<1>7. QED
  BY <1>2, <1>4, <1>5, <1>6, ListingStep

\* Notes stay.
LEMMA NotesStay ==
  ASSUME NEW t \in Tasks, Frame(t), NEW d
  PROVE  (Warned(d) => Warned(d)') /\ (Unsure(d) => Unsure(d)')
BY DEF Frame, Others, Warned, Unsure

\* A task that would be late is still known to be, and one that becomes late is known
\* to the task that switches Main.
LEMMA LateStep ==
  ASSUME SelfIsMain, Sane, NEW t \in Tasks, Inspect(t) \/ Run(t), NEW u \in Tasks
  PROVE  LateIsKnown(u)'
<1>1. Frame(t) /\ Typed /\ Main \in Ctrs /\ cur[Main].gen \in Nat
  BY StepFrame, ExistingId DEF Sane, Ctrs
<1>2. SUFFICES ASSUME task'[u].pc = "recreate", task'[u].newGen # cur'[Main].gen, NEW e \in task'[u].todo,
                      Exists(e.id)', Name(e.id) \notin ByName
               PROVE  Unsure(Name(e.id))'
  BY DEF LateIsKnown, Name, Unsure
<1>3. CASE u = t /\ task'[t].newGen = cur[Target(t)].gen + 1 /\ task'[t].todo = task[t].deps /\ Switch(t)
  <2>1. Target(t) = Main
    BY <1>3, <1>2 DEF Sane, LockInv, OfMain
  <2>2. cur'[Main].gen = cur[Main].gen + 1
    <3>1. cur' = Replaced(Main, task[t].image, task[t].running, cur[Main].refers) /\ task[t].running \in BOOLEAN
      BY <1>1, <1>3, <2>1, SwitchDoes DEF Typed, Shaped, TaskState
    <3>2. QED
      BY <1>1, <3>1, ReplacedCtr
  <2>3. QED
    BY <1>2, <1>3, <2>1, <2>2
<1>4. CASE task[u].pc = "recreate" /\ task'[u].newGen = task[u].newGen /\ task'[u].todo \subseteq task[u].todo
  <2>1. e \in task[u].todo /\ e \in task[u].deps
    BY <1>2, <1>4 DEF Sane, LockInv, HoldsDeps, AfterList
  <2>2. e \in Dependent /\ Exists(e.id) /\ Name(e.id) \in Deps /\ e.id = Id(Name(e.id))
    BY <1>1, <1>2, <2>1, GoneStaysGone, Ids, ExistingId DEF Typed, Shaped, TaskState
  <2>3. CASE task[u].newGen # cur[Main].gen
    BY <1>1, <1>2, <1>4, <2>1, <2>2, <2>3, NotesStay DEF Sane, DepsInv, TaskInv, LateIsKnown
  <2>4. CASE task[u].newGen = cur[Main].gen
    <3>1. Switch(t) /\ Target(t) = Main
      BY <1>2, <1>4, <2>4, RefersStep
    <3>2. task[t].pc = "switching" /\ u # t
      BY <1>1, <1>4, <3>1, SwitchDoes
    <3>3. Found(t) /\ Kept(t) /\ Exists(task[t].id) /\ task[t].id[2] = cur[Main].gen
      BY <1>1, <3>1, <3>2, ExistingId DEF Sane, DepsInv, TaskInv, TargetExists
    <3>4. Name(e.id) \in NamesOf(task[t].deps) \cup task[t].unsure
      BY <1>2, <1>4, <2>1, <2>2, <2>4, <3>1, <3>2, <3>3, FoundIs DEF NotPointedAt, Listing
    <3>5. ASSUME NEW f \in task[t].deps, Name(f.id) = Name(e.id) PROVE Name(e.id) \in task[t].unsure
      <4>1. SUFFICES ASSUME Name(e.id) \notin task[t].unsure PROVE FALSE
        OBVIOUS
      <4>2. Exists(f.id) /\ f.id \in task[t].held
        BY <3>2, <3>3, <3>5, <4>1 DEF Kept, Stays, Listing, Sane, LockInv, HoldsDeps, AfterList
      <4>3. f.id = e.id
        BY <1>1, <2>2, <3>5, <4>2, ExistingId DEF Typed, Shaped, TaskState
      <4>4. e.id \in task[u].held
        BY <1>4, <2>1 DEF Sane, LockInv, HoldsDeps, AfterList
      <4>5. QED
        BY <3>2, <4>2, <4>3, <4>4, LockedBy DEF Sane
    <3>6. Unsure(Name(e.id))
      BY <3>4, <3>5 DEF NamesOf, Unsure
    <3>7. QED
      BY <1>1, <3>6, NotesStay
  <2>5. QED
    BY <2>3, <2>4
<1>5. CASE u # t
  BY <1>1, <1>2, <1>4, <1>5 DEF Frame, Others
<1>6. QED
  BY <1>2, <1>3, <1>4, <1>5, RecreatingStep

\* A container in Main's namespace still runs beside a Main that runs.
LEMMA AttachmentStep ==
  ASSUME SelfIsMain, Sane, NEW t \in Tasks, Inspect(t) \/ Run(t)
  PROVE  Attachment'
<1>1. Typed /\ Main \in Ctrs /\ Deps \subseteq Ctrs /\ Main \notin Deps /\ Target(t) \in Ctrs
  BY Ids DEF Sane, Ctrs
<1>2. SUFFICES ASSUME NEW d \in Deps, cur'[d].attached
               PROVE  cur'[d].running /\ cur'[Main].running /\ (d \in ByName \/ cur'[d].refers = cur'[Main].gen)
  BY DEF Attachment
<1>3. cur[d].attached => cur[d].running /\ cur[Main].running /\ (d \in ByName \/ cur[d].refers = cur[Main].gen)
  BY DEF Sane, DepsInv, Attachment
<1>4. CASE cur' = cur
  BY <1>2, <1>3, <1>4
<1>5. CASE cur' = Stopped(Target(t))
  BY <1>1, <1>2, <1>3, <1>5, StoppedCtr
<1>6. ASSUME NEW c \in Deps, cur' = Runs(c, FALSE)
      PROVE  cur'[d].running /\ cur'[Main].running /\ (d \in ByName \/ cur'[d].refers = cur'[Main].gen)
  BY <1>1, <1>2, <1>3, <1>6, RunsCtr
<1>7. ASSUME NEW c \in Ctrs, cur' = Runs(c, TRUE), c # Main => CanJoin(c, cur[c].refers)
      PROVE  cur'[d].running /\ cur'[Main].running /\ (d \in ByName \/ cur'[d].refers = cur'[Main].gen)
  <2>1. /\ cur'[Main].gen = cur[Main].gen /\ cur'[d].refers = cur[d].refers /\ cur'[c].running = TRUE
        /\ d # c => cur'[d] = cur[d]
        /\ Main # c => cur'[Main] = cur[Main]
    BY <1>1, <1>7, RunsCtr
  <2>2. QED
    BY <1>1, <1>2, <1>3, <1>7, <2>1 DEF CanJoin
<1>8. ASSUME NEW c \in Ctrs, NEW run \in BOOLEAN, NEW img \in 0..MaxImage, NEW ref \in 0..MaxGen,
             cur' = Replaced(c, img, run, ref), c # Main /\ run => CanJoin(c, ref)
      PROVE  cur'[d].running /\ cur'[Main].running /\ (d \in ByName \/ cur'[d].refers = cur'[Main].gen)
  <2>1. /\ cur'[c].refers = ref /\ cur'[c].running = run /\ (cur'[c].attached <=> run /\ c # Main)
        /\ d # c => /\ cur'[d].refers = cur[d].refers /\ cur'[d].running = cur[d].running
                    /\ cur'[d].attached <=> cur[d].attached /\ c # Main
        /\ Main # c => cur'[Main].gen = cur[Main].gen /\ cur'[Main].running = cur[Main].running
    BY <1>1, <1>8, ReplacedCtr
  <2>2. QED
    BY <1>1, <1>2, <1>3, <1>8, <2>1 DEF CanJoin
<1>9. QED
  BY <1>4, <1>5, <1>6, <1>7, <1>8, CurStep

\* At each pc there is one thing to do.
LEMMA Does ==
  ASSUME SelfIsMain, Sane, NEW t \in Tasks, Inspect(t) \/ Run(t)
  PROVE  /\ task[t].pc = "switching" => Switch(t) \/ RollBack(t)
         /\ task[t].pc = "restart" => Restart(t)
         /\ task[t].pc = "recreate" => Recreate(t) \/ Finish(t)
<1>1. Typed
  BY DEF Sane
<1>2. CASE Inspect(t) \/ Lock(t) \/ List(t) \/ LockDep(t) \/ Pull(t)
  BY <1>2 DEF Inspect, Lock, List, LockDep, Pull
<1>3. CASE Begins(t) \/ Restart(t)
  BY <1>3 DEF Begins, FailsFirst, StopOriginal, Restart
<1>4. CASE Switch(t) \/ RollBack(t) \/ Recreate(t) \/ Finish(t)
  BY <1>4 DEF Switch, RollBack, Recreate, Finish
<1>5. QED
  BY <1>2, <1>3, <1>4 DEF Run, Begins

\* What a step over dependent e of task t leaves: it is in the namespace, or not
\* running, or warned of.
LEMMA HandDown ==
  ASSUME SelfIsMain, Sane, NEW t \in Tasks, Inspect(t) \/ Run(t), NEW d \in Deps, NEW u \in Tasks, InHand(u, d)
  PROVE  InHand(u, d)' \/ Warned(d)' \/ ~Stranded(d)'
<1>1. Frame(t) /\ Typed /\ Main \notin Deps /\ (\A e \in task[t].todo : Name(e.id) \in Deps /\ Name(e.id) \in Ctrs)
  BY StepFrame, Ids DEF Sane, Typed, Shaped, TaskState, Ctrs
<1>2. alive = TRUE /\ ~Dies
  BY NobodyDies, InspectDoes DEF Dies, Sane, DepsInv
<1>3. CASE u # t
  BY <1>1, <1>3 DEF Frame, Others, InHand, Target
<1>4. CASE u = t /\ task[t].pc = "switching"
  <2>1. PICK e \in task[t].deps : Name(e.id) = d /\ e.running
    BY <1>4 DEF InHand
  <2>2. task[t].stopped
    BY <1>4 DEF InHand
  <2>3. CASE Switch(t)
    BY <1>1, <1>4, <2>1, <2>3, SwitchDoes DEF InHand, Name
  <2>4. CASE RollBack(t)
    BY <1>1, <1>4, <2>1, <2>2, <2>4, RollBackDoes DEF InHand, Name
  <2>5. QED
    BY <1>4, <2>3, <2>4, Does
<1>5. CASE u = t /\ task[t].pc = "restart"
  <2>1. PICK e \in task[t].todo : Name(e.id) = d
    BY <1>5 DEF InHand
  <2>2. Restart(t) /\ ~Dies
    BY <1>2, <1>5, Does DEF Run, Begins
  <2>3. PICK f \in task[t].todo :
          /\ task'[t].pc = "restart" /\ task'[t].todo = task[t].todo \ {f}
          /\ \/ cur' = Runs(Name(f.id), TRUE)
             \/ task'[t].warned = task[t].warned \cup {Name(f.id)}
    BY <1>1, <2>1, <2>2, RestartDoes
  <2>4. CASE f # e
    BY <1>5, <2>1, <2>3, <2>4 DEF InHand, Name
  <2>5. CASE f = e /\ cur' = Runs(d, TRUE)
    BY <1>1, <2>1, <2>5, RunsCtr DEF Stranded
  <2>6. CASE f = e /\ task'[t].warned = task[t].warned \cup {d}
    BY <2>6 DEF Warned
  <2>7. QED
    BY <2>1, <2>3, <2>4, <2>5, <2>6
<1>6. CASE u = t /\ task[t].pc = "recreate"
  <2>1. PICK e \in task[t].todo : Name(e.id) = d
    BY <1>6 DEF InHand
  <2>2. Recreate(t) /\ ~Dies
    BY <1>1, <1>2, <1>6, <2>1, Does, FinishDoes DEF Run, Begins
  <2>3. PICK f \in task[t].todo :
          /\ task'[t].pc = "recreate" /\ task'[t].todo = task[t].todo \ {f}
          /\ \/ task'[t].warned = task[t].warned \cup {Name(f.id)}
             \/ \E run \in BOOLEAN : cur' = Replaced(Name(f.id), cur[Name(f.id)].image, run, NewReference(t, Name(f.id)))
    BY <1>1, <2>1, <2>2, RecreateDoes
  <2>4. CASE f # e
    BY <1>6, <2>1, <2>3, <2>4 DEF InHand, Name
  <2>5. ASSUME NEW run \in BOOLEAN, cur' = Replaced(d, cur[d].image, run, NewReference(t, d))
        PROVE  ~Stranded(d)'
    BY <1>1, <2>1, <2>5, ReplacedCtr DEF Stranded
  <2>6. CASE f = e /\ task'[t].warned = task[t].warned \cup {d}
    BY <2>6 DEF Warned
  <2>7. QED
    BY <2>1, <2>3, <2>4, <2>5, <2>6
<1>7. QED
  BY <1>3, <1>4, <1>5, <1>6 DEF InHand

\* A dependent that runs when a task stops or switches Main: the task is about to
\* serve it, or is unsure of it, or it was warned of, or another task has it in hand.
LEMMA FoundAndKept ==
  ASSUME Sane, NEW t \in Tasks, task[t].pc \in {"replace", "switching"}, Target(t) = Main, Exists(task[t].id),
         NEW d \in Deps, cur[d].running, d \notin task[t].unsure
  PROVE  \/ \E e \in task[t].deps : Name(e.id) = d /\ e.running
         \/ Warned(d) \/ Unsure(d) \/ \E u \in Tasks \ {t} : InHand(u, d)
<1>1. Typed /\ task[t].pc \in Listing /\ task[t].pc # "lockDeps"
  BY DEF Sane, Listing
<1>2. Found(t) /\ Kept(t)
  BY DEF Sane, DepsInv, TaskInv
<1>3. cur[Main].gen = task[t].id[2]
  BY <1>1, ExistingId
<1>4. CASE d \in NamesOf(task[t].deps)
  <2>1. PICK e \in task[t].deps : Name(e.id) = d
    BY <1>4 DEF NamesOf
  <2>2. Stays(e)
    BY <1>1, <1>2, <2>1 DEF Kept
  <2>3. QED
    BY <2>1, <2>2 DEF Stays
<1>5. CASE d \notin ByName /\ cur[d].refers # cur[Main].gen
  BY <1>5 DEF Sane, DepsInv, Referred, Repoints, InHand
<1>6. QED
  BY <1>1, <1>2, <1>3, <1>4, <1>5 DEF Found

\* Nobody who is cut off is forgotten while he is, but by the task that serves him.
LEMMA CutStep ==
  ASSUME SelfIsMain, Sane, NEW t \in Tasks, Inspect(t) \/ Run(t), Inspect(t) => cut' = cut,
         NEW d \in cut, Stranded(d)'
  PROVE  \/ d \in cut'
         \/ /\ Target(t) = Main /\ Exists(task[t].id)
            /\ \/ Switch(t)
               \/ /\ StopOriginal(t) /\ cur' = Stopped(Main)
                  /\ task'[t].pc = "switching" /\ task'[t].stopped = TRUE /\ SameDeps(t) /\ task'[t].id = task[t].id
<1>1. Typed /\ alive = TRUE /\ d \in Deps
  BY DEF Sane, DepsInv, Typed
<1>2. ASSUME NEW deps, d \in deps, Cut(deps) PROVE d \in cut'
  BY <1>2 DEF Cut
<1>3. CASE Inspect(t)
  BY <1>3
<1>4. CASE Cut(cut)
  BY <1>2, <1>4
<1>5. CASE Switch(t)
  <2>1. Target(t) # Main => Cut(cut)
    BY <1>5 DEF Switch
  <2>2. Exists(task[t].id)
    BY <1>5 DEF Switch, Sane, DepsInv, TaskInv, TargetExists
  <2>3. QED
    BY <1>4, <1>5, <2>1, <2>2
<1>6. CASE StopOriginal(t)
  <2>1. CASE \E deps : d \in deps /\ Cut(deps)
    BY <1>2, <2>1
  <2>2. CASE ~\E deps : d \in deps /\ Cut(deps)
    <3>1. ~Cut(cut) /\ ~Cut(cut \cup Members(Target(t)))
      BY <2>2
    <3>2. /\ task[t].running /\ Target(t) = Main
          /\ task' = [task EXCEPT ![t].pc = "switching", ![t].stopped = TRUE]
      BY <1>6, <3>1 DEF StopOriginal
    <3>3. /\ task'[t].pc = "switching" /\ task'[t].stopped = TRUE /\ SameDeps(t) /\ task'[t].id = task[t].id
      BY <1>1, <3>2 DEF SameDeps, Typed, Shaped, TaskState
    <3>4. Exists(task[t].id) /\ cur' = Stopped(Main)
      BY <1>6, <3>2 DEF StopOriginal
    <3>5. QED
      BY <1>6, <3>2, <3>3, <3>4
  <2>3. QED
    BY <2>1, <2>2
<1>7. QED
  BY <1>3, <1>4, <1>5, <1>6 DEF Run, Begins, FailsFirst, Recreate

\* Whoever comes to run in a dead namespace is served or noted.
LEMMA ServedStep ==
  ASSUME SelfIsMain, Sane, NEW t \in Tasks, Inspect(t) \/ Run(t), Inspect(t) => cut' = cut
  PROVE  Served'
<1>1. Frame(t) /\ Typed /\ Main \in Ctrs /\ Deps \subseteq Ctrs /\ Main \notin Deps /\ Target(t) \in Ctrs
  BY StepFrame, Ids DEF Sane, Ctrs
<1>2. SUFFICES ASSUME NEW d \in Deps, Stranded(d)'
               PROVE  Warned(d)' \/ Unsure(d)' \/ d \in cut' \/ (\E u \in Tasks : InHand(u, d)')
  BY DEF Served
<1>3. CASE Warned(d) \/ Unsure(d) \/ \E u \in Tasks : InHand(u, d)
  BY <1>1, <1>2, <1>3, HandDown, NotesStay
<1>4. CASE d \in task[t].unsure
  BY <1>1, <1>4 DEF Frame, Unsure
<1>5. CASE /\ Target(t) = Main /\ StopOriginal(t) /\ cur' = Stopped(Main)
           /\ task'[t].pc = "switching" /\ task'[t].stopped = TRUE /\ task'[t].id = task[t].id /\ SameDeps(t)
           /\ Exists(task[t].id)
  <2>1. task[t].pc = "replace"
    BY <1>5 DEF StopOriginal
  <2>2. cur[d].running
    BY <1>1, <1>2, <1>5, StoppedCtr DEF Stranded
  <2>3. (\E e \in task[t].deps : Name(e.id) = d /\ e.running) => InHand(t, d)'
    BY <1>5 DEF InHand, SameDeps, Target, Name
  <2>4. QED
    BY <1>3, <1>4, <1>5, <2>1, <2>2, <2>3, FoundAndKept
<1>6. CASE Switch(t) /\ Target(t) = Main
  <2>1. Exists(task[t].id) /\ task[t].pc = "switching" /\ task[t].running \in BOOLEAN
    BY <1>1, <1>6, SwitchDoes DEF Sane, DepsInv, TaskInv, TargetExists, Typed, Shaped, TaskState
  <2>2. task'[t].pc = "recreate" /\ task'[t].todo = task[t].deps
        /\ cur' = Replaced(Main, task[t].image, task[t].running, cur[Main].refers)
    BY <1>1, <1>6, SwitchDoes
  <2>3. cur[d].running
    BY <1>1, <1>2, <2>1, <2>2, ReplacedCtr DEF Stranded
  <2>4. (\E e \in task[t].deps : Name(e.id) = d /\ e.running) => InHand(t, d)'
    BY <2>2 DEF InHand, Name
  <2>5. QED
    BY <1>3, <1>4, <1>6, <2>1, <2>3, <2>4, FoundAndKept
<1>7. CASE Stranded(d)
  <2>1. CASE d \in cut
    BY <1>2, <1>5, <1>6, <2>1, CutStep
  <2>2. QED
    BY <1>3, <1>7, <2>1 DEF Sane, DepsInv, Served
<1>8. cur' = cur => Stranded(d)
  BY <1>2 DEF Stranded
<1>9. CASE /\ cur' = Stopped(Target(t)) /\ Begins(t) /\ ~Stranded(d)
           /\ task'[t].pc = "switching" /\ task'[t].id = task[t].id /\ SameDeps(t)
           /\ Exists(task[t].id) /\ (task'[t].stopped = TRUE \/ Unheard(t))
  <2>1. cur[d].attached /\ Target(t) = Main
    BY <1>1, <1>2, <1>9, StoppedCtr DEF Stranded
  <2>2. Unheard(t) => d \in cut'
    BY <1>2, <2>1 DEF Unheard
  <2>3. ~FailsFirst(t)
    BY <1>1, <1>9, EndEnds DEF FailsFirst, Ends, Ended
  <2>4. QED
    BY <1>5, <1>9, <2>1, <2>2, <2>3 DEF Begins
<1>10. ASSUME NEW c \in Ctrs, NEW ok \in BOOLEAN, cur' = Runs(c, ok), c \in Deps \/ ok PROVE Stranded(d)
  <2>1. /\ d # c => cur'[d] = cur[d]
        /\ cur'[c].running = ok /\ (cur'[c].attached <=> ok /\ c # Main)
    BY <1>1, <1>10, RunsCtr
  <2>2. QED
    BY <1>1, <1>2, <2>1 DEF Stranded
<1>11. ASSUME NEW c \in Ctrs, NEW run \in BOOLEAN, NEW img \in 0..MaxImage, NEW ref \in 0..MaxGen,
              cur' = Replaced(c, img, run, ref), c = Main => Switch(t) /\ Target(t) = Main, ~Stranded(d)
       PROVE  Switch(t) /\ Target(t) = Main
  <2>1. /\ cur'[c].running = run /\ (cur'[c].attached <=> run /\ c # Main)
        /\ d # c => cur'[d].running = cur[d].running /\ (cur'[d].attached <=> cur[d].attached /\ c # Main)
    BY <1>1, <1>11, ReplacedCtr
  <2>2. d # c /\ c = Main
    BY <1>1, <1>2, <1>11, <2>1 DEF Stranded
  <2>3. QED
    BY <1>11, <2>2
<1>12. QED
  <2>1. CASE \E c \in Deps : cur' = Runs(c, FALSE)
    BY <1>1, <1>7, <1>10, <2>1
  <2>2. CASE \E c \in Ctrs : cur' = Runs(c, TRUE)
    BY <1>7, <1>10, <2>2
  <2>3. CASE \E c \in Ctrs, run \in BOOLEAN, img \in 0..MaxImage, ref \in 0..MaxGen :
              cur' = Replaced(c, img, run, ref) /\ (c = Main => Switch(t) /\ Target(t) = Main)
    BY <1>6, <1>7, <1>11, <2>3
  <2>4. QED
    BY <1>7, <1>8, <1>9, <2>1, <2>2, <2>3, CurStep

\* While Main stays, whom a task is about to point at it is pointed at it, or warned of.
LEMMA RepointsStays ==
  ASSUME SelfIsMain, Sane, NEW t \in Tasks, Inspect(t) \/ Run(t), NEW d \in Deps \ ByName, NEW u \in Tasks,
         Repoints(u, d), cur'[Main].gen = cur[Main].gen, cur'[d].refers # cur'[Main].gen
  PROVE  Repoints(u, d)' \/ Warned(d)'
<1>1. Frame(t) /\ Typed /\ alive = TRUE
  BY StepFrame DEF Sane, DepsInv
<1>2. PICK e \in task[u].todo : Name(e.id) = d /\ (task[u].newGen = cur[Main].gen \/ ~Exists(e.id))
  BY DEF Repoints
<1>3. task[u].pc = "recreate" /\ e \in task[u].deps
  BY DEF Repoints, Sane, LockInv, HoldsDeps, AfterList
<1>4. ~Exists(e.id) => ~Exists(e.id)'
  BY <1>1, <1>3, GoneStaysGone
<1>5. CASE task'[u].pc = "recreate" /\ task'[u].newGen = task[u].newGen /\ e \in task'[u].todo
  BY <1>2, <1>4, <1>5 DEF Repoints, Name
<1>6. CASE u # t
  BY <1>1, <1>3, <1>5, <1>6 DEF Frame, Others
<1>7. CASE u = t
  <2>1. Recreate(t) /\ ~Dies
    BY <1>1, <1>2, <1>3, <1>7, Does, FinishDoes, NobodyDies DEF Run, Begins, Dies
  <2>2. PICK f \in task[t].todo :
          /\ task'[t].pc = "recreate" /\ Same(t) /\ task'[t].todo = task[t].todo \ {f}
          /\ \/ task'[t].warned = task[t].warned \cup {Name(f.id)}
             \/ /\ Exists(f.id)
                /\ \E run \in BOOLEAN : cur' = Replaced(Name(f.id), cur[Name(f.id)].image, run, NewReference(t, Name(f.id)))
    BY <1>1, <2>1, RecreateDoes
  <2>3. CASE f # e
    BY <1>2, <1>5, <1>7, <2>2, <2>3 DEF Same
  <2>4. CASE f = e /\ task'[t].warned = task[t].warned \cup {d}
    BY <2>4 DEF Warned
  <2>5. ASSUME f = e, Exists(e.id), NEW run \in BOOLEAN, cur' = Replaced(d, cur[d].image, run, NewReference(t, d))
        PROVE  FALSE
    <3>1. cur'[d].refers = task[t].newGen
      BY <1>1, <2>5, ReplacedCtr DEF NewReference, Ctrs
    <3>2. QED
      BY <1>2, <1>7, <2>5, <3>1
  <2>6. QED
    BY <1>2, <2>2, <2>3, <2>4, <2>5
<1>8. QED
  BY <1>6, <1>7

\* The switch of Main: whoever gives its ID is among those its task found, or another
\* task is warning of it, or it is noted.
LEMMA ReferredSwitch ==
  ASSUME SelfIsMain, Sane, NEW t \in Tasks, Switch(t), Target(t) = Main, NEW d \in Deps \ ByName
  PROVE  Warned(d)' \/ Unsure(d)' \/ \E u \in Tasks : Repoints(u, d)'
<1>1. Frame(t) /\ Typed /\ Main \in Ctrs
  BY StepFrame DEF Sane, Ctrs, Run, Begins
<1>2. /\ task[t].pc = "switching" /\ task'[t].pc = "recreate" /\ task'[t].todo = task[t].deps
      /\ task'[t].newGen = cur[Main].gen + 1 /\ task[t].running \in BOOLEAN
      /\ cur' = Replaced(Main, task[t].image, task[t].running, cur[Main].refers)
  BY <1>1, SwitchDoes DEF Typed, Shaped, TaskState
<1>3. cur'[Main].gen = cur[Main].gen + 1
  BY <1>1, <1>2, ReplacedCtr
<1>4. Found(t) /\ Exists(task[t].id) /\ task[t].id[2] = cur[Main].gen
  BY <1>1, <1>2, ExistingId DEF Sane, DepsInv, TaskInv, TargetExists
<1>5. CASE d \in task[t].unsure
  BY <1>1, <1>5 DEF Frame, Unsure
<1>6. CASE d \in NamesOf(task[t].deps)
  BY <1>2, <1>3, <1>6 DEF Repoints, NamesOf, Name
<1>7. CASE cur[d].refers # cur[Main].gen /\ NotPointedAt(d, cur[Main].gen)
  <2>1. CASE Warned(d) \/ Unsure(d)
    BY <1>1, <2>1, NotesStay
  <2>2. ASSUME NEW u \in Tasks, Repoints(u, d) PROVE Repoints(u, d)'
    <3>1. PICK e \in task[u].todo : Name(e.id) = d /\ (task[u].newGen = cur[Main].gen \/ ~Exists(e.id))
      BY <2>2 DEF Repoints
    <3>2. task[u].pc = "recreate" /\ e \in task[u].deps /\ u # t
      BY <1>2, <2>2 DEF Repoints, Sane, LockInv, HoldsDeps, AfterList
    <3>3. ~Exists(e.id)
      BY <1>7, <3>1, <3>2 DEF NotPointedAt
    <3>4. ~Exists(e.id)' /\ task'[u] = task[u]
      BY <1>1, <3>2, <3>3, GoneStaysGone DEF Frame, Others
    <3>5. QED
      BY <3>1, <3>2, <3>4 DEF Repoints, Name
  <2>3. QED
    BY <1>7, <2>1, <2>2 DEF Sane, DepsInv, Referred
<1>8. QED
  BY <1>2, <1>4, <1>5, <1>6, <1>7, FoundIs DEF Listing

LEMMA ReferredStep ==
  ASSUME SelfIsMain, Sane, NEW t \in Tasks, Inspect(t) \/ Run(t)
  PROVE  Referred'
<1>1. Frame(t) /\ Typed
  BY StepFrame DEF Sane
<1>2. SUFFICES ASSUME NEW d \in Deps \ ByName, cur'[d].refers # cur'[Main].gen
               PROVE  Warned(d)' \/ Unsure(d)' \/ \E u \in Tasks : Repoints(u, d)'
  BY DEF Referred
<1>3. CASE Switch(t) /\ Target(t) = Main
  BY <1>3, ReferredSwitch
<1>4. CASE cur'[Main].gen = cur[Main].gen /\ cur'[d].refers = cur[d].refers
  <2>1. Warned(d) \/ Unsure(d) \/ \E u \in Tasks : Repoints(u, d)
    BY <1>2, <1>4 DEF Sane, DepsInv, Referred
  <2>2. QED
    BY <1>1, <1>2, <1>4, <2>1, RepointsStays, NotesStay
<1>5. CASE /\ cur'[Main].gen = cur[Main].gen /\ task[t].pc = "recreate"
           /\ \E e \in task[t].todo : Name(e.id) = d /\ Exists(e.id) /\ cur'[d].refers = NewReference(t, d)
  <2>1. PICK e \in task[t].todo : Name(e.id) = d /\ Exists(e.id)
    BY <1>5
  <2>2. task[t].newGen # cur[Main].gen
    BY <1>2, <1>5 DEF NewReference
  <2>3. Unsure(d)
    BY <1>5, <2>1, <2>2 DEF Sane, DepsInv, TaskInv, LateIsKnown
  <2>4. QED
    BY <1>1, <2>3, NotesStay
<1>6. QED
  BY <1>3, <1>4, <1>5, RefersStep DEF Recreates

-----------------------------------------------------------------------------
(* What becomes of the dependents.                                          *)

LEMMA InitDeps == Init => DepsInv
<1> SUFFICES ASSUME Init PROVE DepsInv
  OBVIOUS
<1>1. PICK up \in BOOLEAN, ups \in SUBSET Deps :
        /\ ~up => ups = {}
        /\ cur = [c \in Ctrs |-> [gen |-> 1, image |-> 0, running |-> IF c = Main THEN up ELSE c \in ups,
                                  attached |-> c \in ups, refers |-> 1]]
  BY DEF Init
<1>2. /\ Main \in Ctrs /\ cur[Main].gen = 1 /\ (cur[Main].running <=> up)
      /\ \A d \in Deps : /\ cur[d].refers = 1
                         /\ cur[d].running <=> d \in ups
                         /\ cur[d].attached <=> d \in ups
  BY <1>1 DEF Ctrs
<1>3. Attachment /\ Served /\ Referred
  BY <1>1, <1>2 DEF Attachment, Served, Stranded, Referred
<1>4. ASSUME NEW t \in Tasks PROVE TaskInv(t)
  <2>1. /\ task[t].pc = "idle" /\ task[t].id = <<Main, 0>> /\ task[t].deps = {}
        /\ task[t].warned = {} /\ task[t].unsure = {}
    BY DEF Init, Idle
  <2>2. NotNewer(t)
    BY <1>2, <2>1 DEF NotNewer, Target, Name
  <2>3. QED
    BY <2>1, <2>2 DEF TaskInv, NothingNoted, TargetExists, SparesSelf, Found, Kept, LateIsKnown, Listing
<1>5. QED
  BY <1>3, <1>4 DEF DepsInv, Init

LEMMA StepDeps ==
  ASSUME SelfIsMain, Sane, NEW t \in Tasks, Inspect(t) \/ Run(t), Inspect(t) => cut' = cut, self' = self
  PROVE  DepsInv'
<1>1. Frame(t) /\ alive' = TRUE
  BY StepFrame, NobodyDies, InspectDoes DEF Sane, DepsInv
<1>2. ASSUME NEW u \in Tasks PROVE TaskInv(u)'
  <2>1. NothingNoted(u)' /\ NotNewer(u)' /\ TargetExists(u)' /\ SparesSelf(u)' /\ Kept(u)'
    BY <1>1, OthersKeep, OwnIds, OwnKeeps
  <2>2. QED
    BY <2>1, FoundStep, LateStep DEF TaskInv
<1>3. QED
  BY <1>1, <1>2, AttachmentStep, ServedStep, ReferredStep DEF DepsInv

\* A registry publishes, or nothing happens.
LEMMA QuietDeps ==
  ASSUME Sane, UNCHANGED <<cur, locked, task, self, alive, cut>>
  PROVE  DepsInv'
BY DEF Sane, DepsInv, TaskInv, NothingNoted, NotNewer, TargetExists, SparesSelf, Found, Kept, LateIsKnown,
       Attachment, Served, Referred, Stranded, Warned, Unsure, InHand, Repoints, Stays, Exists, Target

\* The daemon carries out a stop whose call had failed: nothing but what runs changes,
\* and whoever is cut off by it is noted.
LEMMA StopEndsDeps ==
  ASSUME Sane, NEW id \in ending, StopEnds(id), self' = self
  PROVE  DepsInv'
<1>1. Typed /\ Name(id) \in Ctrs /\ Deps \subseteq Ctrs /\ Main \in Ctrs /\ Main \notin Deps
  BY DEF Sane, Typed, Name, Ctrs
<1>2. UNCHANGED <<task, locked, alive, self>>
  BY DEF StopEnds
<1>3. ASSUME NEW o \in Ctrs
      PROVE  /\ cur'[o].gen = cur[o].gen /\ cur'[o].refers = cur[o].refers
             /\ cur'[o].running => cur[o].running
             /\ cur'[o].attached => cur[o].attached
             /\ o \in Deps /\ cur'[o].running /\ cur[o].attached => cur'[o].attached \/ (o \in Members(Name(id)) /\ Exists(id))
             /\ o \in Deps /\ cur'[o].attached => cur'[o].running = cur[o].running /\ cur'[Main].running = cur[Main].running
  <2>1. CASE cur' = cur
    BY <2>1
  <2>2. CASE cur' = Stopped(Name(id)) /\ Exists(id)
    <3>1. /\ cur'[o].gen = cur[o].gen /\ cur'[o].refers = cur[o].refers
          /\ cur'[o].running <=> cur[o].running /\ o # Name(id)
          /\ o # Name(id) => cur'[o].running = cur[o].running
          /\ cur'[o].attached <=> cur[o].attached /\ o # Name(id) /\ Name(id) # Main
          /\ Main # Name(id) => cur'[Main].running = cur[Main].running
      BY <1>1, <2>2, StoppedCtr
    <3>2. QED
      BY <2>2, <3>1 DEF Members
  <2>3. QED
    BY <2>1, <2>2 DEF StopEnds
<1>4. /\ \A t \in Tasks : Target(t) \in Ctrs
      /\ \A t \in Tasks : \A e \in task[t].deps \cup task[t].todo : Name(e.id) \in Ctrs
  BY <1>1, Ids DEF Typed, Shaped, TaskState
<1>5. /\ \A t \in Tasks : Exists(task[t].id)' <=> Exists(task[t].id)
      /\ \A t \in Tasks : \A e \in task[t].deps \cup task[t].todo : Exists(e.id)' <=> Exists(e.id)
  BY <1>2, <1>3, <1>4 DEF Exists, Target
<1>6. ASSUME NEW t \in Tasks PROVE TaskInv(t)'
  <2>1. TaskInv(t)
    BY DEF Sane, DepsInv
  <2>2. NothingNoted(t)' /\ SparesSelf(t)' /\ TargetExists(t)'
    BY <1>2, <1>5, <2>1 DEF TaskInv, NothingNoted, SparesSelf, TargetExists, Target
  <2>3. NotNewer(t)'
    BY <1>2, <1>3, <1>4, <2>1 DEF TaskInv, NotNewer, Target
  <2>4. Kept(t)'
    BY <1>2, <1>3, <1>4, <1>5, <2>1 DEF TaskInv, Kept, Stays
  <2>5. Found(t)'
    BY <1>1, <1>2, <1>3, <1>5, <2>1 DEF TaskInv, Found, Target
  <2>6. LateIsKnown(t)'
    BY <1>1, <1>2, <1>3, <1>5, <2>1 DEF TaskInv, LateIsKnown, Unsure
  <2>7. QED
    BY <2>2, <2>3, <2>4, <2>5, <2>6 DEF TaskInv
<1>7. Attachment'
  BY <1>1, <1>3 DEF Sane, DepsInv, Attachment
<1>8. Served'
  <2>1. SUFFICES ASSUME NEW d \in Deps, Stranded(d)'
                 PROVE  Warned(d) \/ Unsure(d) \/ d \in cut' \/ \E t \in Tasks : InHand(t, d)
    BY <1>2 DEF Served, Warned, Unsure, InHand, Target, Name
  <2>2. CASE Stranded(d)
    BY <2>1, <2>2 DEF Sane, DepsInv, Served, StopEnds, Cut
  <2>3. CASE ~Stranded(d)
    <3>1. d \in Members(Name(id)) /\ Exists(id)
      BY <1>1, <1>3, <2>1, <2>3 DEF Stranded
    <3>2. QED
      BY <2>1, <3>1 DEF StopEnds, Cut
  <2>4. QED
    BY <2>2, <2>3
<1>9. Referred'
  <2>1. \A t \in Tasks : \A d \in Deps : Repoints(t, d) => Repoints(t, d)'
    BY <1>1, <1>2, <1>3, <1>5 DEF Repoints
  <2>2. \A d \in Deps : cur'[d].refers = cur[d].refers /\ cur'[Main].gen = cur[Main].gen
    BY <1>1, <1>3
  <2>3. QED
    BY <1>2, <2>1, <2>2 DEF Sane, DepsInv, Referred, Warned, Unsure
<1>10. QED
  BY <1>2, <1>6, <1>7, <1>8, <1>9 DEF Sane, DepsInv

\* What a task finds, locks and serves, as an invariant of any number of tasks.
THEOREM DependentsKept == ASSUME SelfIsMain PROVE Spec => [](TypeOK /\ LockInv /\ DepsInv)
<1>1. Init => DepsInv
  BY InitDeps
<1>2. TypeOK /\ LockInv /\ DepsInv /\ [Next]_vars => DepsInv'
  <2> SUFFICES ASSUME TypeOK, LockInv, DepsInv, [Next]_vars PROVE DepsInv'
    OBVIOUS
  <2>1. Sane
    BY TypeParts DEF Sane
  <2>2. ASSUME NEW t \in Tasks, (Inspect(t) /\ cut' = cut) \/ Run(t), self' = self PROVE DepsInv'
    <3>1. Run(t) => ~Inspect(t)
      BY DEF Run, Begins, Inspect, FailsFirst, StopOriginal, Switch, Recreate, Lock, List, LockDep, Pull, RollBack, Restart, Finish
    <3>2. QED
      BY <2>1, <2>2, <3>1, StepDeps
  <2>3. CASE UNCHANGED <<cur, locked, task, self, alive, cut>>
    BY <2>1, <2>3, QuietDeps
  <2>4. CASE (\E id \in ending : StopEnds(id)) /\ self' = self
    BY <2>1, <2>4, StopEndsDeps
  <2>5. QED
    BY <2>2, <2>3, <2>4 DEF Next, Release, vars
<1>3. QED
  BY <1>1, <1>2, LocksHeld, PTL DEF Spec

\* docs/container-upgrade.md: when nothing is being replaced, a dependent that runs is
\* in the namespace Main has now, or was warned of, or is one that changed between its
\* listing and its locking, or was cut off by a stop that was reported as failed and not
\* served by an upgrade of Main since: for any number of tasks on any containers.
THEOREM NoneStranded == ASSUME SelfIsMain PROVE Spec => []DependentsServed
<1>1. DepsInv => DependentsServed
  BY DEF DepsInv, Served, DependentsServed, Quiet, InHand
<1>2. QED
  BY <1>1, DependentsKept, PTL

\* Types, references to Main that work unless warned or noted, and a phyless that does
\* not stop itself while it upgrades (upgradeContainer hands its own upgrade off).
THEOREM UpgradesSound == ASSUME SelfIsMain PROVE Spec => []Sound
<1>1. TypeOK /\ LockInv /\ DepsInv => Sound
  BY DEF DepsInv, Referred, ReferencesLive, Quiet, Repoints, Sound, NeverStopsItself
<1>2. QED
  BY <1>1, DependentsKept, PTL

-----------------------------------------------------------------------------
(***************************************************************************)
(* Proofs about ReplaceContainer, the step an upgrade takes on the one     *)
(* container it replaces, for any sets of networks. NeverLost, OneWorkload *)
(* and SuccessIsVerified follow from where the two containers stand at     *)
(* each step (PlaceInv), whether or not answers are lost; FailureRestores  *)
(* and DependentsTold from what an attempt that loses no answer knows of   *)
(* the daemon (KnownInv).                                                  *)
(***************************************************************************)
\* Where the two containers stand at each step, whatever answers were lost.
Before   == {"config", "create", "connect", "stop"}
Swapping == {"start", "settle", "backup", "switch", "remove", "undoName"}

PlaceInv ==
  /\ pc # "done" => Present("old")
  /\ pc \in {"remove", "done"} => ctr["new"].name = "original" /\ ctr["old"].name # "original"
  /\ pc \in {"backup", "switch", "remove", "done"} => image = "verified"
  /\ ~oldRunning => ~Running("old")
  /\ pc \in Before => ~Running("new")
  /\ pc \in Swapping => ~Running("old")
  /\ pc \in {"undoNet", "undoStart"} => oldRunning
  /\ pc \in {"undoNet", "undoStart"} /\ ~complaint => ~Present("new")
  /\ pc \in Forward \ {"remove"} => ~complaint
  /\ OneWorkload

\* What the code knows about the original at each step, given that no answer is
\* lost: an unstopped original is as it was, a stopped one is down and known to
\* be, and the rollback has put back what it has already passed.
KnownInv ==
  /\ ~stopping
  /\ stopped = restoreNet
  /\ ~netns => stopped
  /\ stopped \/ pc = "stop" => oldRunning
  /\ pc \in Before => ~stopped
  /\ pc \in Swapping /\ oldRunning => stopped
  /\ pc \in {"config", "create"} => ctr["new"] = Absent
  /\ pc \in Forward \cup {"undoName"} => ~complaint
  /\ pc \in (Before \cup {"start", "settle", "backup"}) => ctr["old"].name = "original"
  /\ pc \in (Rollback \ {"undoName"}) /\ ~complaint => ctr["old"].name = "original"
  /\ ~stopped /\ pc \notin Returned =>
       (Running("old") <=> oldRunning) /\ \A n \in Addressed : address[n] = "held"
  /\ stopped /\ pc \in (Swapping \cup {"undoCreate", "undoNet"}) => ~Running("old")
  /\ pc = "undoNet" => stopped /\ (~complaint => \A n \in Addressed \ todo : address[n] = "held")
  /\ pc = "undoStart" => oldRunning /\ (~complaint => \A n \in Addressed : address[n] = "held")
  /\ pc \in {"undoNet", "undoStart"} /\ ~complaint => ~Present("new")
  /\ FailureRestores

-----------------------------------------------------------------------------
\* Changing one container of the daemon's table keeps the table well typed.
LEMMA TableUpdates ==
  ASSUME ReplaceTypeOK, NEW c \in {"old", "new"}
  PROVE  /\ \A s \in ContainerState : [ctr EXCEPT ![c].state = s] \in [{"old", "new"} -> Container]
         /\ \A n \in Names : [ctr EXCEPT ![c].name = n] \in [{"old", "new"} -> Container]
         /\ \A r \in Container : [ctr EXCEPT ![c] = r] \in [{"old", "new"} -> Container]
BY DEF ReplaceTypeOK, Container

\* A stop changes nothing but the state, the addresses and the namespace.
LEMMA StopOldType ==
  ASSUME ReplaceTypeOK
  PROVE  StopOld => /\ ctr' \in [{"old", "new"} -> Container]
                    /\ address' \in [Addressed -> {"held", "freed", "changed", "cut"}]
                    /\ netns' \in BOOLEAN
BY TableUpdates DEF ReplaceTypeOK, StopOld, ContainerState

\* Every step keeps the variables in their types.
LEMMA TypeStep ==
  ASSUME ReplaceTypeOK, [ReplaceNext]_replaceVars
  PROVE  ReplaceTypeOK'
<1> USE ReplaceAssumption DEF ReplaceTypeOK, replaceVars, daemon, flags, fixed, times
<1> DEFINE Table == [{"old", "new"} -> Container]
<1>1. /\ \A c \in {"old", "new"} : Renamed(c, "original") \in Table /\ Renamed(c, "backup") \in Table
      /\ \A c \in {"old", "new"}, s \in {"running", "exited", "crashed"} : [ctr EXCEPT ![c].state = s] \in Table
      /\ \A c \in {"old", "new"} : [ctr EXCEPT ![c] = Absent] \in Table
      /\ [ctr EXCEPT !["new"] = [name |-> "temp", state |-> "created"]] \in Table
  BY TableUpdates DEF Renamed, ContainerState, Names, Container, Absent
<1> USE <1>1 DEF Forward, Rollback, Returned
<1> HIDE DEF Table
<1>2. CASE Configure
  BY <1>2 DEF Configure, Then, Table
<1>3. CASE Create
  BY <1>3 DEF Create, Then, Undo, Joined, Answers, Table
<1>4. CASE Connect
  BY <1>4 DEF Connect, Then, Undo, Joined, Answers, Table
<1>5. CASE Stop
  <2>1. ctr' \in Table /\ address' \in [Addressed -> {"held", "freed", "changed", "cut"}] /\ netns' \in BOOLEAN
    BY <1>5, StopOldType DEF Stop, Table
  <2>2. stopping' \in BOOLEAN /\ stopped' \in BOOLEAN /\ restoreNet' \in BOOLEAN
    BY <1>5 DEF Stop, NoteStopped
  <2>. QED
    BY <1>5, <2>1, <2>2 DEF Stop, Then, Undo, Table
<1>6. CASE Start
  BY <1>6 DEF Start, Then, Undo, Table
<1>7. CASE Settle
  BY <1>7 DEF Settle, Then, Undo, Table
<1>8. CASE Backup
  BY <1>8 DEF Backup, Then, Undo, Table
<1>9. CASE SwitchName
  BY <1>9 DEF SwitchName, Then, Undo, UndoWithName, Table
<1>10. CASE Remove
  BY <1>10 DEF Remove, Then, Table
<1>11. CASE UndoName
  <2>1. ctr' \in Table /\ complaint' \in BOOLEAN
    BY <1>11 DEF UndoName, Complain, Table
  <2>2. pc' \in Rollback /\ expired' \in BOOLEAN
    BY <1>11 DEF UndoName
  <2>3. UNCHANGED <<address, image, tag, stopping, netns, flags, todo, cancelled, ripe>>
    BY <1>11 DEF UndoName
  <2>. QED
    BY <2>1, <2>2, <2>3 DEF Table
<1>12. CASE UndoCreate
  BY <1>12 DEF UndoCreate, Complain, Table
<1>13. CASE UndoNet
  <2>1. complaint' \in BOOLEAN
    BY <1>13, Zenon DEF UndoNet, Then, Complain
  <2>2. address' \in [Addressed -> {"held", "freed", "changed", "cut"}]
    BY <1>13 DEF UndoNet
  <2>. QED
    BY <1>13, <2>1, <2>2 DEF UndoNet, Then, Table
<1>14. CASE UndoStart
  BY <1>14 DEF UndoStart, StartOld, Complain, Table
<1>15. CASE DaemonFinishesStop
  <2>1. ctr' \in Table /\ address' \in [Addressed -> {"held", "freed", "changed", "cut"}] /\ netns' \in BOOLEAN
    BY <1>15, StopOldType DEF DaemonFinishesStop, Table
  <2>2. stopping' \in BOOLEAN
    BY <1>15 DEF DaemonFinishesStop
  <2>3. UNCHANGED <<image, tag, pc, flags, todo, times, complaint>>
    BY <1>15 DEF DaemonFinishesStop
  <2>. QED
    BY <2>1, <2>2, <2>3 DEF Table
<1>16. CASE TagMoves
  BY <1>16 DEF TagMoves, Table
<1>17. CASE ReplacementEnds
  BY <1>17 DEF ReplacementEnds, Table
<1>18. CASE Cancel
  BY <1>18 DEF Cancel, Table
<1>19. CASE CleanupExpires
  BY <1>19 DEF CleanupExpires, Table
<1>20. CASE SettleTimePasses
  BY <1>20 DEF SettleTimePasses, Table
<1>21. CASE ServerDies
  BY <1>21 DEF ServerDies, Then, Table
<1>22. CASE UNCHANGED replaceVars
  BY <1>22
<1>. QED
  BY <1>2, <1>3, <1>4, <1>5, <1>6, <1>7, <1>8, <1>9, <1>10, <1>11, <1>12, <1>13, <1>14, <1>15, <1>16, <1>17,
     <1>18, <1>19, <1>20, <1>21, <1>22 DEF ReplaceNext, Step, Environment

\* Every variable of the attempt keeps its type, for any networks.
THEOREM ReplacementTyped == ReplaceSpec => []ReplaceTypeOK
<1>1. ReplaceInit => ReplaceTypeOK
  <2> SUFFICES ASSUME ReplaceInit PROVE ReplaceTypeOK
    OBVIOUS
  <2>1. ctr \in [{"old", "new"} -> Container]
    BY DEF ReplaceInit, Container, ContainerState, Names, Absent
  <2>. QED
    BY <2>1 DEF ReplaceInit, ReplaceTypeOK, Forward
<1>2. ReplaceTypeOK /\ [ReplaceNext]_replaceVars => ReplaceTypeOK'
  BY TypeStep
<1>. QED
  BY <1>1, <1>2, PTL DEF ReplaceSpec

-----------------------------------------------------------------------------
\* Every step keeps what PlaceInv says of where the two containers can be.
LEMMA PlaceStep ==
  ASSUME ReplaceTypeOK, PlaceInv, [ReplaceNext]_replaceVars
  PROVE  PlaceInv'
<1> USE DEF PlaceInv, OneWorkload, ReplaceTypeOK, replaceVars, daemon, flags, fixed, times, Before, Swapping,
            Forward, Rollback, Returned, Present, Running, Absent, Container
<1>1. CASE Configure
  BY <1>1 DEF Configure, Then
<1>2. CASE Create
  BY <1>2 DEF Create, Then, Undo, Joined
<1>3. CASE Connect
  BY <1>3 DEF Connect, Then, Undo, Joined
<1>4. CASE Stop
  BY <1>4 DEF Stop, StopOld, NoteStopped, Then, Undo
<1>5. CASE Start
  BY <1>5 DEF Start, Then, Undo
<1>6. CASE Settle
  BY <1>6 DEF Settle, Then, Undo
<1>7. CASE Backup
  BY <1>7 DEF Backup, Then, Undo, Renamed, Done
<1>8. CASE SwitchName
  BY <1>8 DEF SwitchName, Then, Undo, UndoWithName, Renamed, Done, CanRename, NameTaken
<1>9. CASE Remove
  BY <1>9 DEF Remove, Then, Done
<1>10. CASE UndoName
  BY <1>10 DEF UndoName, Complain, Renamed, Done
<1>11. CASE UndoCreate
  <2>1. PICK answer \in Answers(expired) :
          /\ ctr' = IF Done(answer) THEN [ctr EXCEPT !["new"] = Absent] ELSE ctr
          /\ Complain(answer)
    BY <1>11 DEF UndoCreate
  <2>2. ~complaint' => answer = "ok"
    BY <2>1 DEF Complain
  <2>3. complaint => complaint'
    BY <2>1 DEF Complain
  <2>. QED
    BY <1>11, <2>1, <2>2, <2>3 DEF UndoCreate, Done
<1>12. CASE UndoNet
  BY <1>12 DEF UndoNet, Then, Complain, Done
<1>13. CASE UndoStart
  <2>1. complaint => complaint'
    BY <1>13 DEF UndoStart, Complain
  <2>. QED
    BY <1>13, <2>1 DEF UndoStart, StartOld
<1>14. CASE DaemonFinishesStop
  BY <1>14 DEF DaemonFinishesStop, StopOld
<1>15. CASE TagMoves
  BY <1>15 DEF TagMoves
<1>16. CASE ReplacementEnds
  BY <1>16 DEF ReplacementEnds
<1>17. CASE Cancel
  BY <1>17 DEF Cancel
<1>18. CASE CleanupExpires
  BY <1>18 DEF CleanupExpires
<1>19. CASE SettleTimePasses
  BY <1>19 DEF SettleTimePasses
<1>20. CASE ServerDies
  BY <1>20 DEF ServerDies, Then
<1>21. CASE UNCHANGED replaceVars
  BY <1>21
<1>. QED
  BY <1>1, <1>2, <1>3, <1>4, <1>5, <1>6, <1>7, <1>8, <1>9, <1>10, <1>11, <1>12, <1>13, <1>14, <1>15, <1>16,
     <1>17, <1>18, <1>19, <1>20, <1>21 DEF ReplaceNext, Step, Environment

\* An attempt stays what it is.
LEMMA LossyStays ==
  ASSUME [ReplaceNext]_replaceVars
  PROVE  lossy' = lossy
<1> USE DEF replaceVars, flags, fixed
<1>1. CASE Step
  BY <1>1 DEF Step, Configure, Create, Connect, Stop, Start, Settle, Backup, SwitchName, Remove,
              UndoName, UndoCreate, UndoNet, UndoStart
<1>2. CASE Environment
  BY <1>2 DEF Environment, DaemonFinishesStop, TagMoves, ReplacementEnds, Cancel, CleanupExpires,
              SettleTimePasses, ServerDies
<1>. QED
  BY <1>1, <1>2 DEF ReplaceNext

\* Every step keeps what KnownInv says of what the attempt knows of the daemon, as
\* long as no answer is lost.
LEMMA KnownStep ==
  ASSUME ReplaceTypeOK, KnownInv, ~lossy, [ReplaceNext]_replaceVars
  PROVE  KnownInv'
<1> USE DEF KnownInv, FailureRestores, Untouched, OriginalAsBefore, ReplaceTypeOK, replaceVars, daemon, flags,
   fixed,
            times, Before, Swapping, Forward, Rollback, Returned, Present, Running, Absent, Container
<1>1. CASE Configure
  BY <1>1 DEF Configure, Then
<1>2. CASE Create
  BY <1>2 DEF Create, Then, Undo, Joined, Answers
<1>3. CASE Connect
  BY <1>3 DEF Connect, Then, Undo, Joined
<1>4. CASE Stop
  <2>1. CASE stopped'
    <3>1. /\ pc = "stop" /\ pc' = "start" /\ stopped' /\ restoreNet' /\ ~stopping'
          /\ UNCHANGED <<lossy, oldRunning, complaint>>
          /\ ctr'["old"].state = "exited" /\ ctr'["old"].name = "original" /\ ctr'["new"] = ctr["new"]
      <4>1. pc = "stop" /\ ~stopped /\ Running("old")
        BY <1>4 DEF Stop
      <4>2. UNCHANGED <<lossy, oldRunning>>
        BY <1>4 DEF Stop
      <4>3. StopOld /\ NoteStopped /\ Then("start") /\ UNCHANGED stopping
        BY <1>4, <2>1, <4>1, Zenon DEF Stop, Undo
      <4>. QED
        BY <4>1, <4>2, <4>3 DEF StopOld, NoteStopped, Then
    <3>. QED
      BY <3>1
  <2>2. CASE ~stopped'
    <3>1. pc = "stop" /\ pc' = "undoCreate" /\ UNCHANGED <<ctr, address, netns, stopping, stopped, restoreNet, lossy, oldRunning, complaint>>
      BY <1>4, <2>2 DEF Stop, NoteStopped, Then, Undo, Answers
    <3>. QED
      BY <1>4, <3>1
  <2>. QED
    BY <2>1, <2>2
<1>5. CASE Start
  BY <1>5 DEF Start, Then, Undo
<1>6. CASE Settle
  BY <1>6 DEF Settle, Then, Undo
<1>7. CASE Backup
  BY <1>7 DEF Backup, Then, Undo, Renamed, Done, Answers
<1>8. CASE SwitchName
  BY <1>8 DEF SwitchName, Then, Undo, UndoWithName, Renamed, Done
<1>9. CASE Remove
  BY <1>9 DEF Remove, Then, Done
<1>10. CASE UndoName
  BY <1>10 DEF UndoName, Complain, Renamed, Done
<1>11. CASE UndoCreate
  BY <1>11 DEF UndoCreate, Complain, Done
<1>12. CASE UndoNet
  BY <1>12 DEF UndoNet, Then, Complain, Done
<1>13. CASE UndoStart
  BY <1>13 DEF UndoStart, StartOld, Complain, Done
<1>14. CASE DaemonFinishesStop
  BY <1>14 DEF DaemonFinishesStop, StopOld
<1>15. CASE TagMoves
  BY <1>15 DEF TagMoves
<1>16. CASE ReplacementEnds
  BY <1>16 DEF ReplacementEnds
<1>17. CASE Cancel
  BY <1>17 DEF Cancel
<1>18. CASE CleanupExpires
  BY <1>18 DEF CleanupExpires
<1>19. CASE SettleTimePasses
  BY <1>19 DEF SettleTimePasses
<1>20. CASE ServerDies
  BY <1>20 DEF ServerDies, Then
<1>21. CASE UNCHANGED replaceVars
  BY <1>21
<1>. QED
  BY <1>1, <1>2, <1>3, <1>4, <1>5, <1>6, <1>7, <1>8, <1>9, <1>10, <1>11, <1>12, <1>13, <1>14, <1>15, <1>16,
     <1>17, <1>18, <1>19, <1>20, <1>21 DEF ReplaceNext, Step, Environment

-----------------------------------------------------------------------------
\* The invariants hold of every behaviour.
LEMMA PlaceCorrect == ReplaceSpec => []PlaceInv
<1>1. ReplaceInit => PlaceInv
  BY DEF ReplaceInit, PlaceInv, OneWorkload, Before, Swapping, Forward, Present, Running, Absent
<1>2. ReplaceTypeOK /\ PlaceInv /\ [ReplaceNext]_replaceVars => PlaceInv'
  BY PlaceStep
<1>. QED
  BY <1>1, <1>2, ReplacementTyped, PTL DEF ReplaceSpec

\* What an attempt that loses no answer knows of the daemon is right.
LEMMA KnownCorrect == ReplaceSpec => [](lossy \/ KnownInv)
<1>1. ReplaceInit => lossy \/ KnownInv
  <2> SUFFICES ASSUME ReplaceInit PROVE KnownInv
    OBVIOUS
  <2>1. (Running("old") <=> oldRunning) /\ ctr["old"].name = "original" /\ ctr["new"] = Absent
    BY DEF ReplaceInit, Running
  <2>. QED
    BY <2>1 DEF ReplaceInit, KnownInv, FailureRestores, Before, Swapping, Forward, Rollback, Returned
<1>2. ReplaceTypeOK /\ (lossy \/ KnownInv) /\ [ReplaceNext]_replaceVars => (lossy \/ KnownInv)'
  BY KnownStep, LossyStays
<1>. QED
  BY <1>1, <1>2, ReplacementTyped, PTL DEF ReplaceSpec

\* The user never loses the container, whatever fails, whoever dies and whatever
\* the daemon still carries out: the original exists or the replacement has
\* its name (NeverLost, upgrade.go replaceContainer).
THEOREM OriginalOrReplacement == ReplaceSpec => []NeverLost
<1>1. PlaceInv => NeverLost
  BY DEF PlaceInv, NeverLost
<1>. QED
  BY <1>1, PlaceCorrect, PTL

\* The two containers never run side by side without the error saying that the
\* replacement could not be removed.
THEOREM NeverBothRunning == ReplaceSpec => []OneWorkload
<1>1. PlaceInv => OneWorkload
  BY DEF PlaceInv
<1>. QED
  BY <1>1, PlaceCorrect, PTL

\* An attempt that succeeds leaves the name with a container of the image that
\* was verified, even if the tag moved under way.
THEOREM SwitchedIsVerified == ReplaceSpec => []SuccessIsVerified
<1>1. PlaceInv => SuccessIsVerified
  BY DEF PlaceInv, SuccessIsVerified
<1>. QED
  BY <1>1, PlaceCorrect, PTL

\* When no answer is lost, an error that reports nothing left undone means that
\* the original is back as it was, for any set of networks and addresses.
THEOREM FailureRestoresOriginal == ReplaceSpec => []FailureRestores
<1>1. lossy \/ KnownInv => FailureRestores
  BY DEF KnownInv, FailureRestores
<1>. QED
  BY <1>1, KnownCorrect, PTL

\* When no answer is lost, the caller is told of every stop of the original.
THEOREM StopIsReported == ReplaceSpec => []DependentsTold
<1>1. lossy \/ KnownInv => DependentsTold
  BY DEF KnownInv, DependentsTold
<1>. QED
  BY <1>1, KnownCorrect, PTL

-----------------------------------------------------------------------------
\* The refinement. An ended attempt keeps what the caller has been told, and
\* changes no name; unless an answer was lost nothing changes at all.
LEMMA EndedStays ==
  ASSUME ReplaceTypeOK, pc \in Returned, [ReplaceNext]_replaceVars
  PROVE  /\ UNCHANGED <<pc, complaint, oldRunning>>
         /\ ctr'["old"].name = ctr["old"].name
         /\ Present("old")' <=> Present("old")
         /\ ctr'["new"].name = ctr["new"].name
         /\ Present("new")' <=> Present("new")
         /\ KnownInv => UNCHANGED address /\ ctr'["old"] = ctr["old"]
<1> USE DEF ReplaceTypeOK, Returned, replaceVars, daemon, flags, fixed, times
<1>1. CASE Step
  BY <1>1 DEF Step, Configure, Create, Connect, Stop, Start, Settle, Backup, SwitchName, Remove,
              UndoName, UndoCreate, UndoNet, UndoStart
<1>2. CASE DaemonFinishesStop
  BY <1>2 DEF DaemonFinishesStop, KnownInv, StopOld, Running, Present, Container
<1>3. CASE ReplacementEnds
  BY <1>3 DEF ReplacementEnds, Running, Present, Container
<1>4. CASE TagMoves \/ Cancel \/ CleanupExpires \/ SettleTimePasses \/ ServerDies
  BY <1>4 DEF TagMoves, Cancel, CleanupExpires, SettleTimePasses, ServerDies, Forward, Rollback, Present
<1>5. CASE UNCHANGED replaceVars
  BY <1>5 DEF Present
<1>. QED
  BY <1>1, <1>2, <1>3, <1>4, <1>5 DEF ReplaceNext, Environment

\* A step of replaceContainer is a step of AtomicReplace or invisible to it.
LEMMA AtomicStep ==
  ASSUME ReplaceTypeOK, PlaceInv, lossy \/ KnownInv, [ReplaceNext]_replaceVars, ReplaceTypeOK', PlaceInv', (lossy \/ KnownInv)'
  PROVE  [Abstract!Next]_(Abstract!vars)
<1> USE DEF Abstract!vars, Abstract!Owners
<1>0. lossy' = lossy
  BY LossyStays
<1>1. Owner \in Abstract!Owners /\ Owner' \in Abstract!Owners
  BY DEF Owner
<1>2. /\ OriginalNow \in {"intact", "disturbed", "gone"}
      /\ OriginalNow' \in {"intact", "disturbed", "gone"}
  BY DEF OriginalNow
<1>3. /\ pc # "done" => OriginalNow # "gone"
      /\ pc' # "done" => OriginalNow' # "gone"
  BY DEF PlaceInv, OriginalNow
<1>4. CASE pc \in Returned
  <2>1. pc' = pc /\ complaint' = complaint /\ (Present("old")' <=> Present("old"))
    BY <1>4, EndedStays
  <2>2. Outcome' = Outcome
    BY <2>1 DEF Outcome
  <2>3. Owner' = Owner
    BY <1>4, EndedStays DEF Owner
  <2>4. CASE lossy
    <3>1. OriginalNow' = "gone" <=> OriginalNow = "gone"
      BY <2>1 DEF OriginalNow
    <3>2. Outcome \in Abstract!Endings
      BY <1>4 DEF Outcome, Returned, Abstract!Endings
    <3>. QED
      BY <1>0, <1>2, <2>2, <2>3, <2>4, <3>1, <3>2 DEF Abstract!Next, Abstract!Afterwards
  <2>5. CASE ~lossy
    <3>1. UNCHANGED address /\ ctr'["old"] = ctr["old"]
      BY <1>4, <2>5, EndedStays
    <3>2. Untouched' <=> Untouched
      BY <1>4, <3>1, EndedStays DEF Untouched, OriginalAsBefore, Running, Present
    <3>3. OriginalNow' = OriginalNow
      BY <2>1, <3>2 DEF OriginalNow
    <3>. QED
      BY <1>0, <2>2, <2>3, <3>3
  <2>. QED
    BY <2>4, <2>5
<1>5. CASE pc \notin Returned
  <2> USE DEF Returned
  <2>1. Outcome = "trying"
    BY <1>5 DEF Outcome
  <2>2. CASE pc' \notin Returned
    <3>1. Outcome' = "trying"
      BY <2>2 DEF Outcome
    <3>. QED
      BY <1>0, <1>1, <1>2, <1>3, <1>5, <2>1, <2>2, <3>1 DEF Abstract!Next, Abstract!Try
  <2>3. CASE pc' = "crashed"
    <3>1. Outcome' = "abandoned"
      BY <2>3 DEF Outcome
    <3>. QED
      BY <1>0, <1>1, <1>2, <1>3, <2>1, <2>3, <3>1 DEF Abstract!Next, Abstract!Stop
  <2>4. CASE pc' = "failed"
    <3>1. CASE complaint'
      <4>1. Outcome' = "reported"
        BY <2>4, <3>1 DEF Outcome
      <4>. QED
        BY <1>0, <1>1, <1>2, <1>3, <2>1, <2>4, <4>1 DEF Abstract!Next, Abstract!Stop
    <3>2. CASE ~complaint' /\ lossy
      <4>1. Outcome' = "kept"
        BY <2>4, <3>2 DEF Outcome
      <4>. QED
        BY <1>0, <1>1, <1>2, <1>3, <2>1, <2>4, <3>2, <4>1 DEF Abstract!Next, Abstract!Stop
    <3>3. CASE ~complaint' /\ ~lossy
      <4>1. Outcome' = "kept"
        BY <2>4, <3>3 DEF Outcome
      <4>2. Untouched'
        BY <1>0, <2>4, <3>3 DEF KnownInv, FailureRestores
      <4>3. Owner' = "original"
        BY <4>2 DEF Untouched, OriginalAsBefore, Owner
      <4>4. Present("old")'
        BY <2>4 DEF PlaceInv
      <4>5. OriginalNow' = "intact"
        BY <4>2, <4>4 DEF OriginalNow
      <4>. QED
        BY <1>0, <2>1, <4>1, <4>3, <4>5 DEF Abstract!Next, Abstract!Keep
    <3>. QED
      BY <3>1, <3>2, <3>3
  <2>5. CASE pc' = "done"
    <3>1. Outcome' = "switched"
      BY <2>5 DEF Outcome
    <3>2. Owner' = "replacement" /\ ~Untouched'
      BY <2>5 DEF PlaceInv, Owner, Untouched, OriginalAsBefore
    <3>3. OriginalNow' \in {"disturbed", "gone"}
      BY <3>2 DEF OriginalNow
    <3>. QED
      BY <1>0, <2>1, <3>1, <3>2, <3>3 DEF Abstract!Next, Abstract!Switch
  <2>. QED
    BY <2>2, <2>3, <2>4, <2>5
<1>. QED
  BY <1>4, <1>5

\* replaceContainer implements the atomic replacement: every attempt switches,
\* keeps the original as it was, or reports what it could not restore; only one
\* that lost an answer can be wrong about it.
THEOREM ImplementsAtomicReplace == ReplaceSpec => Atomic
<1>1. ReplaceInit => Abstract!Init
  <2> SUFFICES ASSUME ReplaceInit PROVE Abstract!Init
    OBVIOUS
  <2>1. (Running("old") <=> oldRunning) /\ Present("old") /\ ~Present("new")
    BY DEF ReplaceInit, Running, Present, Absent
  <2>2. Untouched
    BY <2>1 DEF ReplaceInit, Untouched, OriginalAsBefore
  <2>. QED
    <3>1. OriginalNow = "intact"
      BY <2>1, <2>2 DEF OriginalNow
    <3>2. Outcome = "trying" /\ Owner = "original" /\ lossy \in BOOLEAN
      BY DEF ReplaceInit, Outcome, Owner
    <3>. QED
      BY <3>1, <3>2 DEF Abstract!Init
<1>2. /\ ReplaceTypeOK /\ PlaceInv /\ (lossy \/ KnownInv) /\ [ReplaceNext]_replaceVars
      /\ ReplaceTypeOK' /\ PlaceInv' /\ (lossy \/ KnownInv)'
      => [Abstract!Next]_(Abstract!vars)
  BY AtomicStep
<1>. QED
  BY <1>1, <1>2, ReplacementTyped, PlaceCorrect, KnownCorrect, PTL DEF ReplaceSpec, Atomic, Abstract!Spec
=============================================================================
