-------------------------- MODULE ContainerUpgrade --------------------------
(***************************************************************************)
(* upgrade() of backend/internal/docker/container/upgrade.go: upgrades of  *)
(* a container and of the containers that share its network namespace      *)
(* (network_mode: container:<it>, "dependents"), run by several tasks at   *)
(* once under the locks of container.go.                                   *)
(*                                                                         *)
(* A container of the daemon is a name and a generation: replacing it gives*)
(* the name a new generation, which is its new ID.  What replaceContainer  *)
(* does inside is the business of ReplaceContainer; here it is the three   *)
(* steps others can tell apart: the original is stopped, and the           *)
(* replacement takes over, or the original comes back, or neither runs     *)
(* (AtomicReplace: switched, kept, reported).                              *)
(***************************************************************************)
EXTENDS Naturals, FiniteSets

CONSTANTS
  Main, Deps,     \* the container, and those in its network namespace
  ByName,         \* the dependents whose network mode names it instead of giving its ID
  Selves,         \* where phyless itself may run: sets of one container or none
  Tasks,
  MaxImage,       \* bound: releases of each image
  MaxGen,         \* bound: generations of a container
  MaxEnding       \* bound: stops the daemon is still at for calls that have failed

Ctrs == {Main} \cup Deps

ASSUME UpgradeAssumption ==
  /\ Main \notin Deps /\ ByName \subseteq Deps /\ Selves \subseteq SUBSET Ctrs
  /\ IsFiniteSet(Deps) /\ {MaxImage, MaxEnding} \subseteq Nat /\ MaxGen \in Nat \ {0}

VARIABLES
  cur,        \* per name its current container: generation, image, running, attached
              \* (a dependent's: to the live namespace of Main), and the generation of
              \* Main its network mode refers to
  released,   \* per name the image its tag resolves to
  locked,     \* upgradeOperationState.active
  task,       \* per task its operation; unsure is a ghost
  self,       \* the container phyless runs in, if it runs in one
  alive,      \* the phyless process runs
  ending,     \* the IDs whose stop the daemon is still at although the call has failed
  cut         \* a ghost: the dependents left running in a dead namespace by a stop that
              \* was reported as failed, and not served since

vars == <<cur, released, locked, task, self, alive, ending, cut>>

Id(c) == <<c, cur[c].gen>>

Idle == [pc |-> "idle", id |-> <<Main, 0>>, running |-> FALSE, image |-> 0, env |-> FALSE,
         deps |-> {}, todo |-> {}, held |-> {}, stopped |-> FALSE, newGen |-> 0, warned |-> {}, unsure |-> {}]

Init ==
  /\ self \in Selves
  /\ \E up \in BOOLEAN, ups \in SUBSET Deps :
       /\ ~up => ups = {}
       /\ self \subseteq ups \cup (IF up THEN {Main} ELSE {})
       /\ cur = [c \in Ctrs |-> [gen |-> 1, image |-> 0, running |-> IF c = Main THEN up ELSE c \in ups,
                                 attached |-> c \in ups, refers |-> 1]]
  /\ released = [c \in Ctrs |-> 0]
  /\ locked = {} /\ task = [t \in Tasks |-> Idle] /\ alive = TRUE
  /\ ending = {} /\ cut = {}

Name(id) == id[1]
Target(t) == Name(task[t].id)
Exists(id) == cur[Name(id)].gen = id[2]
Goto(t, pc) == task' = [task EXCEPT ![t].pc = pc]

\* A dependent that runs outside of the namespace Main has now.  Of those who, the
\* ones that no stop was reported for stay noted until they leave it.
Stranded(d) == cur[d].running /\ ~cur[d].attached
Cut(deps) == cut' = {d \in deps : Stranded(d)'}

\* A registry publishes a new image for the container's tag.
Release(c) ==
  /\ released[c] < MaxImage
  /\ released' = [released EXCEPT ![c] = @ + 1]
  /\ UNCHANGED <<cur, locked, task, alive>>

\* Mutant: a rejected upgrade keeps the locks of the dependents it had got.
EndKeepingDependents(t, pc) ==
  /\ task' = [task EXCEPT ![t] = [Idle EXCEPT !.pc = pc, !.id = task[t].id, !.deps = task[t].deps,
                                !.warned = task[t].warned, !.unsure = task[t].unsure]]
  /\ locked' = locked \ {task[t].id}

\* The return of upgrade(): the deferred releases of every lock it took.
End(t, pc) ==
  /\ task' = [task EXCEPT ![t] = [Idle EXCEPT !.pc = pc, !.id = task[t].id, !.deps = task[t].deps,
                                !.warned = task[t].warned, !.unsure = task[t].unsure]]
  /\ locked' = locked \ task[t].held

-----------------------------------------------------------------------------
\* The container is inspected before its ID is locked.
Inspect(t) ==
  /\ task[t].pc = "idle"
  /\ \E c \in Ctrs, env \in BOOLEAN :
       task' = [task EXCEPT ![t] = [Idle EXCEPT !.pc = "lock", !.id = Id(c), !.env = env,
                                    !.running = cur[c].running, !.image = cur[c].image]]
  /\ UNCHANGED <<cur, released, locked, alive>>

\* tryUpgradeOperation refuses, it never waits.
Lock(t) ==
  /\ task[t].pc = "lock"
  /\ IF task[t].id \in locked THEN End(t, "rejected")
     ELSE /\ locked' = locked \cup {task[t].id}
          /\ task' = [task EXCEPT ![t].pc = "list", ![t].held = {task[t].id}]
  /\ UNCHANGED <<cur, released, alive>>

\* Mutant: dependents that give the container's ID are not found.
DependentsByName(id) == IF Name(id) = Main THEN ByName ELSE {}

\* networkDependents: whose mode names the container or gives its ID.
Dependents(id) ==
  IF Name(id) # Main THEN {}
  ELSE {d \in Deps : d \in ByName \/ cur[d].refers = id[2]}

\* A container that cannot be upgraded safely, or has a dependent that cannot, is
\* refused.  What another task has locked and is not listed is noted as unsure: it
\* is no dependent as that task's work has left it so far.
List(t) ==
  LET deps == {[id |-> Id(d), running |-> cur[d].running] : d \in Dependents(task[t].id)} IN
  /\ task[t].pc = "list"
  /\ \/ End(t, "failed")
     \/ /\ task' = [task EXCEPT ![t].pc = "lockDeps", ![t].deps = deps, ![t].todo = deps,
                               ![t].unsure = {d \in Deps \ Dependents(task[t].id) :
                                                Target(t) = Main /\ Id(d) \in locked}]
        /\ UNCHANGED locked
  /\ UNCHANGED <<cur, released, alive>>

\* Mutant: a dependent that is being upgraded is no reason to give up.
LockDepAnyway(t) ==
  /\ task[t].pc = "lockDeps"
  /\ \E d \in task[t].todo :
       /\ locked' = locked \cup {d.id}
       /\ task' = [task EXCEPT ![t].todo = @ \ {d},
                               ![t].held = IF d.id \in locked THEN @ ELSE @ \cup {d.id}]
  /\ UNCHANGED <<cur, released, alive>>

\* A dependent is not any more what it was when it was listed.
Changed(d) == ~Exists(d.id) \/ cur[Name(d.id)].running # d.running

\* Every dependent's lock is taken, or the upgrade is refused.  Nobody looks at the
\* dependent again: one that changed between listing and locking is noted as unsure.
LockDep(t) ==
  /\ task[t].pc = "lockDeps"
  /\ \E d \in task[t].todo :
       IF d.id \in locked THEN End(t, "rejected")
       ELSE /\ locked' = locked \cup {d.id}
            /\ task' = [task EXCEPT ![t].todo = @ \ {d}, ![t].held = @ \cup {d.id},
                               ![t].unsure = IF Changed(d) THEN @ \cup {Name(d.id)} ELSE @]
  /\ UNCHANGED <<cur, released, alive>>

\* upgradeContainer gives the upgrade of phyless's own container a Handoff.
HandsOff(c) == c \in self

\* The image is pulled (or is there already) and verified.
Pull(t) ==
  LET c == Target(t) IN
  /\ task[t].pc = "lockDeps" /\ task[t].todo = {}
  /\ \/ End(t, "failed")
     \/ /\ released[c] = task[t].image /\ ~task[t].env
        /\ End(t, "latest")
     \/ /\ released[c] # task[t].image \/ task[t].env
        /\ HandsOff(c)
        /\ End(t, "handedOff")
     \/ /\ released[c] # task[t].image \/ task[t].env
        /\ ~HandsOff(c)
        /\ task' = [task EXCEPT ![t].pc = "replace", ![t].image = released[c]]
        /\ UNCHANGED locked
  /\ UNCHANGED <<cur, released, alive>>

-----------------------------------------------------------------------------
\* replaceContainer, on the container and then on its dependents.

\* A container that stops takes its network namespace with it.
Stopped(c) ==
  [o \in Ctrs |-> [cur[o] EXCEPT !.running  = @ /\ o # c,
                                 !.attached = @ /\ o # c /\ c # Main]]

\* Stopping the container phyless runs in ends the process, its tasks and locks.
StopSelf ==
  /\ alive' = FALSE /\ locked' = {}
  /\ task' = [t \in Tasks |-> [Idle EXCEPT !.pc = "killed"]]

\* Only a running Main has a namespace to join, under the name or the ID given.
CanJoin(d, refers) == cur[Main].running /\ (d \in ByName \/ refers = cur[Main].gen)

\* The container of name c with these settings started, or not.
Started(c, refers) == c = Main \/ CanJoin(c, refers)

\* The container of name c was started and runs, or does not.
Runs(c, ok) == [cur EXCEPT ![c].running = ok, ![c].attached = ok /\ c # Main]

\* rollbackUpgrade starts the original if it was running when it was inspected.
Restored(t) ==
  LET c == Target(t) IN
  {cur} \cup IF Exists(task[t].id) /\ task[t].running /\ ~cur[c].running /\ Started(c, cur[c].refers)
             THEN {Runs(c, TRUE)} ELSE {}

\* The stop of id that fails with its call may be carried out all the same, later.
StopFails(id) ==
  \/ UNCHANGED ending
  \/ /\ Exists(id) /\ cur[Name(id)].running /\ Cardinality(ending) < MaxEnding
     /\ ending' = ending \cup {id}

\* Who is in the namespace of the container.
Members(c) == {d \in Deps : c = Main /\ cur[d].attached}

\* What fails before the original is stopped, the stop included, ends the attempt.
FailsFirst(t) ==
  /\ task[t].pc = "replace"
  /\ End(t, "failed") /\ cur' \in Restored(t) /\ Cut(cut)
  /\ \/ UNCHANGED ending
     \/ task[t].running /\ Target(t) \notin self /\ StopFails(task[t].id)
  /\ UNCHANGED <<released, alive>>

\* The original is stopped, if it was running when it was inspected.  The call may
\* fail although the stop is carried out (heard FALSE): the attempt rolls back as
\* any other, and what it returns in stopped is FALSE.
StopOriginal(t) ==
  LET c == Target(t)
      up == task[t].running
  IN
  /\ task[t].pc = "replace" /\ Exists(task[t].id)
  /\ cur' = IF up THEN Stopped(c) ELSE cur
  /\ \/ up /\ c \in self /\ StopSelf /\ Cut(cut)
     \/ \E heard \in IF up /\ cur[c].running THEN BOOLEAN ELSE {TRUE} :
          /\ up => c \notin self
          /\ task' = [task EXCEPT ![t].pc = "switching", ![t].stopped = up /\ heard]
          /\ Cut(IF heard THEN (IF up /\ c = Main THEN {} ELSE cut) ELSE cut \cup Members(c))
          /\ UNCHANGED <<locked, alive>>
  /\ UNCHANGED <<released, ending>>

\* The daemon has carried out the stop of a call that had failed.
StopEnds(id) ==
  /\ id \in ending /\ ending' = ending \ {id}
  /\ cur' = IF Exists(id) THEN Stopped(Name(id)) ELSE cur
  /\ Cut(cut \cup IF Exists(id) THEN Members(Name(id)) ELSE {})
  /\ UNCHANGED <<released, locked, task, alive>>

\* The replacement takes over the name, and the original is removed by force, be it
\* running: whatever still sits in its namespace is left in a dead one.
Replaced(c, image, running, refers) ==
  [Stopped(c) EXCEPT ![c] = [gen |-> cur[c].gen + 1, image |-> image, running |-> running,
                             attached |-> c # Main /\ running, refers |-> refers]]

Switch(t) ==
  LET c == Target(t) IN
  /\ task[t].pc = "switching" /\ task[t].stopped = task[t].running /\ cur[c].gen < MaxGen
  /\ task[t].running => Started(c, cur[c].refers)
  /\ cur' = Replaced(c, task[t].image, task[t].running, cur[c].refers)
  /\ task' = [task EXCEPT ![t].pc = "recreate", ![t].todo = task[t].deps,
                          ![t].newGen = cur[c].gen + 1]
  /\ Cut(IF c = Main THEN {} ELSE cut)
  /\ UNCHANGED <<released, locked, alive, ending>>

\* Mutant: a rollback does not tell that the original had been stopped.
RollBackUntold(t) ==
  /\ task[t].pc = "switching"
  /\ cur' \in Restored(t)
  /\ End(t, "failed")
  /\ UNCHANGED <<released, alive>>

\* The replacement fails: the original is started again, where it can be.
RollBack(t) ==
  /\ task[t].pc = "switching"
  /\ cur' \in Restored(t)
  /\ IF task[t].stopped
     THEN /\ task' = [task EXCEPT ![t].pc = "restart", ![t].todo = {d \in task[t].deps : d.running}]
          /\ UNCHANGED locked
     ELSE End(t, "failed")
  /\ UNCHANGED <<released, alive>>

\* restartDependents, of one dependent after the other: those that were running join
\* the namespace again.  A restart that fails may have stopped the dependent, and may
\* have been carried out; it is warned of.
RestartOne(t, d) ==
  LET c == Name(d.id)
      up == Exists(d.id) /\ CanJoin(c, cur[c].refers)
      done == IF up THEN {Runs(c, TRUE)} ELSE {}
      rest == task' = [task EXCEPT ![t].todo = @ \ {d}]
      warn == task' = [task EXCEPT ![t].todo = @ \ {d}, ![t].warned = @ \cup {c}]
  IN  \/ c \in self /\ Exists(d.id) /\ StopSelf /\ cur' = Stopped(c)
      \/ c \notin self /\ cur' \in done /\ rest /\ UNCHANGED <<locked, alive>>
      \/ /\ cur' \in {cur} \cup done \cup IF Exists(d.id) THEN {Runs(c, FALSE)} ELSE {}
         /\ warn /\ UNCHANGED <<locked, alive>>

Restart(t) ==
  /\ task[t].pc = "restart"
  /\ IF task[t].todo = {} THEN End(t, "failed") /\ UNCHANGED <<cur, alive>>
     ELSE \E d \in task[t].todo : RestartOne(t, d)
  /\ UNCHANGED released

\* recreateDependent: a dependent that gives the ID is pointed at the replacement.
NewReference(t, d) == IF d \in ByName THEN cur[d].refers ELSE task[t].newGen

\* recreateDependent; a failure is a warning.  A dependent of a container that was
\* stopped is recreated stopped.  One that is phyless itself is stopped like any
\* other, and with it this process.
RecreateOne(t, d) ==
  LET c == Name(d.id)
      ref == NewReference(t, c)
      run == cur[c].running /\ task[t].running
      warn == task' = [task EXCEPT ![t].todo = @ \ {d}, ![t].warned = @ \cup {c}]
      rest == task' = [task EXCEPT ![t].todo = @ \ {d}]
  IN  IF c \in self /\ Exists(d.id) /\ cur[c].running
      THEN StopSelf /\ cur' = Stopped(c) /\ UNCHANGED ending
      ELSE /\ \/ UNCHANGED cur /\ warn /\ StopFails(d.id)
              \/ /\ Exists(d.id) /\ cur[c].running
                 /\ \E back \in {FALSE, run /\ CanJoin(c, cur[c].refers)} : cur' = Runs(c, back)
                 /\ warn /\ UNCHANGED ending
              \/ /\ Exists(d.id) /\ cur[c].gen < MaxGen /\ (run => CanJoin(c, ref))
                 /\ cur' = Replaced(c, cur[c].image, run, ref) /\ rest /\ UNCHANGED ending
           /\ UNCHANGED <<locked, alive>>

\* The dependents are recreated one after the other.
Recreate(t) ==
  /\ task[t].pc = "recreate"
  /\ \E d \in task[t].todo : RecreateOne(t, d)
  /\ Cut(cut)
  /\ UNCHANGED released

Finish(t) ==
  /\ task[t].pc = "recreate" /\ task[t].todo = {}
  /\ End(t, "done")
  /\ UNCHANGED <<cur, released, alive>>

Run(t) ==
  \/ FailsFirst(t) \/ StopOriginal(t) \/ Switch(t) \/ Recreate(t)
  \/ /\ Lock(t) \/ List(t) \/ LockDep(t) \/ Pull(t) \/ RollBack(t) \/ Restart(t) \/ Finish(t)
     /\ Cut(cut) /\ UNCHANGED ending

Next ==
  /\ \/ alive /\ \E t \in Tasks : (Inspect(t) /\ UNCHANGED <<ending, cut>>) \/ Run(t)
     \/ \E c \in Ctrs : Release(c) /\ UNCHANGED <<ending, cut>>
     \/ \E id \in ending : StopEnds(id)
  /\ UNCHANGED self

Spec == Init /\ [][Next]_vars

\* A task that began runs on, and the calls it makes are answered.
FairSpec == Spec /\ \A t \in Tasks : WF_vars(alive /\ Run(t) /\ UNCHANGED self)

-----------------------------------------------------------------------------
Ended == {"rejected", "failed", "latest", "handedOff", "done", "killed"}
Steps == {"idle", "lock", "list", "lockDeps", "replace", "switching", "restart", "recreate"}
Dependent == [id : Deps \X (0..MaxGen), running : BOOLEAN]

\* Type invariant, with what ties the locks to the tasks: each lock is held by
\* one task, and a task holds its own container and the dependents it has locked.
TypeOK ==
  /\ cur \in [Ctrs -> [gen : 1..MaxGen, image : 0..MaxImage, running : BOOLEAN,
                       attached : BOOLEAN, refers : 1..MaxGen]]
  /\ released \in [Ctrs -> 0..MaxImage]
  /\ task \in [Tasks -> [pc : Steps \cup Ended, id : Ctrs \X (0..MaxGen), running : BOOLEAN,
                         image : 0..MaxImage, env : BOOLEAN, deps : SUBSET Dependent,
                         todo : SUBSET Dependent, held : SUBSET (Ctrs \X (0..MaxGen)),
                         stopped : BOOLEAN, newGen : 0..MaxGen, warned : SUBSET Deps,
                         unsure : SUBSET Deps]]
  /\ self \in Selves /\ alive \in BOOLEAN
  /\ ending \subseteq Ctrs \X (0..MaxGen) /\ cut \subseteq Deps
  /\ locked = UNION {task[t].held : t \in Tasks}
  /\ \A t, u \in Tasks : t # u => task[t].held \cap task[u].held = {}

\* "Hold every dependent's lock for the whole upgrade so a parallel batch task
\* cannot replace one underneath us (or we under it)": no container is in two
\* replacements at once, be it the target of one and a dependent of the other.
Touches(t) ==
  CASE task[t].pc = "switching" -> {task[t].id} \cup {d.id : d \in task[t].deps}
    [] task[t].pc \in {"restart", "recreate"} -> {d.id : d \in task[t].todo}
    [] OTHER -> {}
NeverUnderneath ==
  \A t, u \in Tasks : t # u => \A id \in Touches(t) \cap Touches(u) : ~Exists(id)

\* When nothing is being replaced, a dependent that runs is in the namespace Main
\* has now, unless a task warned that it could not be brought there.
Quiet == \A t \in Tasks : task[t].pc \notin {"switching", "restart", "recreate"}
Warned(d) == \E t \in Tasks : d \in task[t].warned

\* docs/container-upgrade.md: dependents are recreated after an upgrade, and after
\* a rollback those that had been running are restarted; what fails is warned of.
\* Whatever upgrades and rollbacks of Main and of dependents come together, none
\* is left running in a dead namespace in silence.  Not kept: ContainerUpgrade_listed.cfg.
DependentsRejoin == Quiet => \A d \in Deps : Stranded(d) => Warned(d)

\* The same, but for the dependents that changed under a task between its listing and
\* its locking them, or that another task was changing when it looked for them: they
\* may by then run again or refer to another Main; and for those that a stop of Main
\* has cut off which was carried out although it was reported as failed, until the
\* next upgrade that stops or replaces Main serves them.
Unsure(d) == \E t \in Tasks : d \in task[t].unsure
DependentsServed == Quiet => \A d \in Deps : Stranded(d) => Warned(d) \/ Unsure(d) \/ d \in cut

\* replaceContainer: "stopped reports whether the original was stopped, i.e. whether
\* containers sharing its network namespace lost their network even if it was
\* restored": whoever lost it is served.  Not kept: ContainerUpgrade_lost_stop.cfg.
StopsReported == Quiet => \A d \in Deps : Stranded(d) => Warned(d) \/ Unsure(d)

\* A dependent that gives an ID in its network mode gives the ID Main has now, or
\* a task warned of it: one that refers to a removed container never starts again.
ReferencesLive ==
  Quiet => \A d \in Deps \ ByName :
    cur[d].refers # cur[Main].gen => Warned(d) \/ Unsure(d)

\* Locks are refused, never waited for, and given back on every way out: once
\* the tasks are over, every container can be upgraded again.
LocksComeBack == <>[](locked = {})

\* docs/self-update.md: stopping phyless's own container would end the process
\* before it starts the replacement, so such work goes to a helper: no upgrade
\* done in process stops the container phyless runs in.
NeverStopsItself == alive

\* The state is sound: types, references that work, and a phyless that does not stop
\* itself while it upgrades others (upgradeContainer, recreateDependent).
Sound == TypeOK /\ ReferencesLive /\ NeverStopsItself
=============================================================================
