----------------------------- MODULE AutoUpdate -----------------------------
(***************************************************************************)
(* Scheduled update policies: backend/internal/autoupdate (the Runner that *)
(* sleeps until a policy is due) and backend/internal/api/autoupdate.go    *)
(* (saving, deleting and running policies and recording the outcome), with *)
(* the parts of docker_runtime.go that start and stop a Runner.            *)
(*                                                                         *)
(* Policies live in config.json. Each Docker runtime has a Runner of its   *)
(* own; a reload starts the next one before it cancels the previous one,   *)
(* and a restart of the process leaves nothing but the configuration. All  *)
(* policies are of the one Docker server and of kind "container". Time is  *)
(* a number; what a check or an update does to the target is reduced to    *)
(* its outcome. Containers come and go outside phyless at any time, so a   *)
(* rename may be from any name to any other.                               *)
(***************************************************************************)
EXTENDS Naturals, FiniteSets, FiniteSetsExt

CONSTANTS
  Target,        \* container names
  Settings,      \* what a user may save: records [enabled, schedule]
  MaxPolicies,   \* bound on the policies ever created
  MaxRuntimes,   \* bound on restarts and reloads, plus one
  MaxTime,       \* bound on the clock
  MaxSleep,      \* maxSleep
  Retry,         \* how long a Runner sleeps after a failed read
  Scopes         \* what to try together: records of the container names and settings in
                 \* use, of bounds on the policies created, the runtimes started and the
                 \* clock, and of whether users run policies by hand and config.json may
                 \* fail to be read or written

ASSUME AutoUpdateAssumption ==
  /\ MaxPolicies \in Nat \ {0} /\ MaxRuntimes \in Nat \ {0} /\ MaxTime \in Nat \ {0}
  /\ MaxSleep \in Nat \ {0} /\ Retry \in Nat \ {0}
  /\ Scopes \subseteq [targets : SUBSET Target, settings : SUBSET Settings,
                       policies : 1..MaxPolicies, runtimes : 1..MaxRuntimes, time : 1..MaxTime,
                       userRuns : BOOLEAN, storeFails : BOOLEAN]
  /\ Settings \subseteq [enabled : BOOLEAN, schedule : [kind : {"hours", "clock"}, every : Nat \ {0}]]

Id      == 1..MaxPolicies
Runtime == 1..MaxRuntimes
Manual  == MaxRuntimes + 1          \* the run a user asked for
Runs    == 1..(MaxRuntimes + 1)     \* a Runner's run has the number of its runtime
Time    == 0..MaxTime

VARIABLES
  now,
  policies,  \* auto_updates in config.json: per ID a policy, or Nothing
  nextId,
  current,   \* the runtime that takes new requests
  newest,    \* the last runtime started; ahead of current during a reload
  loop,      \* per runtime, its Runner; missed is a ghost: another one was told
  wake,      \* runtimes whose wake channel is full
  started,   \* per runtime, the map of that name; 0 for an absent key
  run,       \* per run, runAutoUpdate under way
  shown,     \* pairs of policy and target that a browser may be showing
  api,       \* a request that has changed something and is not over yet
  scope      \* one of Scopes, for good

volatile == <<current, newest, loop, wake, started, run, api>>
vars     == <<now, policies, nextId, shown, volatile, scope>>

Nothing == [target |-> "nothing"]
\* How a run or an update went; any outcome but "interrupted" is "ended".
Outcome == {"none", "running", "ended", "interrupted"}

Policy ==
  [target : Target, settings : Settings, updatedAt : Time,
   lastRunAt : Time, lastStatus : Outcome, lastUpdate : Outcome]

RunnerState ==
  [pc : {"off", "asleep", "tick", "busy", "over"}, deadline : 0..(MaxTime + MaxSleep + Retry),
   read : [Id -> Policy \cup {Nothing}], missed : BOOLEAN]

NoRun == [pc |-> "none", id |-> 0]
Off   == [pc |-> "off", deadline |-> 0, read |-> [i \in Id |-> Nothing], missed |-> FALSE]
Done  == [step |-> "done", runtime |-> 1, from |-> "nothing", to |-> "nothing"]

TypeOK ==
  /\ now \in Time
  /\ policies \in [Id -> Policy \cup {Nothing}]
  /\ nextId \in 1..(MaxPolicies + 1)
  /\ current \in Runtime /\ newest \in Runtime /\ newest \in {current, current + 1}
  /\ loop \in [Runtime -> RunnerState]
  /\ \A r \in Runtime : loop[r].pc = "off" <=> r > newest
  /\ wake \subseteq Runtime
  /\ started \in [Runtime -> [Id -> Time]]
  /\ run \in [Runs -> [pc : {"none", "begin", "check", "update"}, id : Id \cup {0}]]
  /\ shown \subseteq Id \X Target
  /\ scope \in Scopes
  /\ api \in [step : {"done", "follow", "wake"}, runtime : Runtime,
              from : Target \cup {"nothing"}, to : Target \cup {"nothing"}]

Init ==
  /\ now = 1
  /\ policies = [i \in Id |-> Nothing] /\ nextId = 1
  /\ current = 1 /\ newest = 1
  /\ loop = [r \in Runtime |-> IF r = 1 THEN [Off EXCEPT !.pc = "asleep"] ELSE Off]
  /\ wake = {} /\ started = [r \in Runtime |-> [i \in Id |-> 0]]
  /\ run = [k \in Runs |-> NoRun]
  /\ shown = {}
  /\ api = Done
  /\ scope \in Scopes

-----------------------------------------------------------------------------
\* When a policy is due (package autoupdate).

\* Next: an hourly schedule counts from `after`; a daily, weekly or monthly one
\* has fixed trigger times, here the multiples of its period.
NextTrigger(s, after) ==
  IF s.kind = "hours" THEN after + s.every ELSE (after \div s.every + 1) * s.every

\* Due: from the last run or the time it was saved, whichever is later.
Due(p) == NextTrigger(p.settings.schedule, Max({p.updatedAt, p.lastRunAt}))

\* Mutant: the Runner does not remember what it started.
SeenStored(r, i, p) == p

\* What tick makes of a policy it has read: a start it remembers counts as a run,
\* even if that could not be written.
Seen(r, i, p) == [p EXCEPT !.lastRunAt = Max({@, started[r][i]})]

\* The enabled policies among those read, with the remembered starts.
Enabled(ps)    == {i \in Id : ps[i] # Nothing /\ ps[i].settings.enabled}
DueNow(r, ps)  == {i \in Enabled(ps) : Due(Seen(r, i, ps[i])) <= now}
Sleep(r, ps)   == Min({MaxSleep} \cup {Due(Seen(r, i, ps[i])) - now : i \in Enabled(ps)})

-----------------------------------------------------------------------------
\* config.json. A write that fails leaves the file alone, or replaces it and
\* fails to sync the directory.

Writes == IF scope.storeFails THEN {"ok", "fail", "committed"} ELSE {"ok"}
Write(result, ps) == policies' = IF result = "fail" THEN policies ELSE ps

\* recordAutoUpdate: a policy that is gone is not recorded on, and a failure is
\* only logged.
Record(i, p) ==
  \E result \in Writes :
    Write(result, IF policies[i] = Nothing THEN policies ELSE [policies EXCEPT ![i] = p])

Cancelled(r) == r < current

-----------------------------------------------------------------------------
\* The Runner of a runtime.

\* Loop wakes up, by its timer or by Wake, and tick reads the policies.
Awake(r) ==
  /\ loop[r].pc = "asleep"
  /\ \/ now >= loop[r].deadline /\ UNCHANGED wake
     \/ r \in wake /\ wake' = wake \ {r}
  /\ \/ loop' = [loop EXCEPT ![r] = [@ EXCEPT !.pc = "tick", !.read = policies, !.missed = FALSE]]
     \/ scope.storeFails /\ loop' = [loop EXCEPT ![r].deadline = now + Retry]
  /\ UNCHANGED <<now, policies, nextId, shown, current, newest, started, run, api>>

\* tick: the first policy that is due is run, otherwise the loop sleeps until the
\* earliest one is.
Tick(r) ==
  /\ loop[r].pc = "tick"
  /\ LET read == loop[r].read
         due  == DueNow(r, read)
     IN  IF Cancelled(r) \/ due = {}
           THEN /\ loop' = [loop EXCEPT ![r] =
                     [Off EXCEPT !.pc = "asleep", !.missed = loop[r].missed,
                                 !.deadline = now + (IF Cancelled(r) THEN MaxSleep ELSE Sleep(r, read))]]
                /\ UNCHANGED <<started, run>>
           ELSE /\ started' = [started EXCEPT ![r][Min(due)] = now]
                /\ run' = [run EXCEPT ![r] =
                     [pc |-> "begin", id |-> Min(due)]]
                /\ loop' = [loop EXCEPT ![r] = [Off EXCEPT !.pc = "busy"]]
  /\ UNCHANGED <<now, policies, nextId, shown, current, newest, wake, api>>

\* Mutant: the timer is not set again after a run.
TickOnce(r) ==
  /\ loop[r].pc = "busy" /\ run[r].pc = "none"
  /\ loop' = [loop EXCEPT ![r] = [Off EXCEPT !.pc = "over"]]
  /\ UNCHANGED <<now, policies, nextId, shown, current, newest, wake, started, run, api>>

\* The run has ended: "re-evaluate everything right away".
TickAgain(r) ==
  /\ loop[r].pc = "busy" /\ run[r].pc = "none"
  /\ loop' = [loop EXCEPT ![r] = [Off EXCEPT !.pc = "asleep", !.deadline = now]]
  /\ UNCHANGED <<now, policies, nextId, shown, current, newest, wake, started, run, api>>

\* Loop sees that its context is done.
LoopEnds(r) ==
  /\ loop[r].pc = "asleep" /\ Cancelled(r)
  /\ loop' = [loop EXCEPT ![r] = [Off EXCEPT !.pc = "over"]]
  /\ started' = [started EXCEPT ![r] = [i \in Id |-> 0]]
  /\ UNCHANGED <<now, policies, nextId, shown, current, newest, wake, run, api>>

Runner(r) == Awake(r) \/ Tick(r) \/ TickAgain(r) \/ LoopEnds(r)

-----------------------------------------------------------------------------
\* runAutoUpdate, for a Runner or for a user.

UnchangedByRun == UNCHANGED <<now, nextId, shown, current, newest, loop, wake, started, api>>

\* handleRunAutoUpdate reads the policy and runs it at once.
RunNow(i) ==
  /\ scope.userRuns /\ run[Manual].pc = "none" /\ policies[i] # Nothing
  /\ run' = [run EXCEPT ![Manual] = [pc |-> "begin", id |-> i]]
  /\ UNCHANGED policies /\ UnchangedByRun

\* The run is recorded before anything else.
Begin(k) ==
  /\ run[k].pc = "begin"
  /\ Record(run[k].id, [policies[run[k].id] EXCEPT !.lastRunAt = now, !.lastStatus = "running"])
  /\ run' = [run EXCEPT ![k].pc = "check"]
  /\ UnchangedByRun

\* autoUpdateContainer decides to update: "the point of no return".
Attempt(k) ==
  /\ run[k].pc = "check"
  /\ Record(run[k].id, [policies[run[k].id] EXCEPT !.lastUpdate = "running"])
  /\ run' = [run EXCEPT ![k].pc = "update"]
  /\ UnchangedByRun

\* Mutant: the result of an update is not recorded.
FinishStatusOnly(k) ==
  /\ run[k].pc \in {"check", "update"}
  /\ Record(run[k].id, [policies[run[k].id] EXCEPT !.lastStatus = "ended"])
  /\ run' = [run EXCEPT ![k] = NoRun]
  /\ UnchangedByRun

\* The check or the update is over and its outcome is recorded.
Finish(k) ==
  /\ run[k].pc \in {"check", "update"}
  /\ Record(run[k].id,
       [policies[run[k].id] EXCEPT
          !.lastStatus = "ended",
          !.lastUpdate = IF run[k].pc = "update" THEN "ended" ELSE @])
  /\ run' = [run EXCEPT ![k] = NoRun]
  /\ UnchangedByRun

RunStep(k) == Begin(k) \/ Attempt(k) \/ Finish(k)

-----------------------------------------------------------------------------
\* Requests. A request stays with the runtime that was current when it came.

UnchangedByApi == UNCHANGED <<now, current, newest, started, run>>
ToWake == [Done EXCEPT !.step = "wake", !.runtime = current]

\* handlePutAutoUpdate: the policy with the ID or the target the browser sends is
\* replaced, or a new one is appended. The browser sends the ID of the policy its
\* list shows for the target, and the list may be out of date.
Put(t, id, s) ==
  /\ api.step = "done"
  /\ id = 0 \/ <<id, t>> \in shown
  /\ \E result \in Writes :
       LET same == {i \in Id : policies[i] # Nothing /\ (i = id \/ policies[i].target = t)}
           i    == IF same = {} THEN nextId ELSE Min(same)
           next == [target |-> t, settings |-> s, updatedAt |-> now, lastUpdate |-> "none",
                    lastRunAt  |-> IF same = {} THEN 0 ELSE policies[i].lastRunAt,
                    lastStatus |-> IF same = {} THEN "none" ELSE policies[i].lastStatus]
       IN  /\ i <= scope.policies
           /\ Write(result, [policies EXCEPT ![i] = next])
           /\ nextId' = IF same = {} THEN nextId + 1 ELSE nextId
           /\ api' = IF result = "ok" THEN ToWake ELSE Done
           /\ shown' = shown \cup (IF result = "fail" THEN {} ELSE {<<i, t>>})
  /\ UNCHANGED <<loop, wake>> /\ UnchangedByApi

\* handleDeleteAutoUpdate
Delete(i) ==
  /\ api.step = "done" /\ policies[i] # Nothing
  /\ \E result \in Writes :
       /\ Write(result, [policies EXCEPT ![i] = Nothing])
       /\ api' = IF result = "ok" THEN ToWake ELSE Done
  /\ UNCHANGED <<nextId, shown, loop, wake>> /\ UnchangedByApi

\* handleContainerRename and handleDeleteContainer (to = "nothing"): the name is
\* looked up only if there is a policy, then the daemon acts.
ChangeContainer(from, to) ==
  /\ api.step = "done" /\ from # to
  /\ \E i \in Id : policies[i] # Nothing
  /\ api' = [step |-> "follow", runtime |-> current, from |-> from, to |-> to]
  /\ UNCHANGED <<policies, nextId, shown, loop, wake>> /\ UnchangedByApi

\* followAutoUpdate
Follow ==
  /\ api.step = "follow"
  /\ LET match == {i \in Id : policies[i] # Nothing /\ policies[i].target = api.from}
         pairs == {<<i, api.to>> : i \in match} \cap (Id \X Target)
         moved == [i \in Id |-> IF i \notin match THEN policies[i]
                                ELSE IF api.to = "nothing" THEN Nothing
                                ELSE [policies[i] EXCEPT !.target = api.to]]
     IN  IF match = {} THEN UNCHANGED <<policies, shown>> /\ api' = Done
         ELSE \E result \in Writes :
                /\ Write(result, moved)
                /\ api' = IF result = "ok" THEN [Done EXCEPT !.step = "wake", !.runtime = api.runtime]
                                           ELSE Done
                /\ shown' = shown \cup (IF result = "fail" THEN {} ELSE pairs)
  /\ UNCHANGED <<nextId, loop, wake>> /\ UnchangedByApi

\* The Runners started since then are not told.
Passed(told) == [r \in Runtime |-> [loop[r] EXCEPT !.missed = @ \/ r \in (told + 1)..newest]]

\* Mutant: the wake channel has no buffer.
WakeUnbuffered ==
  /\ api.step = "wake" /\ api' = Done
  /\ wake' = wake \cup {r \in {api.runtime} : loop[r].pc = "asleep"}
  /\ loop' = Passed(api.runtime)
  /\ UNCHANGED <<policies, nextId, shown>> /\ UnchangedByApi

\* wakeAutoUpdater, of the runtime the request came with: a full channel stays full.
Wake ==
  /\ api.step = "wake" /\ api' = Done
  /\ wake' = wake \cup {api.runtime}
  /\ loop' = Passed(api.runtime)
  /\ UNCHANGED <<policies, nextId, shown>> /\ UnchangedByApi

Request ==
  \/ \E t \in scope.targets, id \in Id \cup {0}, s \in scope.settings : Put(t, id, s)
  \/ \E i \in Id : Delete(i) \/ RunNow(i)
  \/ \E from \in scope.targets, to \in scope.targets \cup {"nothing"} : ChangeContainer(from, to)

-----------------------------------------------------------------------------
\* The process and its surroundings.

\* Mutant: only the last run is marked, not the last update.
InterruptedRunsOnly(ps) ==
  [i \in Id |->
     IF ps[i] = Nothing THEN Nothing
     ELSE [ps[i] EXCEPT !.lastStatus = IF @ = "running" THEN "interrupted" ELSE @]]

\* markInterruptedAutoUpdates
Interrupted(ps) ==
  [i \in Id |->
     IF ps[i] = Nothing THEN Nothing
     ELSE [ps[i] EXCEPT !.lastStatus = IF @ = "running" THEN "interrupted" ELSE @,
                        !.lastUpdate = IF @ = "running" THEN "interrupted" ELSE @]]

\* A new Runner starts with an expired timer.
StartLoop == [Off EXCEPT !.pc = "asleep", !.deadline = now]

\* The process dies at any point and is started again.
Restart ==
  /\ newest < scope.runtimes
  /\ newest' = newest + 1 /\ current' = newest + 1
  /\ \E result \in Writes : Write(result, Interrupted(policies))
  /\ loop' = [r \in Runtime |-> IF r = newest + 1 THEN StartLoop
                                ELSE IF r <= newest THEN [Off EXCEPT !.pc = "over"] ELSE Off]
  /\ wake' = {} /\ started' = [r \in Runtime |-> [i \in Id |-> 0]]
  /\ run' = [k \in Runs |-> NoRun] /\ api' = Done
  /\ UNCHANGED <<now, nextId, shown>>

\* dockerRuntime.reload: newState marks and starts, then current is swapped and the
\* previous runtime cancelled.
NewState ==
  /\ newest < scope.runtimes /\ newest = current
  /\ newest' = newest + 1
  /\ \E result \in Writes : Write(result, Interrupted(policies))
  /\ loop' = [loop EXCEPT ![newest + 1] = StartLoop]
  /\ UNCHANGED <<now, nextId, shown, current, wake, started, run, api>>

Swap ==
  /\ current < newest /\ current' = newest
  /\ UNCHANGED <<now, policies, nextId, shown, newest, loop, wake, started, run, api>>

TimePasses ==
  /\ now < scope.time /\ now' = now + 1
  /\ UNCHANGED <<policies, nextId, shown, volatile>>

Next ==
  /\ \/ \E r \in Runtime : Runner(r)
     \/ \E k \in Runs : RunStep(k)
     \/ Request \/ Follow \/ Wake
     \/ Restart \/ NewState \/ Swap
     \/ TimePasses
  /\ UNCHANGED scope

Spec == Init /\ [][Next]_vars

\* The Runner and its run go on, and requests are carried through; a run ends within
\* autoUpdateTimeout. Time passes.
FairSpec ==
  /\ Spec
  /\ \A r \in Runtime : WF_vars((Runner(r) \/ RunStep(r)) /\ UNCHANGED scope)
  /\ WF_vars(RunStep(Manual) /\ UNCHANGED scope)
  /\ WF_vars((Follow \/ Wake) /\ UNCHANGED scope)
  /\ WF_vars(Swap /\ UNCHANGED scope) /\ WF_vars(TimePasses /\ UNCHANGED scope)

-----------------------------------------------------------------------------
\* "睡到最早到期的策略；保存或删除策略时唤醒它重新计算" (docs/auto-update.md): a Runner
\* that sleeps undisturbed wakes up by the time its earliest policy is due, whatever
\* was saved, deleted, renamed or run since it went to sleep.  One change is lost
\* on it: the change made through the previous runtime during a reload, which is
\* told to the Runner about to end.  A change that could not be written durably is
\* not told at all.
SleepsUntilDue ==
  ~scope.storeFails => \A r \in Runtime :
    loop[r].pc = "asleep" /\ ~Cancelled(r) /\ r \notin wake /\ api.step # "wake" /\ ~loop[r].missed =>
      \A i \in Enabled(policies) : loop[r].deadline <= Max({now, Due(Seen(r, i, policies[i]))})

\* "如果开始时的写入失败，调度器在内存中记住启动时间，不会反复执行同一个策略"
\* (docs/auto-update.md): a Runner starts a policy again only at a trigger that lies
\* after the last start, even when nothing can be written.
OncePerTrigger ==
  [][\A r \in Runtime, i \in Id :
       started'[r][i] > started[r][i] =>
         LET p == loop[r].read[i]
         IN  NextTrigger(p.settings.schedule, Max({p.updatedAt, started[r][i]})) <= now]_vars

\* A policy that says "running" is being run, and one whose last update says so is
\* being updated: a run that died with its process is marked interrupted (unless
\* that cannot be written).
RunningIsReal ==
  ~scope.storeFails => \A i \in Id :
    policies[i] # Nothing =>
      /\ policies[i].lastStatus = "running" =>
           \E k \in Runs : run[k].id = i /\ run[k].pc # "begin"
      /\ policies[i].lastUpdate = "running" =>
           \E k \in Runs : run[k].id = i /\ run[k].pc = "update"

\* "每个目标只有一条" (docs/auto-update.md): no two policies have one target.
\* Not kept: AutoUpdate_twins.cfg.
OnePolicyPerTarget ==
  \A i, j \in Id : policies[i] # Nothing /\ policies[j] # Nothing /\ i # j =>
    policies[i].target # policies[j].target

IsDue(i) == i \in Enabled(policies) /\ Due(policies[i]) <= now

\* A policy that is due is run, saved anew, disabled or deleted, or the Runner starts one
\* that stands before it ("re-evaluate everything right away" begins at the top of the
\* list), and as long as it stays due this is so again and again: the Runner never rests
\* while a policy is due, and the first one of those that are due has its turn.  That
\* the others have theirs does not follow, and is not so: NotOvertaken.  (Not so either
\* if the Runner was not told of the policy, or nothing can be read or written.)
PassedOver(i) == \E j \in 1..(i - 1) : run[current] = [pc |-> "begin", id |-> j]
DueIsRun ==
  \A i \in Id : IsDue(i) ~> ~IsDue(i) \/ PassedOver(i) \/ scope.storeFails \/ loop[current].missed

\* "每 N 小时" (docs/auto-update.md): a policy is not started a second time while another
\* one has been due since before its first start.  Not kept, AutoUpdate_starved.cfg: a
\* run may take the hour after which its policy is due again, and the Runner starts the
\* same one for ever.
NotOvertaken ==
  [][\A r \in Runtime, j \in Id :
       started[r][j] > 0 /\ started'[r][j] > started[r][j] =>
         \A i \in Enabled(loop[r].read) \ {j} :
           Due(Seen(r, i, loop[r].read[i])) > started[r][j]]_vars

\* The state is sound: types, and statuses in config.json that are true.
Sound == TypeOK /\ RunningIsReal
=============================================================================
