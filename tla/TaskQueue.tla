------------------------------ MODULE TaskQueue ------------------------------
(***************************************************************************)
(* frontend/src/stores/taskQueue.ts: the browser's queue of mutating       *)
(* requests. JavaScript runs one event to its end before the next, so the  *)
(* events of a task (its transport answers, the user cancels, a helper is  *)
(* polled, the page reloads) are taken only when no pump is on the stack.  *)
(* pump() itself is modelled step by step, because start() may throw, and  *)
(* then settle() calls pump() again inside the loop of the first pump,     *)
(* whose count of free slots and set of busy keys were taken before.       *)
(*                                                                         *)
(* Progress lines, notes, layers, titles and toasts are left out. What     *)
(* meta.self and meta.verb decide when a connection drops is a choice of   *)
(* the event. Tasks are numbered in the order they are enqueued, which is  *)
(* their order in tasks.list and in storage: both are sets here.  A second *)
(* window of the same browser shares the storage, where the last write     *)
(* wins; a write may also be refused (quota, private mode).                *)
(***************************************************************************)
EXTENDS Naturals, FiniteSets, SequencesExt

CONSTANTS
  MaxTasks,       \* bound on the tasks ever enqueued
  MaxReloads,     \* bound on page reloads
  MaxMishaps,     \* bound on writes refused and on events of the other window
  Worlds,         \* what is used up of these bounds when the page is first loaded
  Keys, NoKey,
  Kinds,          \* the kinds of tasks enqueued, out of "xhr" and "browser"
  MaxConcurrent,  \* MAX_CONCURRENT
  MaxStored       \* MAX_STORED

ASSUME QueueAssumption ==
  /\ MaxTasks \in Nat /\ MaxReloads \in Nat /\ MaxMishaps \in Nat
  /\ Worlds \subseteq [nextId : 1..(MaxTasks + 1), reloads : 0..MaxReloads, mishaps : 0..MaxMishaps]
  /\ MaxConcurrent \in Nat \ {0} /\ MaxStored \in Nat \ {0}
  /\ NoKey \notin Keys
  /\ Kinds \subseteq {"xhr", "browser"}

Task   == 1..MaxTasks
Active == {"queued", "running"}
Final  == {"done", "error", "cancelled"}
Status == {"none"} \cup Active \cup Final \cup {"interrupted"}

VARIABLES
  list,      \* tasks.list: the tasks kept in memory
  status,
  key,       \* the task's key, or NoKey
  kind,      \* "xhr", or "browser" for a task driven by an AbortController
  net,       \* its transport: "none", "open", "aborting" or "closed"
  watched,   \* tasks whose helper or restart is being polled for
  answered,  \* tasks whose enqueue().done promise has been resolved
  frames,    \* the pumps under way, the innermost last
  stored,    \* what localStorage holds: the status of each task in it
  other,     \* tasks.list of the other window, with the status of each task
  current,   \* ghost: storage holds what this window last wrote or loaded
  mishaps,
  nextId, reloads,
  first,     \* ghost: nextId when the page was loaded
  suspended, \* suspendPump
  toCancel,  \* the ids cancelActiveTasks() has yet to cancel
  retired    \* ghost: tasks that existed when the Docker server was switched

tasksVars   == <<list, status, key, kind, net, watched, answered>>
storageVars == <<stored, other, current, mishaps>>
pageVars    == <<nextId, reloads, first>>
switchVars  == <<suspended, toCancel, retired>>
vars        == <<tasksVars, frames, storageVars, pageVars, switchVars>>

Kept == Status \ {"none"}

TypeOK ==
  /\ list \subseteq Task
  /\ status \in [Task -> Status]
  /\ key \in [Task -> Keys \cup {NoKey}]
  /\ kind \in [Task -> {"xhr", "browser"}]
  /\ net \in [Task -> {"none", "open", "aborting", "closed"}]
  /\ watched \subseteq Task
  /\ answered \subseteq Task
  /\ DOMAIN stored \subseteq Task /\ stored \in [DOMAIN stored -> Kept]
  /\ DOMAIN other \subseteq Task /\ other \in [DOMAIN other -> Kept]
  /\ current \in BOOLEAN /\ mishaps \in 0..MaxMishaps
  /\ frames \in Seq([slots: 0..MaxConcurrent, busy: SUBSET Keys, left: SUBSET Task])
  /\ nextId \in 1..(MaxTasks + 1) /\ first \in 1..(MaxTasks + 1) /\ reloads \in 0..MaxReloads
  /\ suspended \in BOOLEAN /\ toCancel \subseteq Task
  /\ retired \subseteq Task

\* nextId is Date.now(): a page may start with any number.
Init ==
  /\ \E w \in Worlds :
       nextId = w.nextId /\ first = w.nextId /\ reloads = w.reloads /\ mishaps = w.mishaps
  /\ list = {}
  /\ status = [t \in Task |-> "none"]
  /\ key = [t \in Task |-> NoKey]
  /\ kind = [t \in Task |-> "xhr"]
  /\ net = [t \in Task |-> "none"]
  /\ watched = {}
  /\ answered = {} /\ frames = <<>>
  /\ stored = [t \in {} |-> "none"] /\ other = stored
  /\ current = TRUE
  /\ suspended = FALSE /\ toCancel = {} /\ retired = {}

-----------------------------------------------------------------------------
Is(s) == {t \in list : status[t] \in s}
Idle  == frames = <<>> /\ ~suspended

\* What persist() writes: the newest MaxStored tasks with their status.
Newest(l) == {t \in l : Cardinality({u \in l : u > t}) < MaxStored}
Persisted(l, st) == [t \in Newest(l) |-> st[t]]

\* persist(). A write that is refused is ignored, and leaves what storage held.
Persist(l, st) ==
  /\ \/ stored' = Persisted(l, st) /\ current' = TRUE /\ UNCHANGED mishaps
     \/ /\ mishaps < MaxMishaps /\ mishaps' = mishaps + 1
        /\ current' = FALSE /\ UNCHANGED stored
  /\ UNCHANGED other

\* load(): what was active when the page went away is interrupted.
Loaded(s) == [t \in DOMAIN s |-> IF s[t] \in Active THEN "interrupted" ELSE s[t]]

\* Mutant: pump() forgets the keys of the running tasks.
NewFrameUnkeyed(l, st) ==
  LET running == {t \in l : st[t] = "running"}
  IN  [slots |-> IF Cardinality(running) >= MaxConcurrent THEN 0
                 ELSE MaxConcurrent - Cardinality(running),
       busy  |-> {}, left |-> l]

\* The start of pump(): free slots and busy keys are read once, and every task is gone
\* through.
NewFrame(l, st) ==
  LET running == {t \in l : st[t] = "running"}
  IN  [slots |-> IF Cardinality(running) >= MaxConcurrent THEN 0
                 ELSE MaxConcurrent - Cardinality(running),
       busy  |-> {key[t] : t \in running} \ {NoKey},
       left  |-> l]

\* Mutant: settle() does not persist.
SettleUnsaved(t, s) ==
  /\ status[t] \in Active
  /\ status' = [status EXCEPT ![t] = s]
  /\ net' = [net EXCEPT ![t] = "none"]
  /\ answered' = answered \cup {t}
  /\ frames' = IF suspended THEN frames ELSE Append(frames, NewFrame(list, status'))
  /\ UNCHANGED storageVars

\* Mutant: settle() leaves the queue as it is.
SettleQuietly(t, s) ==
  /\ status[t] \in Active
  /\ status' = [status EXCEPT ![t] = s]
  /\ net' = [net EXCEPT ![t] = "none"]
  /\ answered' = answered \cup {t}
  /\ Persist(list, status')
  /\ UNCHANGED frames

\* Mutant: settle() pumps although the pump is suspended.
SettlePumping(t, s) ==
  /\ status[t] \in Active
  /\ status' = [status EXCEPT ![t] = s]
  /\ net' = [net EXCEPT ![t] = "none"]
  /\ answered' = answered \cup {t}
  /\ Persist(list, status')
  /\ frames' = Append(frames, NewFrame(list, status'))

\* settle(): only an active task, its transport is forgotten, the promise is
\* resolved, and unless pump is suspended the queue is pumped.
Settle(t, s) ==
  /\ status[t] \in Active
  /\ status' = [status EXCEPT ![t] = s]
  /\ net' = [net EXCEPT ![t] = "none"]
  /\ answered' = answered \cup {t}
  /\ Persist(list, status')
  /\ frames' = IF suspended THEN frames ELSE Append(frames, NewFrame(list, status'))

-----------------------------------------------------------------------------
\* pump(), one task of the loop at a time.

Top == frames[Len(frames)]

\* The task the loop has come to.
Comes(t) == t \in Top.left /\ \A u \in Top.left : t <= u

Startable(t) == status[t] = "queued" /\ (key[t] # NoKey => key[t] \notin Top.busy)

Passed(t) == [Top EXCEPT !.left = @ \ {t}]
\* The frame after t has been given a slot.
Granted(t) == [slots |-> Top.slots - 1,
               busy  |-> Top.busy \cup ({key[t]} \ {NoKey}),
               left  |-> Top.left \ {t}]

PumpReturns ==
  /\ frames # <<>>
  /\ Top.slots = 0 \/ Top.left = {}
  /\ frames' = Front(frames)
  /\ UNCHANGED <<tasksVars, storageVars, pageVars, switchVars>>

PumpSkips(t) ==
  /\ frames # <<>> /\ Top.slots > 0 /\ Comes(t)
  /\ ~Startable(t)
  /\ frames' = [frames EXCEPT ![Len(frames)] = Passed(t)]
  /\ UNCHANGED <<tasksVars, storageVars, pageVars, switchVars>>

\* start() opens the transport.
PumpStarts(t) ==
  /\ frames # <<>> /\ Top.slots > 0 /\ Comes(t)
  /\ Startable(t)
  /\ status' = [status EXCEPT ![t] = "running"]
  /\ net' = [net EXCEPT ![t] = "open"]
  /\ Persist(list, status')
  /\ frames' = [frames EXCEPT ![Len(frames)] = Granted(t)]
  /\ UNCHANGED <<list, key, kind, watched, answered, pageVars, switchVars>>

\* Mutant: pump() does not catch what start() throws.
PumpThrows(t) ==
  /\ frames # <<>> /\ Top.slots > 0 /\ Comes(t)
  /\ Startable(t)
  /\ kind[t] = "xhr"
  /\ status' = [status EXCEPT ![t] = "running"]
  /\ Persist(list, status')
  /\ frames' = <<>>
  /\ UNCHANGED <<list, key, kind, net, watched, answered, pageVars, switchVars>>

\* start() throws; settle() pumps again from within the loop.
PumpFails(t) ==
  /\ frames # <<>> /\ Top.slots > 0 /\ Comes(t)
  /\ Startable(t)
  /\ kind[t] = "xhr"
  /\ status' = [status EXCEPT ![t] = "error"]
  /\ answered' = answered \cup {t}
  /\ Persist(list, status')
  /\ frames' = Append([frames EXCEPT ![Len(frames)] = Granted(t)], NewFrame(list, status'))
  /\ UNCHANGED <<list, key, kind, net, watched, pageVars, switchVars>>

Pump == PumpReturns \/ \E t \in Task : PumpSkips(t) \/ PumpStarts(t) \/ PumpFails(t)

-----------------------------------------------------------------------------
\* The user's side.

\* enqueue() drops the oldest finished tasks beyond MaxStored, never active ones.
Trimmed(l, st) ==
  LET overflow == IF Cardinality(l) > MaxStored THEN Cardinality(l) - MaxStored ELSE 0
      ended    == {t \in l : st[t] \notin Active}
  IN  l \ {t \in ended : Cardinality({u \in ended : u <= t}) <= overflow}

Enqueue(k, how) ==
  /\ Idle /\ nextId <= MaxTasks
  /\ nextId' = nextId + 1
  /\ status' = [status EXCEPT ![nextId] = "queued"]
  /\ key' = [key EXCEPT ![nextId] = k]
  /\ kind' = [kind EXCEPT ![nextId] = how]
  /\ list' = Trimmed(list \cup {nextId}, status')
  /\ Persist(list', status')
  /\ frames' = <<NewFrame(list', status')>>
  /\ UNCHANGED <<net, watched, answered, reloads, first, switchVars>>

\* cancel() of a queued task settles it; a running one is aborted. abort() of an
\* XMLHttpRequest whose exchange is over fires no event and so does nothing; a
\* browser task settles when its promise rejects.
Cancelled(t) ==
  /\ t \in list /\ status[t] \in Active
  /\ \/ /\ status[t] = "queued"
        /\ Settle(t, "cancelled") /\ UNCHANGED watched
     \/ /\ status[t] = "running" /\ kind[t] = "xhr" /\ net[t] = "open"
        /\ Settle(t, "cancelled")
        /\ watched' = watched \ {t}
     \/ /\ status[t] = "running" /\ kind[t] = "xhr" /\ net[t] = "closed"
        /\ UNCHANGED <<status, net, watched, answered, storageVars, frames>>
     \/ /\ status[t] = "running" /\ kind[t] = "browser"
        /\ net' = [net EXCEPT ![t] = "aborting"]
        /\ UNCHANGED <<status, watched, answered, storageVars, frames>>
  /\ UNCHANGED <<list, key, kind, pageVars>>

Cancel(t) == Idle /\ Cancelled(t) /\ UNCHANGED switchVars

\* cancelActiveTasks(): with pump suspended each active task is cancelled, then the
\* queue is pumped. Called when the Docker server is switched and at logout.
CancelActive ==
  /\ Idle /\ Is(Active) # {}
  /\ suspended' = TRUE /\ toCancel' = Is(Active)
  /\ retired' = 1..(nextId - 1)
  /\ UNCHANGED <<tasksVars, frames, storageVars, pageVars>>

CancelsNext(t) ==
  /\ suspended /\ frames = <<>>
  /\ t \in toCancel /\ \A u \in toCancel : t <= u
  /\ toCancel' = toCancel \ {t}
  /\ Cancelled(t)
  /\ UNCHANGED <<suspended, retired>>

CancelsEnd ==
  /\ suspended /\ frames = <<>> /\ toCancel = {}
  /\ suspended' = FALSE
  /\ frames' = <<NewFrame(list, status)>>
  /\ UNCHANGED <<tasksVars, storageVars, pageVars, toCancel, retired>>

Cancelling == CancelsEnd \/ \E t \in Task : CancelsNext(t)

\* remove()
Forget(t) ==
  /\ Idle /\ t \in list /\ status[t] \notin Active
  /\ list' = list \ {t}
  /\ Persist(list', status)
  /\ UNCHANGED <<status, key, kind, net, watched, answered, frames, pageVars, switchVars>>

ClearFinished ==
  /\ Idle
  /\ list' = Is(Active)
  /\ Persist(list', status)
  /\ UNCHANGED <<status, key, kind, net, watched, answered, frames, pageVars, switchVars>>

\* The page is loaded again, and its list is what storage holds: tasks storage does not
\* hold are gone, and those of the other window are there.
Reload ==
  /\ Idle /\ reloads < MaxReloads
  /\ reloads' = reloads + 1
  /\ list' = DOMAIN stored
  /\ status' = [t \in Task |-> IF t \in DOMAIN stored THEN Loaded(stored)[t] ELSE "none"]
  /\ net' = [t \in Task |-> "none"] /\ watched' = {}
  /\ first' = nextId /\ current' = TRUE
  /\ UNCHANGED <<key, kind, answered, stored, other, mishaps, frames, nextId, switchVars>>

-----------------------------------------------------------------------------
\* The other window, which runs the same program: what it loads and writes.

\* It persists the list o.
OtherWrites(o) ==
  /\ mishaps < MaxMishaps /\ mishaps' = mishaps + 1
  /\ other' = o
  /\ stored' = Persisted(DOMAIN o, o) /\ current' = FALSE
  /\ UNCHANGED <<tasksVars, frames, reloads, first, switchVars>>

OtherLoads ==
  /\ mishaps < MaxMishaps /\ mishaps' = mishaps + 1
  /\ other' = Loaded(stored)
  /\ UNCHANGED <<tasksVars, frames, stored, current, pageVars, switchVars>>

OtherEnqueues ==
  /\ nextId <= MaxTasks /\ nextId' = nextId + 1
  /\ LET st == [t \in DOMAIN other \cup {nextId} |-> IF t = nextId THEN "queued" ELSE other[t]]
     IN  OtherWrites([t \in Trimmed(DOMAIN st, st) |-> st[t]])

\* A task of the other window is started or settled.
OtherMoves(t) ==
  /\ t \in DOMAIN other /\ other[t] \in Active
  /\ \E s \in Final \cup {"running"} : OtherWrites([other EXCEPT ![t] = s])
  /\ UNCHANGED nextId

OtherClears ==
  /\ OtherWrites([t \in {u \in DOMAIN other : other[u] \in Active} |-> other[t]])
  /\ UNCHANGED nextId

Others == OtherLoads \/ OtherEnqueues \/ OtherClears \/ \E t \in Task : OtherMoves(t)

-----------------------------------------------------------------------------
\* The transports' side.

\* The stream hands the operation to the helper container: polling begins.
HandOff(t) ==
  /\ Idle /\ status[t] = "running" /\ kind[t] = "xhr" /\ net[t] = "open" /\ t \notin watched
  /\ watched' = watched \cup {t}
  /\ UNCHANGED <<list, status, key, kind, net, answered, storageVars, frames, pageVars, switchVars>>

\* onload or onerror. After a handoff the helper's result decides. A connection
\* lost by an operation on phyless itself means success when it stops, and
\* polling when it restarts.
Disconnect(t) ==
  /\ Idle /\ status[t] = "running" /\ kind[t] = "xhr" /\ net[t] = "open"
  /\ \/ /\ t \notin watched
        /\ \E s \in {"done", "error"} : Settle(t, s)
        /\ UNCHANGED watched
     \/ /\ watched' = watched \cup {t}
        /\ net' = [net EXCEPT ![t] = "closed"]
        /\ UNCHANGED <<status, answered, storageVars, frames>>
  /\ UNCHANGED <<list, key, kind, pageVars, switchVars>>

\* consumeResponse() gives up on a response beyond MAX_PROGRESS_RESPONSE.
TooLarge(t) ==
  /\ Idle /\ status[t] = "running" /\ kind[t] = "xhr" /\ net[t] = "open"
  /\ Settle(t, "error")
  /\ watched' = watched \ {t}
  /\ UNCHANGED <<list, key, kind, pageVars, switchVars>>

\* awaitHelper or awaitRestart ends: the task settles and the request is aborted.
WatchEnds(t) ==
  /\ Idle /\ status[t] = "running" /\ t \in watched
  /\ \E s \in {"done", "error"} : Settle(t, s)
  /\ watched' = watched \ {t}
  /\ UNCHANGED <<list, key, kind, pageVars, switchVars>>

\* The promise of a browser task ends. An aborted one may still have succeeded.
BrowserEnds(t) ==
  /\ Idle /\ status[t] = "running" /\ kind[t] = "browser"
  /\ \E s \in {"done", IF net[t] = "aborting" THEN "cancelled" ELSE "error"} : Settle(t, s)
  /\ UNCHANGED <<list, key, kind, watched, pageVars, switchVars>>

Transport(t) == HandOff(t) \/ Disconnect(t) \/ TooLarge(t) \/ WatchEnds(t) \/ BrowserEnds(t)

Next ==
  \/ Pump
  \/ \E k \in Keys \cup {NoKey}, how \in Kinds : Enqueue(k, how)
  \/ CancelActive \/ Cancelling \/ ClearFinished \/ Reload \/ Others
  \/ \E t \in Task : Cancel(t) \/ Forget(t) \/ Transport(t)

Spec == Init /\ [][Next]_vars

\* The loops of pump() and cancelActiveTasks() run on, every exchange ends, and polling is limited to ten
\* minutes. Nobody has to enqueue, cancel or reload.
FairSpec ==
  /\ Spec
  /\ WF_vars(Pump) /\ WF_vars(Cancelling)
  /\ \A t \in Task : WF_vars(Disconnect(t)) /\ WF_vars(WatchEnds(t)) /\ WF_vars(BrowserEnds(t))

-----------------------------------------------------------------------------
\* "tasks sharing a key run one at a time in FIFO order; different keys run
\* concurrently up to MAX_CONCURRENT" (taskQueue.ts), also while a pump runs
\* inside the loop of another one.
Pool == INSTANCE KeyedPool WITH
  Work <- Task, Capacity <- MaxConcurrent, keyOf <- key,
  waiting <- Is({"queued"}),
  running <- Is({"running"})

Keyed == Pool!Spec

\* No slot stays free while a task could use it: once pump is over, a queued task
\* waits for a slot or for its key.
NoIdleSlot ==
  Idle /\ Cardinality(Is({"running"})) < MaxConcurrent =>
    \A t \in Is({"queued"}) :
      key[t] # NoKey /\ \E r \in Is({"running"}) : key[r] = key[t]

\* A caller of enqueue() hears of its task exactly when the task has ended, and no task
\* that is active is dropped from the list.
EndedOnce ==
  /\ \A t \in Task : t >= first => (status[t] \in Final <=> t \in answered)
  /\ \A t \in Task : status[t] \in Active => t \in list

\* "Persistence: localStorage, status transitions only" (taskQueue.ts): as long as no
\* write is refused and no other window writes, a page loaded again has the newest
\* tasks, every finished one as it finished and every other one interrupted. Come
\* what may, no task of this page comes back with an end it has not come to.
HistoryCurrent ==
  /\ current => Loaded(stored) = Loaded(Persisted(list, status))
  /\ \A t \in DOMAIN stored :
       t >= first /\ status[t] # "none" /\ stored[t] \in Final => status[t] = stored[t]

\* "A Docker server switch must not let old queued work start against the new daemon"
\* (taskQueue.ts): no task of before the switch is started after it, and once it is
\* cancelled it neither waits for its start nor has a request open.
NoOldWork ==
  /\ [](\A t \in retired \ toCancel : status[t] # "queued" /\ (kind[t] = "xhr" => net[t] # "open"))
  /\ [][\A t \in retired : status[t] = "queued" => status'[t] # "running"]_vars

\* A queued task does not wait for ever: it is started, cancelled or fails.
QueuedMovesOn == \A t \in Task : status[t] = "queued" ~> status[t] # "queued"

\* The books of the queue are right after every event: types, callers and the slots
\* pump() left free.
Sound == TypeOK /\ EndedOnce /\ NoIdleSlot
=============================================================================
