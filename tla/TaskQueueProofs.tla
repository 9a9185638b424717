-------------------------- MODULE TaskQueueProofs --------------------------
(***************************************************************************)
(* Theorems about TaskQueue, for any number of tasks, keys, slots and      *)
(* reloads: the books of the queue are right after every event, what a     *)
(* page loaded again finds is no invention, whatever writes were refused   *)
(* and whatever another window wrote, no old work is left after a switch   *)
(* of the Docker server, and the queue does what KeyedPool promises.       *)
(*                                                                         *)
(* What is hard to see is why a pump inside the loop of another one does   *)
(* no harm: the outer pump goes on with a count of slots and a set of keys *)
(* that are out of date.  The invariant Pumping says that it will start    *)
(* nothing any more (Spent), because one event frees one slot or the tasks *)
(* of one key (OneStart), and the outer pump has used that up before the   *)
(* inner one begins.                                                       *)
(*                                                                         *)
(* After these, theorems about BrowserPull, the work of one task of the    *)
(* queue that downloads with the browser, and about PollingResource, the   *)
(* stores that hear of every task that settles.                            *)
(***************************************************************************)
EXTENDS TaskQueue, BrowserPull, PollingResource, FiniteSetTheorems, SequenceTheorems,
        WellFoundedInduction, TLAPS

Running == Is({"running"})
Queued  == Is({"queued"})
Frame   == [slots: 0..MaxConcurrent, busy: SUBSET Keys, left: SUBSET Task]

\* The keys of what runs.
RunningKeys == {key[t] : t \in Running} \ {NoKey}

Blocked(t, busy) == key[t] # NoKey /\ key[t] \in busy

\* Nothing can be started: no slot is free, or every queued task waits for its key.
Quiet == Cardinality(Running) >= MaxConcurrent \/ \A t \in Queued : Blocked(t, RunningKeys)

\* A pump that will start nothing any more.
Spent(f) == f.slots = 0 \/ \A t \in f.left \cap Queued : Blocked(t, f.busy)

\* A pump can start one task, or several of one key, the first of which blocks the others.
OneStart(f) ==
  f.slots <= 1 \/ \A t, u \in Queued : \/ t = u
                                       \/ Blocked(t, f.busy) \/ Blocked(u, f.busy)
                                       \/ key[t] # NoKey /\ key[t] = key[u]

\* A pump whose count and keys are those of the queue.
Exact(f) ==
  /\ f.slots + Cardinality(Running) = MaxConcurrent /\ f.busy = RunningKeys
  /\ \A t \in Queued : t \in f.left \/ Blocked(t, f.busy)
  /\ OneStart(f)

Pumping ==
  /\ Cardinality(Running) <= MaxConcurrent
  /\ \A i \in 1..Len(frames) : i < Len(frames) => Spent(frames[i])
  /\ frames # <<>> => Exact(Top) \/ (Spent(Top) /\ Quiet)
  /\ frames = <<>> => Quiet \/ suspended
  /\ suspended => frames = <<>>

Books ==
  /\ EndedOnce
  /\ \A t \in list : status[t] # "none"
  /\ \A t \in Task : t >= nextId => status[t] = "none"
  /\ first <= nextId

Opens == \A t \in Task : net[t] = "open" => status[t] = "running"

\* No end in the list of a window is one that a task of this page has not come to.
Truthful(s) ==
  \A t \in DOMAIN s : t >= first /\ status[t] # "none" /\ s[t] \in Final => status[t] = s[t]

\* What a list of the other window says: its active tasks are its own.
OtherTrue(o) ==
  /\ Truthful(o)
  /\ \A t \in DOMAIN o : t < nextId
  /\ \A t \in DOMAIN o : o[t] \in Active => t < first \/ status[t] = "none"

History ==
  /\ HistoryCurrent
  /\ \A t \in DOMAIN stored : t < nextId
  /\ Newest(DOMAIN stored) = DOMAIN stored
  /\ OtherTrue(other)

\* The work of before the switch: what is not cancelled is still to be cancelled.
Old ==
  /\ retired \subseteq 1..(nextId - 1)
  /\ \A t \in retired \ toCancel : status[t] # "queued" /\ (kind[t] = "xhr" => net[t] # "open")
  /\ suspended => Queued \subseteq toCancel
  /\ ~suspended => toCancel = {}

StorageTyped ==
  /\ DOMAIN stored \subseteq Task /\ stored \in [DOMAIN stored -> Kept]
  /\ DOMAIN other \subseteq Task /\ other \in [DOMAIN other -> Kept]
  /\ current \in BOOLEAN /\ mishaps \in 0..MaxMishaps

QueueInv == TypeOK /\ Books /\ Opens /\ History /\ Old /\ Pumping
-----------------------------------------------------------------------------
(* Sets of tasks, what is persisted, and the frame of a new pump.          *)

LEMMA FiniteTasks ==
  ASSUME NEW S \in SUBSET Task
  PROVE  IsFiniteSet(S) /\ Cardinality(S) \in Nat
<1>1. IsFiniteSet(Task)
  BY FS_Interval, QueueAssumption DEF Task
<1> QED
  BY <1>1, FS_Subset, FS_CardinalityType

\* A set loses a member of another: it is not larger, and smaller by one if it was in it.
LEMMA OneLess ==
  ASSUME NEW S \in SUBSET Task, NEW t
  PROVE  Cardinality(S \ {t}) = IF t \in S THEN Cardinality(S) - 1 ELSE Cardinality(S)
<1> QED
  BY FiniteTasks, FS_RemoveElement

LEMMA OneMore ==
  ASSUME NEW S \in SUBSET Task, NEW t, t \notin S
  PROVE  Cardinality(S \cup {t}) = Cardinality(S) + 1
<1> QED
  BY FiniteTasks, FS_AddElement

LEMMA NotMore ==
  ASSUME NEW S \in SUBSET Task, NEW T \in SUBSET S
  PROVE  Cardinality(T) <= Cardinality(S)
<1> QED
  BY FiniteTasks, FS_Subset

\* Tasks that come from storage all fit in it.
LEMMA KeptAgain ==
  ASSUME NEW l \in SUBSET Task
  PROVE  Newest(Newest(l)) = Newest(l)
<1>1. PICK kept \in SUBSET l : kept = Newest(l)
  BY DEF Newest
<1>2. ASSUME NEW t \in kept PROVE Cardinality({u \in kept : u > t}) < MaxStored
  <2>1. PICK s, r : s = {u \in l : u > t} /\ r = {u \in kept : u > t}
    OBVIOUS
  <2>2. s \in SUBSET Task /\ r \in SUBSET s
    BY <2>1
  <2>3. Cardinality(r) <= Cardinality(s) /\ Cardinality(r) \in Nat /\ Cardinality(s) \in Nat
    BY <2>2, NotMore, FiniteTasks
  <2>4. Cardinality(s) < MaxStored
    BY <1>1, <2>1 DEF Newest
  <2> QED
    BY <2>1, <2>3, <2>4, QueueAssumption
<1>3. Newest(kept) = kept
  BY <1>2 DEF Newest
<1> QED
  BY <1>1, <1>3

\* What is written: some of the tasks, each with its status.
LEMMA PersistedIs ==
  ASSUME NEW l \in SUBSET Task, NEW st, \A t \in l : st[t] \in Kept
  PROVE  /\ DOMAIN Persisted(l, st) = Newest(l) /\ Newest(l) \subseteq l
         /\ \A t \in Newest(l) : Persisted(l, st)[t] = st[t]
         /\ Persisted(l, st) \in [DOMAIN Persisted(l, st) -> Kept]
         /\ Newest(DOMAIN Persisted(l, st)) = DOMAIN Persisted(l, st)
<1>1. PICK kept : kept = Newest(l)
  OBVIOUS
<1>2. Persisted(l, st) = [t \in kept |-> st[t]]
  BY <1>1 DEF Persisted
<1>3. kept \subseteq l
  BY <1>1 DEF Newest
<1>4. [t \in kept |-> st[t]] \in [kept -> Kept] /\ DOMAIN [t \in kept |-> st[t]] = kept
  BY <1>3
<1>5. Newest(kept) = kept
  BY <1>1, KeptAgain
<1> QED
  BY <1>1, <1>2, <1>3, <1>4, <1>5

\* What an event leaves of the statuses: an end stays, and no task appears that is not new.
EndsStay ==
  \A t \in Task : t < nextId => /\ (status[t] \in Final => status'[t] = status[t])
                               /\ (status'[t] # "none" => status[t] # "none")

\* The other window's list and what it says stay true.
LEMMA OtherStays ==
  ASSUME TypeOK, OtherTrue(other), EndsStay, first' = first, nextId' >= nextId, nextId' \in Nat, other' = other
  PROVE  OtherTrue(other)'
<1>1. \A t \in DOMAIN other : t \in Task /\ t < nextId /\ t \in Nat
  BY DEF TypeOK, OtherTrue, Task
<1>2. nextId \in Nat
  BY DEF TypeOK
<1>3. Truthful(other)'
  BY <1>1 DEF Truthful, OtherTrue, EndsStay
<1>4. \A t \in DOMAIN other : t < nextId'
  BY <1>1, <1>2
<1>5. \A t \in DOMAIN other : other[t] \in Active => t < first \/ status'[t] = "none"
  BY <1>1 DEF OtherTrue, EndsStay
<1> QED
  BY <1>3, <1>4, <1>5 DEF OtherTrue

\* An event that persists leaves storage up to date, or as it was.
LEMMA SavedIsCurrent ==
  ASSUME TypeOK, History, EndsStay, first' = first, nextId' >= nextId, nextId' \in Nat,
         list' \subseteq Task, status' \in [Task -> Status],
         \A t \in list' : status'[t] # "none" /\ t < nextId',
         Persist(list', status')
  PROVE  StorageTyped' /\ History'
<1>1. \A t \in list' : status'[t] \in Kept
  BY DEF Kept
<1>2. PICK l, st : l = list' /\ st = status'
  OBVIOUS
<1>3. PICK p : p = Persisted(l, st)
  OBVIOUS
<1>4. /\ DOMAIN p = Newest(l) /\ Newest(l) \subseteq l /\ \A t \in Newest(l) : p[t] = st[t]
      /\ p \in [DOMAIN p -> Kept] /\ Newest(DOMAIN p) = DOMAIN p
  BY <1>1, <1>2, <1>3, PersistedIs
<1>5. other' = other /\ OtherTrue(other)'
  BY OtherStays DEF History, Persist
<1>6. CASE stored' = Persisted(list', status') /\ current' = TRUE /\ mishaps' = mishaps
  <2>1. stored' = p
    BY <1>2, <1>3, <1>6
  <2>2. HistoryCurrent'
    BY <1>2, <1>3, <1>4, <2>1 DEF HistoryCurrent
  <2>3. StorageTyped'
    BY <1>2, <1>4, <1>5, <1>6, <2>1 DEF StorageTyped, TypeOK
  <2> QED
    BY <1>2, <1>4, <1>5, <2>1, <2>2, <2>3 DEF History
<1>7. CASE mishaps < MaxMishaps /\ mishaps' = mishaps + 1 /\ current' = FALSE /\ stored' = stored
  <2>1. StorageTyped'
    <3>1. mishaps' \in 0..MaxMishaps
      BY <1>7, QueueAssumption DEF TypeOK
    <3> QED
      BY <1>5, <1>7, <3>1 DEF StorageTyped, TypeOK
  <2>2. \A t \in DOMAIN stored : t \in Task /\ t < nextId /\ t \in Nat
    BY DEF TypeOK, History, Task
  <2>3. \A t \in DOMAIN stored : t < nextId'
    BY <2>2 DEF TypeOK
  <2>4. HistoryCurrent'
    BY <1>7, <2>2 DEF HistoryCurrent, History, EndsStay
  <2> QED
    BY <1>5, <1>7, <2>1, <2>3, <2>4 DEF History
<1> QED
  BY <1>6, <1>7 DEF Persist

\* An event that touches neither the storage nor the tasks.
LEMMA StorageStays ==
  ASSUME QueueInv, UNCHANGED <<list, status, stored, other, current, mishaps, first, nextId>>
  PROVE  StorageTyped' /\ History'
<1>1. StorageTyped'
  BY DEF QueueInv, TypeOK, StorageTyped
<1>2. HistoryCurrent'
  BY DEF QueueInv, History, HistoryCurrent, Persisted
<1>3. OtherTrue(other)'
  BY DEF QueueInv, History, OtherTrue, Truthful
<1> QED
  BY <1>1, <1>2, <1>3 DEF QueueInv, History

\* A new pump's frame counts what runs then.
LEMMA NewFrameIs ==
  ASSUME key \in [Task -> Keys \cup {NoKey}], list' \subseteq Task,
         \A t \in Running' : key'[t] = key[t],
         Cardinality(Running') <= MaxConcurrent, NEW f, f = NewFrame(list', status')
  PROVE  /\ f \in Frame /\ f.left = list' /\ f.busy = RunningKeys'
         /\ f.slots + Cardinality(Running') = MaxConcurrent
<1>1. PICK running : running = Running'
  OBVIOUS
<1>2. {t \in list' : status'[t] = "running"} = running
  BY <1>1 DEF Running, Is
<1>3. running \subseteq Task
  BY <1>2
<1>4. Cardinality(running) \in Nat /\ Cardinality(running) <= MaxConcurrent
  BY <1>1, <1>3, FiniteTasks
<1>5. PICK busy : busy = {key[t] : t \in running} \ {NoKey}
  OBVIOUS
<1>6. busy \in SUBSET Keys
  BY <1>3, <1>5
<1>7. busy = RunningKeys'
  BY <1>1, <1>5 DEF RunningKeys
<1>8. PICK slots : slots = MaxConcurrent - Cardinality(running)
  OBVIOUS
<1>9. slots \in 0..MaxConcurrent /\ slots + Cardinality(running) = MaxConcurrent
  BY <1>4, <1>8, QueueAssumption
<1>10. f = [slots |-> slots, busy |-> busy, left |-> list']
  <2>1. (IF Cardinality(running) >= MaxConcurrent THEN 0 ELSE MaxConcurrent - Cardinality(running)) = slots
    BY <1>4, <1>8, QueueAssumption
  <2> QED
    BY <1>2, <1>5, <2>1 DEF NewFrame
<1> QED
  BY <1>1, <1>6, <1>7, <1>9, <1>10 DEF Frame
-----------------------------------------------------------------------------
(* The stack of pumps.                                                     *)

LEMMA QueueSets ==
  ASSUME TypeOK
  PROVE  Running \in SUBSET Task /\ Queued \in SUBSET Task /\ Cardinality(Running) \in Nat
<1> QED
  BY FiniteTasks DEF Running, Queued, Is, TypeOK

\* The pump of an event that leaves one pump on the stack.
LEMMA FirstPump ==
  ASSUME NEW f, frames' = << f >>, Exact(f)', ~suspended', Cardinality(Running') <= MaxConcurrent
  PROVE  Pumping'
<1>1. Len(frames') = 1 /\ Top' = f /\ frames' # <<>>
  BY DEF Top
<1> QED
  BY <1>1 DEF Pumping

\* The top of the stack.
LEMMA TopFrame ==
  ASSUME TypeOK, frames # <<>>
  PROVE  Len(frames) \in Nat \ {0} /\ Top \in Frame /\ frames # <<>>
<1>1. frames \in Seq(Frame) /\ frames # <<>>
  BY DEF TypeOK, Frame
<1>2. Len(frames) \in Nat \ {0}
  BY <1>1, EmptySeq
<1>3. Len(frames) \in 1..Len(frames)
  BY <1>2
<1> QED
  BY <1>1, <1>2, <1>3, ElementOfSeq DEF Top

\* What a pump below the top holds is out of date, but it stays spent.
LEMMA SpentStays ==
  ASSUME NEW f, Spent(f), Queued' \subseteq Queued, \A t \in Queued' : key'[t] = key[t]
  PROVE  Spent(f)'
<1> QED
  BY DEF Spent, Blocked
-----------------------------------------------------------------------------
(* The steps of a pump.                                                    *)

LEMMA NotLast == \A n \in Nat : \A i \in 1..n : i # n <=> i < n
<1> QED
  OBVIOUS

\* The top of the stack gets another frame; those below stay.
LEMMA TopChanges ==
  ASSUME TypeOK, frames # <<>>, NEW f, frames' = [frames EXCEPT ![Len(frames)] = f]
  PROVE  /\ Len(frames') = Len(frames) /\ Top' = f /\ frames' # <<>>
         /\ \A i \in 1..Len(frames) : i < Len(frames) => frames'[i] = frames[i]
         /\ f \in Frame => frames' \in Seq(Frame)
<1>1. frames \in Seq(Frame) /\ Len(frames) \in Nat \ {0}
  BY TopFrame DEF TypeOK, Frame
<1>2. DOMAIN frames = 1..Len(frames)
  BY <1>1, LenProperties
<1>3. Len(frames') = Len(frames) /\ DOMAIN frames' = 1..Len(frames)
  BY <1>1, <1>2
<1>4. Top' = f
  BY <1>1, <1>2, <1>3 DEF Top
<1>5. frames' # <<>>
  BY <1>1, <1>3
<1>6. f \in Frame => frames' \in Seq(Frame)
  <2> SUFFICES ASSUME f \in Frame PROVE frames' \in Seq(Frame)
    OBVIOUS
  <2>1. \A i \in 1..Len(frames) : frames'[i] \in Frame
    BY <1>1, <1>2, ElementOfSeq
  <2>2. frames' = [i \in 1..Len(frames) |-> frames'[i]]
    BY <1>2
  <2>3. [i \in 1..Len(frames) |-> frames'[i]] \in Seq(Frame)
    BY <1>1, <2>1, IsASeq
  <2> QED
    BY <2>2, <2>3
<1>7. ASSUME NEW i \in 1..Len(frames), i < Len(frames) PROVE frames'[i] = frames[i]
  <2>1. i \in DOMAIN frames
    BY <1>2
  <2>2. i # Len(frames)
    BY <1>1, <1>7, NotLast
  <2> QED
    BY <2>1, <2>2
<1> QED
  BY <1>3, <1>4, <1>5, <1>6, <1>7

\* A pump whose frame is exact has found a task to start.
LEMMA StartIsExact ==
  ASSUME TypeOK, Pumping, frames # <<>>, Top.slots > 0, NEW t \in Task, Comes(t), Startable(t), t \in list
  PROVE  /\ Exact(Top) /\ t \in Queued /\ ~Blocked(t, RunningKeys)
         /\ Cardinality(Running) < MaxConcurrent
         /\ Top.slots \in 1..MaxConcurrent
<1>1. t \in Queued /\ t \in Top.left /\ ~Blocked(t, Top.busy)
  BY DEF Startable, Comes, Queued, Is, Blocked
<1>2. Top.slots \in 0..MaxConcurrent /\ frames # <<>>
  BY TopFrame DEF Frame
<1>3. Top.slots \in 1..MaxConcurrent
  BY <1>2, QueueAssumption
<1>4. ~Spent(Top)
  BY <1>1, <1>3 DEF Spent
<1>5. Exact(Top)
  BY <1>2, <1>4 DEF Pumping
<1>6. Cardinality(Running) < MaxConcurrent /\ Top.busy = RunningKeys
  BY <1>3, <1>5, QueueSets, QueueAssumption DEF Exact
<1> QED
  BY <1>1, <1>3, <1>5, <1>6

\* The frame after a task was given a slot.
LEMMA GrantedType ==
  ASSUME TypeOK, frames # <<>>, Top.slots > 0, NEW t \in Task
  PROVE  /\ Granted(t) \in Frame /\ Granted(t).slots = Top.slots - 1
         /\ Granted(t).busy = Top.busy \cup ({key[t]} \ {NoKey})
         /\ Granted(t).left = Top.left \ {t}
<1>1. Top.slots \in 0..MaxConcurrent /\ Top.busy \subseteq Keys /\ Top.left \subseteq Task
  BY TopFrame DEF Frame
<1>2. key[t] \in Keys \cup {NoKey}
  BY DEF TypeOK
<1>3. Top.slots - 1 \in 0..MaxConcurrent
  BY <1>1, QueueAssumption
<1>4. Top.busy \cup ({key[t]} \ {NoKey}) \in SUBSET Keys /\ Top.left \ {t} \in SUBSET Task
  BY <1>1, <1>2
<1> QED
  BY <1>3, <1>4 DEF Granted, Frame

\* A pump returns: what it would leave undone, the one below will not do either.
LEMMA ReturnKeeps ==
  ASSUME TypeOK, Pumping, PumpReturns
  PROVE  Pumping' /\ frames' \in Seq(Frame)
<1>1. frames # <<>> /\ (Top.slots = 0 \/ Top.left = {}) /\ frames' = SubSeq(frames, 1, Len(frames) - 1)
      /\ UNCHANGED <<list, status, key, suspended>>
  BY DEF PumpReturns, Front, tasksVars, switchVars
<1>2. frames \in Seq(Frame) /\ Len(frames) \in Nat \ {0} /\ frames # <<>>
  BY <1>1, TopFrame DEF TypeOK, Frame
<1>3. Queued' = Queued /\ Running' = Running /\ RunningKeys' = RunningKeys
  BY <1>1 DEF Queued, Running, Is, RunningKeys
<1>4. Quiet
  <2>1. CASE Exact(Top)
    <3>1. CASE Top.slots = 0
      BY <2>1, <3>1, QueueSets, QueueAssumption DEF Exact, Quiet
    <3>2. CASE Top.left = {}
      BY <2>1, <3>2 DEF Exact, Quiet
    <3> QED
      BY <1>1, <3>1, <3>2
  <2> QED
    BY <1>2, <2>1 DEF Pumping
<1>5. Quiet'
  BY <1>1, <1>3, <1>4 DEF Quiet, Blocked
<1>6. PICK n \in Nat : n = Len(frames) - 1
  BY <1>2
<1>7. /\ frames' = SubSeq(frames, 1, n)
      /\ \A i \in 1..n : frames[i] \in Frame /\ i \in 1..Len(frames) /\ i < Len(frames)
  BY <1>1, <1>2, <1>6, ElementOfSeq
<1>8. /\ frames' \in Seq(Frame) /\ Len(frames') = n
      /\ \A i \in 1..n : frames'[i] = frames[i]
  <2>1. 1 \in Int /\ n \in Int /\ \A i \in 1..n : frames[i] \in Frame
    BY <1>6, <1>7
  <2>2. /\ SubSeq(frames, 1, n) \in Seq(Frame)
        /\ Len(SubSeq(frames, 1, n)) = IF 1 <= n THEN n - 1 + 1 ELSE 0
        /\ \A i \in 1..(n - 1 + 1) : SubSeq(frames, 1, n)[i] = frames[1 + i - 1]
    BY <2>1, SubSeqProperties
  <2> QED
    BY <1>6, <1>7, <2>2
<1>9. \A i \in 1..n : Spent(frames[i])'
  <2> SUFFICES ASSUME NEW i \in 1..n PROVE Spent(frames[i])'
    OBVIOUS
  <2>1. PICK f : f = frames[i]
    OBVIOUS
  <2>2. Spent(f)
    BY <1>7, <2>1 DEF Pumping
  <2>3. Spent(f)'
    BY <1>1, <1>3, <2>2, SpentStays
  <2>4. frames'[i] = f
    BY <1>8, <2>1
  <2> QED
    BY <2>3, <2>4
<1>10. frames' # <<>> => Spent(Top)'
  <2> SUFFICES ASSUME frames' # <<>> PROVE Spent(Top)'
    OBVIOUS
  <2>1. Len(frames') \in 1..n
    BY <1>6, <1>8, EmptySeq
  <2> QED
    BY <1>8, <1>9, <2>1 DEF Top
<1>11. Cardinality(Running') <= MaxConcurrent
  BY <1>3 DEF Pumping
<1> QED
  BY <1>1, <1>5, <1>8, <1>9, <1>10, <1>11 DEF Pumping

\* A task that is passed over: it cannot be started now, nor later by this pump.
LEMMA SkipKeeps ==
  ASSUME TypeOK, Pumping, NEW t \in Task, PumpSkips(t)
  PROVE  Pumping' /\ frames' \in Seq(Frame)
<1>1. /\ frames # <<>> /\ Comes(t) /\ ~Startable(t) /\ UNCHANGED <<list, status, key, suspended>>
      /\ frames' = [frames EXCEPT ![Len(frames)] = Passed(t)]
  BY DEF PumpSkips, tasksVars, switchVars
<1>2. Queued' = Queued /\ Running' = Running /\ RunningKeys' = RunningKeys
  BY <1>1 DEF Queued, Running, Is, RunningKeys
<1>3. Top \in Frame
  BY <1>1, TopFrame
<1>4. PICK f : f = Passed(t)
  OBVIOUS
<1>5. f \in Frame /\ f.slots = Top.slots /\ f.busy = Top.busy /\ f.left = Top.left \ {t}
  BY <1>3, <1>4 DEF Passed, Frame
<1>6. /\ Len(frames') = Len(frames) /\ Top' = f /\ frames' # <<>> /\ frames' \in Seq(Frame)
      /\ \A i \in 1..Len(frames) : i < Len(frames) => frames'[i] = frames[i]
  BY <1>1, <1>4, <1>5, TopChanges
<1>7. t \in Queued => Blocked(t, f.busy)
  BY <1>1, <1>5 DEF Startable, Queued, Is, Blocked
<1>8. Exact(Top) => Exact(f)'
  BY <1>1, <1>2, <1>5, <1>7 DEF Exact, OneStart, Blocked
<1>9. (Spent(Top) => Spent(f)') /\ (Quiet => Quiet')
  BY <1>1, <1>2, <1>5 DEF Spent, Blocked, Quiet
<1>10. Exact(f)' \/ (Spent(f)' /\ Quiet')
  BY <1>1, <1>8, <1>9, TopFrame DEF Pumping
<1>11. \A i \in 1..Len(frames') : i < Len(frames') => Spent(frames[i])'
  <2> SUFFICES ASSUME NEW i \in 1..Len(frames), i < Len(frames) PROVE Spent(frames[i])'
    BY <1>6
  <2>1. PICK g : g = frames[i]
    OBVIOUS
  <2>2. Spent(g)'
    BY <1>1, <1>2, <2>1, SpentStays DEF Pumping
  <2> QED
    BY <1>6, <2>1, <2>2
<1>12. Cardinality(Running') <= MaxConcurrent
  BY <1>2 DEF Pumping
<1> QED
  BY <1>1, <1>6, <1>10, <1>11, <1>12 DEF Pumping

\* A task is started: the count and the keys of the top stay exact.
LEMMA StartKeeps ==
  ASSUME TypeOK, Pumping, NEW t \in Task, t \in list, PumpStarts(t)
  PROVE  Pumping' /\ frames' \in Seq(Frame)
<1>1. /\ frames # <<>> /\ Top.slots > 0 /\ Comes(t) /\ Startable(t) /\ UNCHANGED <<list, key, suspended>>
      /\ status' = [status EXCEPT ![t] = "running"]
      /\ frames' = [frames EXCEPT ![Len(frames)] = Granted(t)]
  BY DEF PumpStarts, switchVars
<1>2. Exact(Top) /\ t \in Queued /\ Cardinality(Running) < MaxConcurrent /\ Top.slots \in 1..MaxConcurrent
  BY <1>1, StartIsExact
<1>3. t \notin Running /\ Running' = Running \cup {t} /\ Queued' = Queued \ {t}
  BY <1>1, <1>2 DEF Queued, Running, Is, TypeOK
<1>4. Cardinality(Running') = Cardinality(Running) + 1
  BY <1>3, OneMore, QueueSets
<1>5. RunningKeys' = RunningKeys \cup ({key[t]} \ {NoKey})
  BY <1>1, <1>3 DEF RunningKeys
<1>6. PICK f : f = Granted(t)
  OBVIOUS
<1>7. /\ f \in Frame /\ f.slots = Top.slots - 1 /\ f.left = Top.left \ {t}
      /\ f.busy = Top.busy \cup ({key[t]} \ {NoKey})
  BY <1>1, <1>6, GrantedType
<1>8. /\ Len(frames') = Len(frames) /\ Top' = f /\ frames' # <<>> /\ frames' \in Seq(Frame)
      /\ \A i \in 1..Len(frames) : i < Len(frames) => frames'[i] = frames[i]
  BY <1>1, <1>6, <1>7, TopChanges
<1>9. Exact(f)'
  <2>1. f.slots + Cardinality(Running') = MaxConcurrent
    BY <1>2, <1>4, <1>7, QueueSets, QueueAssumption DEF Exact
  <2>2. f.busy = RunningKeys'
    BY <1>2, <1>5, <1>7 DEF Exact
  <2>3. \A u \in Queued' : u \in f.left \/ Blocked(u, f.busy)'
    BY <1>1, <1>2, <1>3, <1>7 DEF Exact, Blocked
  <2>4. OneStart(f)'
    <3>1. Top.slots <= 1 => f.slots <= 1
      BY <1>2, <1>7, QueueAssumption
    <3> QED
      BY <1>1, <1>2, <1>3, <1>7, <3>1 DEF Exact, OneStart, Blocked
  <2> QED
    BY <2>1, <2>2, <2>3, <2>4 DEF Exact
<1>10. \A i \in 1..Len(frames') : i < Len(frames') => Spent(frames[i])'
  <2> SUFFICES ASSUME NEW i \in 1..Len(frames), i < Len(frames) PROVE Spent(frames[i])'
    BY <1>8
  <2>1. PICK g : g = frames[i]
    OBVIOUS
  <2>2. Spent(g)'
    BY <1>1, <1>3, <2>1, SpentStays DEF Pumping
  <2> QED
    BY <1>8, <2>1, <2>2
<1>11. Cardinality(Running') <= MaxConcurrent
  BY <1>2, <1>4, QueueSets, QueueAssumption
<1> QED
  BY <1>1, <1>8, <1>9, <1>10, <1>11 DEF Pumping

\* start() throws: the slot of the top is used up, and a new pump begins.
LEMMA FailKeeps ==
  ASSUME TypeOK, Pumping, NEW t \in Task, t \in list, PumpFails(t)
  PROVE  Pumping' /\ frames' \in Seq(Frame)
<1>1. /\ frames # <<>> /\ Top.slots > 0 /\ Comes(t) /\ Startable(t) /\ UNCHANGED <<list, key, suspended>>
      /\ status' = [status EXCEPT ![t] = "error"]
      /\ frames' = Append([frames EXCEPT ![Len(frames)] = Granted(t)], NewFrame(list, status'))
  BY DEF PumpFails, switchVars
<1>2. /\ Exact(Top) /\ t \in Queued /\ ~Blocked(t, RunningKeys)
      /\ Cardinality(Running) < MaxConcurrent /\ Top.slots \in 1..MaxConcurrent
  BY <1>1, StartIsExact
<1>3. Running' = Running /\ Queued' = Queued \ {t}
  BY <1>1, <1>2 DEF Queued, Running, Is, TypeOK
<1>4. RunningKeys' = RunningKeys
  BY <1>1, <1>3 DEF RunningKeys
<1>5. PICK f, g : f = Granted(t) /\ g = NewFrame(list', status')
  OBVIOUS
<1>17. PICK below : below = [frames EXCEPT ![Len(frames)] = f]
  OBVIOUS
<1>6. /\ f \in Frame /\ f.slots = Top.slots - 1 /\ f.left = Top.left \ {t}
      /\ f.busy = Top.busy \cup ({key[t]} \ {NoKey})
  BY <1>1, <1>5, GrantedType
<1>7. /\ g \in Frame /\ g.left = list' /\ g.busy = RunningKeys'
      /\ g.slots + Cardinality(Running') = MaxConcurrent
  <2>1. list' \subseteq Task /\ \A u \in Running' : key'[u] = key[u]
    BY <1>1 DEF TypeOK
  <2>2. Cardinality(Running') <= MaxConcurrent /\ key \in [Task -> Keys \cup {NoKey}]
    BY <1>3 DEF TypeOK, Pumping
  <2> QED
    BY <1>5, <2>1, <2>2, NewFrameIs
<1>8. frames \in Seq(Frame) /\ Len(frames) \in Nat \ {0} /\ DOMAIN frames = 1..Len(frames)
  BY <1>1, TopFrame, LenProperties DEF TypeOK, Frame
<1>9. /\ below \in Seq(Frame) /\ Len(below) = Len(frames) /\ below[Len(frames)] = f
      /\ \A i \in 1..Len(frames) : i # Len(frames) => below[i] = frames[i]
  <2>1. \A i \in 1..Len(frames) : below[i] \in Frame
    BY <1>17, <1>6, <1>8, ElementOfSeq
  <2>2. below = [i \in 1..Len(frames) |-> below[i]]
    BY <1>17, <1>8
  <2>3. [i \in 1..Len(frames) |-> below[i]] \in Seq(Frame)
    BY <1>8, <2>1, IsASeq
  <2>4. DOMAIN below = 1..Len(frames) /\ below \in Seq(Frame)
    BY <1>17, <1>8, <2>2, <2>3
  <2>5. Len(below) = Len(frames)
    BY <1>8, <2>4, LenProperties
  <2>6. Len(frames) \in DOMAIN frames
    BY <1>8
  <2>7. below[Len(frames)] = f /\ \A i \in 1..Len(frames) : i # Len(frames) => below[i] = frames[i]
    BY <1>17, <1>8, <2>6
  <2> QED
    BY <2>4, <2>5, <2>7
<1>10. frames' = Append(below, g)
  BY <1>17, <1>1, <1>5
<1>11. /\ frames' \in Seq(Frame) /\ Len(frames') = Len(frames) + 1 /\ frames' # <<>>
       /\ frames'[Len(frames) + 1] = g
       /\ \A i \in 1..Len(frames) : frames'[i] = below[i]
  BY <1>7, <1>9, <1>10, AppendProperties
<1>12. Top' = g
  BY <1>11 DEF Top
<1>13. Spent(f)'
  <2>1. CASE Top.slots <= 1
    BY <1>2, <1>6, <2>1, QueueAssumption DEF Spent
  <2>2. CASE ~(Top.slots <= 1)
    <3>1. \A u \in Queued : u = t \/ Blocked(u, Top.busy) \/ (key[t] # NoKey /\ key[u] = key[t])
      BY <1>2, <2>2 DEF Exact, OneStart
    <3> QED
      BY <1>1, <1>3, <1>6, <3>1 DEF Spent, Blocked
  <2> QED
    BY <2>1, <2>2
<1>14. Exact(g)'
  <2>1. \A u \in Queued' : u \in g.left
    BY <1>7 DEF Queued, Is
  <2>2. OneStart(g)'
    <3>1. g.slots = Top.slots /\ g.busy = Top.busy
      BY <1>2, <1>3, <1>4, <1>7, QueueSets, QueueAssumption, TopFrame, <1>1 DEF Exact, Frame
    <3> QED
      BY <1>1, <1>2, <1>3, <3>1 DEF Exact, OneStart, Blocked
  <2> QED
    BY <1>7, <2>1, <2>2 DEF Exact
<1>15. \A i \in 1..Len(frames') : i < Len(frames') => Spent(frames[i])'
  <2> SUFFICES ASSUME NEW i \in 1..Len(frames) PROVE Spent(frames[i])'
    BY <1>8, <1>11
  <2>1. CASE i = Len(frames)
    BY <1>9, <1>11, <1>13, <2>1
  <2>2. CASE i # Len(frames)
    <3>1. PICK h : h = frames[i]
      OBVIOUS
    <3>2. i < Len(frames)
      BY <1>8, <2>2, NotLast
    <3>3. Spent(h)'
      BY <1>1, <1>3, <3>1, <3>2, SpentStays DEF Pumping
    <3> QED
      BY <1>9, <1>11, <2>2, <3>1, <3>3
  <2> QED
    BY <2>1, <2>2
<1>16. Cardinality(Running') <= MaxConcurrent
  BY <1>3 DEF Pumping
<1> QED
  BY <1>1, <1>11, <1>12, <1>14, <1>15, <1>16 DEF Pumping
-----------------------------------------------------------------------------
(* The events that begin a pump, and those that do not.                    *)

\* One more queued task.  Nothing else could be started before.
LEMMA EnqueuePumps ==
  ASSUME TypeOK, Pumping, Idle, NEW t, t \notin Queued, Queued' = Queued \cup {t}, Running' = Running,
         \A u \in Queued \cup Running : key'[u] = key[u], list' \subseteq Task,
         frames' = << NewFrame(list', status') >>, ~suspended'
  PROVE  Pumping' /\ frames' \in Seq(Frame)
<1>1. PICK f : f = NewFrame(list', status')
  OBVIOUS
<1>2. Cardinality(Running') <= MaxConcurrent /\ key \in [Task -> Keys \cup {NoKey}]
  BY DEF Pumping, TypeOK
<1>3. /\ f \in Frame /\ f.left = list' /\ f.busy = RunningKeys'
      /\ f.slots + Cardinality(Running') = MaxConcurrent
  BY <1>1, <1>2, NewFrameIs
<1>4. RunningKeys' = RunningKeys
  BY DEF RunningKeys
<1>5. Quiet
  BY DEF Pumping, Idle
<1>6. OneStart(f)'
  <2>1. CASE Cardinality(Running) >= MaxConcurrent
    <3>1. f.slots \in Nat
      BY <1>3 DEF Frame
    <3>2. f.slots <= 1
      BY <1>2, <1>3, <2>1, <3>1, QueueSets, QueueAssumption
    <3> QED
      BY <3>2 DEF OneStart
  <2>2. CASE \A u \in Queued : Blocked(u, RunningKeys)
    BY <1>3, <1>4, <2>2 DEF OneStart, Blocked
  <2> QED
    BY <1>5, <2>1, <2>2 DEF Quiet
<1>7. \A u \in Queued' : u \in f.left
  BY <1>3 DEF Queued, Is
<1>8. Exact(f)'
  BY <1>3, <1>6, <1>7 DEF Exact
<1> QED
  BY <1>1, <1>2, <1>3, <1>8, FirstPump

\* One task ends, which frees one slot or one key, or it was only queued.
LEMMA SettlePumps ==
  ASSUME TypeOK, Pumping, Idle, NEW t \in Task, t \in list,
         Queued' = Queued \ {t}, Running' = Running \ {t}, UNCHANGED <<list, key>>,
         frames' = << NewFrame(list', status') >>, ~suspended'
  PROVE  Pumping' /\ frames' \in Seq(Frame)
<1>1. PICK f : f = NewFrame(list', status')
  OBVIOUS
<1>2. Cardinality(Running') = IF t \in Running THEN Cardinality(Running) - 1 ELSE Cardinality(Running)
  BY OneLess, QueueSets
<1>3. Cardinality(Running') <= MaxConcurrent /\ key \in [Task -> Keys \cup {NoKey}]
  BY <1>2, QueueSets, QueueAssumption DEF Pumping, TypeOK
<1>4. /\ f \in Frame /\ f.left = list' /\ f.busy = RunningKeys'
      /\ f.slots + Cardinality(Running') = MaxConcurrent
  BY <1>1, <1>3, NewFrameIs DEF TypeOK
<1>5. Quiet
  BY DEF Pumping, Idle
<1>6. OneStart(f)'
  <2>1. CASE Cardinality(Running) >= MaxConcurrent
    <3>1. f.slots \in Nat
      BY <1>4 DEF Frame
    <3>2. f.slots <= 1
      BY <1>2, <1>3, <1>4, <2>1, <3>1, QueueSets, QueueAssumption
    <3> QED
      BY <3>2 DEF OneStart
  <2>2. CASE \A u \in Queued : Blocked(u, RunningKeys)
    <3>1. \A u \in Queued' : Blocked(u, RunningKeys)
      BY <2>2
    <3>2. \A u \in Queued' : key[u] # NoKey /\ (Blocked(u, RunningKeys') \/ key[u] = key[t])
      BY <3>1 DEF RunningKeys, Blocked
    <3> QED
      BY <1>4, <3>2 DEF OneStart, Blocked
  <2> QED
    BY <1>5, <2>1, <2>2 DEF Quiet
<1>7. \A u \in Queued' : u \in f.left
  BY <1>4 DEF Queued, Is
<1>8. Exact(f)'
  BY <1>4, <1>6, <1>7 DEF Exact
<1> QED
  BY <1>1, <1>3, <1>4, <1>8, FirstPump

\* Nothing is left in the queue.
LEMMA EmptyPumps ==
  ASSUME TypeOK, Pumping, Queued' = {}, Running' \subseteq Running, UNCHANGED <<list, key>>,
         frames' = << NewFrame(list', status') >>, ~suspended'
  PROVE  Pumping' /\ frames' \in Seq(Frame)
<1>1. PICK f : f = NewFrame(list', status')
  OBVIOUS
<1>2. Cardinality(Running') <= Cardinality(Running) /\ Cardinality(Running') \in Nat
  <2>1. Running' \in SUBSET Running /\ Running' \in SUBSET Task
    BY QueueSets
  <2> QED
    BY <2>1, NotMore, FiniteTasks, QueueSets
<1>3. Cardinality(Running') <= MaxConcurrent /\ key \in [Task -> Keys \cup {NoKey}]
  BY <1>2, QueueSets, QueueAssumption DEF Pumping, TypeOK
<1>4. /\ f \in Frame /\ f.busy = RunningKeys'
      /\ f.slots + Cardinality(Running') = MaxConcurrent
  BY <1>1, <1>3, NewFrameIs DEF TypeOK
<1>5. Exact(f)'
  BY <1>4 DEF Exact, OneStart
<1> QED
  BY <1>1, <1>3, <1>4, <1>5, FirstPump

\* The events that begin no pump: what is queued and what runs stay.
LEMMA NoPump ==
  ASSUME TypeOK, Pumping, UNCHANGED <<frames, suspended>>, Queued' = Queued, Running' = Running,
         \A u \in Queued \cup Running : key'[u] = key[u]
  PROVE  Pumping' /\ frames' \in Seq(Frame)
<1>1. RunningKeys' = RunningKeys
  BY DEF RunningKeys
<1>2. Quiet => Quiet'
  BY <1>1 DEF Quiet, Blocked
<1>3. \A f : (Spent(f) => Spent(f)')
  <2> SUFFICES ASSUME NEW f, Spent(f) PROVE Spent(f)'
    OBVIOUS
  <2> QED
    BY SpentStays
<1>4. Top' = Top
  BY DEF Top
<1>5. PICK f : f = Top
  OBVIOUS
<1>6. Exact(f) => Exact(f)'
  BY <1>1 DEF Exact, OneStart, Blocked
<1>7. frames' # <<>> => Exact(Top)' \/ (Spent(Top)' /\ Quiet')
  BY <1>2, <1>3, <1>4, <1>5, <1>6 DEF Pumping
<1>8. \A i \in 1..Len(frames) : i < Len(frames) => Spent(frames[i])'
  <2> SUFFICES ASSUME NEW i \in 1..Len(frames), i < Len(frames) PROVE Spent(frames[i])'
    OBVIOUS
  <2>1. PICK g : g = frames[i]
    OBVIOUS
  <2> QED
    BY <1>3, <2>1 DEF Pumping
<1>9. frames' \in Seq(Frame)
  BY DEF TypeOK, Frame
<1> QED
  BY <1>2, <1>7, <1>8, <1>9 DEF Pumping

\* While the pump is suspended there is none, whatever ends.
LEMMA SuspendedPumps ==
  ASSUME TypeOK, Pumping, frames = <<>>, UNCHANGED frames, suspended', Running' \subseteq Running
  PROVE  Pumping' /\ frames' \in Seq(Frame)
<1>1. Running' \in SUBSET Running /\ Running' \in SUBSET Task
  BY QueueSets
<1>2. Cardinality(Running') <= Cardinality(Running) /\ Cardinality(Running') \in Nat
  BY <1>1, NotMore, FiniteTasks, QueueSets
<1>3. Cardinality(Running') <= MaxConcurrent
  BY <1>2, QueueSets, QueueAssumption DEF Pumping
<1>4. Len(<<>>) = 0 /\ frames' = <<>> /\ frames' \in Seq(Frame)
  BY EmptySeq
<1> QED
  BY <1>3, <1>4 DEF Pumping
-----------------------------------------------------------------------------
(* Every step keeps the invariant.                                         *)

LEMMA InitHolds == Init => QueueInv
<1> SUFFICES ASSUME Init PROVE QueueInv
  OBVIOUS
<1>0. /\ nextId \in 1..(MaxTasks + 1) /\ first = nextId
      /\ reloads \in 0..MaxReloads /\ mishaps \in 0..MaxMishaps
  <2>1. PICK w \in Worlds :
          nextId = w.nextId /\ first = w.nextId /\ reloads = w.reloads /\ mishaps = w.mishaps
    BY DEF Init
  <2>2. w \in [nextId : 1..(MaxTasks + 1), reloads : 0..MaxReloads, mishaps : 0..MaxMishaps]
    BY <2>1, QueueAssumption
  <2> QED
    BY <2>1, <2>2
<1>1. stored = [t \in {} |-> "none"] /\ other = stored /\ DOMAIN stored = {} /\ DOMAIN other = {}
  BY DEF Init
<1>2. TypeOK
  <2>1. list \subseteq Task /\ watched \subseteq Task /\ answered \subseteq Task /\ retired \subseteq Task
        /\ toCancel \subseteq Task
    BY DEF Init
  <2>2. status \in [Task -> Status] /\ key \in [Task -> Keys \cup {NoKey}]
        /\ kind \in [Task -> {"xhr", "browser"}]
        /\ net \in [Task -> {"none", "open", "aborting", "closed"}]
    BY DEF Init, Status
  <2>3. stored \in [DOMAIN stored -> Kept] /\ other \in [DOMAIN other -> Kept]
    BY <1>1
  <2>4. frames \in Seq(Frame) /\ nextId \in 1..(MaxTasks + 1) /\ first \in 1..(MaxTasks + 1)
        /\ reloads \in 0..MaxReloads /\ mishaps \in 0..MaxMishaps
    BY <1>0, EmptySeq DEF Init
  <2>5. suspended \in BOOLEAN /\ current \in BOOLEAN
    BY DEF Init
  <2> QED
    BY <1>1, <2>1, <2>2, <2>3, <2>4, <2>5 DEF TypeOK, Frame
<1>3. Books /\ Opens
  <2>1. first <= nextId
    BY <1>0
  <2> QED
    BY <2>1 DEF Init, Books, EndedOnce, Opens, Active, Final, Task
<1>4. History
  <2>1. DOMAIN Persisted(list, status) = {}
    BY DEF Init, Persisted, Newest
  <2>2. HistoryCurrent
    BY <1>1, <2>1 DEF HistoryCurrent, Loaded
  <2>3. Newest(DOMAIN stored) = DOMAIN stored
    BY <1>1 DEF Newest
  <2> QED
    BY <1>1, <2>2, <2>3 DEF History, OtherTrue, Truthful
<1>5. Old
  BY DEF Init, Old
<1>6. Pumping
  <2>1. Running = {} /\ Queued = {} /\ frames = <<>> /\ ~suspended
    BY DEF Init, Running, Queued, Is
  <2> QED
    BY <2>1, FS_EmptySet, QueueAssumption DEF Pumping, Quiet
<1> QED
  BY <1>2, <1>3, <1>4, <1>5, <1>6 DEF QueueInv

\* The types, from those of the parts an event changes.
LEMMA TypesKept ==
  ASSUME StorageTyped', frames' \in Seq(Frame),
         list' \subseteq Task, status' \in [Task -> Status], key' \in [Task -> Keys \cup {NoKey}],
         kind' \in [Task -> {"xhr", "browser"}],
         net' \in [Task -> {"none", "open", "aborting", "closed"}],
         watched' \subseteq Task, answered' \subseteq Task,
         nextId' \in 1..(MaxTasks + 1), first' \in 1..(MaxTasks + 1), reloads' \in 0..MaxReloads,
         suspended' \in BOOLEAN, toCancel' \subseteq Task, retired' \subseteq Task
  PROVE  TypeOK'
<1> QED
  BY DEF TypeOK, StorageTyped, Frame

\* Steps that do not touch the tasks but their transports.
LEMMA SilentKeeps ==
  ASSUME QueueInv, UNCHANGED <<list, status, key, kind, answered, storageVars, pageVars, switchVars>>,
         watched' \subseteq Task, net' \in [Task -> {"none", "open", "aborting", "closed"}],
         \A u \in Task : net'[u] = "open" => net[u] = "open",
         Pumping', frames' \in Seq(Frame)
  PROVE  QueueInv'
<1> USE DEF QueueInv, storageVars, pageVars, switchVars
<1>1. StorageTyped' /\ History'
  BY StorageStays
<1>2. TypeOK'
  BY <1>1, TypesKept DEF TypeOK
<1>3. Books' /\ Opens'
  BY DEF Books, EndedOnce, Opens, Active, Final
<1>4. Old'
  BY DEF Old, Queued, Is, Task, TypeOK
<1> QED
  BY <1>1, <1>2, <1>3, <1>4

LEMMA WatchKeeps ==
  ASSUME QueueInv,
         UNCHANGED <<list, status, key, kind, answered, frames, storageVars, pageVars, switchVars>>,
         watched' \subseteq Task, net' \in [Task -> {"none", "open", "aborting", "closed"}],
         \A u \in Task : net'[u] = "open" => net[u] = "open"
  PROVE  QueueInv'
<1>1. Queued' = Queued /\ Running' = Running
  BY DEF Queued, Running, Is
<1>2. Pumping' /\ frames' \in Seq(Frame)
  BY <1>1, NoPump DEF QueueInv, switchVars
<1> QED
  BY <1>2, SilentKeeps

\* What settle() does to the books, from an event or while the pump is suspended.
LEMMA SettleKeeps ==
  ASSUME QueueInv, frames = <<>>, NEW t \in list, NEW s \in Final, Settle(t, s),
         UNCHANGED <<list, key, kind, pageVars, suspended, retired>>
  PROVE  /\ t \in Task /\ Books' /\ Opens' /\ StorageTyped' /\ History' /\ Pumping' /\ frames' \in Seq(Frame)
         /\ status' \in [Task -> Status] /\ net' \in [Task -> {"none", "open", "aborting", "closed"}]
         /\ answered' \subseteq Task
         /\ Queued' = Queued \ {t} /\ Running' = Running \ {t}
         /\ \A u \in Task : u # t => status'[u] = status[u] /\ net'[u] = net[u]
         /\ status'[t] # "queued" /\ net'[t] # "open"
<1> USE DEF QueueInv, pageVars
<1>1. t \in Task /\ status[t] \in Active
  BY DEF TypeOK, Settle
<1>2. /\ status' = [status EXCEPT ![t] = s] /\ net' = [net EXCEPT ![t] = "none"]
      /\ answered' = answered \cup {t} /\ Persist(list', status')
      /\ frames' = IF suspended THEN frames ELSE Append(frames, NewFrame(list', status'))
  BY DEF Settle
<1>3. status' \in [Task -> Status] /\ net' \in [Task -> {"none", "open", "aborting", "closed"}]
  BY <1>2 DEF TypeOK, Status
<1>4. Queued' = Queued \ {t} /\ Running' = Running \ {t}
  BY <1>1, <1>2 DEF Queued, Running, Is, Final, TypeOK
<1>5. Pumping' /\ frames' \in Seq(Frame)
  <2>1. CASE suspended
    BY <1>2, <1>4, <2>1, SuspendedPumps
  <2>2. CASE ~suspended
    <3>1. frames' = << NewFrame(list', status') >>
      BY <1>2, <2>2
    <3> QED
      BY <1>1, <1>4, <2>2, <3>1, SettlePumps DEF Idle
  <2> QED
    BY <2>1, <2>2
<1>6. Books'
  BY <1>1, <1>2 DEF Books, EndedOnce, TypeOK, Active, Final
<1>7. StorageTyped' /\ History'
  <2>1. EndsStay
    BY <1>1, <1>2 DEF EndsStay, TypeOK, Active, Final
  <2>2. \A u \in list' : status'[u] # "none" /\ u < nextId'
    BY <1>6, QueueAssumption DEF Books, TypeOK, Task
  <2> QED
    BY <1>2, <1>3, <2>1, <2>2, SavedIsCurrent DEF TypeOK
<1>8. Opens'
  BY <1>1, <1>2 DEF Opens, TypeOK
<1>9. /\ \A u \in Task : u # t => status'[u] = status[u] /\ net'[u] = net[u]
      /\ status'[t] # "queued" /\ net'[t] # "open" /\ answered' \subseteq Task
  BY <1>1, <1>2 DEF TypeOK, Final
<1> QED
  BY <1>1, <1>3, <1>4, <1>5, <1>6, <1>7, <1>8, <1>9

\* settle() from an event.
LEMMA EventSettles ==
  ASSUME QueueInv, Idle, NEW t \in list, NEW s \in Final, Settle(t, s),
         UNCHANGED <<list, key, kind, pageVars, switchVars>>, watched' \subseteq Task
  PROVE  QueueInv'
<1> USE DEF QueueInv, pageVars, switchVars
<1>1. /\ t \in Task /\ Books' /\ Opens' /\ StorageTyped' /\ History' /\ Pumping' /\ frames' \in Seq(Frame)
      /\ status' \in [Task -> Status] /\ net' \in [Task -> {"none", "open", "aborting", "closed"}]
      /\ answered' \subseteq Task /\ Queued' = Queued \ {t}
      /\ \A u \in Task : u # t => status'[u] = status[u] /\ net'[u] = net[u]
      /\ status'[t] # "queued" /\ net'[t] # "open"
  BY SettleKeeps DEF Idle
<1>2. TypeOK'
  BY <1>1, TypesKept DEF TypeOK
<1>3. Old'
  BY <1>1 DEF Old, TypeOK
<1> QED
  BY <1>1, <1>2, <1>3

LEMMA EventsKeep ==
  ASSUME QueueInv, NEW t \in Task, Cancel(t) \/ Transport(t)
  PROVE  QueueInv'
<1> USE DEF QueueInv
<1>1. Idle /\ UNCHANGED <<list, key, kind, pageVars, switchVars>>
  BY DEF Cancel, Cancelled, Transport, HandOff, Disconnect, TooLarge, WatchEnds, BrowserEnds
<1>2. t \in list
  <2>1. status[t] \in Active \/ t \in list
    BY DEF Cancel, Cancelled, Transport, HandOff, Disconnect, TooLarge, WatchEnds, BrowserEnds, Active
  <2> QED
    BY <2>1 DEF Books, EndedOnce
<1>3. watched' \subseteq Task
  BY DEF Cancel, Cancelled, Transport, HandOff, Disconnect, TooLarge, WatchEnds, BrowserEnds, TypeOK
<1>4. ASSUME NEW s \in Final, Settle(t, s) PROVE QueueInv'
  BY <1>1, <1>2, <1>3, <1>4, EventSettles
<1>5. ASSUME UNCHANGED <<status, answered, storageVars, frames>>,
             net' = net \/ \E n \in {"aborting", "closed"} : net' = [net EXCEPT ![t] = n]
      PROVE  QueueInv'
  <2>1. /\ net' \in [Task -> {"none", "open", "aborting", "closed"}]
        /\ \A u \in Task : net'[u] = "open" => net[u] = "open"
    BY <1>5 DEF TypeOK
  <2> QED
    BY <1>1, <1>3, <1>5, <2>1, WatchKeeps
<1>6. CASE Cancel(t)
  BY <1>4, <1>5, <1>6 DEF Cancel, Cancelled, Final
<1>7. CASE HandOff(t)
  BY <1>5, <1>7 DEF HandOff
<1>8. CASE Disconnect(t)
  BY <1>4, <1>5, <1>8 DEF Disconnect, Final
<1>9. CASE TooLarge(t)
  BY <1>4, <1>9 DEF TooLarge, Final
<1>10. CASE WatchEnds(t)
  BY <1>4, <1>10 DEF WatchEnds, Final
<1>11. CASE BrowserEnds(t)
  BY <1>4, <1>11 DEF BrowserEnds, Final
<1> QED
  BY <1>6, <1>7, <1>8, <1>9, <1>10, <1>11 DEF Transport

LEMMA PumpKeeps == ASSUME QueueInv, Pump PROVE QueueInv'
<1> USE DEF QueueInv
<1>1. UNCHANGED <<list, key, kind, watched, pageVars, switchVars>> /\ frames # <<>>
  BY DEF Pump, PumpReturns, PumpSkips, PumpStarts, PumpFails, tasksVars
<1>2. CASE PumpReturns \/ \E t \in Task : PumpSkips(t)
  <2>1. UNCHANGED <<status, net, answered, storageVars>>
    BY <1>2 DEF PumpReturns, PumpSkips, tasksVars
  <2>2. Pumping' /\ frames' \in Seq(Frame)
    BY <1>2, ReturnKeeps, SkipKeeps
  <2> QED
    BY <1>1, <2>1, <2>2, SilentKeeps DEF TypeOK
<1>3. ASSUME NEW t \in Task, PumpStarts(t) \/ PumpFails(t) PROVE QueueInv'
  <2> USE DEF pageVars, switchVars
  <2>1. status[t] = "queued" /\ Persist(list', status')
    BY <1>1, <1>3 DEF PumpStarts, PumpFails, Startable
  <2>2. t \in list /\ t < nextId /\ ~suspended /\ toCancel = {} /\ t \notin retired
    BY <1>1, <2>1, QueueAssumption DEF Books, EndedOnce, Active, Old, Pumping, TypeOK, Task
  <2>3. Pumping' /\ frames' \in Seq(Frame)
    BY <1>3, <2>2, StartKeeps, FailKeeps
  <2>4. PICK s \in {"running", "error"} : status' = [status EXCEPT ![t] = s]
    BY <1>3 DEF PumpStarts, PumpFails
  <2>5. /\ answered' = IF s = "error" THEN answered \cup {t} ELSE answered
        /\ s = "running" => net' = [net EXCEPT ![t] = "open"]
        /\ s = "error" => net' = net
    BY <1>3, <2>1, <2>4 DEF PumpStarts, PumpFails, TypeOK
  <2>6. status' \in [Task -> Status] /\ net' \in [Task -> {"none", "open", "aborting", "closed"}]
        /\ answered' \subseteq Task
    BY <2>4, <2>5 DEF TypeOK, Status, Active, Final
  <2>7. Books'
    BY <1>1, <2>1, <2>2, <2>4, <2>5 DEF Books, EndedOnce, TypeOK, Active, Final
  <2>8. StorageTyped' /\ History'
    <3>1. EndsStay
      BY <2>1, <2>4 DEF EndsStay, TypeOK, Final
    <3>2. \A u \in list' : status'[u] # "none" /\ u < nextId'
      BY <1>1, <2>7, QueueAssumption DEF Books, TypeOK, Task
    <3> QED
      BY <1>1, <2>1, <2>6, <3>1, <3>2, SavedIsCurrent DEF TypeOK
  <2>9. TypeOK'
    BY <1>1, <2>3, <2>6, <2>8, TypesKept DEF TypeOK
  <2>10. Opens'
    BY <2>1, <2>4, <2>5 DEF Opens, TypeOK
  <2>11. Old'
    BY <1>1, <2>2, <2>4, <2>5 DEF Old, TypeOK
  <2> QED
    BY <2>3, <2>7, <2>8, <2>9, <2>10, <2>11
<1> QED
  BY <1>2, <1>3 DEF Pump

\* Only tasks that have ended are trimmed.
LEMMA TrimmedIs ==
  ASSUME NEW l, NEW st
  PROVE  Trimmed(l, st) \subseteq l /\ \A t \in l : st[t] \in Active => t \in Trimmed(l, st)
<1> QED
  BY DEF Trimmed

LEMMA EnqueueKeeps ==
  ASSUME QueueInv, NEW k \in Keys \cup {NoKey}, NEW how \in Kinds, Enqueue(k, how)
  PROVE  QueueInv'
<1> USE DEF QueueInv
<1>1. PICK t : t = nextId
  OBVIOUS
<1>2. t \in Task /\ nextId' = t + 1 /\ nextId' \in 1..(MaxTasks + 1)
  BY <1>1, QueueAssumption DEF Enqueue, TypeOK, Task
<1>3. /\ Idle /\ status' = [status EXCEPT ![t] = "queued"] /\ key' = [key EXCEPT ![t] = k]
      /\ kind' = [kind EXCEPT ![t] = how]
      /\ list' = Trimmed(list \cup {t}, status') /\ Persist(list', status')
      /\ frames' = << NewFrame(list', status') >>
      /\ UNCHANGED <<net, watched, answered, reloads, first, suspended, toCancel, retired>>
  BY <1>1 DEF Enqueue, switchVars
<1>4. status[t] = "none" /\ t \notin list
  BY <1>1, <1>2 DEF Books, TypeOK, Task
<1>5. status' \in [Task -> Status] /\ key' \in [Task -> Keys \cup {NoKey}]
      /\ kind' \in [Task -> {"xhr", "browser"}]
  BY <1>3, QueueAssumption DEF TypeOK, Status, Active
<1>6. /\ list' \subseteq list \cup {t} /\ t \in list'
      /\ \A u \in list : status[u] \in Active => u \in list'
  <2>1. status'[t] = "queued" /\ \A u \in list : status'[u] = status[u]
    BY <1>2, <1>3, <1>4 DEF TypeOK
  <2> QED
    BY <1>3, <2>1, TrimmedIs DEF Active
<1>7. Queued' = Queued \cup {t} /\ Running' = Running /\ t \notin Queued
  BY <1>2, <1>3, <1>4, <1>6 DEF Queued, Running, Is, TypeOK, Active
<1>8. Pumping' /\ frames' \in Seq(Frame)
  <2>1. \A u \in Queued \cup Running : key'[u] = key[u]
    BY <1>3, <1>4 DEF Queued, Running, Is, TypeOK
  <2>2. list' \subseteq Task
    BY <1>2, <1>6 DEF TypeOK
  <2> QED
    BY <1>3, <1>7, <2>1, <2>2, EnqueuePumps DEF Idle
<1>9. Books'
  <2>1. EndedOnce'
    BY <1>2, <1>3, <1>4, <1>6 DEF Books, EndedOnce, TypeOK, Active, Final
  <2>2. \A u \in list' : status'[u] # "none"
    BY <1>2, <1>3, <1>6 DEF Books, TypeOK
  <2>3. \A u \in Task : u >= nextId' => status'[u] = "none"
    BY <1>1, <1>2, <1>3 DEF Books, TypeOK, Task
  <2>4. first' <= nextId'
    BY <1>1, <1>2, <1>3, QueueAssumption DEF Books, TypeOK
  <2> QED
    BY <2>1, <2>2, <2>3, <2>4 DEF Books
<1>10. StorageTyped' /\ History'
  <2>1. EndsStay
    <3>1. \A u \in Task : u < nextId => u # t
      BY <1>1 DEF TypeOK, Task
    <3>2. \A u \in Task : u # t => status'[u] = status[u]
      BY <1>3 DEF TypeOK
    <3> QED
      BY <3>1, <3>2 DEF EndsStay
  <2>2. \A u \in list' : status'[u] # "none" /\ u < nextId'
    <3>1. \A u \in list' : status'[u] # "none" /\ u \in Task
      BY <1>2, <1>6, <1>9 DEF Books, TypeOK
    <3>2. \A u \in Task : ~(u >= nextId') => u < nextId'
      BY <1>2, QueueAssumption DEF Task
    <3> QED
      BY <1>9, <3>1, <3>2 DEF Books
  <2>3. nextId' >= nextId /\ nextId' \in Nat
    BY <1>1, <1>2, QueueAssumption DEF TypeOK
  <2>4. list' \subseteq Task
    BY <1>2, <1>6 DEF TypeOK
  <2> QED
    BY <1>3, <1>5, <2>1, <2>2, <2>3, <2>4, SavedIsCurrent DEF TypeOK
<1>11. TypeOK'
  BY <1>2, <1>3, <1>5, <1>6, <1>8, <1>10, TypesKept DEF TypeOK
<1>12. Opens'
  BY <1>2, <1>3, <1>4 DEF Opens, TypeOK
<1>13. Old'
  <2>1. t \notin retired
    BY <1>1, <1>2 DEF Old, Task
  <2>2. retired \subseteq 1..(nextId' - 1)
    BY <1>1, <1>2 DEF Old, Task
  <2> QED
    BY <1>3, <2>1, <2>2 DEF Old, TypeOK, Idle
<1> QED
  BY <1>8, <1>9, <1>10, <1>11, <1>12, <1>13

\* cancelActiveTasks() begins: all there is is old work, and still to be cancelled.
LEMMA CancelActiveKeeps == ASSUME QueueInv, CancelActive PROVE QueueInv'
<1> USE DEF QueueInv, tasksVars, storageVars, pageVars
<1>1. /\ frames = <<>> /\ ~suspended /\ suspended' = TRUE /\ toCancel' = Is(Active)
      /\ retired' = 1..(nextId - 1)
      /\ UNCHANGED <<list, status, key, kind, net, watched, answered, frames, stored, other, current,
                     mishaps, nextId, reloads, first>>
  BY DEF CancelActive, Idle
<1>2. StorageTyped' /\ History'
  BY <1>1, StorageStays
<1>3. retired' \subseteq Task /\ toCancel' \subseteq Task
  BY <1>1, QueueAssumption DEF TypeOK, Task, Is
<1>4. Books' /\ Opens'
  BY <1>1 DEF Books, EndedOnce, Opens
<1>5. Running' = Running /\ Queued' = Queued
  BY <1>1 DEF Running, Queued, Is
<1>6. Pumping' /\ frames' \in Seq(Frame)
  BY <1>1, <1>5, SuspendedPumps
<1>7. TypeOK'
  BY <1>1, <1>2, <1>3, <1>6, TypesKept DEF TypeOK
<1>8. Old'
  <2>1. \A t \in retired' \ toCancel' : status[t] \notin Active
    BY <1>1, <1>3 DEF Is, Books, EndedOnce
  <2>2. \A t \in retired' \ toCancel' : status'[t] # "queued" /\ net'[t] # "open"
    BY <1>1, <1>3, <2>1 DEF Active, Opens
  <2>3. Queued' \subseteq toCancel'
    BY <1>1, <1>5 DEF Queued, Is, Active
  <2> QED
    BY <1>1, <2>2, <2>3 DEF Old
<1> QED
  BY <1>2, <1>4, <1>6, <1>7, <1>8

\* One of them is cancelled, with no pump.
LEMMA CancelsNextKeeps ==
  ASSUME QueueInv, NEW t \in Task, CancelsNext(t)
  PROVE  QueueInv'
<1> USE DEF QueueInv, pageVars
<1>1. /\ suspended /\ frames = <<>> /\ toCancel' = toCancel \ {t} /\ t \in list
      /\ UNCHANGED <<list, key, kind, nextId, reloads, first, suspended, retired>>
      /\ watched' \subseteq Task
  BY DEF CancelsNext, Cancelled, TypeOK
<1>2. ASSUME Settle(t, "cancelled") PROVE QueueInv'
  <2>1. /\ Books' /\ Opens' /\ StorageTyped' /\ History' /\ Pumping' /\ frames' \in Seq(Frame)
        /\ status' \in [Task -> Status] /\ net' \in [Task -> {"none", "open", "aborting", "closed"}]
        /\ answered' \subseteq Task /\ Queued' = Queued \ {t}
        /\ \A u \in Task : u # t => status'[u] = status[u] /\ net'[u] = net[u]
        /\ status'[t] # "queued" /\ net'[t] # "open"
    <3>1. "cancelled" \in Final
      BY DEF Final
    <3> QED
      BY <1>1, <1>2, <3>1, SettleKeeps
  <2>2. TypeOK'
    BY <1>1, <2>1, TypesKept DEF TypeOK
  <2>3. Old'
    BY <1>1, <2>1 DEF Old, TypeOK
  <2> QED
    BY <2>1, <2>2, <2>3
<1>3. ASSUME UNCHANGED <<status, watched, answered, storageVars, frames>>, status[t] = "running",
             \/ kind[t] = "xhr" /\ net[t] = "closed" /\ net' = net
             \/ kind[t] = "browser" /\ net' = [net EXCEPT ![t] = "aborting"]
      PROVE  QueueInv'
  <2> USE DEF storageVars
  <2>1. StorageTyped' /\ History'
    BY <1>1, <1>3, StorageStays
  <2>2. /\ net' \in [Task -> {"none", "open", "aborting", "closed"}]
        /\ \A u \in Task : net'[u] = "open" => net[u] = "open"
    BY <1>3 DEF TypeOK
  <2>3. Running' = Running /\ Queued' = Queued
    BY <1>1, <1>3 DEF Running, Queued, Is
  <2>4. Pumping' /\ frames' \in Seq(Frame)
    BY <1>1, <1>3, <2>3, SuspendedPumps
  <2>5. TypeOK'
    BY <1>1, <1>3, <2>1, <2>2, <2>4, TypesKept DEF TypeOK
  <2>6. Books' /\ Opens'
    BY <1>1, <1>3, <2>2 DEF Books, EndedOnce, Opens
  <2>7. Old'
    <3>1. t \notin Queued
      BY <1>3 DEF Queued, Is
    <3>2. \A u \in retired \ toCancel' : status'[u] # "queued" /\ (kind'[u] = "xhr" => net'[u] # "open")
      <4>1. kind[t] = "xhr" => net'[t] # "open"
        BY <1>3
      <4> QED
        BY <1>1, <1>3, <2>2, <4>1 DEF Old, TypeOK
    <3> QED
      BY <1>1, <2>3, <3>1, <3>2 DEF Old
  <2> QED
    BY <2>1, <2>4, <2>5, <2>6, <2>7
<1> QED
  BY <1>2, <1>3 DEF CancelsNext, Cancelled

\* All of them are cancelled: nothing is queued when the pump begins.
LEMMA CancelsEndKeeps == ASSUME QueueInv, CancelsEnd PROVE QueueInv'
<1> USE DEF QueueInv, tasksVars, storageVars, pageVars
<1>1. /\ suspended /\ toCancel = {} /\ suspended' = FALSE /\ frames' = << NewFrame(list', status') >>
      /\ UNCHANGED <<list, status, key, kind, net, watched, answered, stored, other, current,
                     mishaps, nextId, reloads, first, toCancel, retired>>
  BY DEF CancelsEnd
<1>2. StorageTyped' /\ History'
  BY <1>1, StorageStays
<1>3. Queued' = {} /\ Running' = Running
  BY <1>1 DEF Old, Queued, Running, Is
<1>4. Pumping' /\ frames' \in Seq(Frame)
  BY <1>1, <1>3, EmptyPumps
<1>5. TypeOK'
  BY <1>1, <1>2, <1>4, TypesKept DEF TypeOK
<1>6. Books' /\ Opens' /\ Old'
  BY <1>1 DEF Books, EndedOnce, Opens, Old
<1> QED
  BY <1>2, <1>4, <1>5, <1>6

\* Tasks that have ended are forgotten.
LEMMA ForgetKeeps ==
  ASSUME QueueInv, (\E t \in Task : Forget(t)) \/ ClearFinished
  PROVE  QueueInv'
<1> USE DEF QueueInv, pageVars, switchVars
<1>1. /\ list' \subseteq list /\ \A t \in list : status[t] \in Active => t \in list'
      /\ Persist(list', status')
      /\ UNCHANGED <<status, key, kind, net, watched, answered, frames, pageVars, switchVars>>
  BY DEF Forget, ClearFinished, Is
<1>2. Queued' = Queued /\ Running' = Running
  BY <1>1 DEF Queued, Running, Is, Active
<1>3. Pumping' /\ frames' \in Seq(Frame)
  BY <1>1, <1>2, NoPump
<1>4. Books'
  BY <1>1 DEF Books, EndedOnce, TypeOK, Active, Final
<1>5. StorageTyped' /\ History'
  <2>1. EndsStay
    BY <1>1 DEF EndsStay
  <2>2. \A u \in list' : status'[u] # "none" /\ u < nextId'
    BY <1>1, QueueAssumption DEF Books, TypeOK, Task
  <2> QED
    BY <1>1, <2>1, <2>2, SavedIsCurrent DEF TypeOK
<1>6. TypeOK'
  BY <1>1, <1>3, <1>5, TypesKept DEF TypeOK
<1>7. Opens' /\ Old'
  BY <1>1, <1>2 DEF Opens, Old
<1> QED
  BY <1>3, <1>4, <1>5, <1>6, <1>7

\* The page is loaded again: what storage holds is there, and nothing of it is active.
LEMMA ReloadKeeps == ASSUME QueueInv, Reload PROVE QueueInv'
<1> USE DEF QueueInv, switchVars
<1>1. /\ frames = <<>> /\ ~suspended /\ reloads < MaxReloads /\ reloads' = reloads + 1
      /\ list' = DOMAIN stored
      /\ status' = [t \in Task |-> IF t \in DOMAIN stored THEN Loaded(stored)[t] ELSE "none"]
      /\ net' = [t \in Task |-> "none"] /\ watched' = {} /\ first' = nextId /\ current' = TRUE
      /\ UNCHANGED <<key, kind, answered, stored, other, mishaps, frames, nextId, suspended, toCancel, retired>>
  BY DEF Reload, Idle
<1>2. /\ DOMAIN stored \subseteq Task /\ \A t \in DOMAIN stored : stored[t] \in Kept /\ t < nextId
      /\ DOMAIN other \subseteq Task /\ \A t \in DOMAIN other : t < nextId
  BY DEF TypeOK, History, OtherTrue
<1>3. \A t \in DOMAIN stored :
        /\ status'[t] = IF stored[t] \in Active THEN "interrupted" ELSE stored[t]
        /\ status'[t] = Loaded(stored)[t] /\ status'[t] \in Kept /\ status'[t] \notin Active
  BY <1>1, <1>2 DEF Loaded, Kept, Status, Active
<1>4. \A t \in Task : t \notin DOMAIN stored => status'[t] = "none"
  BY <1>1
<1>5. status' \in [Task -> Status]
  <2>1. \A t \in Task : status'[t] \in Status
    BY <1>3, <1>4 DEF Kept, Status
  <2> QED
    BY <1>1, <2>1
<1>6. nextId \in Nat /\ first \in Nat /\ \A t \in Task : t \in Nat
  BY QueueAssumption DEF TypeOK, Task
<1>7. Books'
  <2>1. \A t \in Task : status'[t] \notin Active
    BY <1>3, <1>4 DEF Active
  <2>2. \A t \in list' : status'[t] # "none"
    BY <1>1, <1>3 DEF Kept
  <2>3. \A t \in Task : t >= nextId => t \notin DOMAIN stored /\ t \notin answered
    BY <1>2, <1>6 DEF Books, EndedOnce, Final
  <2>4. \A t \in Task : t >= nextId => status'[t] = "none"
    BY <1>4, <2>3
  <2>5. EndedOnce'
    BY <1>1, <2>1, <2>3, <2>4 DEF EndedOnce, Final
  <2>6. first' <= nextId' /\ \A t \in Task : t >= nextId' => status'[t] = "none"
    BY <1>1, <1>6, <2>4
  <2> QED
    BY <2>2, <2>5, <2>6 DEF Books
<1>8. Queued' = {} /\ Running' = {}
  BY <1>1, <1>2, <1>3 DEF Queued, Running, Is, Active
<1>9. Pumping' /\ frames' \in Seq(Frame)
  <2>1. frames' = <<>> /\ Cardinality(Running') <= MaxConcurrent /\ ~suspended'
    BY <1>1, <1>8, FS_EmptySet, QueueAssumption
  <2>2. Len(<<>>) = 0 /\ <<>> \in Seq(Frame)
    BY EmptySeq
  <2> QED
    BY <1>8, <2>1, <2>2 DEF Pumping, Quiet
<1>10. History'
  <2>1. PICK kept, st : kept = DOMAIN stored /\ st = status'
    OBVIOUS
  <2>2. /\ DOMAIN Persisted(kept, st) = kept /\ \A t \in kept : Persisted(kept, st)[t] = st[t]
    BY <1>2, <1>3, <2>1, PersistedIs DEF History
  <2>3. \A t \in kept : st[t] = Loaded(stored)[t] /\ st[t] \notin Active
    BY <1>3, <2>1
  <2>4. DOMAIN Loaded(stored) = kept /\ DOMAIN Loaded(Persisted(kept, st)) = kept
    BY <2>1, <2>2 DEF Loaded
  <2>5. \A t \in kept : Loaded(Persisted(kept, st))[t] = Loaded(stored)[t]
    BY <2>1, <2>2, <2>3, <2>4 DEF Loaded
  <2>6. Loaded(Persisted(kept, st)) = Loaded(stored)
    BY <2>4, <2>5 DEF Loaded
  <2>7. \A t \in Task : t < nextId => ~(t >= first')
    BY <1>1, <1>6
  <2>8. HistoryCurrent'
    BY <1>1, <1>2, <2>1, <2>6, <2>7 DEF HistoryCurrent
  <2>9. OtherTrue(other)'
    BY <1>1, <1>2, <2>7 DEF OtherTrue, Truthful
  <2> QED
    BY <1>1, <1>2, <2>8, <2>9 DEF History
<1>11. TypeOK'
  <2>1. reloads' \in 0..MaxReloads
    BY <1>1, QueueAssumption DEF TypeOK
  <2>2. net' \in [Task -> {"none", "open", "aborting", "closed"}] /\ watched' \subseteq Task
        /\ list' \subseteq Task
    BY <1>1, <1>2
  <2>3. StorageTyped'
    BY <1>1 DEF TypeOK, StorageTyped
  <2> QED
    BY <1>1, <1>5, <1>9, <2>1, <2>2, <2>3, TypesKept DEF TypeOK
<1>12. Opens'
  BY <1>1 DEF Opens
<1>13. Old'
  <2>1. \A t \in Task : status'[t] # "queued" /\ net'[t] # "open"
    BY <1>1, <1>3, <1>4 DEF Active
  <2> QED
    BY <1>1, <2>1 DEF Old, TypeOK
<1> QED
  BY <1>7, <1>9, <1>10, <1>11, <1>12, <1>13

\* The other window writes a list that says nothing wrong of the tasks of this one.
LEMMA OtherWritesKeep ==
  ASSUME QueueInv, NEW o, OtherWrites(o), DOMAIN o \subseteq Task, o \in [DOMAIN o -> Kept],
         OtherTrue(o)', nextId' >= nextId, nextId' \in 1..(MaxTasks + 1)
  PROVE  QueueInv'
<1> USE DEF QueueInv, tasksVars, switchVars
<1>1. /\ mishaps < MaxMishaps /\ mishaps' = mishaps + 1 /\ other' = o
      /\ stored' = Persisted(DOMAIN o, o) /\ current' = FALSE
      /\ UNCHANGED <<list, status, key, kind, net, watched, answered, frames, reloads, first,
                     suspended, toCancel, retired>>
  BY DEF OtherWrites
<1>2. PICK l, p : l = DOMAIN o /\ p = Persisted(l, o)
  OBVIOUS
<1>3. /\ DOMAIN p = Newest(l) /\ Newest(l) \subseteq l /\ \A t \in Newest(l) : p[t] = o[t]
      /\ p \in [DOMAIN p -> Kept] /\ Newest(DOMAIN p) = DOMAIN p
  BY <1>2, PersistedIs
<1>4. stored' = p /\ DOMAIN p \subseteq DOMAIN o /\ \A t \in DOMAIN p : p[t] = o[t]
  BY <1>1, <1>2, <1>3
<1>5. StorageTyped'
  <2>1. mishaps' \in 0..MaxMishaps
    BY <1>1, QueueAssumption DEF TypeOK
  <2>2. DOMAIN stored' \subseteq Task /\ stored' \in [DOMAIN stored' -> Kept]
    BY <1>3, <1>4
  <2> QED
    BY <1>1, <2>1, <2>2 DEF StorageTyped
<1>6. OtherTrue(other)'
  BY <1>1 DEF OtherTrue, Truthful
<1>7. History'
  <2>1. HistoryCurrent'
    BY <1>1, <1>4 DEF HistoryCurrent, OtherTrue, Truthful
  <2>2. \A t \in DOMAIN p : t < nextId'
    BY <1>4 DEF OtherTrue
  <2> QED
    BY <1>3, <1>4, <1>6, <2>1, <2>2 DEF History
<1>8. Running' = Running /\ Queued' = Queued
  BY <1>1 DEF Running, Queued, Is
<1>9. Pumping' /\ frames' \in Seq(Frame)
  BY <1>1, <1>8, NoPump
<1>10. TypeOK'
  BY <1>1, <1>5, <1>9, TypesKept DEF TypeOK
<1>11. nextId \in Nat /\ nextId' \in Nat /\ first \in Nat /\ \A t \in Task : t \in Nat
  BY QueueAssumption DEF TypeOK, Task
<1>12. Books' /\ Opens'
  <2>1. \A t \in Task : t >= nextId' => status'[t] = "none"
    BY <1>1, <1>11 DEF Books
  <2>2. first' <= nextId'
    BY <1>1, <1>11 DEF Books
  <2> QED
    BY <1>1, <2>1, <2>2 DEF Books, EndedOnce, Opens
<1>13. Old'
  <2>1. 1..(nextId - 1) \subseteq 1..(nextId' - 1)
    BY <1>11
  <2> QED
    BY <1>1, <1>8, <2>1 DEF Old
<1> QED
  BY <1>7, <1>9, <1>10, <1>12, <1>13

\* What the other window loads says of no task that it ended otherwise.
LEMMA OtherLoadsKeeps == ASSUME QueueInv, OtherLoads PROVE QueueInv'
<1> USE DEF QueueInv, tasksVars, pageVars, switchVars
<1>1. /\ mishaps < MaxMishaps /\ mishaps' = mishaps + 1 /\ other' = Loaded(stored)
      /\ UNCHANGED <<list, status, key, kind, net, watched, answered, frames, stored, current,
                     nextId, reloads, first, suspended, toCancel, retired>>
  BY DEF OtherLoads
<1>2. DOMAIN other' = DOMAIN stored
  BY <1>1 DEF Loaded
<1>3. \A t \in DOMAIN stored : /\ other'[t] \in Kept /\ other'[t] \notin Active
                                /\ (other'[t] \in Final => stored[t] = other'[t])
  <2>1. \A t \in DOMAIN stored : stored[t] \in Kept
    BY DEF TypeOK
  <2> QED
    BY <1>1, <2>1 DEF Loaded, Kept, Status, Active, Final
<1>4. StorageTyped'
  <2>1. other' \in [DOMAIN other' -> Kept]
    <3>1. other' = [t \in DOMAIN stored |-> other'[t]]
      BY <1>1 DEF Loaded
    <3> QED
      BY <1>2, <1>3, <3>1
  <2> QED
    BY <1>1, <1>2, <2>1, QueueAssumption DEF StorageTyped, TypeOK
<1>5. History'
  <2>1. OtherTrue(other)'
    BY <1>1, <1>2, <1>3 DEF OtherTrue, Truthful, History, HistoryCurrent
  <2>2. HistoryCurrent'
    BY <1>1 DEF HistoryCurrent, History, Persisted
  <2> QED
    BY <1>1, <2>1, <2>2 DEF History
<1>6. Running' = Running /\ Queued' = Queued
  BY <1>1 DEF Running, Queued, Is
<1>7. Pumping' /\ frames' \in Seq(Frame)
  BY <1>1, <1>6, NoPump
<1>8. TypeOK'
  BY <1>1, <1>4, <1>7, TypesKept DEF TypeOK
<1>9. Books' /\ Opens' /\ Old'
  BY <1>1, <1>6 DEF Books, EndedOnce, Opens, Old
<1> QED
  BY <1>5, <1>7, <1>8, <1>9

LEMMA OthersKeep == ASSUME QueueInv, Others PROVE QueueInv'
<1> USE DEF QueueInv
<1>1. nextId \in Nat /\ \A t \in Task : t \in Nat
  BY QueueAssumption DEF TypeOK, Task
<1>2. /\ DOMAIN other \subseteq Task /\ OtherTrue(other)
      /\ \A t \in DOMAIN other : other[t] \in Kept
  BY DEF TypeOK, History
<1>3. CASE OtherEnqueues
  <2>1. PICK n : n = nextId
    OBVIOUS
  <2>2. n \in Task /\ nextId' = n + 1 /\ nextId' \in 1..(MaxTasks + 1) /\ n \in Nat
    BY <1>3, <2>1, QueueAssumption DEF OtherEnqueues, TypeOK, Task
  <2>3. PICK st : st = [t \in DOMAIN other \cup {n} |-> IF t = n THEN "queued" ELSE other[t]]
    OBVIOUS
  <2>4. PICK l : l = Trimmed(DOMAIN st, st)
    OBVIOUS
  <2>5. l \subseteq DOMAIN other \cup {n}
    BY <2>3, <2>4, TrimmedIs
  <2>6. PICK o : o = [t \in l |-> st[t]]
    OBVIOUS
  <2>7. OtherWrites(o)
    BY <1>3, <2>1, <2>3, <2>4, <2>6 DEF OtherEnqueues
  <2>8. /\ DOMAIN o = l
        /\ \A t \in l : o[t] = IF t = n THEN "queued" ELSE other[t]
    BY <2>3, <2>5, <2>6
  <2>9. DOMAIN o \subseteq Task /\ o \in [DOMAIN o -> Kept]
    <3>1. \A t \in l : o[t] \in Kept
      BY <1>2, <2>5, <2>8 DEF Kept, Status, Active
    <3> QED
      BY <1>2, <2>2, <2>5, <2>6, <2>8, <3>1
  <2>10. OtherTrue(o)'
    <3>1. status' = status /\ first' = first
      BY <2>7 DEF OtherWrites, tasksVars
    <3>2. status[n] = "none"
      BY <2>1, <2>2 DEF Books
    <3>3. Truthful(o)'
      BY <1>2, <2>5, <2>8, <3>1, <3>2 DEF OtherTrue, Truthful
    <3>4. \A t \in DOMAIN o : t < nextId'
      <4>1. \A t \in DOMAIN other : t < n /\ t \in Nat
        BY <1>1, <1>2, <2>1 DEF OtherTrue
      <4>2. \A t \in DOMAIN other \cup {n} : t < n + 1
        BY <2>2, <4>1
      <4> QED
        BY <2>2, <2>5, <2>8, <4>2
    <3>5. \A t \in DOMAIN o : o[t] \in Active => t < first' \/ status'[t] = "none"
      BY <1>2, <2>5, <2>8, <3>1, <3>2 DEF OtherTrue
    <3> QED
      BY <3>3, <3>4, <3>5 DEF OtherTrue
  <2>11. nextId' >= nextId
    BY <2>1, <2>2
  <2> QED
    BY <2>2, <2>7, <2>9, <2>10, <2>11, OtherWritesKeep
<1>4. ASSUME NEW t \in Task, OtherMoves(t) PROVE QueueInv'
  <2>1. t \in DOMAIN other /\ other[t] \in Active /\ nextId' = nextId
    BY <1>4 DEF OtherMoves
  <2>2. PICK s \in Final \cup {"running"} : OtherWrites([other EXCEPT ![t] = s])
    BY <1>4 DEF OtherMoves
  <2>3. PICK o : o = [other EXCEPT ![t] = s]
    OBVIOUS
  <2>4. DOMAIN o = DOMAIN other /\ \A u \in DOMAIN other : o[u] = IF u = t THEN s ELSE other[u]
    BY <2>1, <2>3 DEF TypeOK
  <2>5. o \in [DOMAIN o -> Kept]
    <3>1. s \in Kept
      BY DEF Kept, Status, Final, Active
    <3> QED
      BY <2>3, <2>4, <3>1 DEF TypeOK
  <2>6. OtherTrue(o)'
    <3>1. status' = status /\ first' = first
      BY <2>2 DEF OtherWrites, tasksVars
    <3>2. t < first \/ status[t] = "none"
      BY <1>2, <2>1 DEF OtherTrue
    <3>3. first \in Nat /\ t \in Nat
      BY <1>1, QueueAssumption DEF TypeOK
    <3>4. Truthful(o)'
      BY <1>2, <2>1, <2>4, <3>1, <3>2, <3>3 DEF OtherTrue, Truthful
    <3> QED
      BY <1>2, <2>1, <2>4, <3>1, <3>2, <3>4 DEF OtherTrue
  <2>7. nextId' >= nextId /\ nextId' \in 1..(MaxTasks + 1)
    BY <1>1, <2>1 DEF TypeOK
  <2>8. OtherWrites(o) /\ DOMAIN o \subseteq Task
    BY <1>2, <2>2, <2>3, <2>4
  <2> QED
    BY <2>5, <2>6, <2>7, <2>8, OtherWritesKeep
<1>5. CASE OtherClears
  <2>1. PICK l : l = {u \in DOMAIN other : other[u] \in Active}
    OBVIOUS
  <2>2. PICK o : o = [t \in l |-> other[t]]
    OBVIOUS
  <2>3. OtherWrites(o) /\ nextId' = nextId
    BY <1>5, <2>1, <2>2 DEF OtherClears
  <2>4. DOMAIN o = l /\ l \subseteq DOMAIN other /\ \A t \in l : o[t] = other[t]
    BY <2>1, <2>2
  <2>5. DOMAIN o \subseteq Task /\ o \in [DOMAIN o -> Kept]
    BY <1>2, <2>2, <2>4
  <2>6. OtherTrue(o)'
    <3>1. status' = status /\ first' = first
      BY <2>3 DEF OtherWrites, tasksVars
    <3> QED
      BY <1>2, <2>3, <2>4, <3>1 DEF OtherTrue, Truthful
  <2>7. nextId' >= nextId /\ nextId' \in 1..(MaxTasks + 1)
    BY <1>1, <2>3 DEF TypeOK
  <2> QED
    BY <2>3, <2>5, <2>6, <2>7, OtherWritesKeep
<1> QED
  BY <1>3, <1>4, <1>5, OtherLoadsKeeps DEF Others

LEMMA StepKeeps == QueueInv /\ [Next]_vars => QueueInv'
<1> SUFFICES ASSUME QueueInv, [Next]_vars PROVE QueueInv'
  OBVIOUS
<1>1. CASE UNCHANGED vars
  BY <1>1, WatchKeeps DEF vars, tasksVars, QueueInv, TypeOK
<1>2. CASE Next
  BY <1>2, PumpKeeps, EnqueueKeeps, CancelActiveKeeps, CancelsNextKeeps, CancelsEndKeeps, ForgetKeeps,
     ReloadKeeps, OthersKeep, EventsKeep DEF Next, Cancelling
<1> QED
  BY <1>1, <1>2

LEMMA InvHolds == Spec => []QueueInv
<1> QED
  BY InitHolds, StepKeeps, PTL DEF Spec
-----------------------------------------------------------------------------
(* The theorems.                                                           *)

\* The queue's books are right after every event: types, each caller told once, and no
\* slot left free.
THEOREM QueueSound == Spec => []Sound
<1>1. QueueInv => Sound
  <2> SUFFICES ASSUME QueueInv PROVE Sound
    OBVIOUS
  <2>1. ASSUME Idle, Cardinality(Running) < MaxConcurrent, NEW t \in Queued
        PROVE  key[t] # NoKey /\ \E r \in Running : key[r] = key[t]
    <3>1. Blocked(t, RunningKeys)
      BY <2>1, QueueSets, QueueAssumption DEF QueueInv, Pumping, Quiet, Idle
    <3> QED
      BY <3>1 DEF Blocked, RunningKeys
  <2>2. NoIdleSlot
    BY <2>1 DEF NoIdleSlot, Running, Queued
  <2> QED
    BY <2>2 DEF QueueInv, Sound, Books
<1> QED
  BY <1>1, InvHolds, PTL

\* What a reload brings back: all there was as long as this window's last write stands,
\* and never an end that a task has not come to, whichever writes are refused and
\* whatever another window writes.
THEOREM HistoryKept == Spec => []HistoryCurrent
<1>1. QueueInv => HistoryCurrent
  BY DEF QueueInv, History
<1> QED
  BY <1>1, InvHolds, PTL

\* No task of before a switch of the Docker server is started while the others are
\* cancelled or later, nor has a request open once it is cancelled.
THEOREM OldWorkIsOver == Spec => NoOldWork
<1>1. QueueInv => \A t \in retired \ toCancel : status[t] # "queued" /\ (kind[t] = "xhr" => net[t] # "open")
  BY DEF QueueInv, Old
<1>2. QueueInv /\ [Next]_vars => [\A t \in retired : status[t] = "queued" => status'[t] # "running"]_vars
  <2> SUFFICES ASSUME QueueInv, Next, NEW t \in retired, status[t] = "queued", status'[t] = "running"
               PROVE  FALSE
    OBVIOUS
  <2>1. t \in Task
    BY DEF QueueInv, TypeOK
  <2>2. CASE Pump
    <3>1. frames # <<>> /\ ~suspended /\ toCancel = {}
      BY <2>2 DEF Pump, PumpReturns, PumpSkips, PumpStarts, PumpFails, QueueInv, Pumping, Old
    <3> QED
      BY <3>1 DEF QueueInv, Old
  <2>3. ASSUME status' = status PROVE FALSE
    BY <2>3
  <2>4. ASSUME NEW u \in Task, NEW s \in Final, Settle(u, s) PROVE FALSE
    BY <2>1, <2>4 DEF Settle, Final, QueueInv, TypeOK
  <2>5. CASE \E u \in Task : Cancel(u) \/ CancelsNext(u) \/ Transport(u)
    BY <2>3, <2>4, <2>5 DEF Cancel, CancelsNext, Cancelled, Transport, HandOff, Disconnect, TooLarge, WatchEnds,
       BrowserEnds, Final
  <2>6. CASE CancelActive \/ CancelsEnd \/ ClearFinished \/ Others \/ \E u \in Task : Forget(u)
    BY <2>3, <2>6 DEF CancelActive, CancelsEnd, ClearFinished, Forget, tasksVars,
       Others, OtherLoads, OtherEnqueues, OtherMoves, OtherClears, OtherWrites
  <2>7. CASE Reload
    <3>1. \A u \in DOMAIN stored : Loaded(stored)[u] \notin Active
      BY DEF Loaded, Active
    <3> QED
      BY <2>1, <2>7, <3>1 DEF Reload, Active
  <2>8. CASE \E k \in Keys \cup {NoKey}, how \in Kinds : Enqueue(k, how)
    BY <2>1, <2>8 DEF Enqueue, QueueInv, TypeOK
  <2> QED
    BY <2>2, <2>5, <2>6, <2>7, <2>8 DEF Next, Cancelling
<1> QED
  BY <1>1, <1>2, InvHolds, PTL DEF Spec, NoOldWork

\* No more than MaxConcurrent tasks run, pumps inside pumps or not.
THEOREM SlotsKept == Spec => [](Cardinality(Is({"running"})) <= MaxConcurrent)
<1>1. QueueInv => Cardinality(Is({"running"})) <= MaxConcurrent
  BY DEF QueueInv, Pumping, Running
<1> QED
  BY <1>1, InvHolds, PTL
-----------------------------------------------------------------------------
(* The queue does what KeyedPool promises.                                 *)

LEMMA PoolDefs ==
  /\ Pool!Init <=> Queued = {} /\ Running = {} /\ key = [w \in Task |-> NoKey]
  /\ UNCHANGED Pool!vars <=> Queued' = Queued /\ Running' = Running /\ key' = key
  /\ Pool!End <=> Queued' \subseteq Queued /\ Running' \subseteq Running /\ key' = key
<1>1. Pool!Init <=> Queued = {} /\ Running = {} /\ key = [w \in Task |-> NoKey]
  BY DEF Pool!Init, Queued, Running
<1>2. UNCHANGED Pool!vars <=> Queued' = Queued /\ Running' = Running /\ key' = key
  BY DEF Pool!vars, Queued, Running
<1>3. Pool!End <=> Queued' \subseteq Queued /\ Running' \subseteq Running /\ key' = key
  BY DEF Pool!End, Queued, Running
<1> QED
  BY <1>1, <1>2, <1>3

LEMMA PoolSubmits ==
  ASSUME NEW w \in Task, \A v \in Queued \cup Running : v < w,
         Queued' = Queued \cup {w}, Running' = Running,
         \E k \in Keys \cup {NoKey} : key' = [key EXCEPT ![w] = k]
  PROVE  Pool!Submit(w)
<1> QED
  BY DEF Pool!Submit, Queued, Running

LEMMA PoolCounts == ASSUME NEW S PROVE Pool!Cardinality(S) = Cardinality(S)
<1> QED
  BY DEF Pool!Cardinality, Cardinality

LEMMA PoolStarts ==
  ASSUME NEW w \in Task, w \in Queued, Cardinality(Running) < MaxConcurrent,
         key[w] # NoKey => \A r \in Running : key[r] # key[w],
         key[w] # NoKey => \A v \in Queued : key[v] = key[w] => w <= v,
         Queued' = Queued \ {w}, Running' = Running \cup {w}, key' = key
  PROVE  Pool!Start(w)
<1>1. Pool!Cardinality(Is({"running"})) < MaxConcurrent
  BY PoolCounts DEF Running
<1> QED
  BY <1>1 DEF Pool!Start, Queued, Running

\* A pump starts the oldest task of its key, with a slot and the key free.
LEMMA StartIsAllowed ==
  ASSUME QueueInv, NEW t \in Task, PumpStarts(t)
  PROVE  Pool!Start(t)
<1> USE DEF QueueInv
<1>1. frames # <<>> /\ Top.slots > 0 /\ Comes(t) /\ Startable(t) /\ UNCHANGED <<list, key>>
      /\ status' = [status EXCEPT ![t] = "running"]
  BY DEF PumpStarts
<1>2. t \in list
  BY <1>1 DEF Startable, Books, EndedOnce, Active
<1>3. Exact(Top) /\ t \in Queued /\ ~Blocked(t, RunningKeys) /\ Cardinality(Running) < MaxConcurrent
  BY <1>1, <1>2, StartIsExact
<1>4. Running' = Running \cup {t} /\ Queued' = Queued \ {t}
  BY <1>1, <1>2 DEF Queued, Running, Is, TypeOK, Startable
<1>5. key[t] # NoKey => \A r \in Running : key[r] # key[t]
  BY <1>3 DEF Blocked, RunningKeys
<1>6. ASSUME key[t] # NoKey, NEW v \in Queued, key[v] = key[t] PROVE t <= v
  <2>1. v \in Top.left
    BY <1>3, <1>6 DEF Exact, Blocked
  <2> QED
    BY <1>1, <2>1 DEF Comes
<1> QED
  BY <1>1, <1>3, <1>4, <1>5, <1>6, PoolStarts

LEMMA SubmitIsAllowed ==
  ASSUME QueueInv, NEW k \in Keys \cup {NoKey}, NEW how \in Kinds, Enqueue(k, how)
  PROVE  nextId \in Task /\ Pool!Submit(nextId)
<1> USE DEF QueueInv
<1>1. PICK t : t = nextId
  OBVIOUS
<1>2. t \in Task
  BY <1>1, QueueAssumption DEF Enqueue, TypeOK, Task
<1>3. /\ status' = [status EXCEPT ![t] = "queued"] /\ key' = [key EXCEPT ![t] = k]
      /\ list' = Trimmed(list \cup {t}, status')
  BY <1>1 DEF Enqueue
<1>4. \A u \in list : u \in Task /\ u # t /\ status[u] # "none" /\ u < t
  BY <1>1, <1>2 DEF Books, TypeOK, Task
<1>5. /\ list' \subseteq list \cup {t} /\ t \in list'
      /\ \A u \in list : status[u] \in Active => u \in list'
  <2>1. status'[t] = "queued" /\ \A u \in list : status'[u] = status[u]
    BY <1>2, <1>3, <1>4 DEF TypeOK
  <2> QED
    BY <1>3, <2>1, TrimmedIs DEF Active
<1>6. Queued' = Queued \cup {t} /\ Running' = Running
  BY <1>2, <1>3, <1>4, <1>5 DEF Queued, Running, Is, TypeOK, Active
<1>7. \A v \in Queued \cup Running : v < t
  BY <1>4 DEF Queued, Running, Is
<1> QED
  BY <1>1, <1>2, <1>3, <1>6, <1>7, PoolSubmits

\* Every other step ends work, or changes nothing the pool speaks of.
LEMMA OthersEnd ==
  ASSUME QueueInv, Next, \A t \in Task : ~PumpStarts(t),
         \A k \in Keys \cup {NoKey}, how \in Kinds : ~Enqueue(k, how)
  PROVE  Pool!End
<1> USE DEF QueueInv
<1>1. key' = key
  BY DEF Next, Pump, PumpReturns, PumpSkips, PumpFails, tasksVars, CancelActive, Cancelling, CancelsNext,
         CancelsEnd, ClearFinished, Reload, Cancel, Cancelled, Forget, Transport, HandOff, Disconnect, TooLarge,
         WatchEnds, BrowserEnds, Others, OtherLoads, OtherEnqueues, OtherMoves, OtherClears, OtherWrites
<1> SUFFICES Queued' \subseteq Queued /\ Running' \subseteq Running
  BY <1>1, PoolDefs
<1>2. ASSUME list' \subseteq list, NEW t \in Task, NEW s \in Final \cup {"error"},
             status' = [status EXCEPT ![t] = s]
      PROVE  Queued' \subseteq Queued /\ Running' \subseteq Running
  BY <1>2 DEF Queued, Running, Is, TypeOK, Final
<1>3. ASSUME list' \subseteq list, status' = status
      PROVE  Queued' \subseteq Queued /\ Running' \subseteq Running
  BY <1>3 DEF Queued, Running, Is
<1>4. CASE Pump
  BY <1>2, <1>3, <1>4 DEF Pump, PumpReturns, PumpSkips, PumpFails, tasksVars
<1>5. CASE CancelActive \/ CancelsEnd
  BY <1>3, <1>5 DEF CancelActive, CancelsEnd, tasksVars
<1>6. CASE ClearFinished \/ \E t \in Task : Forget(t)
  BY <1>3, <1>6 DEF ClearFinished, Forget, Is
<1>7. CASE Reload
  <2>1. \A t \in DOMAIN stored : t \in Task /\ stored[t] \in Kept
    BY DEF TypeOK
  <2>2. \A t \in list' : status'[t] \notin Active
    BY <1>7, <2>1 DEF Reload, Loaded, Active
  <2> QED
    BY <2>2 DEF Queued, Running, Is, Active
<1>8. CASE \E t \in Task : Cancel(t) \/ CancelsNext(t) \/ Transport(t)
  BY <1>2, <1>3, <1>8 DEF Cancel, CancelsNext, Cancelled, Transport, HandOff, Disconnect, TooLarge, WatchEnds,
     BrowserEnds, Settle, Final
<1>9. CASE Others
  BY <1>3, <1>9 DEF Others, OtherLoads, OtherEnqueues, OtherMoves, OtherClears, OtherWrites, tasksVars
<1> QED
  BY <1>4, <1>5, <1>6, <1>7, <1>8, <1>9 DEF Next, Cancelling

\* "Tasks sharing a key run one at a time in FIFO order; different keys run concurrently
\* up to MAX_CONCURRENT": the queue implements KeyedPool.
THEOREM ImplementsKeyedPool == Spec => Keyed
<1>1. Init => Pool!Init
  BY PoolDefs DEF Init, Queued, Running, Is
<1>2. QueueInv /\ [Next]_vars => [Pool!Next]_(Pool!vars)
  <2> SUFFICES ASSUME QueueInv, [Next]_vars PROVE Pool!Next \/ UNCHANGED Pool!vars
    OBVIOUS
  <2>1. CASE UNCHANGED vars
    <3>1. Queued' = Queued /\ Running' = Running /\ key' = key
      BY <2>1 DEF vars, tasksVars, Queued, Running, Is
    <3> QED
      BY <3>1, PoolDefs
  <2>2. CASE \E t \in Task : PumpStarts(t)
    BY <2>2, StartIsAllowed DEF Pool!Next
  <2>3. CASE \E k \in Keys \cup {NoKey}, how \in Kinds : Enqueue(k, how)
    BY <2>3, SubmitIsAllowed DEF Pool!Next
  <2>4. CASE /\ Next /\ \A t \in Task : ~PumpStarts(t)
             /\ \A k \in Keys \cup {NoKey}, how \in Kinds : ~Enqueue(k, how)
    BY <2>4, OthersEnd DEF Pool!Next
  <2> QED
    BY <2>1, <2>2, <2>3, <2>4
<1> QED
  BY <1>1, <1>2, InvHolds, PTL DEF Spec, Keyed, Pool!Spec

-----------------------------------------------------------------------------
(***************************************************************************)
(* Proofs about BrowserPull, what a task of the queue does that downloads  *)
(* images with the browser, for any plans, images, layers and versions of  *)
(* a tag: the daemon takes in whole images only, done means done, and a    *)
(* task that was cancelled starts nothing.                                 *)
(*                                                                         *)
(* A whole image is a matter of counting: of the chunks of the tar that    *)
(* were read (Produced), each is in hand, in the socket or in the daemon   *)
(* (Counted), so nothing is missing when the end arrives behind them.      *)
(***************************************************************************)
\* The inductive invariant.

Verbs == {"create", "upgrade", "up", "build", "pull", "redeploy"}
Work == {Pull(r) : r \in Refs} \cup {Post(v) : v \in Verbs}
Hows == {"running", "ok", "failed", "handed"}

\* What is left of a task are pulls of known images and known requests.
Typed == PullTypeOK /\ todo \in Seq(Work) /\ op \in Seq(Hows)

Resolving == {"platform", "manifest", "digest", "config", "inspect"}

\* A runner is at its await because of the first step that is left.
Placed ==
  /\ pc = "end" <=> outcome # "running"
  /\ pc \in Resolving \cup Streaming => todo # <<>> /\ Head(todo).do = "pull"
  /\ pc \in {"post", "reply", "watch"} => todo # <<>> /\ Head(todo).do = "post"
  /\ outcome = "done" => todo = <<>>

OneVersion == img.top = img.manifest /\ img.manifest = img.config
\* The daemon may still take the image in.
Importing == load.state \in {"reading", "complete"} /\ ~load.loaded

\* An import is of the image that was resolved last, and a runner does not go on before it is over.
Loading ==
  /\ pc = "config" => img.top = img.manifest
  /\ pc \in {"inspect"} \cup Streaming => OneVersion
  /\ pc = "connect" => sock = NoSock /\ tar = NoTar /\ load = NoLoad
  /\ load.state = "reading" => pc \in {"pump", "loaded?"}
  /\ Importing => pc \in {"pump", "loaded?", "end"} /\ OneVersion /\ outcome # "done"

\* The layers before the one at l that are in the tar, and the chunks of the tar up to chunk r of layer l.
Before(l) == {i \in 1..Depth : i < l /\ First(i)}
Chunks(n) == LayerSize * n
Produced(l, r) == IF l = 0 THEN 0
                  ELSE IF l = Depth + 2 THEN TarSize
                  ELSE 1 + Chunks(Cardinality(Before(l))) + r

\* Every chunk that was read of the tar is in hand, in the socket or in the daemon.
Counted ==
  /\ IF InLayer THEN First(tar.layer) /\ tar.read < LayerSize ELSE tar.read = 0
  /\ load.state = "reading" =>
       /\ load.got + sock.buffered + (IF sock.held THEN 1 ELSE 0) = Produced(tar.layer, tar.read)
       /\ sock.eof => ~sock.held /\ tar.layer = Depth + 2
  /\ load.state = "complete" => load.got = TarSize

Well(o) == op[o] \in {"ok", "handed"}

\* A runner goes on from a request only when it ended well, and from one that was handed to the
\* helper only when that one ended well or stopped phyless.
RequestsWell ==
  /\ pc = "reply" => op # <<>> /\ \A o \in 1..Len(op) - 1 : Well(o)
  /\ pc \notin {"reply", "end"} \/ outcome = "done" => \A o \in 1..Len(op) : Well(o)
  /\ pc \notin {"watch", "end"} \/ outcome = "done" =>
       ((\E o \in 1..Len(op) : op[o] = "handed") => helper.state = "ok" \/ helper.stops)

PullInv == Typed /\ Placed /\ Loading /\ Counted /\ RequestsWell

-----------------------------------------------------------------------------
\* Facts about the tar.

LEMMA Numbers ==
  /\ Depth \in Nat /\ LayerSize \in Nat \ {0}
  /\ \A n \in Nat : Chunks(n) \in Nat /\ Chunks(n + 1) = Chunks(n) + LayerSize
<1>1. Layers \in Seq(STRING) /\ LayerSize \in Nat \ {0}
  BY BrowserPullAssumption, Zenon
<1>2. Depth \in Nat
  BY <1>1, LenProperties DEF Depth
<1>3. \A n \in Nat, k \in Nat : k * n \in Nat /\ k * (n + 1) = k * n + k
  OBVIOUS
<1> QED BY <1>1, <1>2, <1>3 DEF Chunks

\* The next blob to write: none before it is written for the first time.
LEMMA NextLayerIs ==
  ASSUME NEW i \in 1..Depth + 1
  PROVE  /\ NextLayer(i) \in i..Depth + 1
         /\ NextLayer(i) = Depth + 1 \/ First(NextLayer(i))
         /\ \A j \in i..NextLayer(i) - 1 : ~First(j)
<1> DEFINE S == {k \in i..Depth + 1 : k = Depth + 1 \/ First(k)}
<1>1. S \subseteq Nat /\ Depth + 1 \in S
  BY Numbers
<1>2. PICK k \in S : \A y \in S : ~(<<y, k>> \in OpToRel(<, Nat))
  BY <1>1, NatLessThanWellFounded, WFMin, Zenon
<1>3. \A j \in i..k - 1 : ~First(j)
  <2> SUFFICES ASSUME NEW j \in i..k - 1, First(j) PROVE FALSE
    OBVIOUS
  <2>1. k \in i..Depth + 1 /\ j \in Nat /\ j < k /\ j \in i..Depth + 1
    BY Numbers
  <2>2. j \in S
    BY <2>1
  <2>3. ~(<<j, k>> \in OpToRel(<, Nat))
    BY <1>2, <2>2
  <2>4. k \in Nat
    BY <1>1
  <2> QED BY <2>1, <2>3, <2>4 DEF OpToRel
<1>4. \E x \in i..Depth + 1 :
        /\ x = Depth + 1 \/ First(x)
        /\ \A j \in i..x - 1 : ~First(j)
  BY <1>2, <1>3
<1> QED BY <1>4, Zenon DEF NextLayer

LEMMA BeforeIsFinite ==
  ASSUME NEW l \in Nat
  PROVE  IsFiniteSet(Before(l)) /\ Cardinality(Before(l)) \in Nat
<1>1. IsFiniteSet(1..Depth)
  BY Numbers, FS_Interval
<1>2. Before(l) \subseteq 1..Depth
  BY DEF Before
<1> QED BY <1>1, <1>2, FS_Subset, FS_CardinalityType

\* The tar begins with its head and the first blob.
LEMMA HeadIsOne == Produced(NextLayer(1), 0) = 1 /\ Produced(0, 0) = 0
<1> DEFINE k == NextLayer(1)
<1>1. 1 \in 1..Depth + 1
  BY Numbers
<1>2. k \in 1..Depth + 1 /\ \A j \in 1..k - 1 : ~First(j)
  BY <1>1, NextLayerIs
<1>3. Before(k) = {}
  BY <1>2 DEF Before
<1>4. Cardinality({}) = 0 /\ Chunks(0) = 0
  BY FS_EmptySet, Numbers DEF Chunks
<1>5. k \in Nat /\ k # 0 /\ k # Depth + 2
  BY <1>2, Numbers
<1> HIDE DEF k
<1>6. Produced(k, 0) = 1 + Chunks(Cardinality(Before(k))) + 0
  BY <1>5 DEF Produced
<1> QED BY <1>3, <1>4, <1>6 DEF Produced, k

\* The chunks of a blob follow those of the one before.
LEMMA LayerCounts ==
  ASSUME NEW i \in 1..Depth, First(i)
  PROVE  Produced(NextLayer(i + 1), 0) = Produced(i, LayerSize - 1) + 1
<1> DEFINE k == NextLayer(i + 1)
<1>1. i + 1 \in 1..Depth + 1
  BY Numbers
<1>2. k \in i + 1..Depth + 1 /\ \A j \in i + 1..k - 1 : ~First(j)
  BY <1>1, NextLayerIs
<1>3. k \in Nat /\ k # 0 /\ k # Depth + 2 /\ i \in Nat /\ i # 0 /\ i # Depth + 2 /\ i < k
  BY <1>2, Numbers
<1> HIDE DEF k
<1>4. Before(k) = Before(i) \cup {i} /\ i \notin Before(i)
  <2>1. ASSUME NEW j \in 1..Depth, First(j), j < k
        PROVE  j < i \/ j = i
    BY <1>2, <1>3, <2>1, Numbers
  <2> QED BY <1>3, <2>1 DEF Before
<1>5. Cardinality(Before(k)) = Cardinality(Before(i)) + 1
  BY <1>3, <1>4, BeforeIsFinite, FS_AddElement
<1>6. Cardinality(Before(i)) \in Nat
  BY <1>3, BeforeIsFinite
<1> DEFINE n == Cardinality(Before(i))
<1>7. Produced(k, 0) = 1 + Chunks(n + 1) + 0 /\ Produced(i, LayerSize - 1) = 1 + Chunks(n) + (LayerSize - 1)
  BY <1>3, <1>5 DEF Produced
<1>8. n \in Nat
  BY <1>6
<1> HIDE DEF n
<1>9. Chunks(n) \in Nat /\ Chunks(n + 1) = Chunks(n) + LayerSize /\ LayerSize \in Nat
  BY <1>8, Numbers
<1> QED BY <1>7, <1>9 DEF k

\* Head, blobs and tail are all of it.
LEMMA TailIsLast == TarSize \in Nat /\ Produced(Depth + 2, 0) = TarSize /\ Produced(Depth + 1, 0) + 1 = TarSize
<1> DEFINE n == Cardinality(Before(Depth + 1))
<1>1. Before(Depth + 1) = {i \in 1..Depth : First(i)}
  BY Numbers DEF Before
<1>2. n \in Nat
  BY Numbers, BeforeIsFinite
<1>3. TarSize = 2 + Chunks(n)
  BY <1>1 DEF TarSize, Chunks
<1>4. Produced(Depth + 1, 0) = 1 + Chunks(n) + 0
  BY Numbers DEF Produced
<1> HIDE DEF n
<1>5. Chunks(n) \in Nat
  BY <1>2, Numbers
<1> QED BY <1>3, <1>4, <1>5, Numbers DEF Produced

LEMMA ProducedIsNat ==
  ASSUME NEW l \in 0..Depth + 2, NEW r \in Nat
  PROVE  Produced(l, r) \in Nat
<1>1. Cardinality(Before(l)) \in Nat
  BY BeforeIsFinite, Numbers
<1>2. Chunks(Cardinality(Before(l))) \in Nat
  BY <1>1, Numbers
<1> QED BY <1>2, TailIsLast DEF Produced

\* Within a layer one chunk is one more.
LEMMA LayerGrows ==
  ASSUME NEW i \in 1..Depth, NEW r \in Nat
  PROVE  Produced(i, r + 1) = Produced(i, r) + 1
<1>1. Cardinality(Before(i)) \in Nat
  BY BeforeIsFinite, Numbers
<1>2. Chunks(Cardinality(Before(i))) \in Nat
  BY <1>1, Numbers
<1> QED BY <1>2, Numbers DEF Produced

-----------------------------------------------------------------------------
\* Facts about what is left of a task.

LEMMA WorkIs ==
  /\ \A w \in Work : w.do \in {"pull", "post"} /\ (w.do = "pull" => w.arg \in Refs)
  /\ Work \subseteq [do : {"pull", "post"}, arg : Refs \cup Verbs]
  /\ \A r \in Refs : Pull(r) \in Work
  /\ \A v \in Verbs : Post(v) \in Work
<1>1. /\ \A r \in Refs : Pull(r) \in Work
      /\ \A v \in Verbs : Post(v) \in Work
      /\ \A w \in Work : (\E r \in Refs : w = Pull(r)) \/ (\E v \in Verbs : w = Post(v))
  BY Zenon DEF Work
<1>2. \A r \in Refs : /\ Pull(r).do = "pull" /\ Pull(r).arg = r
                      /\ Pull(r) \in [do : {"pull", "post"}, arg : Refs \cup Verbs]
  BY DEF Pull
<1>3. \A v \in Verbs : /\ Post(v).do = "post"
                       /\ Post(v) \in [do : {"pull", "post"}, arg : Refs \cup Verbs]
  BY DEF Post
<1> QED BY <1>1, <1>2, <1>3

LEMMA PullsAreWork ==
  ASSUME NEW rs \in Seq(Refs)
  PROVE  Pulls(rs) \in Seq(Work)
<1>1. Len(rs) \in Nat /\ \A i \in 1..Len(rs) : rs[i] \in Refs
  BY LenProperties, ElementOfSeq
<1>2. \A i \in 1..Len(rs) : Pull(rs[i]) \in Work
  BY <1>1, WorkIs
<1> QED BY <1>1, <1>2, IsASeq DEF Pulls

LEMMA TasksAre ==
  ASSUME task \in Tasks
  PROVE  /\ task.kind \in {"pull", "create", "upgrade", "compose", "update"}
         /\ task.ref \in Refs /\ task.platform \in BOOLEAN
BY BrowserPullAssumption

\* One request, or none.
LEMMA ARequest ==
  ASSUME NEW v \in Verbs
  PROVE  <<Post(v)>> \in Seq(Work) /\ <<>> \in Seq(Work)
BY WorkIs

LEMMA StepsAreWork ==
  ASSUME NEW plan, plan.images \in Seq(Refs), plan.bases \in Seq(Refs)
  PROVE  Steps(plan) \in Seq(Work) /\ ComposeUpdate(plan) \in Seq(Work)
<1>1. Pulls(plan.images) \in Seq(Work) /\ Pulls(plan.bases) \in Seq(Work)
  BY PullsAreWork
<1>2. /\ <<Post("create")>> \in Seq(Work) /\ <<Post("upgrade")>> \in Seq(Work) /\ <<Post("up")>> \in Seq(Work)
      /\ <<Post("build")>> \in Seq(Work) /\ <<Post("pull")>> \in Seq(Work) /\ <<Post("redeploy")>> \in Seq(Work)
      /\ <<>> \in Seq(Work)
  BY ARequest DEF Verbs
<1>3. \A s, t \in Seq(Work) : s \o t \in Seq(Work)
  BY ConcatProperties
<1>4. ComposePull(plan) \in Seq(Work)
  BY <1>1, <1>2, <1>3 DEF ComposePull
<1>5. ComposeUpdate(plan) \in Seq(Work)
  <2> DEFINE a == IF task.canBuild THEN Pulls(plan.bases) \o <<Post("build")>> ELSE <<>>
             b == IF ~task.canBuild \/ plan.images # <<>> THEN <<Post("pull")>> ELSE <<>>
             c == IF task.canBuild THEN <<Post("build")>> ELSE <<>>
             d == IF task.restart THEN <<Post("redeploy")>> ELSE <<>>
  <2>1. a \in Seq(Work) /\ b \in Seq(Work) /\ c \in Seq(Work) /\ d \in Seq(Work)
    BY <1>1, <1>2, <1>3
  <2>2. ComposeUpdate(plan) = (IF task.mode = "browser" THEN a \o Pulls(plan.images) ELSE b \o c) \o d
    BY DEF ComposeUpdate
  <2> HIDE DEF a, b, c, d
  <2>3. (IF task.mode = "browser" THEN a \o Pulls(plan.images) ELSE b \o c) \in Seq(Work)
    BY <1>1, <1>3, <2>1
  <2> QED BY <1>3, <2>1, <2>2, <2>3
<1> QED BY <1>4, <1>5 DEF Steps

\* Where a runner goes with the steps that are left.
LEMMA Goes ==
  ASSUME task \in Tasks, NEW rest \in Seq(Work), Continue(rest)
  PROVE  /\ todo' \in Seq(Work) /\ todo' = rest
         /\ rest = <<>> => pc' = "end" /\ outcome' = "done"
         /\ rest # <<>> => /\ outcome' = outcome
                           /\ pc' \in {"post", "manifest", "platform"}
                           /\ pc' = "post" <=> Head(rest).do = "post"
                           /\ pc' # "post" <=> Head(rest).do = "pull"
<1>1. rest # <<>> => Head(rest) \in Work
  BY HeadTailProperties
<1>2. rest # <<>> => Head(rest).do \in {"pull", "post"}
  BY <1>1, WorkIs
<1>3. CASE rest = <<>>
  BY <1>3 DEF Continue
<1>4. CASE rest # <<>>
  BY <1>2, <1>4 DEF Continue
<1> QED BY <1>3, <1>4

\* The steps a runner goes on with when the one at its head is over.
LEMMA Left ==
  ASSUME todo \in Seq(Work), todo # <<>>
  PROVE  Tail(todo) \in Seq(Work) /\ Head(todo) \in Work
BY HeadTailProperties

Moved == pc' \in Fetches \cup Streaming \cup {"watch", "end"} /\ outcome' \in {"running", "done", "error", "cancelled"}

\* Every step leaves a task at an await of its, with known steps.
LEMMA RunnerStays ==
  ASSUME Typed, Placed, PullNext
  PROVE  /\ todo' \in Seq(Work) /\ Moved /\ task' = task
         /\ Placed'
<1> USE DEF Moved
<1>1. /\ task \in Tasks /\ todo \in Seq(Work) /\ pc \in Fetches \cup Streaming \cup {"watch", "end"}
      /\ outcome \in {"running", "done", "error", "cancelled"}
  BY DEF Typed, PullTypeOK
<1>2. ASSUME NEW rest \in Seq(Work), Continue(rest), pc # "end", task' = task
      PROVE  todo' \in Seq(Work) /\ Moved /\ task' = task /\ Placed'
  <2>1. CASE rest = <<>>
    BY <1>1, <1>2, <2>1, Goes DEF Placed, Resolving, Streaming
  <2>2. CASE rest # <<>>
    BY <1>1, <1>2, <2>2, Goes DEF Placed, Resolving, Streaming, Fetches
  <2> QED BY <2>1, <2>2
<1>3. ASSUME Throw, pc # "end", task' = task
      PROVE  todo' \in Seq(Work) /\ Moved /\ task' = task /\ Placed'
  BY <1>1, <1>3 DEF Placed, Throw, Resolving, Streaming
<1>4. ASSUME UNCHANGED <<task, todo, outcome>>,
             \/ pc' = pc
             \/ pc \in Resolving \cup Streaming /\ pc' \in Resolving \cup Streaming
             \/ pc \in {"post", "reply", "watch"} /\ pc' \in {"post", "reply", "watch"}
      PROVE  todo' \in Seq(Work) /\ Moved /\ task' = task /\ Placed'
  BY <1>1, <1>4 DEF Placed, Resolving, Streaming, Fetches
<1>5. CASE Planned
  <2>1. ASSUME NEW plan \in Plans
        PROVE  Steps(plan) \in Seq(Work)
    BY BrowserPullAssumption, StepsAreWork
  <2>2. ComposeUpdate([images |-> <<>>, bases |-> <<>>, rejected |-> {}]) \in Seq(Work)
    <3> DEFINE none == [images |-> <<>>, bases |-> <<>>, rejected |-> {}]
    <3>1. none.images \in Seq(Refs) /\ none.bases \in Seq(Refs)
      OBVIOUS
    <3> HIDE DEF none
    <3>2. ComposeUpdate(none) \in Seq(Work)
      BY <3>1, StepsAreWork
    <3> QED BY <3>2 DEF none
  <2> QED BY <1>2, <1>3, <1>5, <2>1, <2>2 DEF Planned
<1>6. CASE Inspected
  <2>1. Action \in Seq(Work)
    BY <1>6, ARequest DEF Action, Inspected, Verbs
  <2>2. <<Pull(task.ref)>> \in Seq(Work)
    BY <1>1, TasksAre, WorkIs
  <2>3. <<Pull(task.ref)>> \o Action \in Seq(Work)
    BY <2>1, <2>2, ConcatProperties
  <2> QED BY <1>2, <1>6, <2>3 DEF Inspected
<1>7. CASE FetchFails
  BY <1>3, <1>7 DEF FetchFails, Fetches
<1>8. CASE GotPlatform \/ GotManifest \/ GotDigest \/ GotConfig
  BY <1>4, <1>8 DEF GotPlatform, GotManifest, GotDigest, GotConfig, Resolving
<1>9. CASE InspectedLocal
  <2>1. todo # <<>>
    BY <1>9 DEF InspectedLocal, Placed, Resolving
  <2>2. CASE Continue(Tail(todo))
    BY <1>1, <1>2, <1>9, <2>1, <2>2, Left DEF InspectedLocal
  <2>3. CASE pc' = "connect" /\ UNCHANGED <<todo, outcome>>
    BY <1>4, <1>9, <2>3 DEF InspectedLocal, Resolving, Streaming
  <2> QED BY <1>9, <2>2, <2>3 DEF InspectedLocal
<1>10. CASE SendPost \/ HandToHelper
  BY <1>4, <1>10 DEF SendPost, HandToHelper
<1>11. CASE StreamEnds \/ PollHelper
  <2>1. todo # <<>> /\ pc # "end" /\ task' = task
    BY <1>11 DEF StreamEnds, PollHelper, Placed
  <2>2. Continue(Tail(todo)) \/ Throw
    BY <1>11 DEF StreamEnds, PollHelper
  <2> QED BY <1>1, <1>2, <1>3, <2>1, <2>2, Left
<1>12. CASE WatchAborted \/ PollTimeout
  BY <1>3, <1>12 DEF WatchAborted, PollTimeout
<1>13. CASE Connected \/ OpenLayer \/ ReadTar \/ Send \/ SendEof
  BY <1>4, <1>13 DEF Connected, OpenLayer, ReadTar, Send, SendEof, Streaming
<1>14. CASE Aborted \/ Breaks
  BY <1>3, <1>14 DEF Aborted, Breaks, LayerFails, SocketDies, Refused, Fail, Streaming
<1>15. CASE Imported
  <2>1. todo # <<>> /\ pc # "end" /\ task' = task
    BY <1>15 DEF Imported, Placed, Streaming
  <2> QED BY <1>1, <1>2, <1>15, <2>1, Left DEF Imported
<1>16. CASE Backend \/ Restarts \/ TagMoves \/ Abort
  BY <1>4, <1>16 DEF Backend, Arrives, EofArrives, DaemonLoads, OpEnds, HelperEnds, Restarts, TagMoves, Abort
<1> QED BY <1>5, <1>6, <1>7, <1>8, <1>9, <1>10, <1>11, <1>12, <1>13, <1>14, <1>15, <1>16
     DEF PullNext, Settles, Streams

-----------------------------------------------------------------------------
\* Types.

ImgTypes == img \in [top : 0..MaxTagVersion, manifest : 0..MaxTagVersion, config : 0..MaxTagVersion]
TarTypes == tar \in [layer : 0..Len(Layers) + 2, read : 0..LayerSize, body : BOOLEAN]
SockTypes == sock \in [state : {"none", "open", "closed"}, held : BOOLEAN, buffered : 0..Threshold + 1, eof : BOOLEAN]
LoadTypes == load \in [got : Nat, state : {"none", "reading", "complete", "failed"}, loaded : BOOLEAN]
StreamTypes == TarTypes /\ SockTypes /\ LoadTypes
WorldTypes == /\ aborted \in BOOLEAN /\ up \in BOOLEAN
              /\ tag \in [Refs -> Versions] /\ local \in [Refs -> 0..MaxTagVersion]
              /\ helper \in [state : {"none", "running", "ok", "failed"}, stops : BOOLEAN]

LEMMA Bounds == MaxTagVersion \in Nat \ {0} /\ Threshold \in Nat /\ LayerSize \in Nat \ {0} /\ Depth \in Nat
BY BrowserPullAssumption, Numbers

LEMMA OpStays ==
  ASSUME Typed, RequestsWell, PullNext
  PROVE  op' \in Seq(Hows)
<1>1. op \in Seq(Hows)
  BY DEF Typed
<1>2. ASSUME NEW how \in Hows, op' = [op EXCEPT ![Len(op)] = how], op # <<>>
      PROVE  op' \in Seq(Hows)
  <2>1. Len(op) \in 1..Len(op)
    BY <1>1, <1>2, EmptySeq
  <2> QED BY <1>1, <1>2, <2>1, ExceptSeq
<1>3. CASE FetchFails
  <2>1. CASE op' = op
    BY <1>1, <2>1
  <2>2. CASE pc = "reply" /\ op' = [op EXCEPT ![Len(op)] = "failed"]
    BY <1>2, <2>2 DEF Hows, RequestsWell
  <2> QED BY <1>3, <2>1, <2>2 DEF FetchFails
<1>4. CASE SendPost
  BY <1>1, <1>4, AppendProperties DEF SendPost, Hows
<1>5. CASE HandToHelper \/ OpEnds
  BY <1>2, <1>5 DEF HandToHelper, OpEnds, Ended, Hows, RequestsWell
<1>6. CASE op' = op
  BY <1>1, <1>6
<1> QED BY <1>3, <1>4, <1>5, <1>6 DEF PullNext, Settles, Streams, Breaks, Backend,
  Planned, Inspected, GotPlatform, GotManifest, GotDigest, GotConfig, InspectedLocal, StreamEnds,
  WatchAborted, PollHelper, PollTimeout, Connected, OpenLayer, ReadTar, Send, SendEof, Aborted, Imported,
  LayerFails, SocketDies, Refused, Arrives, EofArrives, DaemonLoads, HelperEnds, Restarts, TagMoves, Abort

LEMMA ImgStays ==
  ASSUME Typed, Placed, PullNext
  PROVE  ImgTypes'
<1> USE Bounds DEF ImgTypes
<1>1. ImgTypes /\ tag \in [Refs -> Versions] /\ todo \in Seq(Work)
  BY DEF Typed, PullTypeOK
<1>2. CASE GotManifest
  <2>1. Ref \in Refs
    BY <1>1, <1>2, Left, WorkIs DEF GotManifest, Placed, Resolving, Ref
  <2>2. tag[Ref] \in 0..MaxTagVersion
    BY <1>1, <2>1 DEF Versions
  <2> QED BY <1>2, <2>2 DEF GotManifest
<1>3. CASE GotDigest \/ GotConfig
  BY <1>1, <1>3 DEF GotDigest, GotConfig
<1>4. CASE img' = img
  BY <1>1, <1>4
<1> QED BY <1>2, <1>3, <1>4 DEF PullNext, Settles, Streams, Breaks, Backend,
  Planned, Inspected, FetchFails, GotPlatform, InspectedLocal, SendPost, StreamEnds, HandToHelper,
  WatchAborted, PollHelper, PollTimeout, Connected, OpenLayer, ReadTar, Send, SendEof, Aborted, Imported,
  LayerFails, SocketDies, Refused, Arrives, EofArrives, DaemonLoads, OpEnds, HelperEnds, Restarts, TagMoves,
  Abort

LEMMA WorldStays ==
  ASSUME Typed, Placed, PullNext
  PROVE  WorldTypes'
<1> USE Bounds DEF WorldTypes
<1>1. WorldTypes /\ ImgTypes
  BY DEF Typed, PullTypeOK, ImgTypes
<1>2. CASE DaemonLoads
  <2>1. local' = [local EXCEPT ![Ref] = img.manifest] /\ UNCHANGED <<aborted, up, tag, helper>>
    BY <1>2 DEF DaemonLoads
  <2>2. img.manifest \in 0..MaxTagVersion
    BY <1>1 DEF ImgTypes
  <2> QED BY <1>1, <2>1, <2>2
<1>3. CASE HandToHelper \/ HelperEnds \/ Restarts
  <2>1. CASE HandToHelper
    BY <1>1, <2>1 DEF HandToHelper, world
  <2>2. CASE HelperEnds
    <3>1. UNCHANGED <<aborted, tag, local>>
      BY <2>2 DEF HelperEnds
    <3>2. \E h \in {"ok", "failed"} : helper' = [helper EXCEPT !.state = h]
      BY <2>2 DEF HelperEnds
    <3>3. up' \in BOOLEAN
      BY <1>1, <2>2 DEF HelperEnds
    <3> QED BY <1>1, <3>1, <3>2, <3>3
  <2>3. CASE Restarts
    BY <1>1, <2>3 DEF Restarts
  <2> QED BY <1>3, <2>1, <2>2, <2>3
<1>4. CASE TagMoves
  BY <1>1, <1>4 DEF TagMoves, Versions
<1>5. CASE Abort
  BY <1>1, <1>5 DEF Abort, world
<1>6. CASE UNCHANGED <<aborted, helper, world>>
  BY <1>1, <1>6 DEF world
<1> QED BY <1>2, <1>3, <1>4, <1>5, <1>6 DEF PullNext, Settles, Streams, Breaks, Backend,
  Planned, Inspected, FetchFails, GotPlatform, GotManifest, GotDigest, GotConfig, InspectedLocal, SendPost,
  StreamEnds,
  WatchAborted, PollHelper, PollTimeout, Connected, OpenLayer, ReadTar, Send, SendEof, Aborted, Imported,
  LayerFails, SocketDies, Refused, Arrives, EofArrives, OpEnds

LEMMA StreamStays ==
  ASSUME Typed, Placed, PullNext
  PROVE  StreamTypes'
<1> USE Bounds DEF StreamTypes, TarTypes, SockTypes, LoadTypes
<1>1. StreamTypes /\ aborted \in BOOLEAN
  BY DEF Typed, PullTypeOK
<1>2. Len(Layers) = Depth
  BY DEF Depth
<1>3. ASSUME Close PROVE TarTypes' /\ SockTypes'
  BY <1>1, <1>3 DEF Close
<1>4. ASSUME Abandon PROVE LoadTypes'
  BY <1>1, <1>4 DEF Abandon
<1>5. CASE InspectedLocal
  <2>1. NoTar \in [layer : 0..Len(Layers) + 2, read : 0..LayerSize, body : BOOLEAN]
    BY <1>2 DEF NoTar
  <2>2. NoSock \in [state : {"none", "open", "closed"}, held : BOOLEAN, buffered : 0..Threshold + 1, eof : BOOLEAN]
    BY DEF NoSock
  <2>3. NoLoad \in [got : Nat, state : {"none", "reading", "complete", "failed"}, loaded : BOOLEAN]
    BY DEF NoLoad
  <2> QED BY <1>1, <1>5, <2>1, <2>2, <2>3 DEF InspectedLocal, stream
<1>6. CASE Connected \/ OpenLayer
  BY <1>1, <1>6 DEF Connected, OpenLayer
<1>7. CASE ReadTar
  <2>1. ASSUME NEW k \in 0..Depth + 2 PROVE [layer |-> k, read |-> 0, body |-> FALSE] \in
           [layer : 0..Len(Layers) + 2, read : 0..LayerSize, body : BOOLEAN]
    BY <1>2
  <2>2. tar.layer <= Depth + 1 => tar.layer = Depth + 1 \/ NextLayer(tar.layer + 1) \in 0..Depth + 2
    <3> SUFFICES ASSUME tar.layer <= Depth + 1, tar.layer # Depth + 1
                 PROVE  NextLayer(tar.layer + 1) \in 0..Depth + 2
      OBVIOUS
    <3>1. tar.layer + 1 \in 1..Depth + 1
      BY <1>1, <1>2
    <3>2. NextLayer(tar.layer + 1) \in tar.layer + 1..Depth + 1
      BY <3>1, NextLayerIs
    <3> QED BY <3>1, <3>2
  <2>3. CASE InLayer /\ tar.read + 1 < LayerSize
    <3>1. tar.read + 1 \in 0..LayerSize
      BY <1>1, <2>3
    <3>2. tar' = [tar EXCEPT !.read = tar.read + 1] /\ sock' = [sock EXCEPT !.held = TRUE] /\ load' = load
      BY <1>7, <2>3 DEF ReadTar
    <3> QED BY <1>1, <3>1, <3>2
  <2>4. CASE ~(InLayer /\ tar.read + 1 < LayerSize)
    <3> DEFINE k == IF tar.layer = Depth + 1 THEN Depth + 2 ELSE NextLayer(tar.layer + 1)
    <3>1. tar' = [layer |-> k, read |-> 0, body |-> FALSE]
      BY <1>7, <2>4, Zenon DEF ReadTar
    <3>2. k \in 0..Depth + 2
      BY <1>7, <2>2 DEF ReadTar
    <3> HIDE DEF k
    <3>3. TarTypes'
      BY <2>1, <3>1, <3>2
    <3> QED BY <1>1, <1>7, <3>3 DEF ReadTar
  <2> QED BY <2>3, <2>4
<1>8. CASE Send \/ SendEof
  <2>1. CASE Send
    <3>1. sock.buffered + 1 \in 0..Threshold + 1
      BY <1>1, <2>1 DEF Send
    <3>2. sock' = [sock EXCEPT !.held = FALSE, !.buffered = sock.buffered + 1] /\ UNCHANGED <<tar, load>>
      BY <2>1 DEF Send
    <3> QED BY <1>1, <3>1, <3>2
  <2>2. CASE SendEof
    BY <1>1, <2>2 DEF SendEof
  <2> QED BY <1>8, <2>1, <2>2
<1>9. CASE Arrives \/ EofArrives \/ DaemonLoads
  <2>1. CASE Arrives
    <3>1. sock.buffered - 1 \in 0..Threshold + 1 /\ load.got + 1 \in Nat
      BY <1>1, <2>1 DEF Arrives
    <3>2. sock' = [sock EXCEPT !.buffered = sock.buffered - 1] /\ load' = [load EXCEPT !.got = load.got + 1] /\ tar' = tar
      BY <2>1 DEF Arrives
    <3> QED BY <1>1, <3>1, <3>2
  <2>2. CASE EofArrives \/ DaemonLoads
    BY <1>1, <2>2 DEF EofArrives, DaemonLoads
  <2> QED BY <1>9, <2>1, <2>2
<1>10. CASE Aborted \/ LayerFails \/ SocketDies
  BY <1>3, <1>4, <1>10 DEF Aborted, LayerFails, SocketDies, Fail
<1>11. CASE Refused \/ Imported
  BY <1>1, <1>3, <1>11 DEF Refused, Imported, Fail
<1>12. CASE UNCHANGED stream
  BY <1>1, <1>12 DEF stream
<1> QED BY <1>5, <1>6, <1>7, <1>8, <1>9, <1>10, <1>11, <1>12 DEF PullNext, Settles, Streams, Breaks, Backend,
  Planned, Inspected, FetchFails, GotPlatform, GotManifest, GotDigest, GotConfig, SendPost, StreamEnds,
  HandToHelper,
  WatchAborted, PollHelper, PollTimeout, OpEnds, HelperEnds, Restarts, TagMoves, Abort

LEMMA TypesStay ==
  ASSUME Typed, Placed, RequestsWell, PullNext
  PROVE  Typed'
<1>1. todo' \in Seq(Work) /\ Moved /\ task' \in Tasks
  BY RunnerStays DEF Typed, PullTypeOK
<1>2. todo' \in Seq([do : {"pull", "post"}, arg : Refs \cup Verbs])
  BY <1>1, WorkIs, SeqMonotonic
<1>3. op' \in Seq(Hows) /\ \A o \in DOMAIN op' : op'[o] \in Hows
  BY OpStays, ElementOfSeq, LenProperties
<1>4. ImgTypes' /\ WorldTypes' /\ StreamTypes'
  BY ImgStays, WorldStays, StreamStays
<1> QED BY <1>1, <1>2, <1>3, <1>4
  DEF Typed, PullTypeOK, Moved, Verbs, Hows, ImgTypes, WorldTypes, StreamTypes, TarTypes, SockTypes, LoadTypes

-----------------------------------------------------------------------------
\* The import.

LEMMA LoadingStays ==
  ASSUME Typed, Placed, Loading, Counted, PullNext
  PROVE  Loading'
<1>1. StreamTypes /\ Placed' /\ todo \in Seq(Work) /\ task \in Tasks /\ ImgTypes
  BY RunnerStays DEF StreamTypes, TarTypes, SockTypes, LoadTypes, Typed, PullTypeOK, ImgTypes
<1>2. \A r \in Seq(Work) :
        Continue(r) => pc' \in {"post", "manifest", "platform", "end"} /\ (pc' = "end" \/ outcome' = outcome)
  BY <1>1, Goes
<1> USE DEF Importing, OneVersion, Loading, Streaming
\* A runner that is not at an import goes on, or fails, and leaves the import alone.
<1>3. ASSUME pc' \in Fetches \cup {"watch", "end"}, pc' \notin {"config", "inspect"}, UNCHANGED stream,
             pc \notin Streaming \cup {"end"}
      PROVE  Loading'
  BY <1>1, <1>3 DEF stream, Fetches
<1>4. ASSUME Throw, Abandon, UNCHANGED img, pc \in Streaming
      PROVE  Loading'
  BY <1>1, <1>4 DEF Throw, Abandon, StreamTypes, LoadTypes, Placed, NoLoad
<1>5. CASE Planned \/ Inspected
  <2>1. pc' \in {"post", "manifest", "platform", "end"}
    <3>1. pc' = "end" \/ Placed'
      BY <1>1
    <3> QED BY <1>5, <1>1 DEF Planned, Inspected, Continue, Throw
  <2> QED BY <1>3, <1>5, <2>1 DEF Planned, Inspected, Fetches
<1>6. CASE FetchFails
  BY <1>3, <1>6 DEF FetchFails, Throw, Fetches
<1>7. CASE GotPlatform
  BY <1>3, <1>7 DEF GotPlatform, Fetches
<1>8. CASE GotManifest \/ GotDigest
  BY <1>1, <1>8 DEF GotManifest, GotDigest, stream, ImgTypes
<1>9. CASE GotConfig
  BY <1>1, <1>9 DEF GotConfig, stream, ImgTypes
<1>10. CASE InspectedLocal
  <2>1. CASE Continue(Tail(todo)) /\ UNCHANGED stream
    <3>1. Tail(todo) \in Seq(Work)
      BY <1>1, <1>10, Left DEF InspectedLocal, Placed, Resolving
    <3> QED BY <1>2, <1>3, <1>10, <2>1, <3>1 DEF InspectedLocal, Fetches
  <2>2. CASE pc' = "connect" /\ tar' = NoTar /\ sock' = NoSock /\ load' = NoLoad
    BY <1>10, <2>2 DEF InspectedLocal, NoLoad
  <2> QED BY <1>10, <2>1, <2>2 DEF InspectedLocal
<1>11. CASE SendPost \/ HandToHelper \/ WatchAborted \/ PollTimeout
  BY <1>3, <1>11 DEF SendPost, HandToHelper, WatchAborted, PollTimeout, Throw, Fetches
<1>12. CASE StreamEnds \/ PollHelper
  <2>1. Tail(todo) \in Seq(Work)
    BY <1>1, <1>12, Left DEF StreamEnds, PollHelper, Placed
  <2>2. Continue(Tail(todo)) \/ Throw
    BY <1>12 DEF StreamEnds, PollHelper
  <2> QED BY <1>2, <1>3, <1>12, <2>1, <2>2 DEF StreamEnds, PollHelper, Throw, Fetches
<1>13. CASE Connected
  BY <1>1, <1>13 DEF Connected, StreamTypes, LoadTypes, NoLoad, Placed
<1>14. CASE OpenLayer \/ ReadTar \/ Send \/ SendEof
  BY <1>1, <1>14 DEF OpenLayer, ReadTar, Send, SendEof, Placed
<1>15. CASE Aborted \/ LayerFails \/ SocketDies
  BY <1>4, <1>15 DEF Aborted, LayerFails, SocketDies, Fail
<1>16. CASE Refused
  BY <1>1, <1>16 DEF Refused, Fail, Throw, StreamTypes, LoadTypes
<1>17. CASE Imported
  <2>1. Tail(todo) \in Seq(Work)
    BY <1>1, <1>17, Left DEF Imported, Placed
  <2>2. load' = load /\ load.state = "complete" /\ load.loaded /\ UNCHANGED img
    BY <1>17 DEF Imported
  <2> QED BY <1>2, <1>17, <2>1, <2>2 DEF Imported
<1>18. CASE Arrives \/ EofArrives \/ DaemonLoads
  BY <1>1, <1>18 DEF Arrives, EofArrives, DaemonLoads, StreamTypes, LoadTypes, Placed
<1>19. CASE UNCHANGED <<pc, outcome, img, stream>>
  BY <1>1, <1>19 DEF stream
<1> QED BY <1>5, <1>6, <1>7, <1>8, <1>9, <1>10, <1>11, <1>12, <1>13, <1>14, <1>15, <1>16, <1>17, <1>18, <1>19
     DEF PullNext, Settles, Streams, Breaks, Backend, OpEnds, HelperEnds, Restarts, TagMoves, Abort

LEMMA CountedStays ==
  ASSUME Typed, Loading, Counted, PullNext
  PROVE  Counted'
<1>1. StreamTypes /\ Depth \in Nat /\ LayerSize \in Nat \ {0} /\ Len(Layers) = Depth
  BY Numbers DEF StreamTypes, TarTypes, SockTypes, LoadTypes, Typed, PullTypeOK, Depth
<1>2. tar.layer \in 0..Depth + 2 /\ tar.read \in Nat /\ Produced(tar.layer, tar.read) \in Nat
  <2>1. tar.layer \in 0..Depth + 2 /\ tar.read \in Nat
    BY <1>1 DEF StreamTypes, TarTypes
  <2> QED BY <2>1, ProducedIsNat
<1> USE DEF Counted, InLayer, StreamTypes, TarTypes, SockTypes, LoadTypes
\* The import is given up, or over.
<1>3. ASSUME tar'.layer = tar.layer, tar'.read = tar.read,
             load'.state \in {"none", "failed"} \/ (load' = load /\ load.state # "reading")
      PROVE  Counted'
  BY <1>1, <1>3
<1>4. CASE InspectedLocal
  <2>1. CASE UNCHANGED stream
    BY <2>1 DEF stream
  <2>2. CASE tar' = NoTar /\ load' = NoLoad
    BY <1>1, <2>2 DEF NoTar, NoLoad
  <2> QED BY <1>4, <2>1, <2>2 DEF InspectedLocal
<1>5. CASE Connected
  <2>1. /\ tar' = tar /\ tar.layer = 0 /\ tar.read = 0
        /\ load'.got = 0 /\ load'.state = "reading"
        /\ sock'.buffered = 0 /\ sock'.held = FALSE /\ sock'.eof = FALSE
    BY <1>1, <1>5 DEF Connected, Loading, NoTar, NoLoad, NoSock
  <2> QED BY <1>1, <2>1, HeadIsOne
<1>6. CASE OpenLayer
  <2>1. tar'.layer = tar.layer /\ tar'.read = tar.read /\ UNCHANGED <<sock, load>>
    BY <1>1, <1>6 DEF OpenLayer
  <2> QED BY <2>1
<1>7. CASE ReadTar
  <2>1. /\ sock'.held /\ ~sock.held /\ sock'.buffered = sock.buffered /\ sock'.eof = sock.eof /\ load' = load
        /\ tar.layer <= Depth + 1 /\ tar.layer # Depth + 2
    BY <1>1, <1>2, <1>7 DEF ReadTar
  <2>2. ASSUME Produced(tar'.layer, tar'.read) = Produced(tar.layer, tar.read) + 1,
               IF tar'.layer \in 1..Depth THEN First(tar'.layer) /\ tar'.read < LayerSize ELSE tar'.read = 0
        PROVE  Counted'
    BY <1>1, <1>2, <2>1, <2>2
  <2>3. CASE InLayer /\ tar.read + 1 < LayerSize
    <3>1. tar'.layer = tar.layer /\ tar'.read = tar.read + 1
      BY <1>1, <1>7, <2>3 DEF ReadTar
    <3>2. Produced(tar.layer, tar.read + 1) = Produced(tar.layer, tar.read) + 1
      BY <1>2, <2>3, LayerGrows
    <3> QED BY <2>2, <2>3, <3>1, <3>2
  <2>4. CASE tar.layer = Depth + 1
    <3>1. tar' = [layer |-> Depth + 2, read |-> 0, body |-> FALSE] /\ tar.read = 0
      BY <1>1, <1>7, <2>4 DEF ReadTar
    <3>2. tar'.layer = Depth + 2 /\ tar'.read = 0
      BY <3>1
    <3>3. Produced(tar'.layer, tar'.read) = Produced(tar.layer, tar.read) + 1
      BY <2>4, <3>1, <3>2, TailIsLast
    <3> QED BY <1>1, <2>2, <3>2, <3>3
  <2>5. CASE tar.layer # Depth + 1 /\ ~(InLayer /\ tar.read + 1 < LayerSize)
    <3>1. tar.layer + 1 \in 1..Depth + 1
      BY <1>1, <1>2, <2>1, <2>5
    <3> DEFINE k == NextLayer(tar.layer + 1)
    <3>2. k \in 1..Depth + 1 /\ (k = Depth + 1 \/ First(k))
      BY <3>1, NextLayerIs
    <3>3. tar' = [layer |-> k, read |-> 0, body |-> FALSE]
      BY <1>7, <2>5 DEF ReadTar
    <3>4. tar'.layer = k /\ tar'.read = 0
      BY <3>3
    <3>5. Produced(k, 0) = Produced(tar.layer, tar.read) + 1
      <4>1. CASE tar.layer = 0
        <5>1. tar.layer + 1 = 1 /\ tar.read = 0
          BY <1>1, <4>1
        <5> QED BY <4>1, <5>1, HeadIsOne
      <4>2. CASE tar.layer # 0
        <5>1. tar.layer \in 1..Depth
          BY <1>1, <1>2, <2>1, <4>2, <2>5
        <5>2. First(tar.layer) /\ tar.read = LayerSize - 1
          BY <1>1, <1>2, <2>5, <5>1
        <5> QED BY <5>1, <5>2, LayerCounts
      <4> QED BY <4>1, <4>2
    <3> HIDE DEF k
    <3>6. IF k \in 1..Depth THEN First(k) /\ 0 < LayerSize ELSE TRUE
      BY <1>1, <3>2
    <3> QED BY <2>2, <3>4, <3>5, <3>6
  <2> QED BY <2>3, <2>4, <2>5
<1>8. CASE Send
  <2>1. /\ sock.held /\ ~sock'.held /\ sock'.buffered = sock.buffered + 1 /\ sock'.eof = sock.eof
        /\ UNCHANGED <<tar, load>>
    BY <1>1, <1>8 DEF Send
  <2> QED BY <1>1, <1>2, <2>1
<1>9. CASE SendEof
  <2>1. /\ ~sock.held /\ sock'.held = sock.held /\ sock'.buffered = sock.buffered
        /\ tar.layer = Depth + 2 /\ UNCHANGED <<tar, load>>
    BY <1>1, <1>9 DEF SendEof
  <2> QED BY <1>1, <1>2, <2>1
<1>10. CASE Aborted \/ LayerFails \/ SocketDies
  <2>1. tar'.layer = tar.layer /\ tar'.read = tar.read
    BY <1>1, <1>10 DEF Aborted, LayerFails, SocketDies, Fail, Close
  <2>2. load'.state = "failed" \/ (load' = load /\ load.state # "reading")
    BY <1>1, <1>10 DEF Aborted, LayerFails, SocketDies, Abandon
  <2> QED BY <1>3, <2>1, <2>2
<1>11. CASE Refused \/ Imported
  <2>1. tar'.layer = tar.layer /\ tar'.read = tar.read
    BY <1>1, <1>11 DEF Refused, Imported, Fail, Close
  <2>2. load'.state = "failed" \/ (load' = load /\ load.state # "reading")
    BY <1>1, <1>11 DEF Refused, Imported
  <2> QED BY <1>3, <2>1, <2>2
<1>12. CASE Arrives
  <2>1. /\ load.state = "reading" /\ load'.state = load.state /\ load'.got = load.got + 1
        /\ sock'.buffered = sock.buffered - 1 /\ sock'.held = sock.held /\ sock'.eof = sock.eof /\ tar' = tar
    BY <1>1, <1>12 DEF Arrives
  <2> QED BY <1>1, <1>2, <2>1
<1>13. CASE EofArrives
  <2>1. /\ load.state = "reading" /\ load'.state = "complete" /\ load'.got = load.got
        /\ sock.buffered = 0 /\ sock.eof /\ UNCHANGED <<tar, sock>>
    BY <1>1, <1>13 DEF EofArrives
  <2>2. tar.read = 0
    BY <1>1, <2>1
  <2> QED BY <1>1, <2>1, <2>2, TailIsLast
<1>14. CASE DaemonLoads
  <2>1. load'.state = load.state /\ load'.got = load.got /\ UNCHANGED <<tar, sock>>
    BY <1>1, <1>14 DEF DaemonLoads
  <2> QED BY <2>1
<1>15. CASE UNCHANGED stream
  BY <1>15 DEF stream
<1> QED BY <1>4, <1>5, <1>6, <1>7, <1>8, <1>9, <1>10, <1>11, <1>12, <1>13, <1>14, <1>15
     DEF PullNext, Settles, Streams, Breaks, Backend, Planned, Inspected, FetchFails, GotPlatform, GotManifest,
     GotDigest,
     GotConfig, SendPost, StreamEnds, HandToHelper, WatchAborted, PollHelper, PollTimeout, OpEnds, HelperEnds,
     Restarts,
     TagMoves, Abort

-----------------------------------------------------------------------------
\* The requests.

LEMMA AnsweredStays ==
  ASSUME Typed, Placed, RequestsWell, PullNext
  PROVE  RequestsWell'
<1>1. /\ op \in Seq(Hows) /\ todo \in Seq(Work) /\ task \in Tasks /\ Placed'
      /\ helper \in [state : {"none", "running", "ok", "failed"}, stops : BOOLEAN]
  BY RunnerStays DEF Typed, PullTypeOK
<1>2. Len(op) \in Nat /\ (op # <<>> => Len(op) \in 1..Len(op)) /\ \A o \in 1..Len(op) : op[o] \in Hows
  BY <1>1, EmptySeq, ElementOfSeq, LenProperties
<1> USE DEF RequestsWell, Well
<1>3. ASSUME Throw PROVE RequestsWell'
  BY <1>3 DEF Throw
\* Every request ended well, as far as the runner goes on from here.
<1>4. ASSUME UNCHANGED <<op, helper>>, pc \notin {"reply", "end"},
             pc = "watch" => pc' = "watch", pc' # "reply"
      PROVE  RequestsWell'
  BY <1>1, <1>4 DEF Placed
<1>5. \A r \in Seq(Work) : Continue(r) => pc' \in {"post", "manifest", "platform", "end"}
  BY <1>1, Goes
<1>6. CASE Planned \/ Inspected
  <2>1. Throw \/ pc' \in {"post", "manifest", "platform", "end"}
    BY <1>6, <1>1 DEF Planned, Inspected, Continue
  <2> QED BY <1>3, <1>4, <1>6, <2>1 DEF Planned, Inspected
<1>7. CASE FetchFails
  BY <1>3, <1>7 DEF FetchFails
<1>8. CASE GotPlatform \/ GotManifest \/ GotDigest \/ GotConfig
  BY <1>4, <1>8 DEF GotPlatform, GotManifest, GotDigest, GotConfig
<1>9. CASE InspectedLocal
  <2>1. Tail(todo) \in Seq(Work)
    BY <1>1, <1>9, Left DEF InspectedLocal, Placed, Resolving
  <2> QED BY <1>4, <1>5, <1>9, <2>1 DEF InspectedLocal
<1>10. CASE SendPost
  <2>1. /\ Len(op') = Len(op) + 1 /\ \A o \in 1..Len(op) : op'[o] = op[o]
        /\ op'[Len(op) + 1] = "running" /\ op' # <<>>
    BY <1>1, <1>10, AppendProperties DEF SendPost, Hows
  <2>2. pc = "post" /\ pc' = "reply" /\ outcome' = outcome /\ outcome # "done" /\ helper' = helper
    BY <1>10 DEF SendPost, Placed
  <2>3. \A o \in 1..Len(op) : op[o] \in {"ok", "handed"}
    BY <2>2
  <2>4. \A o \in 1..Len(op') - 1 : o \in 1..Len(op) /\ op'[o] = op[o]
    BY <1>2, <2>1
  <2>5. ASSUME NEW o \in 1..Len(op'), op'[o] = "handed" PROVE o \in 1..Len(op) /\ op[o] = "handed"
    BY <1>2, <2>1, <2>5
  <2> QED BY <2>1, <2>2, <2>3, <2>4, <2>5
<1>11. CASE StreamEnds
  <2>1. CASE Throw
    BY <1>3, <2>1
  <2>2. CASE LastReply = "ok" /\ Continue(Tail(todo))
    <3>1. pc' \in {"post", "manifest", "platform", "end"} /\ pc = "reply" /\ UNCHANGED <<op, helper>>
      BY <1>1, <1>5, <1>11, <2>2, Left DEF StreamEnds, Placed
    <3>2. \A o \in 1..Len(op) : op[o] \in {"ok", "handed"}
      BY <1>2, <2>2, <3>1 DEF LastReply
    <3> QED BY <3>1, <3>2
  <2> QED BY <1>11, <2>1, <2>2 DEF StreamEnds
<1>12. CASE HandToHelper
  <2>1. /\ pc = "reply" /\ pc' = "watch" /\ outcome' = outcome /\ outcome # "done" /\ op # <<>>
        /\ op' = [op EXCEPT ![Len(op)] = "handed"]
    BY <1>12 DEF HandToHelper, Ended, Placed
  <2>2. Len(op') = Len(op) /\ \A o \in 1..Len(op) : op'[o] = IF o = Len(op) THEN "handed" ELSE op[o]
    BY <1>1, <1>2, <2>1, ExceptSeq DEF Hows
  <2>3. ASSUME NEW o \in 1..Len(op') PROVE op'[o] \in {"ok", "handed"}
    <3>1. o \in 1..Len(op) /\ (o # Len(op) => o \in 1..Len(op) - 1)
      BY <1>2, <2>2
    <3>2. o # Len(op) => op[o] \in {"ok", "handed"}
      BY <2>1, <3>1
    <3> QED BY <2>2, <3>1, <3>2
  <2> QED BY <2>1, <2>3
<1>13. CASE PollHelper
  <2>1. CASE Throw
    BY <1>3, <2>1
  <2>2. CASE Continue(Tail(todo)) /\ (helper.stops \/ helper.state = "ok")
    <3>1. pc' \in {"post", "manifest", "platform", "end"} /\ pc = "watch" /\ UNCHANGED <<op, helper>>
      BY <1>1, <1>5, <1>13, <2>2, Left DEF PollHelper, Placed
    <3> QED BY <2>2, <3>1
  <2> QED BY <1>13, <2>1, <2>2 DEF PollHelper
<1>14. CASE WatchAborted \/ PollTimeout
  BY <1>3, <1>14 DEF WatchAborted, PollTimeout
<1>15. CASE Connected \/ OpenLayer \/ ReadTar \/ Send \/ SendEof
  BY <1>4, <1>15 DEF Connected, OpenLayer, ReadTar, Send, SendEof
<1>16. CASE Aborted \/ Breaks
  BY <1>3, <1>16 DEF Aborted, Breaks, LayerFails, SocketDies, Refused, Fail
<1>17. CASE Imported
  <2>1. Tail(todo) \in Seq(Work)
    BY <1>1, <1>17, Left DEF Imported, Placed, Streaming
  <2> QED BY <1>4, <1>5, <1>17, <2>1 DEF Imported
<1>18. CASE OpEnds
  <2>1. PICK how \in {"ok", "failed"} : op' = [op EXCEPT ![Len(op)] = how]
    BY <1>18 DEF OpEnds, Ended
  <2>2. op # <<>> /\ op[Len(op)] = "running" /\ UNCHANGED <<pc, outcome, helper>>
    BY <1>18 DEF OpEnds, LastReply
  <2>3. Len(op') = Len(op) /\ \A o \in 1..Len(op) : op'[o] = IF o = Len(op) THEN how ELSE op[o]
    BY <1>1, <1>2, <2>1, <2>2, ExceptSeq DEF Hows
  <2>4. pc \in {"reply", "end"} /\ outcome # "done"
    <3>1. Len(op) \in 1..Len(op) /\ ~Well(Len(op))
      BY <1>2, <2>2
    <3> QED BY <3>1
  <2>5. op' # <<>>
    <3>1. op' \in Seq(Hows) /\ Len(op') # 0
      BY <1>1, <1>2, <2>1, <2>2, <2>3, ExceptSeq DEF Hows
    <3> QED BY <3>1, EmptySeq
  <2>6. \A o \in 1..Len(op) - 1 : o \in 1..Len(op) /\ o # Len(op)
    BY <1>2
  <2> QED BY <2>2, <2>3, <2>4, <2>5, <2>6
<1>19. CASE HelperEnds
  <2>1. helper.state = "running" /\ helper'.stops = helper.stops /\ UNCHANGED <<pc, outcome, op>>
    BY <1>1, <1>19 DEF HelperEnds
  <2> QED BY <2>1
<1>20. CASE UNCHANGED <<pc, outcome, op, helper>>
  BY <1>20
<1> QED BY <1>6, <1>7, <1>8, <1>9, <1>10, <1>11, <1>12, <1>13, <1>14, <1>15, <1>16, <1>17, <1>18, <1>19, <1>20
     DEF PullNext, Settles, Streams, Backend, Arrives, EofArrives, DaemonLoads, Restarts, TagMoves, Abort

-----------------------------------------------------------------------------
\* The invariant.

LEMMA PullInvInit == PullInit => PullInv
<1> SUFFICES ASSUME PullInit PROVE PullInv
  OBVIOUS
<1>1. Typed
  <2>1. /\ NoImage \in [top : 0..MaxTagVersion, manifest : 0..MaxTagVersion, config : 0..MaxTagVersion]
        /\ NoTar \in [layer : 0..Len(Layers) + 2, read : 0..LayerSize, body : BOOLEAN]
        /\ NoSock \in [state : {"none", "open", "closed"}, held : BOOLEAN, buffered : 0..Threshold + 1, eof : BOOLEAN]
        /\ NoLoad \in [got : Nat, state : {"none", "reading", "complete", "failed"}, loaded : BOOLEAN]
    BY Bounds DEF NoImage, NoTar, NoSock, NoLoad, Depth
  <2>2. tag \in [Refs -> Versions] /\ local \in [Refs -> 0..MaxTagVersion]
    BY Bounds DEF PullInit, Versions
  <2>3. /\ <<>> \in Seq(Work) /\ <<>> \in Seq(Hows) /\ DOMAIN <<>> = {}
        /\ <<>> \in Seq([do : {"pull", "post"}, arg : Refs \cup {"create", "upgrade", "up", "build", "pull", "redeploy"}])
    BY EmptySeq
  <2>4. /\ todo = <<>> /\ op = <<>> /\ task \in Tasks /\ outcome = "running" /\ pc = "plan"
        /\ aborted = FALSE /\ up = TRUE /\ helper = [state |-> "none", stops |-> FALSE]
        /\ img = NoImage /\ tar = NoTar /\ sock = NoSock /\ load = NoLoad
    BY DEF PullInit
  <2> QED BY <2>1, <2>2, <2>3, <2>4 DEF Typed, PullTypeOK, Fetches
<1>2. Placed /\ Loading /\ RequestsWell
  BY DEF PullInit, Placed, Loading, RequestsWell, Resolving, Streaming, Importing, NoLoad
<1>3. Counted
  BY Bounds DEF PullInit, Counted, InLayer, NoTar, NoLoad
<1> QED BY <1>1, <1>2, <1>3 DEF PullInv

LEMMA PullInvNext == PullInv /\ [PullNext]_pullVars => PullInv'
<1> SUFFICES ASSUME PullInv, [PullNext]_pullVars PROVE PullInv'
  OBVIOUS
<1>1. CASE PullNext
  BY <1>1, TypesStay, RunnerStays, LoadingStays, CountedStays, AnsweredStays DEF PullInv
<1>2. CASE UNCHANGED pullVars
  BY <1>2 DEF pullVars, stream, world, PullInv, Typed, PullTypeOK, Placed, Loading, Importing, OneVersion,
     Counted, InLayer,
     RequestsWell, Well
<1> QED BY <1>1, <1>2

\* The state is sound, and a task that is done did it: the image is in the daemon, every request
\* ended well, and what was handed to the helper ended there as the watch may believe (browserPull.ts).
THEOREM PullsAreSound == PullSpec => []PullSound
<1>1. PullInv => PullSound
  <2> SUFFICES ASSUME PullInv PROVE PullSound
    OBVIOUS
  <2>1. PullTypeOK
    BY DEF PullInv, Typed
  <2>2. op \in Seq(Hows) /\ DOMAIN op = 1..Len(op)
    BY LenProperties DEF PullInv, Typed
  <2>3. DoneIsTrue
    BY <2>2 DEF PullInv, Placed, Loading, Importing, RequestsWell, Well, DoneIsTrue
  <2> QED BY <2>1, <2>3 DEF PullSound
<1> QED BY PullInvInit, PullInvNext, <1>1, PTL DEF PullSpec

\* The daemon takes in a tar only when all of it has arrived, and it is the tar of one version
\* (imageload.go: a connection that drops is never taken for a whole archive).
THEOREM ImagesWhole == PullSpec => WholeImages
<1>1. PullInv /\ [PullNext]_pullVars =>
        [local' # local => load.got = TarSize /\ img.top = img.manifest /\ img.manifest = img.config]_pullVars
  <2> SUFFICES ASSUME PullInv, [PullNext]_pullVars, local' # local
               PROVE  load.got = TarSize /\ img.top = img.manifest /\ img.manifest = img.config
    OBVIOUS
  <2>1. DaemonLoads
    BY DEF PullNext, Settles, Streams, Breaks, Backend, pullVars, world,
       Planned, Inspected, FetchFails, GotPlatform, GotManifest, GotDigest, GotConfig, InspectedLocal,
       SendPost, StreamEnds,
       HandToHelper, WatchAborted, PollHelper, PollTimeout, Connected, OpenLayer, ReadTar, Send, SendEof,
       Aborted, Imported,
       LayerFails, SocketDies, Refused, Arrives, EofArrives, OpEnds, HelperEnds, Restarts, TagMoves, Abort
  <2> QED BY <2>1 DEF DaemonLoads, PullInv, Loading, Importing, OneVersion, Counted
<1> QED BY PullInvInit, PullInvNext, <1>1, PTL DEF PullSpec, WholeImages

\* A task that was cancelled opens no layer and no connection and sends no request any more
\* (browserPull.ts checks the signal at every step; the server's side of a request goes on).
THEOREM CancelEndsPulls == PullSpec => NothingAfterCancel
<1> DEFINE Silent == aborted =>
             /\ Len(op') = Len(op)
             /\ tar'.body => tar.body
             /\ sock'.state = "open" => sock.state = "open"
<1>1. PullInv /\ [PullNext]_pullVars => [Silent]_pullVars
  <2> SUFFICES ASSUME PullInv, [PullNext]_pullVars, aborted PROVE Silent
    OBVIOUS
  <2>1. op \in Seq(Hows) /\ StreamTypes
    BY DEF PullInv, Typed, PullTypeOK, StreamTypes, TarTypes, SockTypes, LoadTypes
  <2>2. ASSUME NEW how \in Hows, op' = [op EXCEPT ![Len(op)] = how] PROVE Len(op') = Len(op)
    BY <2>1, <2>2, LenProperties, ExceptSeq
  <2>3. Len(op') = Len(op)
    <3>1. op' = op \/ \E how \in Hows : op' = [op EXCEPT ![Len(op)] = how]
      BY DEF PullNext, Settles, Streams, Breaks, Backend, pullVars, Ended, Hows,
       Planned, Inspected, FetchFails, GotPlatform, GotManifest, GotDigest, GotConfig, InspectedLocal,
       SendPost, StreamEnds,
       HandToHelper, WatchAborted, PollHelper, PollTimeout, Connected, OpenLayer, ReadTar, Send, SendEof,
       Aborted, Imported,
       LayerFails, SocketDies, Refused, Arrives, EofArrives, DaemonLoads, OpEnds, HelperEnds, Restarts,
       TagMoves, Abort
    <3> QED BY <2>2, <3>1
  <2>4. (tar'.body => tar.body) /\ (sock'.state = "open" => sock.state = "open")
    <3>1. CASE UNCHANGED stream
      BY <3>1 DEF stream
    <3>2. CASE Arrives \/ EofArrives \/ DaemonLoads
      BY <2>1, <3>2 DEF Arrives, EofArrives, DaemonLoads, StreamTypes, SockTypes
    <3>3. CASE Close
      BY <2>1, <3>3 DEF Close, StreamTypes, TarTypes, SockTypes
    <3> QED BY <3>1, <3>2, <3>3 DEF PullNext, Settles, Streams, Breaks, Backend, pullVars,
       Planned, Inspected, FetchFails, GotPlatform, GotManifest, GotDigest, GotConfig, InspectedLocal,
       SendPost, StreamEnds,
       HandToHelper, WatchAborted, PollHelper, PollTimeout, Connected, OpenLayer, ReadTar, Send, SendEof,
       Aborted, Imported,
       LayerFails, SocketDies, Refused, Fail, OpEnds, HelperEnds, Restarts, TagMoves, Abort
  <2> QED BY <2>3, <2>4
<1> QED BY PullInvInit, PullInvNext, <1>1, PTL DEF PullSpec, NothingAfterCancel

-----------------------------------------------------------------------------
(***************************************************************************)
(* Proofs about PollingResource, the stores that show what settled tasks   *)
(* left behind, for any number of changes of the server's state and any    *)
(* number of reads that fail.  The first three theorems hold however the   *)
(* store is used, the last two when only pages that poll it refresh it     *)
(* (~LooseRefresh).                                                        *)
(***************************************************************************)
\* A read that has not been overtaken belongs to a page that polls, and what it
\* saw, or is still to see, includes every settled task: nothing but onSettled()
\* stands between a read and an answer that is too old.
FreshRead == inFlight # None /\ Current => polling /\ inFlight.saw >= settled

-----------------------------------------------------------------------------
USE PollingAssumption DEF PollingAssumption

\* What refresh(), an overtaking event and the end of a read do to the read.
LEMMA RefreshReads ==
  ASSUME NEW busy \in BOOLEAN, Refresh(busy), busy = (inFlight # None), ReadTyped
  PROVE  ReadTyped' /\ inFlight' # None /\ (busy => inFlight' = inFlight /\ generation' = generation)
<1>1. CASE busy
  BY <1>1 DEF ReadTyped, Refresh
<1>2. CASE ~busy
  <2>1. generation' = 1 /\ inFlight' = [gen |-> 1, saw |-> Unseen] /\ Unseen \in 0..Unseen
    BY <1>2 DEF Refresh, Unseen
  <2>2. QED
    BY <2>1, <1>2 DEF ReadTyped, None
<1>3. QED
  BY <1>1, <1>2

\* A read that starts has yet to see the server.
LEMMA NewRead ==
  ASSUME Refresh(FALSE)
  PROVE  ReadTyped' /\ inFlight' # None /\ inFlight'.saw = Unseen
<1>1. generation' = 1 /\ inFlight' = [gen |-> 1, saw |-> Unseen] /\ Unseen \in 0..Unseen
  BY DEF Refresh, Unseen
<1>2. QED
  BY <1>1 DEF ReadTyped, None

LEMMA OvertakeReads ==
  ASSUME ReadTyped, Overtake
  PROVE  /\ ReadTyped' /\ (inFlight # None <=> inFlight' # None)
         /\ inFlight' # None => ~Current'
BY DEF ReadTyped, Overtake, Current, None

LEMMA FinallyReads ==
  ASSUME Finally, ReadTyped
  PROVE  /\ ReadTyped'
         /\ \/ Refresh(FALSE) /\ polling /\ ~hidden
            \/ inFlight' = None /\ (polling /\ ~hidden => Current)
<1>1. CASE ~Current /\ polling /\ ~hidden
  BY <1>1, NewRead DEF Finally
<1>2. CASE ~(~Current /\ polling /\ ~hidden)
  <2>1. inFlight' = None /\ generation' = 1
    BY <1>2 DEF Finally
  <2>2. QED
    BY <2>1, <1>2 DEF ReadTyped
<1>3. QED
  BY <1>1, <1>2

\* Every step keeps the read typed, and the flags.
LEMMA ReadStep ==
  ASSUME StoreTypeOK, [StoreNext]_storeVars
  PROVE  ReadTyped'
<1> USE DEF StoreTypeOK
<1>1. CASE StartPolling \/ Show
  BY <1>1, RefreshReads DEF StartPolling, Show, ReadTyped
<1>2. CASE StopPolling \/ Hide
  BY <1>2, OvertakeReads DEF StopPolling, Hide, ReadTyped
<1>3. CASE TaskSettles \/ Setting
  BY <1>3, NewRead, OvertakeReads DEF TaskSettles, Setting, OnSettled, ReadTyped
<1>4. CASE TimerFires \/ ByHand
  BY <1>4, NewRead DEF TimerFires, ByHand
<1>5. CASE Served
  BY <1>5 DEF Served, ReadTyped, Unseen, None
<1>6. CASE Answered \/ Failed
  BY <1>6, FinallyReads DEF Answered, Failed
<1>7. CASE Change \/ UNCHANGED storeVars
  BY <1>7 DEF Change, storeVars, ReadTyped
<1>8. QED
  BY <1>1, <1>2, <1>3, <1>4, <1>5, <1>6, <1>7 DEF StoreNext

LEMMA FlagsStep ==
  ASSUME FlagsTyped, [StoreNext]_storeVars
  PROVE  FlagsTyped'
<1> USE DEF FlagsTyped
<1>1. CASE StartPolling \/ StopPolling
  BY <1>1 DEF StartPolling, StopPolling, Refresh
<1>2. CASE Hide \/ Show
  BY <1>2 DEF Hide, Show, Refresh
<1>3. CASE TaskSettles \/ Setting
  BY <1>3 DEF TaskSettles, Setting, OnSettled, Refresh
<1>4. CASE TimerFires \/ ByHand
  BY <1>4 DEF TimerFires, ByHand, Refresh
<1>5. CASE Answered \/ Failed
  BY <1>5 DEF Answered, Failed, Finally, Refresh
<1>6. CASE Served \/ Change \/ UNCHANGED storeVars
  BY <1>6 DEF Served, Change, storeVars
<1>7. QED
  BY <1>1, <1>2, <1>3, <1>4, <1>5, <1>6 DEF StoreNext

LEMMA SawStep ==
  ASSUME StoreTypeOK, [StoreNext]_storeVars
  PROVE  inFlight'.saw \in 0..server' \cup {Unseen}
<1>0. ReadTyped /\ inFlight.saw \in 0..server \cup {Unseen} /\ server \in Nat
  BY DEF StoreTypeOK
<1>1. CASE inFlight' = inFlight /\ server' \in {server, server + 1}
  BY <1>0, <1>1
<1>2. CASE Overtake /\ server' = server
  BY <1>0, <1>2 DEF Overtake, ReadTyped
<1>3. CASE Refresh(FALSE)
  BY <1>3, NewRead
<1>4. CASE inFlight' = None /\ server' = server
  BY <1>0, <1>4 DEF None
<1>5. CASE Served
  BY <1>0, <1>5 DEF Served, ReadTyped
<1>6. QED
  <2>1. CASE StartPolling \/ Show
    BY <2>1, <1>1, <1>3 DEF StartPolling, Show, Refresh
  <2>2. CASE StopPolling \/ Hide
    BY <2>2, <1>1, <1>2 DEF StopPolling, Hide
  <2>3. CASE TaskSettles \/ Setting
    BY <2>3, <1>1, <1>2, <1>3 DEF TaskSettles, Setting, OnSettled
  <2>4. CASE TimerFires \/ ByHand
    BY <2>4, <1>3 DEF TimerFires, ByHand
  <2>5. CASE Answered \/ Failed
    BY <2>5, <1>3, <1>4 DEF Answered, Failed, Finally
  <2>6. CASE Change \/ UNCHANGED storeVars
    BY <2>6, <1>1 DEF Change, storeVars
  <2>7. QED
    BY <1>5, <2>1, <2>2, <2>3, <2>4, <2>5, <2>6 DEF StoreNext

\* Type correctness: every event of the page, the browser and the server leaves
\* the store's variables well typed.
THEOREM StoreTyped == StoreSpec => []StoreTypeOK
<1>1. StoreInit => StoreTypeOK
  <2>1. StoreInit => FlagsTyped
    BY DEF StoreInit, FlagsTyped
  <2>2. StoreInit => ReadTyped
    BY DEF StoreInit, ReadTyped
  <2>3. QED
    BY <2>1, <2>2 DEF StoreInit, StoreTypeOK, None
<1>2. StoreTypeOK /\ [StoreNext]_storeVars => StoreTypeOK'
  <2> SUFFICES ASSUME StoreTypeOK, [StoreNext]_storeVars PROVE StoreTypeOK'
    OBVIOUS
  <2>1. ReadTyped' /\ FlagsTyped'
    BY ReadStep, FlagsStep DEF StoreTypeOK
  <2>2. inFlight'.saw \in 0..server' \cup {Unseen}
    BY SawStep
  <2>3. /\ server' \in 0..MaxVersion /\ shown' \in 0..server' /\ settled' \in 0..server'
        /\ events' \in 0..MaxEvents
    <3> USE DEF StoreTypeOK
    <3>1. CASE StartPolling \/ StopPolling \/ Hide \/ Show \/ TimerFires \/ Served
      BY <3>1 DEF StartPolling, StopPolling, Hide, Show, TimerFires, Served
    <3>2. CASE Change \/ TaskSettles
      BY <3>2 DEF Change, TaskSettles
    <3>3. CASE Setting \/ ByHand
      <4>1. UNCHANGED <<server, shown, settled>> /\ events < MaxEvents /\ events' = events + 1
        BY <3>3 DEF Setting, ByHand
      <4>2. QED
        BY <4>1
    <3>4. CASE Answered
      BY <3>4 DEF Answered
    <3>5. CASE Failed
      BY <3>5 DEF Failed
    <3>6. CASE UNCHANGED storeVars
      BY <3>6 DEF storeVars
    <3>7. QED
      BY <3>1, <3>2, <3>3, <3>4, <3>5, <3>6 DEF StoreNext
  <2>4. QED
    BY <2>1, <2>2, <2>3 DEF StoreTypeOK
<1>3. QED
  BY <1>1, <1>2, PTL DEF StoreSpec

-----------------------------------------------------------------------------
\* The interval is set exactly while the page is mounted, visible and set to
\* refresh itself: TimerRight is inductive.
THEOREM TimerIsRight == StoreSpec => []TimerRight
<1>1. StoreInit => TimerRight
  BY DEF StoreInit, TimerRight, Watched
<1>2. StoreTypeOK /\ TimerRight /\ [StoreNext]_storeVars => TimerRight'
  <2> SUFFICES ASSUME FlagsTyped, FlagsTyped', TimerRight, [StoreNext]_storeVars PROVE TimerRight'
    BY FlagsStep DEF StoreTypeOK
  <2> USE DEF FlagsTyped, TimerRight, Watched
  <2>1. CASE StartPolling \/ StopPolling \/ Hide \/ Show
    BY <2>1 DEF StartPolling, StopPolling, Hide, Show
  <2>2. CASE TaskSettles \/ Setting
    BY <2>2 DEF TaskSettles, Setting, OnSettled
  <2>3. CASE Change \/ TimerFires \/ ByHand \/ Served \/ Answered \/ Failed \/ UNCHANGED storeVars
    BY <2>3 DEF Change, TimerFires, ByHand, Served, Answered, Failed, storeVars
  <2>4. QED
    BY <2>1, <2>2, <2>3 DEF StoreNext
<1>3. QED
  BY <1>1, <1>2, StoreTyped, PTL DEF StoreSpec

\* The spinner of a watched page is on only while a read is under way.
THEOREM SpinnerIsRight == StoreSpec => []SpinnerEnds
<1>1. StoreInit => SpinnerEnds
  BY DEF StoreInit, SpinnerEnds, Watched
<1>2. StoreTypeOK /\ SpinnerEnds /\ [StoreNext]_storeVars => SpinnerEnds'
  <2> SUFFICES ASSUME ReadTyped, FlagsTyped, SpinnerEnds, [StoreNext]_storeVars, Watched', loading'
               PROVE  inFlight' # None
    BY DEF StoreTypeOK, SpinnerEnds
  <2> USE DEF SpinnerEnds, Watched
  <2>1. CASE StartPolling \/ Show
    BY <2>1, RefreshReads DEF StartPolling, Show
  <2>2. CASE StopPolling \/ Hide
    BY <2>2 DEF StopPolling, Hide
  <2>3. CASE TaskSettles \/ Setting
    BY <2>3, NewRead, OvertakeReads DEF TaskSettles, Setting, OnSettled
  <2>4. CASE TimerFires \/ ByHand
    BY <2>4, NewRead DEF TimerFires, ByHand
  <2>5. CASE Answered \/ Failed
    <3>1. polling /\ ~hidden
      BY <2>5 DEF Answered, Failed, FlagsTyped
    <3>2. CASE Current
      BY <2>5, <3>2 DEF Answered, Failed, Finally
    <3>3. CASE ~Current
      BY <2>5, <3>1, <3>3, NewRead DEF Answered, Failed, Finally
    <3>4. QED
      BY <3>2, <3>3
  <2>6. CASE Change \/ UNCHANGED storeVars
    BY <2>6 DEF Change, storeVars
  <2>7. CASE Served
    BY <2>7 DEF Served, ReadTyped, None, Unseen
  <2>8. QED
    BY <2>1, <2>2, <2>3, <2>4, <2>5, <2>6, <2>7 DEF StoreNext
<1>3. QED
  BY <1>1, <1>2, StoreTyped, PTL DEF StoreSpec

-----------------------------------------------------------------------------
LEMMA FreshReadStep ==
  ASSUME ~LooseRefresh, StoreTypeOK, StoreTypeOK', TimerRight, FreshRead, [StoreNext]_storeVars
  PROVE  FreshRead'
<1>0. ReadTyped /\ settled \in 0..MaxVersion /\ settled' \in 0..MaxVersion
  BY DEF StoreTypeOK
<1>r. ASSUME Refresh(FALSE), polling' PROVE FreshRead'
  BY <1>0, <1>r, NewRead DEF FreshRead, Unseen
<1>1. CASE StartPolling \/ Show
  <2>0. settled' = settled
    BY <1>1 DEF StartPolling, Show
  <2>1. CASE UNCHANGED <<inFlight, loading, generation>> /\ (polling => polling')
    BY <2>0, <2>1 DEF FreshRead, Current
  <2>2. CASE Refresh(inFlight # None) /\ inFlight # None /\ polling'
    BY <1>0, <2>0, <2>2, RefreshReads DEF FreshRead, Current
  <2>3. CASE Refresh(inFlight # None) /\ inFlight = None /\ polling'
    <3>1. Refresh(FALSE)
      BY <2>3
    <3>2. QED
      BY <3>1, <2>3, <1>r
  <2>4. QED
    BY <1>1, <2>1, <2>2, <2>3 DEF StartPolling, Show
<1>2. CASE StopPolling \/ Hide
  <2>1. CASE Overtake
    BY <1>0, <2>1, OvertakeReads DEF FreshRead
  <2>2. CASE UNCHANGED <<generation, inFlight, polling, settled>>
    BY <2>2 DEF FreshRead, Current
  <2>3. QED
    BY <1>2, <2>1, <2>2 DEF StopPolling, Hide
<1>3. CASE TaskSettles \/ Setting
  <2>1. CASE ~polling
    <3>1. UNCHANGED <<generation, inFlight, polling>>
      BY <1>3, <2>1 DEF TaskSettles, Setting, OnSettled
    <3>2. QED
      BY <2>1, <3>1 DEF FreshRead, Current
  <2>2. CASE polling' /\ Refresh(FALSE)
    BY <2>2, <1>r
  <2>3. CASE Overtake
    BY <1>0, <2>3, OvertakeReads DEF FreshRead
  <2>4. QED
    <3>1. CASE polling' = polling /\ polling /\ Refresh(FALSE)
      BY <3>1, <2>2
    <3>2. QED
      BY <1>3, <2>1, <3>1, <2>3 DEF TaskSettles, Setting, OnSettled
<1>4. CASE TimerFires \/ ByHand
  <2>1. polling' /\ Refresh(FALSE)
    <3>1. polling' = polling /\ Refresh(FALSE) /\ polling
      BY <1>4 DEF TimerFires, ByHand, TimerRight, Watched
    <3>2. QED
      BY <3>1
  <2>2. QED
    BY <2>1, <1>r
<1>5. CASE Served
  BY <1>5, <1>0 DEF Served, Current, StoreTypeOK, ReadTyped, FreshRead, None
<1>6. CASE Answered \/ Failed
  <2>1. polling' = polling /\ Finally
    BY <1>6 DEF Answered, Failed
  <2>2. CASE Refresh(FALSE) /\ polling
    BY <2>1, <2>2, <1>r
  <2>3. CASE inFlight' = None
    BY <2>3 DEF FreshRead
  <2>4. QED
    BY <1>0, <2>1, <2>2, <2>3, FinallyReads
<1>7. CASE Change \/ UNCHANGED storeVars
  BY <1>7 DEF Change, storeVars, Current, FreshRead
<1>8. QED
  BY <1>1, <1>2, <1>3, <1>4, <1>5, <1>6, <1>7 DEF StoreNext

LEMMA ReadsAreFresh ==
  ASSUME ~LooseRefresh
  PROVE  StoreSpec => [](StoreTypeOK /\ FreshRead)
<1>1. StoreInit => FreshRead
  BY DEF StoreInit, FreshRead
<1>2. StoreTypeOK /\ StoreTypeOK' /\ TimerRight /\ FreshRead /\ [StoreNext]_storeVars => FreshRead'
  BY FreshReadStep
<1>3. QED
  BY <1>1, <1>2, StoreTyped, TimerIsRight, PTL DEF StoreSpec

\* "A completed mutation invalidates a read that started before it": the value
\* shown is only ever replaced by one that has seen every settled task.
THEOREM NoStaleValue ==
  ASSUME ~LooseRefresh
  PROVE  StoreSpec => NeverAppliesStale
<1>1. StoreTypeOK /\ FreshRead /\ [StoreNext]_storeVars => [shown' # shown => shown' >= settled]_storeVars
  <2> SUFFICES ASSUME FreshRead, [StoreNext]_storeVars, shown' # shown PROVE shown' >= settled
    OBVIOUS
  <2>1. Answered
    BY DEF StoreNext, storeVars, StartPolling, StopPolling, Hide, Show, Change, TaskSettles, Setting,
           TimerFires, ByHand, Served, Failed
  <2>2. QED
    BY <2>1 DEF Answered, FreshRead
<1>2. QED
  BY <1>1, ReadsAreFresh, PTL DEF StoreSpec, NeverAppliesStale

\* A watched page at rest shows every settled task: whoever overtakes a read
\* that a watched page needs leaves another one under way.
THEOREM SettledIsVisible ==
  ASSUME ~LooseRefresh
  PROVE  StoreSpec => []ShowsSettled
<1>1. StoreInit => ShowsSettled
  BY DEF StoreInit, ShowsSettled, Watched
<1>2. StoreTypeOK /\ FreshRead /\ ShowsSettled /\ [StoreNext]_storeVars => ShowsSettled'
  <2> SUFFICES ASSUME ReadTyped, FlagsTyped, FreshRead, ShowsSettled, [StoreNext]_storeVars,
                      Watched', inFlight' = None, ~failed'
               PROVE  shown' >= settled'
    BY DEF ShowsSettled, StoreTypeOK
  <2> USE DEF ShowsSettled, Watched
  <2>1. CASE StartPolling \/ Show
    BY <2>1, RefreshReads DEF StartPolling, Show
  <2>2. CASE StopPolling \/ Hide
    BY <2>2 DEF StopPolling, Hide
  <2>3. CASE TaskSettles \/ Setting
    <3>1. polling /\ ~hidden
      BY <2>3 DEF TaskSettles, Setting, FlagsTyped
    <3>2. (inFlight = None /\ Refresh(FALSE)) \/ (inFlight # None /\ Overtake)
      <4>1. OnSettled
        BY <2>3 DEF TaskSettles, Setting
      <4>2. IF inFlight = None /\ ~hidden THEN Refresh(FALSE) ELSE Overtake /\ UNCHANGED loading
        BY <3>1, <4>1 DEF OnSettled
      <4>3. QED
        BY <3>1, <4>2
    <3>3. QED
      BY <3>2, NewRead, OvertakeReads
  <2>4. CASE TimerFires \/ ByHand
    BY <2>4, NewRead DEF TimerFires, ByHand
  <2>5. CASE Answered
    <3>1. Current
      BY <2>5, NewRead, FinallyReads DEF Answered
    <3>2. QED
      BY <2>5, <3>1 DEF Answered, FreshRead
  <2>6. CASE Failed
    <3>1. Current
      BY <2>6, NewRead, FinallyReads DEF Failed
    <3>2. QED
      BY <2>6, <3>1 DEF Failed
  <2>7. CASE Change \/ UNCHANGED storeVars
    BY <2>7 DEF Change, storeVars
  <2>8. CASE Served
    BY <2>8 DEF Served, ReadTyped, None, Unseen
  <2>9. QED
    BY <2>1, <2>2, <2>3, <2>4, <2>5, <2>6, <2>7, <2>8 DEF StoreNext
<1>3. QED
  BY <1>1, <1>2, ReadsAreFresh, PTL DEF StoreSpec
=============================================================================
