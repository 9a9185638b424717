----------------------------- MODULE BrowsePool -----------------------------
(***************************************************************************)
(* backend/internal/docker/debugshell/pool.go: the pool of short-lived     *)
(* browse containers ("boxes"), one per key, in which requests list and    *)
(* change files.  A box is created once for all the requests that want it, *)
(* sleeps BoxLife and removes itself; a request is given one that outlives *)
(* the request's own bound.                                                *)
(*                                                                         *)
(* A request is the goroutine of one call: `do` (Ls, Run, Write) or a      *)
(* Release of fsbrowse (Remove of the key, then every labelled helper).    *)
(* Its pc names the next step; what happens between two steps is one       *)
(* critical section of Pool.mu or one call to the daemon.  A box is also   *)
(* its container: start creates at most one for it.  Time is counted in    *)
(* units of OpTimeout.                                                     *)
(***************************************************************************)
EXTENDS Naturals, FiniteSets

CONSTANTS
  Keys,          \* the map's keys: one per image, container or volume
  Requests,      \* the goroutines using the pool
  Writes,        \* those of them that run Write: bounded by WriteTimeout
  Releases,      \* those that run ReleaseImage / -Container / -Volume
  BoxLife, OpTimeout, WriteTimeout,
  MaxBoxes,      \* bound: boxes ever created
  MaxTime,       \* bound: the clock
  Scopes         \* what to try together: records of the requests made (key: each with the
                 \* key it is for), and of bounds on the clock (time), the boxes somebody
                 \* else removes (vanish), the times somebody deletes the busybox volume
                 \* (volume), the requests whose client goes away (dropped) and the
                 \* containers that failed calls to the daemon leave behind (stray)

ASSUME PoolTimes ==
  /\ {BoxLife, OpTimeout, WriteTimeout} \subseteq Nat \ {0} /\ {MaxBoxes, MaxTime} \subseteq Nat
  /\ "none" \notin Keys
  /\ OpTimeout <= WriteTimeout /\ WriteTimeout <= BoxLife
  /\ Writes \subseteq Requests /\ Releases \subseteq Requests
  /\ \A s \in Scopes :
       /\ DOMAIN s.key \subseteq Requests /\ \A r \in DOMAIN s.key : s.key[r] \in Keys
       /\ s.time \in 0..MaxTime /\ {s.vanish, s.volume, s.dropped, s.stray} \subseteq Nat

VARIABLES
  now,      \* the clock
  boxes,    \* Pool.boxes: key -> its current box, 0 when it has none
  box,      \* every box ever made, with its container
  volume,   \* the shared busybox volume
  req,      \* the requests
  scope,    \* one of Scopes, for good
  spent,    \* what the environment has used of it
  stray     \* a ghost: boxes with a container that failed calls to the daemon left behind

vars == <<now, boxes, box, volume, req, scope, spent, stray>>

Ids == 1..MaxBoxes
Used == {b \in Ids : box[b].key # "none"}
Exists(b) == box[b].ctr \in {"created", "running"}

Timeout(r) == IF r \in Writes THEN WriteTimeout ELSE OpTimeout
CtxDone(r) == req[r].dropped \/ now >= req[r].deadline

Unmade == [key |-> "none", expires |-> 0, ready |-> FALSE, err |-> FALSE,
           ctr |-> "none", exitAt |-> 0, blank |-> FALSE]

Init ==
  /\ now = 0
  /\ boxes = [k \in Keys |-> 0]
  /\ box = [b \in Ids |-> Unmade]
  /\ volume \in {"absent", "filled"}
  /\ scope \in Scopes
  /\ req = [r \in Requests |->
              [pc |-> IF r \in DOMAIN scope.key THEN "idle" ELSE "done",
               key |-> IF r \in DOMAIN scope.key THEN scope.key[r] ELSE "none",
               box |-> 0, deadline |-> 0, retried |-> FALSE,
               dropped |-> FALSE, why |-> "none", seen |-> {}]]
  /\ spent = [vanish |-> 0, volume |-> 0, dropped |-> 0]
  /\ stray = {}

Goto(r, pc) == req' = [req EXCEPT ![r].pc = pc]
End(r, pc, why) ==
  req' = [req EXCEPT ![r].pc = pc, ![r].why = why, ![r].box = 0, ![r].deadline = 0,
                     ![r].dropped = FALSE, ![r].seen = IF pc = "done" THEN @ ELSE {}]
Done(r) == End(r, "done", "none")
Fail(r, why) == End(r, "failed", why)
Gone(b, how) == [box[b] EXCEPT !.ctr = how, !.exitAt = 0]

(***************************************************************************)
(* do and get                                                              *)
(***************************************************************************)

\* do sets the request's bound; a Release starts with Remove.
Begin(r) ==
  /\ req[r].pc = "idle"
  /\ req' = [req EXCEPT ![r].pc = IF r \in Releases THEN "take" ELSE "get",
                        ![r].deadline = now + Timeout(r)]
  /\ UNCHANGED <<now, boxes, box, volume, spent>>

\* Mutant: a box that is still alive will do.
ReusableAlive(r, b) == b # 0 /\ box[b].expires > now

\* A box with at least the request's bound left to live.
Reusable(r, b) == b # 0 /\ box[b].expires >= now + Timeout(r)

\* get under the lock: share key's box ...
Share(r) ==
  LET b == boxes[req[r].key] IN
  /\ req[r].pc = "get" /\ Reusable(r, b)
  /\ req' = [req EXCEPT ![r].pc = "wait", ![r].box = b]
  /\ UNCHANGED <<now, boxes, box, volume, spent>>

\* ... or put an empty one in its place, its life counted from now, after
\* sweepLocked dropped the boxes that have exited.
Place(r) ==
  LET k == req[r].key IN
  /\ req[r].pc = "get" /\ ~Reusable(r, boxes[k])
  /\ \E b \in Ids \ Used :
       /\ \A o \in Ids \ Used : b <= o
       /\ boxes' = [o \in Keys |-> IF o = k THEN b
                                   ELSE IF boxes[o] # 0 /\ box[boxes[o]].expires < now THEN 0
                                   ELSE boxes[o]]
       /\ box' = [box EXCEPT ![b] = [Unmade EXCEPT !.key = k, !.expires = now + BoxLife]]
       /\ req' = [req EXCEPT ![r].pc = "mount", ![r].box = b]
  /\ UNCHANGED <<now, volume, spent>>

\* start, outside the lock and detached from the request.  busyboxMount takes
\* an existing volume as it is and fills a missing one.
Mount(r) ==
  /\ req[r].pc = "mount"
  /\ \/ volume' = (IF volume = "absent" THEN "filled" ELSE volume) /\ Goto(r, "create") /\ UNCHANGED box
     \/ Goto(r, "forget") /\ box' = [box EXCEPT ![req[r].box].err = TRUE] /\ UNCHANGED volume
  /\ UNCHANGED <<now, boxes, spent>>

\* A call to the daemon that fails and leaves the box's container behind.
Leaves(b) == Cardinality(stray) < scope.stray /\ stray' = stray \cup {b}

\* ContainerCreate: the daemon makes a blank volume for a mount whose volume is gone.
\* It may make the container and the answer may get lost.
Create(r) ==
  LET b == req[r].box IN
  /\ req[r].pc = "create"
  /\ \/ /\ volume' = (IF volume = "absent" THEN "blank" ELSE volume)
        /\ \E failed \in BOOLEAN :
             /\ box' = [box EXCEPT ![b].ctr = "created", ![b].blank = (volume # "filled"), ![b].err = failed]
             /\ IF failed THEN Leaves(b) ELSE UNCHANGED stray
             /\ Goto(r, IF failed THEN "forget" ELSE "start")
     \/ Goto(r, "forget") /\ box' = [box EXCEPT ![b].err = TRUE] /\ UNCHANGED <<volume, stray>>
  /\ UNCHANGED <<now, boxes, spent>>

\* Mutant: start runs under the request's context, and so does its removal.
StartAttached(r) ==
  LET b == req[r].box IN
  /\ req[r].pc = "start" /\ box[b].ctr = "created"
  /\ IF req[r].dropped
       THEN box' = [box EXCEPT ![b].err = TRUE] /\ Goto(r, "forget")
       ELSE box' = [box EXCEPT ![b].ctr = "running", ![b].exitAt = now + BoxLife] /\ Goto(r, "close")
  /\ UNCHANGED <<now, boxes, volume, spent, stray>>

\* ContainerStart.  It fails when the entrypoint is missing or for any reason of
\* the daemon's, which may have started the box all the same; start then removes the
\* container, and does not look at what comes of that.
StartBox(r) ==
  LET b == req[r].box IN
  /\ req[r].pc = "start"
  /\ \/ /\ box[b].ctr = "created"
        /\ \E failed \in BOOLEAN :
             /\ box' = [box EXCEPT ![b].ctr = "running", ![b].exitAt = now + BoxLife, ![b].err = failed]
             /\ IF failed THEN Leaves(b) ELSE UNCHANGED stray
             /\ Goto(r, IF failed THEN "forget" ELSE "close")
     \/ /\ \E left \in {"gone", box[b].ctr} :
             /\ box' = [box EXCEPT ![b].ctr = left, ![b].err = TRUE]
             /\ IF left = "created" THEN Leaves(b) ELSE UNCHANGED stray
        /\ Goto(r, "forget")
  /\ UNCHANGED <<now, boxes, volume, spent>>

\* forget: the key's box is dropped, unless it is another one by now.
Forgotten(k, b) == IF boxes[k] = b THEN [boxes EXCEPT ![k] = 0] ELSE boxes

\* get, start having failed: the box is forgotten before its waiters are told.
ForgetFailed(r) ==
  /\ req[r].pc = "forget"
  /\ boxes' = Forgotten(req[r].key, req[r].box)
  /\ Goto(r, "close")
  /\ UNCHANGED <<now, box, volume, spent>>

\* Mutant: ready is closed only for a box that started.
CloseStarted(r) ==
  /\ req[r].pc = "close"
  /\ box' = [box EXCEPT ![req[r].box].ready = ~box[req[r].box].err]
  /\ Goto(r, "wait")
  /\ UNCHANGED <<now, boxes, volume, spent>>

\* close(b.ready): everyone sharing the box learns how its start ended.
Close(r) ==
  /\ req[r].pc = "close"
  /\ box' = [box EXCEPT ![req[r].box].ready = TRUE]
  /\ Goto(r, "wait")
  /\ UNCHANGED <<now, boxes, volume, spent>>

\* get's select, which may take either case when both are open.
Wait(r) ==
  LET b == req[r].box IN
  /\ req[r].pc = "wait"
  /\ \/ box[b].ready /\ box[b].err /\ Fail(r, IF box[b].blank THEN "blank" ELSE "other")
     \/ box[b].ready /\ ~box[b].err /\ Goto(r, "op")
     \/ CtxDone(r) /\ Fail(r, "other")
  /\ UNCHANGED <<now, boxes, box, volume, spent>>

-----------------------------------------------------------------------------
(* do: the operation in the box, and its one retry.                        *)

\* The command ran, whatever it answered.
OpAnswered(r) ==
  /\ req[r].pc = "op" /\ box[req[r].box].ctr = "running" /\ ~box[req[r].box].blank
  /\ Done(r)
  /\ UNCHANGED <<now, boxes, box, volume, spent>>

\* The request was dropped or ran out of time.
OpDropped(r) ==
  /\ req[r].pc = "op" /\ CtxDone(r)
  /\ Fail(r, "other")
  /\ UNCHANGED <<now, boxes, box, volume, spent>>

\* NotFound or Conflict: the box is gone (once the context is done the client
\* answers with the context's error instead).
OpGone(r) ==
  /\ req[r].pc = "op" /\ ~CtxDone(r) /\ box[req[r].box].ctr # "running"
  /\ IF req[r].retried THEN Fail(r, "gone") ELSE Goto(r, "again")
  /\ UNCHANGED <<now, boxes, box, volume, spent>>

\* ErrExecNotFound: there is no busybox in the box.
OpBroken(r) ==
  /\ req[r].pc = "op" /\ box[req[r].box].ctr = "running" /\ box[req[r].box].blank
  /\ IF req[r].retried THEN Fail(r, "blank") ELSE Goto(r, "take")
  /\ UNCHANGED <<now, boxes, box, volume, spent>>

ForgetGone(r) ==
  /\ req[r].pc = "again"
  /\ boxes' = Forgotten(req[r].key, req[r].box)
  /\ req' = [req EXCEPT ![r].pc = "get", ![r].retried = TRUE]
  /\ UNCHANGED <<now, box, volume, spent>>

\* After Remove, the blank volume is dropped, unless a container still mounts it.
DropVolume(r) ==
  /\ req[r].pc = "volume"
  /\ volume' \in {volume} \cup IF \E b \in Ids : Exists(b) THEN {} ELSE {"absent"}
  /\ req' = [req EXCEPT ![r].pc = "get", ![r].retried = TRUE]
  /\ UNCHANGED <<now, boxes, box, spent>>

-----------------------------------------------------------------------------
(* Remove, and the releases of fsbrowse.                                   *)

\* The helpers of key k: its containers, and the box the map holds for it.
Helpers(k) == {b \in Used : box[b].key = k /\ (Exists(b) \/ boxes[k] = b)}

Removed(r) == Goto(r, IF r \in Releases THEN "list" ELSE "volume")

Take(r) ==
  LET k == req[r].key
      helpers == IF r \in Releases THEN Helpers(k) ELSE {}
  IN
  /\ req[r].pc = "take"
  /\ boxes' = [boxes EXCEPT ![k] = 0]
  /\ IF boxes[k] = 0
     THEN req' = [req EXCEPT ![r].pc = IF r \in Releases THEN "list" ELSE "volume", ![r].seen = helpers]
     ELSE req' = [req EXCEPT ![r].pc = "await", ![r].box = boxes[k], ![r].seen = helpers]
  /\ UNCHANGED <<now, box, volume, spent>>

\* Remove waits for a creation under way, then removes the container.
Await(r) ==
  LET b == req[r].box IN
  /\ req[r].pc = "await"
  /\ \/ CtxDone(r) /\ Fail(r, "other") /\ UNCHANGED box
     \/ box[b].ready /\ box[b].err /\ Removed(r) /\ UNCHANGED box
     \/ box[b].ready /\ ~box[b].err /\ box' = [box EXCEPT ![b] = Gone(b, "gone")] /\ Removed(r)
     \/ box[b].ready /\ ~box[b].err /\ Fail(r, "other") /\ UNCHANGED box
  /\ UNCHANGED <<now, boxes, volume, spent>>

\* Mutant: a release removes the key's box only.
ReleaseKeyOnly(r) ==
  /\ req[r].pc = "list"
  /\ Done(r)
  /\ UNCHANGED <<now, boxes, box, volume, spent>>

\* removeLabeled: every container with the key's label, those replaced early too.
RemoveLabeled(r) ==
  /\ req[r].pc = "list"
  /\ \/ /\ box' = [b \in Ids |-> IF box[b].key = req[r].key /\ Exists(b)
                                 THEN Gone(b, "gone") ELSE box[b]]
        /\ Done(r)
     \/ Fail(r, "other") /\ UNCHANGED box
  /\ UNCHANGED <<now, boxes, volume, spent>>

-----------------------------------------------------------------------------
(* The daemon, other users of it, and time.                                *)

\* The box's sleep is over; AutoRemove takes the container away.
Expire(b) ==
  /\ box[b].ctr = "running" /\ now >= box[b].exitAt
  /\ box' = [box EXCEPT ![b] = Gone(b, "expired")]
  /\ UNCHANGED <<now, boxes, volume, req, spent>>

\* Somebody removes a box, or the target whose namespace it shares stops.
Vanish(b) ==
  /\ box[b].ctr = "running" /\ spent.vanish < scope.vanish
  /\ box' = [box EXCEPT ![b] = Gone(b, "gone")]
  /\ spent' = [spent EXCEPT !.vanish = @ + 1]
  /\ UNCHANGED <<now, boxes, volume, req>>

\* Somebody deletes the busybox volume; the daemon refuses while it is mounted.
VolumeDeleted ==
  /\ volume # "absent" /\ spent.volume < scope.volume /\ \A b \in Ids : ~Exists(b)
  /\ volume' = "absent"
  /\ spent' = [spent EXCEPT !.volume = @ + 1]
  /\ UNCHANGED <<now, boxes, box, req>>

ClientGone(r) ==
  /\ req[r].pc \notin {"idle", "done", "failed"} /\ ~req[r].dropped /\ spent.dropped < scope.dropped
  /\ req' = [req EXCEPT ![r].dropped = TRUE]
  /\ spent' = [spent EXCEPT !.dropped = @ + 1]
  /\ UNCHANGED <<now, boxes, box, volume>>

\* No wait outlasts the context it selects on, and no start outlasts its own.
Tick ==
  /\ now < scope.time
  /\ \A r \in Requests :
       /\ req[r].pc \in {"wait", "op", "await", "list"} => now < req[r].deadline
       /\ req[r].pc \in {"mount", "create", "start"} =>
            now + BoxLife < box[req[r].box].expires + OpTimeout
  /\ now' = now + 1
  /\ UNCHANGED <<boxes, box, volume, req, spent>>

Step(r) ==
  \/ Create(r) \/ StartBox(r)
  \/ /\ \/ Begin(r) \/ Share(r) \/ Place(r) \/ Mount(r) \/ ForgetFailed(r) \/ Close(r) \/ Wait(r)
        \/ OpAnswered(r) \/ OpDropped(r) \/ OpGone(r) \/ OpBroken(r) \/ ForgetGone(r) \/ DropVolume(r)
        \/ Take(r) \/ Await(r) \/ RemoveLabeled(r)
     /\ UNCHANGED stray

Next ==
  /\ \/ \E r \in Requests : Step(r)
     \/ /\ \/ \E r \in Requests : ClientGone(r)
           \/ \E b \in Ids : Expire(b) \/ Vanish(b)
           \/ VolumeDeleted \/ Tick
        /\ UNCHANGED stray
  /\ UNCHANGED scope

Spec == Init /\ [][Next]_vars

\* Goroutines run, and each call to the daemon is answered.
FairSpec == Spec /\ \A r \in Requests : WF_vars(Step(r) /\ UNCHANGED scope)

-----------------------------------------------------------------------------
\* Type invariant of the pool, its boxes and its requests: in the map there
\* are only boxes of the key they are filed under.
TypeOK ==
  /\ now \in 0..MaxTime
  /\ boxes \in [Keys -> Ids \cup {0}]
  /\ \A k \in Keys : boxes[k] # 0 => box[boxes[k]].key = k
  /\ box \in [Ids -> [key : Keys \cup {"none"}, expires : 0..(MaxTime + BoxLife), ready : BOOLEAN,
                      err : BOOLEAN, ctr : {"none", "created", "running", "gone", "expired"},
                      exitAt : 0..(MaxTime + BoxLife), blank : BOOLEAN]]
  /\ volume \in {"absent", "filled", "blank"}
  /\ req \in [Requests ->
       [pc : {"idle", "get", "mount", "create", "start", "forget", "close", "wait", "op", "again",
              "take", "await", "volume", "list", "done", "failed"},
        key : Keys \cup {"none"}, box : Ids \cup {0}, deadline : 0..(MaxTime + WriteTimeout), retried : BOOLEAN,
        dropped : BOOLEAN, why : {"none", "blank", "gone", "other"},
        seen : SUBSET Ids]]
  /\ scope \in Scopes
  /\ spent \in [vanish : 0..scope.vanish, volume : 0..scope.volume, dropped : 0..scope.dropped]
  /\ stray \subseteq Ids

\* An operation never races its box's exit ("so op never races its exit", do):
\* a box runs out of its own life under an operation only when the operation's
\* bound has passed too.
NeverOutlivesBox ==
  \A r \in Requests :
    req[r].pc = "op" /\ box[req[r].box].ctr = "expired" => now >= req[r].deadline

\* A failed start is never handed to a later request (get: "the next call
\* retries"): once its waiters have been told, the map no longer holds the box.
FailureNotShared ==
  \A k \in Keys : LET b == boxes[k] IN b # 0 /\ box[b].ready => ~box[b].err

\* The one retry covers a box that vanished (Ls): while at most one box was
\* removed by somebody else, and nothing was released and no busybox volume
\* was lost, no request is answered that its box is gone.
RetryCoversVanished ==
  (\E r \in Requests : req[r].why = "gone")
    => \/ spent.vanish > 1 \/ spent.volume > 0
       \/ \E r \in Releases \cap DOMAIN scope.key : req[r].pc # "idle"

\* A release that reports success has removed every helper its target had when
\* it took the key (fsbrowse.ContainerLabel: "so deleting that container releases
\* them all"): the boxes replaced early, and the one still being created.
ReleasedAll ==
  \A r \in Releases : req[r].pc = "done" => \A b \in req[r].seen : ~Exists(b)

\* A client that goes away strands no created container (start: "a request dropped
\* mid-create must not strand a created-but-never-started container"), whoever else
\* shares or releases the box meanwhile: one that exists unstarted is still being
\* started.  The daemon can strand one, by not answering the create, or by not
\* removing it after a failed start: nobody comes back for it until the next start-up.
NotStranded ==
  \A b \in Ids : box[b].ctr = "created" =>
    (\E r \in Requests : req[r].box = b /\ req[r].pc = "start") \/ b \in stray

\* Whoever waits for a box is told how its creation ended, the creator's client
\* gone or not, and without a timeout having to end the wait.
WaitersTold == \A r \in Requests : req[r].pc \in {"wait", "await"} ~> req[r].pc \notin {"wait", "await"}

\* What Ls documents of the busybox volume ("One retry covers ... a busybox
\* volume that came up empty (deleted between inspect and create, Docker then
\* creates a blank one): that volume is dropped so the retry refills it"): no
\* request fails on a blank volume without having retried.  Not kept: BrowsePool_blank.cfg.
RetryCoversBlank ==
  \A r \in Requests : req[r].why = "blank" => req[r].retried

\* The pool is sound: types, no operation beyond its box's life, no failure handed on,
\* the retry of do().
Sound == TypeOK /\ NeverOutlivesBox /\ FailureNotShared /\ RetryCoversVanished
=============================================================================
