-------------------------- MODULE ReplaceContainer --------------------------
(***************************************************************************)
(* replaceContainer of backend/internal/docker/container/upgrade.go and    *)
(* the rollback helpers of container.go: one container ("old") is replaced *)
(* by another built from the same settings ("new"), through a sequence of  *)
(* Docker calls each of which may fail.                                    *)
(*                                                                         *)
(* A Docker call answers "ok", "fail" (an error, nothing done) or "lost":  *)
(* the caller's context ended while the call was under way, the client     *)
(* returns an error and the daemon carries the call out all the same. A    *)
(* stop can be lost and still be waiting for the process to exit, so it    *)
(* takes effect later (stopping). An attempt is lossy if that may happen   *)
(* to it. The context checks of the code directly before a call lead to    *)
(* the same rollback as the call's own failure and are part of it.         *)
(***************************************************************************)
EXTENDS FiniteSets

CONSTANTS
  Extra,        \* networks joined after the creation (splitNetworking)
  Addressed     \* networks on which the old container has a configured address

ASSUME ReplaceAssumption == IsFiniteSet(Extra) /\ IsFiniteSet(Addressed)

VARIABLES
  ctr,         \* the daemon's view of the two containers
  address,     \* per network, what became of the old container's address
  image,       \* image the new container was created from
  tag,         \* what the image reference resolves to
  stopping,    \* a lost stop of the old container is still under way
  netns,       \* the old container has not been stopped since the attempt began
  pc,
  lossy,       \* the daemon may finish a call whose caller has gone
  oldRunning,  \* r.info.State.Running
  pinned,      \* cfg.Image is the image ID instead of the reference
  stopped,     \* the result of that name
  restoreNet,  \* restoreNetworking is set
  todo,        \* networks left to handle in the current loop
  cancelled,   \* ctx is done
  expired,     \* the cleanup context's 30 seconds are over
  ripe,        \* upgradeSettleTime has passed
  complaint    \* the error returned names something that was not restored

daemon == <<ctr, address, image, tag, stopping, netns>>
fixed  == <<lossy, oldRunning>>
flags  == <<fixed, pinned, stopped, restoreNet>>
times  == <<cancelled, expired, ripe>>
replaceVars   == <<daemon, pc, flags, todo, times, complaint>>

Forward  == {"config", "create", "connect", "stop", "start", "settle",
             "backup", "switch", "remove"}
Rollback == {"undoName", "undoCreate", "undoNet", "undoStart"}
Returned    == {"done", "failed", "crashed"}

ContainerState == {"absent", "created", "running", "exited", "crashed"}
Names     == {"none", "original", "temp", "backup"}
Container == [name: Names, state: ContainerState]
Absent    == [name |-> "none", state |-> "absent"]

ReplaceTypeOK ==
  /\ ctr \in [{"old", "new"} -> Container]
  /\ address \in [Addressed -> {"held", "freed", "changed", "cut"}]
  /\ image \in {"none", "verified", "other"}
  /\ tag \in {"verified", "other"}
  /\ stopping \in BOOLEAN /\ netns \in BOOLEAN
  /\ lossy \in BOOLEAN /\ oldRunning \in BOOLEAN /\ pinned \in BOOLEAN
  /\ stopped \in BOOLEAN /\ restoreNet \in BOOLEAN
  /\ cancelled \in BOOLEAN /\ expired \in BOOLEAN /\ ripe \in BOOLEAN
  /\ complaint \in BOOLEAN
  /\ pc \in Forward \cup Rollback \cup Returned
  /\ todo \in SUBSET (Extra \cup Addressed)

ReplaceInit ==
  /\ lossy \in BOOLEAN /\ oldRunning \in BOOLEAN
  /\ ctr = [old |-> [name |-> "original", state |-> IF oldRunning THEN "running" ELSE "exited"],
            new |-> Absent]
  /\ address = [n \in Addressed |-> "held"]
  /\ image = "none" /\ tag = "verified"
  /\ pc = "config" /\ todo = {}
  /\ stopping = FALSE /\ netns = TRUE
  /\ pinned = FALSE /\ stopped = FALSE /\ restoreNet = FALSE
  /\ cancelled = FALSE /\ expired = FALSE /\ ripe = FALSE
  /\ complaint = FALSE

-----------------------------------------------------------------------------
\* The Docker daemon.

\* How a call may be answered, given whether the context it runs under is over.
Answers(over) ==
  IF over THEN {"fail"} \cup (IF lossy THEN {"lost"} ELSE {})
          ELSE {"ok", "fail"}

Done(answer) == answer \in {"ok", "lost"}

Present(c)    == ctr[c].state # "absent"
Running(c)   == ctr[c].state = "running"
NameTaken(n) == \E c \in {"old", "new"} : ctr[c].name = n

\* ContainerRename: refused when the name is in use.
CanRename(c, n) == Present(c) /\ ~NameTaken(n)
Renamed(c, n)   == [ctr EXCEPT ![c].name = n]

\* A container that stops leaves its network namespace; an address that was
\* allocated dynamically goes back to the pool, and the next start may get
\* another one unless the endpoint has been configured again.
StopOld ==
  /\ ctr' = [ctr EXCEPT !["old"].state = "exited"]
  /\ address' = [n \in Addressed |-> IF address[n] = "held" THEN "freed" ELSE address[n]]
  /\ netns' = FALSE

StartOld ==
  /\ ctr' = [ctr EXCEPT !["old"].state = "running"]
  /\ address' = [n \in Addressed |-> IF address[n] = "freed" THEN "changed" ELSE address[n]]

\* The stop whose caller has gone comes to its end.
DaemonFinishesStop ==
  /\ stopping /\ stopping' = FALSE
  /\ IF Running("old") THEN StopOld ELSE UNCHANGED <<ctr, address, netns>>
  /\ UNCHANGED <<image, tag, pc, flags, todo, times, complaint>>

\* Somebody pulls or tags: the reference stops naming the verified image.
TagMoves ==
  /\ tag = "verified" /\ tag' = "other"
  /\ pc \in Forward
  /\ UNCHANGED <<ctr, address, image, stopping, netns, pc, flags, todo, times, complaint>>

\* The new container ends by itself: with exit code 0, or by a crash.
ReplacementEnds ==
  /\ Running("new")
  /\ \E s \in {"exited", "crashed"} : ctr' = [ctr EXCEPT !["new"].state = s]
  /\ UNCHANGED <<address, image, tag, stopping, netns, pc, flags, todo, times, complaint>>

-----------------------------------------------------------------------------
\* The steps of the attempt.

Then(l) == pc' = l /\ UNCHANGED complaint

\* Mutant: the original is not stopped before the replacement starts.
JoinedWithoutStop(left) == IF left # {} THEN "connect" ELSE IF oldRunning THEN "start" ELSE "settle"

\* After the last network is joined: only a running original has to be stopped.
Joined(left) == IF left # {} THEN "connect" ELSE IF oldRunning THEN "stop" ELSE "settle"

\* rollbackUpgrade after a failure that left the original's name alone.
Undo == Then("undoCreate") /\ todo' = {}

\* Mutant: the name taken from the original is not given back.
UndoForgettingName == Undo

\* restoreUpgradeName first, then rollbackUpgrade.
UndoWithName == Then("undoName") /\ todo' = {}

\* upgradeNetworkingConfig and the choice of cfg.Image. An ImageInspect error
\* pins the ID just like a reference that resolves to something else.
Configure ==
  /\ pc = "config"
  /\ \/ /\ "ok" \in Answers(cancelled)
        /\ pinned' \in BOOLEAN /\ (tag # "verified" => pinned')
        /\ Then("create")
     \/ Then("failed") /\ UNCHANGED pinned
  /\ UNCHANGED <<daemon, fixed, stopped, restoreNet, todo, times>>

\* ContainerCreate under the temporary name. An error that still carries the
\* container's ID ("partial") is rolled back, one that does not is returned.
Create ==
  /\ pc = "create"
  /\ \E answer \in Answers(cancelled) \cup {"partial"} :
       /\ IF answer = "fail"
            THEN UNCHANGED <<ctr, image>>
            ELSE /\ ctr' = [ctr EXCEPT !["new"] = [name |-> "temp", state |-> "created"]]
                 /\ image' = IF pinned THEN "verified" ELSE tag
       /\ \/ answer = "ok" /\ Then(Joined(Extra)) /\ todo' = Extra
          \/ answer = "partial" /\ Undo
          \/ answer \in {"fail", "lost"} /\ Then("failed") /\ UNCHANGED todo
  /\ UNCHANGED <<address, tag, stopping, netns, flags, times>>

\* NetworkConnect, one network after the other.
Connect ==
  /\ pc = "connect"
  /\ \E n \in todo, answer \in Answers(cancelled) :
       IF answer = "ok" THEN todo' = todo \ {n} /\ Then(Joined(todo \ {n}))
                        ELSE Undo
  /\ UNCHANGED <<daemon, flags, times>>

\* Mutant: what the code remembers about the stop it made is incomplete.
NoteOnlyStop       == stopped' = TRUE /\ UNCHANGED restoreNet

\* From here on a rollback has addresses to restore and dependents to restart.
NoteStopped == stopped' = TRUE /\ restoreNet' = TRUE

\* ContainerStop of the original; "not modified" counts as success.
Stop ==
  /\ pc = "stop"
  /\ \E answer \in Answers(cancelled) :
       \/ /\ answer = "ok"
          /\ IF Running("old") THEN StopOld ELSE UNCHANGED <<ctr, address, netns>>
          /\ NoteStopped
          /\ Then("start") /\ UNCHANGED <<stopping, todo>>
       \/ /\ answer # "ok"
          /\ stopping' = (answer = "lost")
          /\ Undo /\ UNCHANGED <<ctr, address, netns, stopped, restoreNet>>
  /\ UNCHANGED <<image, tag, fixed, pinned, times>>

Start ==
  /\ pc = "start"
  /\ \E answer \in Answers(cancelled) :
       /\ ctr' = IF Done(answer) THEN [ctr EXCEPT !["new"].state = "running"] ELSE ctr
       /\ IF answer = "ok" THEN Then("settle") /\ UNCHANGED todo ELSE Undo
  /\ UNCHANGED <<address, image, tag, stopping, netns, flags, times>>

\* settleReplacement: one look at the new container, and another one 500 ms
\* later until the settle time has passed. A container that ended with exit
\* code 0 is accepted; one that was never started is looked at once.
Settle ==
  /\ pc = "settle"
  /\ \/ /\ "ok" \in Answers(cancelled)
        /\ image = "verified"
        /\ oldRunning => ripe /\ ctr["new"].state # "crashed"
        /\ Then("backup") /\ UNCHANGED todo
     \/ Undo
  /\ UNCHANGED <<daemon, flags, times>>

\* Rename the original out of the way. The failure path assumes that the name
\* was left alone.
Backup ==
  /\ pc = "backup"
  /\ \E answer \in Answers(cancelled) :
       /\ Done(answer) => CanRename("old", "backup")
       /\ ctr' = IF Done(answer) THEN Renamed("old", "backup") ELSE ctr
       /\ IF answer = "ok" THEN Then("switch") /\ UNCHANGED todo ELSE Undo
  /\ UNCHANGED <<address, image, tag, stopping, netns, flags, times>>

\* Mutant: a failed switch is taken for a success.
SwitchUnchecked ==
  /\ pc = "switch"
  /\ \E answer \in Answers(cancelled) :
       ctr' = IF Done(answer) THEN Renamed("new", "original") ELSE ctr
  /\ Then("remove")
  /\ UNCHANGED <<address, image, tag, stopping, netns, flags, todo, times>>

\* The replacement takes the name over.
SwitchName ==
  /\ pc = "switch"
  /\ \E answer \in Answers(cancelled) :
       /\ Done(answer) => CanRename("new", "original")
       /\ ctr' = IF Done(answer) THEN Renamed("new", "original") ELSE ctr
       /\ IF answer = "ok" THEN Then("remove") /\ UNCHANGED todo ELSE UndoWithName
  /\ UNCHANGED <<address, image, tag, stopping, netns, flags, times>>

\* The original is removed under a context of its own; a failure is a warning.
Remove ==
  /\ pc = "remove"
  /\ \E answer \in Answers(FALSE) \cup Answers(TRUE) :
       ctr' = IF Done(answer) THEN [ctr EXCEPT !["old"] = Absent] ELSE ctr
  /\ Then("done")
  /\ UNCHANGED <<address, image, tag, stopping, netns, flags, todo, times>>

-----------------------------------------------------------------------------
\* The rollback, under a context that outlives the request by 30 seconds.

Complain(answer) == complaint' = (complaint \/ answer # "ok")

\* restoreUpgradeName; the next call gets a new cleanup context.
UndoName ==
  /\ pc = "undoName"
  /\ \E answer \in Answers(expired) :
       /\ Done(answer) => CanRename("old", "original")
       /\ ctr' = IF Done(answer) THEN Renamed("old", "original") ELSE ctr
       /\ Complain(answer)
  /\ pc' = "undoCreate" /\ expired' = FALSE
  /\ UNCHANGED <<address, image, tag, stopping, netns, flags, todo, cancelled, ripe>>

\* Remove the replacement by force, then restore the original if it was running.
UndoCreate ==
  /\ pc = "undoCreate"
  /\ \E answer \in Answers(expired) :
       /\ ctr' = IF Done(answer) THEN [ctr EXCEPT !["new"] = Absent] ELSE ctr
       /\ Complain(answer)
  /\ pc' = IF ~oldRunning THEN "failed" ELSE IF restoreNet THEN "undoNet" ELSE "undoStart"
  /\ todo' = IF oldRunning /\ restoreNet THEN Addressed ELSE {}
  /\ UNCHANGED <<address, image, tag, stopping, netns, flags, times>>

\* restoreUpgradeNetworking: disconnect, then connect with the old address. A
\* failed disconnect goes on with the next network.
UndoNet ==
  /\ pc = "undoNet"
  /\ \/ /\ todo = {}
        /\ Then("undoStart")
        /\ UNCHANGED <<address, todo>>
     \/ \E n \in todo, answer \in Answers(expired), became \in {"held", "cut"} :
          /\ answer = "ok" => became = "held"
          /\ became = "held" => Done(answer)
          /\ \/ address' = [address EXCEPT ![n] = became]
             \/ answer # "ok" /\ address' = address
          /\ todo' = todo \ {n}
          /\ Complain(answer)
          /\ UNCHANGED pc
  /\ UNCHANGED <<ctr, image, tag, stopping, netns, flags, times>>

\* ContainerStart of the original; "not modified" counts as success.
UndoStart ==
  /\ pc = "undoStart"
  /\ \E answer \in Answers(expired) :
       /\ IF Done(answer) /\ ~Running("old") THEN StartOld ELSE UNCHANGED <<ctr, address>>
       /\ Complain(answer)
  /\ pc' = "failed"
  /\ UNCHANGED <<image, tag, stopping, netns, flags, todo, times>>

-----------------------------------------------------------------------------
\* The request is abandoned, the clocks run, the server process dies.

Cancel ==
  /\ pc \in Forward /\ ~cancelled
  /\ cancelled' = TRUE
  /\ UNCHANGED <<daemon, pc, flags, todo, expired, ripe, complaint>>

CleanupExpires ==
  /\ pc \in Rollback /\ ~expired
  /\ expired' = TRUE
  /\ UNCHANGED <<daemon, pc, flags, todo, cancelled, ripe, complaint>>

SettleTimePasses ==
  /\ pc = "settle" /\ ~ripe
  /\ ripe' = TRUE
  /\ UNCHANGED <<daemon, pc, flags, todo, cancelled, expired, complaint>>

ServerDies ==
  /\ pc \notin Returned
  /\ Then("crashed")
  /\ UNCHANGED <<daemon, flags, todo, times>>

Step == \/ Configure \/ Create \/ Connect \/ Stop \/ Start \/ Settle
        \/ Backup \/ SwitchName \/ Remove
        \/ UndoName \/ UndoCreate \/ UndoNet \/ UndoStart

Environment == \/ DaemonFinishesStop \/ TagMoves \/ ReplacementEnds
               \/ Cancel \/ CleanupExpires \/ SettleTimePasses \/ ServerDies

ReplaceNext == Step \/ Environment

ReplaceSpec == ReplaceInit /\ [][ReplaceNext]_replaceVars

-----------------------------------------------------------------------------
\* The original as the attempt found it.
OriginalAsBefore ==
  /\ ctr["old"].name = "original"
  /\ Running("old") <=> oldRunning
  /\ \A n \in Addressed : address[n] = "held"

\* ... and the replacement is gone.
Untouched == OriginalAsBefore /\ ~Present("new")

\* At every moment, the death of the server included, the user still has the
\* container: the original exists, or the replacement holds its name. Remove is
\* the only call that gives the original up and it must come after the switch.
NeverLost == Present("old") \/ ctr["new"].name = "original"

\* "Any failure before the name switch restores the original" (the comment of
\* replaceContainer): an error that names nothing left undone means that the
\* original has its name, its run state and its addresses back and that no
\* replacement is left. Several calls of the attempt and of the rollback have to
\* agree on what was changed so far. It takes answers that are not lost.
FailureRestores == pc = "failed" /\ ~complaint /\ ~lossy => Untouched

\* The same of the original, as the comment has it, whatever answers are lost.
FailureKeepsOriginal == pc = "failed" /\ ~complaint => OriginalAsBefore

\* The result `stopped` tells upgrade whether the containers that share the
\* original's network namespace have to be restarted: it must be set whenever
\* the namespace died on the way and the answer that says so was not lost.
DependentsTold == pc = "failed" /\ ~netns /\ ~lossy => stopped

\* The original and the replacement publish the same ports and use the same
\* volumes: they run side by side only if the error reports that the
\* replacement could not be removed.
OneWorkload == Running("old") /\ Running("new") => complaint

\* Success: the name belongs to a container of the image that was verified,
\* even when the tag moved between the check and the creation.
SuccessIsVerified == pc = "done" => ctr["new"].name = "original" /\ image = "verified"

\* How the attempt looks to a caller who does not see the Docker calls.
Outcome == CASE pc = "done"    -> "switched"
             [] pc = "failed"  -> IF complaint THEN "reported" ELSE "kept"
             [] pc = "crashed" -> "abandoned"
             [] OTHER          -> "trying"

Owner == IF ctr["old"].name = "original" THEN "original"
         ELSE IF ctr["new"].name = "original" THEN "replacement" ELSE "nobody"

OriginalNow == IF ~Present("old") THEN "gone" ELSE IF Untouched THEN "intact" ELSE "disturbed"

Abstract == INSTANCE AtomicReplace WITH
  outcome <- Outcome, owner <- Owner, original <- OriginalNow

\* replaceContainer keeps the promise of AtomicReplace: it ends switched, kept
\* or with a report, and gives the original up only to a replacement that has
\* taken over the name. What "kept" is worth depends on lost answers.
Atomic == Abstract!Spec
=============================================================================
