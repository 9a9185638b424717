---------------------------- MODULE BrowserPull ----------------------------
(***************************************************************************)
(* A task of the queue that downloads images with the browser:             *)
(* runBrowserPull, runBrowserPullCompose, runBrowserCreate,                *)
(* runBrowserUpgrade and runComposeUpdate of stores/browserPull.ts, with   *)
(* resolveImage (api/registryPull.ts), the tar it assembles                *)
(* (api/dockerTar.ts), the WebSocket it goes through                       *)
(* (api/imageLoadStream.ts), the requests that follow (streamPost) and     *)
(* the watch of the helper (api/selfRestart.ts).                           *)
(*                                                                         *)
(* An image is a version of a reference; its tar is a number of chunks.    *)
(* pc is the await the runner is at.                                       *)
(***************************************************************************)
EXTENDS Naturals, Sequences, FiniteSets

CONSTANTS
  Refs,         \* image references
  Multi,        \* those whose tag names an index of platforms
  Layers,       \* layers of an image as its manifest lists them, perhaps one twice
  LayerSize,    \* chunks of a layer
  Threshold,    \* chunks the socket may hold before the pump waits
  MaxTagVersion,   \* bound: versions a tag has
  Tasks,        \* tasks that are queued
  Plans         \* what the backend may answer to pull-plan

ASSUME BrowserPullAssumption ==
  /\ IsFiniteSet(Refs) /\ Multi \subseteq Refs
  /\ Layers \in Seq(STRING) /\ Layers # <<>>
  /\ LayerSize \in Nat \ {0} /\ Threshold \in Nat /\ MaxTagVersion \in Nat \ {0}
  /\ Tasks \subseteq [kind : {"pull", "create", "upgrade", "compose", "update"},
                     mode : {"", "pull", "up", "build", "browser", "server"},
                     canBuild : BOOLEAN, restart : BOOLEAN, platform : BOOLEAN, ref : Refs]
  /\ \A plan \in Plans : {plan.images, plan.bases} \subseteq Seq(Refs)

VARIABLES
  task,      \* what was asked for
  todo,      \* what is left of it: pulls and requests, in order
  pc,
  outcome,   \* how the task was settled
  aborted,   \* cb.signal
  tag,       \* registry: version under each tag
  local,     \* daemon: version of each reference, 0: none
  img,       \* what resolveImage has read: versions of index, manifest and config
  tar,       \* tarEntries: layer it is at (0: head, Len+1: tail), chunks read of it, is its body open?
  sock,      \* the socket: state, chunk in hand, chunks it holds, was EOF sent?
  load,      \* the backend: chunks piped into ImageLoad, its state, is the image in?
  op,        \* requests sent, with how they ended in the backend
  helper,    \* the helper phyless handed the request to
  up         \* phyless answers

pullVars == <<task, todo, pc, outcome, aborted, tag, local, img, tar, sock, load, op, helper, up>>
stream == <<tar, sock, load>>
world == <<tag, local, up>>

Versions == 1..MaxTagVersion
Pull(r) == [do |-> "pull", arg |-> r]
Post(v) == [do |-> "post", arg |-> v]
Pulls(rs) == [i \in 1..Len(rs) |-> Pull(rs[i])]
NoImage == [top |-> 0, manifest |-> 0, config |-> 0]
NoTar == [layer |-> 0, read |-> 0, body |-> FALSE]
NoSock == [state |-> "none", held |-> FALSE, buffered |-> 0, eof |-> FALSE]
NoLoad == [got |-> 0, state |-> "none", loaded |-> FALSE]
Fetches == {"plan", "platform", "manifest", "digest", "config", "inspect", "post", "reply"}
Streaming == {"connect", "pump", "loaded?"}

\* Type invariant.
PullTypeOK ==
  /\ task \in Tasks /\ outcome \in {"running", "done", "error", "cancelled"}
  /\ pc \in Fetches \cup Streaming \cup {"watch", "end"}
  /\ todo \in Seq([do : {"pull", "post"}, arg : Refs \cup {"create", "upgrade", "up", "build", "pull", "redeploy"}])
  /\ aborted \in BOOLEAN /\ up \in BOOLEAN
  /\ tag \in [Refs -> Versions] /\ local \in [Refs -> 0..MaxTagVersion]
  /\ img \in [top : 0..MaxTagVersion, manifest : 0..MaxTagVersion, config : 0..MaxTagVersion]
  /\ tar \in [layer : 0..Len(Layers) + 2, read : 0..LayerSize, body : BOOLEAN]
  /\ sock \in [state : {"none", "open", "closed"}, held : BOOLEAN, buffered : 0..Threshold + 1, eof : BOOLEAN]
  /\ load \in [got : Nat, state : {"none", "reading", "complete", "failed"}, loaded : BOOLEAN]
  /\ \A o \in DOMAIN op : op[o] \in {"running", "ok", "failed", "handed"}
  /\ helper \in [state : {"none", "running", "ok", "failed"}, stops : BOOLEAN]

-----------------------------------------------------------------------------
(* What the runners do, in order.                                          *)

\* The follow-up of a task on one image.
Action == CASE task.kind = "pull" -> <<>>
            [] task.kind = "create" -> <<Post("create")>>
            [] task.kind = "upgrade" -> <<Post("upgrade")>>

ComposePull(plan) ==
  IF task.mode = "build" THEN Pulls(plan.bases) \o <<Post("build")>>
  ELSE Pulls(plan.images) \o (IF task.mode = "up" THEN <<Post("up")>> ELSE <<>>)

ComposeUpdate(plan) ==
  (IF task.mode = "browser"
   THEN (IF task.canBuild THEN Pulls(plan.bases) \o <<Post("build")>> ELSE <<>>) \o Pulls(plan.images)
   ELSE (IF ~task.canBuild \/ plan.images # <<>> THEN <<Post("pull")>> ELSE <<>>)
        \o (IF task.canBuild THEN <<Post("build")>> ELSE <<>>))
  \o (IF task.restart THEN <<Post("redeploy")>> ELSE <<>>)

\* Services the browser cannot download for.
Rejects(plan) ==
  IF task.kind = "compose" THEN task.mode # "build" /\ plan.rejected # {}
  ELSE task.mode = "browser" /\ plan.rejected \ {"build"} # {}

Steps(plan) == IF task.kind = "compose" THEN ComposePull(plan) ELSE ComposeUpdate(plan)

\* The await of the next step, or the end; a runner that returns settles its task as done.
Continue(rest) ==
  /\ todo' = rest
  /\ IF rest = <<>> THEN pc' = "end" /\ outcome' = "done"
     ELSE /\ outcome' = outcome
          /\ pc' = CASE Head(rest).do = "post" -> "post"
                     [] Head(rest).do # "post" /\ task.platform -> "manifest"
                     [] OTHER -> "platform"

\* A runner that throws settles its task by whether it was aborted.
Throw == /\ pc' = "end" /\ outcome' = (IF aborted THEN "cancelled" ELSE "error")
         /\ UNCHANGED todo

PullInit ==
  /\ task \in Tasks
  /\ todo = <<>> /\ outcome = "running" /\ aborted = FALSE
  /\ pc = "plan"
  /\ tag = [r \in Refs |-> 1] /\ local \in [Refs -> 0..1]
  /\ img = NoImage /\ tar = NoTar /\ sock = NoSock /\ load = NoLoad
  /\ op = <<>> /\ helper = [state |-> "none", stops |-> FALSE] /\ up = TRUE

Ref == Head(todo).arg

-----------------------------------------------------------------------------
(* Reads before the work: the plan of a project, the container and image   *)
(* an upgrade starts from.                                                 *)

\* runComposeUpdate needs a plan only to build or to pull with the browser.
NeedsPlan == task.kind = "compose" \/ task.canBuild \/ task.mode = "browser"

Planned ==
  /\ pc = "plan" /\ task.kind \in {"compose", "update"} /\ ~aborted
  /\ IF NeedsPlan
     THEN \E plan \in Plans : IF Rejects(plan) THEN Throw ELSE Continue(Steps(plan))
     ELSE Continue(ComposeUpdate([images |-> <<>>, bases |-> <<>>, rejected |-> {}]))
  /\ UNCHANGED <<task, aborted, img, stream, op, helper, world>>

Inspected ==
  /\ pc = "plan" /\ task.kind \in {"pull", "create", "upgrade"} /\ ~aborted
  /\ Continue(<<Pull(task.ref)>> \o Action)
  /\ UNCHANGED <<task, aborted, img, stream, op, helper, world>>

\* A fetch fails, or rejects because the task was aborted; only some tasks read before they pull.
Asks == task.kind = "upgrade" \/ (task.kind \in {"compose", "update"} /\ NeedsPlan)
FetchFails ==
  /\ pc \in Fetches \ {"inspect"} \/ (pc = "inspect" /\ aborted)
  /\ pc = "reply" => helper.state = "none" \/ aborted
  /\ pc = "plan" => Asks \/ aborted
  /\ Throw
  /\ op' = IF pc # "reply" \/ op[Len(op)] # "running" THEN op
           ELSE [op EXCEPT ![Len(op)] = "failed"]
  /\ UNCHANGED <<task, aborted, img, stream, helper, world>>

-----------------------------------------------------------------------------
(* resolveImage: manifest by tag, manifest of the platform by digest,      *)
(* config by digest, each after a token if the registry asks for one.      *)

GotPlatform ==
  /\ pc = "platform" /\ ~aborted
  /\ pc' = "manifest"
  /\ UNCHANGED <<task, todo, outcome, aborted, img, stream, op, helper, world>>

GotManifest ==
  /\ pc = "manifest" /\ ~aborted
  /\ img' = [top |-> tag[Ref], manifest |-> tag[Ref], config |-> 0]
  /\ pc' = IF Ref \in Multi THEN "digest" ELSE "config"
  /\ UNCHANGED <<task, todo, outcome, aborted, stream, op, helper, world>>

\* Mutant: the manifest of the platform is asked for by tag once more.
GotDigestByTag ==
  /\ pc = "digest" /\ ~aborted
  /\ img' = [img EXCEPT !.manifest = tag[Ref]]
  /\ pc' = "config"
  /\ UNCHANGED <<task, todo, outcome, aborted, stream, op, helper, world>>

GotDigest ==
  /\ pc = "digest" /\ ~aborted
  /\ img' = [img EXCEPT !.manifest = img.top]
  /\ pc' = "config"
  /\ UNCHANGED <<task, todo, outcome, aborted, stream, op, helper, world>>

GotConfig ==
  /\ pc = "config" /\ ~aborted
  /\ img' = [img EXCEPT !.config = img.manifest]
  /\ pc' = "inspect"
  /\ UNCHANGED <<task, todo, outcome, aborted, stream, op, helper, world>>

\* matchesRemote, by any of the three digests.
matchesRemote(version) == version # 0 /\ version \in {img.config, img.top, img.manifest}

\* inspectLocal: an image that cannot be inspected counts as missing.
InspectedLocal ==
  /\ pc = "inspect" /\ ~aborted
  /\ \E seen \in {local[Ref], 0} :
       IF matchesRemote(seen) THEN Continue(Tail(todo)) /\ UNCHANGED stream
       ELSE /\ pc' = "connect"
            /\ tar' = NoTar /\ sock' = NoSock /\ load' = NoLoad
            /\ UNCHANGED <<todo, outcome>>
  /\ UNCHANGED <<task, aborted, img, op, helper, world>>

-----------------------------------------------------------------------------
(* streamTarToDaemon: the pump reads the tar and sends it while the socket *)
(* has room; finish() settles the import once.                             *)

Depth == Len(Layers)
InLayer == tar.layer \in 1..Depth

\* tarEntries writes a blob once, where the manifest lists it first.
First(i) == \A j \in 1..i - 1 : Layers[j] # Layers[i]
NextLayer(i) == CHOOSE k \in i..Depth + 1 :
                  /\ k = Depth + 1 \/ First(k)
                  /\ \A j \in i..k - 1 : ~First(j)
\* Chunks of the whole tar: one for the head, one for the tail.
TarSize == 2 + LayerSize * Cardinality({i \in 1..Depth : First(i)})

\* finish(err): the socket is closed.  The tar's reader is cancelled, which returns the
\* generator; that releases the body of a layer, and only the task's signal ends its download.
Close == /\ sock' = [sock EXCEPT !.state = "closed"]
         /\ tar' = [tar EXCEPT !.body = tar.body /\ ~aborted]

Fail == Throw /\ Close

\* The handler sees a socket closed before EOF and cancels ImageLoad.
Abandon == load' = IF load.state = "reading" THEN [load EXCEPT !.state = "failed"] ELSE load

Connected ==
  /\ pc = "connect" /\ ~aborted
  /\ sock' = [sock EXCEPT !.state = "open"]
  /\ load' = [load EXCEPT !.state = "reading"]
  /\ pc' = "pump"
  /\ UNCHANGED <<task, todo, outcome, aborted, img, tar, op, helper, world>>

\* Mutant: the blob is fetched without the signal of the task.
OpenLayerUnaware ==
  /\ pc = "pump" /\ ~sock.held /\ InLayer /\ ~tar.body
  /\ tar' = [tar EXCEPT !.body = TRUE]
  /\ UNCHANGED <<task, todo, pc, outcome, aborted, img, sock, load, op, helper, world>>

\* openLayer: the blob answers, after a fresh token where the old one has expired.
OpenLayer ==
  /\ pc = "pump" /\ ~aborted /\ ~sock.held /\ InLayer /\ ~tar.body
  /\ tar' = [tar EXCEPT !.body = TRUE]
  /\ UNCHANGED <<task, todo, pc, outcome, aborted, img, sock, load, op, helper, world>>

\* The reader yields the next chunk; the last one of an entry takes the generator to the next.
ReadTar ==
  /\ pc = "pump" /\ ~aborted /\ ~sock.held /\ tar.layer <= Depth + 1
  /\ InLayer => tar.body
  /\ tar' = IF InLayer /\ tar.read + 1 < LayerSize THEN [tar EXCEPT !.read = @ + 1]
            ELSE [layer |-> IF tar.layer = Depth + 1 THEN Depth + 2 ELSE NextLayer(tar.layer + 1),
                  read |-> 0, body |-> FALSE]
  /\ sock' = [sock EXCEPT !.held = TRUE]
  /\ UNCHANGED <<task, todo, pc, outcome, aborted, img, load, op, helper, world>>

\* A layer cannot be opened, breaks off, or is not as long as its manifest says.
LayerFails ==
  /\ pc = "pump" /\ ~sock.held /\ InLayer
  /\ Fail /\ Abandon
  /\ UNCHANGED <<task, aborted, img, op, helper, world>>

\* The pump waits while the socket holds more than the threshold.
Send ==
  /\ pc = "pump" /\ ~aborted /\ sock.held /\ sock.buffered <= Threshold
  /\ sock' = [sock EXCEPT !.held = FALSE, !.buffered = @ + 1]
  /\ UNCHANGED <<task, todo, pc, outcome, aborted, img, tar, load, op, helper, world>>

SendEof ==
  /\ pc = "pump" /\ ~aborted /\ ~sock.held /\ tar.layer = Depth + 2
  /\ sock' = [sock EXCEPT !.eof = TRUE]
  /\ pc' = "loaded?"
  /\ UNCHANGED <<task, todo, outcome, aborted, img, tar, load, op, helper, world>>

\* Mutant: the listener of the signal is removed once the socket is open.
AbortedEarly ==
  /\ pc = "connect" /\ aborted
  /\ Fail /\ Abandon
  /\ UNCHANGED <<task, aborted, img, op, helper, world>>

\* The signal fires while the import is under way: onAbort.
Aborted ==
  /\ pc \in Streaming /\ aborted
  /\ Fail /\ Abandon
  /\ UNCHANGED <<task, aborted, img, op, helper, world>>

\* onerror, onclose.
SocketDies ==
  /\ pc \in Streaming
  /\ Fail /\ Abandon
  /\ UNCHANGED <<task, aborted, img, op, helper, world>>

\* onmessage: an error, which the handler also sends when no frame came for two minutes.
Refused ==
  /\ pc \in {"pump", "loaded?"} /\ load.state \in {"reading", "complete"}
  /\ Fail
  /\ load' = [load EXCEPT !.state = "failed"]
  /\ UNCHANGED <<task, aborted, img, op, helper, world>>

\* Mutant: the import counts as done once all of it is sent.
ImportedEarly ==
  /\ pc = "loaded?"
  /\ Continue(Tail(todo)) /\ Close
  /\ UNCHANGED <<load, task, aborted, img, op, helper, world>>

\* onmessage: {"status": "done"}.
Imported ==
  /\ pc = "loaded?" /\ load.state = "complete" /\ load.loaded
  /\ Continue(Tail(todo)) /\ Close
  /\ UNCHANGED <<load, task, aborted, img, op, helper, world>>

(* The backend's side: readFramesToPipe and ImageLoad. *)

Arrives ==
  /\ load.state = "reading" /\ sock.buffered > 0
  /\ sock' = [sock EXCEPT !.buffered = @ - 1]
  /\ load' = [load EXCEPT !.got = @ + 1]
  /\ UNCHANGED <<task, todo, pc, outcome, aborted, img, tar, op, helper, world>>

EofArrives ==
  /\ load.state = "reading" /\ sock.buffered = 0 /\ sock.eof
  /\ load' = [load EXCEPT !.state = "complete"]
  /\ UNCHANGED <<task, todo, pc, outcome, aborted, img, tar, sock, op, helper, world>>

\* The daemon has the end of the archive before the marker; the input ends with either.
DaemonLoads ==
  /\ load.state \in {"reading", "complete"} /\ ~load.loaded
  /\ load.got = TarSize \/ load.state = "complete"
  /\ load' = [load EXCEPT !.loaded = TRUE]
  /\ local' = [local EXCEPT ![Ref] = img.manifest]
  /\ UNCHANGED <<task, todo, pc, outcome, aborted, img, tar, sock, op, helper, tag, up>>

-----------------------------------------------------------------------------
(* streamPost: the requests that follow.                                   *)

SendPost ==
  /\ pc = "post" /\ ~aborted /\ up
  /\ op' = Append(op, "running")
  /\ pc' = "reply"
  /\ UNCHANGED <<task, todo, outcome, aborted, img, stream, helper, world>>

LastReply == op[Len(op)]
Ended(how) == op' = [op EXCEPT ![Len(op)] = how]

\* The backend ends the operation of a request.
OpEnds ==
  /\ op # <<>> /\ LastReply = "running"
  /\ \E how \in {"ok", "failed"} : Ended(how)
  /\ UNCHANGED <<task, todo, pc, outcome, aborted, img, stream, helper, world>>

\* The stream ends without an error line, or with one.
StreamEnds ==
  /\ pc = "reply" /\ ~aborted /\ LastReply \in {"ok", "failed"}
  /\ IF LastReply = "ok" THEN Continue(Tail(todo)) ELSE Throw
  /\ UNCHANGED <<task, aborted, img, stream, op, helper, world>>

\* An operation on phyless itself is handed to its helper container.
HandToHelper ==
  /\ pc = "reply" /\ LastReply = "running" /\ Head(todo).arg \in {"upgrade", "up", "redeploy"}
  /\ Ended("handed")
  /\ \E s \in BOOLEAN : helper' = [state |-> "running", stops |-> s]
  /\ pc' = "watch"
  /\ UNCHANGED <<task, todo, outcome, aborted, img, stream, world>>

\* After the hand-off neither an error line nor the end or loss of the stream decides; an abort does.
WatchAborted ==
  /\ pc = "watch" /\ aborted
  /\ Throw
  /\ UNCHANGED <<task, aborted, img, stream, op, helper, world>>

\* awaitHelper: one poll that settles the watch.
PollHelper ==
  /\ pc = "watch" /\ ~aborted
  /\ \/ ~up /\ helper.stops /\ Continue(Tail(todo))
     \/ up /\ helper.state = "ok" /\ Continue(Tail(todo))
     \/ up /\ helper.state = "failed" /\ Throw
  /\ UNCHANGED <<task, aborted, img, stream, op, helper, world>>

\* The ten minutes of poll() are over.
PollTimeout ==
  /\ pc = "watch" /\ ~aborted /\ (helper.state = "running" \/ ~up)
  /\ Throw
  /\ UNCHANGED <<task, aborted, img, stream, op, helper, world>>

-----------------------------------------------------------------------------
(* The rest of the world.                                                  *)

HelperEnds ==
  /\ helper.state = "running"
  /\ \/ helper' = [helper EXCEPT !.state = "ok"] /\ up' = ~helper.stops
     \/ helper' = [helper EXCEPT !.state = "failed"] /\ UNCHANGED up
  /\ UNCHANGED <<task, todo, pc, outcome, aborted, img, stream, op, tag, local>>

\* phyless is stopped by its helper, and comes back.
Restarts ==
  /\ \/ up /\ helper.state = "running" /\ up' = FALSE
     \/ ~up /\ (helper.stops => helper.state = "failed") /\ up' = TRUE
  /\ UNCHANGED <<task, todo, pc, outcome, aborted, img, stream, op, helper, tag, local>>

TagMoves ==
  /\ \E r \in Refs : tag[r] < MaxTagVersion /\ tag' = [tag EXCEPT ![r] = @ + 1]
  /\ pc # "end"
  /\ UNCHANGED <<task, todo, pc, outcome, aborted, img, stream, op, helper, local, up>>

\* The user cancels, or the Docker server is switched.
Abort ==
  /\ ~aborted /\ outcome = "running"
  /\ aborted' = TRUE
  /\ UNCHANGED <<task, todo, pc, outcome, img, stream, op, helper, world>>

Settles == \/ Planned \/ Inspected \/ FetchFails
           \/ GotPlatform \/ GotManifest \/ GotDigest \/ GotConfig \/ InspectedLocal
           \/ SendPost \/ StreamEnds \/ HandToHelper \/ WatchAborted \/ PollHelper \/ PollTimeout
Streams == Connected \/ OpenLayer \/ ReadTar \/ Send \/ SendEof \/ Aborted \/ Imported
Breaks == LayerFails \/ SocketDies \/ Refused
Backend == Arrives \/ EofArrives \/ DaemonLoads \/ OpEnds \/ HelperEnds
PullNext == Settles \/ Streams \/ Breaks \/ Backend \/ Restarts \/ TagMoves \/ Abort

\* A fetch answers or fails and poll() has its deadline; the event loop runs the pump and the
\* callbacks of the socket; the backend reads what is sent.  Nothing has to break, nobody to cancel.
PullSpec == PullInit /\ [][PullNext]_pullVars /\ WF_pullVars(Settles) /\ WF_pullVars(Streams) /\ WF_pullVars(Backend)

-----------------------------------------------------------------------------
(* Properties.                                                             *)

\* The daemon never takes in half an image, nor parts of two versions, whatever breaks off
\* (imageload.go: "a dropped connection can never be mistaken for a complete archive").
WholeImages ==
  [][ local' # local => /\ load.got = TarSize
                        /\ img.top = img.manifest /\ img.manifest = img.config ]_pullVars

\* A cancelled task starts nothing any more: no layer, no connection, no request
\* (docs: cancelling stops the fetches of a task and starts none of its later steps).
NothingAfterCancel ==
  [][ aborted => /\ Len(op') = Len(op)
                 /\ tar'.body => tar.body
                 /\ sock'.state = "open" => sock.state = "open" ]_pullVars

\* done says what is so: the last image pulled is in the daemon, every request ended well in the
\* backend, and what was handed to the helper ended there as the watch may believe.
DoneIsTrue ==
  outcome = "done" =>
    /\ todo = <<>>
    /\ load.state \in {"reading", "complete"} => load.loaded
    /\ \A o \in DOMAIN op : op[o] \in {"ok", "handed"}
    /\ (\E o \in DOMAIN op : op[o] = "handed") => helper.state = "ok" \/ helper.stops

\* Every task ends, although no failure has to happen: pump, socket and backend never wait for
\* one another for good (taskQueue.ts: a running task holds one of the slots until it settles).
Ends == <>(outcome # "running")

\* The state is sound: types (the pump's buffer stays within its threshold), and a
\* task that is done did it.
PullSound == PullTypeOK /\ DoneIsTrue
=============================================================================
