-------------------------- MODULE BrowsePoolProofs --------------------------
(***************************************************************************)
(* Proofs about what one browses files with: BrowsePool, for any number of *)
(* keys, requests and boxes and any time limits, and FilesPage, for any    *)
(* targets, directories and files and any number of events.                *)
(***************************************************************************)
EXTENDS BrowsePool, FilesPage, SequenceTheorems, TLAPS

Creating == {"mount", "create", "start", "forget", "close"}
Holding  == Creating \cup {"wait", "op", "again", "await"}

Pcs == Holding \cup {"idle", "get", "take", "volume", "list", "done", "failed"}
BoxState == [key : Keys \cup {"none"}, expires : 0..(MaxTime + BoxLife), ready : BOOLEAN,
             err : BOOLEAN, ctr : {"none", "created", "running", "gone", "expired"},
             exitAt : 0..(MaxTime + BoxLife), blank : BOOLEAN]
RequestState ==
  [pc : Pcs, key : Keys \cup {"none"}, box : Ids \cup {0}, deadline : 0..(MaxTime + WriteTimeout),
   retried : BOOLEAN, dropped : BOOLEAN, why : {"none", "blank", "gone", "other"}, seen : SUBSET Ids]

\* The pool, its boxes and its requests are well typed, and boxes filed under their keys.
Filed ==
  /\ box \in [Ids -> BoxState] /\ req \in [Requests -> RequestState]
  /\ boxes \in [Keys -> Ids \cup {0}]
  /\ \A k \in Keys : boxes[k] # 0 => box[boxes[k]].key = k

-----------------------------------------------------------------------------
(* A box and the requests that have it.                                     *)

\* A request holds a box of its own key; requests nobody made never run.
HoldsItsKey(r) ==
  /\ r \notin DOMAIN scope.key => req[r].pc = "done"
  /\ req[r].pc \notin {"done", "failed"} => req[r].key \in Keys
  /\ req[r].pc \in Holding => req[r].box \in Ids /\ box[req[r].box].key = req[r].key

\* The request was given a box that outlives the request's own bound.
InTime(r) ==
  /\ req[r].deadline <= now + Timeout(r)
  /\ req[r].pc \in Creating \cup {"wait", "op"} => req[r].deadline <= box[req[r].box].expires

\* How far a creation has come, and what its box is by then.
CreatesIt(r) ==
  LET b == req[r].box IN
  /\ req[r].pc \in Creating => ~box[b].ready
  /\ req[r].pc \in {"mount", "create"} => box[b].ctr = "none" /\ ~box[b].err
  /\ req[r].pc = "start" => box[b].ctr \in {"created", "gone"} /\ ~box[b].err
  /\ req[r].pc = "forget" => box[b].err
  /\ req[r].pc = "close" => IF box[b].err THEN boxes[req[r].key] # b
                            ELSE box[b].ctr \notin {"none", "created"}

\* Only boxes whose start succeeded are operated in.
Operates(r) == req[r].pc \in {"op", "again"} => box[req[r].box].ready /\ ~box[req[r].box].err

\* One creator for a box.
Apart(r, q) == req[r].pc \in Creating /\ req[q].pc \in Creating => req[r].box # req[q].box

\* What is true of every box, and of the time it has.
BoxOK(b) ==
  /\ box[b].key = "none" => box[b].ctr = "none" /\ ~box[b].ready /\ ~box[b].err
  /\ box[b].key # "none" => box[b].expires <= now + BoxLife
  /\ box[b].ctr = "running" => box[b].exitAt >= box[b].expires
  /\ box[b].ctr = "expired" => now >= box[b].expires
  /\ box[b].ready /\ ~box[b].err => box[b].ctr \notin {"none", "created"}

PoolInv ==
  /\ Filed
  /\ \A r \in Requests : HoldsItsKey(r) /\ InTime(r) /\ CreatesIt(r) /\ Operates(r)
  /\ \A r, q \in Requests : r # q => Apart(r, q)
  /\ \A b \in Ids : BoxOK(b)
  /\ FailureNotShared
  /\ NotStranded

-----------------------------------------------------------------------------
(* What a release has seen.                                                 *)

\* The helpers a release has noted are of its key, and none of them is still to be
\* created but the one it waits for; a release that is done has removed them all.
Releasing(r) ==
  /\ req[r].pc \in {"idle", "take", "await", "list", "done", "failed"}
  /\ req[r].pc \in {"idle", "take", "failed"} => req[r].seen = {}
  /\ \A b \in req[r].seen :
       /\ box[b].key = req[r].key /\ box[b].key # "none"
       /\ \/ box[b].ctr # "none" \/ box[b].ready
          \/ req[r].pc = "await" /\ req[r].box = b
       /\ req[r].pc = "done" => ~Exists(b)

ReleaseInv == \A r \in Requests : IF r \in Releases THEN Releasing(r) ELSE req[r].seen = {}

-----------------------------------------------------------------------------
(* The one retry, while one box at most has vanished, no busybox volume was *)
(* lost and nothing is released.                                            *)

Quiet ==
  /\ spent.vanish <= 1 /\ spent.volume = 0
  /\ \A r \in Releases \cap DOMAIN scope.key : req[r].pc = "idle"

\* Boxes that started and are gone.
Lost == {b \in Ids : box[b].ctr = "gone" /\ ~box[b].err}

\* No box is without busybox, so nothing is removed for the lack of it.
NoneBlank ==
  /\ volume # "blank" /\ \A b \in Ids : ~box[b].blank
  /\ \A r \in Requests : /\ req[r].pc = "create" => volume = "filled"
                         /\ req[r].pc = "start" => box[req[r].box].ctr = "created"
                         /\ req[r].pc \notin {"take", "await", "volume", "list"}

\* One box is lost for one that vanished.
LostOnce ==
  /\ spent.vanish = 0 => Lost = {}
  /\ \A b, c \in Lost : b = c

\* Whoever retries has let go of the box that was lost, and cannot be given it again.
RetriedElsewhere(r) ==
  req[r].retried => \E b \in Lost : /\ box[b].key = req[r].key /\ boxes[req[r].key] # b
                                    /\ req[r].pc \in Holding => req[r].box # b

RetryInv ==
  Quiet => /\ NoneBlank /\ LostOnce
           /\ \A r \in Requests : /\ RetriedElsewhere(r) /\ req[r].why # "gone"
                                  /\ req[r].pc = "again" => req[r].box \in Lost

-----------------------------------------------------------------------------
(* What the steps do.                                                       *)

\* TypeOK in the words used here.
LEMMA Types ==
  ASSUME TypeOK
  PROVE  /\ box \in [Ids -> BoxState] /\ req \in [Requests -> RequestState]
         /\ boxes \in [Keys -> Ids \cup {0}] /\ now \in 0..MaxTime /\ scope \in Scopes
         /\ \A k \in Keys : boxes[k] # 0 => box[boxes[k]].key = k
BY DEF TypeOK, BoxState, RequestState, Pcs, Holding, Creating

\* The numbers are numbers, and no request's bound is longer than the life of a box.
LEMMA Times ==
  /\ BoxLife \in Nat \ {0} /\ OpTimeout \in Nat \ {0} /\ WriteTimeout \in Nat \ {0}
  /\ MaxBoxes \in Nat /\ MaxTime \in Nat /\ "none" \notin Keys
  /\ \A r \in Requests : Timeout(r) \in Nat /\ Timeout(r) <= BoxLife /\ Timeout(r) <= WriteTimeout
  /\ 0 \notin Ids /\ Ids \subseteq Nat
  /\ \A s \in Scopes : s.time \in 0..MaxTime /\ \A r \in DOMAIN s.key : s.key[r] \in Keys
BY PoolTimes DEF Timeout, Ids

\* Nothing happens to the other requests, or to the other boxes.
OnlyRequest(r) ==
  req' \in [Requests -> RequestState] /\ \A q \in Requests \ {r} : req'[q] = req[q]
OnlyBox(b) == box' \in [Ids -> BoxState] /\ \A c \in Ids \ {b} : box'[c] = box[c]
\* The request keeps its key and box.
Same(r) == req'[r].key = req[r].key /\ req'[r].box = req[r].box
\* It keeps its bound and its history too.
Steady(r) ==
  /\ Same(r) /\ req'[r].deadline = req[r].deadline /\ req'[r].retried = req[r].retried
  /\ req'[r].why = req[r].why /\ req'[r].seen = req[r].seen

LEMMA GotoDoes ==
  ASSUME TypeOK, NEW r \in Requests, NEW pc \in Pcs, Goto(r, pc)
  PROVE  OnlyRequest(r) /\ Steady(r) /\ req'[r].pc = pc
<1>1. req \in [Requests -> RequestState] /\ req[r] \in RequestState
  BY Types
<1>2. [req[r] EXCEPT !.pc = pc] \in RequestState
  BY <1>1 DEF RequestState
<1> QED
  BY <1>1, <1>2 DEF Goto, OnlyRequest, Steady, Same, RequestState

LEMMA EndDoes ==
  ASSUME TypeOK, NEW r \in Requests, NEW pc \in {"done", "failed"},
         NEW why \in {"none", "blank", "gone", "other"}, End(r, pc, why)
  PROVE  /\ OnlyRequest(r) /\ req'[r].pc = pc /\ req'[r].key = req[r].key /\ req'[r].box = 0
         /\ req'[r].deadline = 0 /\ req'[r].retried = req[r].retried /\ req'[r].why = why
         /\ req'[r].seen = IF pc = "done" THEN req[r].seen ELSE {}
<1>1. req \in [Requests -> RequestState] /\ req[r] \in RequestState
  BY Types
<1> DEFINE e == [req[r] EXCEPT !.pc = pc, !.why = why, !.box = 0, !.deadline = 0, !.dropped = FALSE,
                               !.seen = IF pc = "done" THEN @ ELSE {}]
<1>2. e \in RequestState
  <2>1. /\ 0 \in 0..(MaxTime + WriteTimeout) /\ pc \in Pcs /\ 0 \in Ids \cup {0}
        /\ why \in {"none", "blank", "gone", "other"}
        /\ (IF pc = "done" THEN req[r].seen ELSE {}) \in SUBSET Ids
    BY <1>1, Times DEF RequestState, Pcs
  <2> DEFINE S == IF pc = "done" THEN req[r].seen ELSE {}
             bounds == 0..(MaxTime + WriteTimeout)
  <2>2. /\ S \in SUBSET Ids /\ 0 \in bounds
        /\ e = [req[r] EXCEPT !.pc = pc, !.why = why, !.box = 0, !.deadline = 0, !.dropped = FALSE,
                              !.seen = S]
        /\ RequestState = [pc : Pcs, key : Keys \cup {"none"}, box : Ids \cup {0}, deadline : bounds,
                           retried : BOOLEAN, dropped : BOOLEAN,
                           why : {"none", "blank", "gone", "other"}, seen : SUBSET Ids]
    BY <2>1 DEF RequestState
  <2> HIDE DEF S, bounds, e
  <2> QED
    BY <1>1, <2>1, <2>2
<1>3. req' = [req EXCEPT ![r] = e]
  BY <1>1 DEF End
<1>4. /\ e.pc = pc /\ e.key = req[r].key /\ e.box = 0 /\ e.deadline = 0 /\ e.retried = req[r].retried
      /\ e.why = why /\ e.seen = IF pc = "done" THEN req[r].seen ELSE {}
  BY <1>1 DEF RequestState
<1> HIDE DEF e
<1> QED
  BY <1>1, <1>2, <1>3, <1>4 DEF OnlyRequest

\* The bound is that of the kind of request, counted from now.
LEMMA BeginDoes ==
  ASSUME TypeOK, now <= MaxTime, NEW r \in Requests, Begin(r)
  PROVE  /\ OnlyRequest(r) /\ Same(r) /\ req'[r].retried = req[r].retried
         /\ req'[r].why = req[r].why /\ req'[r].seen = req[r].seen
         /\ req'[r].pc = (IF r \in Releases THEN "take" ELSE "get")
         /\ req'[r].deadline = now + Timeout(r)
<1> DEFINE bounds == 0..(MaxTime + WriteTimeout)
           p == IF r \in Releases THEN "take" ELSE "get"
           d == now + Timeout(r)
<1>1. req \in [Requests -> RequestState] /\ req[r] \in RequestState
  BY Types
<1>2. now \in Nat /\ now <= MaxTime /\ Timeout(r) \in Nat /\ Timeout(r) <= WriteTimeout
      /\ WriteTimeout \in Nat /\ MaxTime \in Nat
  BY Types, Times
<1>3. d \in bounds /\ p \in Pcs
  BY <1>2 DEF Pcs
<1>4. /\ req' = [req EXCEPT ![r] = [req[r] EXCEPT !.pc = p, !.deadline = d]]
      /\ RequestState = [pc : Pcs, key : Keys \cup {"none"}, box : Ids \cup {0}, deadline : bounds,
                         retried : BOOLEAN, dropped : BOOLEAN,
                         why : {"none", "blank", "gone", "other"}, seen : SUBSET Ids]
  BY <1>1 DEF Begin, RequestState
<1> HIDE DEF bounds, p, d
<1>5. [req[r] EXCEPT !.pc = p, !.deadline = d] \in RequestState
  BY <1>1, <1>3, <1>4
<1>6. /\ OnlyRequest(r) /\ Same(r) /\ req'[r].retried = req[r].retried
      /\ req'[r].why = req[r].why /\ req'[r].seen = req[r].seen
      /\ req'[r].pc = p /\ req'[r].deadline = d
  BY <1>1, <1>4, <1>5 DEF OnlyRequest, Same, RequestState
<1> QED
  BY <1>6 DEF p, d

\* A request that is given a box.
LEMMA GivenDoes ==
  ASSUME TypeOK, NEW r \in Requests, NEW b \in Ids, NEW pc \in Pcs,
         req' = [req EXCEPT ![r].pc = pc, ![r].box = b]
  PROVE  /\ OnlyRequest(r) /\ req'[r].pc = pc /\ req'[r].box = b /\ req'[r].key = req[r].key
         /\ req'[r].deadline = req[r].deadline /\ req'[r].retried = req[r].retried
         /\ req'[r].why = req[r].why /\ req'[r].seen = req[r].seen
<1>1. req \in [Requests -> RequestState] /\ req[r] \in RequestState
  BY Types
<1>2. [req[r] EXCEPT !.pc = pc, !.box = b] \in RequestState
  BY <1>1 DEF RequestState
<1> QED
  BY <1>1, <1>2 DEF OnlyRequest, RequestState

\* A request that starts over.
LEMMA RetryDoes ==
  ASSUME TypeOK, NEW r \in Requests, req' = [req EXCEPT ![r].pc = "get", ![r].retried = TRUE]
  PROVE  /\ OnlyRequest(r) /\ Same(r) /\ req'[r].pc = "get" /\ req'[r].retried
         /\ req'[r].deadline = req[r].deadline
         /\ req'[r].why = req[r].why /\ req'[r].seen = req[r].seen
<1>1. req \in [Requests -> RequestState] /\ req[r] \in RequestState
  BY Types
<1>2. [req[r] EXCEPT !.pc = "get", !.retried = TRUE] \in RequestState
  BY <1>1 DEF RequestState, Pcs
<1> QED
  BY <1>1, <1>2 DEF OnlyRequest, Same, RequestState

\* A request that forgets the key's box, and waits for it if there is one.
LEMMA TakeDoes ==
  ASSUME TypeOK, NEW r \in Requests, req[r].key \in Keys, Take(r)
  PROVE  /\ OnlyRequest(r) /\ req'[r].key = req[r].key
         /\ req'[r].deadline = req[r].deadline /\ req'[r].retried = req[r].retried
         /\ req'[r].why = req[r].why
         /\ req'[r].seen = (IF r \in Releases THEN Helpers(req[r].key) ELSE {})
         /\ req'[r].pc = (IF boxes[req[r].key] # 0 THEN "await"
                          ELSE IF r \in Releases THEN "list" ELSE "volume")
         /\ boxes[req[r].key] # 0 => req'[r].box = boxes[req[r].key]
         /\ boxes[req[r].key] = 0 => req'[r].box = req[r].box
         /\ boxes' = [boxes EXCEPT ![req[r].key] = 0] /\ box' = box /\ now' = now
<1> DEFINE k == req[r].key
           S == IF r \in Releases THEN Helpers(k) ELSE {}
           p == IF boxes[k] # 0 THEN "await" ELSE IF r \in Releases THEN "list" ELSE "volume"
           b == IF boxes[k] # 0 THEN boxes[k] ELSE req[r].box
           e == [req[r] EXCEPT !.pc = p, !.box = b, !.seen = S]
<1>1. /\ req \in [Requests -> RequestState] /\ req[r] \in RequestState
      /\ boxes[k] \in Ids \cup {0}
  BY Types
<1>2. S \in SUBSET Ids /\ p \in Pcs /\ b \in Ids \cup {0}
  BY <1>1 DEF Helpers, Used, Pcs, Holding, RequestState
<1>3. /\ boxes' = [boxes EXCEPT ![k] = 0] /\ box' = box /\ now' = now
      /\ req' = [req EXCEPT ![r] = e]
  <2>1. CASE boxes[k] = 0
    <3>1. req' = [req EXCEPT ![r].pc = IF r \in Releases THEN "list" ELSE "volume", ![r].seen = S]
      BY <2>1 DEF Take
    <3>2. p = (IF r \in Releases THEN "list" ELSE "volume") /\ b = req[r].box
      BY <2>1
    <3> HIDE DEF S, p, b
    <3>3. req' = [req EXCEPT ![r] = [req[r] EXCEPT !.pc = p, !.seen = S]]
      BY <1>1, <3>1, <3>2
    <3>4. [req[r] EXCEPT !.pc = p, !.seen = S] = e
      BY <1>1, <3>2 DEF RequestState
    <3> QED
      BY <3>3, <3>4 DEF Take
  <2>2. CASE boxes[k] # 0
    <3>1. req' = [req EXCEPT ![r].pc = "await", ![r].box = boxes[k], ![r].seen = S]
      BY <2>2 DEF Take
    <3>2. p = "await" /\ b = boxes[k]
      BY <2>2
    <3> HIDE DEF S, p, b
    <3> QED
      BY <1>1, <3>1, <3>2 DEF Take
  <2> QED
    BY <2>1, <2>2
<1>4. /\ e.key = req[r].key /\ e.deadline = req[r].deadline /\ e.retried = req[r].retried
      /\ e.why = req[r].why /\ e.seen = S /\ e.pc = p /\ e.box = b
  <2> HIDE DEF S, p, b
  <2> QED
    BY <1>1 DEF RequestState
<1>5. e \in RequestState
  <2> HIDE DEF S, p, b
  <2> QED
    BY <1>1, <1>2 DEF RequestState
<1>6. OnlyRequest(r) /\ req'[r] = e
  <2> HIDE DEF e
  <2> QED
    BY <1>1, <1>3, <1>5 DEF OnlyRequest
<1>7. /\ req'[r].key = req[r].key /\ req'[r].deadline = req[r].deadline
      /\ req'[r].retried = req[r].retried
      /\ req'[r].why = req[r].why /\ req'[r].seen = S /\ req'[r].pc = p /\ req'[r].box = b
  <2> HIDE DEF e
  <2> QED
    BY <1>4, <1>6
<1> HIDE DEF e
<1> QED
  BY <1>3, <1>6, <1>7

\* A request whose client goes away.
LEMMA ClientGoneDoes ==
  ASSUME TypeOK, NEW r \in Requests, ClientGone(r)
  PROVE  OnlyRequest(r) /\ Steady(r) /\ req'[r].pc = req[r].pc
<1>1. req \in [Requests -> RequestState] /\ req[r] \in RequestState
  BY Types
<1>2. [req[r] EXCEPT !.dropped = TRUE] \in RequestState
  BY <1>1 DEF RequestState
<1> QED
  BY <1>1, <1>2 DEF ClientGone, OnlyRequest, Steady, Same, RequestState

-----------------------------------------------------------------------------
(* Changes to one box.                                                      *)

\* Its key and its life are for good.
SameLife(b) == box'[b].key = box[b].key /\ box'[b].expires = box[b].expires

LEMMA ErrDoes ==
  ASSUME TypeOK, NEW b \in Ids, NEW left \in {"gone", box[b].ctr},
         box' = [box EXCEPT ![b].ctr = left, ![b].err = TRUE] \/ box' = [box EXCEPT ![b].err = TRUE]
  PROVE  /\ OnlyBox(b) /\ SameLife(b) /\ box'[b].ready = box[b].ready /\ box'[b].err
         /\ box'[b].blank = box[b].blank /\ box'[b].exitAt = box[b].exitAt
         /\ box'[b].ctr \in {left, box[b].ctr}
<1> DEFINE ends == 0..(MaxTime + BoxLife)
<1>1. box \in [Ids -> BoxState] /\ box[b] \in BoxState
  BY Types
<1>2. BoxState = [key : Keys \cup {"none"}, expires : ends, ready : BOOLEAN,
             err : BOOLEAN, ctr : {"none", "created", "running", "gone", "expired"},
             exitAt : ends, blank : BOOLEAN]
  BY DEF BoxState
<1> HIDE DEF ends
<1>3. /\ [box[b] EXCEPT !.ctr = left, !.err = TRUE] \in BoxState
      /\ [box[b] EXCEPT !.err = TRUE] \in BoxState
  BY <1>1, <1>2
<1>4. CASE box' = [box EXCEPT ![b].ctr = left, ![b].err = TRUE]
  BY <1>1, <1>2, <1>3, <1>4 DEF OnlyBox, SameLife
<1>5. CASE box' = [box EXCEPT ![b].err = TRUE]
  BY <1>1, <1>2, <1>3, <1>5 DEF OnlyBox, SameLife
<1> QED
  BY <1>4, <1>5

LEMMA CreatedDoes ==
  ASSUME TypeOK, NEW b \in Ids, NEW failed \in BOOLEAN,
         box' = [box EXCEPT ![b].ctr = "created", ![b].blank = (volume # "filled"), ![b].err = failed]
  PROVE  /\ OnlyBox(b) /\ SameLife(b) /\ box'[b].ready = box[b].ready /\ box'[b].err = failed
         /\ box'[b].ctr = "created" /\ (volume = "filled" => ~box'[b].blank)
<1> DEFINE ends == 0..(MaxTime + BoxLife)
           blank == volume # "filled"
<1>1. box \in [Ids -> BoxState] /\ box[b] \in BoxState
  BY Types
<1>2. BoxState = [key : Keys \cup {"none"}, expires : ends, ready : BOOLEAN,
             err : BOOLEAN, ctr : {"none", "created", "running", "gone", "expired"},
             exitAt : ends, blank : BOOLEAN]
  BY DEF BoxState
<1>3. blank \in BOOLEAN /\ (volume = "filled" => ~blank)
      /\ box' = [box EXCEPT ![b].ctr = "created", ![b].blank = blank, ![b].err = failed]
  OBVIOUS
<1> HIDE DEF ends, blank
<1>4. [box[b] EXCEPT !.ctr = "created", !.blank = blank, !.err = failed] \in BoxState
  BY <1>1, <1>2, <1>3
<1>5. box'[b] = [box[b] EXCEPT !.ctr = "created", !.blank = blank, !.err = failed]
  BY <1>1, <1>3
<1>6. OnlyBox(b) /\ SameLife(b) /\ box'[b].ready = box[b].ready /\ box'[b].err = failed
      /\ box'[b].ctr = "created" /\ box'[b].blank = blank
  BY <1>1, <1>2, <1>3, <1>4, <1>5 DEF OnlyBox, SameLife
<1> QED
  BY <1>3, <1>6

LEMMA RunningDoes ==
  ASSUME TypeOK, NEW b \in Ids, NEW failed \in BOOLEAN, now + BoxLife \in 0..(MaxTime + BoxLife),
         box' = [box EXCEPT ![b].ctr = "running", ![b].exitAt = now + BoxLife, ![b].err = failed]
  PROVE  /\ OnlyBox(b) /\ SameLife(b) /\ box'[b].ready = box[b].ready /\ box'[b].err = failed
         /\ box'[b].ctr = "running" /\ box'[b].exitAt = now + BoxLife
         /\ box'[b].blank = box[b].blank
<1> DEFINE ends == 0..(MaxTime + BoxLife)
           exit == now + BoxLife
<1>1. box \in [Ids -> BoxState] /\ box[b] \in BoxState /\ exit \in ends
      /\ box' = [box EXCEPT ![b].ctr = "running", ![b].exitAt = exit, ![b].err = failed]
  BY Types
<1>2. BoxState = [key : Keys \cup {"none"}, expires : ends, ready : BOOLEAN,
             err : BOOLEAN, ctr : {"none", "created", "running", "gone", "expired"},
             exitAt : ends, blank : BOOLEAN]
  BY DEF BoxState
<1> HIDE DEF ends, exit
<1>3. [box[b] EXCEPT !.ctr = "running", !.exitAt = exit, !.err = failed] \in BoxState
  BY <1>1, <1>2
<1>4. box'[b] = [box[b] EXCEPT !.ctr = "running", !.exitAt = exit, !.err = failed]
  BY <1>1
<1>5. OnlyBox(b)
  BY <1>1, <1>3, <1>4 DEF OnlyBox
<1>6. /\ SameLife(b) /\ box'[b].ready = box[b].ready /\ box'[b].err = failed
      /\ box'[b].ctr = "running" /\ box'[b].exitAt = exit /\ box'[b].blank = box[b].blank
  BY <1>1, <1>2, <1>4 DEF SameLife
<1> QED
  BY <1>5, <1>6 DEF exit

LEMMA ReadyDoes ==
  ASSUME TypeOK, NEW b \in Ids, box' = [box EXCEPT ![b].ready = TRUE]
  PROVE  /\ OnlyBox(b) /\ SameLife(b) /\ box'[b].ready /\ box'[b].err = box[b].err
         /\ box'[b].ctr = box[b].ctr /\ box'[b].exitAt = box[b].exitAt
         /\ box'[b].blank = box[b].blank
<1> DEFINE ends == 0..(MaxTime + BoxLife)
<1>1. box \in [Ids -> BoxState] /\ box[b] \in BoxState
  BY Types
<1>2. BoxState = [key : Keys \cup {"none"}, expires : ends, ready : BOOLEAN,
             err : BOOLEAN, ctr : {"none", "created", "running", "gone", "expired"},
             exitAt : ends, blank : BOOLEAN]
  BY DEF BoxState
<1> HIDE DEF ends
<1>3. [box[b] EXCEPT !.ready = TRUE] \in BoxState
  BY <1>1, <1>2
<1> QED
  BY <1>1, <1>2, <1>3 DEF OnlyBox, SameLife

\* A box without its container.
LEMMA GoneIs ==
  ASSUME TypeOK, NEW b \in Ids, NEW how \in {"gone", "expired"}
  PROVE  /\ Gone(b, how) \in BoxState
         /\ Gone(b, how).key = box[b].key /\ Gone(b, how).expires = box[b].expires
         /\ Gone(b, how).ready = box[b].ready /\ Gone(b, how).err = box[b].err
         /\ Gone(b, how).blank = box[b].blank /\ Gone(b, how).ctr = how
<1> DEFINE ends == 0..(MaxTime + BoxLife)
<1>1. box \in [Ids -> BoxState] /\ box[b] \in BoxState
  BY Types
<1>2. 0 \in ends
  BY Times
<1>3. BoxState = [key : Keys \cup {"none"}, expires : ends, ready : BOOLEAN,
             err : BOOLEAN, ctr : {"none", "created", "running", "gone", "expired"},
             exitAt : ends, blank : BOOLEAN]
  BY DEF BoxState
<1> HIDE DEF ends
<1> QED
  BY <1>1, <1>2, <1>3 DEF Gone

LEMMA GoneDoes ==
  ASSUME TypeOK, NEW b \in Ids, NEW how \in {"gone", "expired"},
         box' = [box EXCEPT ![b] = Gone(b, how)]
  PROVE  /\ OnlyBox(b) /\ SameLife(b) /\ box'[b].ready = box[b].ready /\ box'[b].err = box[b].err
         /\ box'[b].blank = box[b].blank /\ box'[b].ctr = how
<1>1. box \in [Ids -> BoxState] /\ box'[b] = Gone(b, how)
  BY Types
<1>2. OnlyBox(b)
  BY <1>1, GoneIs DEF OnlyBox
<1> QED
  BY <1>1, <1>2, GoneIs DEF SameLife

-----------------------------------------------------------------------------
(* PoolInv is kept.                                                         *)

\* Containers go, and nothing else happens to their boxes.
Fades(b) ==
  /\ SameLife(b) /\ box'[b].ready = box[b].ready /\ box'[b].err = box[b].err
  /\ \/ box'[b].ctr = box[b].ctr /\ box'[b].exitAt = box[b].exitAt
     \/ box[b].ctr # "none" /\ box'[b].ctr = "gone"
     \/ box[b].ctr = "running" /\ now >= box[b].exitAt /\ box'[b].ctr = "expired"

\* What a request is to itself.
Well(r) == HoldsItsKey(r) /\ InTime(r) /\ CreatesIt(r) /\ Operates(r)

\* A request begins no creation and leaves none between its creating and its starting.
Proceeds(r) ==
  /\ req[r].pc = "start" => req'[r].pc = "start" /\ req'[r].box = req[r].box
  /\ req'[r].pc \in Creating => req[r].pc \in Creating /\ req'[r].box = req[r].box

\* What an arithmetic comparison needs of the state.
LEMMA Numbers ==
  ASSUME TypeOK
  PROVE  /\ now \in Nat /\ now <= MaxTime
         /\ \A b \in Ids : box[b].expires \in Nat /\ box[b].exitAt \in Nat
         /\ \A r \in Requests : req[r].deadline \in Nat
BY Types, Times DEF BoxState, RequestState

\* Steps that create nothing: keys lose their boxes and boxes their containers.
LEMMA IdleKeeps ==
  ASSUME TypeOK, PoolInv, stray \subseteq stray', box' \in [Ids -> BoxState], req' \in [Requests -> RequestState],
         boxes' \in [Keys -> Ids \cup {0}], now' = now, scope' = scope,
         \A k \in Keys : boxes'[k] \in {boxes[k], 0},
         \A b \in Ids : Fades(b),
         \A q \in Requests : req'[q] = req[q] \/ (Well(q)' /\ Proceeds(q))
  PROVE  PoolInv'
<1>1. \A q \in Requests : req'[q] = req[q] => Well(q)'
  <2> SUFFICES ASSUME NEW q \in Requests, req'[q] = req[q]
               PROVE  Well(q)'
    OBVIOUS
  <2> DEFINE b == req[q].box
  <2>1. Well(q) /\ (req[q].pc \in Holding => b \in Ids /\ Fades(b) /\ BoxOK(b))
    BY DEF PoolInv, Well, HoldsItsKey
  <2>2. HoldsItsKey(q)'
    BY <2>1 DEF Well, HoldsItsKey, Fades, SameLife
  <2>3. InTime(q)'
    BY <2>1 DEF Well, InTime, Fades, SameLife, Holding, Timeout
  <2>4. CreatesIt(q)'
    <3>1. CASE req[q].pc \in Creating
      <4>1. b \in Ids /\ Fades(b) /\ CreatesIt(q) /\ req[q].key \in Keys /\ b # 0
        BY <2>1, <3>1, Times DEF Well, Holding, HoldsItsKey, Creating
      <4>2. boxes'[req[q].key] \in {boxes[req[q].key], 0}
        BY <4>1
      <4> QED
        BY <4>1, <4>2 DEF CreatesIt, Fades, Creating
    <3>2. CASE req[q].pc \notin Creating
      BY <3>2 DEF CreatesIt, Creating
    <3> QED
      BY <3>1, <3>2
  <2>5. Operates(q)'
    BY <2>1 DEF Well, Operates, Fades, Holding
  <2> QED
    BY <2>2, <2>3, <2>4, <2>5 DEF Well
<1>2. \A q \in Requests : Well(q)'
  BY <1>1
<1>3. \A q, p \in Requests : q # p => Apart(q, p)'
  BY DEF PoolInv, Apart, Proceeds
<1>4. \A b \in Ids : BoxOK(b)'
  <2> SUFFICES ASSUME NEW b \in Ids
               PROVE  BoxOK(b)'
    OBVIOUS
  <2>1. BoxOK(b) /\ Fades(b) /\ box[b].expires \in Nat /\ box[b].exitAt \in Nat /\ now \in Nat
    BY Numbers DEF PoolInv
  <2> QED
    BY <2>1 DEF BoxOK, Fades, SameLife
<1>5. FailureNotShared'
  <2> SUFFICES ASSUME NEW k \in Keys, boxes'[k] # 0, box'[boxes'[k]].ready
               PROVE  ~box'[boxes'[k]].err
    BY DEF FailureNotShared
  <2>1. boxes'[k] = boxes[k] /\ boxes[k] \in Ids
    OBVIOUS
  <2> QED
    BY <2>1 DEF PoolInv, FailureNotShared, Fades
<1>6. NotStranded'
  <2> SUFFICES ASSUME NEW b \in Ids, box'[b].ctr = "created"
               PROVE  \/ \E q \in Requests : req'[q].box = b /\ req'[q].pc = "start"
                      \/ b \in stray'
    BY DEF NotStranded
  <2>1. box[b].ctr = "created" /\ box'[b].expires = box[b].expires
    BY DEF Fades, SameLife
  <2>2. CASE \E q \in Requests : req[q].box = b /\ req[q].pc = "start"
    BY <2>2 DEF Proceeds
  <2> QED
    BY <2>1, <2>2 DEF PoolInv, NotStranded
<1>7. Filed'
  <2>1. \A k \in Keys : boxes'[k] # 0 => boxes'[k] = boxes[k] /\ boxes[k] \in Ids
    OBVIOUS
  <2> QED
    BY <2>1, Types DEF Filed, Fades, SameLife
<1> QED
  BY <1>2, <1>3, <1>4, <1>5, <1>6, <1>7 DEF PoolInv, Well

\* A step of a creation, on the one box it is of.
LEMMA MakeKeeps ==
  ASSUME TypeOK, PoolInv, stray \subseteq stray', NEW r \in Requests, req[r].pc \in Creating,
         OnlyRequest(r), req'[r].box = req[r].box, req'[r].pc \in Creating \cup {"wait"},
         OnlyBox(req[r].box), SameLife(req[r].box), Well(r)',
         boxes' = boxes, now' = now, scope' = scope,
         BoxOK(req[r].box)',
         box'[req[r].box].ready /\ box'[req[r].box].err => \A k \in Keys : boxes[k] # req[r].box,
         box'[req[r].box].ctr = "created" =>
           req'[r].pc = "start" \/ req[r].box \in stray'
  PROVE  PoolInv'
<1> DEFINE b == req[r].box
<1>1. b \in Ids /\ ~box[b].ready
  BY DEF PoolInv, HoldsItsKey, CreatesIt, Holding
<1>2. \A q \in Requests \ {r} : Well(q)'
  <2> SUFFICES ASSUME NEW q \in Requests \ {r}
               PROVE  Well(q)'
    OBVIOUS
  <2> DEFINE c == req[q].box
  <2>1. Well(q) /\ Apart(q, r) /\ req'[q] = req[q]
        /\ (req[q].pc \in Holding => c \in Ids)
        /\ (c \in Ids \ {b} => box'[c] = box[c]) /\ (c = b => SameLife(c))
    BY DEF PoolInv, Well, OnlyRequest, OnlyBox, HoldsItsKey
  <2>2. req[q].pc \in Creating \cup {"op", "again"} => c # b
    BY <1>1, <2>1 DEF Apart, Well, Operates
  <2>3. HoldsItsKey(q)'
    BY <2>1 DEF Well, HoldsItsKey, SameLife
  <2>4. InTime(q)'
    BY <2>1 DEF Well, InTime, SameLife, Timeout, Holding
  <2>5. CreatesIt(q)'
    BY <2>1, <2>2 DEF Well, CreatesIt, Holding, Creating
  <2>6. Operates(q)'
    BY <2>1, <2>2 DEF Well, Operates, Holding
  <2> QED
    BY <2>3, <2>4, <2>5, <2>6 DEF Well
<1>3. \A q, p \in Requests : q # p => Apart(q, p)'
  <2>1. \A q \in Requests : req'[q].pc \in Creating => req[q].pc \in Creating /\ req'[q].box = req[q].box
    BY DEF OnlyRequest
  <2> QED
    BY <2>1 DEF PoolInv, Apart
<1>4. \A c \in Ids : BoxOK(c)'
  <2> SUFFICES ASSUME NEW c \in Ids \ {b}
               PROVE  BoxOK(c)'
    OBVIOUS
  <2>1. BoxOK(c) /\ box'[c] = box[c]
    BY DEF PoolInv, OnlyBox
  <2> QED
    BY <2>1 DEF BoxOK
<1>5. FailureNotShared'
  <2> SUFFICES ASSUME NEW k \in Keys, boxes[k] # 0, box'[boxes[k]].ready
               PROVE  ~box'[boxes[k]].err
    BY DEF FailureNotShared
  <2>1. boxes[k] \in Ids
    BY Types
  <2>2. CASE boxes[k] = b
    BY <2>2
  <2>3. CASE boxes[k] # b
    BY <2>1, <2>3 DEF OnlyBox, PoolInv, FailureNotShared
  <2> QED
    BY <2>2, <2>3
<1>6. NotStranded'
  <2> SUFFICES ASSUME NEW c \in Ids, box'[c].ctr = "created"
               PROVE  \/ \E q \in Requests : req'[q].box = c /\ req'[q].pc = "start"
                      \/ c \in stray'
    BY DEF NotStranded
  <2>1. CASE c = b
    BY <2>1
  <2>2. CASE c # b
    <3>1. box'[c] = box[c]
      BY <2>2 DEF OnlyBox
    <3>2. CASE \E q \in Requests : req[q].box = c /\ req[q].pc = "start"
      <4>1. PICK q \in Requests : req[q].box = c /\ req[q].pc = "start"
        BY <3>2
      <4>2. q # r
        BY <4>1, <2>2
      <4> QED
        BY <4>1, <4>2 DEF OnlyRequest
    <3> QED
      BY <3>1, <3>2 DEF PoolInv, NotStranded
  <2> QED
    BY <2>1, <2>2
<1>7. Filed'
  <2>1. \A c \in Ids : box'[c].key = box[c].key
    BY DEF OnlyBox, SameLife
  <2>2. \A k \in Keys : boxes[k] # 0 => boxes[k] \in Ids
    BY Types
  <2> QED
    BY <2>1, <2>2, Types DEF Filed, OnlyRequest, OnlyBox
<1> QED
  BY <1>2, <1>3, <1>4, <1>5, <1>6, <1>7 DEF PoolInv, Well

\* A new box takes the place of the key's, and boxes that have exited are swept.
Placed(r, b) ==
  LET k == req[r].key IN
  /\ box[b].key = "none" /\ OnlyBox(b)
  /\ box'[b].key = k /\ box'[b].expires = now + BoxLife /\ ~box'[b].ready /\ ~box'[b].err
  /\ box'[b].ctr = "none" /\ ~box'[b].blank
  /\ boxes' \in [Keys -> Ids \cup {0}] /\ boxes'[k] = b
  /\ \A o \in Keys \ {k} : boxes'[o] \in {boxes[o], 0}
  /\ OnlyRequest(r) /\ req'[r].pc = "mount" /\ req'[r].box = b /\ req'[r].key = k
  /\ req'[r].deadline = req[r].deadline /\ req'[r].retried = req[r].retried
  /\ req'[r].why = req[r].why /\ req'[r].seen = req[r].seen

LEMMA PlaceDoes ==
  ASSUME TypeOK, NEW r \in Requests, req[r].key \in Keys, Place(r)
  PROVE  \E b \in Ids : Placed(r, b)
<1> DEFINE k == req[r].key
           ends == 0..(MaxTime + BoxLife)
           end == now + BoxLife
           fresh == [Unmade EXCEPT !.key = k, !.expires = end]
<1>1. PICK b \in Ids \ Used :
        /\ boxes' = [o \in Keys |-> IF o = k THEN b
                                    ELSE IF boxes[o] # 0 /\ box[boxes[o]].expires < now THEN 0
                                    ELSE boxes[o]]
        /\ box' = [box EXCEPT ![b] = fresh]
        /\ req' = [req EXCEPT ![r].pc = "mount", ![r].box = b]
  BY DEF Place
<1>2. box \in [Ids -> BoxState] /\ boxes \in [Keys -> Ids \cup {0}] /\ b \in Ids /\ k \in Keys
  BY Types
<1>3. end \in ends /\ 0 \in ends /\ box[b].key = "none"
  BY <1>1, Times, Numbers DEF Used
<1>4. BoxState = [key : Keys \cup {"none"}, expires : ends, ready : BOOLEAN,
             err : BOOLEAN, ctr : {"none", "created", "running", "gone", "expired"},
             exitAt : ends, blank : BOOLEAN]
  BY DEF BoxState
<1>5. /\ boxes' \in [Keys -> Ids \cup {0}] /\ boxes'[k] = b
      /\ \A o \in Keys \ {k} : boxes'[o] \in {boxes[o], 0}
  BY <1>1, <1>2
<1>6. /\ OnlyRequest(r) /\ req'[r].pc = "mount" /\ req'[r].box = b /\ req'[r].key = k
      /\ req'[r].deadline = req[r].deadline /\ req'[r].retried = req[r].retried
      /\ req'[r].why = req[r].why /\ req'[r].seen = req[r].seen
  BY <1>1, GivenDoes DEF Pcs, Holding, Creating
<1> HIDE DEF end, ends
<1>7. /\ fresh \in BoxState /\ fresh.key = k /\ fresh.expires = end /\ ~fresh.ready /\ ~fresh.err
      /\ fresh.ctr = "none" /\ ~fresh.blank
  BY <1>2, <1>3, <1>4 DEF Unmade
<1> HIDE DEF fresh
<1>8. OnlyBox(b) /\ box'[b] = fresh
  BY <1>1, <1>2, <1>7 DEF OnlyBox
<1> QED
  BY <1>2, <1>3, <1>5, <1>6, <1>7, <1>8 DEF Placed, end

LEMMA PlaceKeeps ==
  ASSUME TypeOK, PoolInv, stray \subseteq stray', NEW r \in Requests, Place(r), UNCHANGED scope
  PROVE  PoolInv'
<1>1. req[r].pc = "get" /\ req[r].key \in Keys /\ now' = now /\ scope' = scope
  BY DEF Place, PoolInv, HoldsItsKey
<1>2. PICK b \in Ids : Placed(r, b)
  BY <1>1, PlaceDoes
<1>3. /\ box[b].key = "none" /\ ~box[b].ready /\ box[b].ctr = "none" /\ b # 0
      /\ \A c \in Ids \ {b} : box'[c] = box[c]
  BY <1>2, Times DEF Placed, PoolInv, BoxOK, OnlyBox
<1>4. \A q \in Requests : req[q].pc \in Holding => req[q].box \in Ids \ {b}
  BY <1>3, Times DEF PoolInv, HoldsItsKey, Holding, Creating
<1>5. \A q \in Requests \ {r} : Well(q)'
  <2> SUFFICES ASSUME NEW q \in Requests \ {r}
               PROVE  Well(q)'
    OBVIOUS
  <2>1. /\ Well(q) /\ req'[q] = req[q]
        /\ req[q].pc \in Holding => req[q].box \in Ids \ {b} /\ box'[req[q].box] = box[req[q].box]
    BY <1>2, <1>3, <1>4 DEF PoolInv, Well, Placed, OnlyRequest
  <2>2. HoldsItsKey(q)'
    BY <1>1, <2>1 DEF Well, HoldsItsKey
  <2>3. InTime(q)'
    BY <1>1, <2>1 DEF Well, InTime, Timeout, Holding
  <2>4. CreatesIt(q)'
    <3>1. CASE req[q].pc \in Creating
      <4>1. /\ req[q].key \in Keys /\ req[q].box \in Ids \ {b} /\ req[q].box # 0
            /\ boxes'[req[q].key] \in {boxes[req[q].key], 0, b}
        BY <1>2, <2>1, <3>1, Times DEF Placed, Well, HoldsItsKey, Holding, Creating
      <4> QED
        BY <2>1, <3>1, <4>1 DEF Well, CreatesIt, Holding
    <3> QED
      BY <2>1, <3>1 DEF CreatesIt, Creating
  <2>5. Operates(q)'
    BY <2>1 DEF Well, Operates, Holding
  <2> QED
    BY <2>2, <2>3, <2>4, <2>5 DEF Well
<1>6. Well(r)'
  <2>1. HoldsItsKey(r)'
    BY <1>1, <1>2 DEF PoolInv, HoldsItsKey, Placed
  <2>2. InTime(r)'
    <3>1. /\ now \in Nat /\ req[r].deadline \in Nat /\ req[r].deadline <= now + Timeout(r)
          /\ Timeout(r) \in Nat /\ Timeout(r) <= BoxLife /\ BoxLife \in Nat
      BY Numbers, Times DEF PoolInv, InTime
    <3>2. req'[r].deadline = req[r].deadline /\ req'[r].box = b /\ box'[b].expires = now + BoxLife
      BY <1>2 DEF Placed
    <3> HIDE DEF Timeout
    <3>3. req'[r].deadline <= now' + Timeout(r) /\ req'[r].deadline <= box'[b].expires
      BY <1>1, <3>1, <3>2
    <3> QED
      BY <3>2, <3>3 DEF InTime, Timeout
  <2>3. CreatesIt(r)' /\ Operates(r)'
    BY <1>2 DEF CreatesIt, Operates, Placed
  <2> QED
    BY <2>1, <2>2, <2>3 DEF Well
<1>7. \A q, p \in Requests : q # p => Apart(q, p)'
  <2> SUFFICES ASSUME NEW q \in Requests, NEW p \in Requests, q # p
               PROVE  Apart(q, p)'
    OBVIOUS
  <2>1. Apart(q, p)
    BY DEF PoolInv
  <2> QED
    BY <1>2, <1>4, <2>1 DEF Apart, Placed, OnlyRequest, Holding
<1>8. \A c \in Ids : BoxOK(c)'
  <2> SUFFICES ASSUME NEW c \in Ids
               PROVE  BoxOK(c)'
    OBVIOUS
  <2>1. BoxOK(c) /\ now \in Nat /\ BoxLife \in Nat
    BY Numbers, Times DEF PoolInv
  <2> QED
    BY <1>1, <1>2, <1>3, <2>1 DEF BoxOK, Placed
<1>9. FailureNotShared'
  <2> SUFFICES ASSUME NEW k \in Keys, boxes'[k] # 0, box'[boxes'[k]].ready
               PROVE  ~box'[boxes'[k]].err
    BY DEF FailureNotShared
  <2>1. boxes'[k] # b /\ boxes'[k] = boxes[k] /\ boxes[k] \in Ids \ {b}
    BY <1>2, Types DEF Placed
  <2> QED
    BY <1>3, <2>1 DEF PoolInv, FailureNotShared
<1>10. NotStranded'
  <2> SUFFICES ASSUME NEW c \in Ids, box'[c].ctr = "created"
               PROVE  \/ \E q \in Requests : req'[q].box = c /\ req'[q].pc = "start"
                      \/ c \in stray'
    BY DEF NotStranded
  <2>1. c # b /\ box'[c] = box[c]
    BY <1>2, <1>3 DEF Placed
  <2>2. CASE \E q \in Requests : req[q].box = c /\ req[q].pc = "start"
    BY <1>1, <1>2, <2>2 DEF Placed, OnlyRequest
  <2> QED
    BY <1>1, <2>1, <2>2 DEF PoolInv, NotStranded
<1>11. Filed'
  <2>1. \A k \in Keys \ {req[r].key} : boxes'[k] # 0 => boxes[k] = boxes'[k] /\ boxes[k] \in Ids
    BY <1>2, Types DEF Placed
  <2>2. \A k \in Keys \ {req[r].key} : boxes'[k] # 0 => boxes'[k] # b
    BY <1>3, <2>1, Types, Times
  <2>3. \A k \in Keys : boxes'[k] # 0 => box'[boxes'[k]].key = k
    BY <1>2, <1>3, <2>1, <2>2, Types DEF Placed
  <2> QED
    BY <1>2, <2>3 DEF Filed, Placed, OnlyBox, OnlyRequest
<1> QED
  BY <1>5, <1>6, <1>7, <1>8, <1>9, <1>10, <1>11 DEF PoolInv, Well

LEMMA TickKeeps ==
  ASSUME TypeOK, PoolInv, stray \subseteq stray', Tick, UNCHANGED scope
  PROVE  PoolInv'
<1>1. /\ boxes' = boxes /\ box' = box /\ req' = req /\ scope' = scope /\ now' = now + 1
      /\ now \in Nat /\ BoxLife \in Nat /\ OpTimeout \in Nat
  BY Numbers, Times DEF Tick
<1>2. \A q \in Requests : Well(q)'
  <2> SUFFICES ASSUME NEW q \in Requests
               PROVE  Well(q)'
    OBVIOUS
  <2>1. Well(q) /\ req[q].deadline \in Nat /\ Timeout(q) \in Nat
    BY Numbers, Times DEF PoolInv, Well
  <2>2. Timeout(q)' = Timeout(q)
    BY DEF Timeout
  <2> QED
    BY <1>1, <2>1, <2>2 DEF Well, HoldsItsKey, InTime, CreatesIt, Operates
<1>3. \A b \in Ids : BoxOK(b)'
  <2> SUFFICES ASSUME NEW b \in Ids
               PROVE  BoxOK(b)'
    OBVIOUS
  <2>1. BoxOK(b) /\ box[b].expires \in Nat /\ box[b].exitAt \in Nat
    BY Numbers DEF PoolInv
  <2> QED
    BY <1>1, <2>1 DEF BoxOK
<1>4. FailureNotShared' /\ \A q, p \in Requests : q # p => Apart(q, p)'
  BY <1>1 DEF PoolInv, FailureNotShared, Apart
<1>5. NotStranded'
  <2> SUFFICES ASSUME NEW b \in Ids, box[b].ctr = "created"
               PROVE  (\E q \in Requests : req[q].box = b /\ req[q].pc = "start") \/ b \in stray'
    BY <1>1 DEF NotStranded
  <2> QED
    BY DEF PoolInv, NotStranded
<1>6. Filed'
  BY <1>1, Types DEF Filed
<1> QED
  BY <1>2, <1>3, <1>4, <1>5, <1>6 DEF PoolInv, Well

\* A request moves and at most its key loses a box: what has to be seen is the request.
LEMMA MoveKeeps ==
  ASSUME TypeOK, PoolInv, stray \subseteq stray', NEW r \in Requests, OnlyRequest(r), Well(r)', Proceeds(r),
         boxes' \in [Keys -> Ids \cup {0}], \A k \in Keys : boxes'[k] \in {boxes[k], 0},
         box' = box, now' = now, scope' = scope
  PROVE  PoolInv'
<1>1. box' \in [Ids -> BoxState] /\ \A b \in Ids : Fades(b)
  BY Types DEF Fades, SameLife
<1> QED
  BY <1>1, IdleKeeps DEF OnlyRequest

\* A request that ends.
LEMMA EndKeeps ==
  ASSUME TypeOK, PoolInv, stray \subseteq stray', NEW r \in Requests, NEW pc \in {"done", "failed"},
         NEW why \in {"none", "blank", "gone", "other"}, End(r, pc, why),
         req[r].pc \in {"wait", "op", "await", "list"},
         UNCHANGED <<now, boxes, box, scope>>
  PROVE  PoolInv'
<1>1. /\ OnlyRequest(r) /\ req'[r].pc = pc /\ req'[r].key = req[r].key /\ req'[r].deadline = 0
  BY EndDoes
<1>2. now \in Nat /\ Timeout(r) \in Nat /\ Timeout(r)' = Timeout(r)
  BY Numbers, Times DEF Timeout
<1>3. Well(r)'
  BY <1>1, <1>2 DEF PoolInv, Well, HoldsItsKey, InTime, CreatesIt, Operates, Holding, Creating
<1>4. Proceeds(r) /\ boxes' \in [Keys -> Ids \cup {0}]
  BY <1>1, Types DEF Proceeds, Creating
<1> QED
  BY <1>1, <1>3, <1>4, MoveKeeps

LEMMA BeginKeeps ==
  ASSUME TypeOK, PoolInv, stray \subseteq stray', NEW r \in Requests, UNCHANGED scope,
         Begin(r) \/ DropVolume(r) \/ ForgetGone(r)
  PROVE  PoolInv'
<1>1. /\ req[r].pc \in {"idle", "volume", "again"} /\ box' = box /\ now' = now
      /\ boxes' \in [Keys -> Ids \cup {0}] /\ \A k \in Keys : boxes'[k] \in {boxes[k], 0}
  BY Types DEF Begin, DropVolume, ForgetGone, Forgotten
<1>2. /\ OnlyRequest(r) /\ Same(r) /\ req'[r].pc \in {"take", "get"}
      /\ req'[r].deadline \in {req[r].deadline, now + Timeout(r)}
  BY BeginDoes, RetryDoes, Numbers DEF Begin, DropVolume, ForgetGone
<1>3. now \in Nat /\ Timeout(r) \in Nat /\ Timeout(r)' = Timeout(r) /\ req[r].deadline \in Nat
  BY Numbers, Times DEF Timeout
<1>4. Well(r)'
  <2>1. HoldsItsKey(r)' /\ CreatesIt(r)' /\ Operates(r)'
    BY <1>1, <1>2 DEF PoolInv, HoldsItsKey, CreatesIt, Operates, Same, Holding, Creating
  <2>2. InTime(r)'
    BY <1>1, <1>2, <1>3 DEF PoolInv, InTime, Creating
  <2> QED
    BY <2>1, <2>2 DEF Well
<1>5. Proceeds(r)
  BY <1>1, <1>2 DEF Proceeds, Creating
<1> QED
  BY <1>1, <1>2, <1>4, <1>5, MoveKeeps

LEMMA ShareKeeps ==
  ASSUME TypeOK, PoolInv, stray \subseteq stray', NEW r \in Requests, UNCHANGED scope, Share(r)
  PROVE  PoolInv'
<1> DEFINE b == boxes[req[r].key]
<1>1. /\ req[r].pc = "get" /\ req[r].key \in Keys /\ b # 0 /\ box[b].expires >= now + Timeout(r)
      /\ req' = [req EXCEPT ![r].pc = "wait", ![r].box = b]
      /\ box' = box /\ now' = now /\ boxes' = boxes
  BY DEF Share, Reusable, PoolInv, HoldsItsKey
<1>2. b \in Ids /\ box[b].key = req[r].key /\ boxes' \in [Keys -> Ids \cup {0}]
  BY <1>1, Types
<1>3. /\ OnlyRequest(r) /\ req'[r].pc = "wait" /\ req'[r].box = b /\ req'[r].key = req[r].key
      /\ req'[r].deadline = req[r].deadline
  <2>1. "wait" \in Pcs
    BY DEF Pcs, Holding
  <2> HIDE DEF b
  <2> QED
    BY <1>1, <1>2, <2>1, GivenDoes
<1>4. /\ now \in Nat /\ Timeout(r) \in Nat /\ Timeout(r)' = Timeout(r) /\ req[r].deadline \in Nat
      /\ box[b].expires \in Nat
  BY <1>2, Numbers, Times DEF Timeout
<1>5. Well(r)'
  <2>1. HoldsItsKey(r)' /\ CreatesIt(r)' /\ Operates(r)'
    BY <1>1, <1>2, <1>3 DEF PoolInv, HoldsItsKey, CreatesIt, Operates, Creating
  <2>2. req[r].deadline <= now + Timeout(r) /\ req[r].deadline <= box[b].expires
    BY <1>1, <1>4 DEF PoolInv, InTime
  <2>3. InTime(r)'
    BY <1>1, <1>3, <1>4, <2>2 DEF InTime
  <2> QED
    BY <2>1, <2>3 DEF Well
<1>6. Proceeds(r)
  BY <1>1, <1>3 DEF Proceeds, Creating
<1> QED
  BY <1>1, <1>2, <1>3, <1>5, <1>6, MoveKeeps

LEMMA TakeKeeps ==
  ASSUME TypeOK, PoolInv, stray \subseteq stray', NEW r \in Requests, UNCHANGED scope, Take(r)
  PROVE  PoolInv'
<1> DEFINE k == req[r].key
<1>1. req[r].pc = "take" /\ k \in Keys
  BY DEF Take, PoolInv, HoldsItsKey
<1>2. /\ OnlyRequest(r) /\ req'[r].key = k /\ req'[r].deadline = req[r].deadline
      /\ req'[r].pc \in {"await", "list", "volume"}
      /\ req'[r].pc = "await" => boxes[k] # 0 /\ req'[r].box = boxes[k]
      /\ boxes' = [boxes EXCEPT ![k] = 0] /\ box' = box /\ now' = now
  BY <1>1, TakeDoes
<1>3. /\ boxes' \in [Keys -> Ids \cup {0}] /\ \A o \in Keys : boxes'[o] \in {boxes[o], 0}
      /\ boxes[k] # 0 => boxes[k] \in Ids /\ box[boxes[k]].key = k
  BY <1>1, <1>2, Types
<1>4. Timeout(r)' = Timeout(r)
  BY DEF Timeout
<1>5. Well(r)'
  BY <1>1, <1>2, <1>3, <1>4
     DEF PoolInv, Well, HoldsItsKey, InTime, CreatesIt, Operates, Holding, Creating
<1>6. Proceeds(r)
  BY <1>1, <1>2 DEF Proceeds, Creating
<1> QED
  BY <1>2, <1>3, <1>5, <1>6, MoveKeeps

\* Moves of one step that change nothing else.
LEMMA GotoKeeps ==
  ASSUME TypeOK, PoolInv, stray \subseteq stray', NEW r \in Requests, UNCHANGED <<now, boxes, box, scope>>,
         NEW pc \in {"op", "again", "take", "list", "volume"}, Goto(r, pc),
         req[r].pc \in {"wait", "op", "await"},
         pc \in {"op", "again"} => req[r].pc \in {"wait", "op"} /\ box[req[r].box].ready
                                   /\ ~box[req[r].box].err
  PROVE  PoolInv'
<1>1. OnlyRequest(r) /\ Steady(r) /\ req'[r].pc = pc
  BY GotoDoes DEF Pcs, Holding
<1>2. Timeout(r)' = Timeout(r)
  BY DEF Timeout
<1>3. Well(r)'
  BY <1>1, <1>2
     DEF PoolInv, Well, HoldsItsKey, InTime, CreatesIt, Operates, Holding, Creating, Steady, Same
<1>4. Proceeds(r) /\ boxes' \in [Keys -> Ids \cup {0}]
  BY <1>1, Types DEF Proceeds, Creating
<1> QED
  BY <1>1, <1>3, <1>4, MoveKeeps

LEMMA ClientGoneKeeps ==
  ASSUME TypeOK, PoolInv, stray \subseteq stray', NEW r \in Requests, UNCHANGED scope, ClientGone(r)
  PROVE  PoolInv'
<1>1. OnlyRequest(r) /\ Steady(r) /\ req'[r].pc = req[r].pc
  BY ClientGoneDoes
<1>2. Timeout(r)' = Timeout(r) /\ boxes' = boxes /\ box' = box /\ now' = now
  BY DEF Timeout, ClientGone
<1>3. Well(r)'
  BY <1>1, <1>2
     DEF PoolInv, Well, HoldsItsKey, InTime, CreatesIt, Operates, Holding, Creating, Steady, Same
<1>4. Proceeds(r) /\ boxes' \in [Keys -> Ids \cup {0}]
  BY <1>1, <1>2, Types DEF Proceeds, Creating, Steady, Same
<1> QED
  BY <1>1, <1>2, <1>3, <1>4, MoveKeeps

\* The steps of a creation.
LEMMA MountKeeps ==
  ASSUME TypeOK, PoolInv, stray \subseteq stray', NEW r \in Requests, UNCHANGED scope,
         req[r].pc \in {"mount", "create"}, UNCHANGED <<now, boxes>>,
         \/ req[r].pc = "mount" /\ Goto(r, "create") /\ UNCHANGED box
         \/ Goto(r, "forget") /\ box' = [box EXCEPT ![req[r].box].err = TRUE]
         \/ \E failed \in BOOLEAN :
              /\ Goto(r, IF failed THEN "forget" ELSE "start")
              /\ box' = [box EXCEPT ![req[r].box].ctr = "created",
                                    ![req[r].box].blank = (volume # "filled"), ![req[r].box].err = failed]
              /\ failed => req[r].box \in stray'
  PROVE  PoolInv'
<1> DEFINE b == req[r].box
<1>1. b \in Ids /\ Well(r) /\ BoxOK(b) /\ req[r].pc \in Creating /\ req[r].key \in Keys
      /\ box[b].key = req[r].key /\ "none" \notin Keys
  BY Times DEF PoolInv, Well, HoldsItsKey, Holding, Creating
<1>2. /\ box[b].ctr = "none" /\ ~box[b].ready /\ ~box[b].err
      /\ req[r].deadline <= box[b].expires /\ req[r].deadline <= now + Timeout(r)
      /\ box[b].expires <= now + BoxLife
  BY <1>1 DEF Well, CreatesIt, InTime, Creating, BoxOK
<1>3. /\ OnlyRequest(r) /\ Steady(r) /\ req'[r].pc \in {"create", "forget", "start"}
      /\ OnlyBox(b) /\ SameLife(b) /\ ~box'[b].ready
      /\ req'[r].pc = "create" => ~box'[b].err /\ box'[b].ctr = "none"
      /\ req'[r].pc = "forget" => box'[b].err /\ (box'[b].ctr = "none" \/ (box'[b].ctr = "created" /\ b \in stray'))
      /\ req'[r].pc = "start" => ~box'[b].err /\ box'[b].ctr = "created"
  <2> "create" \in Pcs /\ "forget" \in Pcs /\ "start" \in Pcs
    BY DEF Pcs, Holding, Creating
  <2>1. CASE req[r].pc = "mount" /\ Goto(r, "create") /\ UNCHANGED box
    BY <1>2, <2>1, GotoDoes, Types DEF OnlyBox, SameLife
  <2>2. CASE Goto(r, "forget") /\ box' = [box EXCEPT ![b].err = TRUE]
    <3>1. OnlyRequest(r) /\ Steady(r) /\ req'[r].pc = "forget"
      BY <2>2, GotoDoes
    <3>2. OnlyBox(b) /\ SameLife(b) /\ box'[b].ready = box[b].ready /\ box'[b].err
          /\ box'[b].ctr \in {"gone", box[b].ctr}
      BY <1>1, <2>2, ErrDoes
    <3>3. box' = [box EXCEPT ![b].err = TRUE] /\ box \in [Ids -> BoxState] /\ box[b] \in BoxState
      BY <1>1, <2>2, Types
    <3>4. box'[b].ctr = box[b].ctr
      BY <1>1, <3>3 DEF BoxState
    <3> QED
      <4>1. ~box'[b].ready /\ box'[b].ctr = "none"
        BY <1>2, <3>2, <3>4
      <4> QED
        BY <3>1, <3>2, <4>1
  <2>3. ASSUME NEW failed \in BOOLEAN, Goto(r, IF failed THEN "forget" ELSE "start"),
               box' = [box EXCEPT ![b].ctr = "created", ![b].blank = (volume # "filled"), ![b].err = failed],
               failed => b \in stray'
        PROVE  /\ OnlyRequest(r) /\ Steady(r) /\ req'[r].pc \in {"forget", "start"}
               /\ OnlyBox(b) /\ SameLife(b) /\ ~box'[b].ready
               /\ req'[r].pc = "forget" => box'[b].err /\ box'[b].ctr = "created" /\ b \in stray'
               /\ req'[r].pc = "start" => ~box'[b].err /\ box'[b].ctr = "created"
    <3>1. OnlyRequest(r) /\ Steady(r) /\ req'[r].pc = IF failed THEN "forget" ELSE "start"
      BY <2>3, GotoDoes
    <3>2. /\ OnlyBox(b) /\ SameLife(b) /\ box'[b].ready = box[b].ready /\ box'[b].err = failed
          /\ box'[b].ctr = "created"
      BY <1>1, <2>3, CreatedDoes
    <3> QED
      BY <1>2, <2>3, <3>1, <3>2
  <2> QED
    BY <2>1, <2>2, <2>3
<1>4. Timeout(r)' = Timeout(r)
  BY DEF Timeout
<1>5. Well(r)'
  BY <1>1, <1>2, <1>3, <1>4
     DEF Well, HoldsItsKey, InTime, CreatesIt, Operates, Holding, Creating, Steady, Same, SameLife
<1>6. BoxOK(b)'
  BY <1>1, <1>2, <1>3 DEF BoxOK, SameLife, Steady, Same
<1>7. req'[r].box = b /\ req'[r].pc \in Creating
  BY <1>3 DEF Steady, Same, Creating
<1>8. box'[b].ctr = "created" => req'[r].pc = "start" \/ b \in stray'
  BY <1>3
<1> QED
  BY <1>1, <1>3, <1>5, <1>6, <1>7, <1>8, MakeKeeps

LEMMA StartKeeps ==
  ASSUME TypeOK, PoolInv, stray \subseteq stray', NEW r \in Requests, UNCHANGED scope, StartBox(r)
  PROVE  PoolInv'
<1> DEFINE b == req[r].box
<1>1. b \in Ids /\ Well(r) /\ BoxOK(b) /\ req[r].pc = "start" /\ req[r].pc \in Creating
      /\ req[r].key \in Keys /\ box[b].key = req[r].key /\ "none" \notin Keys
  BY Times DEF PoolInv, Well, HoldsItsKey, Holding, Creating, StartBox
<1>2. /\ box[b].ctr \in {"created", "gone"} /\ ~box[b].ready /\ ~box[b].err
      /\ req[r].deadline <= box[b].expires /\ req[r].deadline <= now + Timeout(r)
      /\ box[b].expires <= now + BoxLife
  BY <1>1 DEF Well, CreatesIt, InTime, Creating, BoxOK
<1>3. /\ now \in Nat /\ BoxLife \in Nat /\ box[b].expires \in Nat /\ OpTimeout \in Nat
      /\ now + BoxLife \in 0..(MaxTime + BoxLife)
  <2>1. now \in Nat /\ now <= MaxTime /\ box[b].expires \in Nat
    BY <1>1, Numbers
  <2>2. BoxLife \in Nat /\ OpTimeout \in Nat /\ MaxTime \in Nat
    BY Times
  <2> HIDE DEF b
  <2> QED
    BY <2>1, <2>2
<1>4. now' = now /\ boxes' = boxes
  BY DEF StartBox
<1>5. /\ OnlyRequest(r) /\ Steady(r) /\ req'[r].pc \in {"close", "forget"}
      /\ OnlyBox(b) /\ SameLife(b) /\ ~box'[b].ready
      /\ req'[r].pc = "close" => ~box'[b].err /\ box'[b].ctr = "running"
                                 /\ box'[b].exitAt = now + BoxLife
      /\ req'[r].pc = "forget" => /\ box'[b].err
                                  /\ \/ box'[b].ctr = "gone"
                                     \/ box'[b].ctr = "created" /\ b \in stray'
                                     \/ box'[b].ctr = "running" /\ box'[b].exitAt = now + BoxLife
  <2> "close" \in Pcs /\ "forget" \in Pcs
    BY DEF Pcs, Holding, Creating
  <2>1. ASSUME NEW failed \in BOOLEAN, Goto(r, IF failed THEN "forget" ELSE "close"),
               box' = [box EXCEPT ![b].ctr = "running", ![b].exitAt = now + BoxLife, ![b].err = failed]
        PROVE  /\ OnlyRequest(r) /\ Steady(r) /\ req'[r].pc \in {"close", "forget"}
               /\ OnlyBox(b) /\ SameLife(b) /\ ~box'[b].ready
               /\ box'[b].err <=> req'[r].pc = "forget"
               /\ box'[b].ctr = "running" /\ box'[b].exitAt = now + BoxLife
    <3>1. OnlyRequest(r) /\ Steady(r) /\ req'[r].pc = IF failed THEN "forget" ELSE "close"
      BY <2>1, GotoDoes
    <3>2. /\ OnlyBox(b) /\ SameLife(b) /\ box'[b].ready = box[b].ready /\ box'[b].err = failed
          /\ box'[b].ctr = "running" /\ box'[b].exitAt = now + BoxLife
      BY <1>1, <1>3, <2>1, RunningDoes
    <3> QED
      BY <1>2, <3>1, <3>2
  <2>2. CASE /\ \E left \in {"gone", box[b].ctr} :
                  /\ box' = [box EXCEPT ![b].ctr = left, ![b].err = TRUE]
                  /\ left = "created" => b \in stray'
             /\ Goto(r, "forget")
    <3>1. PICK left \in {"gone", box[b].ctr} :
            /\ box' = [box EXCEPT ![b].ctr = left, ![b].err = TRUE]
            /\ left = "created" => b \in stray'
      BY <2>2
    <3>2. OnlyRequest(r) /\ Steady(r) /\ req'[r].pc = "forget"
      BY <2>2, GotoDoes
    <3>3. OnlyBox(b) /\ SameLife(b) /\ box'[b].ready = box[b].ready /\ box'[b].err
      BY <1>1, <3>1, ErrDoes
    <3>4. box'[b].ctr = left
      BY <1>1, <3>1, Types DEF BoxState
    <3> QED
      BY <1>2, <3>1, <3>2, <3>3, <3>4
  <2> QED
    BY <2>1, <2>2 DEF StartBox, Leaves
<1>6. Timeout(r)' = Timeout(r)
  BY DEF Timeout
<1>7. Well(r)'
  BY <1>1, <1>2, <1>4, <1>5, <1>6
     DEF Well, HoldsItsKey, InTime, CreatesIt, Operates, Holding, Creating, Steady, Same, SameLife
<1>8. BoxOK(b)'
  BY <1>1, <1>2, <1>3, <1>4, <1>5 DEF BoxOK, SameLife, Steady, Same
<1>9. box'[b].ctr = "created" => b \in stray'
  BY <1>5
<1>10. req'[r].box = b /\ req'[r].pc \in Creating
  BY <1>5 DEF Steady, Same, Creating
<1> QED
  BY <1>1, <1>4, <1>5, <1>7, <1>8, <1>9, <1>10, MakeKeeps

LEMMA CloseKeeps ==
  ASSUME TypeOK, PoolInv, stray \subseteq stray', NEW r \in Requests, UNCHANGED scope, Close(r)
  PROVE  PoolInv'
<1> DEFINE b == req[r].box
<1>1. b \in Ids /\ Well(r) /\ BoxOK(b) /\ req[r].pc = "close" /\ req[r].pc \in Creating
      /\ req[r].key \in Keys /\ box[b].key = req[r].key /\ b # 0
  BY Times DEF PoolInv, Well, HoldsItsKey, Holding, Creating, Close
<1>2. now' = now /\ boxes' = boxes /\ box' = [box EXCEPT ![b].ready = TRUE]
  BY DEF Close
<1>3. OnlyRequest(r) /\ Steady(r) /\ req'[r].pc = "wait"
  BY GotoDoes DEF Close, Pcs, Holding
<1>4. /\ OnlyBox(b) /\ SameLife(b) /\ box'[b].ready /\ box'[b].err = box[b].err
      /\ box'[b].ctr = box[b].ctr /\ box'[b].exitAt = box[b].exitAt
  BY <1>1, <1>2, ReadyDoes
<1>5. Timeout(r)' = Timeout(r)
  BY DEF Timeout
<1>6. Well(r)'
  BY <1>1, <1>2, <1>3, <1>4, <1>5
     DEF Well, HoldsItsKey, InTime, CreatesIt, Operates, Holding, Creating, Steady, Same, SameLife
<1>7. IF box[b].err THEN boxes[req[r].key] # b ELSE box[b].ctr \notin {"none", "created"}
  BY <1>1 DEF Well, CreatesIt
<1>8. BoxOK(b)'
  BY <1>1, <1>2, <1>3, <1>4, <1>7, Times DEF BoxOK, SameLife, Steady, Same
<1>9. box[b].err => \A k \in Keys : boxes[k] # b
  <2> SUFFICES ASSUME box[b].err, NEW k \in Keys, boxes[k] = b
               PROVE  FALSE
    OBVIOUS
  <2>1. box[b].key = k
    BY <1>1, Types
  <2> QED
    BY <1>1, <1>7, <2>1
<1>10. box'[b].ctr = "created" => b \in stray'
  <2> SUFFICES ASSUME box[b].ctr = "created"
               PROVE  b \in stray
    BY <1>4
  <2>1. \A q \in Requests : req[q].pc = "start" => req[q].box # b
    BY <1>1 DEF PoolInv, Apart, Creating
  <2> QED
    BY <1>1, <2>1 DEF PoolInv, NotStranded
<1>11. req'[r].box = b
  BY <1>3 DEF Steady, Same
<1> QED
  BY <1>1, <1>2, <1>3, <1>4, <1>6, <1>8, <1>9, <1>10, <1>11, MakeKeeps

LEMMA ForgetFailedKeeps ==
  ASSUME TypeOK, PoolInv, stray \subseteq stray', NEW r \in Requests, UNCHANGED scope, ForgetFailed(r)
  PROVE  PoolInv'
<1> DEFINE b == req[r].box
<1>1. /\ req[r].pc = "forget" /\ box' = box /\ now' = now /\ Well(r) /\ b # 0 /\ req[r].key \in Keys
      /\ boxes' = IF boxes[req[r].key] = b THEN [boxes EXCEPT ![req[r].key] = 0] ELSE boxes
  BY Times DEF ForgetFailed, Forgotten, PoolInv, Well, HoldsItsKey, Holding, Creating
<1>2. /\ boxes' \in [Keys -> Ids \cup {0}] /\ \A k \in Keys : boxes'[k] \in {boxes[k], 0}
      /\ boxes'[req[r].key] # b
  BY <1>1, Types
<1>3. OnlyRequest(r) /\ Steady(r) /\ req'[r].pc = "close"
  BY GotoDoes DEF ForgetFailed, Pcs, Holding, Creating
<1>4. Timeout(r)' = Timeout(r)
  BY DEF Timeout
<1>5. Well(r)'
  BY <1>1, <1>2, <1>3, <1>4
     DEF Well, HoldsItsKey, InTime, CreatesIt, Operates, Holding, Creating, Steady, Same
<1>6. Proceeds(r)
  BY <1>1, <1>3 DEF Proceeds, Creating, Steady, Same
<1> QED
  BY <1>1, <1>2, <1>3, <1>5, <1>6, MoveKeeps

\* Boxes whose containers went.
GoneFrom(S, how) ==
  /\ box' \in [Ids -> BoxState]
  /\ \A b \in Ids \ S : box'[b] = box[b]
  /\ \A b \in S : /\ SameLife(b) /\ box'[b].ready = box[b].ready /\ box'[b].err = box[b].err
                  /\ box'[b].ctr = how /\ box'[b].blank = box[b].blank

LEMMA GoneKeeps ==
  ASSUME TypeOK, PoolInv, stray \subseteq stray', NEW S \in SUBSET Ids, NEW how \in {"gone", "expired"}, GoneFrom(S, how),
         \A b \in S : IF how = "gone" THEN box[b].ctr # "none"
                      ELSE box[b].ctr = "running" /\ now >= box[b].exitAt,
         \/ UNCHANGED req
         \/ \E r \in Requests : /\ OnlyRequest(r) /\ req'[r].key = req[r].key
                                /\ req[r].pc \in {"await", "list"}
                                /\ req'[r].deadline \in {0, req[r].deadline}
                                /\ req'[r].pc \in {"list", "volume", "done", "failed"},
         UNCHANGED <<boxes, now, scope>>
  PROVE  PoolInv'
<1>1. \A b \in Ids : Fades(b)
  BY DEF GoneFrom, Fades, SameLife
<1>2. req' \in [Requests -> RequestState] /\ boxes' \in [Keys -> Ids \cup {0}]
      /\ \A k \in Keys : boxes'[k] \in {boxes[k], 0}
  BY Types DEF OnlyRequest
<1>3. \A q \in Requests : req'[q] = req[q] \/ (Well(q)' /\ Proceeds(q))
  <2>1. CASE UNCHANGED req
    BY <2>1
  <2>2. ASSUME NEW r \in Requests, OnlyRequest(r), req'[r].key = req[r].key,
               req[r].pc \in {"await", "list"}, req'[r].deadline \in {0, req[r].deadline},
               req'[r].pc \in {"list", "volume", "done", "failed"}
        PROVE  Well(r)' /\ Proceeds(r)
    <3>1. now' = now /\ now \in Nat /\ Timeout(r) \in Nat /\ Timeout(r)' = Timeout(r) /\ scope' = scope
      BY Numbers, Times DEF Timeout
    <3>2. HoldsItsKey(r) /\ InTime(r)
      BY DEF PoolInv
    <3>3. Well(r)'
      BY <2>2, <3>1, <3>2 DEF Well, HoldsItsKey, InTime, CreatesIt, Operates, Holding, Creating
    <3> QED
      BY <2>2, <3>3 DEF Proceeds, Creating
  <2> QED
    BY <2>1, <2>2 DEF OnlyRequest
<1> QED
  BY <1>1, <1>2, <1>3, IdleKeeps DEF GoneFrom

LEMMA AwaitKeeps ==
  ASSUME TypeOK, PoolInv, stray \subseteq stray', NEW r \in Requests, UNCHANGED scope, Await(r)
  PROVE  PoolInv'
<1> DEFINE next == IF r \in Releases THEN "list" ELSE "volume"
<1>1. PICK b \in Ids : b = req[r].box /\ req[r].pc = "await" /\ UNCHANGED <<now, boxes>> /\ BoxOK(b)
                         /\ next \in {"list", "volume"}
  BY DEF Await, PoolInv, HoldsItsKey, Holding
<1>2. CASE Fail(r, "other") /\ UNCHANGED box
  BY <1>1, <1>2, EndKeeps DEF Fail
<1>3. CASE Goto(r, next) /\ UNCHANGED box
  BY <1>1, <1>3, GotoKeeps
<1>4. CASE box[b].ready /\ ~box[b].err /\ box' = [box EXCEPT ![b] = Gone(b, "gone")] /\ Goto(r, next)
  <2>1. OnlyRequest(r) /\ Steady(r) /\ req'[r].pc = next
    BY <1>1, <1>4, GotoDoes DEF Pcs
  <2>2. GoneFrom({b}, "gone")
    BY <1>4, GoneDoes DEF GoneFrom, OnlyBox
  <2>3. {b} \in SUBSET Ids /\ box[b].ctr # "none"
    BY <1>1, <1>4 DEF BoxOK
  <2>4. \E q \in Requests : /\ OnlyRequest(q) /\ req'[q].key = req[q].key
                            /\ req[q].pc \in {"await", "list"}
                            /\ req'[q].deadline \in {0, req[q].deadline}
                            /\ req'[q].pc \in {"list", "volume", "done", "failed"}
    BY <1>1, <2>1 DEF Steady, Same
  <2> QED
    BY <1>1, <2>2, <2>3, <2>4, GoneKeeps
<1> QED
  BY <1>1, <1>2, <1>3, <1>4 DEF Await, Removed

LEMMA RemoveLabeledDoes ==
  ASSUME TypeOK, NEW r \in Requests,
         box' = [b \in Ids |-> IF box[b].key = req[r].key /\ Exists(b) THEN Gone(b, "gone") ELSE box[b]]
  PROVE  GoneFrom({b \in Ids : box[b].key = req[r].key /\ Exists(b)}, "gone")
<1>1. box \in [Ids -> BoxState] /\ \A b \in Ids : Gone(b, "gone") \in BoxState
  BY Types, GoneIs
<1>2. box' \in [Ids -> BoxState]
  BY <1>1
<1> QED
  BY <1>1, <1>2, GoneIs DEF GoneFrom, SameLife

LEMMA RemoveLabeledKeeps ==
  ASSUME TypeOK, PoolInv, stray \subseteq stray', NEW r \in Requests, UNCHANGED scope, RemoveLabeled(r)
  PROVE  PoolInv'
<1>1. CASE Fail(r, "other") /\ UNCHANGED box
  BY <1>1, EndKeeps DEF Fail, RemoveLabeled
<1>2. CASE /\ box' = [b \in Ids |-> IF box[b].key = req[r].key /\ Exists(b)
                                    THEN Gone(b, "gone") ELSE box[b]]
           /\ Done(r)
  <2> DEFINE S == {b \in Ids : box[b].key = req[r].key /\ Exists(b)}
  <2>1. OnlyRequest(r) /\ req'[r].pc = "done" /\ req'[r].key = req[r].key
        /\ req'[r].box = 0 /\ req'[r].deadline = 0
    BY <1>2, EndDoes DEF Done
  <2>2. GoneFrom(S, "gone") /\ S \in SUBSET Ids
    BY <1>2, RemoveLabeledDoes
  <2>3. \A b \in S : box[b].ctr # "none"
    BY DEF Exists
  <2>4. UNCHANGED <<boxes, now, scope>> /\ req[r].pc = "list"
    BY DEF RemoveLabeled
  <2> HIDE DEF S
  <2> QED
    BY <2>1, <2>2, <2>3, <2>4, GoneKeeps
<1> QED
  BY <1>1, <1>2 DEF RemoveLabeled

LEMMA DaemonKeeps ==
  ASSUME TypeOK, PoolInv, stray \subseteq stray', NEW b \in Ids, UNCHANGED scope, Expire(b) \/ Vanish(b)
  PROVE  PoolInv'
<1> DEFINE how == IF Expire(b) THEN "expired" ELSE "gone"
<1>1. /\ how \in {"gone", "expired"} /\ box' = [box EXCEPT ![b] = Gone(b, how)]
      /\ box[b].ctr = "running" /\ (how = "expired" => now >= box[b].exitAt)
      /\ UNCHANGED <<now, boxes, req>>
  BY DEF Expire, Vanish
<1> HIDE DEF how
<1>2. GoneFrom({b}, how) /\ {b} \in SUBSET Ids
  BY <1>1, GoneDoes DEF GoneFrom, OnlyBox
<1> QED
  BY <1>1, <1>2, GoneKeeps

LEMMA OperateKeeps ==
  ASSUME TypeOK, PoolInv, stray \subseteq stray', NEW r \in Requests, UNCHANGED scope,
         Wait(r) \/ OpAnswered(r) \/ OpDropped(r) \/ OpGone(r) \/ OpBroken(r)
  PROVE  PoolInv'
<1>1. UNCHANGED <<now, boxes, box, scope>> /\ req[r].pc \in {"wait", "op"}
  BY DEF Wait, OpAnswered, OpDropped, OpGone, OpBroken
<1>2. \/ \E pc \in {"done", "failed"}, why \in {"none", "blank", "gone", "other"} : End(r, pc, why)
      \/ \E pc \in {"op", "again", "take"} :
           /\ Goto(r, pc)
           /\ pc \in {"op", "again"} => box[req[r].box].ready /\ ~box[req[r].box].err
  BY DEF Wait, OpAnswered, OpDropped, OpGone, OpBroken, Done, Fail, PoolInv, Operates
<1> QED
  BY <1>1, <1>2, EndKeeps, GotoKeeps

\* What was left behind is not taken back.
LEMMA StrayStep ==
  ASSUME TypeOK, PoolInv, [Next]_vars
  PROVE  stray \subseteq stray' /\ stray' \subseteq Ids
<1>1. ASSUME NEW r \in Requests, Create(r) \/ StartBox(r)
      PROVE  stray' = stray \/ (stray' = stray \cup {req[r].box} /\ req[r].box \in Ids)
  <2>1. req[r].box \in Ids
    BY <1>1 DEF Create, StartBox, PoolInv, HoldsItsKey, Holding, Creating
  <2> QED
    BY <1>1, <2>1 DEF Create, StartBox, Leaves
<1>2. stray' = stray \/ \E r \in Requests : Create(r) \/ StartBox(r)
  BY DEF Next, vars, Step
<1> QED
  BY <1>1, <1>2 DEF TypeOK

LEMMA PoolStep ==
  ASSUME TypeOK, PoolInv, [Next]_vars
  PROVE  PoolInv'
<1> stray \subseteq stray'
  BY StrayStep
<1>1. ASSUME NEW r \in Requests, Step(r), UNCHANGED scope
      PROVE  PoolInv'
  <2>1. CASE Mount(r) \/ Create(r)
    <3>1. req[r].pc \in {"mount", "create"} /\ UNCHANGED <<now, boxes>>
      BY <2>1 DEF Mount, Create
    <3>2. \/ req[r].pc = "mount" /\ Goto(r, "create") /\ UNCHANGED box
          \/ Goto(r, "forget") /\ box' = [box EXCEPT ![req[r].box].err = TRUE]
          \/ \E failed \in BOOLEAN :
               /\ Goto(r, IF failed THEN "forget" ELSE "start")
               /\ box' = [box EXCEPT ![req[r].box].ctr = "created",
                                     ![req[r].box].blank = (volume # "filled"), ![req[r].box].err = failed]
               /\ failed => req[r].box \in stray'
      <4>1. CASE Mount(r)
        BY <4>1 DEF Mount
      <4>2. CASE Create(r)
        <5>1. CASE Goto(r, "forget") /\ box' = [box EXCEPT ![req[r].box].err = TRUE]
          BY <5>1
        <5>2. ASSUME NEW failed \in BOOLEAN, IF failed THEN Leaves(req[r].box) ELSE UNCHANGED stray
              PROVE  failed => req[r].box \in stray'
          BY <5>2 DEF Leaves
        <5> QED
          BY <4>2, <5>1, <5>2 DEF Create
      <4> QED
        BY <2>1, <4>1, <4>2
    <3> QED
      BY <1>1, <3>1, <3>2, MountKeeps
  <2>2. CASE Begin(r) \/ DropVolume(r) \/ ForgetGone(r) \/ Share(r) \/ Place(r) \/ Take(r)
    BY <1>1, <2>2, BeginKeeps, ShareKeeps, PlaceKeeps, TakeKeeps
  <2>3. CASE StartBox(r) \/ Close(r) \/ ForgetFailed(r) \/ Await(r) \/ RemoveLabeled(r)
    BY <1>1, <2>3, StartKeeps, CloseKeeps, ForgetFailedKeeps, AwaitKeeps, RemoveLabeledKeeps
  <2>4. CASE Wait(r) \/ OpAnswered(r) \/ OpDropped(r) \/ OpGone(r) \/ OpBroken(r)
    BY <1>1, <2>4, OperateKeeps
  <2> QED
    BY <1>1, <2>1, <2>2, <2>3, <2>4 DEF Step
<1>2. CASE UNCHANGED vars \/ (VolumeDeleted /\ UNCHANGED scope)
  <2>1. UNCHANGED <<now, boxes, box, req, scope>>
    BY <1>2 DEF vars, VolumeDeleted
  <2>2. \A b \in Ids : Fades(b)
    BY <2>1 DEF Fades, SameLife
  <2> QED
    BY <2>1, <2>2, IdleKeeps, Types
<1> QED
  BY <1>1, <1>2, ClientGoneKeeps, DaemonKeeps, TickKeeps DEF Next

LEMMA TypeStep ==
  ASSUME TypeOK, PoolInv, [Next]_vars
  PROVE  TypeOK'
<1>1. Filed'
  BY PoolStep DEF PoolInv
<1>2. /\ now \in 0..MaxTime /\ volume \in {"absent", "filled", "blank"} /\ scope \in Scopes
      /\ spent \in [vanish : 0..scope.vanish, volume : 0..scope.volume, dropped : 0..scope.dropped]
  BY DEF TypeOK
<1>3. scope' = scope
  BY DEF Next, vars
<1>4. /\ scope.vanish \in Nat /\ scope.volume \in Nat /\ scope.dropped \in Nat
      /\ scope.time \in Nat /\ scope.time <= MaxTime /\ MaxTime \in Nat
  BY <1>2, PoolTimes
<1>5. now' \in 0..MaxTime
  <2>1. CASE now' = now
    BY <1>2, <2>1
  <2>2. CASE Tick
    <3>1. now' = now + 1 /\ now < scope.time /\ now \in Nat
      BY <1>2, <2>2 DEF Tick
    <3> QED
      BY <1>4, <3>1
  <2>3. now' = now \/ Tick
    BY DEF Next, vars, Step, Begin, Share, Place, Mount, Create, StartBox, ForgetFailed, Close, Wait,
           OpAnswered, OpDropped, OpGone, OpBroken, ForgetGone, DropVolume, Take, Await, RemoveLabeled,
           ClientGone, Expire, Vanish, VolumeDeleted
  <2> QED
    BY <2>1, <2>2, <2>3
<1>6. volume' \in {"absent", "filled", "blank"}
  <2>1. volume' \in {volume, "absent", "filled", "blank"}
    BY DEF Next, vars, Step, Begin, Share, Place, Mount, Create, StartBox, ForgetFailed, Close, Wait,
           OpAnswered, OpDropped, OpGone, OpBroken, ForgetGone, DropVolume, Take, Await, RemoveLabeled,
           ClientGone, Expire, Vanish, VolumeDeleted, Tick
  <2> QED
    BY <1>2, <2>1
<1>7. spent' \in [vanish : 0..scope.vanish, volume : 0..scope.volume, dropped : 0..scope.dropped]
  <2>1. \/ spent' = spent
        \/ spent' = [spent EXCEPT !.vanish = @ + 1] /\ spent.vanish < scope.vanish
        \/ spent' = [spent EXCEPT !.volume = @ + 1] /\ spent.volume < scope.volume
        \/ spent' = [spent EXCEPT !.dropped = @ + 1] /\ spent.dropped < scope.dropped
    BY DEF Next, vars, Step, Begin, Share, Place, Mount, Create, StartBox, ForgetFailed, Close, Wait,
           OpAnswered, OpDropped, OpGone, OpBroken, ForgetGone, DropVolume, Take, Await, RemoveLabeled,
           ClientGone, Expire, Vanish, VolumeDeleted, Tick
  <2>2. spent.vanish \in Nat /\ spent.volume \in Nat /\ spent.dropped \in Nat
    BY <1>2
  <2> QED
    BY <1>2, <1>4, <2>1, <2>2
<1>8. stray' \subseteq Ids
  BY StrayStep
<1> QED
  BY <1>1, <1>3, <1>5, <1>6, <1>7, <1>8 DEF TypeOK, Filed, BoxState, RequestState, Pcs, Holding, Creating

LEMMA InitIsOK ==
  ASSUME Init
  PROVE  TypeOK /\ PoolInv
<1>1. /\ box \in [Ids -> BoxState]
      /\ \A b \in Ids : /\ box[b].key = "none" /\ box[b].ctr = "none" /\ ~box[b].ready
                        /\ ~box[b].err /\ ~box[b].blank
  <2> DEFINE ends == 0..(MaxTime + BoxLife)
  <2>1. 0 \in ends
    BY Times
  <2>2. BoxState = [key : Keys \cup {"none"}, expires : ends, ready : BOOLEAN,
             err : BOOLEAN, ctr : {"none", "created", "running", "gone", "expired"},
             exitAt : ends, blank : BOOLEAN]
    BY DEF BoxState
  <2> HIDE DEF ends
  <2>3. Unmade \in BoxState
    BY <2>1, <2>2 DEF Unmade
  <2> QED
    BY <2>3 DEF Init, Unmade
<1>2. /\ req \in [Requests -> RequestState]
      /\ \A r \in Requests : /\ req[r].pc \in {"idle", "done"} /\ req[r].seen = {} /\ ~req[r].retried
                             /\ req[r].why = "none" /\ req[r].deadline = 0
                             /\ r \in DOMAIN scope.key => req[r].key \in Keys
                             /\ r \notin DOMAIN scope.key => req[r].pc = "done"
  <2> DEFINE bounds == 0..(MaxTime + WriteTimeout)
             key(r) == IF r \in DOMAIN scope.key THEN scope.key[r] ELSE "none"
             at(r) == IF r \in DOMAIN scope.key THEN "idle" ELSE "done"
             first(r) == [pc |-> at(r), key |-> key(r), box |-> 0, deadline |-> 0, retried |-> FALSE,
                          dropped |-> FALSE, why |-> "none", seen |-> {}]
  <2>1. 0 \in bounds /\ \A r \in Requests : key(r) \in Keys \cup {"none"} /\ at(r) \in Pcs
    BY Times DEF Init, Pcs
  <2>2. RequestState = [pc : Pcs, key : Keys \cup {"none"}, box : Ids \cup {0}, deadline : bounds,
                        retried : BOOLEAN, dropped : BOOLEAN,
                        why : {"none", "blank", "gone", "other"}, seen : SUBSET Ids]
    BY DEF RequestState
  <2>3. req = [r \in Requests |-> first(r)]
    BY DEF Init
  <2> HIDE DEF bounds, key, at
  <2>4. \A r \in Requests : first(r) \in RequestState
    BY <2>1, <2>2
  <2>5. \A r \in Requests : /\ first(r).pc = at(r) /\ first(r).seen = {} /\ ~first(r).retried
                            /\ first(r).why = "none" /\ first(r).deadline = 0 /\ first(r).key = key(r)
    OBVIOUS
  <2> HIDE DEF first
  <2>6. /\ req \in [Requests -> RequestState]
        /\ \A r \in Requests : req[r] = first(r)
    BY <2>3, <2>4
  <2>7. \A r \in Requests : /\ at(r) \in {"idle", "done"}
                            /\ r \in DOMAIN scope.key => key(r) \in Keys
                            /\ r \notin DOMAIN scope.key => at(r) = "done"
    BY Times DEF Init, key, at
  <2> QED
    BY <2>5, <2>6, <2>7
<1>3. boxes \in [Keys -> Ids \cup {0}] /\ \A k \in Keys : boxes[k] = 0
  BY DEF Init
<1>4. now = 0 /\ now \in 0..MaxTime /\ volume \in {"absent", "filled", "blank"} /\ scope \in Scopes
  BY Times DEF Init
<1>5. spent \in [vanish : 0..scope.vanish, volume : 0..scope.volume, dropped : 0..scope.dropped]
  <2>1. scope.vanish \in Nat /\ scope.volume \in Nat /\ scope.dropped \in Nat
    BY <1>4, PoolTimes
  <2>2. 0 \in 0..scope.vanish /\ 0 \in 0..scope.volume /\ 0 \in 0..scope.dropped
    BY <2>1
  <2> QED
    BY <2>2 DEF Init
<1>6. Filed
  BY <1>1, <1>2, <1>3 DEF Filed
<1>7. TypeOK
  BY <1>4, <1>5, <1>6 DEF Init, TypeOK, Filed, BoxState, RequestState, Pcs, Holding, Creating
<1>8. \A r \in Requests : HoldsItsKey(r) /\ CreatesIt(r) /\ Operates(r)
  BY <1>2 DEF HoldsItsKey, CreatesIt, Operates, Holding, Creating
<1>9. \A r \in Requests : InTime(r)
  BY <1>2, <1>4, Times DEF InTime, Creating
<1>10. \A r, q \in Requests : r # q => Apart(r, q)
  BY <1>2 DEF Apart, Creating
<1>11. (\A b \in Ids : BoxOK(b)) /\ FailureNotShared /\ NotStranded
  BY <1>1, <1>3 DEF BoxOK, FailureNotShared, NotStranded
<1> QED
  BY <1>6, <1>7, <1>8, <1>9, <1>10, <1>11 DEF PoolInv

-----------------------------------------------------------------------------
\* The pool, its boxes and the requests that have them are as PoolInv says: no box
\* is shared before its creation has ended well or after it failed (pool.go, get),
\* and no created container is left behind unstarted but by a failed call to the daemon.
THEOREM PoolIsKept == Spec => [](TypeOK /\ PoolInv)
<1>1. Init => TypeOK /\ PoolInv
  BY InitIsOK
<1>2. TypeOK /\ PoolInv /\ [Next]_vars => TypeOK' /\ PoolInv'
  BY PoolStep, TypeStep
<1> QED
  BY <1>1, <1>2, PTL DEF Spec

\* The pool's state stays in its types, and boxes under their keys.
THEOREM TypeCorrect == Spec => []TypeOK
BY PoolIsKept, PTL

\* An operation never races its box's exit (do): a box that ran out of its own life
\* under an operation did so after the operation's bound.
THEOREM NoRaceWithExit == Spec => []NeverOutlivesBox
<1>1. TypeOK /\ PoolInv => NeverOutlivesBox
  <2> SUFFICES ASSUME TypeOK, PoolInv, NEW r \in Requests, req[r].pc = "op",
                      box[req[r].box].ctr = "expired"
               PROVE  now >= req[r].deadline
    BY DEF NeverOutlivesBox
  <2>1. req[r].box \in Ids /\ req[r].deadline <= box[req[r].box].expires /\ BoxOK(req[r].box)
    BY DEF PoolInv, HoldsItsKey, InTime, Holding
  <2>2. now \in Nat /\ req[r].deadline \in Nat /\ box[req[r].box].expires \in Nat
    BY <2>1, Numbers
  <2> QED
    BY <2>1, <2>2 DEF BoxOK
<1> QED
  BY <1>1, PoolIsKept, PTL

\* A failed start is never handed to a later request, and only the
\* daemon strands a created container, whichever clients go away (start).
THEOREM NothingFailedOrStranded == Spec => [](FailureNotShared /\ NotStranded)
<1>1. PoolInv => FailureNotShared /\ NotStranded
  BY DEF PoolInv
<1> QED
  BY <1>1, PoolIsKept, PTL

-----------------------------------------------------------------------------
(* ReleaseInv is kept.                                                      *)

\* What no step undoes: the creation of a box is over, its container is gone.
Later(b) ==
  /\ box'[b].key = box[b].key
  /\ box[b].ctr # "none" \/ box[b].ready => box'[b].ctr # "none" \/ box'[b].ready
  /\ Exists(b)' => Exists(b) \/ (box[b].ctr = "none" /\ ~box[b].ready)

LEMMA LaterHolds ==
  ASSUME TypeOK, PoolInv, [Next]_vars
  PROVE  \A b \in Ids : box[b].key # "none" => Later(b)
<1> SUFFICES ASSUME NEW b \in Ids, box[b].key # "none"
             PROVE  Later(b)
  OBVIOUS
<1>1. box'[b] = box[b] => Later(b)
  BY DEF Later, Exists
<1>2. ASSUME NEW r \in Requests, Mount(r) \/ Create(r) \/ StartBox(r) \/ Close(r)
      PROVE  Later(b)
  <2>1. PICK c \in Ids : c = req[r].box /\ CreatesIt(r) /\ req[r].pc \in Creating
    BY <1>2 DEF PoolInv, HoldsItsKey, Holding, Creating, Mount, Create, StartBox, Close
  <2>2. CASE c # b
    <3>1. \/ box' = box
          \/ \E e \in BoxState : box' = [box EXCEPT ![c] = e]
          \/ \A o \in Ids \ {c} : box'[o] = box[o]
      <4>1. \/ box' = box \/ box' = [box EXCEPT ![c].err = TRUE]
            \/ \E failed \in BOOLEAN :
                 \/ box' = [box EXCEPT ![c].ctr = "created", ![c].blank = (volume # "filled"), ![c].err = failed]
                 \/ box' = [box EXCEPT ![c].ctr = "running", ![c].exitAt = now + BoxLife, ![c].err = failed]
            \/ \E left \in {"gone", box[c].ctr} : box' = [box EXCEPT ![c].ctr = left, ![c].err = TRUE]
            \/ box' = [box EXCEPT ![c].ready = TRUE]
        BY <1>2, <2>1 DEF Mount, Create, StartBox, Close
      <4> QED
        BY <4>1, Types
    <3> QED
      BY <1>1, <2>2, <3>1, Types
  <2>3. CASE c = b
    <3>1. CASE Mount(r)
      <4>1. CASE box' = [box EXCEPT ![b].err = TRUE]
        BY <4>1, Types DEF Later, Exists, BoxState
      <4> QED
        BY <1>1, <2>1, <2>3, <3>1, <4>1 DEF Mount
    <3>2. CASE Create(r)
      <4>1. CASE box' = [box EXCEPT ![b].err = TRUE]
        BY <4>1, Types DEF Later, Exists, BoxState
      <4>2. ASSUME NEW failed \in BOOLEAN,
                   box' = [box EXCEPT ![b].ctr = "created", ![b].blank = (volume # "filled"), ![b].err = failed]
            PROVE  Later(b)
        BY <2>1, <2>3, <3>2, <4>2, CreatedDoes DEF Later, Create, CreatesIt, SameLife
      <4> QED
        BY <2>1, <2>3, <3>2, <4>1, <4>2 DEF Create
    <3>3. CASE StartBox(r)
      <4>1. box[b].ctr \in {"created", "gone"}
        BY <2>1, <2>3, <3>3 DEF CreatesIt, StartBox
      <4>2. ASSUME box[b].ctr = "created", NEW failed \in BOOLEAN,
                   box' = [box EXCEPT ![b].ctr = "running", ![b].exitAt = now + BoxLife, ![b].err = failed]
            PROVE  Later(b)
        BY <4>2, Types DEF Later, Exists, BoxState
      <4>3. CASE \E left \in {"gone", box[b].ctr} : box' = [box EXCEPT ![b].ctr = left, ![b].err = TRUE]
        <5>1. PICK left \in {"gone", box[b].ctr} : box' = [box EXCEPT ![b].ctr = left, ![b].err = TRUE]
          BY <4>3
        <5> QED
          BY <4>1, <5>1, Types DEF Later, Exists, BoxState
      <4> QED
        BY <2>1, <2>3, <3>3, <4>2, <4>3 DEF StartBox
    <3>4. CASE Close(r)
      <4>1. box' = [box EXCEPT ![b].ready = TRUE]
        BY <2>1, <2>3, <3>4 DEF Close
      <4> QED
        BY <4>1, Types DEF Later, Exists, BoxState
    <3> QED
      BY <1>2, <3>1, <3>2, <3>3, <3>4
  <2> QED
    BY <2>2, <2>3
<1>3. ASSUME NEW r \in Requests, Place(r), UNCHANGED scope
      PROVE  Later(b)
  <2>1. req[r].key \in Keys
    BY <1>3 DEF PoolInv, HoldsItsKey, Place
  <2>2. PICK c \in Ids : Placed(r, c)
    BY <1>3, <2>1, PlaceDoes
  <2>3. c # b
    BY <2>2 DEF Placed
  <2> QED
    BY <1>1, <2>2, <2>3 DEF Placed, OnlyBox
<1>4. \A c \in Ids, how \in {"gone", "expired"} :
        box' = [box EXCEPT ![c] = Gone(c, how)] /\ box[c].ctr # "none" => Later(b)
  <2> SUFFICES ASSUME NEW c \in Ids, NEW how \in {"gone", "expired"}, box' = [box EXCEPT ![c] = Gone(c, how)],
                      box[c].ctr # "none"
               PROVE  Later(b)
    OBVIOUS
  <2>1. CASE c = b
    BY <2>1, GoneDoes DEF Later, Exists, SameLife
  <2>2. CASE c # b
    BY <1>1, <2>2, Types
  <2> QED
    BY <2>1, <2>2
<1>5. ASSUME NEW r \in Requests, Await(r)
      PROVE  Later(b)
  <2>1. PICK c \in Ids : c = req[r].box /\ BoxOK(c)
    BY <1>5 DEF PoolInv, HoldsItsKey, Holding, Await
  <2>2. \/ box' = box
        \/ box[c].ctr # "none" /\ box' = [box EXCEPT ![c] = Gone(c, "gone")]
    BY <1>5, <2>1 DEF Await, BoxOK
  <2> QED
    BY <1>1, <1>4, <2>2
<1>6. ASSUME NEW r \in Requests, RemoveLabeled(r)
      PROVE  Later(b)
  <2>1. box' = box \/ GoneFrom({o \in Ids : box[o].key = req[r].key /\ Exists(o)}, "gone")
    BY <1>6, RemoveLabeledDoes DEF RemoveLabeled
  <2> QED
    BY <1>1, <2>1 DEF GoneFrom, Later, Exists, SameLife
<1>7. ASSUME NEW c \in Ids, Expire(c) \/ Vanish(c)
      PROVE  Later(b)
  BY <1>4, <1>7 DEF Expire, Vanish
<1>8. \/ \E r \in Requests : Mount(r) \/ Create(r) \/ StartBox(r) \/ Close(r)
      \/ \E r \in Requests : Place(r) /\ UNCHANGED scope
      \/ \E r \in Requests : Await(r) \/ RemoveLabeled(r)
      \/ \E c \in Ids : Expire(c) \/ Vanish(c)
      \/ box' = box
  BY DEF Next, vars, Step, Begin, Share, ForgetFailed, Wait, OpAnswered, OpDropped, OpGone, OpBroken,
         ForgetGone, DropVolume, Take, ClientGone, VolumeDeleted, Tick
<1> QED
  BY <1>1, <1>2, <1>3, <1>5, <1>6, <1>7, <1>8

-----------------------------------------------------------------------------
LEMMA SeenKept ==
  ASSUME TypeOK, ReleaseInv, NEW q \in Requests, req'[q].key = req[q].key,
         req'[q].pc = req[q].pc, req'[q].seen = req[q].seen, req'[q].box = req[q].box,
         \A b \in Ids : box[b].key # "none" => Later(b)
  PROVE  IF q \in Releases THEN Releasing(q)' ELSE req'[q].seen = {}
<1>1. CASE q \notin Releases
  BY <1>1 DEF ReleaseInv
<1>2. CASE q \in Releases
  <2>1. Releasing(q) /\ req[q].seen \subseteq Ids
    BY <1>2, Types DEF ReleaseInv, RequestState
  <2>2. \A b \in req[q].seen : Later(b)
    BY <2>1 DEF Releasing
  <2> QED
    BY <1>2, <2>1, <2>2 DEF Releasing, Later
<1> QED
  BY <1>1, <1>2

LEMMA ReleaseStep ==
  ASSUME TypeOK, PoolInv, ReleaseInv, [Next]_vars
  PROVE  ReleaseInv'
<1> USE LaterHolds
<1>1. ASSUME NEW r \in Requests, OnlyRequest(r),
             IF r \in Releases THEN Releasing(r)' ELSE req'[r].seen = {}
      PROVE  ReleaseInv'
  <2>1. \A q \in Requests \ {r} : IF q \in Releases THEN Releasing(q)' ELSE req'[q].seen = {}
    BY <1>1, SeenKept DEF OnlyRequest
  <2> QED
    BY <1>1, <2>1 DEF ReleaseInv
<1>2. ASSUME UNCHANGED req
      PROVE  ReleaseInv'
  BY <1>2, SeenKept DEF ReleaseInv
<1>3. ASSUME NEW r \in Requests, r \notin Releases, OnlyRequest(r), req'[r].seen \in {req[r].seen, {}}
      PROVE  ReleaseInv'
  BY <1>1, <1>3 DEF ReleaseInv
<1>4. ASSUME NEW r \in Requests, r \in Releases, OnlyRequest(r), req'[r].pc \in {"take", "failed"},
             req'[r].seen = {}
      PROVE  ReleaseInv'
  BY <1>1, <1>4 DEF Releasing
<1>5. ASSUME NEW r \in Requests, NEW pc \in {"done", "failed"},
             NEW why \in {"none", "blank", "gone", "other"}, End(r, pc, why),
             pc = "failed" \/ r \notin Releases
      PROVE  ReleaseInv'
  <2>1. OnlyRequest(r) /\ req'[r].pc = pc /\ req'[r].seen = IF pc = "done" THEN req[r].seen ELSE {}
    BY <1>5, EndDoes
  <2> QED
    BY <1>3, <1>4, <1>5, <2>1
<1>6. ASSUME NEW r \in Requests, Step(r), r \notin Releases
      PROVE  ReleaseInv'
  <2>1. CASE Begin(r) \/ ForgetGone(r) \/ DropVolume(r)
    <3>1. OnlyRequest(r) /\ req'[r].seen = req[r].seen
      BY <2>1, BeginDoes, RetryDoes, Numbers DEF Begin, ForgetGone, DropVolume
    <3> QED
      BY <1>3, <1>6, <3>1
  <2>2. CASE Take(r)
    <3>1. req[r].key \in Keys
      BY <2>2 DEF PoolInv, HoldsItsKey, Take
    <3> QED
      BY <1>3, <1>6, <2>2, <3>1, TakeDoes
  <2>3. CASE Share(r)
    <3>1. PICK b \in Ids : req' = [req EXCEPT ![r].pc = "wait", ![r].box = b]
      BY <2>3, Types DEF Share, Reusable, PoolInv, HoldsItsKey
    <3>2. "wait" \in Pcs
      BY DEF Pcs, Holding
    <3> QED
      BY <1>3, <1>6, <3>1, <3>2, GivenDoes
  <2>4. CASE Place(r)
    <3>1. req[r].key \in Keys
      BY <2>4 DEF PoolInv, HoldsItsKey, Place
    <3> QED
      BY <1>3, <1>6, <2>4, <3>1, PlaceDoes DEF Placed
  <2>5. CASE \E pc \in Pcs : Goto(r, pc)
    BY <1>3, <1>6, <2>5, GotoDoes DEF Steady
  <2>6. CASE \E pc \in {"done", "failed"}, why \in {"none", "blank", "gone", "other"} : End(r, pc, why)
    BY <1>5, <1>6, <2>6
  <2>7. CASE \/ Mount(r) \/ Create(r) \/ StartBox(r) \/ ForgetFailed(r) \/ Close(r) \/ Wait(r)
             \/ OpAnswered(r) \/ OpDropped(r) \/ OpGone(r) \/ OpBroken(r) \/ Await(r) \/ RemoveLabeled(r)
    <3>1. \/ \E pc \in {"create", "forget", "start", "close", "wait", "op", "again", "take", "list", "volume"} : Goto(r, pc)
          \/ \E pc \in {"done", "failed"}, why \in {"none", "blank", "gone", "other"} : End(r, pc, why)
      BY <2>7 DEF Mount, Create, StartBox, ForgetFailed, Close, Wait, OpAnswered, OpDropped, OpGone,
                  OpBroken, Await, RemoveLabeled, Done, Fail, Removed
    <3>2. {"create", "forget", "start", "close", "wait", "op", "again", "take", "list", "volume"} \subseteq Pcs
      BY DEF Pcs, Holding, Creating
    <3> QED
      BY <2>5, <2>6, <3>1, <3>2
  <2> QED
    BY <1>6, <2>1, <2>2, <2>3, <2>4, <2>7 DEF Step
<1>7. ASSUME NEW r \in Requests, Step(r), r \in Releases
      PROVE  ReleaseInv'
  <2>1. /\ Releasing(r) /\ req[r].pc \in {"idle", "take", "await", "list"} /\ HoldsItsKey(r)
        /\ req[r].key \in Keys
    BY <1>7 DEF ReleaseInv, Releasing, PoolInv, HoldsItsKey, Step, Begin, Share, Place, Mount, Create,
                StartBox, ForgetFailed, Close, Wait, OpAnswered, OpDropped, OpGone, OpBroken, ForgetGone,
                DropVolume, Take, Await, RemoveLabeled
  <2>2. Begin(r) \/ Take(r) \/ Await(r) \/ RemoveLabeled(r)
    BY <1>7, <2>1 DEF Step, Share, Place, Mount, Create, StartBox, ForgetFailed, Close, Wait,
                OpAnswered, OpDropped, OpGone, OpBroken, ForgetGone, DropVolume
  <2>3. CASE Begin(r)
    <3>1. OnlyRequest(r) /\ req'[r].seen = req[r].seen /\ req'[r].pc = "take"
      BY <1>7, <2>3, BeginDoes, Numbers
    <3> QED
      BY <1>4, <1>7, <2>1, <2>3, <3>1 DEF Releasing, Begin
  <2>4. CASE Take(r)
    <3> DEFINE k == req[r].key
    <3>1. /\ OnlyRequest(r) /\ req'[r].key = k /\ req'[r].seen = Helpers(k) /\ box' = box
          /\ req'[r].pc = (IF boxes[k] # 0 THEN "await" ELSE "list")
          /\ boxes[k] # 0 => req'[r].box = boxes[k]
      BY <1>7, <2>1, <2>4, TakeDoes
    <3>2. \A b \in Helpers(k) : /\ b \in Ids /\ box[b].key = k /\ box[b].key # "none"
                                /\ Exists(b) \/ boxes[k] = b
      BY DEF Helpers, Used
    <3>3. \A b \in Helpers(k) : box[b].ctr # "none" \/ (boxes[k] # 0 /\ boxes[k] = b)
      BY <3>2, Times DEF Exists
    <3> HIDE DEF k
    <3>4. Releasing(r)'
      BY <3>1, <3>2, <3>3 DEF Releasing
    <3> QED
      BY <1>1, <1>7, <3>1, <3>4
  <2>5. CASE Await(r)
    <3>1. PICK b \in Ids : b = req[r].box
      BY <2>5 DEF PoolInv, HoldsItsKey, Holding, Await
    <3>2. CASE Fail(r, "other")
      BY <1>5, <3>2 DEF Fail
    <3>3. CASE box[b].ready /\ Goto(r, "list")
      <4>1. OnlyRequest(r) /\ Steady(r) /\ req'[r].pc = "list"
        BY <3>3, GotoDoes DEF Pcs
      <4>2. req[r].seen \subseteq Ids
        BY Types DEF RequestState
      <4>3. \A o \in req[r].seen : /\ Later(o) /\ box[o].key = req[r].key /\ box[o].key # "none"
                                   /\ box[o].ctr # "none" \/ box[o].ready
        BY <2>1, <3>1, <3>3, <4>2 DEF Releasing
      <4>4. Releasing(r)'
        BY <4>1, <4>3 DEF Releasing, Later, Steady, Same
      <4> QED
        BY <1>1, <1>7, <4>1, <4>4
    <3> QED
      BY <1>7, <2>5, <3>1, <3>2, <3>3 DEF Await, Removed
  <2>6. CASE RemoveLabeled(r)
    <3>1. CASE Fail(r, "other")
      BY <1>5, <3>1 DEF Fail
    <3>2. CASE /\ box' = [b \in Ids |-> IF box[b].key = req[r].key /\ Exists(b)
                                        THEN Gone(b, "gone") ELSE box[b]]
               /\ Done(r)
      <4>1. OnlyRequest(r) /\ req'[r].pc = "done" /\ req'[r].seen = req[r].seen /\ req'[r].key = req[r].key
        BY <3>2, EndDoes DEF Done
      <4>2. req[r].seen \subseteq Ids
        BY Types DEF RequestState
      <4>3. \A o \in req[r].seen : /\ Later(o) /\ box[o].key = req[r].key /\ box[o].key # "none"
                                   /\ box[o].ctr # "none" \/ box[o].ready
        BY <2>1, <2>6, <4>2 DEF Releasing, RemoveLabeled
      <4>4. \A o \in req[r].seen : ~Exists(o)'
        <5> SUFFICES ASSUME NEW o \in req[r].seen
                     PROVE  box'[o].ctr \notin {"created", "running"}
          BY DEF Exists
        <5>1. o \in Ids /\ box[o].key = req[r].key
          BY <4>2, <4>3
        <5>2. GoneFrom({b \in Ids : box[b].key = req[r].key /\ Exists(b)}, "gone")
          BY <3>2, RemoveLabeledDoes
        <5> QED
          BY <5>1, <5>2 DEF GoneFrom, Exists
      <4>5. Releasing(r)'
        BY <4>1, <4>3, <4>4 DEF Releasing, Later
      <4> QED
        BY <1>1, <1>7, <4>1, <4>5
    <3> QED
      BY <2>6, <3>1, <3>2 DEF RemoveLabeled
  <2> QED
    BY <2>2, <2>3, <2>4, <2>5, <2>6
<1>8. ASSUME NEW r \in Requests, ClientGone(r)
      PROVE  ReleaseInv'
  <2>1. OnlyRequest(r) /\ Steady(r) /\ req'[r].pc = req[r].pc
    BY <1>8, ClientGoneDoes
  <2>2. IF r \in Releases THEN Releasing(r)' ELSE req'[r].seen = {}
    BY <2>1, SeenKept DEF Steady, Same
  <2> QED
    BY <1>1, <2>1, <2>2
<1> QED
  BY <1>2, <1>6, <1>7, <1>8 DEF Next, vars, Expire, Vanish, VolumeDeleted, Tick

\* A release that reports success has removed every helper its target had when it took
\* the key (fsbrowse.ContainerLabel), the one still being created included.
THEOREM ReleasesAll == Spec => []ReleasedAll
<1>1. Init => ReleaseInv
  <2> SUFFICES ASSUME Init
               PROVE  ReleaseInv
    OBVIOUS
  <2>1. \A r \in Requests : req[r].seen = {} /\ req[r].pc \in {"idle", "done"}
    BY DEF Init
  <2> QED
    BY <2>1 DEF ReleaseInv, Releasing
<1>2. TypeOK /\ PoolInv /\ ReleaseInv /\ [Next]_vars => ReleaseInv'
  BY ReleaseStep
<1>3. ReleaseInv => ReleasedAll
  BY PoolTimes DEF ReleaseInv, Releasing, ReleasedAll
<1> QED
  BY <1>1, <1>2, <1>3, PoolIsKept, PTL DEF Spec

-----------------------------------------------------------------------------
(* RetryInv is kept.                                                        *)

Calmly ==
  /\ NoneBlank /\ LostOnce
  /\ \A r \in Requests : /\ RetriedElsewhere(r) /\ req[r].why # "gone"
                         /\ req[r].pc = "again" => req[r].box \in Lost

\* A step is one request's, which keeps its key and never goes back to where it began.
LEMMA StepMoves ==
  ASSUME TypeOK, PoolInv, NEW r \in Requests, Step(r)
  PROVE  OnlyRequest(r) /\ req'[r].key = req[r].key /\ req'[r].pc # "idle"
<1>1. CASE Begin(r) \/ ForgetGone(r) \/ DropVolume(r)
  BY <1>1, BeginDoes, RetryDoes, Numbers DEF Begin, ForgetGone, DropVolume, Same
<1>2. CASE Take(r) \/ Place(r)
  <2>1. req[r].key \in Keys
    BY <1>2 DEF PoolInv, HoldsItsKey, Take, Place
  <2> QED
    BY <1>2, <2>1, TakeDoes, PlaceDoes DEF Placed
<1>3. CASE Share(r)
  <2>1. PICK b \in Ids : req' = [req EXCEPT ![r].pc = "wait", ![r].box = b]
    BY <1>3, Types DEF Share, Reusable, PoolInv, HoldsItsKey
  <2>2. "wait" \in Pcs
    BY DEF Pcs, Holding
  <2> QED
    BY <2>1, <2>2, GivenDoes
<1>4. CASE \/ Mount(r) \/ Create(r) \/ StartBox(r) \/ ForgetFailed(r) \/ Close(r) \/ Wait(r)
           \/ OpAnswered(r) \/ OpDropped(r) \/ OpGone(r) \/ OpBroken(r) \/ Await(r) \/ RemoveLabeled(r)
  <2>1. \/ \E pc \in {"create", "forget", "start", "close", "wait", "op", "again", "take", "list", "volume"} : Goto(r, pc)
        \/ \E pc \in {"done", "failed"}, why \in {"none", "blank", "gone", "other"} : End(r, pc, why)
    BY <1>4 DEF Mount, Create, StartBox, ForgetFailed, Close, Wait, OpAnswered, OpDropped, OpGone,
                OpBroken, Await, RemoveLabeled, Done, Fail, Removed
  <2>2. {"create", "forget", "start", "close", "wait", "op", "again", "take", "list", "volume"} \subseteq Pcs
    BY DEF Pcs, Holding, Creating
  <2>3. ASSUME NEW pc \in {"create", "forget", "start", "close", "wait", "op", "again", "take", "list", "volume"}, Goto(r, pc)
        PROVE  OnlyRequest(r) /\ req'[r].key = req[r].key /\ req'[r].pc # "idle"
    BY <2>2, <2>3, GotoDoes DEF Steady, Same
  <2> QED
    BY <2>1, <2>3, EndDoes
<1> QED
  BY <1>1, <1>2, <1>3, <1>4 DEF Step

\* What is quiet now has always been.
LEMMA QuietBefore ==
  ASSUME TypeOK, PoolInv, [Next]_vars, Quiet'
  PROVE  Quiet /\ spent'.volume = spent.volume /\ (spent'.vanish = spent.vanish \/ spent.vanish = 0)
<1>1. spent.vanish \in Nat /\ spent.volume \in Nat /\ spent.dropped \in Nat
  <2>1. scope \in Scopes
        /\ spent \in [vanish : 0..scope.vanish, volume : 0..scope.volume, dropped : 0..scope.dropped]
    BY DEF TypeOK
  <2> QED
    BY <2>1
<1>2. \/ spent' = spent
      \/ spent' = [spent EXCEPT !.vanish = @ + 1]
      \/ spent' = [spent EXCEPT !.volume = @ + 1]
      \/ spent' = [spent EXCEPT !.dropped = @ + 1]
  BY DEF Next, vars, Step, Begin, Share, Place, Mount, Create, StartBox, ForgetFailed, Close, Wait,
         OpAnswered, OpDropped, OpGone, OpBroken, ForgetGone, DropVolume, Take, Await, RemoveLabeled,
         ClientGone, Expire, Vanish, VolumeDeleted, Tick
<1>3. /\ spent'.vanish = spent.vanish \/ spent'.vanish = spent.vanish + 1
      /\ spent'.volume = spent.volume \/ spent'.volume = spent.volume + 1
  <2>1. spent \in [vanish : 0..scope.vanish, volume : 0..scope.volume, dropped : 0..scope.dropped]
    BY DEF TypeOK
  <2> QED
    BY <1>2, <2>1
<1>4. spent.vanish <= 1 /\ spent.volume = 0 /\ spent'.volume = spent.volume
      /\ (spent'.vanish = spent.vanish \/ spent.vanish = 0)
  BY <1>1, <1>3 DEF Quiet
<1>5. \A r \in Requests : req'[r].pc = "idle" => req[r].pc = "idle"
  <2> SUFFICES ASSUME NEW r \in Requests, req[r].pc # "idle"
               PROVE  req'[r].pc # "idle"
    OBVIOUS
  <2>1. \/ req' = req \/ \E q \in Requests : Step(q) \/ ClientGone(q)
    BY DEF Next, vars, Expire, Vanish, VolumeDeleted, Tick
  <2> QED
    BY <2>1, StepMoves, ClientGoneDoes DEF OnlyRequest
<1>6. scope' = scope
  BY DEF Next, vars
<1> QED
  BY <1>4, <1>5, <1>6, PoolTimes DEF Quiet

\* A lost box is a used one, and so of a key.
LEMMA LostIsUsed ==
  ASSUME TypeOK, PoolInv
  PROVE  \A b \in Lost : b \in Ids /\ box[b].key \in Keys
BY Types DEF PoolInv, BoxOK, Lost, BoxState

\* While nothing more is lost, requests that do not start over stay away from what was.
LEMMA CalmMoves ==
  ASSUME TypeOK, PoolInv, Calmly, NoneBlank', Lost' = Lost, spent'.vanish = spent.vanish,
         \A b \in Lost : box'[b].key = box[b].key,
         \A k \in Keys : boxes'[k] \in Lost => boxes'[k] = boxes[k],
         \A q \in Requests :
           \/ req'[q] = req[q]
           \/ /\ req'[q].key = req[q].key /\ req'[q].retried = req[q].retried
              /\ req'[q].pc \in Holding => \/ req[q].pc \in Holding /\ req'[q].box = req[q].box
                                           \/ req'[q].box \notin Lost
                                           \/ req'[q].box = boxes[req[q].key]
              /\ req'[q].why # "gone" /\ (req'[q].pc = "again" => req'[q].box \in Lost)
  PROVE  Calmly'
<1>1. LostOnce'
  BY DEF Calmly, LostOnce
<1>2. \A q \in Requests : req'[q].why # "gone" /\ (req'[q].pc = "again" => req'[q].box \in Lost)
  BY DEF Calmly
<1>3. ASSUME NEW q \in Requests, req'[q].retried
      PROVE  RetriedElsewhere(q)'
  <2>1. req[q].retried /\ req'[q].key = req[q].key
    BY <1>3
  <2>2. PICK b \in Lost : /\ box[b].key = req[q].key /\ boxes[req[q].key] # b
                          /\ req[q].pc \in Holding => req[q].box # b
    BY <2>1 DEF Calmly, RetriedElsewhere
  <2>3. req[q].key \in Keys /\ box'[b].key = req'[q].key
    BY <2>1, <2>2, LostIsUsed
  <2>4. boxes'[req'[q].key] # b
    BY <2>1, <2>2, <2>3
  <2>5. req'[q].pc \in Holding => req'[q].box # b
    BY <2>2
  <2> QED
    BY <2>2, <2>3, <2>4, <2>5 DEF RetriedElsewhere
<1> QED
  BY <1>1, <1>2, <1>3 DEF Calmly, RetriedElsewhere

\* Steps of one request that leave the boxes alone.
LEMMA CalmGoto ==
  ASSUME TypeOK, PoolInv, Calmly, NEW r \in Requests, OnlyRequest(r), UNCHANGED <<box, spent>>,
         volume' # "blank", volume = "filled" => volume' = "filled",
         \A k \in Keys : boxes'[k] \in {boxes[k], 0},
         req'[r].key = req[r].key, req'[r].retried = req[r].retried, req'[r].why # "gone",
         \/ req'[r].pc \in {"get", "create", "close", "wait", "op", "again", "done", "failed"}
         \/ req'[r].pc = req[r].pc /\ req'[r].box = req[r].box,
         req'[r].pc = "create" => volume' = "filled",
         req'[r].pc = "again" => req'[r].box \in Lost,
         req'[r].pc \in Holding => \/ req[r].pc \in Holding /\ req'[r].box = req[r].box
                                   \/ req'[r].box = boxes[req[r].key]
  PROVE  Calmly'
<1>1. NoneBlank'
  <2>1. \A q \in Requests \ {r} : /\ req'[q].pc = "create" => volume' = "filled"
                                  /\ req'[q].pc = "start" => box'[req'[q].box].ctr = "created"
                                  /\ req'[q].pc \notin {"take", "await", "volume", "list"}
    BY DEF Calmly, NoneBlank, OnlyRequest
  <2>2. /\ req'[r].pc = "create" => volume' = "filled"
        /\ req'[r].pc = "start" => box'[req'[r].box].ctr = "created"
        /\ req'[r].pc \notin {"take", "await", "volume", "list"}
    BY DEF Calmly, NoneBlank
  <2> QED
    BY <2>1, <2>2 DEF Calmly, NoneBlank
<1>2. Lost' = Lost
  BY DEF Lost
<1>3. \A k \in Keys : boxes'[k] \in Lost => boxes'[k] = boxes[k]
  BY Times DEF Lost
<1> QED
  BY <1>1, <1>2, <1>3, CalmMoves DEF OnlyRequest

\* A step of a creation: it is of a box that was not lost and is not.
LEMMA CalmMake ==
  ASSUME TypeOK, PoolInv, Calmly, NEW r \in Requests, NEW b \in Ids, b = req[r].box,
         OnlyRequest(r), Same(r), req'[r].retried = req[r].retried, req'[r].why = req[r].why,
         OnlyBox(b), box'[b].key = box[b].key, UNCHANGED <<boxes, spent>>,
         req[r].pc \in {"mount", "create", "start"}, volume' = "filled" \/ volume' = volume,
         req'[r].pc \in {"forget", "start", "close"},
         req'[r].pc = "start" => box'[b].ctr = "created",
         ~box'[b].blank, box'[b].err \/ box'[b].ctr # "gone"
  PROVE  Calmly'
<1>1. /\ b \notin Lost
      /\ b \notin {o \in Ids : box'[o].ctr = "gone" /\ ~box'[o].err}
  BY DEF PoolInv, CreatesIt, Lost, Calmly, NoneBlank
<1>2. Lost' = Lost
  BY <1>1 DEF OnlyBox, Lost
<1>3. NoneBlank'
  <2>1. \A q \in Requests \ {r} : req[q].pc = "start" => req[q].box \in Ids /\ req[q].box # b
    BY DEF PoolInv, Apart, HoldsItsKey, Holding, Creating
  <2>2. \A q \in Requests \ {r} : /\ req'[q].pc = "create" => volume' = "filled"
                                  /\ req'[q].pc = "start" => box'[req'[q].box].ctr = "created"
                                  /\ req'[q].pc \notin {"take", "await", "volume", "list"}
    BY <2>1 DEF Calmly, NoneBlank, OnlyRequest, OnlyBox
  <2>3. /\ req'[r].pc = "create" => volume' = "filled"
        /\ req'[r].pc = "start" => box'[req'[r].box].ctr = "created"
        /\ req'[r].pc \notin {"take", "await", "volume", "list"}
    BY DEF Same
  <2>4. volume' # "blank" /\ \A c \in Ids : ~box'[c].blank
    BY DEF Calmly, NoneBlank, OnlyBox
  <2> QED
    BY <2>2, <2>3, <2>4 DEF NoneBlank
<1>4. \A c \in Lost : box'[c].key = box[c].key
  BY <1>1 DEF OnlyBox, Lost
<1>5. req[r].pc \in Holding /\ req[r].why # "gone" /\ req'[r].pc # "again"
  BY DEF Holding, Creating, Calmly
<1> QED
  BY <1>2, <1>3, <1>4, <1>5, CalmMoves DEF OnlyRequest, Same

LEMMA CalmCreation ==
  ASSUME TypeOK, PoolInv, Calmly, NEW r \in Requests, Mount(r) \/ Create(r) \/ StartBox(r)
  PROVE  Calmly'
<1>1. PICK b \in Ids : /\ b = req[r].box /\ CreatesIt(r) /\ req[r].pc \in {"mount", "create", "start"}
                       /\ UNCHANGED <<boxes, spent, now>> /\ ~box[b].blank /\ volume # "blank"
                       /\ req[r].pc = "create" => volume = "filled"
                       /\ req[r].pc = "start" => box[b].ctr = "created"
                       /\ req[r].pc \in {"mount", "create"} => box[b].ctr = "none"
  BY DEF PoolInv, HoldsItsKey, CreatesIt, Holding, Creating, Mount, Create, StartBox, Calmly, NoneBlank
<1> "create" \in Pcs /\ "forget" \in Pcs /\ "start" \in Pcs /\ "close" \in Pcs
  BY DEF Pcs, Holding, Creating
<1>2. CASE /\ req[r].pc = "mount" /\ Goto(r, "create") /\ UNCHANGED box
           /\ volume' = (IF volume = "absent" THEN "filled" ELSE volume)
  <2>1. OnlyRequest(r) /\ Steady(r) /\ req'[r].pc = "create"
    BY <1>2, GotoDoes
  <2>2. volume' = "filled"
    BY <1>1, <1>2 DEF TypeOK
  <2>3. req[r].pc \in Holding /\ req[r].why # "gone"
    BY <1>2 DEF Holding, Creating, Calmly
  <2> QED
    BY <1>1, <1>2, <2>1, <2>2, <2>3, CalmGoto DEF Steady, Same
<1>3. CASE /\ Goto(r, "forget") /\ UNCHANGED volume
           /\ \/ box' = [box EXCEPT ![b].err = TRUE]
              \/ \E left \in {"gone", box[b].ctr} : box' = [box EXCEPT ![b].ctr = left, ![b].err = TRUE]
  <2>1. OnlyRequest(r) /\ Steady(r) /\ req'[r].pc = "forget"
    BY <1>3, GotoDoes
  <2>2. /\ OnlyBox(b) /\ SameLife(b) /\ box'[b].err /\ box'[b].blank = box[b].blank
    BY <1>3, ErrDoes
  <2> QED
    BY <1>1, <1>3, <2>1, <2>2, CalmMake DEF Steady, SameLife
<1>4. ASSUME req[r].pc = "create", NEW failed \in BOOLEAN, Goto(r, IF failed THEN "forget" ELSE "start"),
             volume' = (IF volume = "absent" THEN "blank" ELSE volume),
             box' = [box EXCEPT ![b].ctr = "created", ![b].blank = (volume # "filled"), ![b].err = failed]
      PROVE  Calmly'
  <2>1. OnlyRequest(r) /\ Steady(r) /\ req'[r].pc \in {"forget", "start"}
    BY <1>4, GotoDoes
  <2>2. /\ OnlyBox(b) /\ SameLife(b) /\ box'[b].ctr = "created" /\ ~box'[b].blank
    BY <1>1, <1>4, CreatedDoes
  <2> QED
    BY <1>1, <1>4, <2>1, <2>2, CalmMake DEF Steady, SameLife
<1>5. ASSUME NEW failed \in BOOLEAN, Goto(r, IF failed THEN "forget" ELSE "close"), UNCHANGED volume,
             req[r].pc = "start",
             box' = [box EXCEPT ![b].ctr = "running", ![b].exitAt = now + BoxLife, ![b].err = failed]
      PROVE  Calmly'
  <2>1. OnlyRequest(r) /\ Steady(r) /\ req'[r].pc \in {"close", "forget"}
    BY <1>5, GotoDoes
  <2>2. now + BoxLife \in 0..(MaxTime + BoxLife)
    <3>1. now \in Nat /\ now <= MaxTime
      BY Numbers
    <3>2. BoxLife \in Nat /\ MaxTime \in Nat
      BY Times
    <3> QED
      BY <3>1, <3>2
  <2>3. /\ OnlyBox(b) /\ SameLife(b) /\ box'[b].ctr = "running" /\ box'[b].blank = box[b].blank
    BY <1>5, <2>2, RunningDoes
  <2> QED
    BY <1>1, <1>5, <2>1, <2>3, CalmMake DEF Steady, SameLife
<1>6. CASE Mount(r)
  BY <1>1, <1>2, <1>3, <1>6 DEF Mount
<1>7. CASE Create(r)
  BY <1>1, <1>3, <1>4, <1>7 DEF Create
<1>8. CASE StartBox(r)
  BY <1>1, <1>3, <1>5, <1>8 DEF StartBox
<1> QED
  BY <1>6, <1>7, <1>8

LEMMA CalmPlace ==
  ASSUME TypeOK, PoolInv, Calmly, NEW r \in Requests, Place(r)
  PROVE  Calmly'
<1>1. req[r].key \in Keys /\ req[r].pc = "get" /\ UNCHANGED <<volume, spent>>
  BY DEF PoolInv, HoldsItsKey, Place
<1>2. PICK b \in Ids : Placed(r, b)
  BY <1>1, PlaceDoes
<1>3. b \notin Lost
  BY <1>2, LostIsUsed, Times DEF Placed
<1>4. Lost' = Lost
  BY <1>2, <1>3 DEF Placed, OnlyBox, Lost
<1>5. NoneBlank'
  <2>1. \A q \in Requests \ {r} : req[q].pc = "start" => req[q].box \in Ids /\ req[q].box # b
    BY <1>2, Times DEF PoolInv, HoldsItsKey, Holding, Creating, Placed
  <2> QED
    BY <1>1, <1>2, <2>1 DEF Calmly, NoneBlank, Placed, OnlyRequest, OnlyBox
<1>6. /\ \A c \in Lost : box'[c].key = box[c].key
      /\ \A k \in Keys : boxes'[k] \in Lost => boxes'[k] = boxes[k]
      /\ req'[r].box \notin Lost /\ req'[r].why # "gone" /\ req'[r].pc # "again"
  BY <1>2, <1>3, LostIsUsed, Times DEF Placed, OnlyBox, Calmly
<1>7. /\ req'[r].key = req[r].key /\ req'[r].retried = req[r].retried
      /\ \A q \in Requests \ {r} : req'[q] = req[q]
  BY <1>2 DEF Placed, OnlyRequest
<1> QED
  BY <1>1, <1>4, <1>5, <1>6, <1>7, CalmMoves

\* The lost box is let go of: this is the request that retries.
LEMMA CalmForgetGone ==
  ASSUME TypeOK, PoolInv, Calmly, NEW r \in Requests, ForgetGone(r)
  PROVE  Calmly'
<1>1. /\ req[r].pc = "again" /\ req[r].box \in Lost /\ box' = box /\ volume' = volume /\ spent' = spent
      /\ req[r].key \in Keys /\ box[req[r].box].key = req[r].key
      /\ boxes' = Forgotten(req[r].key, req[r].box)
  BY DEF ForgetGone, Calmly, PoolInv, HoldsItsKey, Holding
<1>2. OnlyRequest(r) /\ Same(r) /\ req'[r].pc = "get" /\ req'[r].retried /\ req'[r].why = req[r].why
  BY RetryDoes DEF ForgetGone
<1>3. \A k \in Keys : boxes'[k] \in {boxes[k], 0} /\ boxes'[req[r].key] # req[r].box
  BY <1>1, LostIsUsed, Types, Times DEF Forgotten
<1>4. Lost' = Lost
  BY <1>1 DEF Lost
<1>5. RetriedElsewhere(r)'
  BY <1>1, <1>2, <1>3, <1>4 DEF RetriedElsewhere, Same, Holding, Creating
<1>6. \A q \in Requests \ {r} : RetriedElsewhere(q)'
  <2> SUFFICES ASSUME NEW q \in Requests \ {r}, req[q].retried
               PROVE  RetriedElsewhere(q)'
    BY <1>2 DEF OnlyRequest, RetriedElsewhere
  <2>1. PICK b \in Lost : /\ box[b].key = req[q].key /\ boxes[req[q].key] # b
                          /\ req[q].pc \in Holding => req[q].box # b
    BY DEF Calmly, RetriedElsewhere
  <2>2. boxes'[req[q].key] # b /\ req'[q] = req[q]
    BY <1>2, <1>3, <2>1, LostIsUsed, Times DEF OnlyRequest
  <2> QED
    BY <1>1, <1>4, <2>1, <2>2 DEF RetriedElsewhere
<1>7. NoneBlank'
  BY <1>1, <1>2 DEF Calmly, NoneBlank, OnlyRequest
<1>8. LostOnce'
  BY <1>1, <1>4 DEF Calmly, LostOnce
<1>9. \A q \in Requests : req'[q].why # "gone" /\ (req'[q].pc = "again" => req'[q].box \in Lost)
  BY <1>2 DEF Calmly, OnlyRequest
<1> QED
  BY <1>4, <1>5, <1>6, <1>7, <1>8, <1>9 DEF Calmly

\* The first box to vanish.
LEMMA CalmVanish ==
  ASSUME TypeOK, PoolInv, Calmly, NEW b \in Ids, Vanish(b), spent.vanish = 0, Quiet'
  PROVE  Calmly'
<1>1. /\ box' = [box EXCEPT ![b] = Gone(b, "gone")] /\ box[b].ctr = "running"
      /\ UNCHANGED <<now, boxes, volume, req>>
  BY DEF Vanish
<1>2. OnlyBox(b) /\ SameLife(b) /\ box'[b].blank = box[b].blank
  BY <1>1, GoneDoes
<1>3. Lost = {} /\ Lost' \subseteq {b}
  BY <1>2 DEF Calmly, LostOnce, Lost, OnlyBox
<1>4. spent'.vanish # 0
  <2>1. scope \in Scopes /\ spent' = [spent EXCEPT !.vanish = @ + 1]
        /\ spent \in [vanish : 0..scope.vanish, volume : 0..scope.volume, dropped : 0..scope.dropped]
    BY DEF TypeOK, Vanish
  <2>2. spent'.vanish = spent.vanish + 1
    BY <2>1
  <2> QED
    BY <2>2
<1>5. NoneBlank'
  <2>1. \A q \in Requests : req[q].pc = "start" => box[req[q].box].ctr = "created" /\ req[q].box \in Ids
    BY DEF Calmly, NoneBlank, PoolInv, HoldsItsKey, Holding, Creating
  <2> QED
    BY <1>1, <1>2, <2>1 DEF Calmly, NoneBlank, OnlyBox
<1>6. \A q \in Requests : ~req[q].retried /\ req[q].pc # "again"
  BY <1>3 DEF Calmly, RetriedElsewhere
<1> QED
  BY <1>1, <1>3, <1>4, <1>5, <1>6 DEF Calmly, LostOnce, RetriedElsewhere

LEMMA CalmOperate ==
  ASSUME TypeOK, PoolInv, Calmly, NEW r \in Requests,
         Wait(r) \/ OpAnswered(r) \/ OpDropped(r) \/ OpGone(r)
  PROVE  Calmly'
<1>1. /\ UNCHANGED <<now, boxes, box, volume, spent>> /\ req[r].pc \in {"wait", "op"}
      /\ req[r].pc \in Holding /\ volume # "blank" /\ req[r].why # "gone"
  BY DEF Wait, OpAnswered, OpDropped, OpGone, Holding, Calmly, NoneBlank
<1>2. ASSUME NEW pc \in {"done", "failed"}, NEW why \in {"none", "blank", "other"}, End(r, pc, why)
      PROVE  Calmly'
  <2>1. /\ OnlyRequest(r) /\ req'[r].pc = pc /\ req'[r].key = req[r].key
        /\ req'[r].retried = req[r].retried /\ req'[r].why = why
    BY <1>2, EndDoes
  <2>2. pc \notin Holding
    BY DEF Holding, Creating
  <2> QED
    BY <1>1, <2>1, <2>2, CalmGoto
<1>3. ASSUME NEW pc \in {"op", "again"}, Goto(r, pc), pc = "again" => req[r].box \in Lost
      PROVE  Calmly'
  <2>1. OnlyRequest(r) /\ Steady(r) /\ req'[r].pc = pc
    BY <1>3, GotoDoes DEF Pcs, Holding
  <2> QED
    BY <1>1, <1>3, <2>1, CalmGoto DEF Steady, Same
<1>4. CASE Wait(r) \/ OpAnswered(r) \/ OpDropped(r)
  BY <1>2, <1>3, <1>4 DEF Wait, OpAnswered, OpDropped, Done, Fail
<1>5. CASE OpGone(r)
  <2>1. PICK b \in Ids : /\ b = req[r].box /\ box[b].ready /\ ~box[b].err /\ BoxOK(b)
                         /\ req[r].pc = "op" /\ req[r].deadline <= box[b].expires
                         /\ ~CtxDone(r) /\ box[b].ctr # "running"
    BY <1>5 DEF OpGone, PoolInv, HoldsItsKey, Operates, InTime, Holding
  <2>2. /\ now < req[r].deadline /\ now \in Nat /\ req[r].deadline \in Nat /\ box[b].expires \in Nat
        /\ box[b].ctr \in {"none", "created", "running", "gone", "expired"}
    BY <2>1, Numbers, Types DEF CtxDone, BoxState
  <2>3. b \in Lost
    BY <2>1, <2>2 DEF BoxOK, Lost
  <2>4. ~req[r].retried
    BY <1>1, <2>1, <2>3 DEF Calmly, RetriedElsewhere, LostOnce
  <2>5. Goto(r, "again")
    BY <1>5, <2>4 DEF OpGone
  <2> QED
    BY <1>3, <2>1, <2>3, <2>5
<1> QED
  BY <1>4, <1>5

LEMMA RetryStep ==
  ASSUME TypeOK, PoolInv, RetryInv, [Next]_vars
  PROVE  RetryInv'
<1> SUFFICES ASSUME Quiet'
             PROVE  Calmly'
  BY DEF RetryInv, Calmly
<1>1. Quiet /\ Calmly /\ spent'.volume = 0 /\ spent.volume = 0
      /\ (spent'.vanish = spent.vanish \/ spent.vanish = 0)
  BY QuietBefore DEF RetryInv, Calmly, Quiet
<1>2. volume # "blank" /\ \A r \in Requests : req[r].pc \notin {"take", "await", "volume", "list"}
  BY <1>1 DEF Calmly, NoneBlank
<1>3. ASSUME NEW r \in Requests, Step(r)
      PROVE  Calmly'
  <2>1. r \notin Releases
    <3> SUFFICES ASSUME r \in Releases
                 PROVE  FALSE
      OBVIOUS
    <3>1. req[r].pc # "done"
      BY <1>3 DEF Step, Begin, Share, Place, Mount, Create, StartBox, ForgetFailed, Close, Wait,
         OpAnswered, OpDropped, OpGone, OpBroken, ForgetGone, DropVolume, Take, Await, RemoveLabeled
    <3>2. r \in DOMAIN scope.key /\ scope' = scope
      BY <3>1 DEF PoolInv, HoldsItsKey, Next, vars
    <3>3. req'[r].pc = "idle"
      BY <3>2 DEF Quiet
    <3> QED
      BY <1>3, <3>3, StepMoves
  <2>2. CASE Mount(r) \/ Create(r) \/ StartBox(r)
    BY <1>1, <2>2, CalmCreation
  <2>3. CASE Wait(r) \/ OpAnswered(r) \/ OpDropped(r) \/ OpGone(r)
    BY <1>1, <2>3, CalmOperate
  <2>4. CASE Begin(r)
    <3>1. /\ OnlyRequest(r) /\ Same(r) /\ req'[r].retried = req[r].retried
          /\ req'[r].why = req[r].why /\ req'[r].pc = "get"
      BY <2>1, <2>4, BeginDoes, Numbers
    <3>2. UNCHANGED <<boxes, box, volume, spent>> /\ "get" \notin Holding /\ req[r].why # "gone"
      BY <1>1, <2>4 DEF Begin, Holding, Creating, Calmly
    <3> QED
      BY <1>1, <1>2, <3>1, <3>2, CalmGoto DEF Same
  <2>5. CASE Share(r)
    <3>1. PICK b \in Ids : /\ b = boxes[req[r].key] /\ req' = [req EXCEPT ![r].pc = "wait", ![r].box = b]
                           /\ UNCHANGED <<boxes, box, volume, spent>>
      BY <2>5, Types DEF Share, Reusable, PoolInv, HoldsItsKey
    <3>2. "wait" \in Pcs
      BY DEF Pcs, Holding
    <3>3. /\ OnlyRequest(r) /\ req'[r].pc = "wait" /\ req'[r].box = b /\ req'[r].key = req[r].key
          /\ req'[r].retried = req[r].retried /\ req'[r].why = req[r].why
      BY <3>1, <3>2, GivenDoes
    <3>4. req[r].why # "gone"
      BY <1>1 DEF Calmly
    <3> QED
      BY <1>1, <1>2, <3>1, <3>3, <3>4, CalmGoto
  <2>6. CASE Place(r) \/ ForgetGone(r)
    BY <1>1, <2>6, CalmPlace, CalmForgetGone
  <2>7. CASE ForgetFailed(r)
    <3>1. OnlyRequest(r) /\ Steady(r) /\ req'[r].pc = "close"
      BY <2>7, GotoDoes DEF ForgetFailed, Pcs, Holding, Creating
    <3>2. /\ UNCHANGED <<box, volume, spent>> /\ req[r].pc \in Holding /\ req[r].why # "gone"
          /\ boxes' = Forgotten(req[r].key, req[r].box)
      BY <1>1, <2>7 DEF ForgetFailed, Holding, Creating, Calmly
    <3>3. \A k \in Keys : boxes'[k] \in {boxes[k], 0}
      BY <3>2, Types DEF Forgotten
    <3> QED
      BY <1>1, <1>2, <3>1, <3>2, <3>3, CalmGoto DEF Steady, Same
  <2>8. CASE Close(r)
    <3>1. PICK b \in Ids : /\ b = req[r].box /\ req[r].pc = "close"
                           /\ box' = [box EXCEPT ![b].ready = TRUE] /\ UNCHANGED <<boxes, volume, spent>>
      BY <2>8 DEF Close, PoolInv, HoldsItsKey, Holding, Creating
    <3>2. OnlyRequest(r) /\ Steady(r) /\ req'[r].pc = "wait"
      BY <2>8, GotoDoes DEF Close, Pcs, Holding
    <3>3. /\ OnlyBox(b) /\ SameLife(b) /\ box'[b].err = box[b].err
          /\ box'[b].ctr = box[b].ctr /\ box'[b].blank = box[b].blank
      BY <3>1, ReadyDoes
    <3>4. Lost' = Lost /\ \A c \in Lost : box'[c].key = box[c].key
      BY <3>3 DEF OnlyBox, Lost, SameLife
    <3>5. NoneBlank'
      <4>1. \A c \in Ids : box'[c].ctr = box[c].ctr /\ box'[c].blank = box[c].blank
        BY <3>3 DEF OnlyBox
      <4>2. \A q \in Requests : req[q].pc = "start" => req[q].box \in Ids
        BY DEF PoolInv, HoldsItsKey, Holding, Creating
      <4> QED
        BY <1>1, <3>1, <3>2, <4>1, <4>2 DEF Calmly, NoneBlank, OnlyRequest
    <3>6. req[r].pc \in Holding /\ req[r].why # "gone"
      BY <1>1, <3>1 DEF Holding, Creating, Calmly
    <3> QED
      BY <1>1, <3>1, <3>2, <3>4, <3>5, <3>6, CalmMoves DEF OnlyRequest, Steady, Same
  <2>9. ~OpBroken(r) /\ ~DropVolume(r) /\ ~Take(r) /\ ~Await(r) /\ ~RemoveLabeled(r)
    BY <1>1, <1>2 DEF OpBroken, DropVolume, Take, Await, RemoveLabeled, Calmly, NoneBlank, PoolInv,
                      HoldsItsKey, Holding
  <2> QED
    BY <1>3, <2>2, <2>3, <2>4, <2>5, <2>6, <2>7, <2>8, <2>9 DEF Step
<1>4. ASSUME NEW r \in Requests, ClientGone(r)
      PROVE  Calmly'
  <2>1. OnlyRequest(r) /\ Steady(r) /\ req'[r].pc = req[r].pc
    BY <1>4, ClientGoneDoes
  <2>2. UNCHANGED <<boxes, box, volume>> /\ spent' = [spent EXCEPT !.dropped = @ + 1]
    BY <1>4 DEF ClientGone
  <2>3. spent'.vanish = spent.vanish
    BY <2>2 DEF TypeOK
  <2>4. Lost' = Lost /\ NoneBlank'
    BY <1>1, <2>1, <2>2 DEF Lost, Calmly, NoneBlank, OnlyRequest, Steady, Same
  <2>5. req'[r].why # "gone" /\ (req'[r].pc = "again" => req'[r].box \in Lost)
    BY <1>1, <2>1 DEF Calmly, Steady, Same
  <2> QED
    BY <1>1, <2>1, <2>2, <2>3, <2>4, <2>5, CalmMoves DEF OnlyRequest, Steady, Same
<1>5. ASSUME NEW b \in Ids, Expire(b)
      PROVE  Calmly'
  <2>1. /\ box' = [box EXCEPT ![b] = Gone(b, "expired")] /\ box[b].ctr = "running"
        /\ UNCHANGED <<now, boxes, volume, req, spent>>
    BY <1>5 DEF Expire
  <2>2. OnlyBox(b) /\ SameLife(b) /\ box'[b].blank = box[b].blank /\ box'[b].ctr = "expired"
    BY <2>1, GoneDoes
  <2>3. Lost' = Lost /\ \A c \in Lost : box'[c].key = box[c].key
    BY <2>1, <2>2 DEF OnlyBox, Lost, SameLife
  <2>4. NoneBlank'
    <3>1. \A q \in Requests : req[q].pc = "start" => box[req[q].box].ctr = "created" /\ req[q].box \in Ids
      BY <1>1 DEF Calmly, NoneBlank, PoolInv, HoldsItsKey, Holding, Creating
    <3> QED
      BY <1>1, <2>1, <2>2, <3>1 DEF Calmly, NoneBlank, OnlyBox
  <2> QED
    BY <1>1, <2>1, <2>3, <2>4, CalmMoves
<1>6. ASSUME NEW b \in Ids, Vanish(b)
      PROVE  Calmly'
  <2>1. spent.vanish = 0
    <3>1. scope \in Scopes /\ spent' = [spent EXCEPT !.vanish = @ + 1]
          /\ spent \in [vanish : 0..scope.vanish, volume : 0..scope.volume, dropped : 0..scope.dropped]
      BY <1>6 DEF TypeOK, Vanish
    <3>2. spent'.vanish = spent.vanish + 1 /\ spent.vanish \in Nat
      BY <3>1
    <3> QED
      BY <1>1, <3>2
  <2> QED
    BY <1>1, <1>6, <2>1, CalmVanish
<1>7. ~VolumeDeleted
  <2> SUFFICES ASSUME VolumeDeleted
               PROVE  FALSE
    OBVIOUS
  <2>1. scope \in Scopes /\ spent' = [spent EXCEPT !.volume = @ + 1]
        /\ spent \in [vanish : 0..scope.vanish, volume : 0..scope.volume, dropped : 0..scope.dropped]
    BY DEF TypeOK, VolumeDeleted
  <2>2. spent'.volume = spent.volume + 1
    BY <2>1
  <2> QED
    BY <1>1, <2>2
<1>8. CASE Tick \/ UNCHANGED vars
  <2>1. UNCHANGED <<boxes, box, volume, req, spent>>
    BY <1>8 DEF Tick, vars
  <2>2. Lost' = Lost /\ NoneBlank'
    BY <1>1, <2>1 DEF Lost, Calmly, NoneBlank
  <2> QED
    BY <1>1, <2>1, <2>2, CalmMoves
<1> QED
  BY <1>3, <1>4, <1>5, <1>6, <1>7, <1>8 DEF Next

\* The one retry covers a box that vanished (Ls): while one at most was removed by
\* somebody else, nothing is released and no busybox volume is lost, no request is
\* answered that its box is gone.
THEOREM OneRetryIsEnough == Spec => []RetryCoversVanished
<1>1. Init => RetryInv
  <2> SUFFICES ASSUME Init
               PROVE  Calmly
    BY DEF RetryInv, Calmly
  <2>1. /\ \A b \in Ids : box[b] = Unmade
        /\ \A r \in Requests : /\ req[r].pc \in {"idle", "done"} /\ ~req[r].retried /\ req[r].why = "none"
        /\ volume # "blank"
    BY DEF Init
  <2>2. Lost = {} /\ \A b \in Ids : ~box[b].blank
    BY <2>1 DEF Lost, Unmade
  <2> QED
    BY <2>1, <2>2 DEF Calmly, NoneBlank, LostOnce, RetriedElsewhere
<1>2. TypeOK /\ PoolInv /\ RetryInv /\ [Next]_vars => RetryInv'
  BY RetryStep
<1>3. TypeOK /\ RetryInv => RetryCoversVanished
  <2> SUFFICES ASSUME TypeOK, RetryInv, NEW r \in Requests, req[r].why = "gone",
                      ~(spent.vanish > 1), ~(spent.volume > 0),
                      \A q \in Releases \cap DOMAIN scope.key : req[q].pc = "idle"
               PROVE  FALSE
    BY DEF RetryCoversVanished
  <2>1. spent.vanish \in Nat /\ spent.volume \in Nat
    <3>1. scope \in Scopes
          /\ spent \in [vanish : 0..scope.vanish, volume : 0..scope.volume, dropped : 0..scope.dropped]
      BY DEF TypeOK
    <3> QED
      BY <3>1
  <2>2. Quiet
    BY <2>1 DEF Quiet
  <2> QED
    BY <2>2 DEF RetryInv
<1> QED
  BY <1>1, <1>2, <1>3, PoolIsKept, PTL DEF Spec

\* The pool is sound, as BrowsePool's runs check on a small instance.
THEOREM PoolSound == Spec => []Sound
<1>1. TypeOK /\ NeverOutlivesBox /\ (FailureNotShared /\ NotStranded) /\ RetryCoversVanished => Sound
  BY DEF Sound
<1> QED
  BY <1>1, PoolIsKept, NoRaceWithExit, NothingFailedOrStranded, OneRetryIsEnough, PTL

-----------------------------------------------------------------------------
(***************************************************************************)
(* Theorems about FilesPage, the pages that browse what a pool serves and  *)
(* the editors beside them, for any instances, directories and files.      *)
(*                                                                         *)
(* FilesInv is the inductive invariant.  Beside the types it says of a     *)
(* listing that is ready where it was read from; of an editor, that its    *)
(* text is from the file it takes it to be; of a question and a form, that *)
(* they name a file; and of an operation in the queue, that a save knows   *)
(* which file was loaded and, on an editor page, that this is its target.  *)
(***************************************************************************)

PageOK == page \in [kind : Kinds, operator : BOOLEAN] /\ saving \in BOOLEAN /\ events \in 0..MaxEvents

Browsing ==
  /\ inst \in Insts /\ path \in Dirs \cup Files
  /\ listing \in [state : {"listing", "parent", "ready", "failed"}, rows : Spot \cup {None}]
  /\ late \subseteq [path : Files, parent : BOOLEAN]
  /\ listing.state = "ready" => listing.rows = At(inst, path)

Asking ==
  /\ confirm \in Questions \cup {NoQuestion} /\ perms \in Joined \cup {None}
  /\ confirm # NoQuestion => confirm.about.path \in Files
  /\ perms # None => perms.path \in Files

Texts == [src : Target \cup {None}, loaded : Target \cup {None}, loading : BOOLEAN,
          failed : BOOLEAN, cut : BOOLEAN, dirty : BOOLEAN]

Editing ==
  /\ sel \in [Insts -> Files \cup {<<>>, Unset}]
  /\ text \in Texts /\ reads \subseteq [of : Target, current : BOOLEAN]
  /\ page.kind # "source" => text.src = text.loaded

\* The operations that can be in the queue.
Pending ==
  {o \in Operation : o.do = "save" => /\ o.asked \in Target
                                      /\ page.kind # "source" => o.src = o.on}
Queued == queue \in Seq(Pending)

Transferring ==
  /\ download \in [active : BOOLEAN, done : BOOLEAN, failed : BOOLEAN, whole : BOOLEAN]
  /\ streams \subseteq [step : {"pick", "fetch", "read", "close"}, aborted : BOOLEAN]
  /\ DownloadIsReal

FilesInv == PageOK /\ Browsing /\ Asking /\ Editing /\ Queued /\ Transferring
-----------------------------------------------------------------------------
(* Paths.                                                                  *)

\* A file is its directory's path with its own name appended.
LEMMA FilePath ==
  ASSUME NEW f \in Files
  PROVE  /\ f \in Seq(STRING) /\ Front(f) \in Dirs /\ f # <<>>
         /\ f = Append(Front(f), Last(f))
<1>1. f \in Seq(STRING) /\ Front(f) \in Dirs /\ f # <<>>
  BY FilesPageAssumption
<1>2. Len(f) \in Nat /\ Len(f) # 0
  BY <1>1, EmptySeq, LenProperties
<1>3. SubSeq(f, 1, Len(f)) = f
  BY <1>1, SubSeqFull
<1>4. 1 \in 1..Len(f) /\ Len(f) \in 1..Len(f)
  BY <1>2
<1>5. SubSeq(f, 1, Len(f)) = Front(f) \o << Last(f) >>
  BY <1>1, <1>4, SubSeqRecursiveSecond DEF Front, Last
<1>6. Front(f) \in Seq(STRING) /\ Last(f) \in STRING
  BY <1>1, <1>4, ElementOfSeq, FilesPageAssumption DEF Last
<1>7. Append(Front(f), Last(f)) = Front(f) \o << Last(f) >>
  BY <1>6, AppendIsConcat
<1> QED
  BY <1>1, <1>3, <1>5, <1>7

\* So a file of an instance is a place an operation can be on.
LEMMA FilesJoin ==
  /\ Target \subseteq Joined
  /\ \A i \in Insts, f \in Files, p \in Dirs \cup Files : At(i, Append(p, Last(f))) \in Joined
  /\ \A i \in Insts, f \in Files : At(i, f) \in Target
  /\ \A t \in Target : t.id \in Insts /\ t.path \in Files
<1>1. ASSUME NEW i \in Insts, NEW f \in Files
      PROVE  f \in {Append(p, Last(g)) : p \in Dirs \cup Files, g \in Files}
  <2>1. f = Append(Front(f), Last(f)) /\ Front(f) \in Dirs \cup Files
    BY FilePath
  <2> QED
    BY <2>1
<1>2. \A i \in Insts, f \in Files : At(i, f) \in Target
  BY DEF Target, At
<1>3. \A t \in Target : t.id \in Insts /\ t.path \in Files
  BY DEF Target
<1>4. \A i \in Insts, f \in Files, p \in Dirs \cup Files : At(i, Append(p, Last(f))) \in Joined
  BY DEF Joined, At
<1>5. Target \subseteq Joined
  <2> SUFFICES ASSUME NEW t \in Target PROVE t \in Joined
    OBVIOUS
  <2>1. t.id \in Insts /\ t.path \in Files /\ t = [id |-> t.id, path |-> t.path]
    BY DEF Target
  <2>2. t.path \in {Append(p, Last(g)) : p \in Dirs \cup Files, g \in Files}
    BY <1>1, <2>1
  <2> QED
    BY <2>1, <2>2 DEF Joined
<1> QED
  BY <1>2, <1>3, <1>4, <1>5

\* A row's name joined to the path of the browser is the row's own file.
LEMMA RowPath ==
  ASSUME Browsing, NEW f \in Rows
  PROVE  /\ f \in Files /\ Join(f) = f /\ path = Front(f)
         /\ listing.state = "ready" /\ listing.rows = At(inst, path)
<1>1. listing.state = "ready" /\ listing.rows = At(inst, path)
  BY DEF Rows, Browsing
<1>2. f \in Files /\ Front(f) = path
  BY <1>1 DEF Rows, At
<1> QED
  BY <1>1, <1>2, FilePath DEF Join
-----------------------------------------------------------------------------
(* The parts of the invariant, and the steps that leave them alone.        *)

LEMMA PageKeeps ==
  ASSUME PageOK, page' = page, saving' \in BOOLEAN, User \/ UNCHANGED events
  PROVE  PageOK'
<1>1. CASE User
  BY <1>1, FilesPageAssumption DEF PageOK, User
<1>2. CASE UNCHANGED events
  BY <1>2 DEF PageOK
<1> QED
  BY <1>1, <1>2

LEMMA SavingKeeps ==
  ASSUME PageOK, UNCHANGED <<page, saving>>, User \/ UNCHANGED events
  PROVE  PageOK'
<1>1. page' = page /\ saving' \in BOOLEAN
  BY DEF PageOK
<1> QED
  BY <1>1, PageKeeps

LEMMA BrowsingKeeps == ASSUME Browsing, UNCHANGED browser PROVE Browsing'
<1> QED
  BY DEF Browsing, browser

LEMMA AskingKeeps == ASSUME Asking, UNCHANGED dialogs PROVE Asking'
<1> QED
  BY DEF Asking, dialogs

LEMMA EditingKeeps == ASSUME Editing, UNCHANGED <<page, editor>> PROVE Editing'
<1> QED
  BY DEF Editing, editor

LEMMA QueuedKeeps == ASSUME Queued, UNCHANGED <<page, queue>> PROVE Queued'
<1> QED
  BY DEF Queued, Pending

LEMMA TransferKeeps == ASSUME Transferring, UNCHANGED transfer PROVE Transferring'
<1> QED
  BY DEF Transferring, DownloadIsReal, transfer
-----------------------------------------------------------------------------
(* The listing.                                                            *)

\* A request under way for the path of a file can be overtaken.
LEMMA OvertakenType == Overtaken \subseteq [path : Files, parent : BOOLEAN]
<1> DEFINE above == listing.state = "parent"
<1>1. above \in BOOLEAN
  OBVIOUS
<1>2. Overtaken \subseteq {[path |-> path, parent |-> above]} /\ (Overtaken # {} => path \in Files)
  BY DEF Overtaken
<1> HIDE DEF above
<1>3. path \in Files => [path |-> path, parent |-> above] \in [path : Files, parent : BOOLEAN]
  BY <1>1
<1> QED
  BY <1>2, <1>3

\* A new request, of the same place or of another.
LEMMA LoadKeeps ==
  ASSUME Browsing, inst' \in Insts, path' \in Dirs \cup Files,
         listing' = [listing EXCEPT !.state = "listing"],
         late' \subseteq [path : Files, parent : BOOLEAN]
  PROVE  Browsing'
<1>1. listing' \in [state : {"listing", "parent", "ready", "failed"}, rows : Spot \cup {None}]
  BY DEF Browsing
<1>2. listing'.state = "listing"
  BY DEF Browsing
<1> QED
  BY <1>1, <1>2 DEF Browsing

LEMMA LoadAgain ==
  ASSUME Browsing, Load, UNCHANGED <<inst, path>>
  PROVE  Browsing'
<1>1. late' \subseteq [path : Files, parent : BOOLEAN]
  BY OvertakenType DEF Load, Browsing
<1> QED
  BY <1>1, LoadKeeps DEF Load, Browsing

LEMMA NavKeeps ==
  ASSUME Browsing, NEW p \in Dirs \cup Files, Nav(p)
  PROVE  Browsing'
<1>1. CASE p = path
  BY <1>1, BrowsingKeeps DEF Nav, browser
<1>2. CASE p # path
  <2>1. late' \subseteq [path : Files, parent : BOOLEAN]
    BY <1>2, OvertakenType DEF Nav, Load, Browsing
  <2> QED
    BY <1>2, <2>1, LoadKeeps DEF Nav, Load, Browsing
<1> QED
  BY <1>1, <1>2
-----------------------------------------------------------------------------
(* The editor.                                                             *)

\* What is shown is a file of the instance.
LEMMA ShownIsTarget ==
  ASSUME Editing, inst \in Insts
  PROVE  /\ Shown = None \/ IsOpen(sel[Slot(inst)])
         /\ IsOpen(sel[Slot(inst)]) => Shown \in Target
<1>1. Home \in Insts
  BY FilesPageAssumption DEF Home
<1>2. Slot(inst) \in Insts
  BY <1>1 DEF Slot
<1>3. sel[Slot(inst)] \in Files \cup {<<>>, Unset}
  BY <1>2 DEF Editing
<1>4. IsOpen(sel[Slot(inst)]) => sel[Slot(inst)] \in Files
  BY <1>3 DEF IsOpen
<1> QED
  BY <1>4, FilesJoin DEF Shown

\* The text is dropped and, for a file, a request is made.
LEMMA BeginTextKeeps ==
  ASSUME Editing, UNCHANGED page, sel' \in [Insts -> Files \cup {<<>>, Unset}],
         NEW f \in Target \cup {None}, BeginText(f)
  PROVE  Editing'
<1> DEFINE loading == f # None
           src == IF page.kind = "source" THEN text.src ELSE None
<1>1. loading \in BOOLEAN /\ src \in Target \cup {None}
  BY DEF Editing, Texts
<1>2. text' = [src |-> src, loaded |-> None, loading |-> loading, failed |-> FALSE, cut |-> FALSE,
               dirty |-> FALSE]
  BY DEF BeginText, NoText
<1>3. page.kind # "source" => src = None
  OBVIOUS
<1> HIDE DEF loading, src
<1>4. text' \in Texts /\ (page.kind # "source" => text'.src = text'.loaded)
  BY <1>1, <1>2, <1>3 DEF Texts
<1>5. reads' \subseteq [of : Target, current : BOOLEAN]
  <2>1. \A r \in reads : [r EXCEPT !.current = FALSE] \in [of : Target, current : BOOLEAN]
    BY DEF Editing
  <2>2. f # None => [of |-> f, current |-> TRUE] \in [of : Target, current : BOOLEAN]
    OBVIOUS
  <2> QED
    BY <2>1, <2>2 DEF BeginText
<1> QED
  BY <1>4, <1>5 DEF Editing

\* Another file is selected, or none.
LEMMA ChooseKeeps ==
  ASSUME Editing, UNCHANGED page, inst \in Insts, NEW f \in Files \cup {<<>>}, NEW opening \in BOOLEAN,
         Choose(f, opening)
  PROVE  Editing'
<1>1. sel' \in [Insts -> Files \cup {<<>>, Unset}]
  BY DEF Choose, Editing
<1>2. CASE UNCHANGED <<text, reads>>
  BY <1>1, <1>2 DEF Editing
<1>3. CASE BeginText(IF f = <<>> THEN None ELSE At(inst, f))
  <2>1. (IF f = <<>> THEN None ELSE At(inst, f)) \in Target \cup {None}
    BY FilesJoin
  <2> QED
    BY <1>1, <1>3, <2>1, BeginTextKeeps
<1> QED
  BY <1>2, <1>3 DEF Choose
-----------------------------------------------------------------------------
(* The queue.                                                              *)

\* An operation other than a save: its target is anywhere a name can be joined to.
LEMMA EnqueueKeeps ==
  ASSUME Queued, UNCHANGED page, NEW do \in {"delete", "rename", "chmod", "create"},
         NEW on \in Joined, NEW asked \in Joined, NEW to \in Files,
         Enqueue(do, on, asked, to, None)
  PROVE  Queued'
<1> DEFINE o == [do |-> do, on |-> on, asked |-> asked, to |-> to, src |-> None]
<1>1. o \in Operation /\ o.do # "save"
  BY DEF Operation
<1>2. o \in Pending
  BY <1>1 DEF Pending
<1>3. Append(queue, o) \in Seq(Pending)
  BY <1>2, AppendProperties DEF Queued
<1> QED
  BY <1>3 DEF Queued, Enqueue, Pending

\* Operations leave the queue one at a time.
LEMMA RemoveKeeps ==
  ASSUME Queued, UNCHANGED page, NEW k \in DOMAIN queue, queue' = RemoveAt(queue, k)
  PROVE  Queued' /\ queue[k] \in Pending
<1>1. Len(queue) \in Nat /\ DOMAIN queue = 1..Len(queue) /\ \A j \in 1..Len(queue) : queue[j] \in Pending
  BY LenProperties, ElementOfSeq DEF Queued
<1>2. k \in 1..Len(queue) /\ k - 1 \in Int /\ k + 1 \in Int
  BY <1>1
<1>3. (\A j \in 1..(k - 1) : queue[j] \in Pending) /\ \A j \in (k + 1)..Len(queue) : queue[j] \in Pending
  BY <1>1, <1>2
<1>4. SubSeq(queue, 1, k - 1) \in Seq(Pending)
  BY <1>2, <1>3, SubSeqProperties
<1>5. SubSeq(queue, k + 1, Len(queue)) \in Seq(Pending)
  BY <1>1, <1>2, <1>3, SubSeqProperties
<1>6. queue' \in Seq(Pending)
  BY <1>4, <1>5, ConcatProperties DEF RemoveAt
<1> QED
  BY <1>1, <1>2, <1>6 DEF Queued, Pending
-----------------------------------------------------------------------------
(* The initial states, and the steps of the listing.                       *)

LEMMA InitHolds == FilesInit => FilesInv
<1> SUFFICES ASSUME FilesInit PROVE FilesInv
  OBVIOUS
<1>1. PageOK
  <2>1. events \in 0..MaxEvents
    BY FilesPageAssumption DEF FilesInit
  <2>2. saving \in BOOLEAN
    BY DEF FilesInit
  <2>3. page \in [kind : Kinds, operator : BOOLEAN]
    BY Zenon DEF FilesInit
  <2> QED
    BY <2>1, <2>2, <2>3, Zenon DEF PageOK
<1>2. Browsing
  <2>1. Home \in Insts
    BY FilesPageAssumption DEF Home
  <2>2. listing \in [state : {"listing", "parent", "ready", "failed"}, rows : Spot \cup {None}]
    BY DEF FilesInit
  <2>3. <<>> \in Dirs \cup Files
    BY FilesPageAssumption
  <2>4. late = {} /\ listing.state # "ready" /\ inst = Home /\ path = <<>>
    BY DEF FilesInit
  <2> QED
    BY <2>1, <2>2, <2>3, <2>4 DEF Browsing
<1>3. Asking
  BY DEF FilesInit, Asking
<1>4. Editing
  BY DEF FilesInit, Editing, Texts, NoText
<1>5. Queued
  BY EmptySeq DEF FilesInit, Queued
<1>6. Transferring
  BY DEF FilesInit, Transferring, DownloadIsReal, Idle
<1> QED
  BY <1>1, <1>2, <1>3, <1>4, <1>5, <1>6 DEF FilesInv

\* The user goes elsewhere, or asks for the same place again.
LEMMA NavigateKeeps ==
  ASSUME FilesInv, \/ \E p \in Dirs \cup Files : Navigate(p)
                   \/ Toggle
  PROVE  FilesInv'
<1>1. Browsing'
  <2>1. CASE \E p \in Dirs \cup Files : Navigate(p)
    BY <2>1, NavKeeps DEF Navigate, FilesInv
  <2>2. CASE Toggle
    BY <2>2, LoadAgain DEF Toggle, FilesInv
  <2> QED
    BY <2>1, <2>2
<1>2. User /\ UNCHANGED <<page, dialogs, queue, editor, saving, transfer>>
  BY DEF Navigate, Toggle
<1> QED
  BY <1>1, <1>2, SavingKeeps, AskingKeeps, EditingKeeps, QueuedKeeps, TransferKeeps DEF FilesInv

\* The steps of a listing request leave everything but the browser alone.
LEMMA BrowsingOnly ==
  ASSUME FilesInv, Browsing',
         UNCHANGED <<page, dialogs, queue, editor, saving, transfer, events>>
  PROVE  FilesInv'
<1> QED
  BY SavingKeeps, AskingKeeps, EditingKeeps, QueuedKeeps, TransferKeeps DEF FilesInv

LEMMA AnswersKeep == ASSUME FilesInv, Answers PROVE FilesInv'
<1> USE DEF FilesInv
<1>1. UNCHANGED <<page, dialogs, queue, editor, saving, transfer, events>>
  BY DEF Answers, ListAnswers, ListFails, ParentAnswers, ParentFails
<1>2. inst' = inst /\ late' = late
  BY DEF Answers, ListAnswers, ListFails, ParentAnswers, ParentFails
<1>3. CASE ListAnswers
  <2>1. At(inst, path) \in Spot
    BY DEF At, Spot, Browsing
  <2>2. listing' = [state |-> "ready", rows |-> At(inst, path)] /\ path' = path
    BY <1>3 DEF ListAnswers
  <2>3. listing' \in [state : {"listing", "parent", "ready", "failed"}, rows : Spot \cup {None}]
    BY <2>1, <2>2
  <2>4. listing'.rows = At(inst', path')
    BY <1>2, <2>2 DEF At
  <2> QED
    BY <1>1, <1>2, <2>2, <2>3, <2>4, BrowsingOnly DEF Browsing
<1>4. CASE ListFails \/ ParentFails
  <2>1. PICK s \in {"failed", "parent"} : listing' = [listing EXCEPT !.state = s]
    BY <1>4 DEF ListFails, ParentFails
  <2>2. path' = path
    BY <1>4 DEF ListFails, ParentFails
  <2>3. Browsing'
    BY <1>2, <2>1, <2>2 DEF Browsing
  <2> QED
    BY <1>1, <2>3, BrowsingOnly
<1>5. CASE ParentAnswers
  <2>1. path' \in Dirs
    BY <1>5, FilePath DEF ParentAnswers
  <2>2. Browsing'
    BY <1>2, <1>5, <2>1, LoadKeeps DEF ParentAnswers, Browsing
  <2> QED
    BY <1>1, <2>2, BrowsingOnly
<1> QED
  BY <1>3, <1>4, <1>5 DEF Answers

LEMMA LateKeeps == ASSUME FilesInv, NEW r \in late, LateAnswers(r) PROVE FilesInv'
<1> USE DEF FilesInv
<1>1. UNCHANGED <<page, dialogs, queue, editor, saving, transfer, events>> /\ inst' = inst
  BY DEF LateAnswers
<1>2. r \in [path : Files, parent : BOOLEAN] /\ r.path \in Files
  BY DEF Browsing
<1>3. [r EXCEPT !.parent = TRUE] \in [path : Files, parent : BOOLEAN]
  BY <1>2
<1>4. late' \subseteq [path : Files, parent : BOOLEAN]
  BY <1>3, OvertakenType DEF LateAnswers, Browsing
<1>5. path' \in Dirs \cup Files
  BY <1>2, FilePath DEF LateAnswers, Browsing
<1>6. CASE path' = path /\ UNCHANGED listing
  BY <1>1, <1>4, <1>6, BrowsingOnly DEF Browsing
<1>7. CASE listing' = [listing EXCEPT !.state = "listing"]
  <2>1. Browsing'
    BY <1>1, <1>4, <1>5, <1>7, LoadKeeps DEF Browsing
  <2> QED
    BY <1>1, <2>1, BrowsingOnly
<1> QED
  BY <1>6, <1>7 DEF LateAnswers
-----------------------------------------------------------------------------
(* The steps of the editor and the viewer.                                 *)

\* These leave the browser, the queue and the download alone.
LEMMA EditingOnly ==
  ASSUME FilesInv, Editing', Asking', UNCHANGED <<page, browser, queue, saving, transfer>>,
         User \/ UNCHANGED events
  PROVE  FilesInv'
<1> QED
  BY SavingKeeps, BrowsingKeeps, QueuedKeeps, TransferKeeps DEF FilesInv

LEMMA AutoSelectKeeps == ASSUME FilesInv, AutoSelect(ComposeFile) PROVE FilesInv'
<1>1. Choose(ComposeFile, FALSE) /\ UNCHANGED <<page, browser, dialogs, queue, saving, transfer, events>>
  BY DEF AutoSelect
<1>2. Editing'
  BY <1>1, ChooseKeeps, FilesPageAssumption DEF FilesInv, Browsing
<1> QED
  BY <1>1, <1>2, AskingKeeps, EditingOnly DEF FilesInv

LEMMA OpenFileKeeps ==
  ASSUME FilesInv, NEW f \in Files, NEW plain \in BOOLEAN, OpenFile(f, plain)
  PROVE  FilesInv'
<1> USE DEF FilesInv
<1>1. User /\ f \in Rows /\ UNCHANGED <<page, browser, perms, queue, saving, transfer>>
  BY DEF OpenFile
<1>2. Join(f) = f /\ inst \in Insts
  BY <1>1, RowPath DEF Browsing
<1>3. CASE plain
  <2>1. Choose(f, TRUE) /\ UNCHANGED confirm
    BY <1>2, <1>3 DEF OpenFile
  <2>2. Editing' /\ Asking'
    BY <1>1, <1>2, <2>1, ChooseKeeps, AskingKeeps DEF dialogs
  <2> QED
    BY <1>1, <2>2, EditingOnly
<1>4. CASE ~plain
  <2>1. confirm' = [what |-> "open", about |-> At(inst, f)] /\ UNCHANGED editor
    BY <1>2, <1>4 DEF OpenFile
  <2>2. At(inst, f) \in Joined /\ At(inst, f).path = f
    BY <1>2, FilesJoin DEF At
  <2>3. confirm' \in Questions /\ confirm'.about.path \in Files
    BY <2>1, <2>2 DEF Questions
  <2>4. Asking' /\ Editing'
    BY <1>1, <2>1, <2>3, EditingKeeps DEF Asking
  <2> QED
    BY <1>1, <2>4, EditingOnly
<1> QED
  BY <1>3, <1>4

LEMMA TextKeeps ==
  ASSUME FilesInv, TextAnswers
  PROVE  FilesInv'
<1> USE DEF FilesInv
<1>1. UNCHANGED <<page, browser, dialogs, queue, sel, saving, transfer, events>>
  BY DEF TextAnswers, TextArrives, TextFails
<1>2. reads' \subseteq reads
  BY DEF TextAnswers, TextArrives, TextFails
<1>3. text' \in Texts /\ (page.kind # "source" => text'.src = text'.loaded)
  <2>1. CASE text' = text
    BY <2>1 DEF Editing
  <2>2. CASE text' = [text EXCEPT !.failed = TRUE, !.loading = FALSE]
    BY <2>2 DEF Editing, Texts
  <2>3. ASSUME NEW r \in reads, NEW cut \in BOOLEAN,
               text' = [text EXCEPT !.src = r.of, !.loaded = r.of, !.cut = cut, !.loading = FALSE,
                                    !.dirty = FALSE]
        PROVE  text' \in Texts /\ text'.src = text'.loaded
    <3>1. r.of \in Target
      BY DEF Editing
    <3> QED
      BY <2>3, <3>1 DEF Editing, Texts
  <2> QED
    BY <2>1, <2>2, <2>3 DEF TextAnswers, TextArrives, TextFails
<1> QED
  BY <1>1, <1>2, <1>3, EditingOnly, AskingKeeps DEF Editing

LEMMA TypeKeeps == ASSUME FilesInv, Type PROVE FilesInv'
<1> USE DEF FilesInv
<1>1. text' \in Texts /\ text'.src = text.src /\ text'.loaded = text.loaded
  BY DEF Type, Editing, Texts
<1> QED
  BY <1>1, EditingOnly, AskingKeeps DEF Editing, Type

LEMMA CloseViewerKeeps == ASSUME FilesInv, CloseViewer PROVE FilesInv'
<1> USE DEF FilesInv
<1>1. User /\ Shown # None /\ UNCHANGED <<page, browser, perms, queue, saving, transfer>>
  BY DEF CloseViewer
<1>2. CASE text.dirty
  <2>1. Shown \in Target
    BY <1>1, ShownIsTarget DEF Browsing
  <2>2. Shown \in Joined /\ Shown.path \in Files
    BY <2>1, FilesJoin
  <2>3. confirm' = [what |-> "discard", about |-> Shown] /\ UNCHANGED editor
    BY <1>2 DEF CloseViewer
  <2>4. confirm' \in Questions /\ confirm'.about.path \in Files
    BY <2>2, <2>3 DEF Questions
  <2>5. Asking' /\ Editing'
    BY <1>1, <2>3, <2>4, EditingKeeps DEF Asking
  <2> QED
    BY <1>1, <2>5, EditingOnly
<1>3. CASE ~text.dirty
  <2>1. Choose(<<>>, FALSE) /\ UNCHANGED confirm
    BY <1>3 DEF CloseViewer
  <2>2. Editing' /\ Asking'
    BY <1>1, <2>1, ChooseKeeps, AskingKeeps DEF dialogs, Browsing
  <2> QED
    BY <1>1, <2>2, EditingOnly
<1> QED
  BY <1>2, <1>3

LEMMA ReinspectKeeps == ASSUME FilesInv, Reinspect PROVE FilesInv'
<1> USE DEF FilesInv
<1>1. Shown \in Target \cup {None}
  BY ShownIsTarget DEF Browsing
<1>2. sel' = sel /\ BeginText(Shown) /\ User /\ UNCHANGED <<page, browser, dialogs, queue, saving, transfer>>
  BY DEF Reinspect
<1>3. Editing'
  BY <1>1, <1>2, BeginTextKeeps DEF Editing
<1> QED
  BY <1>2, <1>3, EditingOnly, AskingKeeps

LEMMA SwitchInstKeeps == ASSUME FilesInv, NEW i \in Insts, SwitchInst(i) PROVE FilesInv'
<1> USE DEF FilesInv
<1>1. User /\ UNCHANGED <<page, dialogs, queue, sel, saving, transfer>>
  BY DEF SwitchInst
<1>2. Browsing'
  <2>1. path \in Files => [path |-> path, parent |-> FALSE] \in [path : Files, parent : BOOLEAN]
    OBVIOUS
  <2>2. late' \subseteq [path : Files, parent : BOOLEAN]
    BY <2>1, OvertakenType DEF SwitchInst, Browsing
  <2>3. inst' \in Insts /\ path' \in Dirs \cup Files
    BY FilesPageAssumption DEF SwitchInst
  <2> QED
    BY <2>2, <2>3, LoadKeeps DEF SwitchInst
<1>3. Editing'
  <2>1. PICK f \in Target \cup {None} : BeginText(f)
    <3>1. Slot(i) \in Insts
      BY FilesPageAssumption DEF Slot, Home
    <3>2. IsOpen(sel[Slot(i)]) => sel[Slot(i)] \in Files
      BY <3>1 DEF Editing, IsOpen
    <3>3. (IF IsOpen(sel[Slot(i)]) THEN At(i, sel[Slot(i)]) ELSE None) \in Target \cup {None}
      BY <3>2, FilesJoin
    <3> QED
      BY <3>3 DEF SwitchInst
  <2> QED
    BY <1>1, <2>1, BeginTextKeeps DEF Editing
<1> QED
  BY <1>1, <1>2, <1>3, SavingKeeps, AskingKeeps, QueuedKeeps, TransferKeeps
-----------------------------------------------------------------------------
(* The steps of the dialogs, and those that queue an operation.            *)

\* Save: what the viewer or the editor has loaded is known, and the editor's is shown.
LEMMA SaveKeeps == ASSUME FilesInv, Save PROVE FilesInv'
<1> USE DEF FilesInv
<1>1. User /\ Shown # None /\ UNCHANGED <<page, browser, dialogs, editor, transfer>> /\ saving' = TRUE
  BY DEF Save
<1>2. Shown \in Target /\ Shown \in Joined /\ Shown.path \in Files
  BY <1>1, ShownIsTarget, FilesJoin DEF Browsing
<1>3. text.loaded # None /\ (page.kind # "source" => text.loaded = Shown)
  BY DEF Save, Editable, CanSave
<1>4. text.loaded \in Target /\ text.loaded \in Joined /\ text.src \in Target \cup {None}
  BY <1>3, FilesJoin DEF Editing, Texts
<1>5. page.kind # "source" => text.src = Shown
  BY <1>3 DEF Editing
<1>6. PICK s, a, l, p : s = text.src /\ a = text.loaded /\ l = Shown /\ p = Shown.path
  OBVIOUS
<1>7. [do |-> "save", on |-> l, asked |-> a, to |-> p, src |-> s] \in Pending
  <2>1. [do |-> "save", on |-> l, asked |-> a, to |-> p, src |-> s] \in Operation
    BY <1>2, <1>4, <1>6 DEF Operation
  <2> QED
    BY <2>1, <1>4, <1>5, <1>6 DEF Pending
<1>8. queue' = Append(queue, [do |-> "save", on |-> l, asked |-> a, to |-> p, src |-> s])
  BY <1>6 DEF Save, Enqueue
<1>9. queue' \in Seq(Pending)
  BY <1>7, <1>8, AppendProperties DEF Queued
<1>10. Queued'
  BY <1>1, <1>9 DEF Queued, Pending
<1>11. PageOK'
  BY <1>1, PageKeeps
<1> QED
  BY <1>1, <1>10, <1>11, BrowsingKeeps, AskingKeeps, EditingKeeps, TransferKeeps

\* These leave the browser, the editor and the download alone.
LEMMA QueuedOnly ==
  ASSUME FilesInv, Queued', Asking', User, UNCHANGED <<page, browser, editor, saving, transfer>>
  PROVE  FilesInv'
<1> QED
  BY SavingKeeps, BrowsingKeeps, EditingKeeps, TransferKeeps DEF FilesInv

\* A question, or a form, about a row.
LEMMA AskKeeps ==
  ASSUME FilesInv, NEW f \in Files, AskDelete(f) \/ AskPermissions(f)
  PROVE  FilesInv'
<1> USE DEF FilesInv
<1>1. User /\ f \in Rows /\ UNCHANGED <<page, browser, queue, editor, saving, transfer>>
  BY DEF AskDelete, AskPermissions
<1>2. PICK i \in Insts : i = inst
  BY DEF Browsing
<1>3. listing.rows.id = i /\ Join(f) = f
  BY <1>1, <1>2, RowPath DEF At
<1>4. At(i, f) \in Joined /\ At(i, f).path \in Files
  BY FilesJoin DEF At
<1>5. Asking'
  <2>1. CASE AskDelete(f)
    <3>1. confirm' = [what |-> "delete", about |-> At(i, f)] /\ perms' = perms
      BY <1>3, <2>1 DEF AskDelete
    <3> QED
      BY <1>4, <3>1 DEF Asking, Questions
  <2>2. CASE AskPermissions(f)
    <3>1. confirm' = confirm /\ perms' = At(i, f)
      BY <1>3, <2>2 DEF AskPermissions
    <3> QED
      BY <1>4, <3>1 DEF Asking
  <2> QED
    BY <2>1, <2>2
<1> QED
  BY <1>1, <1>5, QueuedOnly, QueuedKeeps

\* The answer to a question.
LEMMA ConfirmedKeeps == ASSUME FilesInv, Confirmed PROVE FilesInv'
<1> USE DEF FilesInv
<1>1. User /\ confirm # NoQuestion /\ confirm' = NoQuestion
      /\ UNCHANGED <<page, browser, perms, saving, transfer>>
  BY DEF Confirmed
<1>2. confirm \in Questions /\ confirm.about.path \in Files /\ confirm.about \in Joined
  BY <1>1 DEF Asking, Questions
<1>3. Asking'
  BY <1>1 DEF Asking
<1>4. CASE confirm.what = "delete"
  <2>1. At(inst, Join(confirm.about.path)) \in Joined
    BY <1>2, FilesJoin DEF Join, Browsing
  <2>2. /\ Enqueue("delete", At(inst, Join(confirm.about.path)), confirm.about, confirm.about.path, None)
        /\ UNCHANGED editor
    BY <1>4 DEF Confirmed
  <2>3. Queued'
    BY <1>1, <1>2, <2>1, <2>2, EnqueueKeeps
  <2> QED
    BY <1>1, <1>3, <2>2, <2>3, QueuedOnly
<1>5. CASE confirm.what # "delete"
  <2>1. PICK f \in Files \cup {<<>>}, opening \in BOOLEAN : Choose(f, opening) /\ UNCHANGED queue
    BY <1>2, <1>5 DEF Confirmed, Questions
  <2>2. Editing'
    BY <1>1, <2>1, ChooseKeeps DEF Browsing
  <2> QED
    BY <1>1, <1>3, <2>1, <2>2, EditingOnly
<1> QED
  BY <1>4, <1>5

LEMMA DismissedKeeps == ASSUME FilesInv, Dismissed PROVE FilesInv'
<1> USE DEF FilesInv
<1>1. Asking'
  BY DEF Dismissed, Asking
<1> QED
  BY <1>1, QueuedOnly, QueuedKeeps DEF Dismissed

LEMMA PermittedKeeps == ASSUME FilesInv, NEW apply \in BOOLEAN, Permitted(apply) PROVE FilesInv'
<1> USE DEF FilesInv
<1>1. User /\ perms # None /\ perms' = None /\ UNCHANGED <<page, browser, confirm, editor, saving, transfer>>
  BY DEF Permitted
<1>2. perms \in Joined /\ perms.path \in Files
  BY <1>1 DEF Asking
<1>3. Asking'
  BY <1>1 DEF Asking
<1>4. CASE apply
  <2>1. At(inst, perms.path) \in Joined
    BY <1>2, FilesJoin DEF Browsing
  <2>2. Queued'
    BY <1>1, <1>2, <1>4, <2>1, EnqueueKeeps DEF Permitted
  <2> QED
    BY <1>1, <1>3, <2>2, QueuedOnly
<1>5. CASE ~apply
  BY <1>1, <1>3, <1>5, QueuedOnly, QueuedKeeps DEF Permitted
<1> QED
  BY <1>4, <1>5

LEMMA RenameKeeps ==
  ASSUME FilesInv, NEW f \in Files, NEW g \in Files, Rename(f, g)
  PROVE  FilesInv'
<1> USE DEF FilesInv
<1>1. User /\ f \in Rows /\ UNCHANGED <<page, browser, dialogs, editor, saving, transfer>>
  BY DEF Rename
<1>2. PICK i \in Insts : i = inst
  BY DEF Browsing
<1>3. listing.rows.id = i /\ Join(f) = f
  BY <1>1, <1>2, RowPath DEF At
<1>4. Enqueue("rename", At(i, f), At(i, f), g, None)
  BY <1>2, <1>3 DEF Rename
<1>5. Queued'
  BY <1>1, <1>4, FilesJoin, EnqueueKeeps
<1> QED
  BY <1>1, <1>5, QueuedOnly, AskingKeeps

LEMMA CreateKeeps == ASSUME FilesInv, NEW f \in Files, CreateFile(f) PROVE FilesInv'
<1> USE DEF FilesInv
<1>1. User /\ UNCHANGED <<page, browser, dialogs, editor, saving, transfer>>
  BY DEF CreateFile
<1>2. Queued'
  BY <1>1, FilesJoin, EnqueueKeeps DEF CreateFile, Browsing
<1> QED
  BY <1>1, <1>2, QueuedOnly, AskingKeeps
-----------------------------------------------------------------------------
(* The end of a queued operation.                                          *)

LEMMA FollowKeeps ==
  ASSUME Editing, inst \in Insts, UNCHANGED page, NEW o \in Pending, Follow(o)
  PROVE  Editing'
<1>1. CASE UNCHANGED editor
  BY <1>1, EditingKeeps
<1>2. CASE o.do \in {"delete", "rename"} /\ Choose(Moved(o), FALSE)
  <2>1. Moved(o) \in Files \cup {<<>>}
    BY <1>2 DEF Moved, Pending, Operation
  <2> QED
    BY <1>2, <2>1, ChooseKeeps
<1> QED
  BY <1>1, <1>2 DEF Follow

LEMMA SaveShownKeeps ==
  ASSUME Editing, UNCHANGED <<page, sel, reads>>, NEW o \in Pending, o.do = "save",
         NEW dirty \in BOOLEAN, SaveShown(o, dirty)
  PROVE  Editing'
<1>1. CASE page.kind = "source"
  <2>1. o.asked \in Target
    BY DEF Pending
  <2>2. PICK d \in BOOLEAN : d = IF text.src = o.src THEN dirty ELSE TRUE
    OBVIOUS
  <2>3. text' = [text EXCEPT !.loaded = o.asked, !.cut = FALSE, !.dirty = d]
    BY <1>1, <2>2 DEF SaveShown
  <2>4. text' \in Texts
    BY <2>1, <2>3 DEF Editing, Texts
  <2> QED
    BY <1>1, <2>4 DEF Editing
<1>2. CASE page.kind # "source"
  BY <1>2 DEF SaveShown, Editing
<1> QED
  BY <1>1, <1>2

LEMMA DoneKeeps == ASSUME FilesInv, NEW k \in DOMAIN queue, TaskDone(k) PROVE FilesInv'
<1> USE DEF FilesInv
<1>1. UNCHANGED <<page, dialogs, transfer, events>> /\ queue' = RemoveAt(queue, k)
  BY DEF TaskDone
<1>2. Queued' /\ queue[k] \in Pending
  BY <1>1, RemoveKeeps
<1>3. inst \in Insts /\ text.dirty \in BOOLEAN
  BY DEF Browsing, Editing, Texts
<1>4. CASE queue[k].do = "save"
  <2>1. saving' = FALSE /\ UNCHANGED <<browser, sel, reads>>
    BY <1>4 DEF TaskDone
  <2>2. PICK dirty \in {FALSE, text.dirty} : SaveShown(queue[k], dirty)
    BY <1>4 DEF TaskDone
  <2>3. Editing'
    BY <1>1, <1>2, <1>3, <1>4, <2>1, <2>2, SaveShownKeeps
  <2>4. PageOK'
    BY <1>1, <2>1, PageKeeps
  <2> QED
    BY <1>1, <1>2, <2>1, <2>3, <2>4, BrowsingKeeps, AskingKeeps, TransferKeeps
<1>5. CASE queue[k].do # "save"
  <2>1. Load /\ Follow(queue[k]) /\ UNCHANGED <<inst, path, saving>>
    BY <1>5 DEF TaskDone
  <2>2. Browsing'
    BY <2>1, LoadAgain
  <2>3. Editing'
    BY <1>1, <1>2, <1>3, <2>1, FollowKeeps
  <2> QED
    BY <1>1, <1>2, <2>1, <2>2, <2>3, SavingKeeps, AskingKeeps, TransferKeeps
<1> QED
  BY <1>4, <1>5

LEMMA FailedKeeps == ASSUME FilesInv, NEW k \in DOMAIN queue, Failed(k) PROVE FilesInv'
<1> USE DEF FilesInv
<1>1. UNCHANGED <<page, inst, path, dialogs, editor, transfer, events>> /\ queue' = RemoveAt(queue, k)
  BY DEF Failed
<1>2. Queued'
  BY <1>1, RemoveKeeps
<1>3. saving' \in BOOLEAN
  BY DEF Failed
<1>4. Browsing'
  BY <1>1, LoadAgain, BrowsingKeeps DEF Failed, browser
<1> QED
  BY <1>1, <1>2, <1>3, <1>4, PageKeeps, AskingKeeps, EditingKeeps, TransferKeeps
-----------------------------------------------------------------------------
(* The download.                                                           *)

\* Its steps leave everything else alone.
LEMMA TransferOnly ==
  ASSUME FilesInv, Transferring', UNCHANGED <<page, browser, dialogs, queue, editor, saving>>,
         User \/ UNCHANGED events
  PROVE  FilesInv'
<1> QED
  BY SavingKeeps, BrowsingKeeps, AskingKeeps, EditingKeeps, QueuedKeeps DEF FilesInv

StreamSet == [step : {"pick", "fetch", "read", "close"}, aborted : BOOLEAN]

LEMMA AbortType == ASSUME Transferring PROVE Abort \subseteq StreamSet
<1> QED
  BY DEF Transferring, Abort, StreamSet

LEMMA OpensWell ==
  ASSUME FilesInv, StartDownload \/ CloseDownload
  PROVE  FilesInv'
<1> USE DEF FilesInv
<1>1. User /\ UNCHANGED <<page, browser, dialogs, queue, editor, saving>>
  BY DEF StartDownload, CloseDownload
<1>2. streams' \subseteq StreamSet
  <2>1. [step |-> "pick", aborted |-> FALSE] \in StreamSet
    BY DEF StreamSet
  <2> QED
    BY <2>1, AbortType DEF StartDownload, CloseDownload
<1>3. /\ download' \in [active : BOOLEAN, done : BOOLEAN, failed : BOOLEAN, whole : BOOLEAN]
      /\ DownloadIsReal'
  <2>1. CASE StartDownload
    BY <2>1 DEF StartDownload, Idle, DownloadIsReal
  <2>2. CASE CloseDownload
    BY <2>2 DEF CloseDownload, DownloadIsReal, Transferring
  <2> QED
    BY <2>1, <2>2
<1> QED
  BY <1>1, <1>2, <1>3, TransferOnly DEF Transferring, StreamSet

LEMMA StreamKeeps ==
  ASSUME FilesInv, NEW s \in streams, Advance(s) \/ Closes(s) \/ Breaks(s)
  PROVE  FilesInv'
<1> USE DEF FilesInv
<1>1. UNCHANGED <<page, browser, dialogs, queue, editor, saving, events>>
  BY DEF Advance, Closes, Breaks, Ended
<1>2. s \in StreamSet
  BY DEF Transferring, StreamSet
<1>3. CASE Advance(s)
  <2>1. s.step \in {"pick", "fetch", "read"}
    BY <1>2, <1>3 DEF Advance, StreamSet
  <2>2. Following(s.step) \in {"fetch", "read", "close"}
    BY <2>1 DEF Following
  <2>3. [s EXCEPT !.step = Following(s.step)] \in StreamSet
    BY <1>2, <2>2 DEF StreamSet
  <2>4. streams' = (streams \ {s}) \cup {[s EXCEPT !.step = Following(s.step)]} /\ download' = download
    BY <1>3 DEF Advance
  <2>5. Transferring'
    BY <2>3, <2>4 DEF Transferring, StreamSet, DownloadIsReal
  <2> QED
    BY <1>1, <2>5, TransferOnly
<1>4. CASE Closes(s) \/ Breaks(s)
  <2>1. PICK ok \in BOOLEAN : Ended(s, ok)
    BY <1>4 DEF Closes, Breaks
  <2>2. streams' \subseteq StreamSet
    BY <2>1 DEF Ended, Transferring, StreamSet
  <2>3. /\ download' \in [active : BOOLEAN, done : BOOLEAN, failed : BOOLEAN, whole : BOOLEAN]
        /\ DownloadIsReal'
    <3>1. CASE s.aborted
      BY <2>1, <3>1 DEF Ended, Transferring, DownloadIsReal
    <3>2. CASE ~s.aborted
      <4>1. PICK failed \in BOOLEAN : failed = ~ok
        OBVIOUS
      <4>2. download' = [download EXCEPT !.done = TRUE, !.failed = failed, !.whole = ok]
        BY <2>1, <3>2, <4>1 DEF Ended
      <4> QED
        BY <4>1, <4>2 DEF Transferring, DownloadIsReal
    <3> QED
      BY <3>1, <3>2
  <2> QED
    BY <1>1, <2>2, <2>3, TransferOnly DEF Transferring, StreamSet
<1> QED
  BY <1>3, <1>4
-----------------------------------------------------------------------------
(* The theorems.                                                           *)

LEMMA StepKeeps == FilesInv /\ [FilesNext]_filesVars => FilesInv'
<1> SUFFICES ASSUME FilesInv, [FilesNext]_filesVars PROVE FilesInv'
  OBVIOUS
<1>1. CASE OnFiles
  BY <1>1, NavigateKeeps, AskKeeps, CreateKeeps, OpenFileKeeps, RenameKeeps, ConfirmedKeeps,
     DismissedKeeps, PermittedKeeps DEF OnFiles
<1>2. CASE AutoSelect(ComposeFile) \/ Type \/ Save \/ CloseViewer
  BY <1>2, AutoSelectKeeps, TypeKeeps, SaveKeeps, CloseViewerKeeps
<1>3. CASE (\E i \in Insts : SwitchInst(i)) \/ Reinspect
  BY <1>3, SwitchInstKeeps, ReinspectKeeps
<1>4. CASE StartDownload \/ CloseDownload \/ Picks \/ Streams
  BY <1>4, OpensWell, StreamKeeps DEF Picks, Streams
<1>5. CASE Answers \/ LateAnswer \/ TextAnswers
  BY <1>5, AnswersKeep, LateKeeps, TextKeeps DEF LateAnswer
<1>6. CASE TaskEnds
  BY <1>6, DoneKeeps, FailedKeeps DEF TaskEnds
<1>7. CASE UNCHANGED filesVars
  <2>1. /\ UNCHANGED <<page, browser, dialogs, queue, editor, saving, transfer, events>>
    BY <1>7 DEF filesVars
  <2> QED
    BY <2>1, SavingKeeps, BrowsingKeeps, AskingKeeps, EditingKeeps, QueuedKeeps, TransferKeeps
    DEF FilesInv
<1> QED
  BY <1>1, <1>2, <1>3, <1>4, <1>5, <1>6, <1>7 DEF FilesNext

LEMMA InvHolds == FilesSpec => []FilesInv
<1> QED
  BY InitHolds, StepKeeps, PTL DEF FilesSpec

\* The rows that can be clicked are those of the instance and the directory the browser
\* is at, whatever the route does meanwhile and whichever answers arrive late.
THEOREM RowsAreOfThePath == FilesSpec => []RowsMatch
<1>1. FilesInv => RowsMatch
  BY DEF FilesInv, Browsing, RowsMatch, Rows
<1> QED
  BY <1>1, InvHolds, PTL

\* What an editor page queues for saving was read from the file it overwrites.
THEOREM SavesItsOwnFile == FilesSpec => []SavesWhatItLoaded
<1>1. FilesInv => SavesWhatItLoaded
  <2> SUFFICES ASSUME FilesInv, NEW k \in DOMAIN queue, queue[k].do = "save", page.kind # "source"
               PROVE  queue[k].src = queue[k].on
    BY DEF SavesWhatItLoaded
  <2>1. queue[k] \in Pending
    BY LenProperties, ElementOfSeq DEF FilesInv, Queued
  <2> QED
    BY <2>1 DEF Pending
<1> QED
  BY <1>1, InvHolds, PTL

\* The types, and a download shown as done that has written its whole file.
THEOREM PageSound == FilesSpec => []FilesSound
<1>1. FilesInv => FilesSound
  <2> SUFFICES ASSUME FilesInv PROVE FilesSound
    OBVIOUS
  <2>1. queue \in Seq(Operation)
    <3>1. Pending \subseteq Operation
      BY DEF Pending
    <3>2. Len(queue) \in Nat /\ queue = [i \in 1..Len(queue) |-> queue[i]]
          /\ \A i \in 1..Len(queue) : queue[i] \in Operation
      BY <3>1, LenProperties, ElementOfSeq DEF FilesInv, Queued
    <3>3. [i \in 1..Len(queue) |-> queue[i]] \in Seq(Operation)
      BY <3>2, IsASeq
    <3> QED
      BY <3>2, <3>3
  <2> QED
    BY <2>1 DEF FilesSound, FilesTypeOK, FilesInv, PageOK, Browsing, Asking, Editing, Texts, Queued, Transferring
<1> QED
  BY <1>1, InvHolds, PTL
=============================================================================
