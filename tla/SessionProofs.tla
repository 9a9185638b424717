--------------------------- MODULE SessionProofs ---------------------------
(***************************************************************************)
(* What the window of Session shows and knows is right at every moment.    *)
(* The operators that answers and clicks are made of (Send, Mount,         *)
(* CancelAll, DoLogout ...) map windows to windows, so what they keep is    *)
(* said of any window v, beside any tokens ss the backend has issued and   *)
(* any version ver of its runtime.                                         *)
(***************************************************************************)
EXTENDS Session, SequenceTheorems, TLAPS

Issued == Seq([user : Users, alive : BOOLEAN])
Taken(t, ss) == t # 0 /\ ss[t].alive

\* A request carries an issued token; a 401 is the answer to one that is no longer taken.
Honest(q, ss) == q.token <= Len(ss) /\ (q.answer.is = "401" => ~Taken(q.token, ss))

\* The start is alone and comes before everything else; a page's rows are read
\* from the runtime the window switched to, or a later one.
Timely(r, v) ==
  /\ r.what = "start" => ~v.ready /\ v.reads = {r}
  /\ ~v.ready => r.what = "start"
  /\ r.what \in {"start", "me"} => r.token # 0
  /\ r.what = "data" => v.page = "docker" /\ (r.answer.is = "ok" => v.seen <= r.answer.version)

Proper(t, ver) ==
  /\ t.answer.version <= ver
  /\ t.do \in {"select", "edit", "add", "delete"} => t.arg \in Servers
  /\ t.do \in {"create", "remove", "password"} => t.arg \in Users

\* The rows of a Docker page are of the runtime the window switched to, or a later one.
Rows(v) == v.data # 0 => v.page = "docker" /\ v.seen <= v.data

Sits(v, ss, ver) ==
  /\ v \in Window
  /\ v.token <= Len(ss) /\ v.user <= Len(ss) /\ v.attempt.token <= Len(ss)
  /\ v.user # 0 => v.ready
  /\ v.attempt.step = None => v.attempt = NoAttempt
  /\ v.attempt.step # None => v.ready /\ v.attempt.user \in Users
  /\ v.tasks # {} => v.ready
  /\ v.seen <= ver
  /\ \A r \in v.reads : Honest(r, ss) /\ Timely(r, v)
  /\ \A t \in v.tasks \cup v.lost : Honest(t, ss) /\ Proper(t, ver)
Fit(v, ss, ver) == Sits(v, ss, ver) /\ Rows(v)

\* Somebody may yet be signed in without another word of the user.
Trying(v) == v.attempt.step # None \/ \E r \in v.reads : r.what \in {"start", "me"}
Wanted(v) == Trying(v) => v.asked
Guards(v) == v.user = 0 => v.page = "login"
Good(v, ss, ver) == Fit(v, ss, ver) /\ Wanted(v) /\ Guards(v)

\* What most operators leave alone.
Same(n, v) ==
  /\ n.token = v.token /\ n.user = v.user /\ n.ready = v.ready /\ n.asked = v.asked /\ n.seen = v.seen
  /\ Trying(n) => Trying(v)
Stays(n, v) == Same(n, v) /\ n.page = v.page
-----------------------------------------------------------------------------
(* Reads. *)

LEMMA Types ==
  /\ None \notin Users \cup Servers
  /\ "login" \in Pages /\ "docker" \in Pages /\ MaxSessions \in Nat /\ MaxSessions # 0
  /\ Pages \subseteq {"login", "docker", "auto", "users", "settings"}
  /\ Pending \in Answers /\ Refused \in Answers /\ Forbidden \in Answers
  /\ Pending.is = "pending" /\ Refused.is = "401" /\ Forbidden.is = "error"
  /\ Pending.version = 0 /\ Refused.version = 0 /\ Forbidden.version = 0
BY SessionAssumption DEF None, Pending, Refused, Forbidden, Answers, Versions

LEMMA SendFits ==
  ASSUME NEW ss \in Issued, NEW ver \in Nat, NEW v, Fit(v, ss, ver), v.ready,
         NEW what \in {"setup", "data", "policies", "settings", "users"}, NEW live \in BOOLEAN,
         what = "data" => v.page = "docker"
  PROVE  LET n == SendAs(v, what, live)
         IN  Fit(n, ss, ver) /\ Stays(n, v) /\ n.tasks = v.tasks
<1> DEFINE q == [what |-> what, token |-> v.token, live |-> live, answer |-> Pending]
           n == [v EXCEPT !.reads = v.reads \cup {q}]
<1>1. SendAs(v, what, live) = n
  BY DEF SendAs
<1>2. q \in Reads /\ q.what = what /\ q.token = v.token /\ q.answer = Pending
  BY Types DEF Reads, Fit, Sits, Window
<1>3. n \in Window /\ n.reads = v.reads \cup {q}
  BY <1>2 DEF Fit, Sits, Window
<1>4. /\ n.token = v.token /\ n.user = v.user /\ n.ready = v.ready /\ n.asked = v.asked
      /\ n.seen = v.seen /\ n.page = v.page /\ n.tasks = v.tasks /\ n.lost = v.lost
      /\ n.attempt = v.attempt /\ n.data = v.data
  BY DEF Fit, Sits, Window
<1> HIDE DEF q, n
<1>5. \A r \in n.reads : Honest(r, ss) /\ Timely(r, n)
  <2> SUFFICES ASSUME NEW r \in n.reads PROVE Honest(r, ss) /\ Timely(r, n)
    OBVIOUS
  <2>1. CASE r = q
    BY <2>1, <1>2, <1>4, Types DEF Honest, Timely, Fit, Sits
  <2>2. CASE r \in v.reads
    BY <2>2, <1>4 DEF Timely, Fit, Sits
  <2> QED
    BY <2>1, <2>2, <1>3
<1>6. Fit(n, ss, ver)
  BY <1>3, <1>4, <1>5 DEF Fit, Sits, Rows
<1>7. Trying(n) => Trying(v)
  BY <1>2, <1>3, <1>4 DEF Trying
<1> QED
  BY <1>1, <1>4, <1>6, <1>7 DEF Same, Stays

\* Reads may be dropped and their answers ignored.
LEMMA DropFits ==
  ASSUME NEW ss \in Issued, NEW ver \in Nat, NEW v, Fit(v, ss, ver), NEW R \in SUBSET v.reads
  PROVE  LET n == [v EXCEPT !.reads = R]
         IN  Fit(n, ss, ver) /\ Stays(n, v) /\ n.tasks = v.tasks /\ n.reads = R /\ n.attempt = v.attempt
<1> DEFINE n == [v EXCEPT !.reads = R]
<1>1. n \in Window /\ n.reads = R
  BY DEF Fit, Sits, Window
<1>2. /\ n.token = v.token /\ n.user = v.user /\ n.ready = v.ready /\ n.asked = v.asked
      /\ n.seen = v.seen /\ n.page = v.page /\ n.tasks = v.tasks /\ n.lost = v.lost
      /\ n.attempt = v.attempt /\ n.data = v.data
  BY DEF Fit, Sits, Window
<1> HIDE DEF n
<1>3. \A r \in n.reads : Honest(r, ss) /\ Timely(r, n)
  BY <1>1, <1>2 DEF Timely, Fit, Sits
<1>4. Fit(n, ss, ver)
  BY <1>1, <1>2, <1>3 DEF Fit, Sits, Rows
<1>5. Trying(n) => Trying(v)
  BY <1>1, <1>2 DEF Trying
<1> QED
  BY <1>1, <1>2, <1>4, <1>5 DEF Same, Stays, n

\* Tasks may be taken off the list.
LEMMA TasksFit ==
  ASSUME NEW ss \in Issued, NEW ver \in Nat, NEW v, Fit(v, ss, ver),
         NEW T \in SUBSET Writes, \A t \in T : Honest(t, ss) /\ Proper(t, ver), T # {} => v.ready
  PROVE  LET n == [v EXCEPT !.tasks = T]
         IN  Fit(n, ss, ver) /\ Stays(n, v) /\ n.tasks = T /\ n.lost = v.lost
<1> DEFINE n == [v EXCEPT !.tasks = T]
<1>1. n \in Window /\ n.tasks = T
  BY DEF Fit, Sits, Window
<1>2. /\ n.token = v.token /\ n.user = v.user /\ n.ready = v.ready /\ n.asked = v.asked
      /\ n.seen = v.seen /\ n.page = v.page /\ n.reads = v.reads /\ n.lost = v.lost
      /\ n.attempt = v.attempt /\ n.data = v.data
  BY DEF Fit, Sits, Window
<1> HIDE DEF n
<1>3. \A r \in n.reads : Honest(r, ss) /\ Timely(r, n)
  BY <1>1, <1>2 DEF Timely, Fit, Sits
<1>4. Fit(n, ss, ver)
  BY <1>1, <1>2, <1>3 DEF Fit, Sits, Rows
<1>5. Trying(n) => Trying(v)
  BY <1>1, <1>2 DEF Trying
<1> QED
  BY <1>1, <1>2, <1>4, <1>5 DEF Same, Stays, n

LEMMA LostFits ==
  ASSUME NEW ss \in Issued, NEW ver \in Nat, NEW v, Fit(v, ss, ver),
         NEW L \in SUBSET Writes, \A t \in L : Honest(t, ss) /\ Proper(t, ver)
  PROVE  LET n == [v EXCEPT !.lost = L] IN Fit(n, ss, ver) /\ Stays(n, v) /\ n.reads = v.reads
<1> DEFINE n == [v EXCEPT !.lost = L]
<1>1. n \in Window /\ n.lost = L
  BY DEF Fit, Sits, Window
<1>2. /\ n.token = v.token /\ n.user = v.user /\ n.ready = v.ready /\ n.asked = v.asked
      /\ n.seen = v.seen /\ n.page = v.page /\ n.reads = v.reads /\ n.tasks = v.tasks
      /\ n.attempt = v.attempt /\ n.data = v.data
  BY DEF Fit, Sits, Window
<1> HIDE DEF n
<1>3. \A r \in n.reads : Honest(r, ss) /\ Timely(r, n)
  BY <1>2 DEF Timely, Fit, Sits
<1>4. Fit(n, ss, ver)
  BY <1>1, <1>2, <1>3 DEF Fit, Sits, Rows
<1> QED
  BY <1>2, <1>4 DEF Same, Stays, Trying, n

LEMMA RefreshFits ==
  ASSUME NEW ss \in Issued, NEW ver \in Nat, NEW v, Fit(v, ss, ver), v.ready,
         NEW what \in {"policies", "users"}
  PROVE  LET n == Refresh(v, what)
         IN  Fit(n, ss, ver) /\ Stays(n, v) /\ n.tasks = v.tasks
<1>1. Fit(Send(v, what), ss, ver) /\ Stays(Send(v, what), v) /\ Send(v, what).tasks = v.tasks
  BY SendFits DEF Send
<1> QED
  BY <1>1 DEF Refresh, Stays, Same

LEMMA ReloadFits ==
  ASSUME NEW ss \in Issued, NEW ver \in Nat, NEW v, Fit(v, ss, ver), v.ready
  PROVE  Fit(Reload(v), ss, ver) /\ Stays(Reload(v), v) /\ Reload(v).tasks = v.tasks
BY RefreshFits DEF Reload, Stays, Same

LEMMA SettledFits ==
  ASSUME NEW ss \in Issued, NEW ver \in Nat, NEW v, Fit(v, ss, ver), v.ready
  PROVE  Fit(Settled(v), ss, ver) /\ Stays(Settled(v), v) /\ Settled(v).tasks = v.tasks
<1> DEFINE n == Reload(v)
           m == [n EXCEPT !.reads = {r \in n.reads : r.what # "data"}]
<1>1. Fit(n, ss, ver) /\ Stays(n, v) /\ n.tasks = v.tasks
  BY ReloadFits
<1>2. Settled(v) = IF n.page = "docker" THEN Send(m, "data") ELSE n
  BY DEF Settled
<1>3. Fit(m, ss, ver) /\ Stays(m, n) /\ m.tasks = n.tasks
  <2> HIDE DEF n
  <2> QED BY <1>1, DropFits
<1> HIDE DEF n, m
<1>4. CASE n.page = "docker"
  <2>1. m.ready /\ m.page = "docker"
    BY <1>1, <1>3, <1>4 DEF Stays, Same
  <2>2. Fit(Send(m, "data"), ss, ver) /\ Stays(Send(m, "data"), m) /\ Send(m, "data").tasks = m.tasks
    BY <1>3, <2>1, SendFits DEF Send
  <2> QED
    BY <1>1, <1>2, <1>3, <1>4, <2>2 DEF Stays, Same
<1>5. CASE n.page # "docker"
  BY <1>1, <1>2, <1>5
<1> QED
  BY <1>4, <1>5
-----------------------------------------------------------------------------
(* What gives things up: an attempt to sign in, the requests, the page.    *)

LEMMA FailAttemptFits ==
  ASSUME NEW ss \in Issued, NEW ver \in Nat, NEW v, Fit(v, ss, ver)
  PROVE  LET n == FailAttempt(v)
         IN  /\ Fit(n, ss, ver) /\ Stays(n, v) /\ n.attempt = NoAttempt
             /\ n.reads = v.reads /\ n.tasks = v.tasks /\ n.lost = v.lost
<1> DEFINE n == [v EXCEPT !.attempt = NoAttempt, !.login.busy = IF v.attempt.mine THEN FALSE ELSE @]
<1>1. FailAttempt(v) = n
  BY DEF FailAttempt
<1>2. NoAttempt \in Attempts /\ NoAttempt.step = None /\ NoAttempt.token = 0
  BY Types DEF NoAttempt, Attempts, Tokens
<1>3. n \in Window /\ n.attempt = NoAttempt
  BY <1>2 DEF Fit, Sits, Window
<1>4. /\ n.token = v.token /\ n.user = v.user /\ n.ready = v.ready /\ n.asked = v.asked
      /\ n.seen = v.seen /\ n.page = v.page /\ n.reads = v.reads /\ n.lost = v.lost
      /\ n.tasks = v.tasks /\ n.data = v.data
  BY DEF Fit, Sits, Window
<1> HIDE DEF n
<1>5. \A r \in n.reads : Honest(r, ss) /\ Timely(r, n)
  BY <1>4 DEF Timely, Fit, Sits
<1>6. n.attempt.token <= Len(ss)
  BY <1>2, <1>3, LenProperties DEF Issued
<1>7. Fit(n, ss, ver)
  BY <1>2, <1>3, <1>4, <1>5, <1>6 DEF Fit, Sits, Rows
<1>8. Trying(n) => Trying(v)
  BY <1>2, <1>3, <1>4 DEF Trying
<1> QED
  BY <1>1, <1>3, <1>4, <1>7, <1>8 DEF Same, Stays

LEMMA CancelAllFits ==
  ASSUME NEW ss \in Issued, NEW ver \in Nat, NEW v, Fit(v, ss, ver)
  PROVE  LET n == CancelAll(v)
         IN  /\ Fit(n, ss, ver) /\ Stays(n, v) /\ n.tasks = {}
             /\ n.attempt \in {v.attempt, NoAttempt}
             /\ \A r \in n.reads : r.what = "policies"
             /\ v.tasks = {} => n.reads = {}
<1> DEFINE a == IF InFlight(v, "me") THEN FailAttempt(v) ELSE v
           gone == {t \in v.tasks : t.answer.is = "pending"}
           b == [a EXCEPT !.reads = {}, !.tasks = {}, !.lost = a.lost \cup gone]
<1>1. CancelAll(v) = IF v.tasks = {} \/ InFlight(v, "policies") THEN b ELSE Reload(b)
  BY DEF CancelAll
<1>2. /\ Fit(a, ss, ver) /\ Stays(a, v) /\ a.attempt \in {v.attempt, NoAttempt}
      /\ a.reads = v.reads /\ a.tasks = v.tasks /\ a.lost = v.lost
  BY FailAttemptFits DEF Stays, Same
<1> HIDE DEF a
<1>3. b \in Window /\ b.reads = {} /\ b.tasks = {} /\ b.lost = v.lost \cup gone
  BY <1>2 DEF Fit, Sits, Window
<1>4. /\ b.token = a.token /\ b.user = a.user /\ b.ready = a.ready /\ b.asked = a.asked
      /\ b.seen = a.seen /\ b.page = a.page /\ b.attempt = a.attempt /\ b.data = a.data
  BY <1>2 DEF Fit, Sits, Window
<1> HIDE DEF b
<1>5. \A t \in b.tasks \cup b.lost : Honest(t, ss) /\ Proper(t, ver)
  BY <1>2, <1>3 DEF Fit, Sits
<1>6. Fit(b, ss, ver)
  BY <1>2, <1>3, <1>4, <1>5 DEF Fit, Sits, Rows
<1>7. Stays(b, v) /\ b.attempt \in {v.attempt, NoAttempt}
  BY <1>2, <1>3, <1>4 DEF Stays, Same, Trying
<1>8. CASE v.tasks = {} \/ InFlight(v, "policies")
  BY <1>1, <1>3, <1>6, <1>7, <1>8
<1>9. CASE ~(v.tasks = {} \/ InFlight(v, "policies"))
  <2>1. b.ready
    BY <1>2, <1>4, <1>9 DEF Fit, Sits
  <2>2. Fit(Reload(b), ss, ver) /\ Stays(Reload(b), b) /\ Reload(b).tasks = {}
    BY <1>3, <1>6, <2>1, ReloadFits
  <2>3. Reload(b).attempt = b.attempt /\ \A r \in Reload(b).reads : r.what = "policies"
    <3>1. b.reads = {} /\ b \in Window
      BY <1>3
    <3>2. Reload(b) \in {b, [b EXCEPT !.reads = b.reads \cup {[what |-> "policies", token |-> b.token, live |-> TRUE, answer |-> Pending]}]}
      BY DEF Reload, Refresh, Send, SendAs
    <3> QED
      BY <3>1, <3>2 DEF Window
  <2> QED
    BY <1>1, <1>7, <1>9, <2>2, <2>3 DEF Stays, Same
<1> QED
  BY <1>8, <1>9

LEMMA UnmountFits ==
  ASSUME NEW ss \in Issued, NEW ver \in Nat, NEW v, Sits(v, ss, ver)
  PROVE  LET n == Unmount(v)
         IN  /\ Fit(n, ss, ver) /\ Stays(n, v) /\ n.data = 0
             /\ \A r \in n.reads : r.what # "data"
             /\ n.attempt.step = v.attempt.step
<1> DEFINE Put(r) == IF r.what \in {"setup", "settings", "users"} THEN [r EXCEPT !.live = FALSE] ELSE r
           R == {Put(r) : r \in {q \in v.reads : q.what # "data"}}
           T == {[t EXCEPT !.mine = FALSE] : t \in v.tasks}
           n == [v EXCEPT !.reads = R, !.tasks = T, !.attempt.mine = FALSE, !.login = NewLogin,
                          !.editing = None, !.data = 0, !.active = None, !.users = {}]
<1>1. Unmount(v) = n
  BY DEF Unmount
<1>2. \A r \in v.reads : /\ Put(r) \in Reads /\ Put(r).what = r.what /\ Put(r).token = r.token
                         /\ Put(r).answer = r.answer
  <2> SUFFICES ASSUME NEW r \in Reads
               PROVE  /\ Put(r) \in Reads /\ Put(r).what = r.what /\ Put(r).token = r.token
                      /\ Put(r).answer = r.answer
    BY DEF Sits, Window
  <2> DEFINE q == [r EXCEPT !.live = FALSE]
  <2>1. q \in Reads /\ q.what = r.what /\ q.token = r.token /\ q.answer = r.answer
    BY DEF Reads
  <2> HIDE DEF q
  <2>2. CASE r.what \in {"setup", "settings", "users"}
    <3>1. Put(r) = q
      BY <2>2 DEF q
    <3> QED
      BY <2>1, <3>1
  <2>3. CASE r.what \notin {"setup", "settings", "users"}
    BY <2>3
  <2> QED
    BY <2>2, <2>3
<1>3. \A t \in v.tasks : /\ [t EXCEPT !.mine = FALSE] \in Writes
                         /\ Honest(t, ss) /\ Proper(t, ver)
                            => Honest([t EXCEPT !.mine = FALSE], ss) /\ Proper([t EXCEPT !.mine = FALSE], ver)
  <2> SUFFICES ASSUME NEW t \in Writes
               PROVE  /\ [t EXCEPT !.mine = FALSE] \in Writes
                      /\ Honest(t, ss) /\ Proper(t, ver)
                         => Honest([t EXCEPT !.mine = FALSE], ss) /\ Proper([t EXCEPT !.mine = FALSE], ver)
    BY DEF Sits, Window
  <2> DEFINE q == [t EXCEPT !.mine = FALSE]
  <2>1. q \in Writes /\ q.do = t.do /\ q.arg = t.arg /\ q.token = t.token /\ q.answer = t.answer
    BY DEF Writes
  <2> HIDE DEF q
  <2>2. Honest(t, ss) /\ Proper(t, ver) => Honest(q, ss) /\ Proper(q, ver)
    BY <2>1 DEF Honest, Proper
  <2> QED
    BY <2>1, <2>2 DEF q
<1>4. R \subseteq Reads /\ T \subseteq Writes
  BY <1>2, <1>3
<1>5. n \in Window /\ n.reads = R /\ n.tasks = T /\ n.data = 0 /\ n.attempt = [v.attempt EXCEPT !.mine = FALSE]
  <2>1. NewLogin \in [configured : {"?", "no", "yes"}, busy : BOOLEAN]
    BY DEF NewLogin
  <2>2. [v.attempt EXCEPT !.mine = FALSE] \in Attempts
    BY DEF Sits, Window, Attempts
  <2> HIDE DEF R, T
  <2> QED
    BY <1>4, <2>1, <2>2, Types DEF Sits, Window, Versions
<1>6. /\ n.token = v.token /\ n.user = v.user /\ n.ready = v.ready /\ n.asked = v.asked
      /\ n.seen = v.seen /\ n.page = v.page /\ n.lost = v.lost
  BY DEF Sits, Window
<1> HIDE DEF n
<1>7. /\ n.attempt.step = v.attempt.step /\ n.attempt.token = v.attempt.token
      /\ n.attempt.user = v.attempt.user /\ (v.attempt = NoAttempt => n.attempt = NoAttempt)
  <2>1. v.attempt \in Attempts
    BY DEF Sits, Window
  <2>2. n.attempt.step = v.attempt.step /\ n.attempt.token = v.attempt.token /\ n.attempt.user = v.attempt.user
    BY <1>5, <2>1 DEF Attempts
  <2>3. v.attempt = NoAttempt => n.attempt = NoAttempt
    <3>1. [NoAttempt EXCEPT !.mine = FALSE] = NoAttempt
      <4>1. NoAttempt \in Attempts /\ NoAttempt.mine = FALSE
        BY Types DEF NoAttempt, Attempts, Tokens
      <4> QED
        BY <4>1 DEF Attempts
    <3> QED
      BY <1>5, <3>1
  <2> QED
    BY <2>2, <2>3
<1>8. \A r \in n.reads : Honest(r, ss) /\ Timely(r, n) /\ r.what # "data"
  <2> SUFFICES ASSUME NEW q \in v.reads, q.what # "data"
               PROVE  Honest(Put(q), ss) /\ Timely(Put(q), n) /\ Put(q).what # "data"
    BY <1>5
  <2>1. Honest(q, ss) /\ Timely(q, v)
    BY DEF Sits
  <2>2. Honest(Put(q), ss) /\ Put(q).what # "data"
    BY <1>2, <2>1 DEF Honest
  <2>3. v.reads = {q} => n.reads = {Put(q)}
    BY <1>5
  <2> HIDE DEF Put, R
  <2>4. Timely(Put(q), n)
    BY <1>2, <1>6, <2>1, <2>3 DEF Timely
  <2> QED
    BY <2>2, <2>4
<1>9. \A t \in n.tasks \cup n.lost : Honest(t, ss) /\ Proper(t, ver)
  BY <1>3, <1>5, <1>6 DEF Sits
<1>10. n.tasks # {} => n.ready
  BY <1>5, <1>6 DEF Sits
<1>11. Fit(n, ss, ver)
  BY <1>5, <1>6, <1>7, <1>8, <1>9, <1>10 DEF Fit, Sits, Rows
<1>12. Trying(n) => Trying(v)
  <2> SUFFICES ASSUME NEW r \in n.reads, r.what \in {"start", "me"}
               PROVE  \E q \in v.reads : q.what \in {"start", "me"}
    BY <1>7 DEF Trying
  <2>1. PICK q \in v.reads : r = Put(q)
    BY <1>5
  <2> QED
    BY <1>2, <2>1
<1> QED
  BY <1>1, <1>5, <1>6, <1>7, <1>8, <1>11, <1>12 DEF Same, Stays

LEMMA MountFits ==
  ASSUME NEW ss \in Issued, NEW ver \in Nat, NEW v, Sits(v, ss, ver), v.ready, NEW p \in Pages
  PROVE  LET n == Mount(v, p)
         IN  Fit(n, ss, ver) /\ Same(n, v) /\ n.page = p
<1> DEFINE m == Unmount(v)
           n == [m EXCEPT !.page = p]
           l == [n EXCEPT !.listed = TRUE]
<1>1. /\ Fit(m, ss, ver) /\ Stays(m, v) /\ m.data = 0 /\ \A r \in m.reads : r.what # "data"
  BY UnmountFits
<1>2. Mount(v, p) = CASE p = "login" -> Send(n, "setup")
                      [] p = "docker" -> Send(n, "data")
                      [] p = "auto" -> IF n.listed THEN n ELSE Send(l, "policies")
                      [] OTHER -> Send(n, p)
  BY DEF Mount
<1> HIDE DEF m
<1>3. n \in Window /\ n.page = p
  BY <1>1 DEF Fit, Sits, Window
<1>4. /\ n.token = m.token /\ n.user = m.user /\ n.ready = m.ready /\ n.asked = m.asked
      /\ n.seen = m.seen /\ n.reads = m.reads /\ n.lost = m.lost
      /\ n.tasks = m.tasks /\ n.data = 0 /\ n.attempt = m.attempt
  BY <1>1 DEF Fit, Sits, Window
<1> HIDE DEF n
<1>5. Fit(n, ss, ver) /\ Same(n, v) /\ n.ready
  <2>1. \A r \in n.reads : Honest(r, ss) /\ Timely(r, n)
    BY <1>1, <1>4 DEF Timely, Fit, Sits
  <2>2. Fit(n, ss, ver)
    BY <1>1, <1>3, <1>4, <2>1 DEF Fit, Sits, Rows
  <2>3. Trying(n) => Trying(v)
    BY <1>1, <1>4 DEF Trying, Stays, Same
  <2> QED
    BY <1>1, <1>4, <2>2, <2>3 DEF Stays, Same
<1>6. CASE p = "login"
  <2>1. Mount(v, p) = Send(n, "setup")
    BY <1>2, <1>6
  <2>2. Fit(Send(n, "setup"), ss, ver) /\ Stays(Send(n, "setup"), n)
    BY <1>5, SendFits DEF Send
  <2> QED
    BY <1>3, <1>5, <2>1, <2>2 DEF Stays, Same
<1>7. CASE p = "docker"
  <2>1. Mount(v, p) = Send(n, "data")
    BY <1>2, <1>7
  <2>2. Fit(Send(n, "data"), ss, ver) /\ Stays(Send(n, "data"), n)
    BY <1>3, <1>5, <1>7, SendFits DEF Send
  <2> QED
    BY <1>3, <1>5, <2>1, <2>2 DEF Stays, Same
<1>8. CASE p = "auto"
  <2>1. Mount(v, p) = IF n.listed THEN n ELSE Send(l, "policies")
    BY <1>2, <1>8
  <2>2. l \in Window
    BY <1>3 DEF Window
  <2>3. /\ l.token = n.token /\ l.user = n.user /\ l.ready = n.ready /\ l.asked = n.asked
        /\ l.seen = n.seen /\ l.reads = n.reads /\ l.lost = n.lost /\ l.page = n.page
        /\ l.tasks = n.tasks /\ l.data = n.data /\ l.attempt = n.attempt
    BY <1>3 DEF Window
  <2> HIDE DEF l
  <2>4. \A r \in l.reads : Honest(r, ss) /\ Timely(r, l)
    BY <1>5, <2>3 DEF Timely, Fit, Sits
  <2>5. Fit(l, ss, ver) /\ l.ready
    BY <1>5, <2>2, <2>3, <2>4 DEF Fit, Sits, Rows
  <2>6. Stays(l, n)
    BY <2>3 DEF Stays, Same, Trying
  <2>7. Fit(Send(l, "policies"), ss, ver) /\ Stays(Send(l, "policies"), l)
    BY <2>5, SendFits DEF Send
  <2> QED
    BY <1>3, <1>5, <2>1, <2>5, <2>6, <2>7 DEF Stays, Same
<1>9. CASE p \notin {"login", "docker", "auto"}
  <2>1. Mount(v, p) = Send(n, p)
    BY <1>2, <1>9
  <2>2. p \in {"settings", "users"}
    BY <1>9, Types
  <2>3. Fit(Send(n, p), ss, ver) /\ Stays(Send(n, p), n)
    BY <1>5, <2>2, SendFits DEF Send
  <2> QED
    BY <1>3, <1>5, <2>1, <2>3 DEF Stays, Same
<1> QED
  BY <1>6, <1>7, <1>8, <1>9

LEMMA DoLogoutFits ==
  ASSUME NEW ss \in Issued, NEW ver \in Nat, NEW v, Fit(v, ss, ver), Guards(v)
  PROVE  LET n == DoLogout(v)
         IN  /\ Fit(n, ss, ver) /\ n.user = 0 /\ n.token = 0 /\ n.page = "login" /\ ~Trying(n)
             /\ n.ready = v.ready /\ n.seen = v.seen
             /\ v.page = "login" /\ v.tasks = {} => n.reads = {}
<1> DEFINE a == FailAttempt(v)
           b == [a EXCEPT !.token = 0, !.user = 0, !.asked = FALSE]
           c == CancelAll(b)
<1>1. DoLogout(v) = IF c.page = "login" THEN c ELSE Mount(c, "login")
  BY DEF DoLogout
<1>2. Fit(a, ss, ver) /\ Stays(a, v) /\ a.attempt = NoAttempt /\ a.tasks = v.tasks
  BY FailAttemptFits
<1> HIDE DEF a
<1>3. b \in Window /\ b.token = 0 /\ b.user = 0
  <2>1. 0 \in Tokens /\ a \in Window
    BY <1>2, Types DEF Fit, Sits, Tokens
  <2> QED
    BY <2>1 DEF Window
<1>4. /\ b.ready = a.ready /\ b.page = a.page /\ b.data = a.data
      /\ b.seen = a.seen /\ b.reads = a.reads /\ b.lost = a.lost
      /\ b.tasks = a.tasks /\ b.attempt = a.attempt
  BY <1>2 DEF Fit, Sits, Window
<1> HIDE DEF b
<1>5. Fit(b, ss, ver)
  <2>1. \A r \in b.reads : Honest(r, ss) /\ Timely(r, b)
    BY <1>2, <1>4 DEF Timely, Fit, Sits
  <2>2. 0 <= Len(ss)
    BY LenProperties DEF Issued
  <2> QED
    BY <1>2, <1>3, <1>4, <2>1, <2>2 DEF Fit, Sits, Rows
<1>6. /\ Fit(c, ss, ver) /\ Stays(c, b) /\ c.tasks = {} /\ c.attempt = NoAttempt
      /\ \A r \in c.reads : r.what = "policies"
      /\ b.tasks = {} => c.reads = {}
  BY <1>2, <1>4, <1>5, CancelAllFits
<1> HIDE DEF c
<1>7. ~Trying(c)
  BY <1>6 DEF Trying, NoAttempt
<1>8. CASE c.page = "login"
  BY <1>1, <1>2, <1>3, <1>4, <1>6, <1>7, <1>8 DEF Stays, Same
<1>9. CASE c.page # "login"
  <2>1. v.page # "login" /\ c.ready
    BY <1>2, <1>4, <1>6, <1>9 DEF Stays, Same, Guards, Fit, Sits
  <2>2. Fit(Mount(c, "login"), ss, ver) /\ Same(Mount(c, "login"), c) /\ Mount(c, "login").page = "login"
    BY <1>6, <2>1, MountFits, Types DEF Fit
  <2> QED
    BY <1>1, <1>2, <1>3, <1>4, <1>6, <1>7, <1>9, <2>1, <2>2 DEF Stays, Same
<1> QED
  BY <1>8, <1>9

\* The end of a session, whoever ends it, leaves nothing to sign in again.
LEMMA LogoutIsGood ==
  ASSUME NEW ss \in Issued, NEW ver \in Nat, NEW v, Fit(v, ss, ver), Guards(v)
  PROVE  Good(DoLogout(v), ss, ver)
BY DoLogoutFits DEF Good, Wanted, Guards

LEMMA ServerChangedFits ==
  ASSUME NEW ss \in Issued, NEW ver \in Nat, NEW v, Fit(v, ss, ver), v.ready,
         NEW version \in Nat, version <= ver
  PROVE  LET n == DockerServerChanged(v, version)
         IN  Fit(n, ss, ver) /\ n.user = v.user /\ n.token = v.token /\ n.page = v.page
             /\ n.asked = v.asked /\ n.ready = v.ready /\ (Trying(n) => Trying(v))
<1> DEFINE c == CancelAll(v)
           n == [c EXCEPT !.seen = version]
<1>1. DockerServerChanged(v, version) = IF n.page = "login" THEN n ELSE Mount(n, n.page)
  BY DEF DockerServerChanged
<1>2. Fit(c, ss, ver) /\ Stays(c, v) /\ \A r \in c.reads : r.what = "policies"
  BY CancelAllFits
<1> HIDE DEF c
<1>3. n \in Window /\ n.seen = version
  BY <1>2 DEF Fit, Sits, Window, Versions
<1>4. /\ n.token = c.token /\ n.user = c.user /\ n.ready = c.ready /\ n.asked = c.asked
      /\ n.page = c.page /\ n.reads = c.reads /\ n.lost = c.lost
      /\ n.tasks = c.tasks /\ n.data = c.data /\ n.attempt = c.attempt
  BY <1>2 DEF Fit, Sits, Window
<1> HIDE DEF n
<1>5. Sits(n, ss, ver)
  <2>1. \A r \in n.reads : Honest(r, ss) /\ Timely(r, n)
    BY <1>2, <1>4 DEF Timely, Fit, Sits
  <2> QED
    BY <1>2, <1>3, <1>4, <2>1 DEF Fit, Sits
<1>6. /\ n.user = v.user /\ n.token = v.token /\ n.page = v.page
      /\ n.asked = v.asked /\ n.ready = v.ready /\ (Trying(n) => Trying(v))
  BY <1>2, <1>4 DEF Stays, Same, Trying
<1>7. CASE n.page = "login"
  <2>1. n.data = 0
    BY <1>2, <1>4, <1>7 DEF Fit, Rows
  <2> QED
    BY <1>1, <1>5, <1>6, <1>7, <2>1 DEF Fit, Rows
<1>8. CASE n.page # "login"
  <2>1. n.page \in Pages
    BY <1>3 DEF Window
  <2>2. Fit(Mount(n, n.page), ss, ver) /\ Same(Mount(n, n.page), n) /\ Mount(n, n.page).page = n.page
    BY <1>5, <1>6, <2>1, MountFits
  <2> QED
    BY <1>1, <1>6, <1>8, <2>2 DEF Same
<1> QED
  BY <1>7, <1>8

\* What a page shows and types besides does not matter here.
Agrees(n, v) ==
  /\ n.token = v.token /\ n.user = v.user /\ n.ready = v.ready /\ n.asked = v.asked
  /\ n.attempt = v.attempt /\ n.page = v.page /\ n.data = v.data /\ n.seen = v.seen
  /\ n.reads = v.reads /\ n.tasks = v.tasks /\ n.lost = v.lost

LEMMA AgreeingFits ==
  ASSUME NEW ss \in Issued, NEW ver \in Nat, NEW v, Fit(v, ss, ver), NEW n \in Window, Agrees(n, v)
  PROVE  Fit(n, ss, ver) /\ Stays(n, v)
<1>1. \A r \in n.reads : Honest(r, ss) /\ Timely(r, n)
  BY DEF Timely, Fit, Sits, Agrees
<1>2. Fit(n, ss, ver)
  BY <1>1 DEF Fit, Sits, Rows, Agrees
<1> QED
  BY <1>2 DEF Stays, Same, Trying, Agrees

\* Tokens are only added and revoked, versions only grow.
LEMMA StillFits ==
  ASSUME NEW ss \in Issued, NEW ver \in Nat, NEW v, Fit(v, ss, ver),
         NEW tt \in Issued, NEW new \in Nat, ver <= new, Len(ss) <= Len(tt),
         \A i \in 1 .. Len(ss) : tt[i].alive => ss[i].alive
  PROVE  Fit(v, tt, new)
<1> Len(ss) \in Nat /\ Len(tt) \in Nat
  BY LenProperties DEF Issued
<1>1. \A t \in Tokens : t <= Len(ss) => t <= Len(tt) /\ (Taken(t, tt) => Taken(t, ss))
  BY Types DEF Taken, Tokens
<1>2. \A q : q.token \in Tokens /\ Honest(q, ss) => Honest(q, tt)
  BY <1>1 DEF Honest
<1>3. \A r \in v.reads : r.token \in Tokens
  BY DEF Fit, Sits, Window, Reads
<1>4. \A t \in v.tasks \cup v.lost : t.token \in Tokens /\ t.answer.version \in Nat
  BY DEF Fit, Sits, Window, Writes, Answers, Versions
<1>5. \A t \in v.tasks \cup v.lost : Proper(t, ver) => Proper(t, new)
  BY <1>4 DEF Proper
<1>6. v.token \in Tokens /\ v.user \in Tokens /\ v.attempt.token \in Tokens /\ v.seen \in Nat
  BY DEF Fit, Sits, Window, Attempts, Versions
<1>7. v.seen <= new
  BY <1>6 DEF Fit, Sits
<1>8. Sits(v, tt, new)
  BY <1>1, <1>2, <1>3, <1>4, <1>5, <1>6, <1>7 DEF Fit, Sits
<1> QED
  BY <1>8 DEF Fit
-----------------------------------------------------------------------------
(* The invariant, and what a step may do.                                  *)

Known ==
  /\ accounts \subseteq Users
  /\ sessions \in Issued /\ Len(sessions) <= MaxSessions
  /\ docker \in [servers : SUBSET Servers, active : Servers, version : Versions]
  /\ docker.active \in docker.servers
  /\ events \in Nat
SessionInv == Known /\ Good(w, sessions, docker.version)

\* Nobody is signed in, but when that was asked for.
SignIn == w'.user \notin {0, w.user} => w.asked /\ (w.ready \/ w'.user = w'.token)
\* No answer ends the session without cause.
Cause == w.user # 0 /\ w'.user = 0 /\ events' = events => ~Accepted(w.token) \/ w.attempt.step = "yes"
Right == SessionInv' /\ SignIn /\ Cause

LEMMA Facts ==
  ASSUME SessionInv
  PROVE  /\ sessions \in Issued /\ docker.version \in Nat /\ Len(sessions) \in Nat
         /\ Fit(w, sessions, docker.version) /\ Guards(w) /\ Wanted(w)
         /\ w \in Window /\ (w.user # 0 => w.ready)
BY LenProperties DEF SessionInv, Known, Good, Fit, Sits, Issued, Versions

LEMMA WindowMoves ==
  ASSUME SessionInv, UNCHANGED Backend, events' \in Nat, Good(w', sessions, docker.version)
  PROVE  SessionInv'
BY DEF SessionInv, Known, Backend, Issued, Versions

\* A click that signs nobody in.
LEMMA UserMoves ==
  ASSUME SessionInv, Event, UNCHANGED Backend, Good(w', sessions, docker.version), w'.user \in {0, w.user}
  PROVE  Right
<1>1. events' \in Nat /\ events' # events
  BY DEF Event, SessionInv, Known
<1> QED
  BY <1>1, WindowMoves DEF Right, SignIn, Cause

\* An operator that leaves user, route and wishes as they are.
LEMMA StaysGood ==
  ASSUME NEW ss \in Issued, NEW ver \in Nat, NEW v, Good(v, ss, ver), NEW n, Fit(n, ss, ver), Stays(n, v)
  PROVE  Good(n, ss, ver) /\ n.user = v.user
BY DEF Good, Wanted, Guards, Stays, Same

LEMMA MountGood ==
  ASSUME NEW ss \in Issued, NEW ver \in Nat, NEW v, Fit(v, ss, ver), Wanted(v), v.ready,
         NEW p \in Pages, v.user # 0 \/ p = "login"
  PROVE  Good(Mount(v, p), ss, ver) /\ Mount(v, p).user = v.user /\ Mount(v, p).token = v.token
<1>1. Fit(Mount(v, p), ss, ver) /\ Same(Mount(v, p), v) /\ Mount(v, p).page = p
  BY MountFits DEF Fit
<1> QED
  BY <1>1 DEF Good, Wanted, Guards, Same
-----------------------------------------------------------------------------
(* Clicks. *)

LEMMA VisitRight ==
  ASSUME SessionInv, NEW p \in Pages, Visit(p)
  PROVE  Right
<1> DEFINE n == Mount(w, p)
<1>1. User /\ Event /\ UNCHANGED Backend /\ w' = n /\ (w.user # 0 \/ p = "login") /\ w.ready
  BY DEF Visit, User
<1>2. Fit(n, sessions, docker.version) /\ Same(n, w) /\ n.page = p
  BY <1>1, Facts, MountFits DEF Fit
<1> HIDE DEF n
<1>3. Good(n, sessions, docker.version) /\ n.user = w.user
  BY <1>1, <1>2, Facts DEF Good, Wanted, Guards, Same
<1> QED
  BY <1>1, <1>3, UserMoves

LEMMA SubmitRight ==
  ASSUME SessionInv, NEW u \in Users, Submit(u)
  PROVE  Right
<1> DEFINE a == FailAttempt(w)
           b == [a EXCEPT !.reads = {r \in a.reads : r.what # "me"}]
           try == [step |-> w.login.configured, user |-> u, mine |-> TRUE, token |-> w.token]
           n == [b EXCEPT !.attempt = try, !.login.busy = TRUE, !.asked = TRUE]
<1>1. User /\ Event /\ UNCHANGED Backend /\ w' = n /\ w.ready /\ w.login.configured # "?"
  BY DEF Submit, User
<1>2. Fit(a, sessions, docker.version) /\ Stays(a, w)
  BY Facts, FailAttemptFits
<1> HIDE DEF a
<1>3. Fit(b, sessions, docker.version) /\ Stays(b, a)
  BY <1>2, Facts, DropFits
<1>4. try \in Attempts /\ try.step # None /\ try.user = u /\ try.token = w.token
  <2>1. w.login.configured \in {"no", "yes"} /\ w.token \in Tokens
    BY <1>1, Facts DEF Window
  <2> QED
    BY <2>1 DEF Attempts, None
<1> HIDE DEF b, try
<1>5. n \in Window /\ n.attempt = try /\ n.asked = TRUE
  BY <1>3, <1>4 DEF Fit, Sits, Window
<1>6. /\ n.token = b.token /\ n.user = b.user /\ n.ready = b.ready
      /\ n.page = b.page /\ n.data = b.data /\ n.seen = b.seen
      /\ n.reads = b.reads /\ n.tasks = b.tasks /\ n.lost = b.lost
  BY <1>3 DEF Fit, Sits, Window
<1> HIDE DEF n
<1>7. Fit(n, sessions, docker.version)
  <2>1. \A r \in n.reads : Honest(r, sessions) /\ Timely(r, n)
    BY <1>3, <1>6 DEF Timely, Fit, Sits
  <2>2. n.ready /\ n.attempt.token <= Len(sessions)
    BY <1>1, <1>2, <1>3, <1>4, <1>5, <1>6, Facts DEF Stays, Same, Fit, Sits
  <2> QED
    BY <1>3, <1>4, <1>5, <1>6, <2>1, <2>2 DEF Fit, Sits, Rows
<1>8. Good(n, sessions, docker.version) /\ n.user = w.user
  BY <1>2, <1>3, <1>5, <1>6, <1>7, Facts DEF Good, Wanted, Guards, Stays, Same
<1> QED
  BY <1>1, <1>8, UserMoves

LEMMA LogoutRight ==
  ASSUME SessionInv, Logout
  PROVE  Right
<1>1. User /\ Event /\ UNCHANGED Backend /\ w' = DoLogout(w)
  BY DEF Logout, User
<1>2. Good(DoLogout(w), sessions, docker.version) /\ DoLogout(w).user = 0
  BY Facts, LogoutIsGood, DoLogoutFits
<1> QED
  BY <1>1, <1>2, UserMoves

LEMMA NewTask ==
  ASSUME NEW ss \in Issued, NEW ver \in Nat, NEW v, Fit(v, ss, ver),
         NEW do \in {"write", "select", "edit", "add", "delete", "create", "remove", "password"},
         NEW arg \in Users \cup Servers \cup {None}, NEW hot \in BOOLEAN, NEW moves \in BOOLEAN,
         do \in {"select", "edit", "add", "delete"} => arg \in Servers,
         do \in {"create", "remove", "password"} => arg \in Users
  PROVE  LET t == [do |-> do, arg |-> arg, hot |-> hot, moves |-> moves, mine |-> TRUE,
                   token |-> v.token, answer |-> Pending]
         IN  t \in Writes /\ Honest(t, ss) /\ Proper(t, ver)
<1> DEFINE t == [do |-> do, arg |-> arg, hot |-> hot, moves |-> moves, mine |-> TRUE,
                 token |-> v.token, answer |-> Pending]
<1>1. v.token \in Tokens /\ v.token <= Len(ss) /\ Pending \in Answers
  BY Types DEF Fit, Sits, Window
<1>2. t \in Writes /\ t.do = do /\ t.arg = arg /\ t.token = v.token /\ t.answer = Pending
  BY <1>1 DEF Writes
<1> HIDE DEF t
<1>3. Honest(t, ss) /\ Proper(t, ver)
  BY <1>1, <1>2, Types DEF Honest, Proper
<1> QED
  BY <1>2, <1>3 DEF t

LEMMA AddTask ==
  ASSUME NEW ss \in Issued, NEW ver \in Nat, NEW v, Fit(v, ss, ver), v.ready,
         NEW t \in Writes, Honest(t, ss), Proper(t, ver)
  PROVE  LET n == [v EXCEPT !.tasks = @ \cup {t}] IN Fit(n, ss, ver) /\ Stays(n, v)
<1> DEFINE T == v.tasks \cup {t}
<1>1. T \in SUBSET Writes /\ \A x \in T : Honest(x, ss) /\ Proper(x, ver)
  BY DEF Fit, Sits, Window
<1> HIDE DEF T
<1>2. LET n == [v EXCEPT !.tasks = T] IN Fit(n, ss, ver) /\ Stays(n, v)
  BY <1>1, TasksFit
<1> QED
  BY <1>2 DEF T

\* Every write a page puts into the queue.
LEMMA QueueRight ==
  ASSUME SessionInv, User, UNCHANGED Backend,
         NEW do \in {"write", "select", "edit", "add", "delete", "create", "remove", "password"},
         NEW arg \in Users \cup Servers \cup {None}, NEW hot \in BOOLEAN, NEW moves \in BOOLEAN,
         do \in {"select", "edit", "add", "delete"} => arg \in Servers,
         do \in {"create", "remove", "password"} => arg \in Users,
         w' = Queue(do, arg, hot, moves)
  PROVE  Right
<1> DEFINE t == [do |-> do, arg |-> arg, hot |-> hot, moves |-> moves, mine |-> TRUE,
                 token |-> w.token, answer |-> Pending]
           n == [w EXCEPT !.tasks = @ \cup {t}]
<1>1. w' = n
  BY DEF Queue
<1>2. t \in Writes /\ Honest(t, sessions) /\ Proper(t, docker.version)
  BY Facts, NewTask
<1> HIDE DEF t
<1>3. Fit(n, sessions, docker.version) /\ Stays(n, w)
  BY <1>2, Facts, AddTask DEF User
<1> HIDE DEF n
<1>4. Good(n, sessions, docker.version) /\ n.user = w.user
  BY <1>3, Facts, StaysGood DEF SessionInv
<1> QED
  BY <1>1, <1>4, UserMoves DEF User

LEMMA TasksRight ==
  ASSUME SessionInv,
         \/ Write \/ ChangePassword
         \/ \E s \in Servers : Delete(s)
         \/ \E u \in Users : CreateUser(u) \/ RemoveUser(u)
  PROVE  Right
<1>1. CASE Write
  BY <1>1, QueueRight DEF Write
<1>2. CASE ChangePassword
  <2>1. w.editing \in Users
    BY <1>2, Facts DEF ChangePassword, Window
  <2> QED
    BY <1>2, <2>1, QueueRight DEF ChangePassword
<1>3. ASSUME NEW s \in Servers, Delete(s) PROVE Right
  BY <1>3, QueueRight DEF Delete
<1>4. ASSUME NEW u \in Users, CreateUser(u) PROVE Right
  BY <1>4, QueueRight DEF CreateUser
<1>5. ASSUME NEW u \in Users, RemoveUser(u) PROVE Right
  BY <1>5, QueueRight DEF RemoveUser
<1> QED
  BY <1>1, <1>2, <1>3, <1>4, <1>5

\* 使用, and a save that moves the active server, give the old requests up first.
LEMMA SelectRight ==
  ASSUME SessionInv, NEW s \in Servers, Select(s)
  PROVE  Right
<1> DEFINE c == CancelAll(w)
           t == [do |-> "select", arg |-> s, hot |-> TRUE, moves |-> FALSE,
                 mine |-> TRUE, token |-> w.token, answer |-> Pending]
           n == [c EXCEPT !.tasks = {t}]
<1>1. User /\ Event /\ UNCHANGED Backend /\ w' = n
  BY DEF Select, User
<1>2. Fit(c, sessions, docker.version) /\ Stays(c, w)
  BY Facts, CancelAllFits
<1>3. t \in Writes /\ Honest(t, sessions) /\ Proper(t, docker.version)
  BY Facts, NewTask
<1> HIDE DEF c, t
<1>4. Fit(n, sessions, docker.version) /\ Stays(n, c)
  <2>1. c.ready
    BY <1>1, <1>2 DEF User, Stays, Same
  <2>2. {t} \in SUBSET Writes /\ \A x \in {t} : Honest(x, sessions) /\ Proper(x, docker.version)
    BY <1>3
  <2> QED
    BY <1>2, <2>1, <2>2, Facts, TasksFit
<1> HIDE DEF n
<1>5. Good(n, sessions, docker.version) /\ n.user = w.user
  BY <1>2, <1>4, Facts, StaysGood DEF SessionInv
<1> QED
  BY <1>1, <1>5, UserMoves

LEMMA SaveRight ==
  ASSUME SessionInv, NEW s \in Servers, NEW moves \in BOOLEAN, Save(s, moves)
  PROVE  Right
<1> DEFINE hot == moves /\ s = w.active
           c == IF hot THEN CancelAll(w) ELSE w
           do == IF s \in docker.servers THEN "edit" ELSE "add"
           t == [do |-> do, arg |-> s, hot |-> hot, moves |-> moves,
                 mine |-> TRUE, token |-> w.token, answer |-> Pending]
           n == [c EXCEPT !.tasks = @ \cup {t}]
<1>1. User /\ Event /\ UNCHANGED Backend /\ w' = n
  BY DEF Save, User
<1>2. Fit(c, sessions, docker.version) /\ Stays(c, w)
  BY Facts, CancelAllFits DEF Stays, Same
<1>3. t \in Writes /\ Honest(t, sessions) /\ Proper(t, docker.version)
  <2>1. do \in {"edit", "add"} /\ hot \in BOOLEAN
    OBVIOUS
  <2> HIDE DEF do, hot
  <2> QED
    BY <2>1, Facts, NewTask
<1> HIDE DEF c, t
<1>4. Fit(n, sessions, docker.version) /\ Stays(n, c)
  <2>1. c.ready
    BY <1>1, <1>2 DEF User, Stays, Same
  <2> QED
    BY <1>2, <1>3, <2>1, Facts, AddTask
<1> HIDE DEF n
<1>5. Good(n, sessions, docker.version) /\ n.user = w.user
  BY <1>2, <1>4, Facts, StaysGood DEF SessionInv
<1> QED
  BY <1>1, <1>5, UserMoves

LEMMA RefreshAllRight ==
  ASSUME SessionInv, RefreshAll
  PROVE  Right
<1>1. User /\ Event /\ UNCHANGED Backend /\ w' = Settled(w)
  BY DEF RefreshAll, User
<1>2. Fit(Settled(w), sessions, docker.version) /\ Stays(Settled(w), w)
  BY <1>1, Facts, SettledFits DEF User
<1>3. Good(Settled(w), sessions, docker.version) /\ Settled(w).user = w.user
  BY <1>2, Facts, StaysGood DEF SessionInv
<1> QED
  BY <1>1, <1>3, UserMoves

LEMMA EditUserRight ==
  ASSUME SessionInv, NEW u \in Users \cup {None}, EditUser(u)
  PROVE  Right
<1> DEFINE n == [w EXCEPT !.editing = u]
<1>1. User /\ Event /\ UNCHANGED Backend /\ w' = n
  BY DEF EditUser, User
<1>2. n \in Window /\ Agrees(n, w)
  BY Facts DEF Window, Agrees
<1> HIDE DEF n
<1>3. Fit(n, sessions, docker.version) /\ Stays(n, w)
  BY <1>2, Facts, AgreeingFits
<1>4. Good(n, sessions, docker.version) /\ n.user = w.user
  BY <1>3, Facts, StaysGood DEF SessionInv
<1> QED
  BY <1>1, <1>4, UserMoves

\* The window as it opens knows nobody; with a token, it asks who that is.
LEMMA OpenedGood ==
  ASSUME NEW ss \in Issued, NEW ver \in Nat, NEW t \in Tokens, t <= Len(ss)
  PROVE  LET n == Opened(t)
         IN  Good(n, ss, ver) /\ n.user = 0 /\ (t = 0 => n.ready)
<1> DEFINE n == Opened(t)
           q == [what |-> "start", token |-> t, live |-> TRUE, answer |-> Pending]
           R == IF t = 0 THEN {} ELSE {q}
<1>1. n = [token |-> t, user |-> 0, ready |-> t = 0, asked |-> TRUE,
           attempt |-> NoAttempt, page |-> "login", login |-> NewLogin, editing |-> None,
           data |-> 0, listed |-> FALSE, policies |-> None, active |-> None, users |-> {}, seen |-> 0,
           reads |-> R, tasks |-> {}, lost |-> {}]
  BY DEF Opened
<1>2. q \in Reads /\ q.what = "start" /\ q.token = t /\ q.answer = Pending
  BY Types DEF Reads
<1>3. /\ NewLogin \in [configured : {"?", "no", "yes"}, busy : BOOLEAN]
      /\ NoAttempt \in Attempts /\ 0 \in Tokens
  BY Types DEF NewLogin, NoAttempt, Attempts, Tokens
<1>4. R \in SUBSET Reads /\ {} \in SUBSET Writes
  BY <1>2
<1> HIDE DEF n, q, R
<1>5. n \in Window
  BY <1>1, <1>3, <1>4, Types DEF Window, Versions
<1>6. /\ n.token = t /\ n.user = 0 /\ n.asked = TRUE /\ n.attempt = NoAttempt /\ n.page = "login"
      /\ n.data = 0 /\ n.seen = 0 /\ n.reads = R /\ n.tasks = {} /\ n.lost = {}
  BY <1>1
<1>7. n.ready <=> t = 0
  BY <1>1
<1>8. \A r \in n.reads : Honest(r, ss) /\ Timely(r, n)
  <2>1. CASE t = 0
    BY <1>6, <2>1 DEF R
  <2>2. CASE t # 0
    <3>1. n.reads = {q}
      BY <1>6, <2>2 DEF R
    <3>2. Honest(q, ss) /\ Timely(q, n)
      BY <1>2, <1>7, <2>2, <3>1, Types DEF Honest, Timely
    <3> QED
      BY <3>1, <3>2
  <2> QED
    BY <2>1, <2>2
<1>9. Fit(n, ss, ver)
  <2>1. 0 <= Len(ss)
    BY LenProperties DEF Issued
  <2>2. NoAttempt.step = None /\ NoAttempt.token = 0
    BY DEF NoAttempt
  <2> QED
    BY <1>5, <1>6, <1>8, <2>1, <2>2 DEF Fit, Sits, Rows
<1> QED
  BY <1>6, <1>7, <1>9 DEF Good, Wanted, Guards, n

LEMMA RestartRight ==
  ASSUME SessionInv, Restart
  PROVE  Right
<1> DEFINE o == Opened(w.token)
           L == w.lost \cup {t \in w.tasks : t.answer.is = "pending"}
           n == [o EXCEPT !.lost = L]
<1>1. Event /\ UNCHANGED Backend /\ w' = IF w.token = 0 THEN Mount(n, "login") ELSE n
  BY DEF Restart
<1>2. w.token \in Tokens /\ w.token <= Len(sessions)
  BY Facts DEF Fit, Sits, Window
<1>3. L \in SUBSET Writes /\ \A t \in L : Honest(t, sessions) /\ Proper(t, docker.version)
  BY Facts DEF Fit, Sits, Window
<1>4. Good(o, sessions, docker.version) /\ o.user = 0 /\ (w.token = 0 => o.ready)
  BY <1>2, Facts, OpenedGood
<1> HIDE DEF o, L
<1>5. Fit(n, sessions, docker.version) /\ Stays(n, o)
  BY <1>3, <1>4, Facts, LostFits DEF Good
<1> HIDE DEF n
<1>6. Good(n, sessions, docker.version) /\ n.user = 0
  BY <1>4, <1>5, Facts, StaysGood
<1>7. CASE w.token = 0
  <2>1. n.ready
    BY <1>4, <1>5, <1>7 DEF Stays, Same
  <2>2. Good(Mount(n, "login"), sessions, docker.version) /\ Mount(n, "login").user = 0
    BY <1>6, <2>1, Facts, Types, MountGood DEF Good
  <2> QED
    BY <1>1, <1>7, <2>2, UserMoves
<1>8. CASE w.token # 0
  BY <1>1, <1>6, <1>8, UserMoves
<1> QED
  BY <1>7, <1>8

\* Another window changes the token this one will send.
WithToken(v, t) == [v EXCEPT !.token = t]

LEMMA TokenFits ==
  ASSUME NEW ss \in Issued, Len(ss) <= MaxSessions, NEW ver \in Nat, NEW v, Good(v, ss, ver), NEW t \in 0 .. Len(ss)
  PROVE  Good(WithToken(v, t), ss, ver) /\ WithToken(v, t).user = v.user /\ WithToken(v, t).token = t
<1> DEFINE n == [v EXCEPT !.token = t]
<1>1. t \in Tokens /\ t <= Len(ss)
  BY Types, LenProperties DEF Issued, Tokens
<1>2. n \in Window /\ n.token = t
  BY <1>1 DEF Good, Fit, Sits, Window
<1>3. /\ n.user = v.user /\ n.ready = v.ready /\ n.asked = v.asked
      /\ n.attempt = v.attempt /\ n.page = v.page /\ n.data = v.data /\ n.seen = v.seen
      /\ n.reads = v.reads /\ n.tasks = v.tasks /\ n.lost = v.lost
  BY DEF Good, Fit, Sits, Window
<1> HIDE DEF n
<1>4. \A r \in n.reads : Honest(r, ss) /\ Timely(r, n)
  BY <1>3 DEF Timely, Good, Fit, Sits
<1>5. Fit(n, ss, ver)
  BY <1>1, <1>2, <1>3, <1>4 DEF Good, Fit, Sits, Rows
<1> QED
  BY <1>2, <1>3, <1>5 DEF Good, Wanted, Guards, Trying, n, WithToken

LEMMA AppendIssued ==
  ASSUME NEW ss \in Issued, NEW u \in Users
  PROVE  LET tt == Append(ss, [user |-> u, alive |-> TRUE])
         IN  /\ tt \in Issued /\ Len(tt) = Len(ss) + 1 /\ Len(ss) \in Nat
             /\ \A i \in 1 .. Len(ss) : tt[i].alive => ss[i].alive
<1> DEFINE e == [user |-> u, alive |-> TRUE]
<1>1. e \in [user : Users, alive : BOOLEAN]
  OBVIOUS
<1> HIDE DEF e
<1>2. Append(ss, e) \in Issued /\ Len(Append(ss, e)) = Len(ss) + 1 /\ \A i \in 1 .. Len(ss) : Append(ss, e)[i] = ss[i]
  BY <1>1, AppendProperties DEF Issued
<1>3. Len(ss) \in Nat
  BY LenProperties DEF Issued
<1> QED
  BY <1>2, <1>3 DEF e

LEMMA OtherSignsInRight ==
  ASSUME SessionInv, NEW u \in Users, OtherSignsIn(u)
  PROVE  Right
<1> DEFINE tt == Append(sessions, [user |-> u, alive |-> TRUE])
           n == WithToken(w, Len(tt))
<1>1. /\ Event /\ sessions' = tt /\ w' = n /\ Len(sessions) < MaxSessions
      /\ UNCHANGED <<accounts, docker>>
  BY DEF OtherSignsIn, WithToken
<1>2. /\ tt \in Issued /\ Len(tt) = Len(sessions) + 1 /\ Len(sessions) \in Nat
      /\ \A i \in 1 .. Len(sessions) : tt[i].alive => sessions[i].alive
  BY Facts, AppendIssued
<1> HIDE DEF tt
<1>3. Fit(w, tt, docker.version)
  BY <1>2, Facts, StillFits
<1>4. Good(w, tt, docker.version)
  BY <1>3, Facts DEF Good
<1>5. Len(tt) <= MaxSessions
  BY <1>1, <1>2, Types
<1>6. Good(n, tt, docker.version) /\ n.user = w.user
  BY <1>2, <1>4, <1>5, Facts, TokenFits
<1> HIDE DEF n
<1>7. Known' /\ events' # events
  BY <1>1, <1>2, <1>5 DEF Known, SessionInv, Event
<1> QED
  BY <1>1, <1>6, <1>7 DEF SessionInv, Right, SignIn, Cause

LEMMA OtherSignsOutRight ==
  ASSUME SessionInv, OtherSignsOut
  PROVE  Right
<1>1. Event /\ UNCHANGED Backend /\ w' = WithToken(w, 0)
  BY DEF OtherSignsOut, WithToken
<1>2. 0 \in 0 .. Len(sessions) /\ Len(sessions) <= MaxSessions
  BY Facts DEF SessionInv, Known
<1>3. Good(WithToken(w, 0), sessions, docker.version) /\ WithToken(w, 0).user = w.user
  BY <1>2, Facts, TokenFits DEF SessionInv
<1> QED
  BY <1>1, <1>3, UserMoves
-----------------------------------------------------------------------------
(* The backend.                                                            *)

\* What happens to the window while nobody clicks and nobody is signed in or out.
LEMMA QuietMoves ==
  ASSUME SessionInv, UNCHANGED <<Backend, events>>, Good(w', sessions, docker.version), w'.user = w.user
  PROVE  Right
<1>1. events' \in Nat
  BY DEF SessionInv, Known
<1> QED
  BY <1>1, WindowMoves DEF Right, SignIn, Cause

LEMMA PollRight ==
  ASSUME SessionInv, Poll
  PROVE  Right
<1>1. w.page = "docker" /\ UNCHANGED <<Backend, events>> /\ w' = Send(w, "data")
  BY DEF Poll
<1>2. w.ready
  BY <1>1, Facts DEF Guards
<1>3. Fit(Send(w, "data"), sessions, docker.version) /\ Stays(Send(w, "data"), w)
  BY <1>1, <1>2, Facts, SendFits DEF Send
<1>4. Good(Send(w, "data"), sessions, docker.version) /\ Send(w, "data").user = w.user
  BY <1>3, Facts, StaysGood DEF SessionInv
<1> QED
  BY <1>1, <1>4, QuietMoves

LEMMA ServeRight ==
  ASSUME SessionInv, NEW r \in w.reads, Serve(r)
  PROVE  Right
<1> DEFINE a == IF r.what = "setup" THEN Found
                ELSE IF ~Accepted(r.token) THEN Refused
                ELSE IF r.what \in {"settings", "users"} /\ ~IsAdmin(r.token) THEN Forbidden
                ELSE Found
           q == [r EXCEPT !.answer = a]
           R == (w.reads \ {r}) \cup {q}
           n == [w EXCEPT !.reads = R]
<1>1. UNCHANGED <<Backend, events>> /\ w' = n
  BY DEF Serve, Replace
<1>2. /\ a \in Answers /\ (a.is = "401" => ~Taken(r.token, sessions))
      /\ (a.is = "ok" => a.version = docker.version)
  <2>1. Found \in Answers /\ Found.is = "ok" /\ Found.version = docker.version
    BY DEF Found, Answers, SessionInv, Known, Versions
  <2>2. a = Refused => ~Accepted(r.token)
    BY <2>1, Types
  <2>3. a \in {Found, Refused, Forbidden}
    OBVIOUS
  <2> HIDE DEF a
  <2> QED
    BY <2>1, <2>2, <2>3, Types DEF Accepted, Taken
<1> HIDE DEF a
<1>3. r \in Reads
  BY Facts DEF Window
<1>4. q \in Reads /\ q.what = r.what /\ q.token = r.token /\ q.answer = a
  BY <1>2, <1>3 DEF Reads
<1> HIDE DEF q
<1>5. R \in SUBSET Reads
  BY <1>4, Facts DEF Window
<1>6. n \in Window /\ n.reads = R
  <2> HIDE DEF R
  <2> QED BY <1>5, Facts DEF Window
<1>7. /\ n.token = w.token /\ n.user = w.user /\ n.ready = w.ready /\ n.asked = w.asked
      /\ n.attempt = w.attempt /\ n.page = w.page /\ n.data = w.data /\ n.seen = w.seen
      /\ n.tasks = w.tasks /\ n.lost = w.lost
  BY Facts DEF Window
<1> HIDE DEF n
<1>8. \A x \in w.reads : Honest(x, sessions) /\ Timely(x, w)
  BY Facts DEF Fit, Sits
<1>9. Honest(q, sessions)
  BY <1>2, <1>4, <1>8 DEF Honest
<1>10. Timely(q, n)
  <2>1. w.reads = {r} => n.reads = {q}
    BY <1>6
  <2>2. q.what = "data" /\ q.answer.is = "ok" => w.seen <= q.answer.version
    BY <1>2, <1>4, Facts DEF Fit, Sits
  <2> QED
    BY <1>4, <1>7, <1>8, <2>1, <2>2 DEF Timely
<1>11. \A x \in n.reads : Honest(x, sessions) /\ Timely(x, n)
  <2> SUFFICES ASSUME NEW x \in w.reads, x # r PROVE Honest(x, sessions) /\ Timely(x, n)
    BY <1>6, <1>9, <1>10
  <2>1. Honest(x, sessions) /\ Timely(x, w) /\ x.what # "start"
    BY <1>8 DEF Timely
  <2> QED
    BY <1>7, <2>1 DEF Timely
<1>12. Fit(n, sessions, docker.version)
  BY <1>6, <1>7, <1>11, Facts DEF Fit, Sits, Rows
<1>13. Trying(n) => Trying(w)
  BY <1>4, <1>6, <1>7 DEF Trying
<1>14. Good(n, sessions, docker.version)
  BY <1>7, <1>12, <1>13, Facts DEF Good, Wanted, Guards
<1> QED
  BY <1>1, <1>7, <1>14, QuietMoves

\* A write is answered, or was nobody's any more.
LEMMA AnsweredFits ==
  ASSUME w \in Window, NEW ss \in Issued, NEW ver \in Nat, Fit(w, ss, ver), NEW t \in w.tasks \cup w.lost,
         NEW a \in Answers, a.version <= ver, a.is = "401" => ~Taken(t.token, ss)
  PROVE  Fit(Answered(t, a), ss, ver) /\ Stays(Answered(t, a), w)
<1> DEFINE q == [t EXCEPT !.answer = a]
           T == (w.tasks \ {t}) \cup {q}
           L == w.lost \ {t}
<1>1. Answered(t, a) = IF t \in w.tasks THEN [w EXCEPT !.tasks = T] ELSE [w EXCEPT !.lost = L]
  BY DEF Answered
<1>2. t \in Writes /\ Honest(t, ss) /\ Proper(t, ver)
  BY DEF Fit, Sits, Window
<1>3. q \in Writes /\ q.do = t.do /\ q.arg = t.arg /\ q.token = t.token /\ q.answer = a
  BY <1>2 DEF Writes
<1> HIDE DEF q
<1>4. Honest(q, ss) /\ Proper(q, ver)
  BY <1>2, <1>3 DEF Honest, Proper
<1>5. CASE t \in w.tasks
  <2>1. T \in SUBSET Writes /\ \A x \in T : Honest(x, ss) /\ Proper(x, ver)
    BY <1>3, <1>4 DEF Fit, Sits, Window
  <2>2. w.ready
    BY <1>5 DEF Fit, Sits
  <2> HIDE DEF T
  <2>3. LET n == [w EXCEPT !.tasks = T] IN Fit(n, ss, ver) /\ Stays(n, w)
    BY <2>1, <2>2, TasksFit
  <2> QED
    BY <1>1, <1>5, <2>3
<1>6. CASE t \notin w.tasks
  <2>1. L \in SUBSET Writes /\ \A x \in L : Honest(x, ss) /\ Proper(x, ver)
    BY DEF Fit, Sits, Window
  <2> HIDE DEF L
  <2>2. LET n == [w EXCEPT !.lost = L] IN Fit(n, ss, ver) /\ Stays(n, w)
    BY <2>1, LostFits
  <2> QED
    BY <1>1, <1>6, <2>2
<1> QED
  BY <1>5, <1>6

\* What a write does to the accounts, the tokens and the servers.
LEMMA ApplyKept ==
  ASSUME SessionInv, NEW t \in w.tasks \cup w.lost, Apply(t), events' = events
  PROVE  /\ Known' /\ docker'.version \in Nat /\ docker.version <= docker'.version
         /\ Len(sessions) <= Len(sessions')
         /\ \A i \in 1 .. Len(sessions) : sessions'[i].alive => sessions[i].alive
<1> DEFINE S == [user : Users, alive : BOOLEAN]
<1>1. Proper(t, docker.version) /\ t.do \in {"write", "select", "edit", "add", "delete", "create", "remove", "password"}
  BY Facts DEF Fit, Sits, Window, Writes
<1>2. /\ accounts \subseteq Users /\ sessions \in Issued /\ Len(sessions) <= MaxSessions
      /\ docker \in [servers : SUBSET Servers, active : Servers, version : Nat]
      /\ docker.active \in docker.servers /\ events' \in Nat /\ Len(sessions) \in Nat
  BY Facts DEF SessionInv, Known, Versions
<1>3. ASSUME NEW u
      PROVE  /\ Revoked(u) \in Issued /\ Len(Revoked(u)) = Len(sessions)
             /\ \A i \in 1 .. Len(sessions) : Revoked(u)[i].alive => sessions[i].alive
  <2>1. DOMAIN sessions = 1 .. Len(sessions) /\ \A i \in 1 .. Len(sessions) : sessions[i] \in S
    BY <1>2, LenProperties, ElementOfSeq DEF Issued
  <2>2. Revoked(u) = [i \in 1 .. Len(sessions) |->
                        IF sessions[i].user = u THEN [sessions[i] EXCEPT !.alive = FALSE] ELSE sessions[i]]
    BY <2>1 DEF Revoked
  <2>3. \A i \in 1 .. Len(sessions) : Revoked(u)[i] \in S /\ (Revoked(u)[i].alive => sessions[i].alive)
    <3> TAKE i \in 1 .. Len(sessions)
    <3>1. PICK e \in S : e = sessions[i]
      BY <2>1
    <3>2. [e EXCEPT !.alive = FALSE] \in S /\ [e EXCEPT !.alive = FALSE].alive = FALSE
      OBVIOUS
    <3> HIDE DEF S
    <3>3. Revoked(u)[i] = IF e.user = u THEN [e EXCEPT !.alive = FALSE] ELSE e
      BY <2>2, <3>1
    <3> QED
      BY <3>1, <3>2, <3>3
  <2>4. Revoked(u) \in [1 .. Len(sessions) -> S]
    BY <2>2, <2>3
  <2> HIDE DEF S
  <2>5. Revoked(u) \in Seq(S) /\ Len(Revoked(u)) = Len(sessions)
    BY <1>2, <2>4, SeqDef, LenProperties
  <2> QED
    BY <2>3, <2>5 DEF Issued, S
<1>4. ASSUME NEW s \in Servers, s \in docker.servers
      PROVE  /\ Switched(s) \in [servers : SUBSET Servers, active : Servers, version : Nat]
             /\ Switched(s).active \in Switched(s).servers /\ docker.version <= Switched(s).version
  <2>1. docker.version + 1 \in Nat /\ docker.version <= docker.version + 1
    BY <1>2
  <2> DEFINE next == docker.version + 1
  <2>2. Switched(s) = [docker EXCEPT !.active = s, !.version = next]
    BY DEF Switched
  <2> HIDE DEF next
  <2>3. next \in Nat
    BY <2>1 DEF next
  <2>4. /\ Switched(s) \in [servers : SUBSET Servers, active : Servers, version : Nat]
        /\ Switched(s).active = s /\ Switched(s).servers = docker.servers /\ Switched(s).version = next
    BY <1>2, <2>2, <2>3
  <2> QED
    BY <1>4, <2>1, <2>4 DEF next
<1> HIDE DEF S
<1>5. CASE t.do = "select"
  <2>1. /\ t.arg \in docker.servers /\ docker' = (IF t.arg = docker.active THEN docker ELSE Switched(t.arg))
        /\ UNCHANGED <<accounts, sessions>>
    BY <1>5 DEF Apply
  <2> QED
    BY <1>1, <1>2, <1>4, <1>5, <2>1 DEF Known, Proper, Versions
<1>6. CASE t.do = "edit"
  <2>1. /\ t.arg \in docker.servers
        /\ docker' = (IF t.arg = docker.active /\ t.moves THEN Switched(t.arg) ELSE docker)
        /\ UNCHANGED <<accounts, sessions>>
    BY <1>6 DEF Apply
  <2> QED
    BY <1>1, <1>2, <1>4, <1>6, <2>1 DEF Known, Proper, Versions
<1>7. CASE t.do = "add"
  <2>1. docker' = [docker EXCEPT !.servers = @ \cup {t.arg}] /\ UNCHANGED <<accounts, sessions>>
    BY <1>7 DEF Apply
  <2> QED
    BY <1>1, <1>2, <1>7, <2>1 DEF Known, Proper, Versions
<1>8. CASE t.do = "delete"
  <2>1. /\ t.arg \in docker.servers \ {docker.active}
        /\ docker' = [docker EXCEPT !.servers = @ \ {t.arg}] /\ UNCHANGED <<accounts, sessions>>
    BY <1>8 DEF Apply
  <2> QED
    BY <1>1, <1>2, <1>8, <2>1 DEF Known, Proper, Versions
<1>9. CASE t.do = "create"
  <2>1. accounts' = accounts \cup {t.arg} /\ UNCHANGED <<docker, sessions>>
    BY <1>9 DEF Apply
  <2> QED
    BY <1>1, <1>2, <1>9, <2>1 DEF Known, Proper, Versions
<1>10. CASE t.do = "remove"
  <2>1. accounts' = accounts \ {t.arg} /\ sessions' = Revoked(t.arg) /\ UNCHANGED docker
    BY <1>10 DEF Apply
  <2> QED
    BY <1>1, <1>2, <1>3, <1>10, <2>1 DEF Known, Proper, Versions
<1>11. CASE t.do = "password"
  <2>1. sessions' = Revoked(t.arg) /\ UNCHANGED <<docker, accounts>>
    BY <1>11 DEF Apply
  <2> QED
    BY <1>1, <1>2, <1>3, <1>11, <2>1 DEF Known, Proper, Versions
<1>12. CASE t.do = "write"
  <2>1. UNCHANGED Backend
    BY <1>12 DEF Apply
  <2> QED
    BY <1>1, <1>2, <1>12, <2>1 DEF Known, Proper, Versions, Backend
<1> QED
  BY <1>1, <1>5, <1>6, <1>7, <1>8, <1>9, <1>10, <1>11, <1>12

LEMMA HandleRight ==
  ASSUME SessionInv, NEW t \in w.tasks \cup w.lost, Handle(t)
  PROVE  Right
<1> DEFINE a == [Pending EXCEPT !.is = "ok", !.version = docker'.version]
           n == Answered(t, a)
<1>1. Apply(t) /\ events' = events /\ w' = n
  BY DEF Handle
<1>2. /\ Known' /\ docker'.version \in Nat /\ docker.version <= docker'.version
      /\ Len(sessions) <= Len(sessions')
      /\ \A i \in 1 .. Len(sessions) : sessions'[i].alive => sessions[i].alive
  BY <1>1, ApplyKept
<1>3. a \in Answers /\ a.version = docker'.version /\ a.is = "ok"
  BY <1>2 DEF Pending, Answers, Versions, None
<1>4. sessions' \in Issued
  BY <1>2 DEF Known
<1>5. Fit(w, sessions', docker'.version)
  BY <1>2, <1>4, Facts, StillFits
<1> HIDE DEF a
<1>6. Fit(n, sessions', docker'.version) /\ Stays(n, w)
  <2>1. a.version <= docker'.version /\ (a.is = "401" => ~Taken(t.token, sessions'))
    BY <1>2, <1>3
  <2> QED
    BY <1>2, <1>3, <1>4, <1>5, <2>1, Facts, AnsweredFits
<1> HIDE DEF n
<1>7. Good(n, sessions', docker'.version) /\ n.user = w.user
  BY <1>6, Facts DEF Good, Wanted, Guards, Stays, Same
<1>8. SessionInv'
  BY <1>1, <1>2, <1>7 DEF SessionInv
<1> QED
  BY <1>1, <1>7, <1>8 DEF Right, SignIn, Cause

LEMMA RefuseRight ==
  ASSUME SessionInv, NEW t \in w.tasks \cup w.lost, Refuse(t)
  PROVE  Right
<1> DEFINE a == IF Accepted(t.token) THEN Forbidden ELSE Refused
           n == Answered(t, a)
<1>1. UNCHANGED <<Backend, events>> /\ w' = n
  BY DEF Refuse
<1>2. a \in Answers /\ a.version = 0 /\ (a.is = "401" => ~Taken(t.token, sessions))
  BY Types DEF Accepted, Taken
<1> HIDE DEF a
<1>3. a.version <= docker.version
  BY <1>2, Facts
<1>4. Fit(n, sessions, docker.version) /\ Stays(n, w)
  BY <1>2, <1>3, Facts, AnsweredFits
<1> HIDE DEF n
<1>5. Good(n, sessions, docker.version) /\ n.user = w.user
  BY <1>4, Facts, StaysGood DEF SessionInv
<1> QED
  BY <1>1, <1>5, QuietMoves
-----------------------------------------------------------------------------
(* Answers.                                                                *)

LEMMA LoginFailsRight ==
  ASSUME SessionInv, LoginFails
  PROVE  Right
<1>1. UNCHANGED <<Backend, events>> /\ w' = FailAttempt(w)
  BY DEF LoginFails
<1>2. Fit(FailAttempt(w), sessions, docker.version) /\ Stays(FailAttempt(w), w)
  BY Facts, FailAttemptFits
<1>3. Good(FailAttempt(w), sessions, docker.version) /\ FailAttempt(w).user = w.user
  BY <1>2, Facts, StaysGood DEF SessionInv
<1> QED
  BY <1>1, <1>3, QuietMoves

\* A 401 that ends the session leaves a good window behind.
LEMMA UnauthorizedGood ==
  ASSUME NEW ss \in Issued, NEW ver \in Nat, NEW v, Good(v, ss, ver), NEW t
  PROVE  LET n == Unauthorized(v, t)
         IN  /\ Good(n, ss, ver) /\ n.ready = v.ready /\ n.user \in {0, v.user}
             /\ n.user # v.user => t = v.token
             /\ v.reads = {} /\ v.tasks = {} /\ v.user = 0 => n.reads = {} /\ n.user = 0
<1>1. CASE t = v.token
  <2>1. Unauthorized(v, t) = DoLogout(v)
    BY <1>1 DEF Unauthorized
  <2>2. /\ Good(DoLogout(v), ss, ver) /\ DoLogout(v).ready = v.ready /\ DoLogout(v).user = 0
        /\ v.page = "login" /\ v.tasks = {} => DoLogout(v).reads = {}
    BY LogoutIsGood, DoLogoutFits DEF Good
  <2>3. v.user = 0 => v.page = "login"
    BY DEF Good, Guards
  <2> QED
    BY <1>1, <2>1, <2>2, <2>3
<1>2. CASE t # v.token
  BY <1>2 DEF Unauthorized
<1> QED
  BY <1>1, <1>2

LEMMA LoginRefusedRight ==
  ASSUME SessionInv, LoginRefused
  PROVE  Right
<1> DEFINE u == Unauthorized(w, w.attempt.token)
           n == FailAttempt(u)
<1>1. UNCHANGED <<Backend, events>> /\ w' = n /\ w.attempt.step = "yes"
  BY DEF LoginRefused
<1>2. Good(u, sessions, docker.version) /\ u.user \in {0, w.user}
  BY Facts, UnauthorizedGood DEF SessionInv
<1> HIDE DEF u
<1>3. Fit(n, sessions, docker.version) /\ Stays(n, u)
  BY <1>2, Facts, FailAttemptFits DEF Good
<1> HIDE DEF n
<1>4. Good(n, sessions, docker.version) /\ n.user = u.user
  BY <1>2, <1>3, Facts, StaysGood
<1>5. events' \in Nat
  BY <1>1 DEF SessionInv, Known
<1> QED
  BY <1>1, <1>2, <1>4, <1>5, WindowMoves DEF Right, SignIn, Cause

\* The token of the new session is stored, and /me asked for under it.
LEMMA LoginAnswersRight ==
  ASSUME SessionInv, LoginAnswers
  PROVE  Right
<1> DEFINE tt == Append(sessions, [user |-> w.attempt.user, alive |-> TRUE])
           k == Len(tt)
           m == [w EXCEPT !.token = k, !.attempt.step = "me", !.attempt.token = k]
           q == [what |-> "me", token |-> m.token, live |-> TRUE, answer |-> Pending]
           n == [m EXCEPT !.reads = @ \cup {q}]
<1>1. /\ w.attempt.step \in {"yes", "no"} /\ Len(sessions) < MaxSessions
      /\ accounts' = accounts \cup {w.attempt.user} /\ sessions' = tt /\ w' = n
      /\ UNCHANGED <<docker, events>>
  BY DEF LoginAnswers, Send, SendAs
<1>2. w.attempt.user \in Users /\ w.ready /\ w.asked /\ w.attempt \in Attempts
  BY <1>1, Facts DEF Fit, Sits, None, Wanted, Trying, Window
<1>3. /\ tt \in Issued /\ k = Len(sessions) + 1 /\ Len(sessions) \in Nat
      /\ \A i \in 1 .. Len(sessions) : tt[i].alive => sessions[i].alive
  BY <1>2, Facts, AppendIssued
<1> HIDE DEF tt
<1>4. Fit(w, tt, docker.version)
  BY <1>3, Facts, StillFits
<1>5. k \in Tokens /\ k # 0 /\ k <= Len(tt)
  BY <1>1, <1>3, Types DEF Tokens
<1> HIDE DEF k
<1>6. /\ m \in Window /\ m.token = k /\ m.attempt.token = k /\ m.attempt.step = "me"
      /\ m.attempt.user = w.attempt.user
  <2> DEFINE att == [w.attempt EXCEPT !.step = "me", !.token = k]
  <2>1. att \in Attempts /\ att.step = "me" /\ att.token = k /\ att.user = w.attempt.user
    BY <1>2, <1>5 DEF Attempts
  <2>2. m = [w EXCEPT !.token = k, !.attempt = att]
    OBVIOUS
  <2> HIDE DEF att, m
  <2> QED
    BY <1>5, <2>1, <2>2, Facts DEF Window
<1>7. /\ m.user = w.user /\ m.ready = w.ready /\ m.asked = w.asked
      /\ m.page = w.page /\ m.data = w.data /\ m.seen = w.seen
      /\ m.reads = w.reads /\ m.tasks = w.tasks /\ m.lost = w.lost
  BY Facts DEF Window
<1> HIDE DEF m
<1>8. q \in Reads /\ q.what = "me" /\ q.token = k /\ q.answer = Pending
  BY <1>5, <1>6, Types DEF Reads
<1> HIDE DEF q
<1>9. n \in Window /\ n.reads = w.reads \cup {q}
  BY <1>6, <1>7, <1>8 DEF Window
<1>10. /\ n.token = k /\ n.user = w.user /\ n.ready = w.ready /\ n.asked = w.asked
       /\ n.attempt = m.attempt /\ n.page = w.page /\ n.data = w.data /\ n.seen = w.seen
       /\ n.tasks = w.tasks /\ n.lost = w.lost
  BY <1>6, <1>7 DEF Window
<1> HIDE DEF n
<1>11. \A r \in n.reads : Honest(r, tt) /\ Timely(r, n)
  <2> SUFFICES ASSUME NEW r \in n.reads PROVE Honest(r, tt) /\ Timely(r, n)
    OBVIOUS
  <2>1. CASE r = q
    BY <1>2, <1>5, <1>8, <1>10, <2>1, Types DEF Honest, Timely
  <2>2. CASE r \in w.reads
    BY <1>2, <1>4, <1>10, <2>2 DEF Timely, Fit, Sits
  <2> QED
    BY <1>9, <2>1, <2>2
<1>12. Fit(n, tt, docker.version)
  <2>1. n.attempt.step # None /\ n.attempt.step # "-"
    BY <1>6, <1>10 DEF None
  <2> QED
    BY <1>2, <1>4, <1>5, <1>6, <1>9, <1>10, <1>11, <2>1 DEF Fit, Sits, Rows
<1>13. Good(n, tt, docker.version)
  BY <1>2, <1>10, <1>12, Facts DEF Good, Wanted, Guards
<1>14. Known'
  BY <1>1, <1>2, <1>3, Types DEF SessionInv, Known, k
<1> QED
  BY <1>1, <1>10, <1>13, <1>14 DEF SessionInv, Right, SignIn, Cause

\* The start ends: whoever the token belongs to is signed in if it is still there.
LEMMA StartsGood ==
  ASSUME NEW ss \in Issued, NEW ver \in Nat, NEW v, Good(v, ss, ver), v.reads = {}, v.user = 0,
         NEW r, r.token \in Tokens, r.token # 0, r.token <= Len(ss)
  PROVE  LET n == Starts(v, r)
         IN  Good(n, ss, ver) /\ (n.user # 0 => n.user = n.token /\ r.answer.is = "ok")
<1> DEFINE m == [v EXCEPT !.ready = TRUE]
           s == [m EXCEPT !.user = r.token]
<1>1. Starts(v, r) = IF r.answer.is = "ok" /\ m.token = r.token THEN Mount(s, "docker") ELSE Mount(m, "login")
  BY DEF Starts
<1>2. m \in Window /\ m.ready
  BY DEF Good, Fit, Sits, Window
<1>3. /\ m.token = v.token /\ m.user = 0 /\ m.asked = v.asked
      /\ m.attempt = v.attempt /\ m.page = v.page /\ m.data = v.data /\ m.seen = v.seen
      /\ m.reads = {} /\ m.tasks = v.tasks /\ m.lost = v.lost
  BY DEF Good, Fit, Sits, Window
<1> HIDE DEF m
<1>4. Fit(m, ss, ver)
  BY <1>2, <1>3 DEF Good, Fit, Sits, Rows
<1>5. Wanted(m)
  BY <1>3 DEF Good, Wanted, Trying
<1>6. s \in Window /\ s.user = r.token
  BY <1>2 DEF Window
<1>7. /\ s.token = m.token /\ s.ready = m.ready /\ s.asked = m.asked
      /\ s.attempt = m.attempt /\ s.page = m.page /\ s.data = m.data /\ s.seen = m.seen
      /\ s.reads = {} /\ s.tasks = m.tasks /\ s.lost = m.lost
  BY <1>2, <1>3 DEF Window
<1> HIDE DEF s
<1>8. Fit(s, ss, ver) /\ Wanted(s) /\ s.ready
  <2>1. Fit(s, ss, ver)
    BY <1>2, <1>4, <1>6, <1>7 DEF Fit, Sits, Rows
  <2> QED
    BY <1>2, <1>5, <1>7, <2>1, <1>3 DEF Wanted, Trying
<1>9. CASE r.answer.is = "ok" /\ m.token = r.token
  <2>1. Good(Mount(s, "docker"), ss, ver) /\ Mount(s, "docker").user = s.user /\ Mount(s, "docker").token = s.token
    BY <1>6, <1>8, Types, MountGood
  <2> QED
    BY <1>1, <1>6, <1>7, <1>9, <2>1
<1>10. CASE ~(r.answer.is = "ok" /\ m.token = r.token)
  <2>1. Good(Mount(m, "login"), ss, ver) /\ Mount(m, "login").user = 0
    BY <1>2, <1>3, <1>4, <1>5, Types, MountGood
  <2> QED
    BY <1>1, <1>10, <2>1
<1> QED
  BY <1>9, <1>10

\* The answer of a read that was not given up and found what it asked for.
LEMMA UsesGood ==
  ASSUME NEW ss \in Issued, NEW ver \in Nat, NEW v, Good(v, ss, ver), v.ready,
         NEW r \in Reads, r.what # "start", r.what = "me" => r.token # 0, r.token <= Len(ss),
         r.what = "data" => v.page = "docker" /\ v.seen <= r.answer.version
  PROVE  LET n == Uses(v, r)
         IN  Good(n, ss, ver) /\ (n.user # v.user => r.what = "me" /\ n.user = r.token)
<1>1. Fit(v, ss, ver) /\ v \in Window /\ r.answer \in Answers
  BY DEF Good, Fit, Sits, Reads
<1>2. CASE ~r.live
  BY <1>2 DEF Uses
<1>3. CASE r.live /\ r.what = "me"
  <2> DEFINE n == [v EXCEPT !.user = r.token, !.attempt = NoAttempt]
  <2>1. Uses(v, r) = Mount(n, "docker")
    BY <1>3 DEF Uses, SignsIn
  <2>2. NoAttempt \in Attempts /\ NoAttempt.step = None /\ NoAttempt.token = 0 /\ r.token \in Tokens
    BY Types DEF NoAttempt, Attempts, Tokens, Reads
  <2>3. n \in Window /\ n.user = r.token /\ n.attempt = NoAttempt
    BY <1>1, <2>2 DEF Window
  <2>4. /\ n.token = v.token /\ n.ready = v.ready /\ n.asked = v.asked
        /\ n.page = v.page /\ n.data = v.data /\ n.seen = v.seen
        /\ n.reads = v.reads /\ n.tasks = v.tasks /\ n.lost = v.lost
    BY <1>1 DEF Window
  <2> HIDE DEF n
  <2>5. \A q \in n.reads : Honest(q, ss) /\ Timely(q, n)
    BY <1>1, <2>4 DEF Timely, Fit, Sits
  <2>6. n.attempt.token <= Len(ss)
    BY <2>2, <2>3, LenProperties DEF Issued
  <2>7. Fit(n, ss, ver)
    BY <1>1, <2>2, <2>3, <2>4, <2>5, <2>6 DEF Fit, Sits, Rows
  <2>8. Wanted(n)
    BY <2>2, <2>3, <2>4 DEF Good, Wanted, Trying
  <2>9. n.ready /\ n.user # 0 /\ "docker" \in Pages
    BY <1>3, <2>3, <2>4, Types
  <2>10. Good(Mount(n, "docker"), ss, ver) /\ Mount(n, "docker").user = n.user
    BY <2>7, <2>8, <2>9, MountGood
  <2> QED
    BY <1>3, <2>1, <2>3, <2>10
<1>4. CASE r.live /\ r.what = "data"
  <2> DEFINE n == [v EXCEPT !.data = r.answer.version]
  <2>1. Uses(v, r) = n
    BY <1>4 DEF Uses
  <2>2. n \in Window /\ n.data = r.answer.version
    BY <1>1 DEF Window, Answers
  <2>3. /\ n.token = v.token /\ n.user = v.user /\ n.ready = v.ready /\ n.asked = v.asked
        /\ n.attempt = v.attempt /\ n.page = v.page /\ n.seen = v.seen
        /\ n.reads = v.reads /\ n.tasks = v.tasks /\ n.lost = v.lost
    BY <1>1 DEF Window
  <2> HIDE DEF n
  <2>4. \A q \in n.reads : Honest(q, ss) /\ Timely(q, n)
    BY <1>1, <2>3 DEF Timely, Fit, Sits
  <2>5. Fit(n, ss, ver)
    BY <1>1, <1>4, <2>2, <2>3, <2>4 DEF Fit, Sits, Rows
  <2>6. Stays(n, v)
    BY <2>3 DEF Stays, Same, Trying
  <2> QED
    BY <2>1, <2>5, <2>6, StaysGood
<1>5. CASE r.live /\ r.what \in {"policies", "setup", "settings", "users"}
  <2> DEFINE set == IF r.answer.accounts = {} THEN "no" ELSE "yes"
             n1 == [v EXCEPT !.policies = r.answer.active]
             n2 == [v EXCEPT !.login.configured = set]
             n3 == [v EXCEPT !.active = r.answer.active]
             n4 == [v EXCEPT !.users = r.answer.accounts]
  <2>1. Uses(v, r) \in {n1, n2, n3, n4}
    <3>1. r.what = "policies" => Uses(v, r) = n1
      BY <1>5 DEF Uses
    <3>2. r.what = "setup" => Uses(v, r) = n2
      BY <1>5 DEF Uses
    <3>3. r.what = "settings" => Uses(v, r) = n3
      BY <1>5 DEF Uses
    <3>4. r.what = "users" => Uses(v, r) = n4
      BY <1>5 DEF Uses
    <3> HIDE DEF n1, n2, n3, n4
    <3> QED
      BY <1>5, <3>1, <3>2, <3>3, <3>4
  <2>2. r.answer.active \in Servers \cup {None} /\ r.answer.accounts \in SUBSET Users
    BY <1>1 DEF Answers
  <2>3. n1 \in Window /\ Agrees(n1, v)
    BY <1>1, <2>2 DEF Window, Agrees
  <2>4. n2 \in Window /\ Agrees(n2, v)
    <3>1. set \in {"?", "no", "yes"}
      OBVIOUS
    <3> HIDE DEF set
    <3> QED
      BY <1>1, <3>1 DEF Window, Agrees
  <2>5. n3 \in Window /\ Agrees(n3, v)
    BY <1>1, <2>2 DEF Window, Agrees
  <2>6. n4 \in Window /\ Agrees(n4, v)
    BY <1>1, <2>2 DEF Window, Agrees
  <2> HIDE DEF n1, n2, n3, n4
  <2>7. Uses(v, r) \in Window /\ Agrees(Uses(v, r), v)
    BY <2>1, <2>3, <2>4, <2>5, <2>6
  <2>8. Fit(Uses(v, r), ss, ver) /\ Stays(Uses(v, r), v)
    BY <1>1, <2>7, AgreeingFits
  <2> QED
    BY <2>8, StaysGood
<1> QED
  BY <1>2, <1>3, <1>4, <1>5 DEF Reads

\* What is known of a read before its answer is looked at.
LEMMA ReadFacts ==
  ASSUME SessionInv, NEW r \in w.reads
  PROVE  LET v == [w EXCEPT !.reads = @ \ {r}]
         IN  /\ r \in Reads /\ Honest(r, sessions) /\ Timely(r, w)
             /\ Good(v, sessions, docker.version) /\ Stays(v, w)
             /\ r.what = "start" => v.reads = {} /\ v.user = 0 /\ v.tasks = {} /\ w.asked
             /\ r.what # "start" => w.ready
             /\ r.what = "me" => w.asked
<1> DEFINE R == w.reads \ {r}
           v == [w EXCEPT !.reads = R]
<1>1. r \in Reads /\ Honest(r, sessions) /\ Timely(r, w) /\ R \in SUBSET w.reads
  BY Facts DEF Fit, Sits, Window
<1>2. r.what = "start" => R = {} /\ w.user = 0 /\ w.tasks = {}
  BY <1>1, Facts DEF Timely, Fit, Sits
<1>3. r.what \in {"start", "me"} => w.asked
  BY Facts DEF Wanted, Trying
<1>4. r.what # "start" => w.ready
  BY <1>1 DEF Timely
<1> HIDE DEF R
<1>5. Fit(v, sessions, docker.version) /\ Stays(v, w) /\ v.tasks = w.tasks /\ v.reads = R
  <2>1. sessions \in Issued /\ docker.version \in Nat /\ Fit(w, sessions, docker.version) /\ R \in SUBSET w.reads
    BY <1>1, Facts
  <2> QED
    BY <2>1, DropFits
<1> HIDE DEF v
<1>6. Good(v, sessions, docker.version) /\ v.user = w.user
  BY <1>5, Facts, StaysGood DEF SessionInv
<1> QED
  <2>1. v = [w EXCEPT !.reads = @ \ {r}]
    BY DEF v, R
  <2>2. r.what = "start" => v.reads = {} /\ v.user = 0 /\ v.tasks = {} /\ w.asked
    BY <1>2, <1>3, <1>5, <1>6
  <2>3. /\ Good(v, sessions, docker.version) /\ Stays(v, w)
        /\ r \in Reads /\ Honest(r, sessions) /\ Timely(r, w)
        /\ r.what # "start" => w.ready
        /\ r.what = "me" => w.asked
    BY <1>1, <1>3, <1>4, <1>5, <1>6
  <2> QED
    BY <2>1, <2>2, <2>3

LEMMA ArrivesRight ==
  ASSUME SessionInv, NEW r \in w.reads, Arrives(r)
  PROVE  Right
<1> DEFINE v == [w EXCEPT !.reads = @ \ {r}]
           u == IF r.answer.is = "401" THEN Unauthorized(v, r.token) ELSE v
<1>1. /\ UNCHANGED <<Backend, events>>
      /\ w' = IF r.what = "start" THEN Starts(u, r)
              ELSE IF r.answer.is = "ok" THEN Uses(v, r)
              ELSE IF r.what = "me" THEN FailAttempt(u) ELSE u
  <2>1. r.answer.is = "ok" => u = v
    OBVIOUS
  <2> QED
    BY <2>1 DEF Arrives
<1>2. /\ r \in Reads /\ Honest(r, sessions) /\ Timely(r, w)
      /\ Good(v, sessions, docker.version) /\ Stays(v, w)
      /\ r.what = "start" => v.reads = {} /\ v.user = 0 /\ v.tasks = {} /\ w.asked
      /\ r.what # "start" => w.ready
      /\ r.what = "me" => w.asked
  BY ReadFacts
<1>3. u = IF r.answer.is = "401" THEN Unauthorized(v, r.token) ELSE v
  OBVIOUS
<1> HIDE DEF v, u
<1>4. /\ Good(u, sessions, docker.version) /\ u.user \in {0, v.user}
      /\ u.user # v.user => r.answer.is = "401" /\ r.token = v.token
      /\ v.reads = {} /\ v.tasks = {} /\ v.user = 0 => u.reads = {} /\ u.user = 0
  <2>1. CASE r.answer.is = "401"
    BY <1>2, <1>3, <2>1, Facts, UnauthorizedGood
  <2>2. CASE r.answer.is # "401"
    BY <1>2, <1>3, <2>2
  <2> QED
    BY <2>1, <2>2
<1>5. events' = events /\ events' \in Nat /\ UNCHANGED Backend
  BY <1>1 DEF SessionInv, Known
<1>6. r.token \in Tokens /\ r.token <= Len(sessions) /\ (r.what \in {"start", "me"} => r.token # 0)
  BY <1>2 DEF Reads, Honest, Timely
<1>7. v.user = w.user /\ v.token = w.token /\ v.page = w.page /\ v.seen = w.seen /\ v.ready = w.ready
  BY <1>2 DEF Stays, Same
<1>8. CASE r.what = "start"
  <2>1. w' = Starts(u, r) /\ w.user = 0
    BY <1>1, <1>2, <1>7, <1>8
  <2>2. Good(w', sessions, docker.version) /\ (w'.user # 0 => w'.user = w'.token)
    BY <1>2, <1>4, <1>6, <1>8, <2>1, Facts, StartsGood
  <2>3. SessionInv'
    BY <1>5, <2>2, WindowMoves
  <2> QED
    BY <1>2, <1>8, <2>1, <2>2, <2>3 DEF Right, SignIn, Cause
<1>9. CASE r.what # "start" /\ r.answer.is = "ok"
  <2>1. w' = Uses(v, r)
    BY <1>1, <1>9
  <2>2. r.what = "data" => v.page = "docker" /\ v.seen <= r.answer.version
    BY <1>2, <1>7, <1>9 DEF Timely
  <2>3. Good(w', sessions, docker.version) /\ (w'.user # v.user => r.what = "me" /\ w'.user = r.token)
    BY <1>2, <1>6, <1>7, <1>9, <2>1, <2>2, Facts, UsesGood
  <2>4. SessionInv'
    BY <1>5, <2>3, WindowMoves
  <2> QED
    BY <1>2, <1>6, <1>7, <1>9, <2>3, <2>4 DEF Right, SignIn, Cause
<1>10. CASE r.what # "start" /\ r.answer.is # "ok"
  <2>1. w' \in {FailAttempt(u), u}
    BY <1>1, <1>10
  <2>2. Fit(FailAttempt(u), sessions, docker.version) /\ Stays(FailAttempt(u), u)
    BY <1>4, Facts, FailAttemptFits DEF Good
  <2>3. Good(FailAttempt(u), sessions, docker.version) /\ FailAttempt(u).user = u.user
    BY <1>4, <2>2, Facts, StaysGood
  <2>4. Good(w', sessions, docker.version) /\ w'.user = u.user
    BY <1>4, <2>1, <2>3
  <2>5. SessionInv'
    BY <1>5, <2>4, WindowMoves
  <2>6. u.user # w.user => ~Accepted(w.token)
    BY <1>2, <1>4, <1>7 DEF Honest, Accepted, Taken
  <2> QED
    BY <1>4, <1>7, <2>4, <2>5, <2>6 DEF Right, SignIn, Cause
<1> QED
  BY <1>8, <1>9, <1>10

LEMMA FailsRight ==
  ASSUME SessionInv, NEW r \in w.reads, Fails(r)
  PROVE  Right
<1> DEFINE v == [w EXCEPT !.reads = @ \ {r}]
           q == [r EXCEPT !.answer = Forbidden]
<1>1. /\ UNCHANGED <<Backend, events>>
      /\ w' = IF r.what = "start" THEN Starts(v, q) ELSE IF r.what = "me" THEN FailAttempt(v) ELSE v
  BY DEF Fails
<1>2. /\ r \in Reads /\ Honest(r, sessions) /\ Timely(r, w)
      /\ Good(v, sessions, docker.version) /\ Stays(v, w)
      /\ r.what = "start" => v.reads = {} /\ v.user = 0
  BY ReadFacts
<1> HIDE DEF v
<1>3. q.token = r.token /\ q.answer = Forbidden /\ r.token \in Tokens
  BY <1>2 DEF Reads
<1> HIDE DEF q
<1>4. v.user = w.user
  BY <1>2 DEF Stays, Same
<1>5. CASE r.what = "start"
  <2>1. q.token # 0 /\ q.token <= Len(sessions) /\ q.answer.is # "ok"
    BY <1>2, <1>3, <1>5, Types DEF Honest, Timely
  <2>2. Good(Starts(v, q), sessions, docker.version) /\ Starts(v, q).user = 0
    BY <1>2, <1>3, <1>5, <2>1, Facts, StartsGood
  <2> QED
    BY <1>1, <1>2, <1>4, <1>5, <2>2, QuietMoves
<1>6. CASE r.what # "start"
  <2>1. w' \in {FailAttempt(v), v}
    BY <1>1, <1>6
  <2>2. Fit(FailAttempt(v), sessions, docker.version) /\ Stays(FailAttempt(v), v)
    BY <1>2, Facts, FailAttemptFits DEF Good
  <2>3. Good(FailAttempt(v), sessions, docker.version) /\ FailAttempt(v).user = v.user
    BY <1>2, <2>2, Facts, StaysGood
  <2> QED
    BY <1>1, <1>2, <1>4, <2>1, <2>3, QuietMoves
<1> QED
  BY <1>5, <1>6

\* What the page does when its write has gone well.
LEMMA ContinueGood ==
  ASSUME NEW ss \in Issued, NEW ver \in Nat, NEW v, Good(v, ss, ver), v.ready,
         NEW t \in Writes, Proper(t, ver)
  PROVE  Good(Continue(v, t), ss, ver) /\ Continue(v, t).user = v.user
<1>1. Fit(v, ss, ver) /\ v \in Window /\ t.mine \in BOOLEAN /\ t.answer.version \in Nat /\ t.answer.version <= ver
  BY DEF Good, Fit, Sits, Writes, Answers, Versions, Proper
<1>2. CASE t.do \in {"select", "edit"} /\ t.hot
  <2>1. Continue(v, t) = DockerServerChanged(v, t.answer.version)
    BY <1>2 DEF Continue
  <2>2. PICK k \in Nat : k = t.answer.version /\ k <= ver
    BY <1>1
  <2> DEFINE n == DockerServerChanged(v, k)
  <2>3. /\ Fit(n, ss, ver) /\ n.user = v.user /\ n.page = v.page /\ n.asked = v.asked
        /\ Trying(n) => Trying(v)
    <3>1. Fit(v, ss, ver) /\ v.ready /\ k \in Nat /\ k <= ver
      BY <1>1, <2>2
    <3>2. Fit(n, ss, ver)
      BY <3>1, ServerChangedFits
    <3>3. n.user = v.user /\ n.page = v.page
      BY <3>1, ServerChangedFits
    <3>4. n.asked = v.asked
      BY <3>1, ServerChangedFits
    <3>5. Trying(n) => Trying(v)
      BY <3>1, ServerChangedFits
    <3> QED
      BY <3>2, <3>3, <3>4, <3>5
  <2> HIDE DEF n
  <2>4. Good(n, ss, ver)
    BY <2>3 DEF Good, Wanted, Guards
  <2> QED
    BY <2>1, <2>2, <2>3, <2>4 DEF n
<1>3. CASE t.do \in {"add", "delete"} \/ (t.do = "edit" /\ ~t.hot)
  <2>1. Continue(v, t) = SendAs(v, "settings", t.mine)
    BY <1>3 DEF Continue
  <2>2. Fit(SendAs(v, "settings", t.mine), ss, ver) /\ Stays(SendAs(v, "settings", t.mine), v)
    BY <1>1, SendFits
  <2> QED
    BY <2>1, <2>2, StaysGood
<1>4. CASE t.do \in {"create", "remove"}
  <2> DEFINE n == SendAs(v, "users", FALSE)
  <2>1. Continue(v, t) = IF t.mine THEN Refresh(v, "users") ELSE n
    BY <1>4 DEF Continue
  <2>2. Fit(n, ss, ver) /\ Stays(n, v)
    BY <1>1, SendFits
  <2> HIDE DEF n
  <2>3. Fit(Refresh(v, "users"), ss, ver) /\ Stays(Refresh(v, "users"), v)
    BY <1>1, RefreshFits
  <2>4. CASE t.mine
    BY <2>1, <2>3, <2>4, StaysGood
  <2>5. CASE ~t.mine
    BY <2>1, <2>2, <2>5, StaysGood
  <2> QED
    BY <2>4, <2>5
<1>5. CASE t.do = "password"
  <2> DEFINE n == [v EXCEPT !.editing = None]
  <2>1. Continue(v, t) = IF t.mine THEN n ELSE v
    BY <1>5 DEF Continue
  <2>2. n \in Window /\ Agrees(n, v)
    BY <1>1 DEF Window, Agrees
  <2> HIDE DEF n
  <2>3. Fit(n, ss, ver) /\ Stays(n, v)
    BY <1>1, <2>2, AgreeingFits
  <2> QED
    BY <2>1, <2>3, StaysGood
<1>6. CASE t.do \in {"write"} \/ (t.do = "select" /\ ~t.hot)
  BY <1>6 DEF Continue
<1> QED
  BY <1>2, <1>3, <1>4, <1>5, <1>6 DEF Writes

LEMMA TaskSettlesRight ==
  ASSUME SessionInv, NEW t \in w.tasks, TaskSettles(t)
  PROVE  Right
<1> DEFINE u == IF t.answer.is = "401" THEN Unauthorized(w, t.token) ELSE w
           T == u.tasks \ {t}
           m == [u EXCEPT !.tasks = T]
           v == IF t \in u.tasks THEN Settled(m) ELSE u
<1>1. UNCHANGED <<Backend, events>> /\ w' = IF t.answer.is = "ok" THEN Continue(v, t) ELSE v
  BY DEF TaskSettles
<1>2. t \in Writes /\ Honest(t, sessions) /\ Proper(t, docker.version) /\ w.ready
  BY Facts DEF Fit, Sits, Window
<1>3. u = IF t.answer.is = "401" THEN Unauthorized(w, t.token) ELSE w
  OBVIOUS
<1>4. v = IF t \in u.tasks THEN Settled(m) ELSE u
  OBVIOUS
<1> HIDE DEF u, v
<1>5. /\ Good(u, sessions, docker.version) /\ u.ready /\ u.user \in {0, w.user}
      /\ u.user # w.user => t.answer.is = "401" /\ t.token = w.token
  <2>1. CASE t.answer.is = "401"
    BY <1>2, <1>3, <2>1, Facts, UnauthorizedGood DEF SessionInv
  <2>2. CASE t.answer.is # "401"
    BY <1>2, <1>3, <2>2 DEF SessionInv
  <2> QED
    BY <2>1, <2>2
<1>6. Good(v, sessions, docker.version) /\ v.user = u.user /\ v.ready
  <2>1. T \in SUBSET Writes /\ \A x \in T : Honest(x, sessions) /\ Proper(x, docker.version)
    BY <1>5 DEF Good, Fit, Sits, Window
  <2> HIDE DEF T
  <2>2. Fit(u, sessions, docker.version) /\ sessions \in Issued /\ docker.version \in Nat
    BY <1>5, Facts DEF Good
  <2>3. Fit(m, sessions, docker.version) /\ Stays(m, u)
    BY <1>5, <2>1, <2>2, TasksFit
  <2> HIDE DEF m
  <2>4. m.ready
    BY <1>5, <2>3 DEF Stays, Same
  <2>5. Fit(Settled(m), sessions, docker.version) /\ Stays(Settled(m), m)
    BY <2>2, <2>3, <2>4, SettledFits
  <2>6. Stays(Settled(m), u)
    BY <2>3, <2>5 DEF Stays, Same
  <2>7. Good(Settled(m), sessions, docker.version) /\ Settled(m).user = u.user
    BY <1>5, <2>2, <2>5, <2>6, StaysGood
  <2>8. Settled(m).ready
    BY <1>5, <2>6 DEF Stays, Same
  <2> QED
    BY <1>4, <1>5, <2>7, <2>8
<1>7. Good(Continue(v, t), sessions, docker.version) /\ Continue(v, t).user = v.user
  BY <1>2, <1>6, Facts, ContinueGood
<1>8. Good(w', sessions, docker.version) /\ w'.user = u.user
  BY <1>1, <1>6, <1>7
<1>9. events' \in Nat
  BY <1>1 DEF SessionInv, Known
<1>10. SessionInv'
  BY <1>1, <1>8, <1>9, WindowMoves
<1>11. u.user # w.user => ~Accepted(w.token)
  BY <1>2, <1>5 DEF Honest, Accepted, Taken
<1> QED
  BY <1>5, <1>8, <1>10, <1>11 DEF Right, SignIn, Cause
-----------------------------------------------------------------------------
(* The theorems.                                                           *)

LEMMA InitRight == Init => SessionInv
<1> SUFFICES ASSUME Init PROVE SessionInv
  OBVIOUS
<1> DEFINE S == [user : Users, alive : BOOLEAN]
<1>1. docker = [servers |-> Servers, active |-> CHOOSE s \in Servers : TRUE, version |-> 1]
  BY DEF Init
<1>2. (CHOOSE s \in Servers : TRUE) \in Servers
  BY SessionAssumption
<1>3. /\ docker \in [servers : SUBSET Servers, active : Servers, version : Versions]
      /\ docker.active \in docker.servers /\ docker.version = 1
  BY <1>1, <1>2 DEF Versions
<1>4. accounts \subseteq Users /\ events \in Nat
  BY DEF Init
<1>5. CASE sessions = <<>>
  <2>1. sessions \in Issued /\ Len(sessions) = 0 /\ 0 \in Tokens
    BY <1>5, Types DEF Issued, Tokens
  <2>2. w = Mount(Opened(0), "login")
    BY <1>5 DEF Init
  <2>3. Good(Opened(0), sessions, docker.version) /\ Opened(0).user = 0 /\ Opened(0).ready
    BY <1>3, <2>1, OpenedGood
  <2>4. Good(w, sessions, docker.version)
    BY <1>3, <2>1, <2>2, <2>3, Types, MountGood DEF Good
  <2> QED
    BY <1>3, <1>4, <2>1, <2>4, Types DEF SessionInv, Known
<1>6. CASE sessions # <<>>
  <2>1. PICK u \in Users, a \in BOOLEAN : sessions = <<[user |-> u, alive |-> a]>>
    BY <1>6 DEF Init
  <2>2. sessions \in Issued /\ Len(sessions) = 1
    BY <2>1 DEF Issued
  <2>3. 1 \in Tokens /\ 1 <= MaxSessions
    BY Types DEF Tokens
  <2>4. w = Opened(1)
    BY <1>6 DEF Init
  <2>5. Good(w, sessions, docker.version)
    BY <1>3, <2>2, <2>3, <2>4, OpenedGood
  <2> QED
    BY <1>3, <1>4, <2>2, <2>3, <2>5 DEF SessionInv, Known
<1> QED
  BY <1>5, <1>6

LEMMA StepRight == SessionInv /\ Next => Right
<1> SUFFICES ASSUME SessionInv, Next PROVE Right
  OBVIOUS
<1>1. CASE UserNext
  <2>1. CASE \E p \in Pages : Visit(p)
    BY <2>1, VisitRight
  <2>2. CASE \E u \in Users : Submit(u) \/ OtherSignsIn(u)
    BY <2>2, SubmitRight, OtherSignsInRight
  <2>3. CASE Write \/ ChangePassword \/ (\E s \in Servers : Delete(s)) \/ (\E u \in Users : CreateUser(u) \/ RemoveUser(u))
    BY <2>3, TasksRight
  <2>4. CASE \E u \in Users \cup {None} : EditUser(u)
    BY <2>4, EditUserRight
  <2>5. CASE \E s \in Servers : Select(s) \/ \E m \in BOOLEAN : Save(s, m)
    BY <2>5, SelectRight, SaveRight
  <2>6. CASE Logout \/ RefreshAll \/ Restart \/ OtherSignsOut
    BY <2>6, LogoutRight, RefreshAllRight, RestartRight, OtherSignsOutRight
  <2> QED
    BY <1>1, <2>1, <2>2, <2>3, <2>4, <2>5, <2>6 DEF UserNext
<1>2. CASE Answer
  BY <1>2, ServeRight, ArrivesRight, FailsRight, HandleRight, RefuseRight, TaskSettlesRight,
     LoginAnswersRight, LoginRefusedRight, LoginFailsRight DEF Answer
<1>3. CASE Poll
  BY <1>3, PollRight
<1> QED
  BY <1>1, <1>2, <1>3 DEF Next

\* Every window, whatever it waits for, is one that Good describes.
THEOREM SessionIsKept == Spec => []SessionInv
<1>1. SessionInv /\ [Next]_vars => SessionInv'
  <2>1. SessionInv /\ Next => SessionInv'
    BY StepRight DEF Right
  <2>2. SessionInv /\ UNCHANGED vars => SessionInv'
    BY DEF vars, SessionInv, Known
  <2> QED
    BY <2>1, <2>2
<1> QED
  BY InitRight, <1>1, PTL DEF Spec

\* The state keeps its types, and after a switch of the Docker server no page shows
\* rows of the runtime before it (dockerServerChanged).
THEOREM SessionSound == Spec => []Sound
<1>1. SessionInv => Sound
  <2> SUFFICES ASSUME SessionInv PROVE Sound
    OBVIOUS
  <2>1. {w.token, w.user, w.attempt.token} \subseteq 0 .. Len(sessions)
    BY Facts DEF Fit, Sits, Window, Tokens, Attempts
  <2>2. TypeOK
    BY <2>1, Facts DEF TypeOK, SessionInv, Known, Fit, Sits, Guards, Issued
  <2>3. SwitchedScreens
    BY Facts DEF SwitchedScreens, Fit, Sits, Rows, Window, Versions
  <2> QED
    BY <2>2, <2>3 DEF Sound
<1> QED
  BY <1>1, SessionIsKept, PTL

\* After a sign-out no answer, to a sign-in, a start or anything else, signs anybody
\* in before that is asked for again (doLogout).
THEOREM NobodyComesBack == Spec => SignedOutStaysOut
<1>1. SessionInv /\ [Next]_vars => [SignIn]_vars
  BY StepRight DEF Right
<1> QED
  BY <1>1, SessionIsKept, PTL DEF Spec, SignedOutStaysOut, SignIn

\* An answer ends the session only for cause: its token is not taken any more, or a
\* sign-in over it was refused (request: 401).
THEOREM NoSessionEndsByMistake == Spec => EndsForCause
<1>1. SessionInv /\ [Next]_vars => [Cause]_vars
  BY StepRight DEF Right
<1> QED
  BY <1>1, SessionIsKept, PTL DEF Spec, EndsForCause, Cause
=============================================================================
