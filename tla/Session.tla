------------------------------ MODULE Session ------------------------------
(***************************************************************************)
(* One browser window's session with phyless: signing in and out           *)
(* (stores/auth, api/client, LoginPage, App), the pages that manage users  *)
(* and Docker servers, the switch of the Docker server every page is       *)
(* rebuilt for (stores/dockerServer) and the list of update policies that  *)
(* outlives the pages (stores/autoUpdate).                                 *)
(*                                                                         *)
(* The token lives in localStorage, which other windows share, so it may   *)
(* change under a request.  A read is sent with the token of the moment,   *)
(* is served by the backend and its answer arrives later; aborting a read  *)
(* drops its answer, aborting a write only its answer.  An action is one   *)
(* JavaScript event run to its end with the promises it resolves.          *)
(***************************************************************************)
EXTENDS Naturals, FiniteSets, Sequences

CONSTANTS
  Users, Admins, Servers,
  Pages,       \* among "login", "docker", "auto", "users" and "settings"
  MaxSessions, \* bound: tokens the backend issues
  MaxEvents    \* bound: what the users of all windows do

ASSUME SessionAssumption ==
  /\ Admins \subseteq Users /\ Admins # {} /\ Servers # {} /\ "-" \notin Users \cup Servers
  /\ {"login", "docker"} \subseteq Pages /\ Pages \subseteq {"login", "docker", "auto", "users", "settings"}
  /\ MaxSessions \in Nat \ {0} /\ MaxEvents \in Nat

VARIABLES
  accounts, \* the users the backend knows
  sessions, \* issued tokens: whose, and whether the backend still accepts them
  docker,   \* the Docker servers, the active one, and how often it was replaced
  w,        \* this window
  events

vars == <<accounts, sessions, docker, w, events>>
-----------------------------------------------------------------------------
None == "-"
Tokens == 0 .. MaxSessions      \* 0: no token
Versions == Nat                \* of the Docker runtime; 0: nothing loaded
Guarded == Pages \ {"login"}
Accepted(t) == t # 0 /\ sessions[t].alive
IsAdmin(t) == sessions[t].user \in Admins

Pending == [is |-> "pending", version |-> 0, active |-> None, accounts |-> {}]
Refused == [Pending EXCEPT !.is = "401"]
Forbidden == [Pending EXCEPT !.is = "error"]
\* What a read finds at the backend.
Found == [is |-> "ok", version |-> docker.version, active |-> docker.active, accounts |-> accounts]
Answers == [is : {"pending", "ok", "401", "error"}, version : Versions,
            active : Servers \cup {None}, accounts : SUBSET Users]

Reads == [what : {"start", "me", "setup", "data", "policies", "settings", "users"},
          token : Tokens, live : BOOLEAN, answer : Answers]
Writes == [do : {"write", "select", "edit", "add", "delete", "create", "remove", "password"},
           arg : Users \cup Servers \cup {None}, hot : BOOLEAN, moves : BOOLEAN, mine : BOOLEAN,
           token : Tokens, answer : Answers]

NoAttempt == [step |-> None, user |-> None, mine |-> FALSE, token |-> 0]
Attempts == [step : {None, "yes", "no", "me"}, user : Users \cup {None}, mine : BOOLEAN, token : Tokens]
NewLogin == [configured |-> "?", busy |-> FALSE]

\* The window as it opens: loadSession() is all that runs.
Opened(t) ==
  [token |-> t,              \* localStorage: shared with the other windows
   user |-> 0,               \* currentUser(): the session it was read with
   ready |-> t = 0,
   asked |-> TRUE,           \* ghost: a sign-in was asked for after the last sign-out
   attempt |-> NoAttempt,    \* establishSession: its step and the token it sent
   page |-> "login",         \* the route; Guard shows no other page without a user
   login |-> NewLogin, editing |-> None,
   data |-> 0,               \* a Docker page's rows: the runtime they were read from
   listed |-> FALSE,         \* the policies store exists
   policies |-> None,        \* the server whose policies it holds
   active |-> None, users |-> {},  \* what the settings and users pages show
   seen |-> 0,               \* ghost: the runtime of the last switch this window made
   reads |-> IF t = 0 THEN {} ELSE {[what |-> "start", token |-> t, live |-> TRUE, answer |-> Pending]},
   tasks |-> {}, lost |-> {}] \* writes in flight, and those aborted on their way

Window ==
  [token : Tokens, user : Tokens, ready : BOOLEAN, asked : BOOLEAN, attempt : Attempts, page : Pages,
   login : [configured : {"?", "no", "yes"}, busy : BOOLEAN], editing : Users \cup {None},
   data : Versions, seen : Versions, listed : BOOLEAN,
   policies : Servers \cup {None}, active : Servers \cup {None}, users : SUBSET Users,
   reads : SUBSET Reads, tasks : SUBSET Writes, lost : SUBSET Writes]

\* Type invariant.
TypeOK ==
  /\ accounts \subseteq Users
  /\ sessions \in Seq([user : Users, alive : BOOLEAN]) /\ Len(sessions) <= MaxSessions
  /\ docker \in [servers : SUBSET Servers, active : Servers, version : Versions]
  /\ docker.active \in docker.servers
  /\ w \in Window /\ {w.token, w.user, w.attempt.token} \subseteq 0 .. Len(sessions)
  /\ w.user # 0 => w.ready
  /\ (w.user = 0 => w.page = "login") /\ (w.attempt.step = None => w.attempt = NoAttempt)
-----------------------------------------------------------------------------
(* Reads. *)

SendAs(v, what, live) ==
  [v EXCEPT !.reads = @ \cup {[what |-> what, token |-> v.token, live |-> live, answer |-> Pending]}]
Send(v, what) == SendAs(v, what, TRUE)
InFlight(v, what) == \E r \in v.reads : r.what = what /\ r.live
\* refresh() of a store joins the read in flight.
Refresh(v, what) == IF InFlight(v, what) THEN v ELSE Send(v, what)
Reload(v) == IF v.listed THEN Refresh(v, "policies") ELSE v

\* SETTLED_EVENT: the policies are reloaded; a polling page drops the read
\* that started before (PollingResource has the detail).
Settled(v) ==
  LET n == Reload(v)
  IN IF n.page = "docker"
     THEN Send([n EXCEPT !.reads = {r \in @ : r.what # "data"}], "data")
     ELSE n

MutantFailAttempt(v) == [v EXCEPT !.attempt = NoAttempt]
FailAttempt(v) ==
  [v EXCEPT !.attempt = NoAttempt, !.login.busy = IF v.attempt.mine THEN FALSE ELSE @]

\* cancelPendingReads, then cancelActiveTasks, whose tasks settle: the reload of
\* the policies joins the read that was just aborted, if there was one.
CancelAll(v) ==
  LET a == IF InFlight(v, "me") THEN FailAttempt(v) ELSE v
      b == [a EXCEPT !.reads = {}, !.tasks = {},
              !.lost = @ \cup {t \in v.tasks : t.answer.is = "pending"}]
  IN IF v.tasks = {} \/ InFlight(v, "policies") THEN b ELSE Reload(b)

\* The page's component goes and that of p comes: a polling page aborts its
\* read, the others' answers fall on a component that is gone.
Unmount(v) ==
  [v EXCEPT !.reads = {IF r.what \in {"setup", "settings", "users"} THEN [r EXCEPT !.live = FALSE] ELSE r :
                         r \in {q \in v.reads : q.what # "data"}},
            !.tasks = {[t EXCEPT !.mine = FALSE] : t \in @},
            !.attempt.mine = FALSE, !.login = NewLogin, !.editing = None,
            !.data = 0, !.active = None, !.users = {}]
Mount(v, p) ==
  LET n == [Unmount(v) EXCEPT !.page = p]
  IN CASE p = "login" -> Send(n, "setup")
       [] p = "docker" -> Send(n, "data")
       [] p = "auto" -> IF n.listed THEN n ELSE Send([n EXCEPT !.listed = TRUE], "policies")
       [] OTHER -> Send(n, p)

MutantDoLogoutNoAbort(v) ==
  LET n == CancelAll([v EXCEPT !.token = 0, !.user = 0, !.asked = FALSE])
  IN IF n.page = "login" THEN n ELSE Mount(n, "login")

\* Guard shows the login page once there is no user.
DoLogout(v) ==
  LET n == CancelAll([FailAttempt(v) EXCEPT !.token = 0, !.user = 0, !.asked = FALSE])
  IN IF n.page = "login" THEN n ELSE Mount(n, "login")

MutantUnauthorized(v, t) == DoLogout(v)
\* A 401 ends the session only if the token is still the one it was sent with.
Unauthorized(v, t) == IF t = v.token THEN DoLogout(v) ELSE v

MutantDockerServerChanged(v, version) == [CancelAll(v) EXCEPT !.seen = version]
\* The Layout and the page below it are recreated (Guard, keyed by the epoch).
DockerServerChanged(v, version) ==
  LET n == [CancelAll(v) EXCEPT !.seen = version]
  IN IF n.page = "login" THEN n ELSE Mount(n, n.page)
-----------------------------------------------------------------------------
Init ==
  /\ docker = [servers |-> Servers, active |-> CHOOSE s \in Servers : TRUE, version |-> 1]
  /\ \/ accounts = {} /\ sessions = <<>>
     \/ accounts = Users /\ sessions = <<>>
     \/ accounts = Users /\ \E u \in Users, a \in BOOLEAN : sessions = <<[user |-> u, alive |-> a]>>
  /\ w = IF sessions = <<>> THEN Mount(Opened(0), "login") ELSE Opened(1)
  /\ events = 0

Event == events < MaxEvents /\ events' = events + 1
User == w.ready /\ Event  \* nothing is shown before loadSession() is over
Backend == <<accounts, sessions, docker>>

(* The user. *)

Visit(p) == \* "auto" and the settings are linked for some roles only; a URL opens them for all
  /\ User /\ (w.user # 0 \/ p = "login")
  /\ w' = Mount(w, p)
  /\ UNCHANGED Backend

\* submit(); a form whose button is disabled submits nothing.
Submit(u) ==
  /\ User /\ w.page = "login" /\ ~w.login.busy /\ w.login.configured # "?"
  /\ w.login.configured = "no" => u \in Admins \* setup creates the administrator
  /\ LET a == FailAttempt(w) \* establishSession aborts the previous attempt
         b == [a EXCEPT !.reads = {r \in @ : r.what # "me"}]
     IN w' = [b EXCEPT !.attempt = [step |-> w.login.configured, user |-> u, mine |-> TRUE,
                                    token |-> w.token],
                       !.login.busy = TRUE, !.asked = TRUE]
  /\ UNCHANGED Backend

Logout ==
  /\ User /\ w.page # "login"
  /\ w' = DoLogout(w)
  /\ UNCHANGED Backend

Queue(do, arg, hot, moves) ==
  [w EXCEPT !.tasks = @ \cup {[do |-> do, arg |-> arg, hot |-> hot, moves |-> moves, mine |-> TRUE,
                               token |-> w.token, answer |-> Pending]}]

Write ==
  /\ User /\ w.page = "docker"
  /\ w' = Queue("write", None, FALSE, FALSE)
  /\ UNCHANGED Backend

RefreshAll == \* the refresh menu
  /\ User /\ w.page # "login" /\ w' = Settled(w) /\ UNCHANGED Backend

Poll == \* the timer of a polling page
  /\ w.page = "docker" /\ ~InFlight(w, "data")
  /\ w' = Send(w, "data")
  /\ UNCHANGED <<Backend, events>>

\* 使用: the requests of the old server are given up before the switch is asked for.
Select(s) ==
  /\ User /\ w.page = "settings" /\ w.active # None /\ s # w.active
  /\ LET n == CancelAll(w)
     IN w' = [n EXCEPT !.tasks = {[do |-> "select", arg |-> s, hot |-> TRUE, moves |-> FALSE,
                                   mine |-> TRUE, token |-> w.token, answer |-> Pending]}]
  /\ UNCHANGED Backend

\* save() of a server the page lists, whose endpoint it moves or not, or of a new one; hot: the page shows it as the active one.
Save(s, moves) ==
  /\ User /\ w.page = "settings" /\ w.active # None
  /\ LET hot == moves /\ s = w.active
         n == IF hot THEN CancelAll(w) ELSE w
     IN w' = [n EXCEPT !.tasks = @ \cup {[do |-> IF s \in docker.servers THEN "edit" ELSE "add", arg |-> s,
                                          hot |-> hot, moves |-> moves, mine |-> TRUE,
                                          token |-> w.token, answer |-> Pending]}]
  /\ UNCHANGED Backend

Delete(s) ==
  /\ User /\ w.page = "settings" /\ w.active # None /\ s # w.active
  /\ w' = Queue("delete", s, FALSE, FALSE)
  /\ UNCHANGED Backend

CreateUser(u) ==
  /\ User /\ w.page = "users" /\ w' = Queue("create", u, FALSE, FALSE) /\ UNCHANGED Backend
RemoveUser(u) ==
  /\ User /\ w.page = "users" /\ u \in w.users
  /\ w' = Queue("remove", u, FALSE, FALSE) /\ UNCHANGED Backend
EditUser(u) ==
  /\ User /\ w.page = "users" /\ u \in w.users \cup {None} \* None: closeEditor
  /\ w' = [w EXCEPT !.editing = u] /\ UNCHANGED Backend
ChangePassword ==
  /\ User /\ w.page = "users" /\ w.editing # None
  /\ w' = Queue("password", w.editing, FALSE, FALSE) /\ UNCHANGED Backend

\* The page is reloaded: the writes in flight may still reach the backend.
Restart ==
  /\ Event
  /\ LET o == Opened(w.token)
         n == [o EXCEPT !.lost = w.lost \cup {t \in w.tasks : t.answer.is = "pending"}]
     IN w' = IF w.token = 0 THEN Mount(n, "login") ELSE n
  /\ UNCHANGED Backend

\* Another window of this browser signs in or out, also while this one starts.
OtherSignsIn(u) ==
  /\ Event /\ u \in accounts /\ Len(sessions) < MaxSessions
  /\ sessions' = Append(sessions, [user |-> u, alive |-> TRUE])
  /\ w' = [w EXCEPT !.token = Len(sessions')]
  /\ UNCHANGED <<accounts, docker>>
OtherSignsOut ==
  /\ Event /\ w.token # 0 /\ w' = [w EXCEPT !.token = 0] /\ UNCHANGED Backend
-----------------------------------------------------------------------------
(* The backend. *)

Replace(r, a) == (w.reads \ {r}) \cup {[r EXCEPT !.answer = a]}

Serve(r) ==
  /\ r.answer = Pending
  /\ w' = [w EXCEPT !.reads = Replace(r,
             IF r.what = "setup" THEN Found
             ELSE IF ~Accepted(r.token) THEN Refused
             ELSE IF r.what \in {"settings", "users"} /\ ~IsAdmin(r.token) THEN Forbidden
             ELSE Found)]
  /\ UNCHANGED <<Backend, events>>

Revoked(u) == [i \in DOMAIN sessions |->
                 IF sessions[i].user = u THEN [sessions[i] EXCEPT !.alive = FALSE] ELSE sessions[i]]
Switched(s) == [docker EXCEPT !.active = s, !.version = @ + 1]

\* What a write changes; FALSE when it is refused.
Apply(t) ==
  CASE t.do = "select" -> t.arg \in docker.servers
         /\ docker' = (IF t.arg = docker.active THEN docker ELSE Switched(t.arg)) /\ UNCHANGED <<accounts, sessions>>
    [] t.do = "edit" -> t.arg \in docker.servers
         /\ docker' = (IF t.arg = docker.active /\ t.moves THEN Switched(t.arg) ELSE docker)
         /\ UNCHANGED <<accounts, sessions>>
    [] t.do = "add" ->
         docker' = [docker EXCEPT !.servers = @ \cup {t.arg}] /\ UNCHANGED <<accounts, sessions>>
    [] t.do = "delete" -> t.arg \in docker.servers \ {docker.active}
         /\ docker' = [docker EXCEPT !.servers = @ \ {t.arg}] /\ UNCHANGED <<accounts, sessions>>
    [] t.do = "create" -> t.arg \notin accounts
         /\ accounts' = accounts \cup {t.arg} /\ UNCHANGED <<docker, sessions>>
    [] t.do = "remove" -> t.arg \in accounts /\ accounts \cap Admins # {t.arg}
         /\ accounts' = accounts \ {t.arg} /\ sessions' = Revoked(t.arg) /\ UNCHANGED docker
    [] t.do = "password" -> t.arg \in accounts
         /\ sessions' = Revoked(t.arg) /\ UNCHANGED <<docker, accounts>>
    [] OTHER -> UNCHANGED Backend

Allowed(t) == Accepted(t.token) /\ (t.do = "write" \/ IsAdmin(t.token))

Answered(t, a) ==
  IF t \in w.tasks THEN [w EXCEPT !.tasks = (@ \ {t}) \cup {[t EXCEPT !.answer = a]}]
  ELSE [w EXCEPT !.lost = @ \ {t}]

Handle(t) ==
  /\ t.answer = Pending /\ Allowed(t) /\ Apply(t)
  /\ w' = Answered(t, [Pending EXCEPT !.is = "ok", !.version = docker'.version])
  /\ UNCHANGED events

\* A write is refused, fails (a switch is undone then) or never reaches the backend.
Refuse(t) ==
  /\ t.answer = Pending
  /\ w' = Answered(t, IF Accepted(t.token) THEN Forbidden ELSE Refused)
  /\ UNCHANGED <<Backend, events>>
-----------------------------------------------------------------------------
(* Answers. *)

\* The form's catch and finally.
LoginFails ==
  /\ w.attempt.step \in {"yes", "no"}
  /\ w' = FailAttempt(w)
  /\ UNCHANGED <<Backend, events>>

\* A refused sign-in is a 401 like any other.
LoginRefused ==
  /\ w.attempt.step = "yes"
  /\ w' = FailAttempt(Unauthorized(w, w.attempt.token))
  /\ UNCHANGED <<Backend, events>>

\* login() or setup() stores the token and /me is asked for with it.
LoginAnswers ==
  /\ w.attempt.step \in {"yes", "no"} /\ Len(sessions) < MaxSessions
  /\ IF w.attempt.step = "yes" THEN w.attempt.user \in accounts ELSE accounts = {}
  /\ accounts' = accounts \cup {w.attempt.user}
  /\ sessions' = Append(sessions, [user |-> w.attempt.user, alive |-> TRUE])
  /\ w' = Send([w EXCEPT !.token = Len(sessions'), !.attempt.step = "me",
                         !.attempt.token = Len(sessions')], "me")
  /\ UNCHANGED <<docker, events>>

\* establishSession's last step, and submit()'s navigate.
SignsIn(v, r) == Mount([v EXCEPT !.user = r.token, !.attempt = NoAttempt], "docker")

\* Mutant: whatever the token is by then.
MutantStarts(v, r) ==
  LET n == [v EXCEPT !.ready = TRUE]
  IN IF r.answer.is = "ok" THEN Mount([n EXCEPT !.user = r.token], "docker")
     ELSE Mount(n, "login")

\* loadSession: the user is who the token belongs to if it is still the token it was
\* asked with. App is ready whatever comes of it.
Starts(v, r) ==
  LET n == [v EXCEPT !.ready = TRUE]
  IN IF r.answer.is = "ok" /\ n.token = r.token THEN Mount([n EXCEPT !.user = r.token], "docker")
     ELSE Mount(n, "login")

\* What the reader does with the answer to r, if it is still there.
Uses(v, r) ==
  CASE ~r.live -> v
    [] r.live /\ r.what = "me" -> SignsIn(v, r)
    [] r.live /\ r.what = "policies" -> [v EXCEPT !.policies = r.answer.active]
    [] r.live /\ r.what = "setup" ->
         [v EXCEPT !.login.configured = IF r.answer.accounts = {} THEN "no" ELSE "yes"]
    [] r.live /\ r.what = "data" -> [v EXCEPT !.data = r.answer.version]
    [] r.live /\ r.what = "settings" -> [v EXCEPT !.active = r.answer.active]
    [] r.live /\ r.what = "users" -> [v EXCEPT !.users = r.answer.accounts]

Arrives(r) ==
  /\ r.answer.is # "pending"
  /\ LET v == [w EXCEPT !.reads = @ \ {r}]
         u == IF r.answer.is = "401" THEN Unauthorized(v, r.token) ELSE v
     IN w' = IF r.what = "start" THEN Starts(u, r)
             ELSE IF r.answer.is = "ok" THEN Uses(v, r)
             ELSE IF r.what = "me" THEN FailAttempt(u) ELSE u
  /\ UNCHANGED <<Backend, events>>

\* The network fails, or the backend does.
Fails(r) ==
  /\ LET v == [w EXCEPT !.reads = @ \ {r}]
     IN w' = IF r.what = "start" THEN Starts(v, [r EXCEPT !.answer = Forbidden])
             ELSE IF r.what = "me" THEN FailAttempt(v) ELSE v
  /\ UNCHANGED <<Backend, events>>

\* What the page does when its write has settled well.
Continue(v, t) ==
  CASE t.do \in {"select", "edit"} /\ t.hot -> DockerServerChanged(v, t.answer.version)
    [] t.do \in {"add", "delete"} \/ (t.do = "edit" /\ ~t.hot) -> SendAs(v, "settings", t.mine)
    [] t.do \in {"create", "remove"} -> IF t.mine THEN Refresh(v, "users") ELSE SendAs(v, "users", FALSE)
    [] t.do = "password" -> IF t.mine THEN [v EXCEPT !.editing = None] ELSE v
    [] OTHER -> v

TaskSettles(t) ==
  /\ t.answer.is # "pending"
  /\ LET u == IF t.answer.is = "401" THEN Unauthorized(w, t.token) ELSE w
         v == IF t \in u.tasks THEN Settled([u EXCEPT !.tasks = @ \ {t}]) ELSE u
     IN w' = IF t.answer.is = "ok" THEN Continue(v, t) ELSE v
  /\ UNCHANGED <<Backend, events>>
-----------------------------------------------------------------------------
UserNext ==
  \/ \E p \in Pages : Visit(p)
  \/ \E u \in Users : Submit(u) \/ CreateUser(u) \/ RemoveUser(u) \/ OtherSignsIn(u)
  \/ \E u \in Users \cup {None} : EditUser(u)
  \/ \E s \in Servers : Select(s) \/ Delete(s) \/ \E m \in BOOLEAN : Save(s, m)
  \/ Logout \/ Write \/ RefreshAll \/ ChangePassword \/ Restart \/ OtherSignsOut

Answer ==
  \/ \E r \in w.reads : Serve(r) \/ Arrives(r) \/ Fails(r)
  \/ \E t \in w.tasks \cup w.lost : Handle(t) \/ Refuse(t)
  \/ \E t \in w.tasks : TaskSettles(t)
  \/ LoginAnswers \/ LoginRefused \/ LoginFails

Next == UserNext \/ Answer \/ Poll

Spec == Init /\ [][Next]_vars

\* Requests are answered or fail; of the reads the ones the window waits on.
FairSpec ==
  /\ Spec
  /\ WF_vars(\E r \in w.reads : r.what \in {"start", "me"} /\ (Serve(r) \/ Arrives(r) \/ Fails(r)))
  /\ WF_vars(LoginAnswers \/ LoginRefused \/ LoginFails)
-----------------------------------------------------------------------------
(* Properties. *)

\* Once the user signed out or was signed out, nobody is shown as signed in until
\* the next sign-in asked for: an attempt in flight is given up (doLogout aborts
\* loginAttempt), and a start signs in only under the token that is still there when
\* its answer comes, though another window signs in or out meanwhile.
SignedOutStaysOut ==
  [][w'.user \notin {0, w.user} => w.asked /\ (w.ready \/ w'.user = w'.token)]_vars

\* An answer ends the session only if the backend no longer takes the token the
\* window now has, or a sign-in over it was refused: a 401 for a token that has
\* been replaced meanwhile, here or in another window, ends nothing.
EndsForCause ==
  [][ /\ w.user # 0 /\ w'.user = 0 /\ events' = events
      => ~Accepted(w.token) \/ w.attempt.step = "yes" ]_vars

\* After a switch of the Docker server this window made, no Docker page shows rows
\* read from the runtime before it.
SwitchedScreens == w.data # 0 => w.data >= w.seen

\* A sign-in ends, and its form can be used again or is gone; a start ends.
LoginEnds == (w.login.busy ~> ~w.login.busy) /\ (~w.ready ~> w.ready)

\* stores/autoUpdate.ts:38: the list holds "every policy of the active Docker server":
\* while the window waits for nothing, the policies loaded are those of that server.
\* Not kept: Session_policies.cfg.
PoliciesOfServer ==
  w.user # 0 /\ w.reads = {} /\ w.tasks = {} /\ w.policies # None => w.policies = docker.active

\* The state is sound: types, and rows of the runtime this window switched to.
Sound == TypeOK /\ SwitchedScreens
=============================================================================
