------------------------------ MODULE PullForm ------------------------------
(***************************************************************************)
(* The options of an image pull (PullOptions), the registry accounts one   *)
(* can pick for it (RegistryAccounts) and what this browser remembers of   *)
(* both (browserPullSettings): the endpoints (CF workers), the proxies,    *)
(* the mode and, when asked to, each endpoint's accounts.                  *)
(*                                                                         *)
(* Accounts are of two kinds.  Those of this browser belong to the         *)
(* endpoint they were typed under; those of the phyless server are shared  *)
(* by all users, and one picked for the browser's own pull has its secret  *)
(* fetched ("revealed") by a request that nothing waits for.  The form     *)
(* outlives the dialog: closing it resets the values, requests in flight   *)
(* go on and write to the values of then.                                  *)
(*                                                                         *)
(* Left out: whether an address is well formed (the blank one stands for   *)
(* every address that is not), the platform field, the marks beside the    *)
(* accounts that a verification leaves.                                    *)
(***************************************************************************)
EXTENDS Naturals, FiniteSets, SequencesExt, Filtered

CONSTANTS
  Workers, DefaultWorker,  \* endpoints, and the one prefilled
  Proxies,                 \* addresses of server-side proxies
  BrowserIds, ServerIds,   \* ids of accounts; also their keys ("b:" and "s:")
  Hosts,                   \* registries; "hub" is Docker Hub
  Secrets,
  Remembered,              \* contents of localStorage to start from
  Registries,              \* the server's accounts at first
  MaxEvents                \* bound: what the user and other users do

ASSUME FormAssumption ==
  /\ DefaultWorker \in Workers /\ "hub" \in Hosts /\ MaxEvents \in Nat
  /\ BrowserIds \cap ServerIds = {}
  /\ "-" \notin Workers \cup Proxies \cup Hosts \cup BrowserIds \cup ServerIds

VARIABLES
  panel,      \* the dialog: "closed", "form", or "search" with the remote search beside it
  mode,       \* "none", "server" or "browser": downloadMode and useProxy
  worker,     \* workerUrl
  creds,      \* the browser's accounts for this endpoint
  use,        \* browserUse: the keys picked
  revealed,   \* server accounts whose secret this window has
  remember,   \* rememberCreds
  picked,     \* registryIds: server accounts picked for a pull of the server
  proxy,      \* proxyUrl
  box,        \* localStorage
  registries, \* the server's accounts, in the order of /api/registries
  list,       \* what the mounted account list has read of them
  reading,    \* its read is in flight
  reveals,    \* requests for the credentials of a server account
  saving,     \* a write of a server account, until its continuation has run
  events

form == <<mode, worker, creds, use, revealed, remember, picked, proxy>>
formVars == <<panel, form, box, registries, list, reading, reveals, saving, events>>
-----------------------------------------------------------------------------
None == "-"
Keys == BrowserIds \cup ServerIds
Modes == {"none", "server", "browser"}

\* at (ghost): the endpoint an account was typed under.
Account == [id : BrowserIds, host : Hosts, secret : Secrets, at : Workers \cup {None}]
ServerAccount == [id : ServerIds, host : Hosts]
Nothing == [accounts |-> {}, use |-> <<>>]
Box == [workers : Seq(Workers), proxies : Seq(Proxies), mode : Modes,
        accounts : [Workers -> [accounts : SUBSET Account, use : Seq(Keys)]]]

Distinct(accounts) == \A a, b \in accounts : a.id = b.id => a = b

\* localStorage holds what a window of this browser stored.
ASSUME StorageAssumption ==
  /\ Registries \in Seq(ServerAccount)
  /\ \A b \in Remembered :
       /\ b \in Box
       /\ \A w \in Workers : /\ Distinct(b.accounts[w].accounts) /\ IsInjective(b.accounts[w].use)
                             /\ \A a \in b.accounts[w].accounts : a.at = w

\* add: host's account is created; edit: id gets host; delete.  seen: the ids
\* listed by the component that asked, once it is unmounted (here = FALSE).
Idle == [verb |-> None, id |-> None, host |-> None, done |-> FALSE, here |-> FALSE, seen |-> {}]

Ids(accounts) == {a.id : a \in accounts}
First(s) == IF s = <<>> THEN None ELSE Head(s)
\* The saved addresses, the last one saved in front.
Foremost(s, x) == <<x>> \o Without(s, {x})

\* keyHost; a server account nobody has listed or revealed has no host yet.
KeyHost(k, accounts) ==
  LET known == IF k \in BrowserIds THEN accounts
               ELSE IF k \in Ids(Range(list)) THEN Range(list) ELSE revealed
  IN IF k \in Ids(known) THEN (CHOOSE a \in known : a.id = k).host ELSE None

\* browserCreds: the account each registry is asked with, the last key's if
\* there are several; a key whose account is gone or not revealed counts for none.
Usable == creds \cup {[id |-> r.id, host |-> r.host, secret |-> None, at |-> None] : r \in revealed}
CredOf(host) ==
  LET mine == {i \in DOMAIN use : \E a \in Usable : a.id = use[i] /\ a.host = host}
  IN IF mine = {} THEN [user |-> None, secret |-> None]
     ELSE LET a == CHOOSE b \in Usable : b.id = use[CHOOSE i \in mine : \A j \in mine : j <= i]
          IN [user |-> a.id, secret |-> a.secret]

\* Type invariant.
FormTypeOK ==
  /\ panel \in {"closed", "form", "search"} /\ mode \in Modes
  /\ worker \in Workers \cup {None} /\ proxy \in Proxies \cup {None}
  /\ creds \subseteq Account /\ Distinct(creds)
  /\ use \in Seq(Keys) /\ IsInjective(use)
  /\ revealed \subseteq ServerAccount /\ remember \in BOOLEAN
  /\ picked \in Seq(ServerIds) /\ box \in Box
  /\ registries \in Seq(ServerAccount) /\ list \in Seq(ServerAccount) /\ reading \in BOOLEAN
  /\ reveals \in Seq([id : ServerIds, why : {"pick", "mount", "verify"}])
  /\ saving \in [verb : {None, "add", "edit", "delete"}, id : ServerIds \cup {None},
                 host : Hosts \cup {None}, done : BOOLEAN, here : BOOLEAN, seen : SUBSET ServerIds]
  /\ events \in 0 .. MaxEvents

Event == events < MaxEvents /\ events' = events + 1
Open == panel # "closed"
-----------------------------------------------------------------------------
(* The values of the form. *)

\* getRememberedAccounts: what setWorker and a fresh form load.  An endpoint
\* with neither accounts nor picks is not remembered.
MutantLoadAccounts(w, b) == \* those of the endpoint before stay if none are remembered
  LET kept == IF w = None THEN Nothing ELSE b.accounts[w] IN
  /\ IF kept = Nothing THEN UNCHANGED <<creds, use>> ELSE creds' = kept.accounts /\ use' = kept.use
  /\ remember' = (kept # Nothing)
LoadAccounts(w, b) ==
  LET kept == IF w = None THEN Nothing ELSE b.accounts[w] IN
  /\ creds' = kept.accounts /\ use' = kept.use
  /\ remember' = (kept # Nothing)

SetWorker(w, b) == worker' = w /\ LoadAccounts(w, b)

\* persistBrowserAccounts, for the endpoint and the choice of now.
Persist(accounts, keys) ==
  box' = IF remember /\ worker # None
         THEN [box EXCEPT !.accounts[worker] = [accounts |-> accounts, use |-> keys]] ELSE box

\* PullOptions is mounted anew: the list is read, and in browser mode what was
\* picked earlier is revealed.  A write under way keeps its old component.
Mount(m, keys, known) ==
  /\ list' = <<>> /\ reading' = TRUE
  /\ reveals' = reveals \o
       (IF m # "browser" THEN <<>>
        ELSE LET ids == Without(keys, BrowserIds \cup Ids(known))
             IN [i \in DOMAIN ids |-> [id |-> ids[i], why |-> "mount"]])
  /\ saving' = IF saving.here THEN [saving EXCEPT !.here = FALSE, !.seen = Ids(Range(list))] ELSE saving
Unmount ==
  /\ list' = <<>> /\ reading' = FALSE /\ UNCHANGED reveals
  /\ saving' = IF saving.here THEN [saving EXCEPT !.here = FALSE, !.seen = Ids(Range(list))] ELSE saving
Mounted == UNCHANGED <<list, reading, reveals, saving>>

\* createPullOptions and its reset.
Fresh(b) ==
  /\ mode' = b.mode /\ proxy' = First(b.proxies)
  /\ SetWorker(IF b.workers = <<>> THEN DefaultWorker ELSE Head(b.workers), b)
  /\ revealed' = {} /\ picked' = <<>>

\* The search has just been opened in a form that is fresh.
FormInit ==
  /\ box \in Remembered
  /\ panel = "search" /\ mode = box.mode /\ proxy = First(box.proxies)
  /\ worker = (IF box.workers = <<>> THEN DefaultWorker ELSE Head(box.workers))
  /\ creds = box.accounts[worker].accounts /\ use = box.accounts[worker].use
  /\ remember = (box.accounts[worker] # Nothing)
  /\ revealed = {} /\ picked = <<>> /\ registries = Registries
  /\ list = <<>> /\ reading = TRUE
  /\ reveals = (IF mode # "browser" THEN <<>>
                ELSE LET ids == Without(use, BrowserIds)
                     IN [i \in DOMAIN ids |-> [id |-> ids[i], why |-> "mount"]])
  /\ saving = Idle /\ events = 0

OpenDialog ==
  /\ ~Open /\ Event /\ panel' = "form" /\ Mount(mode, use, revealed)
  /\ UNCHANGED <<form, box, registries>>

\* The search is unfolded or folded away: both layouts mount the options anew.
ToggleSearch ==
  /\ Open /\ Event /\ panel' = (IF panel = "form" THEN "search" ELSE "form")
  /\ Mount(mode, use, revealed) /\ UNCHANGED <<form, box, registries>>

\* closePullInput, by itself or after startPull handed the pull to the task
\* queue; the worker of a browser's pull must not be blank.
CloseDialog ==
  /\ Open /\ Event /\ panel' = "closed" /\ Unmount /\ Fresh(box) /\ UNCHANGED <<box, registries>>
StartPull == (mode = "browser" => worker # None) /\ CloseDialog

SetMode(m) ==
  /\ Open /\ Event /\ m # mode /\ mode' = m /\ box' = [box EXCEPT !.mode = m]
  /\ IF "browser" \in {m, mode} THEN Mount(m, use, revealed) ELSE Mounted
  /\ UNCHANGED <<panel, worker, creds, use, revealed, remember, picked, proxy, registries>>

\* Typed, or chosen among the saved ones.
InputWorker(w) ==
  /\ Open /\ mode = "browser" /\ Event /\ w # worker /\ SetWorker(w, box) /\ Mounted
  /\ UNCHANGED <<panel, mode, revealed, picked, proxy, box, registries>>

\* saveWorker, when the field loses the focus: the accounts are loaded again.
SaveWorker ==
  /\ Open /\ mode = "browser" /\ worker # None /\ Event
  /\ box' = [box EXCEPT !.workers = Foremost(@, worker)] /\ SetWorker(worker, box')
  /\ Mounted /\ UNCHANGED <<panel, mode, revealed, picked, proxy, registries>>

\* deleteWorker: its accounts are forgotten with it.
DeleteWorker(w) ==
  /\ Open /\ mode = "browser" /\ Contains(box.workers, w) /\ Event
  /\ box' = [box EXCEPT !.workers = Without(@, {w}), !.accounts[w] = Nothing]
  /\ IF worker = w THEN SetWorker(First(box'.workers), box')
     ELSE UNCHANGED <<worker, creds, use, remember>>
  /\ Mounted /\ UNCHANGED <<panel, mode, revealed, picked, proxy, registries>>

InputProxy(p) ==
  /\ Open /\ mode = "server" /\ Event /\ p # proxy /\ proxy' = p
  /\ Mounted /\ UNCHANGED <<panel, mode, worker, creds, use, revealed, remember, picked, box, registries>>
SaveProxy ==
  /\ Open /\ mode = "server" /\ proxy # None /\ Event /\ box' = [box EXCEPT !.proxies = Foremost(@, proxy)]
  /\ Mounted /\ UNCHANGED <<panel, form, registries>>
DeleteProxy(p) ==
  /\ Open /\ mode = "server" /\ Contains(box.proxies, p) /\ Event
  /\ box' = [box EXCEPT !.proxies = Without(@, {p})]
  /\ proxy' = IF proxy = p THEN First(box'.proxies) ELSE proxy
  /\ Mounted /\ UNCHANGED <<panel, mode, worker, creds, use, revealed, remember, picked, registries>>
-----------------------------------------------------------------------------
(* The browser's own pulls: FrontendAccounts. *)

\* Asked for and not cached: a request nothing waits for.
Reveal(id, why) ==
  reveals' = IF id \in ServerIds \ Ids(revealed) THEN Append(reveals, [id |-> id, why |-> why]) ELSE reveals

\* The registry's other keys go, as far as their registry is known.
Pick(host, key, accounts) ==
  /\ use' = Without(use, {k \in Keys : KeyHost(k, accounts) = host}) \o (IF key = None THEN <<>> ELSE <<key>>)
  /\ Persist(accounts, use') /\ Reveal(key, "pick")

Select(host, key) ==
  /\ Open /\ mode = "browser" /\ Event
  /\ key = None \/ KeyHost(key, creds) = host
  /\ Pick(host, key, creds)
  /\ UNCHANGED <<panel, mode, worker, creds, revealed, remember, picked, proxy, registries, list, reading, saving>>

\* save: a new account, or an edited one still in use, becomes its registry's pick.
SaveAccount(id, host, secret) ==
  /\ Open /\ mode = "browser" /\ Event
  /\ creds' = {a \in creds : a.id # id} \cup {[id |-> id, host |-> host, secret |-> secret, at |-> worker]}
  /\ IF id \notin Ids(creds) \/ Contains(use, id) THEN Pick(host, id, creds')
     ELSE Persist(creds', use) /\ UNCHANGED <<use, reveals>>
  /\ UNCHANGED <<panel, mode, worker, revealed, remember, picked, proxy, registries, list, reading, saving>>

RemoveAccount(id) ==
  /\ Open /\ mode = "browser" /\ Event /\ id \in Ids(creds)
  /\ use' = Without(use, {id}) /\ creds' = {a \in creds : a.id # id} /\ Persist(creds', use')
  /\ Mounted /\ UNCHANGED <<panel, mode, worker, revealed, remember, picked, proxy, registries>>

\* The box "remember": what there is is stored, or what was stored forgotten.
Remember ==
  /\ Open /\ mode = "browser" /\ Event /\ remember' = ~remember
  /\ box' = IF worker = None THEN box
            ELSE [box EXCEPT !.accounts[worker] = IF remember THEN Nothing ELSE [accounts |-> creds, use |-> use]]
  /\ Mounted /\ UNCHANGED <<panel, mode, worker, creds, use, revealed, picked, proxy, registries>>

\* verify: a server account's secret is fetched for it too.
Verify(id) ==
  /\ Open /\ mode = "browser" /\ worker # None /\ Event
  /\ id \in Ids(Range(list)) \ Ids(revealed) /\ Reveal(id, "verify")
  /\ UNCHANGED <<panel, form, box, registries, list, reading, saving>>

Others == UNCHANGED <<panel, mode, worker, creds, remember, picked, proxy, registries, list, reading, saving, events>>

\* The answer is kept whatever the form has become meanwhile.
Revealed(i) ==
  /\ i \in DOMAIN reveals /\ reveals' = RemoveAt(reveals, i)
  /\ \E r \in Range(registries) :
       r.id = reveals[i].id /\ revealed' = {s \in revealed : s.id # r.id} \cup {r}
  /\ UNCHANGED <<use, box>> /\ Others

\* A pick that cannot be had is dropped, from the form and the storage of now.
NotRevealed(i) ==
  /\ i \in DOMAIN reveals /\ reveals' = RemoveAt(reveals, i)
  /\ IF reveals[i].why = "verify" THEN UNCHANGED <<use, box>>
     ELSE use' = Without(use, {reveals[i].id}) /\ Persist(creds, use')
  /\ UNCHANGED revealed /\ Others
-----------------------------------------------------------------------------
(* The server's pulls: ServerAccounts. *)

\* select; byId: the list the component has.
PickServer(host, id, known) ==
  picked' = Without(picked, Ids({r \in Range(known) : r.host = host}))
              \o (IF id = None THEN <<>> ELSE <<id>>)

SelectServer(host, id) ==
  /\ Open /\ mode # "browser" /\ Event
  /\ id = None \/ \E r \in Range(list) : r.id = id /\ r.host = host
  /\ PickServer(host, id, list)
  /\ UNCHANGED <<panel, mode, worker, creds, use, revealed, remember, proxy, box, registries>> /\ Mounted

\* A write enters the task queue; one at a time (bound).
SaveServer(verb, id, host) ==
  /\ Open /\ mode # "browser" /\ saving = Idle /\ Event
  /\ IF verb = "add" THEN id = None ELSE id \in Ids(Range(list))
  /\ verb = "delete" => host = "hub" \* means nothing then
  /\ saving' = [Idle EXCEPT !.verb = verb, !.id = id, !.host = host, !.here = TRUE]
  /\ UNCHANGED <<panel, form, box, registries, list, reading, reveals>>

\* Ids that occur nowhere yet: the server gives none twice.
NewIds == ServerIds \ (Ids(Range(registries) \cup Range(list) \cup revealed \cup Range(reveals)) \cup saving.seen
  \cup Range(use) \cup Range(picked) \cup UNION {Range(box.accounts[w].use) : w \in Workers})
Elsewhere == UNCHANGED <<panel, mode, worker, creds, use, revealed, remember, proxy, box, reveals, events>>

\* The task is done; then the list is read again, and before is what it has.
Written ==
  /\ saving # Idle /\ ~saving.done
  /\ saving.verb # "add" => saving.id \in Ids(Range(registries))
  /\ CASE saving.verb = "add" ->
            \E id \in NewIds : registries' = Append(registries, [id |-> id, host |-> saving.host])
       [] saving.verb = "edit" ->
            registries' = [i \in DOMAIN registries |->
              IF registries[i].id = saving.id THEN [registries[i] EXCEPT !.host = saving.host] ELSE registries[i]]
       [] OTHER -> registries' = Without(registries, {r \in Range(registries) : r.id = saving.id})
  /\ picked' = IF saving.verb = "delete" THEN Without(picked, {saving.id}) ELSE picked
  /\ saving' = [saving EXCEPT !.done = TRUE, !.seen = IF saving.here THEN Ids(Range(list)) ELSE @]
  /\ UNCHANGED <<list, reading>> /\ Elsewhere
NotWritten ==
  /\ saving # Idle /\ ~saving.done /\ saving' = Idle
  /\ UNCHANGED <<registries, picked, list, reading>> /\ Elsewhere

\* refetch: the account that was not listed before is taken for the one added.
Refetched ==
  /\ saving.done /\ saving' = Idle
  /\ LET new == Without(registries, {r \in Range(registries) : r.id \in saving.seen}) IN
       IF saving.verb = "add" /\ new # <<>> THEN PickServer(saving.host, Head(new).id, registries)
       ELSE UNCHANGED picked
  /\ list' = IF saving.here THEN registries ELSE list
  /\ UNCHANGED <<registries, reading>> /\ Elsewhere
NotRefetched ==
  /\ saving.done /\ saving' = Idle /\ list' = IF saving.here THEN <<>> ELSE list
  /\ UNCHANGED <<registries, picked, reading>> /\ Elsewhere
-----------------------------------------------------------------------------
(* The read of the mounted list, and other users. *)

Listed ==
  /\ reading /\ reading' = FALSE /\ list' \in {registries, <<>>}
  /\ UNCHANGED <<panel, form, box, registries, reveals, saving, events>>

OtherUser ==
  /\ Event
  /\ \/ \E id \in NewIds, h \in Hosts : registries' = Append(registries, [id |-> id, host |-> h])
     \/ \E id \in Ids(Range(registries)) : registries' = Without(registries, {r \in Range(registries) : r.id = id})
  /\ UNCHANGED <<panel, form, box, list, reading, reveals, saving>>

Writes ==
  \/ Written \/ NotWritten \/ Refetched \/ NotRefetched
Requests ==
  \/ Listed \/ Writes
  \/ \E i \in DOMAIN reveals : Revealed(i) \/ NotRevealed(i)

FormNext ==
  \/ OpenDialog \/ ToggleSearch \/ CloseDialog \/ StartPull \/ SaveWorker \/ SaveProxy \/ Remember \/ OtherUser
  \/ \E m \in Modes : SetMode(m)
  \/ \E w \in Workers \cup {None} : InputWorker(w) \/ DeleteWorker(w)
  \/ \E p \in Proxies \cup {None} : InputProxy(p) \/ DeleteProxy(p)
  \/ \E h \in Hosts, k \in Keys \cup {None} : Select(h, k)
  \/ \E i \in BrowserIds, h \in Hosts, s \in Secrets : SaveAccount(i, h, s)
  \/ \E i \in BrowserIds : RemoveAccount(i)
  \/ \E i \in ServerIds : Verify(i)
  \/ \E h \in Hosts, i \in ServerIds \cup {None} : SelectServer(h, i)
  \/ \E v \in {"add", "edit", "delete"}, i \in ServerIds \cup {None}, h \in Hosts : SaveServer(v, i, h)
  \/ Requests
-----------------------------------------------------------------------------
(* Properties. *)

\* "Private registry credentials keyed by Worker URL (so one endpoint cannot
\* reuse another endpoint's credentials)": an account, in the form or in the
\* storage, is with the endpoint it was typed under.
OwnEndpoint ==
  /\ \A a \in creds : a.at = worker
  /\ \A w \in Workers : \A a \in box.accounts[w].accounts : a.at = w

\* "Remembering is off by default and can be cleared from the pull dialog":
\* while the box is not ticked nothing is stored for the endpoint.
OnlyIfAsked == ~remember /\ worker # None => box.accounts[worker] = Nothing

KeptAsAsked == OwnEndpoint /\ OnlyIfAsked
=============================================================================
