---------------------------- MODULE RemoteSearch ----------------------------
(***************************************************************************)
(* The remote image search beside the pull form (RemoteImageSearch), over  *)
(* the lookups of registrySearch: repositories of Docker Hub for a         *)
(* keyword, the tags of a repository or of a complete reference, and what  *)
(* each tag's manifest says.  The lookups follow the form: through the     *)
(* server or the endpoint, as the account picked for the registry.         *)
(*                                                                         *)
(* Each pane has one request at a time; a rerun of its effect aborts the   *)
(* one before: one still debounced is never sent, one sent is answered     *)
(* some day all the same.  Writes of signals rerun the effects that read   *)
(* them, at once; an effect whose dependencies keep their values does not  *)
(* rerun.                                                                  *)
(*                                                                         *)
(* An answered page stands for its rows: which keyword or reference it     *)
(* answers, over which route, and the names of its tags.  Left out: the    *)
(* texts of errors, the mark of a failed login (it never blocks a search). *)
(***************************************************************************)
EXTENDS PullForm

CONSTANTS
  Terms,       \* keywords; a search for one finds repositories of Docker Hub
  Repos, Refs, \* repositories it finds, and complete references one may type
  HostOf,      \* the registry of each
  LastPage     \* how many pages a search has (bound)

ASSUME SearchAssumption ==
  /\ LastPage \in Nat \ {0} /\ HostOf \in [Repos \cup Refs -> Hosts]
  /\ \A r \in Repos : HostOf[r] = "hub"
  /\ "-" \notin Terms \cup Repos \cup Refs /\ Terms \cap (Repos \cup Refs) = {}

VARIABLES
  query,      \* what is typed
  composing,  \* an input method is composing
  repository, \* the repository chosen among those found
  hits,       \* repos, repoPage, repoMore, repoError
  tags,       \* tags, tagRepo, tagHub, tagCursor, tagNext, tagFilter, tagShown, tagError
  details,    \* of each name: "-", "pending", "error" or what its manifest said
  flight,     \* requests of the two panes
  describing  \* reads of manifests that were not aborted

search == <<query, composing, repository, hits, tags, details, flight, describing>>
vars == <<formVars, search>>
-----------------------------------------------------------------------------
\* What a lookup uses of the form, and nothing else of it: the search for a
\* keyword no account of the server, the list of tags the account of its registry.
Anonymous == [user |-> None, secret |-> None]
ByServer(ids) == <<"server", IF mode = "server" THEN proxy ELSE None, ids>>
ByWorker(account) == <<"worker", worker, account>>
RepoRoute == IF mode = "browser" THEN ByWorker(CredOf("hub")) ELSE ByServer(<<>>)

IsTarget(x) == x \in Repos \cup Refs
TagTarget == IF repository # None THEN repository ELSE IF IsTarget(query) THEN query ELSE None
OnHub(x) == IsTarget(x) /\ HostOf[x] = "hub"
TagRoute ==
  IF mode # "browser" THEN ByServer(picked)
  ELSE ByWorker(IF TagTarget = None THEN Anonymous ELSE CredOf(HostOf[TagTarget]))

\* ready(): the browser's own lookups need an endpoint.
Ready == mode = "browser" => worker # None

Searching == panel = "search"
SearchesRepos == Searching /\ Ready /\ query \in Terms /\ ~composing
ListsTags == Searching /\ Ready /\ TagTarget # None /\ ~composing

\* Names 1 and 2; the filter keeps name 2.  Hub filters by itself and pages
\* (name 1, then name 2); other registries are read whole.
Names == {1, 2}
Filters == {"", "2"}
Matches(f, n) == f = "" \/ n = 2
HubNames(f, page) == IF f = "" THEN {page} ELSE IF page = 1 THEN {2} ELSE {}

NoHits == [pages |-> <<>>, page |-> 1, more |-> FALSE, error |-> FALSE]
NoTags == [pages |-> <<>>, repo |-> None, hub |-> FALSE, cursor |-> 1, next |-> 0,
           filter |-> "", shown |-> 1, error |-> FALSE]
NoDetails == [n \in Names |-> [is |-> "-", repo |-> None, route |-> None]]

\* resetTags: the repository's name and the filter stay.
ResetTags(t) == [NoTags EXCEPT !.repo = t.repo, !.hub = t.hub, !.filter = t.filter]

\* visibleTags, and the first tagShown rows of them.
Visible == {n \in UNION {p.names : p \in Range(tags.pages)} : Matches(tags.filter, n)}
Rows == {n \in Visible : Cardinality({m \in Visible : m <= n}) <= tags.shown}

Loading(pane) == \E r \in flight : r.pane = pane /\ r.live

SearchTypeOK ==
  /\ query \in Terms \cup Repos \cup Refs \cup {None} /\ composing \in BOOLEAN
  /\ repository \in Repos \cup {None}
  /\ hits.page \in 1 .. LastPage /\ Len(hits.pages) <= events + 1
  /\ tags.cursor \in Names /\ tags.next \in {0, 2} /\ tags.filter \in Filters /\ tags.shown \in 1 .. events + 1
  /\ \A n \in Names : details[n].is \in {"-", "pending", "error", "read"}
  /\ \A pane \in {"repos", "tags"} : Cardinality({r \in flight : r.pane = pane /\ r.live}) <= 1
  /\ \A d \in describing : details[d.name].is = "pending"
TypeOK == FormTypeOK /\ SearchTypeOK
-----------------------------------------------------------------------------
(* The effects. *)

\* request: the pane's effect reruns on the values the step leaves.
Aborted(pane) == {[r EXCEPT !.live = FALSE] : r \in {q \in flight : q.pane = pane /\ q.sent}}
Request(pane, of, route, n, filter) ==
  [pane |-> pane, of |-> of, route |-> route, n |-> n, filter |-> filter, sent |-> FALSE, live |-> TRUE]
Asked(pane) ==
  IF pane = "repos"
  THEN IF ~SearchesRepos' THEN {} ELSE {Request("repos", query', RepoRoute', hits'.page, "")}
  ELSE IF ~ListsTags' THEN {}
       ELSE {Request("tags", TagTarget', TagRoute', tags'.cursor, IF OnHub(TagTarget') THEN tags'.filter ELSE "")}

Rerun(panes) ==
  flight' = {r \in flight : r.pane \notin panes} \cup UNION {Aborted(p) \cup Asked(p) : p \in panes}

\* The effect that describes the rows; Docker Hub's are skipped: "manifest GETs
\* there count as pulls".
Describes == /\ Searching /\ tags.repo # None /\ ~tags.hub /\ ~OnHub(tags.repo) /\ ~Loading("tags")

\* It reruns on its dependencies: reads under way are aborted, their rows are
\* free again, and the rows shown that have nothing yet are read.
MutantDescribeRows(base) == \* an aborted read leaves its row pending
  LET reads == IF Describes' THEN {n \in Rows' : base[n].is = "-"} ELSE {}
  IN IF <<tags.pages, Rows, Loading("tags")>>' = <<tags.pages, Rows, Loading("tags")>>
     THEN details' = base /\ UNCHANGED describing
     ELSE /\ details' = [n \in Names |-> IF n \in reads THEN [NoDetails[n] EXCEPT !.is = "pending"] ELSE base[n]]
          /\ describing' = {[name |-> n, repo |-> tags'.repo, route |-> TagRoute'] : n \in reads}
DescribeRows(base) ==
  LET deps == <<tags.repo, tags.hub, tags.pages, Rows, TagRoute, Loading("tags"), Searching>>
      freed == [n \in Names |-> IF base[n].is = "pending" THEN NoDetails[n] ELSE base[n]]
      reads == IF Describes' THEN {n \in Rows' : freed[n].is = "-"} ELSE {}
  IN IF deps' = deps THEN details' = base /\ UNCHANGED describing
     ELSE /\ details' = [n \in Names |-> IF n \in reads THEN [NoDetails[n] EXCEPT !.is = "pending"] ELSE freed[n]]
          /\ describing' = {[name |-> n, repo |-> tags'.repo, route |-> TagRoute'] : n \in reads}

\* Every reset of the tags clears the details as well.
AfterReset == DescribeRows(NoDetails)
AfterStep == DescribeRows(details)
-----------------------------------------------------------------------------
(* The search is mounted and unmounted with its panel. *)

Gone == query' = None /\ composing' = FALSE /\ repository' = None /\ hits' = NoHits /\ tags' = NoTags

SearchInit ==
  /\ query = None /\ composing = FALSE /\ repository = None /\ hits = NoHits /\ tags = NoTags
  /\ details = NoDetails /\ flight = {} /\ describing = {}

\* A step of the form: the search appears (with the reference typed so far) or
\* goes, or follows a route that has changed.
Mounts ==
  /\ Searching' /\ \E v \in Refs \cup {None} : query' = v
  /\ composing' = FALSE /\ repository' = None /\ hits' = NoHits /\ tags' = NoTags
  /\ Rerun({"repos", "tags"}) /\ AfterReset
Unmounts ==
  /\ Gone /\ flight' = Aborted("repos") \cup Aborted("tags")
  /\ AfterReset

Follows ==
  LET repos == RepoRoute' # RepoRoute
      listing == TagRoute' # TagRoute
  IN /\ UNCHANGED <<query, composing, repository>>
     /\ hits' = IF repos THEN [NoHits EXCEPT !.more = hits.more] ELSE hits
     /\ tags' = IF listing THEN ResetTags(tags) ELSE tags
     /\ Rerun((IF repos THEN {"repos"} ELSE {}) \cup (IF listing THEN {"tags"} ELSE {}))
     /\ IF listing THEN AfterReset ELSE AfterStep

FormStep ==
  /\ FormNext
  /\ IF Searching THEN (IF Searching' THEN Follows ELSE Unmounts)
     ELSE (IF Searching' THEN Mounts ELSE UNCHANGED search)

User == Searching /\ Event /\ UNCHANGED <<panel, form, box, registries, list, reading, reveals, saving>>
\* The panes are there while lookups are possible.
InPanes == Ready /\ User
-----------------------------------------------------------------------------
(* What the user does in it. *)

\* onQuery.
Type(v) ==
  /\ User /\ v # query /\ query' = v /\ repository' = None
  /\ hits' = [NoHits EXCEPT !.more = hits.more]
  /\ tags' = [ResetTags(tags) EXCEPT !.filter = ""]
  /\ UNCHANGED composing /\ Rerun({"repos", "tags"}) /\ AfterReset

\* An input method begins or ends a composition; what it inserts is typed.
Compose ==
  /\ User /\ composing' = ~composing
  /\ hits' = [hits EXCEPT !.error = FALSE] /\ tags' = [tags EXCEPT !.error = FALSE]
  /\ UNCHANGED <<query, repository>> /\ Rerun({"repos", "tags"}) /\ AfterStep

MoreRepos ==
  /\ InPanes /\ hits.more /\ hits.pages # <<>> /\ ~Loading("repos") /\ hits.page < LastPage
  /\ hits' = [hits EXCEPT !.page = @ + 1, !.error = FALSE]
  /\ UNCHANGED <<query, composing, repository, tags>> /\ Rerun({"repos"}) /\ AfterStep
RetryRepos ==
  /\ InPanes /\ hits.error /\ hits' = [hits EXCEPT !.error = FALSE]
  /\ UNCHANGED <<query, composing, repository, tags>> /\ Rerun({"repos"}) /\ AfterStep

\* chooseRepository: a repository among those found, or back to none of them.
\* Choosing the one that is chosen clears the rows; nothing is read again when
\* neither the filter nor the cursor changes by it.
Choose(r) ==
  /\ InPanes /\ query \notin Repos \cup Refs
  /\ IF r = None THEN repository # None ELSE hits.pages # <<>>
  /\ repository' = r /\ tags' = [ResetTags(tags) EXCEPT !.filter = ""]
  /\ UNCHANGED <<query, composing, hits>>
  /\ Rerun(IF r # repository \/ tags.filter # "" \/ tags.cursor # 1 THEN {"tags"} ELSE {}) /\ AfterReset

Filter(f) ==
  /\ InPanes /\ TagTarget # None /\ f # tags.filter
  /\ UNCHANGED <<query, composing, repository, hits>>
  /\ LET again == OnHub(TagTarget) \/ tags.cursor # 1 IN
       /\ tags' = [tags EXCEPT !.filter = f, !.shown = 1, !.cursor = 1, !.error = @ /\ ~again]
       /\ Rerun(IF again THEN {"tags"} ELSE {}) /\ AfterStep

\* showMoreTags: more of the rows there are, or the next page.
MoreTags ==
  /\ InPanes /\ Visible # {} /\ ~Loading("tags")
  /\ UNCHANGED <<query, composing, repository, hits>>
  /\ LET more == Cardinality(Visible) > tags.shown
         again == ~more /\ tags.next # tags.cursor IN
       /\ more \/ tags.next # 0
       /\ tags' = [tags EXCEPT !.shown = @ + 1, !.cursor = IF more THEN @ ELSE tags.next, !.error = @ /\ ~again]
       /\ Rerun(IF again THEN {"tags"} ELSE {}) /\ AfterStep
RetryTags ==
  /\ InPanes /\ tags.error /\ tags' = [tags EXCEPT !.error = FALSE]
  /\ UNCHANGED <<query, composing, repository, hits>> /\ Rerun({"tags"}) /\ AfterStep
-----------------------------------------------------------------------------
(* The requests. *)

\* The debounce is over.
Send(r) ==
  /\ r \in flight /\ ~r.sent /\ flight' = (flight \ {r}) \cup {[r EXCEPT !.sent = TRUE]}
  /\ UNCHANGED <<formVars, query, composing, repository, hits, tags, details, describing>>

\* "Results are applied only while the run is current."
MutantApplies(r) == r \in flight \* whatever answers
Applies(r) == r.live
Answers(r) == r \in flight /\ r.sent /\ flight' = flight \ {r}
             /\ UNCHANGED <<formVars, query, composing, repository>>

\* searchRepositories: page 1 replaces, another one is appended.
Found(r) ==
  /\ r.pane = "repos" /\ Answers(r) /\ UNCHANGED tags
  /\ hits' = IF ~Applies(r) THEN hits
             ELSE LET page == [of |-> r.of, route |-> r.route, n |-> r.n] IN
                  [hits EXCEPT !.pages = IF r.n = 1 THEN <<page>> ELSE Append(@, page), !.more = r.n < LastPage]
  /\ AfterStep

\* listRegistryTags.  When the Hub API refuses the first page (its rate limit,
\* or a private repository) the registry's own list is read instead.
Listing(r, hub) ==
  /\ r.pane = "tags" /\ Answers(r) /\ UNCHANGED hits
  /\ IF hub THEN OnHub(r.of) ELSE ~OnHub(r.of) \/ r.n = 1
  /\ tags' = IF ~Applies(r) THEN tags
             ELSE LET page == [of |-> r.of, route |-> r.route,
                               names |-> IF hub THEN HubNames(r.filter, r.n) ELSE Names] IN
                  [tags EXCEPT !.pages = IF r.n = 1 THEN <<page>> ELSE Append(@, page),
                               !.repo = r.of, !.hub = hub,
                               !.next = IF hub /\ r.filter = "" /\ r.n = 1 THEN 2 ELSE 0]
  /\ AfterStep

Failed(r) ==
  /\ Answers(r)
  /\ hits' = IF Applies(r) /\ r.pane = "repos" THEN [hits EXCEPT !.error = TRUE] ELSE hits
  /\ tags' = IF Applies(r) /\ r.pane = "tags" THEN [tags EXCEPT !.error = TRUE] ELSE tags
  /\ AfterStep

\* After 15 seconds the request is given up; it may still be answered.
TimesOut(r) ==
  /\ r \in flight /\ r.sent /\ r.live /\ flight' = (flight \ {r}) \cup {[r EXCEPT !.live = FALSE]}
  /\ hits' = IF r.pane = "repos" THEN [hits EXCEPT !.error = TRUE] ELSE hits
  /\ tags' = IF r.pane = "tags" THEN [tags EXCEPT !.error = TRUE] ELSE tags
  /\ UNCHANGED <<formVars, query, composing, repository>> /\ AfterStep

\* describeTag.
Described(d) ==
  /\ d \in describing /\ describing' = describing \ {d}
  /\ \E is \in {"read", "error"} :
       details' = [details EXCEPT ![d.name] = [is |-> is, repo |-> d.repo, route |-> d.route]]
  /\ UNCHANGED <<formVars, query, composing, repository, hits, tags, flight>>

Step(r) == Send(r) \/ Found(r) \/ Listing(r, TRUE) \/ Listing(r, FALSE) \/ Failed(r) \/ TimesOut(r)
Lookups == (\E r \in flight : Step(r)) \/ (\E d \in describing : Described(d))

Init == FormInit /\ SearchInit
Next ==
  \/ FormStep
  \/ Compose \/ MoreRepos \/ RetryRepos \/ MoreTags \/ RetryTags
  \/ \E v \in Terms \cup Refs \cup {None} : Type(v)
  \/ \E r \in Repos \cup {None} : Choose(r)
  \/ \E f \in Filters : Filter(f)
  \/ Lookups

Spec == Init /\ [][Next]_vars

\* Timers fire; a lookup is answered or times out; nothing is assumed of users,
\* nor of the requests of the form.
Fairness == WF_vars(Lookups)
FairSpec == Spec /\ Fairness
-----------------------------------------------------------------------------
(* Properties. *)

\* "Results are applied only while the run is current, even if fetch ignores
\* the signal", "a changed endpoint/account restarts pagination as well as
\* cancelling work": what is listed answers the keyword or the repository of
\* now, over the route of now, with the account of now.
OwnResults ==
  /\ \A p \in Range(hits.pages) : p.of = query /\ p.route = RepoRoute
  /\ \A p \in Range(tags.pages) : p.of = TagTarget /\ p.route = TagRoute /\ tags.repo = p.of

\* The details of a row, kept by the tag's name alone, are those of the
\* repository and route listed.
OwnDetails ==
  \A n \in Names : details[n].is = "read" => details[n].repo = TagTarget /\ details[n].route = TagRoute

\* No manifest of Docker Hub is read for a listing, not even of one that came
\* from the registry's own list: such reads count against the pull quota.
HubNotPulled == \A d \in describing : ~OnHub(d.repo)

\* Once nobody changes anything the search comes to rest: no pane keeps
\* loading, and no row that is shown stays pending.
ComesToRest == <>[](/\ \A pane \in {"repos", "tags"} : ~Loading(pane)
                    /\ \A n \in Rows : details[n].is # "pending")

\* What the search shows and reads is sound: types, results and details of what is asked
\* for now, and no manifest of Docker Hub read.
Sound == TypeOK /\ OwnResults /\ OwnDetails /\ HubNotPulled
=============================================================================
