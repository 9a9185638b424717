--------------------------- MODULE MCBrowserPull ---------------------------
(* Two images, one of several platforms; every kind of task. *)
EXTENDS BrowserPull
MCRefs == {"app", "base"}
MCMulti == {"app"}
MCLayers == <<"l1", "l2", "l1">>
T(k, m, b, r, p) == [kind |-> k, mode |-> m, canBuild |-> b, restart |-> r, platform |-> p, ref |-> "app"]
MCTasks ==
  {T("pull", "", FALSE, FALSE, FALSE), T("create", "", FALSE, FALSE, TRUE), T("upgrade", "", FALSE, FALSE, TRUE)}
  \cup {T("compose", m, FALSE, FALSE, TRUE) : m \in {"pull", "up", "build"}}
  \cup {T("update", m, b, r, TRUE) : m \in {"browser", "server"}, b \in BOOLEAN, r \in BOOLEAN}
MCPlans == {[images |-> <<"app">>, bases |-> <<>>, rejected |-> {}],
            [images |-> <<"app">>, bases |-> <<"base">>, rejected |-> {"build"}],
            [images |-> <<>>, bases |-> <<"base">>, rejected |-> {"build", "digest"}]}
=============================================================================
