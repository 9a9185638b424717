--------------------------- MODULE MCRemoteSearch ---------------------------
(***************************************************************************)
(* Instances of RemoteSearch: two endpoints, an account of the browser and *)
(* one of the server, which another user or this one may add to.           *)
(***************************************************************************)
EXTENDS RemoteSearch

Nobody == [w \in Workers |-> Nothing]
Hub1(w) == [id |-> "b1", host |-> "hub", secret |-> "x", at |-> w]

\* A browser that only used the server's proxy; one that remembers the accounts of w2 and
\* saved w1 last; one that remembers those of w1.
MCRemembered ==
  {[workers |-> <<>>, proxies |-> <<"p1">>, mode |-> "server", accounts |-> Nobody],
   [workers |-> <<"w1", "w2">>, proxies |-> <<>>, mode |-> "browser",
    accounts |-> [Nobody EXCEPT !["w2"] = [accounts |-> {Hub1("w2")}, use |-> <<"s1">>]]],
   [workers |-> <<"w1">>, proxies |-> <<>>, mode |-> "browser",
    accounts |-> [Nobody EXCEPT !["w1"] = [accounts |-> {Hub1("w1")}, use |-> <<"s1">>]]]}

MCRegistries == <<[id |-> "s1", host |-> "hub"]>>
MCHostOf == [x \in Repos \cup Refs |-> IF x \in Refs THEN "quay" ELSE "hub"]
=============================================================================
