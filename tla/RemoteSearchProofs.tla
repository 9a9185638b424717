------------------------- MODULE RemoteSearchProofs -------------------------
(***************************************************************************)
(* Proofs about PullForm and RemoteSearch, for any endpoints, accounts,    *)
(* registries, keywords and repositories and any number of events: what    *)
(* is kept is kept with its endpoint and only if asked, and what the       *)
(* search lists is of what is asked for now.                               *)
(***************************************************************************)
EXTENDS RemoteSearch, SequenceLemmas, SequenceTheorems, FiniteSetTheorems, TLAPS

-----------------------------------------------------------------------------
(* The inductive invariant of the form. *)

\* What localStorage may hold.
Stored(b) ==
  /\ b \in Box
  /\ \A w \in Workers : /\ Distinct(b.accounts[w].accounts) /\ IsInjective(b.accounts[w].use)
                        /\ \A a \in b.accounts[w].accounts : a.at = w

\* The accounts of the endpoint, what is picked of them and what is stored.
Accounts ==
  /\ worker \in Workers \cup {None} /\ remember \in BOOLEAN
  /\ creds \subseteq Account /\ Distinct(creds) /\ use \in Seq(Keys) /\ IsInjective(use)
  /\ Stored(box)
  /\ \A a \in creds : a.at = worker
  /\ ~remember /\ worker # None => box.accounts[worker] = Nothing

Fields == /\ panel \in {"closed", "form", "search"} /\ mode \in Modes /\ proxy \in Proxies \cup {None}
          /\ events \in 0 .. MaxEvents

Reveals == [id : ServerIds, why : {"pick", "mount", "verify"}]
Savings == [verb : {None, "add", "edit", "delete"}, id : ServerIds \cup {None},
            host : Hosts \cup {None}, done : BOOLEAN, here : BOOLEAN, seen : SUBSET ServerIds]

\* A write under way knows what it is about.
Known(s) == s = Idle \/ (/\ s.verb # None /\ s.host \in Hosts
                         /\ s.verb # "add" => s.id \in ServerIds)

\* The lists of the mounted options and what they asked for.
Lists ==
  /\ list \in Seq(ServerAccount) /\ reading \in BOOLEAN
  /\ reveals \in Seq(Reveals) /\ saving \in Savings /\ Known(saving)

\* The server's accounts, and what the form has of them.
Servers == registries \in Seq(ServerAccount) /\ revealed \subseteq ServerAccount /\ picked \in Seq(ServerIds)

FormInv == Fields /\ Accounts /\ Lists /\ Servers

LEMMA FormInvSound == FormInv => FormTypeOK /\ KeptAsAsked
BY DEF FormInv, Fields, Accounts, Lists, Servers, Stored, Reveals, Savings, FormTypeOK, KeptAsAsked,
   OwnEndpoint, OnlyIfAsked

-----------------------------------------------------------------------------
(* Sequences of the form. *)

\* Leaving elements of a set out leaves elements that are not in it.
LEMMA LeftOver ==
  ASSUME NEW T, NEW U, NEW s \in Seq(T), NEW X, \A x \in T : x \notin X => x \in U
  PROVE  Without(s, X) \in Seq(U)
<1> DEFINE r == Without(s, X)
<1>1. r \in Seq(T) /\ \A x : Contains(r, x) <=> Contains(s, x) /\ x \notin X
  BY WithoutKeeps
<1> HIDE DEF r
<1>2. Len(r) \in Nat /\ r \in [1..Len(r) -> T]
  BY <1>1, LenProperties
<1>3. \A i \in 1..Len(r) : r[i] \in U
  <2> TAKE i \in 1..Len(r)
  <2>1. r[i] \in T /\ r[i] \notin X
    BY <1>1, <1>2 DEF Contains
  <2> QED BY <2>1
<1>4. r \in [1..Len(r) -> U]
  BY <1>2, <1>3
<1>5. r \in Seq(U)
  BY <1>2, <1>4
<1> QED BY <1>5 DEF r

LEMMA FirstIs ==
  ASSUME NEW T, NEW s \in Seq(T)
  PROVE  First(s) \in T \cup {None}
BY HeadTailProperties DEF First

\* What is saved is put in front.
LEMMA ForemostIs ==
  ASSUME NEW T, NEW s \in Seq(T), NEW x \in T
  PROVE  Foremost(s, x) \in Seq(T)
<1>1. Without(s, {x}) \in Seq(T) /\ <<x>> \in Seq(T)
  BY WithoutKeeps
<1> QED BY <1>1, ConcatProperties DEF Foremost

\* One element more, or none, at the end of what is left.
LEMMA PutLast ==
  ASSUME NEW T, NEW s \in Seq(T), NEW e \in T
  PROVE  s \o <<e>> = Append(s, e)
<1>1. <<e>> \in Seq(T) /\ Len(<<e>>) = 1 /\ <<e>>[1] = e
  OBVIOUS
<1>2. Len(s) \in Nat
  BY LenProperties
<1> DEFINE c == s \o <<e>>
           a == Append(s, e)
           o == <<e>>
<1>3. c \in Seq(T) /\ Len(c) = Len(s) + 1
      /\ \A i \in 1..Len(s) + 1 : c[i] = IF i <= Len(s) THEN s[i] ELSE o[i - Len(s)]
  <2>1. o \in Seq(T) /\ Len(o) = 1 /\ c = s \o o
    BY <1>1
  <2> HIDE DEF o, c
  <2> QED BY <1>2, <2>1, ConcatProperties
<1>4. a \in Seq(T) /\ Len(a) = Len(s) + 1
      /\ (\A i \in 1..Len(s) : a[i] = s[i]) /\ a[Len(s) + 1] = e
  BY AppendProperties
<1>5. o[1] = e
  BY <1>1
<1> HIDE DEF a, c, o
<1>6. \A i \in 1..Len(c) : c[i] = a[i]
  <2> TAKE i \in 1..Len(c)
  <2>1. i \in 1..Len(s) \/ (i = Len(s) + 1 /\ i - Len(s) = 1 /\ ~(i <= Len(s)))
    BY <1>2, <1>3
  <2>2. CASE i \in 1..Len(s)
    BY <1>2, <1>3, <1>4, <2>2
  <2>3. CASE i = Len(s) + 1 /\ i - Len(s) = 1 /\ ~(i <= Len(s))
    BY <1>2, <1>3, <1>4, <1>5, <2>3
  <2> QED BY <2>1, <2>2, <2>3
<1>7. c = a
  BY <1>3, <1>4, <1>6, SeqEqual
<1> QED BY <1>7 DEF a, c

-----------------------------------------------------------------------------
(* The parts of the form. *)

\* Values that are stored are loaded with their endpoint.
LEMMA LoadKeeps ==
  ASSUME NEW w \in Workers \cup {None}, NEW b, Stored(b),
         box' = b, worker' = w, LoadAccounts(w, b)
  PROVE  Accounts'
<1> DEFINE kept == IF w = None THEN Nothing ELSE b.accounts[w]
<1>1. None \notin Workers
  BY FormAssumption DEF FormAssumption, None
<1>2. /\ kept.accounts \subseteq Account /\ Distinct(kept.accounts)
      /\ kept.use \in Seq(Keys) /\ IsInjective(kept.use)
      /\ \A a \in kept.accounts : a.at = w
  <2>1. CASE w = None
    <3>1. kept.accounts = {} /\ kept.use = <<>> /\ <<>> \in Seq(Keys)
      BY <2>1 DEF Nothing
    <3>2. IsInjective(<<>>)
      BY EmptySeq DEF IsInjective
    <3> QED BY <3>1, <3>2 DEF Distinct
  <2>2. CASE w # None
    BY <2>2 DEF Stored, Box
  <2> QED BY <2>1, <2>2
<1>3. creds' = kept.accounts /\ use' = kept.use /\ remember' = (kept # Nothing)
  BY DEF LoadAccounts
<1>4. ~remember' /\ worker' # None => box'.accounts[worker'] = Nothing
  BY <1>3
<1> HIDE DEF kept
<1> QED BY <1>2, <1>3, <1>4 DEF Accounts, Stored, Distinct

\* What is stored for an endpoint is what the form has.
LEMMA StoreKeeps ==
  ASSUME Stored(box), NEW w \in Workers, NEW accounts, NEW keys,
         accounts \subseteq Account, Distinct(accounts), keys \in Seq(Keys), IsInjective(keys),
         \A a \in accounts : a.at = w
  PROVE  Stored([box EXCEPT !.accounts[w] = [accounts |-> accounts, use |-> keys]])
<1> DEFINE k == [accounts |-> accounts, use |-> keys]
           b == [box EXCEPT !.accounts[w] = k]
<1>1. k \in [accounts : SUBSET Account, use : Seq(Keys)] /\ k.accounts = accounts /\ k.use = keys
  OBVIOUS
<1> HIDE DEF k
<1>2. b \in Box /\ \A v \in Workers : b.accounts[v] = IF v = w THEN k ELSE box.accounts[v]
  BY <1>1 DEF Stored, Box
<1> HIDE DEF b
<1>3. Stored(b)
  BY <1>1, <1>2 DEF Stored
<1> QED BY <1>3 DEF b, k

LEMMA NothingKeeps ==
  ASSUME Stored(box), NEW w \in Workers
  PROVE  Stored([box EXCEPT !.accounts[w] = Nothing])
<1>1. {} \subseteq Account /\ Distinct({}) /\ <<>> \in Seq(Keys)
  BY DEF Distinct
<1>2. IsInjective(<<>>)
  BY EmptySeq DEF IsInjective
<1> QED BY <1>1, <1>2, StoreKeeps DEF Nothing

\* persistBrowserAccounts keeps the endpoint's own accounts.
LEMMA PersistKeeps ==
  ASSUME Accounts, NEW accounts, NEW keys,
         accounts \subseteq Account, Distinct(accounts), keys \in Seq(Keys), IsInjective(keys),
         \A a \in accounts : a.at = worker,
         Persist(accounts, keys), creds' = accounts, use' = keys, UNCHANGED <<worker, remember>>
  PROVE  Accounts'
<1>1. CASE remember /\ worker # None
  <2>1. worker \in Workers /\ box' = [box EXCEPT !.accounts[worker] = [accounts |-> accounts, use |-> keys]]
    BY <1>1 DEF Persist, Accounts
  <2>2. Stored(box)'
    <3>1. PICK w \in Workers : w = worker
      BY <2>1
    <3>2. Stored([box EXCEPT !.accounts[w] = [accounts |-> accounts, use |-> keys]])
      BY <3>1, StoreKeeps DEF Accounts
    <3> QED BY <2>1, <3>1, <3>2 DEF Stored
  <2> QED BY <1>1, <2>1, <2>2 DEF Accounts
<1>2. CASE ~(remember /\ worker # None)
  <2>1. box' = box
    BY <1>2 DEF Persist
  <2> QED BY <1>2, <2>1 DEF Accounts, Stored
<1> QED BY <1>1, <1>2

\* A key whose registry is known takes the place of that registry's others.
LEMMA PickKeeps ==
  ASSUME use \in Seq(Keys), IsInjective(use), NEW host, NEW key \in Keys \cup {None}, NEW accounts,
         key # None => KeyHost(key, accounts) = host,
         Pick(host, key, accounts)
  PROVE  use' \in Seq(Keys) /\ IsInjective(use') /\ Persist(accounts, use') /\ Reveal(key, "pick")
<1> DEFINE X == {k \in Keys : KeyHost(k, accounts) = host}
           left == Without(use, X)
<1>1. /\ left \in Seq(Keys) /\ IsInjective(left)
      /\ \A x : Contains(left, x) <=> Contains(use, x) /\ x \notin X
  BY WithoutKeeps
<1>2. use' = left \o (IF key = None THEN <<>> ELSE <<key>>) /\ Persist(accounts, use') /\ Reveal(key, "pick")
  BY DEF Pick
<1>3. key # None => key \in X
  OBVIOUS
<1> HIDE DEF left, X
<1>4. CASE key = None
  <2>1. use' = left
    BY <1>1, <1>2, <1>4, ConcatEmptySeq
  <2> QED BY <1>1, <1>2, <2>1
<1>5. CASE key # None
  <2>1. use' = Append(left, key)
    BY <1>1, <1>2, <1>5, PutLast
  <2>2. key \in Keys /\ ~Contains(left, key)
    BY <1>1, <1>3, <1>5
  <2>3. use' \in Seq(Keys) /\ IsInjective(use')
    BY <1>1, <2>1, <2>2, AppendKeeps
  <2> QED BY <1>2, <2>3
<1> QED BY <1>4, <1>5

LEMMA RevealKeeps ==
  ASSUME reveals \in Seq(Reveals), NEW id, NEW why \in {"pick", "mount", "verify"}, Reveal(id, why)
  PROVE  reveals' \in Seq(Reveals)
<1>1. id \in ServerIds => [id |-> id, why |-> why] \in Reveals
  BY DEF Reveals
<1> QED BY <1>1, AppendProperties DEF Reveal

\* The ids of a list are ids of the server.
LEMMA IdsOfList ==
  ASSUME NEW s \in Seq(ServerAccount)
  PROVE  Range(s) \subseteq ServerAccount /\ Ids(Range(s)) \subseteq ServerIds
<1>1. Range(s) \subseteq ServerAccount
  BY LenProperties, ElementOfSeq DEF Range
<1> QED BY <1>1 DEF Ids, ServerAccount

\* The component that is replaced leaves what it had listed to the write it waits for.
LEMMA LeavesKeep ==
  ASSUME Lists, saving' = IF saving.here THEN [saving EXCEPT !.here = FALSE, !.seen = Ids(Range(list))] ELSE saving
  PROVE  saving' \in Savings /\ Known(saving)'
<1>1. Ids(Range(list)) \subseteq ServerIds
  BY IdsOfList DEF Lists
<1> DEFINE ids == Ids(Range(list))
<1> HIDE DEF ids
<1>2. CASE ~saving.here
  BY <1>2 DEF Lists, Known, Idle
<1>3. CASE saving.here
  <2>1. saving # Idle
    BY <1>3 DEF Idle
  <2>2. saving' = [saving EXCEPT !.here = FALSE, !.seen = ids] /\ ids \subseteq ServerIds
    BY <1>1, <1>3 DEF ids
  <2> QED BY <2>1, <2>2 DEF Lists, Known, Savings, Idle
<1> QED BY <1>2, <1>3

LEMMA MountKeeps ==
  ASSUME Lists, NEW m, NEW keys \in Seq(Keys), NEW known, Mount(m, keys, known)
  PROVE  Lists'
<1> DEFINE ids == Without(keys, BrowserIds \cup Ids(known))
           asked == [i \in DOMAIN ids |-> [id |-> ids[i], why |-> "mount"]]
<1>1. ids \in Seq(ServerIds)
  BY LeftOver DEF Keys
<1>2. asked \in Seq(Reveals)
  <2>1. Len(ids) \in Nat /\ DOMAIN ids = 1..Len(ids) /\ \A i \in 1..Len(ids) : ids[i] \in ServerIds
    BY <1>1, LenProperties, ElementOfSeq
  <2> HIDE DEF ids
  <2>2. asked \in [1..Len(ids) -> Reveals]
    BY <2>1 DEF Reveals
  <2> HIDE DEF asked
  <2> QED BY <2>1, <2>2
<1>3. reveals' = reveals \/ reveals' = reveals \o asked
  BY ConcatEmptySeq DEF Mount, Lists
<1> HIDE DEF asked, ids
<1>4. reveals' \in Seq(Reveals)
  BY <1>2, <1>3, ConcatProperties DEF Lists
<1>5. saving' \in Savings /\ Known(saving)'
  BY LeavesKeep DEF Mount
<1>6. list' = <<>> /\ reading' = TRUE
  BY DEF Mount
<1> QED BY <1>4, <1>5, <1>6 DEF Lists

LEMMA UnmountKeeps ==
  ASSUME Lists, Unmount
  PROVE  Lists'
<1>1. saving' \in Savings /\ Known(saving)'
  BY LeavesKeep DEF Unmount
<1>2. list' = <<>> /\ reading' = FALSE /\ reveals' = reveals
  BY DEF Unmount
<1>3. list' \in Seq(ServerAccount)
  BY <1>2, EmptySeq
<1>4. reading' \in BOOLEAN
  BY <1>2
<1>5. reveals' \in Seq(Reveals)
  BY <1>2 DEF Lists
<1> QED BY <1>1, <1>3, <1>4, <1>5 DEF Lists

\* What a step does not touch.
LEMMA Untouched ==
  ASSUME FormInv
  PROVE  /\ UNCHANGED <<worker, creds, use, remember, box>> => Accounts'
         /\ Mounted => Lists'
         /\ UNCHANGED <<registries, revealed, picked>> => Servers'
         /\ UNCHANGED <<panel, mode, proxy, events>> => Fields'
BY DEF FormInv, Accounts, Lists, Servers, Fields, Mounted, Stored, Known, Distinct

\* Events are counted.
LEMMA Counted ==
  ASSUME FormInv, Event, panel' \in {"closed", "form", "search"}, mode' \in Modes, proxy' \in Proxies \cup {None}
  PROVE  Fields'
BY FormAssumption DEF FormInv, Fields, Event, FormAssumption

-----------------------------------------------------------------------------
(* The steps of the form. *)

\* Opening, folding and closing mount or unmount the options; closing resets the values.
LEMMA DialogKeeps ==
  ASSUME FormInv, OpenDialog \/ ToggleSearch \/ CloseDialog
  PROVE  FormInv'
<1>1. CASE OpenDialog \/ ToggleSearch
  <2>1. Event /\ panel' \in {"form", "search"} /\ Mount(mode, use, revealed) /\ UNCHANGED <<form, box, registries>>
    BY <1>1 DEF OpenDialog, ToggleSearch
  <2>2. Lists' /\ Accounts' /\ Servers'
    BY <2>1, MountKeeps, Untouched DEF FormInv, Accounts, form
  <2>3. Fields'
    BY <2>1, Counted DEF FormInv, Fields, form
  <2> QED BY <2>2, <2>3 DEF FormInv
<1>2. CASE CloseDialog
  <2>1. Event /\ panel' = "closed" /\ Unmount /\ Fresh(box) /\ UNCHANGED <<box, registries>>
    BY <1>2 DEF CloseDialog
  <2>2. Lists'
    BY <2>1, UnmountKeeps DEF FormInv
  <2>3. box.workers \in Seq(Workers) /\ box.proxies \in Seq(Proxies) /\ box.mode \in Modes
    BY DEF FormInv, Accounts, Stored, Box
  <2>4. mode' \in Modes /\ proxy' \in Proxies \cup {None}
    BY <2>1, <2>3, FirstIs DEF Fresh
  <2>5. Fields'
    BY <2>1, <2>4, Counted
  <2>6. PICK w \in Workers : worker' = w /\ LoadAccounts(w, box)
    <3>1. (IF box.workers = <<>> THEN DefaultWorker ELSE Head(box.workers)) \in Workers
      BY <2>3, HeadTailProperties, FormAssumption DEF FormAssumption
    <3> QED BY <2>1, <3>1 DEF Fresh, SetWorker
  <2>7. Accounts'
    <3>1. PICK b : b = box
      OBVIOUS
    <3>2. Stored(b) /\ box' = b /\ LoadAccounts(w, b)
      BY <2>1, <2>6, <3>1 DEF FormInv, Accounts
    <3> QED BY <2>6, <3>2, LoadKeeps
  <2>8. Servers'
    <3>1. revealed' = {} /\ picked' = <<>> /\ registries' = registries
      BY <2>1 DEF Fresh
    <3> QED BY <3>1, EmptySeq DEF FormInv, Servers
  <2> QED BY <2>2, <2>5, <2>7, <2>8 DEF FormInv
<1> QED BY <1>1, <1>2

LEMMA ModeKeeps ==
  ASSUME FormInv, NEW m \in Modes, SetMode(m)
  PROVE  FormInv'
<1>1. /\ Event /\ mode' = m /\ box' = [box EXCEPT !.mode = m]
      /\ Mount(m, use, revealed) \/ Mounted
      /\ UNCHANGED <<panel, worker, creds, use, revealed, remember, picked, proxy, registries>>
  BY DEF SetMode
<1>2. Lists'
  BY <1>1, MountKeeps, Untouched DEF FormInv, Accounts
<1>3. Stored(box)' /\ box'.accounts = box.accounts
  BY <1>1 DEF FormInv, Accounts, Stored, Box, Distinct
<1>4. Accounts'
  BY <1>1, <1>3 DEF FormInv, Accounts, Distinct
<1>5. Fields' /\ Servers'
  BY <1>1, Counted, Untouched DEF FormInv, Fields
<1> QED BY <1>2, <1>4, <1>5 DEF FormInv

\* The endpoint is typed, saved or forgotten: its accounts come and go with it.
LEMMA WorkerKeeps ==
  ASSUME FormInv, NEW w \in Workers \cup {None}, InputWorker(w) \/ SaveWorker \/ DeleteWorker(w)
  PROVE  FormInv'
<1>1. Event /\ Mounted /\ UNCHANGED <<panel, mode, revealed, picked, proxy, registries>>
  BY DEF InputWorker, SaveWorker, DeleteWorker
<1>2. Lists' /\ Servers' /\ Fields'
  BY <1>1, Counted, Untouched DEF FormInv, Fields
<1>3. None \notin Workers
  BY FormAssumption DEF FormAssumption, None
<1>4. CASE InputWorker(w)
  <2>1. PICK b : b = box
    OBVIOUS
  <2>2. box' = b /\ worker' = w /\ LoadAccounts(w, b) /\ Stored(b)
    BY <1>4, <2>1 DEF InputWorker, SetWorker, FormInv, Accounts
  <2>3. Accounts'
    BY <2>2, LoadKeeps
  <2> QED BY <1>2, <2>3 DEF FormInv
<1>5. CASE SaveWorker
  <2>1. worker \in Workers /\ box' = [box EXCEPT !.workers = Foremost(@, worker)]
        /\ worker' = worker /\ LoadAccounts(worker, box')
    BY <1>5 DEF SaveWorker, SetWorker, FormInv, Accounts
  <2>2. Foremost(box.workers, worker) \in Seq(Workers)
    BY <2>1, ForemostIs DEF FormInv, Accounts, Stored, Box
  <2>3. Stored(box')
    BY <2>1, <2>2 DEF FormInv, Accounts, Stored, Box
  <2>4. PICK b, x : b = box' /\ x = worker
    OBVIOUS
  <2>5. box' = b /\ worker' = x /\ LoadAccounts(x, b) /\ Stored(b) /\ x \in Workers
    BY <2>1, <2>3, <2>4
  <2>6. Accounts'
    BY <2>5, LoadKeeps
  <2> QED BY <1>2, <2>6 DEF FormInv
<1>6. CASE DeleteWorker(w)
  <2>1. /\ box' = [box EXCEPT !.workers = Without(@, {w}), !.accounts[w] = Nothing]
        /\ Contains(box.workers, w)
        /\ IF worker = w THEN SetWorker(First(box'.workers), box') ELSE UNCHANGED <<worker, creds, use, remember>>
    BY <1>6 DEF DeleteWorker
  <2>2. box.workers \in Seq(Workers) /\ box \in Box
    BY DEF FormInv, Accounts, Stored, Box
  <2>3. w \in Workers
    BY <2>1, <2>2, LenProperties, ElementOfSeq DEF Contains
  <2>4. Stored([box EXCEPT !.accounts[w] = Nothing])
    BY <2>3, NothingKeeps DEF FormInv, Accounts
  <2>5. Without(box.workers, {w}) \in Seq(Workers)
    BY <2>2, WithoutKeeps
  <2>6. Stored(box') /\ box'.workers \in Seq(Workers)
        /\ \A v \in Workers : v # w => box'.accounts[v] = box.accounts[v]
    BY <2>1, <2>2, <2>3, <2>4, <2>5 DEF Stored, Box
  <2>7. Accounts'
    <3>1. CASE worker = w
      <4>1. PICK b, x : b = box' /\ x = First(box'.workers)
        OBVIOUS
      <4>2. box' = b /\ worker' = x /\ LoadAccounts(x, b) /\ Stored(b)
        BY <2>1, <2>6, <3>1, <4>1 DEF SetWorker
      <4>3. x \in Workers \cup {None}
        BY <2>6, <4>1, FirstIs
      <4> QED BY <4>2, <4>3, LoadKeeps
    <3>2. CASE worker # w
      BY <2>1, <2>6, <3>2 DEF FormInv, Accounts, Distinct
    <3> QED BY <3>1, <3>2
  <2> QED BY <1>2, <2>7 DEF FormInv
<1> QED BY <1>4, <1>5, <1>6

LEMMA ProxyKeeps ==
  ASSUME FormInv, NEW p \in Proxies \cup {None}, InputProxy(p) \/ SaveProxy \/ DeleteProxy(p)
  PROVE  FormInv'
<1>1. Event /\ Mounted /\ UNCHANGED <<panel, mode, worker, creds, use, revealed, remember, picked, registries>>
  BY DEF InputProxy, SaveProxy, DeleteProxy, form
<1>2. Lists' /\ Servers'
  BY <1>1, Untouched DEF FormInv
<1>3. box \in Box /\ box.proxies \in Seq(Proxies)
  BY DEF FormInv, Accounts, Stored, Box
<1>4. proxy' \in Proxies \cup {None} /\ \E s \in Seq(Proxies) : box' = [box EXCEPT !.proxies = s]
  <2>1. CASE InputProxy(p)
    <3>1. box' = [box EXCEPT !.proxies = box.proxies]
      BY <1>3, <2>1 DEF InputProxy, Box
    <3> QED BY <1>3, <2>1, <3>1 DEF InputProxy
  <2>2. CASE SaveProxy
    <3>1. proxy \in Proxies
      BY <2>2 DEF SaveProxy, FormInv, Fields
    <3>2. Foremost(box.proxies, proxy) \in Seq(Proxies)
      BY <1>3, <3>1, ForemostIs
    <3> QED BY <2>2, <3>1, <3>2 DEF SaveProxy, form
  <2>3. CASE DeleteProxy(p)
    <3>1. Without(box.proxies, {p}) \in Seq(Proxies)
      BY <1>3, WithoutKeeps
    <3>2. box' = [box EXCEPT !.proxies = Without(box.proxies, {p})]
      BY <2>3 DEF DeleteProxy
    <3>3. box'.proxies \in Seq(Proxies)
      BY <1>3, <3>1, <3>2 DEF Box
    <3>4. proxy' = IF proxy = p THEN First(box'.proxies) ELSE proxy
      BY <2>3 DEF DeleteProxy
    <3>5. proxy' \in Proxies \cup {None}
      BY <3>3, <3>4, FirstIs DEF FormInv, Fields
    <3> QED BY <3>1, <3>2, <3>5
  <2> QED BY <2>1, <2>2, <2>3
<1>5. Stored(box)' /\ box'.accounts = box.accounts
  BY <1>3, <1>4 DEF FormInv, Accounts, Stored, Box, Distinct
<1>6. Accounts'
  BY <1>1, <1>5 DEF FormInv, Accounts, Distinct
<1>7. Fields'
  BY <1>1, <1>4, Counted DEF FormInv, Fields
<1> QED BY <1>2, <1>6, <1>7 DEF FormInv

\* The registry of an account of this browser is that of the account with its id.
LEMMA KeyHostOwn ==
  ASSUME NEW a, NEW accounts, a \in accounts, Distinct(accounts), a.id \in BrowserIds
  PROVE  KeyHost(a.id, accounts) = a.host
<1>1. a.id \in Ids(accounts)
  BY DEF Ids
<1>2. (CHOOSE b \in accounts : b.id = a.id) = a
  BY DEF Distinct
<1> QED BY <1>1, <1>2 DEF KeyHost

\* Accounts of this browser are picked, written, dropped and remembered.
LEMMA AccountKeeps ==
  ASSUME FormInv,
         \/ \E h \in Hosts, k \in Keys \cup {None} : Select(h, k)
         \/ \E i \in BrowserIds, h \in Hosts, s \in Secrets : SaveAccount(i, h, s)
         \/ \E i \in BrowserIds : RemoveAccount(i)
         \/ Remember
  PROVE  FormInv'
<1>1. /\ Event /\ UNCHANGED <<panel, mode, worker, revealed, picked, proxy, registries, list, reading, saving>>
  BY DEF Select, SaveAccount, RemoveAccount, Remember, Mounted
<1>2. Servers' /\ Fields'
  BY <1>1, Counted, Untouched DEF FormInv, Fields
<1>3. ASSUME reveals' \in Seq(Reveals) PROVE Lists'
  BY <1>1, <1>3 DEF FormInv, Lists, Known
<1>4. /\ use \in Seq(Keys) /\ IsInjective(use) /\ reveals \in Seq(Reveals) /\ creds \subseteq Account
      /\ Distinct(creds) /\ \A a \in creds : a.at = worker
  BY DEF FormInv, Accounts, Lists
<1>5. CASE \E h \in Hosts, k \in Keys \cup {None} : Select(h, k)
  <2>1. PICK h \in Hosts, k \in Keys \cup {None} : Select(h, k)
    BY <1>5
  <2>2. Pick(h, k, creds) /\ (k # None => KeyHost(k, creds) = h) /\ UNCHANGED <<creds, remember>>
    BY <2>1 DEF Select
  <2>3. use' \in Seq(Keys) /\ IsInjective(use') /\ Persist(creds, use') /\ Reveal(k, "pick")
    BY <1>4, <2>2, PickKeeps
  <2>4. PICK accounts, keys : accounts = creds /\ keys = use'
    OBVIOUS
  <2>5. Accounts'
    BY <1>1, <1>4, <2>2, <2>3, <2>4, PersistKeeps DEF FormInv
  <2>6. Lists'
    BY <1>3, <1>4, <2>3, RevealKeeps
  <2> QED BY <1>2, <2>5, <2>6 DEF FormInv
<1>6. CASE \E i \in BrowserIds, h \in Hosts, s \in Secrets : SaveAccount(i, h, s)
  <2>1. PICK i \in BrowserIds, h \in Hosts, s \in Secrets : SaveAccount(i, h, s)
    BY <1>6
  <2> DEFINE a == [id |-> i, host |-> h, secret |-> s, at |-> worker]
  <2>2. /\ creds' = {b \in creds : b.id # i} \cup {a} /\ UNCHANGED remember
        /\ IF i \notin Ids(creds) \/ Contains(use, i) THEN Pick(h, i, creds')
           ELSE Persist(creds', use) /\ UNCHANGED <<use, reveals>>
    BY <2>1 DEF SaveAccount
  <2>3. a \in Account /\ a.id = i /\ a.host = h /\ a.at = worker
    BY DEF Account, FormInv, Accounts
  <2> HIDE DEF a
  <2>4. PICK accounts : accounts = creds'
    OBVIOUS
  <2>5. accounts \subseteq Account /\ Distinct(accounts) /\ (\A b \in accounts : b.at = worker) /\ a \in accounts
    BY <1>4, <2>2, <2>3, <2>4 DEF Distinct
  <2>6. KeyHost(i, accounts) = h /\ i \in Keys \cup {None}
    BY <2>3, <2>5, KeyHostOwn DEF Keys
  <2>7. use' \in Seq(Keys) /\ IsInjective(use') /\ Persist(accounts, use') /\ reveals' \in Seq(Reveals)
    <3>1. CASE i \notin Ids(creds) \/ Contains(use, i)
      <4>1. Pick(h, i, accounts)
        BY <2>2, <2>4, <3>1
      <4>2. use' \in Seq(Keys) /\ IsInjective(use') /\ Persist(accounts, use') /\ Reveal(i, "pick")
        BY <1>4, <2>6, <4>1, PickKeeps
      <4> QED BY <1>4, <4>2, RevealKeeps
    <3>2. CASE ~(i \notin Ids(creds) \/ Contains(use, i))
      BY <1>4, <2>2, <2>4, <3>2
    <3> QED BY <3>1, <3>2
  <2>8. PICK keys : keys = use'
    OBVIOUS
  <2>9. Accounts'
    BY <1>1, <2>2, <2>4, <2>5, <2>7, <2>8, PersistKeeps DEF FormInv
  <2> QED BY <1>2, <1>3, <2>7, <2>9 DEF FormInv
<1>7. CASE \E i \in BrowserIds : RemoveAccount(i)
  <2>1. PICK i \in BrowserIds : RemoveAccount(i)
    BY <1>7
  <2>2. /\ use' = Without(use, {i}) /\ creds' = {a \in creds : a.id # i} /\ Persist(creds', use')
        /\ UNCHANGED <<remember, reveals>>
    BY <2>1 DEF RemoveAccount, Mounted
  <2>3. PICK accounts, keys : accounts = creds' /\ keys = use'
    OBVIOUS
  <2>4. keys \in Seq(Keys) /\ IsInjective(keys)
    BY <1>4, <2>2, <2>3, WithoutKeeps
  <2>5. accounts \subseteq Account /\ Distinct(accounts) /\ \A b \in accounts : b.at = worker
    BY <1>4, <2>2, <2>3 DEF Distinct
  <2>6. Accounts'
    BY <1>1, <2>2, <2>3, <2>4, <2>5, PersistKeeps DEF FormInv
  <2> QED BY <1>2, <1>3, <1>4, <2>2, <2>6 DEF FormInv
<1>8. CASE Remember
  <2>1. /\ remember' = ~remember /\ UNCHANGED <<creds, use, reveals>>
        /\ box' = IF worker = None THEN box
                  ELSE [box EXCEPT !.accounts[worker] = IF remember THEN Nothing ELSE [accounts |-> creds, use |-> use]]
    BY <1>8 DEF Remember, Mounted
  <2>2. Stored(box') /\ (remember /\ worker # None => box'.accounts[worker] = Nothing)
    <3>1. CASE worker = None
      BY <2>1, <3>1 DEF FormInv, Accounts
    <3>2. CASE worker # None /\ remember
      <4>1. PICK w \in Workers : w = worker
        BY <3>2 DEF FormInv, Accounts
      <4>2. Stored([box EXCEPT !.accounts[w] = Nothing])
        BY NothingKeeps DEF FormInv, Accounts
      <4> QED BY <2>1, <3>2, <4>1, <4>2 DEF FormInv, Accounts, Stored, Box
    <3>3. CASE worker # None /\ ~remember
      <4>1. PICK w \in Workers : w = worker
        BY <3>3 DEF FormInv, Accounts
      <4>2. PICK accounts, keys : accounts = creds /\ keys = use
        OBVIOUS
      <4>3. Stored([box EXCEPT !.accounts[w] = [accounts |-> accounts, use |-> keys]])
        BY <1>4, <4>1, <4>2, StoreKeeps DEF FormInv, Accounts
      <4> QED BY <2>1, <3>3, <4>1, <4>2, <4>3
    <3> QED BY <3>1, <3>2, <3>3
  <2>3. Accounts'
    BY <1>1, <1>4, <2>1, <2>2 DEF FormInv, Accounts, Distinct
  <2> QED BY <1>2, <1>3, <1>4, <2>1, <2>3 DEF FormInv
<1> QED BY <1>5, <1>6, <1>7, <1>8

\* A secret is asked for, comes or does not come, whatever the form has become.
LEMMA RevealsKeep ==
  ASSUME FormInv,
         \/ \E i \in ServerIds : Verify(i)
         \/ \E i \in DOMAIN reveals : Revealed(i) \/ NotRevealed(i)
  PROVE  FormInv'
<1>1. UNCHANGED <<panel, mode, worker, creds, remember, picked, proxy, registries, list, reading, saving>>
  BY DEF Verify, Revealed, NotRevealed, Others, form
<1>2. ASSUME reveals' \in Seq(Reveals) PROVE Lists'
  BY <1>1, <1>2 DEF FormInv, Lists, Known
<1>3. /\ use \in Seq(Keys) /\ IsInjective(use) /\ reveals \in Seq(Reveals) /\ creds \subseteq Account
      /\ Distinct(creds) /\ \A a \in creds : a.at = worker
  BY DEF FormInv, Accounts, Lists
<1>4. CASE \E i \in ServerIds : Verify(i)
  <2>1. PICK i \in ServerIds : Verify(i)
    BY <1>4
  <2>2. Event /\ Reveal(i, "verify") /\ UNCHANGED <<form, box, registries>>
    BY <2>1 DEF Verify
  <2>3. reveals' \in Seq(Reveals)
    BY <1>3, <2>2, RevealKeeps
  <2>4. Accounts' /\ Servers' /\ Fields'
    BY <1>1, <2>2, Counted, Untouched DEF FormInv, Fields, form
  <2> QED BY <1>2, <2>3, <2>4 DEF FormInv
<1>5. CASE \E i \in DOMAIN reveals : Revealed(i)
  <2>1. PICK i \in DOMAIN reveals : Revealed(i)
    BY <1>5
  <2>2. /\ reveals' = RemoveAt(reveals, i) /\ UNCHANGED <<use, box, events>>
        /\ \E r \in Range(registries) : revealed' = {s \in revealed : s.id # r.id} \cup {r}
    BY <2>1 DEF Revealed, Others
  <2>3. reveals' \in Seq(Reveals)
    BY <1>3, <2>2, RemoveAtTyped
  <2>4. Accounts' /\ Fields'
    BY <1>1, <2>2, Untouched
  <2>5. Range(registries) \subseteq ServerAccount
    BY IdsOfList DEF FormInv, Servers
  <2>6. Servers'
    BY <1>1, <2>2, <2>5 DEF FormInv, Servers
  <2> QED BY <1>2, <2>3, <2>4, <2>6 DEF FormInv
<1>6. CASE \E i \in DOMAIN reveals : NotRevealed(i)
  <2>1. PICK i \in DOMAIN reveals : NotRevealed(i)
    BY <1>6
  <2>2. /\ reveals' = RemoveAt(reveals, i) /\ UNCHANGED <<revealed, events>>
        /\ UNCHANGED <<use, box>> \/ (use' = Without(use, {reveals[i].id}) /\ Persist(creds, use'))
    BY <2>1 DEF NotRevealed, Others
  <2>3. reveals' \in Seq(Reveals)
    BY <1>3, <2>2, RemoveAtTyped
  <2>4. Servers' /\ Fields'
    BY <1>1, <2>2, Untouched
  <2>5. Accounts'
    <3>1. CASE UNCHANGED <<use, box>>
      BY <1>1, <3>1, Untouched
    <3>2. CASE use' = Without(use, {reveals[i].id}) /\ Persist(creds, use')
      <4>1. PICK accounts, keys : accounts = creds /\ keys = use'
        OBVIOUS
      <4>2. keys \in Seq(Keys) /\ IsInjective(keys)
        BY <1>3, <3>2, <4>1, WithoutKeeps
      <4> QED BY <1>1, <1>3, <3>2, <4>1, <4>2, PersistKeeps DEF FormInv
    <3> QED BY <2>2, <3>1, <3>2
  <2> QED BY <1>2, <2>3, <2>4, <2>5 DEF FormInv
<1> QED BY <1>4, <1>5, <1>6

\* One account of the server is picked for its registry.
LEMMA PickServerKeeps ==
  ASSUME picked \in Seq(ServerIds), NEW host, NEW id \in ServerIds \cup {None}, NEW known,
         PickServer(host, id, known)
  PROVE  picked' \in Seq(ServerIds)
<1> DEFINE left == Without(picked, Ids({r \in Range(known) : r.host = host}))
<1>1. left \in Seq(ServerIds)
  BY WithoutKeeps
<1>2. picked' = left \o (IF id = None THEN <<>> ELSE <<id>>)
  BY DEF PickServer
<1> HIDE DEF left
<1>3. (IF id = None THEN <<>> ELSE <<id>>) \in Seq(ServerIds)
  BY EmptySeq
<1> QED BY <1>1, <1>2, <1>3, ConcatProperties

LEMMA ServerPickKeeps ==
  ASSUME FormInv,
         \/ \E h \in Hosts, i \in ServerIds \cup {None} : SelectServer(h, i)
         \/ \E v \in {"add", "edit", "delete"}, i \in ServerIds \cup {None}, h \in Hosts : SaveServer(v, i, h)
  PROVE  FormInv'
<1>1. Event /\ UNCHANGED <<panel, mode, worker, creds, use, revealed, remember, proxy, box, registries, list, reading, reveals>>
  BY DEF SelectServer, SaveServer, Mounted, form
<1>2. Accounts' /\ Fields'
  BY <1>1, Counted, Untouched DEF FormInv, Fields
<1>3. CASE \E h \in Hosts, i \in ServerIds \cup {None} : SelectServer(h, i)
  <2>1. picked' \in Seq(ServerIds) /\ UNCHANGED saving
    BY <1>3, PickServerKeeps DEF SelectServer, Mounted, FormInv, Servers
  <2> QED BY <1>1, <1>2, <2>1 DEF FormInv, Lists, Servers, Known
<1>4. CASE \E v \in {"add", "edit", "delete"}, i \in ServerIds \cup {None}, h \in Hosts : SaveServer(v, i, h)
  <2>1. PICK v \in {"add", "edit", "delete"}, i \in ServerIds \cup {None}, h \in Hosts : SaveServer(v, i, h)
    BY <1>4
  <2>2. /\ IF v = "add" THEN i = None ELSE i \in Ids(Range(list))
        /\ saving' = [Idle EXCEPT !.verb = v, !.id = i, !.host = h, !.here = TRUE] /\ UNCHANGED picked
    BY <2>1 DEF SaveServer, form
  <2>3. Ids(Range(list)) \subseteq ServerIds
    BY IdsOfList DEF FormInv, Lists
  <2>4. saving' = [verb |-> v, id |-> i, host |-> h, done |-> FALSE, here |-> TRUE, seen |-> {}]
    BY <2>2 DEF Idle
  <2>5. saving' \in Savings /\ v # None
    BY <2>4 DEF Savings, None
  <2>6. Known(saving')
    BY <2>2, <2>3, <2>4, <2>5 DEF Known
  <2>7. Lists' /\ Servers'
    BY <1>1, <2>2, <2>5, <2>6 DEF FormInv, Lists, Servers
  <2> QED BY <1>2, <2>7 DEF FormInv
<1> QED BY <1>3, <1>4

\* The server's accounts change and are read.
LEMMA ServersKeep ==
  ASSUME FormInv, Writes \/ Listed \/ OtherUser
  PROVE  FormInv'
<1>1. UNCHANGED <<panel, mode, worker, creds, use, revealed, remember, proxy, box, reveals>>
      /\ (UNCHANGED events \/ Event)
  BY DEF Writes, Written, NotWritten, Refetched, NotRefetched, Listed, OtherUser, Elsewhere, form
<1>2. Accounts' /\ Fields'
  BY <1>1, Counted, Untouched DEF FormInv, Fields
<1>3. /\ registries \in Seq(ServerAccount) /\ picked \in Seq(ServerIds) /\ list \in Seq(ServerAccount)
      /\ saving \in Savings /\ Known(saving)
  BY DEF FormInv, Servers, Lists
<1>4. Idle \in Savings /\ Known(Idle)
  BY DEF Idle, Savings, Known
<1>5. Ids(Range(list)) \subseteq ServerIds
  BY <1>3, IdsOfList
<1>6. \A X : Without(registries, X) \in Seq(ServerAccount) /\ Without(picked, X) \in Seq(ServerIds)
  BY <1>3, WithoutKeeps
<1>7. \A id \in NewIds, h \in Hosts : Append(registries, [id |-> id, host |-> h]) \in Seq(ServerAccount)
  <2> TAKE id \in NewIds, h \in Hosts
  <2>1. [id |-> id, host |-> h] \in ServerAccount
    BY DEF NewIds, ServerAccount
  <2> QED BY <1>3, <2>1, AppendProperties
<1>8. CASE Written
  <2>1. saving # Idle /\ saving.host \in Hosts
    BY <1>3, <1>8 DEF Written, Known
  <2>2. registries' \in Seq(ServerAccount)
    <3> DEFINE edited == [i \in DOMAIN registries |->
                 IF registries[i].id = saving.id THEN [registries[i] EXCEPT !.host = saving.host] ELSE registries[i]]
    <3>1. edited \in Seq(ServerAccount)
      <4>1. Len(registries) \in Nat /\ DOMAIN registries = 1..Len(registries)
            /\ \A i \in 1..Len(registries) : registries[i] \in ServerAccount
        BY <1>3, LenProperties, ElementOfSeq
      <4>2. edited \in [1..Len(registries) -> ServerAccount]
        BY <2>1, <4>1 DEF ServerAccount
      <4> HIDE DEF edited
      <4> QED BY <4>1, <4>2
    <3>2. \/ \E id \in NewIds : registries' = Append(registries, [id |-> id, host |-> saving.host])
          \/ registries' = edited
          \/ registries' = Without(registries, {r \in Range(registries) : r.id = saving.id})
      BY <1>8 DEF Written
    <3> HIDE DEF edited
    <3> QED BY <1>6, <1>7, <2>1, <3>1, <3>2
  <2>3. picked' \in Seq(ServerIds)
    BY <1>3, <1>6, <1>8 DEF Written
  <2>4. PICK ids : ids = Ids(Range(list))
    OBVIOUS
  <2>5. saving' = [saving EXCEPT !.done = TRUE, !.seen = IF saving.here THEN ids ELSE @]
        /\ UNCHANGED <<list, reading>>
    BY <1>8, <2>4 DEF Written
  <2>6. saving' \in Savings /\ saving'.verb = saving.verb /\ saving'.host = saving.host /\ saving'.id = saving.id
    BY <1>3, <1>5, <2>4, <2>5 DEF Savings
  <2>7. Known(saving')
    BY <1>3, <2>1, <2>6 DEF Known
  <2> QED BY <1>1, <1>2, <2>2, <2>3, <2>5, <2>6, <2>7 DEF FormInv, Lists, Servers
<1>9. CASE NotWritten
  <2>1. saving' = Idle /\ UNCHANGED <<registries, picked, list, reading>>
    BY <1>9 DEF NotWritten
  <2> QED BY <1>1, <1>2, <1>4, <2>1 DEF FormInv, Lists, Servers
<1>10. CASE Refetched
  <2> DEFINE new == Without(registries, {r \in Range(registries) : r.id \in saving.seen})
  <2>1. /\ saving' = Idle /\ list' = (IF saving.here THEN registries ELSE list) /\ UNCHANGED <<registries, reading>>
        /\ (new # <<>> /\ PickServer(saving.host, Head(new).id, registries)) \/ UNCHANGED picked
    BY <1>10 DEF Refetched
  <2>2. picked' \in Seq(ServerIds)
    <3>1. CASE new # <<>> /\ PickServer(saving.host, Head(new).id, registries)
      <4>1. new \in Seq(ServerAccount)
        BY <1>6
      <4> HIDE DEF new
      <4>2. Head(new) \in ServerAccount
        BY <3>1, <4>1, HeadTailProperties
      <4>3. Head(new).id \in ServerIds
        BY <4>2 DEF ServerAccount
      <4> QED BY <1>3, <3>1, <4>3, PickServerKeeps
    <3> QED BY <1>3, <2>1, <3>1
  <2>3. list' \in Seq(ServerAccount)
    BY <1>3, <2>1
  <2> QED BY <1>1, <1>2, <1>4, <2>1, <2>2, <2>3 DEF FormInv, Lists, Servers
<1>11. CASE NotRefetched
  <2>1. saving' = Idle /\ list' = (IF saving.here THEN <<>> ELSE list) /\ UNCHANGED <<registries, picked, reading>>
    BY <1>11 DEF NotRefetched
  <2>2. list' \in Seq(ServerAccount)
    BY <1>3, <2>1, EmptySeq
  <2> QED BY <1>1, <1>2, <1>4, <2>1, <2>2 DEF FormInv, Lists, Servers
<1>12. CASE Listed
  <2>1. reading' = FALSE /\ list' \in {registries, <<>>} /\ UNCHANGED <<picked, registries, saving>>
    BY <1>12 DEF Listed, form
  <2>2. list' \in Seq(ServerAccount) /\ reading' \in BOOLEAN
    BY <1>3, <2>1, EmptySeq
  <2>3. Lists' /\ Servers'
    BY <1>1, <1>3, <2>1, <2>2 DEF FormInv, Lists, Servers
  <2> QED BY <1>2, <2>3 DEF FormInv
<1>13. CASE OtherUser
  <2>1. registries' \in Seq(ServerAccount) /\ UNCHANGED <<picked, list, reading, saving>>
    BY <1>6, <1>7, <1>13 DEF OtherUser, form
  <2>2. Lists' /\ Servers'
    BY <1>1, <1>3, <2>1 DEF FormInv, Lists, Servers
  <2> QED BY <1>2, <2>2 DEF FormInv
<1> QED BY <1>8, <1>9, <1>10, <1>11, <1>12, <1>13 DEF Writes

LEMMA FormKeeps ==
  ASSUME FormInv, FormNext
  PROVE  FormInv'
<1>1. CASE OpenDialog \/ ToggleSearch \/ CloseDialog \/ StartPull
  BY <1>1, DialogKeeps DEF StartPull
<1>2. CASE \E m \in Modes : SetMode(m)
  BY <1>2, ModeKeeps
<1>3. CASE SaveWorker \/ \E w \in Workers \cup {None} : InputWorker(w) \/ DeleteWorker(w)
  BY <1>3, WorkerKeeps
<1>4. CASE SaveProxy \/ \E p \in Proxies \cup {None} : InputProxy(p) \/ DeleteProxy(p)
  BY <1>4, ProxyKeeps
<1>5. CASE \/ \E h \in Hosts, k \in Keys \cup {None} : Select(h, k)
           \/ \E i \in BrowserIds, h \in Hosts, s \in Secrets : SaveAccount(i, h, s)
           \/ \E i \in BrowserIds : RemoveAccount(i)
           \/ Remember
  BY <1>5, AccountKeeps
<1>6. CASE \/ \E i \in ServerIds : Verify(i)
           \/ \E i \in DOMAIN reveals : Revealed(i) \/ NotRevealed(i)
  BY <1>6, RevealsKeep
<1>7. CASE \/ \E h \in Hosts, i \in ServerIds \cup {None} : SelectServer(h, i)
           \/ \E v \in {"add", "edit", "delete"}, i \in ServerIds \cup {None}, h \in Hosts : SaveServer(v, i, h)
  BY <1>7, ServerPickKeeps
<1>8. CASE Writes \/ Listed \/ OtherUser
  BY <1>8, ServersKeep
<1> QED BY <1>1, <1>2, <1>3, <1>4, <1>5, <1>6, <1>7, <1>8 DEF FormNext, Requests

-----------------------------------------------------------------------------
(* The inductive invariant of the search. *)

Panes == {"repos", "tags"}

\* The fields of a request; a page of tags that is asked for is one there may be.
IsRequest(r) ==
  /\ r = [pane |-> r.pane, of |-> r.of, route |-> r.route, n |-> r.n, filter |-> r.filter,
          sent |-> r.sent, live |-> r.live]
  /\ r.pane \in Panes /\ r.live \in BOOLEAN
  /\ r.pane = "tags" => r.n \in Names

\* A request that may still be applied is the only one of its pane and asks for what is asked
\* for now.
Flying ==
  \A r \in flight :
    /\ IsRequest(r)
    /\ r.live => /\ r.pane = "repos" => r.of = query /\ r.route = RepoRoute
                 /\ r.pane = "tags" => r.of = TagTarget /\ r.route = TagRoute
                 /\ \A q \in flight : q.live /\ q.pane = r.pane => q = r

Query ==
  /\ query \in Terms \cup Repos \cup Refs \cup {None} /\ composing \in BOOLEAN
  /\ repository \in Repos \cup {None}

\* Every page but one is there because the user did something since; the one more is not
\* there yet while a page is asked for.
Hits ==
  /\ hits = [pages |-> hits.pages, page |-> hits.page, more |-> hits.more, error |-> hits.error]
  /\ hits.page \in 1 .. LastPage /\ hits.pages \in Seq(Range(hits.pages))
  /\ \A p \in Range(hits.pages) : p.of = query /\ p.route = RepoRoute
  /\ Len(hits.pages) <= events + 1
  /\ (\E r \in flight : r.live /\ r.pane = "repos") => Len(hits.pages) <= events

TagList ==
  /\ tags = [pages |-> tags.pages, repo |-> tags.repo, hub |-> tags.hub, cursor |-> tags.cursor,
             next |-> tags.next, filter |-> tags.filter, shown |-> tags.shown, error |-> tags.error]
  /\ tags.cursor \in Names /\ tags.next \in {0, 2} /\ tags.filter \in Filters
  /\ tags.shown \in 1 .. events + 1 /\ tags.pages \in Seq(Range(tags.pages))
  /\ \A p \in Range(tags.pages) : /\ p.of = TagTarget /\ p.route = TagRoute /\ tags.repo = p.of
                                  /\ p.names \subseteq Names

\* A manifest is read for a row that is shown and waits for it, of the repository listed, which
\* is not Docker Hub's.
Details ==
  /\ details = [n \in Names |-> details[n]]
  /\ \A n \in Names : /\ details[n].is \in {"-", "pending", "error", "read"}
                      /\ details[n].is = "read" => details[n].repo = TagTarget /\ details[n].route = TagRoute
  /\ \A d \in describing : /\ d.name \in Rows /\ d.name \in Names
                           /\ d.repo = TagTarget /\ d.route = TagRoute /\ ~OnHub(d.repo)
                           /\ details[d.name].is = "pending"
                           /\ \A e \in describing : e.name = d.name => e = d

\* Without the panel there is nothing, and nothing that arrives is applied.
AtRest ==
  ~Searching => /\ hits.pages = <<>> /\ tags.pages = <<>> /\ describing = {}
                /\ \A r \in flight : ~r.live
                /\ \A n \in Names : details[n].is = "-"

SearchInv == Query /\ Hits /\ TagList /\ Flying /\ Details /\ AtRest

\* Pages that are asked for one at a time are listed one at a time.
LEMMA SearchInvSound == SearchInv => SearchTypeOK /\ OwnResults /\ OwnDetails /\ HubNotPulled
<1> SUFFICES ASSUME SearchInv PROVE SearchTypeOK /\ OwnResults /\ OwnDetails /\ HubNotPulled
  OBVIOUS
<1>1. ASSUME NEW pane \in {"repos", "tags"}
      PROVE  Cardinality({r \in flight : r.pane = pane /\ r.live}) <= 1
  <2> DEFINE S == {r \in flight : r.pane = pane /\ r.live}
  <2>1. CASE S = {}
    BY <2>1, FS_EmptySet
  <2>2. CASE S # {}
    <3>1. PICK r : r \in S
      BY <2>2
    <3>2. S = {r}
      BY <3>1 DEF SearchInv, Flying
    <3> HIDE DEF S
    <3>3. Cardinality(S) = 1
      BY <3>2, FS_Singleton
    <3> QED BY <3>3 DEF S
  <2> QED BY <2>1, <2>2
<1>2. SearchTypeOK
  BY <1>1 DEF SearchInv, Query, Hits, TagList, Details, SearchTypeOK
<1>3. OwnResults
  BY DEF SearchInv, Hits, TagList, OwnResults
<1>4. OwnDetails /\ HubNotPulled
  BY DEF SearchInv, Details, OwnDetails, HubNotPulled
<1> QED BY <1>2, <1>3, <1>4

-----------------------------------------------------------------------------
(* What the steps of the search are made of. *)

\* Routes depend on the values of the form, and the route of the tags on what is listed.
LEMMA RouteStays ==
  ASSUME UNCHANGED <<mode, worker, creds, use, revealed, picked, proxy>>
  PROVE  /\ RepoRoute' = RepoRoute
         /\ UNCHANGED <<query, repository>> => TagTarget' = TagTarget /\ TagRoute' = TagRoute
<1>1. Usable' = Usable
  BY DEF Usable
<1>2. ASSUME NEW host PROVE CredOf(host)' = CredOf(host)
  BY <1>1 DEF CredOf
<1>3. RepoRoute' = RepoRoute
  BY <1>2 DEF RepoRoute, ByWorker, ByServer
<1>4. ASSUME UNCHANGED <<query, repository>> PROVE TagTarget' = TagTarget /\ TagRoute' = TagRoute
  <2>1. TagTarget' = TagTarget
    BY <1>4 DEF TagTarget
  <2> QED BY <1>2, <2>1 DEF TagRoute, ByWorker, ByServer
<1> QED BY <1>3, <1>4

LEMMA TargetStays ==
  ASSUME UNCHANGED <<query, repository>>
  PROVE  TagTarget' = TagTarget
BY DEF TagTarget

\* One page more at the end.
LEMMA PagePut ==
  ASSUME NEW s, s \in Seq(Range(s)), NEW e
  PROVE  /\ Append(s, e) \in Seq(Range(Append(s, e))) /\ Len(Append(s, e)) = Len(s) + 1 /\ Len(s) \in Nat
         /\ \A p \in Range(Append(s, e)) : p \in Range(s) \/ p = e
         /\ <<e>> \in Seq(Range(<<e>>)) /\ Len(<<e>>) = 1 /\ \A p \in Range(<<e>>) : p = e
<1> DEFINE T == Range(s) \cup {e}
           a == Append(s, e)
           o == <<e>>
<1>1. s \in Seq(T) /\ e \in T
  BY SeqMonotonic
<1>2. a \in Seq(T) /\ Len(a) = Len(s) + 1 /\ Len(s) \in Nat
  BY <1>1, AppendProperties, LenProperties
<1>3. \A t \in Seq(T) : t \in Seq(Range(t)) /\ Range(t) \subseteq T
  <2> TAKE t \in Seq(T)
  <2>1. Len(t) \in Nat /\ t \in [1..Len(t) -> T] /\ DOMAIN t = 1..Len(t)
    BY LenProperties
  <2>2. t \in [1..Len(t) -> Range(t)]
    BY <2>1 DEF Range
  <2>3. Range(t) \subseteq T
    BY <2>1 DEF Range
  <2>4. t \in Seq(Range(t))
    BY <2>1, <2>2
  <2> QED BY <2>3, <2>4
<1>4. o \in Seq({e}) /\ Len(o) = 1
  OBVIOUS
<1>5. o \in Seq(T)
  BY <1>1, <1>4, SeqMonotonic
<1>6. \A p \in Range(o) : p = e
  <2>1. DOMAIN o = 1..1 /\ \A i \in 1..1 : o[i] \in {e}
    BY <1>4, LenProperties, ElementOfSeq
  <2> HIDE DEF o
  <2> QED BY <2>1 DEF Range
<1> HIDE DEF a, o, T
<1>7. a \in Seq(Range(a)) /\ Range(a) \subseteq T /\ o \in Seq(Range(o))
  BY <1>2, <1>3, <1>5
<1> QED BY <1>2, <1>4, <1>6, <1>7 DEF a, o, T

LEMMA NoPages == <<>> \in Seq(Range(<<>>)) /\ Len(<<>>) = 0 /\ Range(<<>>) = {}
<1>1. <<>> \in Seq({})
  BY EmptySeq
<1>2. Len(<<>>) = 0 /\ DOMAIN <<>> = 1..0
  BY <1>1, LenProperties, EmptySeq
<1>3. Range(<<>>) = {}
  BY <1>2 DEF Range
<1> QED BY <1>1, <1>2, <1>3

LEMMA RequestIs ==
  ASSUME NEW pane \in Panes, NEW of, NEW route, NEW n, NEW filter, pane = "tags" => n \in Names
  PROVE  /\ IsRequest(Request(pane, of, route, n, filter)) /\ Request(pane, of, route, n, filter).live
         /\ Request(pane, of, route, n, filter).pane = pane
         /\ Request(pane, of, route, n, filter).of = of
         /\ Request(pane, of, route, n, filter).route = route
BY DEF Request, IsRequest

\* The requests there are when the effects of some panes ran again on the values of now.
LEMMA RerunKeeps ==
  ASSUME SearchInv, NEW panes \in SUBSET Panes, Rerun(panes), tags'.cursor \in Names,
         "repos" \notin panes => query' = query /\ RepoRoute' = RepoRoute,
         "tags" \notin panes => TagTarget' = TagTarget /\ TagRoute' = TagRoute
  PROVE  /\ Flying'
         /\ \A r \in flight' : r.live /\ r.pane \notin panes => r \in flight
<1>1. \A r \in flight' : \/ r \in flight /\ r.pane \notin panes
                         \/ \E p \in panes : r \in Aborted(p)
                         \/ \E p \in panes : r \in Asked(p)
  BY DEF Rerun
<1>2. ASSUME NEW p \in panes, NEW r \in Aborted(p) PROVE IsRequest(r) /\ ~r.live /\ r.pane \in panes
  <2>1. PICK q \in flight : q.pane = p /\ r = [q EXCEPT !.live = FALSE]
    BY <1>2 DEF Aborted
  <2>2. IsRequest(q)
    BY DEF SearchInv, Flying
  <2> QED BY <2>1, <2>2 DEF IsRequest
<1>3. ASSUME NEW p \in panes, NEW r \in Asked(p)
      PROVE  /\ IsRequest(r) /\ r.live /\ r.pane = p
             /\ p = "repos" => /\ r.of = query' /\ r.route = RepoRoute'
                               /\ \A q \in Asked(p) : q = r
             /\ p = "tags" => /\ r.of = TagTarget' /\ r.route = TagRoute'
                              /\ \A q \in Asked(p) : q = r
  <2>1. CASE p = "repos"
    <3>1. PICK of, route, n : of = query' /\ route = RepoRoute' /\ n = hits'.page
      OBVIOUS
    <3>2. \A q \in Asked(p) : q = Request("repos", of, route, n, "")
      BY <2>1, <3>1 DEF Asked
    <3>3. PICK x : x = Request("repos", of, route, n, "")
      OBVIOUS
    <3>4. IsRequest(x) /\ x.live /\ x.pane = "repos" /\ x.of = of /\ x.route = route
      <4>1. x = [pane |-> "repos", of |-> of, route |-> route, n |-> n, filter |-> "",
                 sent |-> FALSE, live |-> TRUE]
        BY <3>3 DEF Request
      <4> QED BY <4>1 DEF IsRequest, Panes
    <3>5. r = x /\ \A q \in Asked(p) : q = x
      BY <1>3, <3>2, <3>3
    <3> QED BY <2>1, <3>1, <3>4, <3>5
  <2>2. CASE p = "tags"
    <3>1. PICK of, route, n, filter : /\ of = TagTarget' /\ route = TagRoute' /\ n = tags'.cursor
                                      /\ filter = IF OnHub(TagTarget') THEN tags'.filter ELSE ""
      OBVIOUS
    <3>2. \A q \in Asked(p) : q = Request("tags", of, route, n, filter)
      BY <2>2, <3>1 DEF Asked
    <3>3. PICK x : x = Request("tags", of, route, n, filter)
      OBVIOUS
    <3>4. IsRequest(x) /\ x.live /\ x.pane = "tags" /\ x.of = of /\ x.route = route
      <4>1. "tags" \in Panes /\ n \in Names
        BY <3>1 DEF Panes
      <4> QED BY <3>3, <4>1, RequestIs
    <3>5. r = x /\ \A q \in Asked(p) : q = x
      BY <1>3, <3>2, <3>3
    <3> QED BY <2>2, <3>1, <3>4, <3>5
  <2> QED BY <2>1, <2>2 DEF Panes
<1>4. ASSUME NEW r \in flight' PROVE IsRequest(r)
  BY <1>1, <1>2, <1>3 DEF SearchInv, Flying
<1>5. ASSUME NEW r \in flight', r.live
      PROVE  (r \in flight /\ r.pane \notin panes) \/ (r.pane \in panes /\ r \in Asked(r.pane))
  BY <1>1, <1>2, <1>3, <1>5
<1>6. ASSUME NEW r \in flight', r.live
      PROVE  /\ r.pane = "repos" => r.of = query' /\ r.route = RepoRoute'
             /\ r.pane = "tags" => r.of = TagTarget' /\ r.route = TagRoute'
  <2>1. CASE r \in flight /\ r.pane \notin panes
    BY <1>6, <2>1 DEF SearchInv, Flying
  <2>2. CASE r.pane \in panes /\ r \in Asked(r.pane)
    BY <1>3, <2>2
  <2> QED BY <1>5, <1>6, <2>1, <2>2
<1>7. ASSUME NEW r \in flight', NEW q \in flight', r.live, q.live, q.pane = r.pane PROVE q = r
  <2>1. CASE r.pane \notin panes
    BY <1>5, <1>7, <2>1 DEF SearchInv, Flying
  <2>2. CASE r.pane \in panes
    <3>1. r \in Asked(r.pane) /\ q \in Asked(r.pane) /\ r.pane \in Panes
      BY <1>5, <1>7, <2>2
    <3> QED BY <1>3, <2>2, <3>1 DEF Panes
  <2> QED BY <2>1, <2>2
<1>8. Flying'
  BY <1>4, <1>6, <1>7 DEF Flying
<1> QED BY <1>5, <1>8


\* A row that is shown is one of a page, and so of the repository asked for.
LEMMA RowsListed ==
  ASSUME TagList
  PROVE  /\ Rows \subseteq Names
         /\ \A n \in Rows : tags.repo = TagTarget
         /\ tags.pages = <<>> => Rows = {}
<1>1. \A n \in Rows : \E p \in Range(tags.pages) : n \in p.names
  BY DEF Rows, Visible
<1>2. tags.pages = <<>> => Range(tags.pages) = {}
  BY NoPages
<1> QED BY <1>1, <1>2 DEF TagList

LEMMA RowsListedNext ==
  ASSUME TagList'
  PROVE  /\ Rows' \subseteq Names
         /\ \A n \in Rows' : tags'.repo = TagTarget'
         /\ tags'.pages = <<>> => Rows' = {}
<1>1. \A n \in Rows' : \E p \in Range(tags'.pages) : n \in p.names
  BY DEF Rows, Visible
<1>2. tags'.pages = <<>> => Range(tags'.pages) = {}
  BY NoPages
<1> QED BY <1>1, <1>2 DEF TagList

\* What the effect leaves when it runs again: reads of rows of the repository listed.
LEMMA DescribeAgain ==
  ASSUME NEW base, NEW reads, reads \subseteq Rows', TagList', reads # {} => Describes',
         \A n \in Names : /\ base[n].is \in {"-", "pending", "error", "read"}
                          /\ base[n].is = "read" => base[n].repo = TagTarget' /\ base[n].route = TagRoute',
         details' = [n \in Names |-> IF n \in reads THEN [is |-> "pending", repo |-> None, route |-> None]
                                     ELSE IF base[n].is = "pending" THEN NoDetails[n] ELSE base[n]],
         describing' = {[name |-> n, repo |-> tags'.repo, route |-> TagRoute'] : n \in reads}
  PROVE  /\ Details'
         /\ reads = {} => describing' = {} /\ \A n \in Names : base[n].is = "-" => details'[n].is = "-"
<1>1. reads \subseteq Names /\ \A n \in reads : tags'.repo = TagTarget'
  BY RowsListedNext
<1>2. \A n \in Names : NoDetails[n] = [is |-> "-", repo |-> None, route |-> None]
  BY DEF NoDetails
<1>3. details' = [n \in Names |-> details'[n]]
  OBVIOUS
<1>4. ASSUME NEW n \in Names
      PROVE  /\ details'[n].is \in {"-", "pending", "error", "read"}
             /\ details'[n].is = "read" => details'[n].repo = TagTarget' /\ details'[n].route = TagRoute'
             /\ n \in reads => details'[n].is = "pending"
             /\ n \notin reads /\ base[n].is = "-" => details'[n].is = "-"
  <2>1. details'[n] = IF n \in reads THEN [is |-> "pending", repo |-> None, route |-> None]
                      ELSE IF base[n].is = "pending" THEN NoDetails[n] ELSE base[n]
    OBVIOUS
  <2> QED BY <1>2, <2>1
<1>5. reads # {} => ~OnHub(tags'.repo)
  BY DEF Describes
<1>6. ASSUME NEW d \in describing'
      PROVE  /\ d.name \in Rows' /\ d.name \in Names
             /\ d.repo = TagTarget' /\ d.route = TagRoute' /\ ~OnHub(d.repo)
             /\ details'[d.name].is = "pending"
             /\ \A e \in describing' : e.name = d.name => e = d
  <2>1. PICK n \in reads : d = [name |-> n, repo |-> tags'.repo, route |-> TagRoute']
    OBVIOUS
  <2>2. d.name = n /\ d.repo = tags'.repo /\ d.route = TagRoute' /\ n \in Names
    BY <1>1, <2>1
  <2>3. ~OnHub(d.repo)
    BY <1>5, <2>1, <2>2
  <2>4. \A e \in describing' : e.name = d.name => e = d
    <3> SUFFICES ASSUME NEW e \in describing', e.name = d.name PROVE e = d
      OBVIOUS
    <3>1. PICK m \in reads : e = [name |-> m, repo |-> tags'.repo, route |-> TagRoute']
      OBVIOUS
    <3> QED BY <2>1, <3>1
  <2> QED BY <1>1, <1>4, <2>1, <2>2, <2>3, <2>4
<1>7. Details'
  BY <1>3, <1>4, <1>6 DEF Details
<1> QED BY <1>4, <1>7

\* After a step that changes neither the repository asked for nor the route.
LEMMA AfterStepKeeps ==
  ASSUME SearchInv, AfterStep, TagList', TagTarget' = TagTarget, TagRoute' = TagRoute
  PROVE  /\ Details'
         /\ ~Searching /\ ~Searching' => describing' = {} /\ \A n \in Names : details'[n].is = "-"
<1>1. PICK base : base = details
  OBVIOUS
<1>2. DescribeRows(base)
  BY <1>1 DEF AfterStep
<1> DEFINE deps == <<tags.repo, tags.hub, tags.pages, Rows, TagRoute, Loading("tags"), Searching>>
           freed == [n \in Names |-> IF base[n].is = "pending" THEN NoDetails[n] ELSE base[n]]
           reads == IF Describes' THEN {n \in Rows' : freed[n].is = "-"} ELSE {}
<1>3. CASE deps' = deps
  <2>1. details' = details /\ describing' = describing /\ Rows' = Rows
    BY <1>1, <1>2, <1>3 DEF DescribeRows
  <2>2. Details'
    BY <2>1 DEF SearchInv, Details
  <2> QED BY <2>1, <2>2 DEF SearchInv, AtRest
<1>4. CASE deps' # deps
  <2>1. /\ details' = [n \in Names |-> IF n \in reads THEN [NoDetails[n] EXCEPT !.is = "pending"] ELSE freed[n]]
        /\ describing' = {[name |-> n, repo |-> tags'.repo, route |-> TagRoute'] : n \in reads}
    BY <1>2, <1>4 DEF DescribeRows
  <2>2. reads \subseteq Rows' /\ (reads # {} => Describes')
    OBVIOUS
  <2> HIDE DEF reads
  <2>3. details' = [n \in Names |-> IF n \in reads THEN [is |-> "pending", repo |-> None, route |-> None]
                                     ELSE IF base[n].is = "pending" THEN NoDetails[n] ELSE base[n]]
    BY <2>1 DEF NoDetails
  <2>4. \A n \in Names : /\ base[n].is \in {"-", "pending", "error", "read"}
                         /\ base[n].is = "read" => base[n].repo = TagTarget' /\ base[n].route = TagRoute'
    BY <1>1 DEF SearchInv, Details
  <2>5. /\ Details'
        /\ reads = {} => describing' = {} /\ \A n \in Names : base[n].is = "-" => details'[n].is = "-"
    BY <2>1, <2>2, <2>3, <2>4, DescribeAgain
  <2>6. ~Searching' => reads = {}
    BY <2>2 DEF Describes
  <2> QED BY <1>1, <2>5, <2>6 DEF SearchInv, AtRest
<1> QED BY <1>3, <1>4

\* After the list was reset nothing is described.
LEMMA AfterResetKeeps ==
  ASSUME SearchInv, AfterReset, TagList', tags'.pages = <<>>
  PROVE  Details' /\ describing' = {} /\ \A n \in Names : details'[n].is = "-"
<1>1. PICK base : base = NoDetails
  OBVIOUS
<1>2. DescribeRows(base)
  BY <1>1 DEF AfterReset
<1>3. \A n \in Names : base[n] = [is |-> "-", repo |-> None, route |-> None]
  BY <1>1 DEF NoDetails
<1>4. Rows' = {}
  BY RowsListedNext
<1> DEFINE deps == <<tags.repo, tags.hub, tags.pages, Rows, TagRoute, Loading("tags"), Searching>>
           freed == [n \in Names |-> IF base[n].is = "pending" THEN NoDetails[n] ELSE base[n]]
           reads == IF Describes' THEN {n \in Rows' : freed[n].is = "-"} ELSE {}
<1>5. CASE deps' = deps
  <2>1. details' = base /\ describing' = describing /\ Rows' = Rows
    BY <1>2, <1>5 DEF DescribeRows
  <2>2. describing' = {}
    BY <1>4, <2>1 DEF SearchInv, Details
  <2>3. details' = [n \in Names |-> details'[n]]
    BY <1>1, <2>1 DEF NoDetails
  <2>4. Details'
    BY <1>3, <2>1, <2>2, <2>3 DEF Details
  <2> QED BY <1>3, <2>1, <2>2, <2>4
<1>6. CASE deps' # deps
  <2>1. /\ details' = [n \in Names |-> IF n \in reads THEN [NoDetails[n] EXCEPT !.is = "pending"] ELSE freed[n]]
        /\ describing' = {[name |-> n, repo |-> tags'.repo, route |-> TagRoute'] : n \in reads}
    BY <1>2, <1>6 DEF DescribeRows
  <2>2. reads = {}
    BY <1>4
  <2> HIDE DEF reads
  <2>3. details' = [n \in Names |-> IF n \in reads THEN [is |-> "pending", repo |-> None, route |-> None]
                                     ELSE IF base[n].is = "pending" THEN NoDetails[n] ELSE base[n]]
    BY <2>1 DEF NoDetails
  <2>4. \A n \in Names : /\ base[n].is = "-" /\ base[n].is \in {"-", "pending", "error", "read"}
                         /\ base[n].is = "read" => base[n].repo = TagTarget' /\ base[n].route = TagRoute'
    BY <1>3
  <2>5. reads \subseteq Rows' /\ (reads # {} => Describes')
    BY <2>2
  <2>6. /\ Details'
        /\ reads = {} => describing' = {} /\ \A n \in Names : base[n].is = "-" => details'[n].is = "-"
    BY <2>1, <2>3, <2>4, <2>5, DescribeAgain
  <2> QED BY <2>2, <2>4, <2>6
<1> QED BY <1>5, <1>6


\* What a step may change of the pages found without touching them.
LEMMA HitsKeep ==
  ASSUME SearchInv, events \in Nat, events' \in Nat, events' >= events, query' = query, RepoRoute' = RepoRoute,
         NEW g \in 1 .. LastPage, NEW e, hits' = [hits EXCEPT !.page = g, !.error = e],
         events' > events \/ \A r \in flight' : r.live /\ r.pane = "repos" => r \in flight
  PROVE  Hits'
<1>1. hits = [pages |-> hits.pages, page |-> hits.page, more |-> hits.more, error |-> hits.error]
  BY DEF SearchInv, Hits
<1>2. hits' = [pages |-> hits.pages, page |-> g, more |-> hits.more, error |-> e]
  BY <1>1
<1>3. hits'.pages = hits.pages /\ hits'.page = g
  BY <1>2
<1>4. hits' = [pages |-> hits'.pages, page |-> hits'.page, more |-> hits'.more, error |-> hits'.error]
  BY <1>2
<1>5. /\ hits.pages \in Seq(Range(hits.pages)) /\ \A p \in Range(hits.pages) : p.of = query /\ p.route = RepoRoute
      /\ Len(hits.pages) <= events + 1
      /\ (\E r \in flight : r.live /\ r.pane = "repos") => Len(hits.pages) <= events
  BY DEF SearchInv, Hits
<1>6. Len(hits.pages) \in Nat
  BY <1>5, LenProperties
<1>7. Len(hits'.pages) <= events' + 1
  BY <1>3, <1>5, <1>6
<1>8. ASSUME NEW r \in flight', r.live, r.pane = "repos" PROVE Len(hits'.pages) <= events'
  <2>1. CASE events' > events
    BY <1>3, <1>5, <1>6, <2>1
  <2>2. CASE r \in flight
    BY <1>3, <1>5, <1>6, <1>8, <2>2
  <2> QED BY <1>8, <2>1, <2>2
<1> QED BY <1>3, <1>4, <1>5, <1>7, <1>8 DEF Hits

LEMMA HitsReset ==
  ASSUME events' \in Nat, NEW m, hits' = [NoHits EXCEPT !.more = m]
  PROVE  Hits'
<1>1. PICK none, e : none = <<>> /\ e = FALSE
  OBVIOUS
<1>2. hits' = [pages |-> none, page |-> 1, more |-> m, error |-> e]
  BY <1>1 DEF NoHits
<1>3. hits'.pages = none /\ hits'.page = 1
  BY <1>2
<1>4. hits' = [pages |-> hits'.pages, page |-> hits'.page, more |-> hits'.more, error |-> hits'.error]
  BY <1>2
<1>5. 1 \in 1 .. LastPage
  BY SearchAssumption DEF SearchAssumption
<1>6. hits'.pages \in Seq(Range(hits'.pages)) /\ Len(hits'.pages) = 0 /\ \A p \in Range(hits'.pages) : FALSE
  BY <1>1, <1>3, NoPages
<1> QED BY <1>3, <1>4, <1>5, <1>6 DEF Hits

\* The same of the list of tags.
LEMMA TagsKeep ==
  ASSUME SearchInv, events \in Nat, events' \in Nat, events' >= events, TagTarget' = TagTarget, TagRoute' = TagRoute,
         NEW c \in Names, NEW f \in Filters, NEW k \in 1 .. events' + 1, NEW e,
         tags' = [tags EXCEPT !.cursor = c, !.filter = f, !.shown = k, !.error = e]
  PROVE  TagList' /\ tags'.cursor \in Names
<1>1. tags = [pages |-> tags.pages, repo |-> tags.repo, hub |-> tags.hub, cursor |-> tags.cursor,
              next |-> tags.next, filter |-> tags.filter, shown |-> tags.shown, error |-> tags.error]
  BY DEF SearchInv, TagList
<1>2. tags' = [pages |-> tags.pages, repo |-> tags.repo, hub |-> tags.hub, cursor |-> c,
               next |-> tags.next, filter |-> f, shown |-> k, error |-> e]
  BY <1>1
<1>3. /\ tags'.pages = tags.pages /\ tags'.repo = tags.repo /\ tags'.cursor = c /\ tags'.next = tags.next
      /\ tags'.filter = f /\ tags'.shown = k
  BY <1>2
<1>4. tags' = [pages |-> tags'.pages, repo |-> tags'.repo, hub |-> tags'.hub, cursor |-> tags'.cursor,
               next |-> tags'.next, filter |-> tags'.filter, shown |-> tags'.shown, error |-> tags'.error]
  BY <1>2
<1> QED BY <1>3, <1>4 DEF SearchInv, TagList

LEMMA TagFields ==
  ASSUME NEW t, NEW a, NEW o, NEW h, NEW c, NEW n, NEW f, NEW k, NEW e,
         t = [pages |-> a, repo |-> o, hub |-> h, cursor |-> c, next |-> n, filter |-> f, shown |-> k, error |-> e]
  PROVE  /\ t.pages = a /\ t.repo = o /\ t.hub = h /\ t.cursor = c /\ t.next = n /\ t.filter = f /\ t.shown = k
         /\ t = [pages |-> t.pages, repo |-> t.repo, hub |-> t.hub, cursor |-> t.cursor, next |-> t.next,
                 filter |-> t.filter, shown |-> t.shown, error |-> t.error]
OBVIOUS

LEMMA TagsReset ==
  ASSUME events' \in Nat, NEW o, NEW h, NEW f \in Filters, tags' = [NoTags EXCEPT !.repo = o, !.hub = h, !.filter = f]
  PROVE  TagList' /\ tags'.pages = <<>> /\ tags'.cursor \in Names
<1>1. PICK none, e, c, z : none = <<>> /\ e = FALSE /\ c = 1 /\ z = 0
  OBVIOUS
<1>2. tags' = [pages |-> none, repo |-> o, hub |-> h, cursor |-> c, next |-> z, filter |-> f, shown |-> c, error |-> e]
  BY <1>1 DEF NoTags
<1>3. PICK t : t = tags'
  OBVIOUS
<1>4. /\ tags'.pages = none /\ tags'.cursor = c /\ tags'.next = z /\ tags'.filter = f /\ tags'.shown = c
      /\ tags' = [pages |-> tags'.pages, repo |-> tags'.repo, hub |-> tags'.hub, cursor |-> tags'.cursor,
                  next |-> tags'.next, filter |-> tags'.filter, shown |-> tags'.shown, error |-> tags'.error]
  <2>1. t = [pages |-> none, repo |-> o, hub |-> h, cursor |-> c, next |-> z, filter |-> f, shown |-> c, error |-> e]
    BY <1>2, <1>3
  <2>2. /\ t.pages = none /\ t.repo = o /\ t.hub = h /\ t.cursor = c /\ t.next = z /\ t.filter = f /\ t.shown = c
        /\ t = [pages |-> t.pages, repo |-> t.repo, hub |-> t.hub, cursor |-> t.cursor, next |-> t.next,
                filter |-> t.filter, shown |-> t.shown, error |-> t.error]
    BY <2>1, TagFields
  <2> QED BY <1>3, <2>2
<1>5. tags'.pages = <<>> /\ tags'.pages \in Seq(Range(tags'.pages)) /\ \A p \in Range(tags'.pages) : FALSE
  BY <1>1, <1>4, NoPages
<1>6. tags'.cursor = 1 /\ tags'.next = 0 /\ tags'.shown = 1
  BY <1>1, <1>4
<1> QED BY <1>4, <1>5, <1>6 DEF TagList, Names

\* What the user does in the search leaves the form alone.
LEMMA UserIs ==
  ASSUME FormInv, User
  PROVE  /\ FormInv' /\ Searching /\ Searching' /\ events \in Nat /\ events' \in Nat /\ events' = events + 1
         /\ RepoRoute' = RepoRoute
         /\ UNCHANGED <<query, repository>> => TagTarget' = TagTarget /\ TagRoute' = TagRoute
<1>1. Searching /\ Event /\ UNCHANGED <<panel, form, box, registries, list, reading, reveals, saving>>
  BY DEF User
<1>2. UNCHANGED <<mode, worker, creds, use, revealed, remember, picked, proxy>>
  BY <1>1 DEF form
<1>3. events \in Nat /\ events' = events + 1 /\ events' \in Nat
  BY <1>1, FormAssumption DEF FormInv, Fields, Event, FormAssumption
<1>4. Fields'
  BY <1>1, <1>2, Counted DEF FormInv, Fields
<1>5. Accounts' /\ Lists' /\ Servers'
  BY <1>1, <1>2, Untouched DEF Mounted
<1>6. FormInv'
  BY <1>4, <1>5 DEF FormInv
<1>7. Searching'
  BY <1>1 DEF Searching
<1> QED BY <1>1, <1>2, <1>3, <1>6, <1>7, RouteStays

\* The rest of the invariant follows alike for all of it.
LEMMA UserKeeps ==
  ASSUME FormInv, SearchInv, User, Query', Hits', TagList', tags'.cursor \in Names,
         NEW panes \in SUBSET Panes, Rerun(panes),
         "repos" \notin panes => query' = query,
         "tags" \notin panes => UNCHANGED <<query, repository>>,
         \/ AfterReset /\ tags'.pages = <<>>
         \/ AfterStep /\ UNCHANGED <<query, repository>>
  PROVE  FormInv' /\ SearchInv'
<1>1. Flying'
  BY UserIs, RerunKeeps
<1>2. Details'
  BY UserIs, AfterStepKeeps, AfterResetKeeps
<1>3. AtRest'
  BY UserIs DEF AtRest
<1> QED BY <1>1, <1>2, <1>3, UserIs DEF SearchInv

-----------------------------------------------------------------------------
(* What the user does. *)

LEMMA TypeKeeps ==
  ASSUME FormInv, SearchInv, NEW v \in Terms \cup Refs \cup {None}, Type(v)
  PROVE  FormInv' /\ SearchInv'
<1>1. /\ User /\ query' = v /\ repository' = None /\ UNCHANGED composing
      /\ hits' = [NoHits EXCEPT !.more = hits.more] /\ tags' = [ResetTags(tags) EXCEPT !.filter = ""]
      /\ Rerun({"repos", "tags"}) /\ AfterReset
  BY DEF Type
<1>2. Query'
  BY <1>1 DEF SearchInv, Query
<1>3. PICK m, o, h : m = hits.more /\ o = tags.repo /\ h = tags.hub
  OBVIOUS
<1>4. tags' = [NoTags EXCEPT !.repo = o, !.hub = h, !.filter = ""] /\ "" \in Filters
  BY <1>1, <1>3 DEF ResetTags, NoTags, Filters
<1>5. Hits'
  BY <1>1, <1>3, UserIs, HitsReset
<1>6. TagList' /\ tags'.pages = <<>> /\ tags'.cursor \in Names
  BY <1>1, <1>4, UserIs, TagsReset
<1> QED BY <1>1, <1>2, <1>5, <1>6, UserKeeps DEF Panes

\* Steps that leave the pages there are.
SetHits(g, a) == hits' = [hits EXCEPT !.page = g, !.error = a]
SetTags(c, f, k, e) == tags' = [tags EXCEPT !.cursor = c, !.filter = f, !.shown = k, !.error = e]

LEMMA QueryStays ==
  ASSUME SearchInv, UNCHANGED <<query, repository>>, UNCHANGED composing \/ composing' = ~composing
  PROVE  Query'
BY DEF SearchInv, Query

LEMMA PagesStay ==
  ASSUME FormInv, SearchInv, User, UNCHANGED <<query, repository>>, Query',
         NEW g \in 1 .. LastPage, NEW a, SetHits(g, a),
         NEW c \in Names, NEW f \in Filters, NEW k \in 1 .. events + 2, NEW e, SetTags(c, f, k, e),
         NEW panes \in SUBSET Panes, Rerun(panes), AfterStep
  PROVE  FormInv' /\ SearchInv'
<1>1. /\ events \in Nat /\ events' \in Nat /\ events' = events + 1 /\ RepoRoute' = RepoRoute
      /\ TagTarget' = TagTarget /\ TagRoute' = TagRoute
  BY UserIs
<1>2. query' = query /\ events' >= events /\ events' > events /\ k \in 1 .. events' + 1
  BY <1>1
<1>3. Hits'
  BY <1>1, <1>2, HitsKeep DEF SetHits
<1>4. TagList' /\ tags'.cursor \in Names
  BY <1>1, <1>2, TagsKeep DEF SetTags
<1> QED BY <1>2, <1>3, <1>4, UserKeeps

LEMMA Same ==
  ASSUME SearchInv
  PROVE  /\ hits = [hits EXCEPT !.page = hits.page, !.error = hits.error]
         /\ tags = [tags EXCEPT !.cursor = tags.cursor, !.filter = tags.filter, !.shown = tags.shown, !.error = tags.error]
         /\ hits.page \in 1 .. LastPage /\ tags.cursor \in Names /\ tags.filter \in Filters
         /\ tags.shown \in 1 .. events + 1 /\ tags.next \in {0, 2} /\ composing \in BOOLEAN
<1>1. hits = [pages |-> hits.pages, page |-> hits.page, more |-> hits.more, error |-> hits.error]
  BY DEF SearchInv, Hits
<1>2. tags = [pages |-> tags.pages, repo |-> tags.repo, hub |-> tags.hub, cursor |-> tags.cursor,
              next |-> tags.next, filter |-> tags.filter, shown |-> tags.shown, error |-> tags.error]
  BY DEF SearchInv, TagList
<1>3. hits = [hits EXCEPT !.page = hits.page, !.error = hits.error]
  BY <1>1
<1>4. tags = [tags EXCEPT !.cursor = tags.cursor, !.filter = tags.filter, !.shown = tags.shown, !.error = tags.error]
  BY <1>2
<1> QED BY <1>3, <1>4 DEF SearchInv, Query, Hits, TagList


\* Composing, retrying and asking for more leave what is found until it is answered.
LEMMA AskKeeps ==
  ASSUME FormInv, SearchInv, Compose \/ MoreRepos \/ RetryRepos \/ RetryTags
  PROVE  FormInv' /\ SearchInv'
<1>1. events \in Nat
  BY FormAssumption DEF FormInv, Fields, FormAssumption
<1>2. PICK g, c, f, k, e, a : /\ g = hits.page /\ a = hits.error /\ c = tags.cursor /\ f = tags.filter
                              /\ k = tags.shown /\ e = tags.error
  OBVIOUS
<1>3. /\ hits = [hits EXCEPT !.page = g, !.error = a]
      /\ tags = [tags EXCEPT !.cursor = c, !.filter = f, !.shown = k, !.error = e]
      /\ g \in 1 .. LastPage /\ c \in Names /\ f \in Filters /\ k \in 1 .. events + 2 /\ composing \in BOOLEAN
  BY <1>1, <1>2, Same
<1>4. PICK no : no = FALSE
  OBVIOUS
<1>5. [hits EXCEPT !.error = no] = [hits EXCEPT !.page = g, !.error = no]
  <2>1. hits = [pages |-> hits.pages, page |-> hits.page, more |-> hits.more, error |-> hits.error]
    BY DEF SearchInv, Hits
  <2> QED BY <1>2, <2>1
<1>6. [tags EXCEPT !.error = no] = [tags EXCEPT !.cursor = c, !.filter = f, !.shown = k, !.error = no]
  <2>1. tags = [pages |-> tags.pages, repo |-> tags.repo, hub |-> tags.hub, cursor |-> tags.cursor,
                next |-> tags.next, filter |-> tags.filter, shown |-> tags.shown, error |-> tags.error]
    BY DEF SearchInv, TagList
  <2> QED BY <1>2, <2>1
<1>7. {"repos", "tags"} \in SUBSET Panes /\ {"repos"} \in SUBSET Panes /\ {"tags"} \in SUBSET Panes
  BY DEF Panes
<1>8. CASE Compose
  <2>1. /\ User /\ composing' = ~composing /\ UNCHANGED <<query, repository>> /\ Rerun({"repos", "tags"}) /\ AfterStep
        /\ hits' = [hits EXCEPT !.error = no] /\ tags' = [tags EXCEPT !.error = no]
    BY <1>4, <1>8 DEF Compose
  <2>2. Query'
    BY <2>1, QueryStays
  <2>3. SetHits(g, no)
    BY <1>5, <2>1 DEF SetHits
  <2>4. SetTags(c, f, k, no)
    BY <1>6, <2>1 DEF SetTags
  <2> QED BY <1>3, <1>7, <2>1, <2>2, <2>3, <2>4, PagesStay, QueryStays
<1>9. CASE MoreRepos
  <2>1. PICK h : h = hits.page + 1
    OBVIOUS
  <2>2. /\ User /\ UNCHANGED <<query, composing, repository, tags>> /\ Rerun({"repos"}) /\ AfterStep
        /\ hits' = [hits EXCEPT !.page = h, !.error = no] /\ hits.page < LastPage
    BY <1>4, <1>9, <2>1 DEF MoreRepos, InPanes
  <2>3. h \in 1 .. LastPage
    BY <1>2, <1>3, <2>1, <2>2, SearchAssumption DEF SearchAssumption
  <2>4. SetTags(c, f, k, e)
    BY <1>3, <2>2 DEF SetTags
  <2>5. SetHits(h, no)
    BY <2>2 DEF SetHits
  <2> QED BY <1>3, <1>7, <2>2, <2>3, <2>4, <2>5, PagesStay, QueryStays
<1>10. CASE RetryRepos
  <2>1. /\ User /\ UNCHANGED <<query, composing, repository, tags>> /\ Rerun({"repos"}) /\ AfterStep
        /\ hits' = [hits EXCEPT !.error = no]
    BY <1>4, <1>10 DEF RetryRepos, InPanes
  <2>2. SetHits(g, no)
    BY <1>5, <2>1 DEF SetHits
  <2>3. SetTags(c, f, k, e)
    BY <1>3, <2>1 DEF SetTags
  <2> QED BY <1>3, <1>7, <2>1, <2>2, <2>3, PagesStay, QueryStays
<1>11. CASE RetryTags
  <2>1. /\ User /\ UNCHANGED <<query, composing, repository, hits>> /\ Rerun({"tags"}) /\ AfterStep
        /\ tags' = [tags EXCEPT !.error = no]
    BY <1>4, <1>11 DEF RetryTags, InPanes
  <2>2. SetHits(g, a)
    BY <1>3, <2>1 DEF SetHits
  <2>3. SetTags(c, f, k, no)
    BY <1>6, <2>1 DEF SetTags
  <2> QED BY <1>3, <1>7, <2>1, <2>2, <2>3, PagesStay, QueryStays
<1> QED BY <1>8, <1>9, <1>10, <1>11

LEMMA ChooseKeeps ==
  ASSUME FormInv, SearchInv, NEW r \in Repos \cup {None}, Choose(r)
  PROVE  FormInv' /\ SearchInv'
<1>1. PICK panes : panes = IF r # repository \/ tags.filter # "" \/ tags.cursor # 1 THEN {"tags"} ELSE {}
  OBVIOUS
<1>2. /\ User /\ repository' = r /\ tags' = [ResetTags(tags) EXCEPT !.filter = ""]
      /\ UNCHANGED <<query, composing, hits>> /\ Rerun(panes) /\ AfterReset
  BY <1>1 DEF Choose, InPanes
<1>3. panes \in SUBSET Panes /\ "repos" \notin panes /\ ("tags" \notin panes => UNCHANGED <<query, repository>>)
  BY <1>1, <1>2 DEF Panes
<1>4. Query'
  BY <1>2 DEF SearchInv, Query
<1>5. PICK o, h, g, a : o = tags.repo /\ h = tags.hub /\ g = hits.page /\ a = hits.error
  OBVIOUS
<1>6. tags' = [NoTags EXCEPT !.repo = o, !.hub = h, !.filter = ""] /\ "" \in Filters
  BY <1>2, <1>5 DEF ResetTags, NoTags, Filters
<1>7. TagList' /\ tags'.pages = <<>> /\ tags'.cursor \in Names
  BY <1>2, <1>6, UserIs, TagsReset
<1>8. hits' = [hits EXCEPT !.page = g, !.error = a] /\ g \in 1 .. LastPage
  BY <1>2, <1>5, Same
<1>9. events \in Nat /\ events' \in Nat /\ events' = events + 1 /\ RepoRoute' = RepoRoute
  BY <1>2, UserIs
<1>10. events' > events /\ events' >= events
  BY <1>9
<1>11. query' = query
  BY <1>2
<1>12. Hits'
  BY <1>8, <1>9, <1>10, <1>11, HitsKeep
<1> QED BY <1>2, <1>3, <1>4, <1>7, <1>11, <1>12, UserKeeps

\* A filter, more rows or the next page leave what is listed.
LEMMA TagsAskKeeps ==
  ASSUME FormInv, SearchInv, MoreTags \/ \E f \in Filters : Filter(f)
  PROVE  FormInv' /\ SearchInv'
<1>1. events \in Nat
  BY FormAssumption DEF FormInv, Fields, FormAssumption
<1>2. PICK g, a : g = hits.page /\ a = hits.error
  OBVIOUS
<1>3. hits = [hits EXCEPT !.page = g, !.error = a] /\ g \in 1 .. LastPage /\ composing \in BOOLEAN
  BY <1>2, Same
<1>4. /\ tags.cursor \in Names /\ tags.filter \in Filters /\ tags.shown \in 1 .. events + 1 /\ tags.next \in {0, 2}
      /\ tags = [pages |-> tags.pages, repo |-> tags.repo, hub |-> tags.hub, cursor |-> tags.cursor,
                 next |-> tags.next, filter |-> tags.filter, shown |-> tags.shown, error |-> tags.error]
  BY DEF SearchInv, TagList
<1>5. CASE \E f \in Filters : Filter(f)
  <2>1. PICK f \in Filters : Filter(f)
    BY <1>5
  <2>2. PICK panes, e : /\ panes = IF OnHub(TagTarget) \/ tags.cursor # 1 THEN {"tags"} ELSE {}
                        /\ e = (tags.error /\ ~(OnHub(TagTarget) \/ tags.cursor # 1))
    OBVIOUS
  <2>3. /\ User /\ UNCHANGED <<query, composing, repository, hits>> /\ Rerun(panes) /\ AfterStep
        /\ tags' = [tags EXCEPT !.filter = f, !.shown = 1, !.cursor = 1, !.error = e]
    BY <2>1, <2>2 DEF Filter, InPanes
  <2>4. PICK c : c = 1
    OBVIOUS
  <2>5. SetTags(c, f, c, e)
    BY <1>4, <2>3, <2>4 DEF SetTags
  <2>6. c \in Names /\ c \in 1 .. events + 2 /\ panes \in SUBSET Panes
    BY <1>1, <2>2, <2>4 DEF Names, Panes
  <2>7. SetHits(g, a)
    BY <1>3, <2>3 DEF SetHits
  <2> QED BY <1>3, <2>1, <2>3, <2>5, <2>6, <2>7, PagesStay, QueryStays
<1>6. CASE MoreTags
  <2>1. PICK panes, c, k, e, f :
          LET more == Cardinality(Visible) > tags.shown
              again == ~more /\ tags.next # tags.cursor IN
          /\ panes = IF again THEN {"tags"} ELSE {}
          /\ c = (IF more THEN tags.cursor ELSE tags.next) /\ (more \/ tags.next # 0)
          /\ k = tags.shown + 1 /\ e = (tags.error /\ ~again) /\ f = tags.filter
          /\ tags' = [tags EXCEPT !.shown = k, !.cursor = c, !.error = e]
          /\ Rerun(panes)
    BY <1>6 DEF MoreTags
  <2>2. User /\ UNCHANGED <<query, composing, repository, hits>> /\ AfterStep
    BY <1>6 DEF MoreTags, InPanes
  <2>3. c \in Names /\ k \in 1 .. events + 2 /\ panes \in SUBSET Panes /\ f \in Filters
    BY <1>1, <1>4, <2>1 DEF Names, Panes
  <2>4. SetTags(c, f, k, e)
    BY <1>4, <2>1 DEF SetTags
  <2>5. SetHits(g, a)
    BY <1>3, <2>2 DEF SetHits
  <2> QED BY <1>3, <2>1, <2>2, <2>3, <2>4, <2>5, PagesStay, QueryStays
<1> QED BY <1>5, <1>6


-----------------------------------------------------------------------------
(* The requests. *)

\* Requests that leave, or are no longer applied, leave the others current.
LEMMA FewerFly ==
  ASSUME SearchInv, query' = query, RepoRoute' = RepoRoute, TagTarget' = TagTarget, TagRoute' = TagRoute,
         \A q \in flight' : IsRequest(q) /\ (q.live => q \in flight)
  PROVE  Flying'
BY DEF SearchInv, Flying

\* Nothing is applied while the panel is away.
LEMMA AnswerKeeps ==
  ASSUME SearchInv, UNCHANGED formVars, UNCHANGED <<query, composing, repository>>, AfterStep,
         Hits', TagList', \A q \in flight' : IsRequest(q) /\ (q.live => q \in flight),
         Searching \/ UNCHANGED <<hits, tags>>
  PROVE  SearchInv'
<1>1. /\ RepoRoute' = RepoRoute /\ TagTarget' = TagTarget /\ TagRoute' = TagRoute
      /\ Searching' = Searching
  BY RouteStays DEF formVars, form, Searching
<1>2. Flying'
  BY <1>1, FewerFly
<1>3. Details'
  BY <1>1, AfterStepKeeps
<1>4. AtRest'
  <2> SUFFICES ASSUME ~Searching' PROVE AtRest'
    BY DEF AtRest
  <2>1. ~Searching /\ UNCHANGED <<hits, tags>>
    BY <1>1
  <2>2. describing' = {} /\ \A n \in Names : details'[n].is = "-"
    BY <1>1, <2>1, AfterStepKeeps
  <2>3. \A q \in flight' : ~q.live
    BY <2>1 DEF SearchInv, AtRest
  <2> QED BY <2>1, <2>2, <2>3 DEF SearchInv, AtRest
<1>5. Query'
  BY QueryStays
<1> QED BY <1>2, <1>3, <1>4, <1>5 DEF SearchInv

\* What is listed stays, but for its error, while requests only become fewer.
LEMMA ErrorOnly ==
  ASSUME FormInv, SearchInv, UNCHANGED formVars, UNCHANGED <<query, composing, repository>>,
         \A q \in flight' : q.live => q \in flight
  PROVE  /\ hits' \in {hits, [hits EXCEPT !.error = TRUE]} => Hits'
         /\ tags' \in {tags, [tags EXCEPT !.error = TRUE]} => TagList'
<1>1. /\ RepoRoute' = RepoRoute /\ TagTarget' = TagTarget /\ TagRoute' = TagRoute
      /\ events' = events /\ events \in Nat /\ query' = query
  BY RouteStays, FormAssumption DEF formVars, form, FormInv, Fields, FormAssumption
<1>2. events' \in Nat /\ events' >= events
  BY <1>1
<1>3. PICK yes, g, a, c, f, k, e : /\ yes = TRUE /\ g = hits.page /\ a = hits.error
                                   /\ c = tags.cursor /\ f = tags.filter /\ k = tags.shown /\ e = tags.error
  OBVIOUS
<1>4. /\ g \in 1 .. LastPage /\ c \in Names /\ f \in Filters /\ k \in 1 .. events' + 1
  BY <1>1, <1>3, Same
<1>5. hits = [pages |-> hits.pages, page |-> hits.page, more |-> hits.more, error |-> hits.error]
  BY DEF SearchInv, Hits
<1>6. tags = [pages |-> tags.pages, repo |-> tags.repo, hub |-> tags.hub, cursor |-> tags.cursor,
              next |-> tags.next, filter |-> tags.filter, shown |-> tags.shown, error |-> tags.error]
  BY DEF SearchInv, TagList
<1>7. ASSUME hits' \in {hits, [hits EXCEPT !.error = yes]} PROVE Hits'
  <2>1. SetHits(g, a) \/ SetHits(g, yes)
    BY <1>3, <1>5, <1>7 DEF SetHits
  <2> QED BY <1>1, <1>2, <1>4, <2>1, HitsKeep DEF SetHits
<1>8. ASSUME tags' \in {tags, [tags EXCEPT !.error = yes]} PROVE TagList'
  <2>1. SetTags(c, f, k, e) \/ SetTags(c, f, k, yes)
    BY <1>3, <1>6, <1>8 DEF SetTags
  <2> QED BY <1>1, <1>2, <1>4, <2>1, TagsKeep DEF SetTags
<1> QED BY <1>3, <1>7, <1>8

\* The requests left by an answer.
LEMMA AnswersIs ==
  ASSUME SearchInv, NEW r \in flight, flight' = flight \ {r}
  PROVE  /\ \A q \in flight' : IsRequest(q) /\ (q.live => q \in flight)
         /\ r.live => \A q \in flight' : ~(q.live /\ q.pane = r.pane)
BY DEF SearchInv, Flying

LEMMA FoundKeeps ==
  ASSUME FormInv, SearchInv, NEW r \in flight, Found(r)
  PROVE  SearchInv'
<1>1. /\ r.pane = "repos" /\ flight' = flight \ {r} /\ UNCHANGED formVars
      /\ UNCHANGED <<query, composing, repository, tags>> /\ AfterStep
  BY DEF Found, Answers
<1>2. \A q \in flight' : IsRequest(q) /\ (q.live => q \in flight)
  BY <1>1, AnswersIs
<1>3. TagList'
  BY <1>1, <1>2, ErrorOnly
<1>4. IsRequest(r)
  BY DEF SearchInv, Flying
<1>5. CASE ~r.live
  <2>1. hits' = hits
    BY <1>5 DEF Found, Applies
  <2>2. Hits'
    BY <1>1, <1>2, <2>1, ErrorOnly
  <2> QED BY <1>1, <1>2, <1>3, <2>1, <2>2, AnswerKeeps
<1>6. CASE r.live
  <2>1. r.of = query /\ r.route = RepoRoute /\ Searching
    BY <1>1, <1>6 DEF SearchInv, Flying, AtRest
  <2>2. /\ RepoRoute' = RepoRoute /\ events' = events /\ events \in Nat
    BY <1>1, RouteStays, FormAssumption DEF formVars, form, FormInv, Fields, FormAssumption
  <2>3. PICK page, s, put, m : /\ page = [of |-> r.of, route |-> r.route, n |-> r.n] /\ s = hits.pages
                               /\ put \in {<<page>>, Append(s, page)}
                               /\ hits' = [hits EXCEPT !.pages = put, !.more = m]
    BY <1>6 DEF Found, Applies
  <2>4. page.of = query /\ page.route = RepoRoute
    BY <2>1, <2>3
  <2>5. /\ s \in Seq(Range(s)) /\ \A p \in Range(s) : p.of = query /\ p.route = RepoRoute
        /\ Len(s) <= events
    BY <1>1, <1>6, <2>3 DEF SearchInv, Hits
  <2>6. /\ put \in Seq(Range(put)) /\ \A p \in Range(put) : p \in Range(s) \/ p = page
        /\ Len(put) \in Nat /\ (Len(put) = Len(s) + 1 \/ Len(put) = 1) /\ Len(s) \in Nat
    <3>1. PICK a, o : a = Append(s, page) /\ o = <<page>>
      OBVIOUS
    <3>2. put = a \/ put = o
      BY <2>3, <3>1
    <3>3. s \in Seq(Range(s))
      BY <2>5
    <3>4. /\ a \in Seq(Range(a)) /\ Len(a) = Len(s) + 1 /\ Len(s) \in Nat
          /\ \A p \in Range(a) : p \in Range(s) \/ p = page
          /\ o \in Seq(Range(o)) /\ Len(o) = 1 /\ \A p \in Range(o) : p = page
      BY <3>1, <3>3, PagePut
    <3> QED BY <3>2, <3>4
  <2>7. /\ \A p \in Range(put) : p.of = query /\ p.route = RepoRoute
        /\ Len(put) <= events + 1
    <3>1. \A p \in Range(put) : p.of = query /\ p.route = RepoRoute
      BY <2>4, <2>5, <2>6
    <3>2. events \in Nat /\ Len(s) <= events
      BY <2>2, <2>5
    <3>3. Len(put) \in Nat /\ Len(s) \in Nat /\ (Len(put) = Len(s) + 1 \/ Len(put) = 1)
      BY <2>6
    <3>4. PICK x, y, z : x = Len(put) /\ y = Len(s) /\ z = events
      OBVIOUS
    <3>5. x \in Nat /\ y \in Nat /\ z \in Nat /\ y <= z /\ (x = y + 1 \/ x = 1)
      BY <3>2, <3>3, <3>4
    <3>6. x <= z + 1
      BY <3>5
    <3> QED BY <3>1, <3>4, <3>6
  <2>8. hits' = [pages |-> put, page |-> hits.page, more |-> m, error |-> hits.error]
    <3>1. hits = [pages |-> hits.pages, page |-> hits.page, more |-> hits.more, error |-> hits.error]
      BY DEF SearchInv, Hits
    <3> QED BY <2>3, <3>1
  <2>9. hits'.pages = put /\ hits'.page = hits.page
    BY <2>8
  <2>10. hits' = [pages |-> hits'.pages, page |-> hits'.page, more |-> hits'.more, error |-> hits'.error]
    BY <2>8
  <2>11. ~\E q \in flight' : q.live /\ q.pane = "repos"
    BY <1>1, <1>6, AnswersIs
  <2>12. hits'.page \in 1 .. LastPage
    BY <2>9 DEF SearchInv, Hits
  <2>13. Hits'
    BY <1>1, <2>2, <2>6, <2>7, <2>9, <2>10, <2>11, <2>12 DEF Hits
  <2> QED BY <1>1, <1>2, <1>3, <2>1, <2>13, AnswerKeeps
<1> QED BY <1>4, <1>5, <1>6 DEF IsRequest

LEMMA ListingKeeps ==
  ASSUME FormInv, SearchInv, NEW r \in flight, NEW hub \in BOOLEAN, Listing(r, hub)
  PROVE  SearchInv'
<1>1. /\ r.pane = "tags" /\ flight' = flight \ {r} /\ UNCHANGED formVars
      /\ UNCHANGED <<query, composing, repository, hits>> /\ AfterStep
  BY DEF Listing, Answers
<1>2. \A q \in flight' : IsRequest(q) /\ (q.live => q \in flight)
  BY <1>1, AnswersIs
<1>3. Hits'
  BY <1>1, <1>2, ErrorOnly
<1>4. IsRequest(r)
  BY DEF SearchInv, Flying
<1>5. CASE ~r.live
  <2>1. tags' = tags
    BY <1>5 DEF Listing, Applies
  <2>2. TagList'
    BY <1>1, <1>2, <2>1, ErrorOnly
  <2> QED BY <1>1, <1>2, <1>3, <2>1, <2>2, AnswerKeeps
<1>6. CASE r.live
  <2>1. r.of = TagTarget /\ r.route = TagRoute /\ Searching /\ r.n \in Names
    BY <1>1, <1>4, <1>6 DEF SearchInv, Flying, AtRest, IsRequest
  <2>2. /\ TagRoute' = TagRoute /\ TagTarget' = TagTarget /\ events' = events
    BY <1>1, RouteStays DEF formVars, form
  <2>3. PICK names, page, s, put, m, o :
             /\ names = (IF hub THEN HubNames(r.filter, r.n) ELSE Names)
             /\ page = [of |-> r.of, route |-> r.route, names |-> names] /\ s = tags.pages /\ o = r.of
             /\ put = (IF r.n = 1 THEN <<page>> ELSE Append(s, page)) /\ m \in {0, 2}
             /\ tags' = [tags EXCEPT !.pages = put, !.repo = o, !.hub = hub, !.next = m]
    BY <1>6 DEF Listing, Applies
  <2>4. page.of = TagTarget /\ page.route = TagRoute /\ page.names = names
    BY <2>1, <2>3
  <2>5. names \subseteq Names
    BY <2>1, <2>3 DEF HubNames, Names
  <2>6. /\ s \in Seq(Range(s))
        /\ \A p \in Range(s) : p.of = TagTarget /\ p.route = TagRoute /\ p.names \subseteq Names
    BY <2>3 DEF SearchInv, TagList
  <2>7. put \in Seq(Range(put)) /\ \A p \in Range(put) : p \in Range(s) \/ p = page
    <3>1. PICK a, l : a = Append(s, page) /\ l = <<page>>
      OBVIOUS
    <3>2. put = a \/ put = l
      BY <2>3, <3>1
    <3>3. s \in Seq(Range(s))
      BY <2>6
    <3>4. /\ a \in Seq(Range(a)) /\ \A p \in Range(a) : p \in Range(s) \/ p = page
          /\ l \in Seq(Range(l)) /\ \A p \in Range(l) : p = page
      BY <3>1, <3>3, PagePut
    <3> QED BY <3>2, <3>4
  <2>8. \A p \in Range(put) : p.of = TagTarget /\ p.route = TagRoute /\ o = p.of /\ p.names \subseteq Names
    BY <2>1, <2>3, <2>4, <2>5, <2>6, <2>7
  <2>9. PICK c, f, k, e : c = tags.cursor /\ f = tags.filter /\ k = tags.shown /\ e = tags.error
    OBVIOUS
  <2>10. tags' = [pages |-> put, repo |-> o, hub |-> hub, cursor |-> c, next |-> m, filter |-> f, shown |-> k,
                  error |-> e]
    <3>1. tags = [pages |-> tags.pages, repo |-> tags.repo, hub |-> tags.hub, cursor |-> tags.cursor,
                  next |-> tags.next, filter |-> tags.filter, shown |-> tags.shown, error |-> tags.error]
      BY DEF SearchInv, TagList
    <3> QED BY <2>3, <2>9, <3>1
  <2>11. /\ tags'.pages = put /\ tags'.repo = o /\ tags'.cursor = c /\ tags'.next = m /\ tags'.filter = f
         /\ tags'.shown = k
         /\ tags' = [pages |-> tags'.pages, repo |-> tags'.repo, hub |-> tags'.hub, cursor |-> tags'.cursor,
                     next |-> tags'.next, filter |-> tags'.filter, shown |-> tags'.shown, error |-> tags'.error]
    <3>1. PICK t, h : t = tags' /\ h = hub
      OBVIOUS
    <3>2. t = [pages |-> put, repo |-> o, hub |-> h, cursor |-> c, next |-> m, filter |-> f, shown |-> k, error |-> e]
      BY <2>10, <3>1
    <3>3. /\ t.pages = put /\ t.repo = o /\ t.hub = h /\ t.cursor = c /\ t.next = m /\ t.filter = f /\ t.shown = k
          /\ t = [pages |-> t.pages, repo |-> t.repo, hub |-> t.hub, cursor |-> t.cursor, next |-> t.next,
                  filter |-> t.filter, shown |-> t.shown, error |-> t.error]
      BY <3>2, TagFields
    <3> QED BY <3>1, <3>3
  <2>12. c \in Names /\ f \in Filters /\ k \in 1 .. events + 1
    BY <2>9 DEF SearchInv, TagList
  <2>13. TagList'
    BY <2>2, <2>3, <2>7, <2>8, <2>11, <2>12 DEF TagList
  <2> QED BY <1>1, <1>2, <1>3, <2>1, <2>13, AnswerKeeps
<1> QED BY <1>4, <1>5, <1>6 DEF IsRequest

\* A request that fails or times out leaves its error.
LEMMA FailsKeep ==
  ASSUME FormInv, SearchInv, NEW r \in flight, Failed(r) \/ TimesOut(r)
  PROVE  SearchInv'
<1>1. /\ UNCHANGED formVars /\ UNCHANGED <<query, composing, repository>> /\ AfterStep
      /\ hits' \in {hits, [hits EXCEPT !.error = TRUE]} /\ tags' \in {tags, [tags EXCEPT !.error = TRUE]}
  BY DEF Failed, Answers, TimesOut
<1>2. IsRequest(r)
  BY DEF SearchInv, Flying
<1>3. \A q \in flight' : IsRequest(q) /\ (q.live => q \in flight)
  <2>1. CASE Failed(r)
    BY <2>1, AnswersIs DEF Failed, Answers
  <2>2. CASE TimesOut(r)
    <3>1. flight' = (flight \ {r}) \cup {[r EXCEPT !.live = FALSE]}
      BY <2>2 DEF TimesOut
    <3>2. PICK x : x = [r EXCEPT !.live = FALSE]
      OBVIOUS
    <3>3. IsRequest(x) /\ ~x.live
      BY <1>2, <3>2 DEF IsRequest
    <3>4. \A q \in flight' : q \in flight \/ q = x
      BY <3>1, <3>2
    <3> QED BY <3>3, <3>4 DEF SearchInv, Flying
  <2> QED BY <2>1, <2>2
<1>4. Hits' /\ TagList'
  BY <1>1, <1>3, ErrorOnly
<1>5. Searching \/ UNCHANGED <<hits, tags>>
  <2>1. r.live => Searching
    BY DEF SearchInv, AtRest
  <2> QED BY <1>2, <2>1 DEF Failed, TimesOut, Applies, IsRequest
<1> QED BY <1>1, <1>3, <1>4, <1>5, AnswerKeeps

LEMMA SendKeeps ==
  ASSUME SearchInv, NEW r \in flight, Send(r)
  PROVE  SearchInv'
<1>1. /\ flight' = (flight \ {r}) \cup {[r EXCEPT !.sent = TRUE]}
      /\ UNCHANGED <<query, composing, repository, hits, tags, details, describing>> /\ UNCHANGED formVars
  BY DEF Send
<1>2. IsRequest(r)
  BY DEF SearchInv, Flying
<1>3. PICK x : x = [r EXCEPT !.sent = TRUE]
  OBVIOUS
<1>4. /\ IsRequest(x) /\ x.live = r.live /\ x.pane = r.pane /\ x.of = r.of /\ x.route = r.route
  BY <1>2, <1>3 DEF IsRequest
<1>5. \A q \in flight' : (q \in flight /\ q # r) \/ q = x
  BY <1>1, <1>3
<1>6. /\ RepoRoute' = RepoRoute /\ TagTarget' = TagTarget /\ TagRoute' = TagRoute /\ Searching' = Searching
      /\ events' = events
  BY <1>1, RouteStays DEF formVars, form, Searching
<1>7. Rows' = Rows
  BY <1>1 DEF Rows, Visible
<1>8. Flying'
  <2> SUFFICES ASSUME NEW q \in flight'
               PROVE  /\ IsRequest(q)
                      /\ q.live => /\ q.pane = "repos" => q.of = query' /\ q.route = RepoRoute'
                                   /\ q.pane = "tags" => q.of = TagTarget' /\ q.route = TagRoute'
                                   /\ \A p \in flight' : p.live /\ p.pane = q.pane => p = q
    BY DEF Flying
  <2>1. IsRequest(q)
    BY <1>4, <1>5 DEF SearchInv, Flying
  <2>2. ASSUME q.live
        PROVE  /\ q.pane = "repos" => q.of = query /\ q.route = RepoRoute
               /\ q.pane = "tags" => q.of = TagTarget /\ q.route = TagRoute
    BY <1>4, <1>5, <2>2 DEF SearchInv, Flying
  <2>3. ASSUME q.live, NEW p \in flight', p.live, p.pane = q.pane PROVE p = q
    BY <1>4, <1>5, <2>3 DEF SearchInv, Flying
  <2> QED BY <1>1, <1>6, <2>1, <2>2, <2>3
<1>9. Hits'
  <2>1. (\E q \in flight' : q.live /\ q.pane = "repos") => \E q \in flight : q.live /\ q.pane = "repos"
    BY <1>4, <1>5
  <2> QED BY <1>1, <1>6, <2>1 DEF SearchInv, Hits
<1>10. AtRest'
  <2>1. ~Searching => \A q \in flight' : ~q.live
    BY <1>4, <1>5 DEF SearchInv, AtRest
  <2> QED BY <1>1, <1>6, <2>1 DEF SearchInv, AtRest
<1>11. Details' /\ TagList' /\ Query'
  BY <1>1, <1>6, <1>7 DEF SearchInv, Details, TagList, Query
<1> QED BY <1>8, <1>9, <1>10, <1>11 DEF SearchInv

LEMMA DescribedKeeps ==
  ASSUME SearchInv, NEW d \in describing, Described(d)
  PROVE  SearchInv'
<1>1. /\ describing' = describing \ {d}
      /\ UNCHANGED <<query, composing, repository, hits, tags, flight>> /\ UNCHANGED formVars
  BY DEF Described
<1>2. PICK is \in {"read", "error"} : details' = [details EXCEPT ![d.name] = [is |-> is, repo |-> d.repo, route |-> d.route]]
  BY DEF Described
<1>3. /\ RepoRoute' = RepoRoute /\ TagTarget' = TagTarget /\ TagRoute' = TagRoute /\ Searching' = Searching
      /\ events' = events
  BY <1>1, RouteStays DEF formVars, form, Searching
<1>4. Rows' = Rows
  BY <1>1 DEF Rows, Visible
<1>5. /\ d.repo = TagTarget /\ d.route = TagRoute /\ d.name \in Names
      /\ \A e \in describing : e.name = d.name => e = d
  BY DEF SearchInv, Details
<1>6. details = [n \in Names |-> details[n]]
  BY DEF SearchInv, Details
<1>7. \A n \in Names : details'[n] = IF n = d.name THEN [is |-> is, repo |-> d.repo, route |-> d.route] ELSE details[n]
  BY <1>2, <1>5, <1>6
<1>8. details' = [n \in Names |-> details'[n]]
  BY <1>2, <1>6
<1>9. ASSUME NEW n \in Names
      PROVE  /\ details'[n].is \in {"-", "pending", "error", "read"}
             /\ details'[n].is = "read" => details'[n].repo = TagTarget /\ details'[n].route = TagRoute
             /\ n # d.name => details'[n] = details[n]
  <2>1. CASE n = d.name
    BY <1>5, <1>7, <2>1
  <2>2. CASE n # d.name
    BY <1>7, <2>2 DEF SearchInv, Details
  <2> QED BY <2>1, <2>2
<1>10. \A e \in describing' : e \in describing /\ e.name # d.name
  BY <1>1, <1>5
<1>11. ASSUME NEW e \in describing'
       PROVE  /\ e.name \in Rows /\ e.name \in Names /\ e.repo = TagTarget /\ e.route = TagRoute /\ ~OnHub(e.repo)
              /\ details'[e.name].is = "pending"
              /\ \A g \in describing' : g.name = e.name => g = e
  BY <1>9, <1>10 DEF SearchInv, Details
<1>12. Details'
  BY <1>3, <1>4, <1>8, <1>9, <1>11 DEF Details
<1>13. AtRest'
  BY <1>3 DEF SearchInv, AtRest
<1>14. Flying' /\ Hits' /\ TagList' /\ Query'
  BY <1>1, <1>3 DEF SearchInv, Flying, Hits, TagList, Query
<1> QED BY <1>12, <1>13, <1>14 DEF SearchInv


-----------------------------------------------------------------------------
(* Steps of the form. *)

\* Events are only ever counted up.
LEMMA EventsGrow ==
  ASSUME FormInv, FormNext
  PROVE  events \in Nat /\ events' \in Nat /\ events' >= events
<1>1. events \in Nat
  BY FormAssumption DEF FormInv, Fields, FormAssumption
<1>2. UNCHANGED events \/ Event
  <2>1. CASE OpenDialog \/ ToggleSearch \/ CloseDialog \/ StartPull \/ SaveWorker \/ SaveProxy \/ Remember \/ OtherUser
    BY <2>1 DEF OpenDialog, ToggleSearch, CloseDialog, StartPull, SaveWorker, SaveProxy, Remember, OtherUser
  <2>2. CASE \E m \in Modes : SetMode(m)
    BY <2>2 DEF SetMode
  <2>3. CASE \E w \in Workers \cup {None} : InputWorker(w) \/ DeleteWorker(w)
    BY <2>3 DEF InputWorker, DeleteWorker
  <2>4. CASE \E p \in Proxies \cup {None} : InputProxy(p) \/ DeleteProxy(p)
    BY <2>4 DEF InputProxy, DeleteProxy
  <2>5. CASE \/ \E h \in Hosts, k \in Keys \cup {None} : Select(h, k)
             \/ \E i \in BrowserIds, h \in Hosts, s \in Secrets : SaveAccount(i, h, s)
             \/ \E i \in BrowserIds : RemoveAccount(i)
             \/ \E i \in ServerIds : Verify(i)
    BY <2>5 DEF Select, SaveAccount, RemoveAccount, Verify
  <2>6. CASE \/ \E h \in Hosts, i \in ServerIds \cup {None} : SelectServer(h, i)
             \/ \E v \in {"add", "edit", "delete"}, i \in ServerIds \cup {None}, h \in Hosts : SaveServer(v, i, h)
    BY <2>6 DEF SelectServer, SaveServer
  <2>7. CASE Requests
    BY <2>7 DEF Requests, Listed, Writes, Written, NotWritten, Refetched, NotRefetched, Elsewhere,
               Revealed, NotRevealed, Others
  <2> QED BY <2>1, <2>2, <2>3, <2>4, <2>5, <2>6, <2>7 DEF FormNext
<1>3. events' = events \/ events' = events + 1
  BY <1>2 DEF Event
<1> QED BY <1>1, <1>3

LEMMA AbortedIs ==
  ASSUME SearchInv, NEW pane, NEW r \in Aborted(pane)
  PROVE  IsRequest(r) /\ ~r.live
<1>1. PICK q \in flight : q.pane = pane /\ r = [q EXCEPT !.live = FALSE]
  BY DEF Aborted
<1>2. IsRequest(q)
  BY DEF SearchInv, Flying
<1> QED BY <1>1, <1>2 DEF IsRequest

\* The search follows a route that has changed.
LEMMA FollowsKeeps ==
  ASSUME FormInv, SearchInv, FormNext, Searching, Searching', Follows
  PROVE  SearchInv'
<1>1. events \in Nat /\ events' \in Nat /\ events' >= events
  BY EventsGrow
<1>2. PICK panes : panes = (IF RepoRoute' # RepoRoute THEN {"repos"} ELSE {})
                             \cup (IF TagRoute' # TagRoute THEN {"tags"} ELSE {})
  OBVIOUS
<1>3. UNCHANGED <<query, composing, repository>> /\ Rerun(panes) /\ panes \in SUBSET Panes
  BY <1>2 DEF Follows, Panes
<1>4. query' = query /\ TagTarget' = TagTarget
  BY <1>3, TargetStays
<1>5. Query'
  BY <1>3, QueryStays
<1>6. TagList' /\ tags'.cursor \in Names
      /\ \/ AfterReset /\ tags'.pages = <<>>
         \/ AfterStep /\ TagRoute' = TagRoute
  <2>1. CASE TagRoute' # TagRoute
    <3>1. PICK o, h, f : o = tags.repo /\ h = tags.hub /\ f = tags.filter
      OBVIOUS
    <3>2. tags' = [NoTags EXCEPT !.repo = o, !.hub = h, !.filter = f] /\ AfterReset
      BY <2>1, <3>1 DEF Follows, ResetTags
    <3>3. f \in Filters
      BY <3>1, Same
    <3> QED BY <1>1, <3>2, <3>3, TagsReset
  <2>2. CASE TagRoute' = TagRoute
    <3>1. PICK c, f, k, e : c = tags.cursor /\ f = tags.filter /\ k = tags.shown /\ e = tags.error
      OBVIOUS
    <3>2. tags' = tags /\ AfterStep
      BY <2>2 DEF Follows
    <3>3. SetTags(c, f, k, e)
      BY <3>1, <3>2, Same DEF SetTags
    <3>4. c \in Names /\ f \in Filters
      BY <3>1, Same
    <3>5. k \in 1 .. events' + 1
      <4>1. k \in 1 .. events + 1
        BY <3>1, Same
      <4>2. PICK x, y : x = events /\ y = events'
        OBVIOUS
      <4>3. x \in Nat /\ y \in Nat /\ y >= x /\ k \in 1 .. x + 1
        BY <1>1, <4>1, <4>2
      <4>4. k \in 1 .. y + 1
        BY <4>3
      <4> QED BY <4>2, <4>4
    <3>6. TagList' /\ tags'.cursor \in Names
      BY <1>1, <1>4, <2>2, <3>3, <3>4, <3>5, TagsKeep DEF SetTags
    <3> QED BY <2>2, <3>2, <3>6
  <2> QED BY <2>1, <2>2
<1>7. /\ "repos" \notin panes => RepoRoute' = RepoRoute
      /\ "tags" \notin panes => TagRoute' = TagRoute
  BY <1>2
<1>8. Flying' /\ \A r \in flight' : r.live /\ r.pane \notin panes => r \in flight
  BY <1>3, <1>4, <1>6, <1>7, RerunKeeps
<1>9. Hits'
  <2>1. CASE RepoRoute' # RepoRoute
    <3>1. PICK m : m = hits.more
      OBVIOUS
    <3>2. hits' = [NoHits EXCEPT !.more = m]
      BY <2>1, <3>1 DEF Follows
    <3> QED BY <1>1, <3>2, HitsReset
  <2>2. CASE RepoRoute' = RepoRoute
    <3>1. PICK g, a : g = hits.page /\ a = hits.error
      OBVIOUS
    <3>2. hits' = hits
      BY <2>2 DEF Follows
    <3>3. SetHits(g, a) /\ g \in 1 .. LastPage
      BY <3>1, <3>2, Same DEF SetHits
    <3>4. "repos" \notin panes
      BY <1>2, <2>2
    <3>5. \A r \in flight' : r.live /\ r.pane = "repos" => r \in flight
      BY <1>8, <3>4
    <3> QED BY <1>1, <1>4, <2>2, <3>3, <3>5, HitsKeep DEF SetHits
  <2> QED BY <2>1, <2>2
<1>10. Details'
  BY <1>4, <1>6, AfterStepKeeps, AfterResetKeeps
<1>11. AtRest'
  BY DEF AtRest
<1> QED BY <1>5, <1>6, <1>8, <1>9, <1>10, <1>11 DEF SearchInv

\* The search appears, and it goes.
LEMMA MountsKeeps ==
  ASSUME FormInv, SearchInv, FormNext, Mounts
  PROVE  SearchInv'
<1>1. events' \in Nat
  BY EventsGrow
<1>2. /\ Searching' /\ query' \in Refs \cup {None} /\ composing' = FALSE /\ repository' = None
      /\ hits' = NoHits /\ tags' = NoTags /\ Rerun({"repos", "tags"}) /\ AfterReset
  BY DEF Mounts
<1>3. Query'
  BY <1>2 DEF Query
<1>4. PICK m, o, h, f : m = NoHits.more /\ o = NoTags.repo /\ h = NoTags.hub /\ f = NoTags.filter
  OBVIOUS
<1>5. f \in Filters
  BY <1>4 DEF NoTags, Filters
<1>6. NoHits = [NoHits EXCEPT !.more = m]
  BY <1>4 DEF NoHits
<1>7. NoTags = [NoTags EXCEPT !.repo = o, !.hub = h, !.filter = f]
  BY <1>4 DEF NoTags
<1>8. Hits'
  <2>1. hits' = [NoHits EXCEPT !.more = m]
    BY <1>2, <1>6
  <2> QED BY <1>1, <2>1, HitsReset
<1>9. TagList' /\ tags'.pages = <<>> /\ tags'.cursor \in Names
  <2>1. tags' = [NoTags EXCEPT !.repo = o, !.hub = h, !.filter = f]
    BY <1>2, <1>7
  <2> QED BY <1>1, <1>5, <2>1, TagsReset
<1>10. Flying'
  BY <1>2, <1>9, RerunKeeps DEF Panes
<1>11. Details'
  BY <1>2, <1>9, AfterResetKeeps
<1>12. AtRest'
  BY <1>2 DEF AtRest
<1> QED BY <1>3, <1>8, <1>9, <1>10, <1>11, <1>12 DEF SearchInv

LEMMA UnmountsKeeps ==
  ASSUME FormInv, SearchInv, FormNext, Unmounts
  PROVE  SearchInv'
<1>1. events' \in Nat
  BY EventsGrow
<1>2. /\ query' = None /\ composing' = FALSE /\ repository' = None /\ hits' = NoHits /\ tags' = NoTags
      /\ flight' = Aborted("repos") \cup Aborted("tags") /\ AfterReset
  BY DEF Unmounts, Gone
<1>3. Query'
  BY <1>2 DEF Query
<1>4. PICK m, o, h, f : m = NoHits.more /\ o = NoTags.repo /\ h = NoTags.hub /\ f = NoTags.filter
  OBVIOUS
<1>5. f \in Filters
  BY <1>4 DEF NoTags, Filters
<1>6. NoHits = [NoHits EXCEPT !.more = m] /\ NoHits.pages = <<>>
  BY <1>4 DEF NoHits
<1>7. NoTags = [NoTags EXCEPT !.repo = o, !.hub = h, !.filter = f]
  BY <1>4 DEF NoTags
<1>8. Hits' /\ hits'.pages = <<>>
  <2>1. hits' = [NoHits EXCEPT !.more = m] /\ hits'.pages = <<>>
    BY <1>2, <1>6
  <2> QED BY <1>1, <2>1, HitsReset
<1>9. TagList' /\ tags'.pages = <<>>
  <2>1. tags' = [NoTags EXCEPT !.repo = o, !.hub = h, !.filter = f]
    BY <1>2, <1>7
  <2> QED BY <1>1, <1>5, <2>1, TagsReset
<1>10. \A r \in flight' : IsRequest(r) /\ ~r.live
  BY <1>2, AbortedIs
<1>11. Flying'
  BY <1>10 DEF Flying
<1>12. Details' /\ describing' = {} /\ \A n \in Names : details'[n].is = "-"
  BY <1>2, <1>9, AfterResetKeeps
<1>13. AtRest'
  BY <1>8, <1>9, <1>10, <1>12 DEF AtRest
<1> QED BY <1>3, <1>8, <1>9, <1>11, <1>12, <1>13 DEF SearchInv

\* Without the panel the form changes alone.
LEMMA AwayKeeps ==
  ASSUME FormInv, SearchInv, FormNext, ~Searching, ~Searching', UNCHANGED search
  PROVE  SearchInv'
<1>1. events \in Nat /\ events' \in Nat /\ events' >= events
  BY EventsGrow
<1>2. UNCHANGED <<query, composing, repository, hits, tags, details, flight, describing>>
  BY DEF search
<1>3. /\ hits.pages = <<>> /\ tags.pages = <<>> /\ describing = {} /\ \A r \in flight : ~r.live
      /\ \A n \in Names : details[n].is = "-"
  BY DEF SearchInv, AtRest
<1>4. /\ <<>> \in Seq(Range(<<>>)) /\ Len(hits.pages) = 0
      /\ \A p \in Range(hits.pages) : FALSE /\ \A q \in Range(tags.pages) : FALSE
  BY <1>3, NoPages
<1>5. Hits'
  <2>1. PICK x : x = Len(hits.pages)
    OBVIOUS
  <2>2. x = 0 /\ \A p \in Range(hits.pages) : FALSE
    BY <1>4, <2>1
  <2>3. x <= events' + 1 /\ x <= events'
    <3>1. PICK y : y = events'
      OBVIOUS
    <3>2. y \in Nat /\ x = 0
      BY <1>1, <2>2, <3>1
    <3>3. x <= y + 1 /\ x <= y
      BY <3>2
    <3> QED BY <3>1, <3>3
  <2> QED BY <1>2, <2>1, <2>2, <2>3 DEF SearchInv, Hits
<1>6. TagList'
  <2>1. tags.shown \in 1 .. events' + 1
    <3>1. tags.shown \in 1 .. events + 1
      BY Same
    <3> QED BY <1>1, <3>1
  <2>2. \A q \in Range(tags.pages) : FALSE
    BY <1>3, NoPages
  <2> QED BY <1>2, <2>1, <2>2 DEF SearchInv, TagList
<1>7. Flying' /\ Details'
  BY <1>2, <1>3 DEF SearchInv, Flying, Details
<1>8. Query'
  BY <1>2 DEF SearchInv, Query
<1>9. AtRest'
  BY <1>2, <1>3 DEF AtRest
<1> QED BY <1>5, <1>6, <1>7, <1>8, <1>9 DEF SearchInv

-----------------------------------------------------------------------------
(* The theorems. *)

RemoteSearchInv == FormInv /\ SearchInv

LEMMA FormStarts == FormInit => FormInv
<1> SUFFICES ASSUME FormInit PROVE FormInv
  OBVIOUS
<1>1. /\ Stored(box) /\ box.workers \in Seq(Workers) /\ box.proxies \in Seq(Proxies) /\ box.mode \in Modes
      /\ \A w \in Workers : /\ box.accounts[w].accounts \subseteq Account /\ box.accounts[w].use \in Seq(Keys)
  BY StorageAssumption DEF FormInit, StorageAssumption, Stored, Box
<1>2. worker \in Workers
  BY <1>1, HeadTailProperties, FormAssumption DEF FormInit, FormAssumption
<1>3. PICK kept : kept = box.accounts[worker]
  OBVIOUS
<1>4. /\ creds = kept.accounts /\ use = kept.use /\ remember = (kept # Nothing)
      /\ mode = box.mode /\ proxy = First(box.proxies)
      /\ panel = "search" /\ revealed = {} /\ picked = <<>> /\ registries = Registries
      /\ list = <<>> /\ reading = TRUE /\ saving = Idle /\ events = 0
  BY <1>3 DEF FormInit
<1>5. /\ kept.accounts \subseteq Account /\ Distinct(kept.accounts) /\ kept.use \in Seq(Keys) /\ IsInjective(kept.use)
      /\ \A a \in kept.accounts : a.at = worker
  BY <1>1, <1>2, <1>3 DEF Stored
<1>6. Accounts
  <2>1. remember \in BOOLEAN /\ (~remember => kept = Nothing)
    BY <1>4
  <2> QED BY <1>1, <1>2, <1>3, <1>4, <1>5, <2>1 DEF Accounts
<1>7. Fields
  BY <1>1, <1>4, FirstIs, FormAssumption DEF Fields, FormAssumption
<1>8. Servers
  BY <1>4, StorageAssumption, EmptySeq DEF Servers, StorageAssumption
<1>9. Lists
  <2> DEFINE ids == Without(use, BrowserIds)
             asked == [i \in DOMAIN ids |-> [id |-> ids[i], why |-> "mount"]]
  <2>1. use \in Seq(Keys)
    BY <1>4, <1>5
  <2>2. ids \in Seq(ServerIds)
    BY <2>1, LeftOver DEF Keys
  <2>3. asked \in Seq(Reveals)
    <3>1. Len(ids) \in Nat /\ DOMAIN ids = 1..Len(ids) /\ \A i \in 1..Len(ids) : ids[i] \in ServerIds
      BY <2>2, LenProperties, ElementOfSeq
    <3> HIDE DEF ids
    <3>2. asked \in [1..Len(ids) -> Reveals]
      BY <3>1 DEF Reveals
    <3> HIDE DEF asked
    <3> QED BY <3>1, <3>2
  <2>4. reveals = <<>> \/ reveals = asked
    BY DEF FormInit
  <2> HIDE DEF asked
  <2>5. reveals \in Seq(Reveals) /\ list \in Seq(ServerAccount)
    BY <1>4, <2>3, <2>4, EmptySeq
  <2>6. Idle \in Savings /\ Known(Idle)
    BY DEF Idle, Savings, Known
  <2> QED BY <1>4, <2>5, <2>6 DEF Lists
<1> QED BY <1>6, <1>7, <1>8, <1>9 DEF FormInv

LEMMA SearchStarts == FormInv /\ SearchInit => SearchInv
<1> SUFFICES ASSUME FormInv, SearchInit PROVE SearchInv
  OBVIOUS
<1>1. /\ query = None /\ composing = FALSE /\ repository = None /\ hits = NoHits /\ tags = NoTags
      /\ details = NoDetails /\ flight = {} /\ describing = {}
  BY DEF SearchInit
<1>2. events \in Nat
  BY FormAssumption DEF FormInv, Fields, FormAssumption
<1>3. PICK none : none = <<>>
  OBVIOUS
<1>4. hits = [pages |-> none, page |-> 1, more |-> FALSE, error |-> FALSE]
  BY <1>1, <1>3 DEF NoHits
<1>5. PICK o, no, c, z, f : o = None /\ no = FALSE /\ c = 1 /\ z = 0 /\ f = ""
  OBVIOUS
<1>6. tags = [pages |-> none, repo |-> o, hub |-> no, cursor |-> c, next |-> z, filter |-> f, shown |-> c, error |-> no]
  BY <1>1, <1>3, <1>5 DEF NoTags
<1>7. none \in Seq(Range(none)) /\ Len(none) = 0 /\ \A p \in Range(none) : FALSE
  BY <1>3, NoPages
<1>8. Hits
  <2>1. hits.pages = none /\ hits.page = 1
    BY <1>4
  <2>2. hits = [pages |-> hits.pages, page |-> hits.page, more |-> hits.more, error |-> hits.error]
    BY <1>4
  <2>3. 1 \in 1 .. LastPage
    BY SearchAssumption DEF SearchAssumption
  <2> QED BY <1>2, <1>7, <2>1, <2>2, <2>3 DEF Hits
<1>9. TagList
  <2>1. /\ tags.pages = none /\ tags.repo = o /\ tags.hub = no /\ tags.cursor = c /\ tags.next = z /\ tags.filter = f
        /\ tags.shown = c
        /\ tags = [pages |-> tags.pages, repo |-> tags.repo, hub |-> tags.hub, cursor |-> tags.cursor,
                   next |-> tags.next, filter |-> tags.filter, shown |-> tags.shown, error |-> tags.error]
    BY <1>6, TagFields
  <2>2. c \in Names /\ z \in {0, 2} /\ f \in Filters
    BY <1>5 DEF Names, Filters
  <2>3. c \in 1 .. events + 1
    <3>1. PICK y : y = events
      OBVIOUS
    <3>2. y \in Nat /\ c = 1
      BY <1>2, <1>5, <3>1
    <3>3. c \in 1 .. y + 1
      BY <3>2
    <3> QED BY <3>1, <3>3
  <2> QED BY <1>7, <2>1, <2>2, <2>3 DEF TagList
<1>10. Details /\ AtRest
  <2>1. details = [n \in Names |-> details[n]] /\ \A n \in Names : details[n].is = "-"
    BY <1>1 DEF NoDetails
  <2>2. hits.pages = <<>> /\ tags.pages = <<>>
    BY <1>1 DEF NoHits, NoTags
  <2> QED BY <1>1, <2>1, <2>2 DEF Details, AtRest
<1>11. Query /\ Flying
  BY <1>1 DEF Query, Flying
<1> QED BY <1>8, <1>9, <1>10, <1>11 DEF SearchInv

LEMMA RemoteSearchKeeps == RemoteSearchInv /\ [Next]_vars => RemoteSearchInv'
<1> SUFFICES ASSUME FormInv, SearchInv, [Next]_vars PROVE FormInv' /\ SearchInv'
  BY DEF RemoteSearchInv
<1>1. CASE FormStep
  <2>1. FormNext
    BY <1>1 DEF FormStep
  <2>2. FormInv'
    BY <2>1, FormKeeps
  <2>3. CASE Searching /\ Searching'
    BY <1>1, <2>1, <2>2, <2>3, FollowsKeeps DEF FormStep
  <2>4. CASE Searching /\ ~Searching'
    BY <1>1, <2>1, <2>2, <2>4, UnmountsKeeps DEF FormStep
  <2>5. CASE ~Searching /\ Searching'
    BY <1>1, <2>1, <2>2, <2>5, MountsKeeps DEF FormStep
  <2>6. CASE ~Searching /\ ~Searching'
    BY <1>1, <2>1, <2>2, <2>6, AwayKeeps DEF FormStep
  <2> QED BY <2>3, <2>4, <2>5, <2>6
<1>2. CASE Compose \/ MoreRepos \/ RetryRepos \/ RetryTags
  BY <1>2, AskKeeps
<1>3. CASE MoreTags \/ \E f \in Filters : Filter(f)
  BY <1>3, TagsAskKeeps
<1>4. CASE \E v \in Terms \cup Refs \cup {None} : Type(v)
  BY <1>4, TypeKeeps
<1>5. CASE \E r \in Repos \cup {None} : Choose(r)
  BY <1>5, ChooseKeeps
<1>6. CASE Lookups
  <2>1. UNCHANGED formVars
    BY <1>6 DEF Lookups, Step, Send, Found, Listing, Failed, TimesOut, Answers, Described
  <2>2. FormInv'
    <3>1. UNCHANGED <<panel, mode, worker, creds, use, revealed, remember, picked, proxy, box, registries, list,
                      reading, reveals, saving, events>>
      BY <2>1 DEF formVars, form
    <3> QED BY <3>1, Untouched DEF FormInv, Mounted
  <2>3. SearchInv'
    <3>1. CASE \E r \in flight : Step(r)
      <4>1. PICK r \in flight : Step(r)
        BY <3>1
      <4>2. TRUE \in BOOLEAN /\ FALSE \in BOOLEAN
        OBVIOUS
      <4> QED BY <4>1, <4>2, SendKeeps, FoundKeeps, ListingKeeps, FailsKeep DEF Step
    <3>2. CASE \E d \in describing : Described(d)
      BY <3>2, DescribedKeeps
    <3> QED BY <1>6, <3>1, <3>2 DEF Lookups
  <2> QED BY <2>2, <2>3
<1>7. CASE UNCHANGED vars
  <2>1. UNCHANGED <<panel, mode, worker, creds, use, revealed, remember, picked, proxy, box, registries, list,
                    reading, reveals, saving, events>>
        /\ UNCHANGED <<query, composing, repository, hits, tags, details, flight, describing>>
    BY <1>7 DEF vars, formVars, form, search
  <2>2. FormInv'
    BY <2>1, Untouched DEF FormInv, Mounted
  <2>3. /\ RepoRoute' = RepoRoute /\ TagTarget' = TagTarget /\ TagRoute' = TagRoute /\ Searching' = Searching
    BY <2>1, RouteStays DEF Searching
  <2>4. Rows' = Rows
    BY <2>1 DEF Rows, Visible
  <2>5. Query' /\ Hits' /\ TagList'
    BY <2>1, <2>3 DEF SearchInv, Query, Hits, TagList
  <2>6. Flying' /\ Details' /\ AtRest'
    BY <2>1, <2>3, <2>4 DEF SearchInv, Flying, Details, AtRest
  <2> QED BY <2>2, <2>5, <2>6 DEF SearchInv
<1> QED BY <1>1, <1>2, <1>3, <1>4, <1>5, <1>6, <1>7 DEF Next

LEMMA RemoteSearchHolds == Spec => []RemoteSearchInv
<1>1. Init => RemoteSearchInv
  BY FormStarts, SearchStarts DEF Init, RemoteSearchInv
<1> QED BY <1>1, RemoteSearchKeeps, PTL DEF Spec

\* Whatever is typed, chosen and changed in the form while lookups are under way, and in
\* whatever order they are answered, what the search lists is what is asked for now, over the
\* route of now and with the account of now, the details beside a tag are those of its
\* repository, and no manifest of Docker Hub is read for a listing.
THEOREM SearchIsSound == Spec => []Sound
<1>1. RemoteSearchInv => Sound
  BY FormInvSound, SearchInvSound DEF RemoteSearchInv, Sound, TypeOK
<1> QED BY <1>1, RemoteSearchHolds, PTL

\* An account is kept, in the form and in localStorage, with the endpoint it was typed under
\* alone, and nothing is stored for an endpoint whose accounts are not to be remembered.
THEOREM AccountsKeptAsAsked == Spec => []KeptAsAsked
<1>1. RemoteSearchInv => KeptAsAsked
  BY FormInvSound DEF RemoteSearchInv
<1> QED BY <1>1, RemoteSearchHolds, PTL
=============================================================================
