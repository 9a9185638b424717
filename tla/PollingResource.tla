-------------------------- MODULE PollingResource --------------------------
(***************************************************************************)
(* createPollingResource of frontend/src/stores/resource.ts: the store     *)
(* behind a list page.  It shares one read between whoever asks for a      *)
(* refresh, polls while its page is mounted and visible, and counts        *)
(* generations so that the answer of a read that has been overtaken is     *)
(* thrown away.                                                            *)
(*                                                                         *)
(* Each action is one JavaScript event run to its end.  The data is the    *)
(* version of the server's state a read saw; a read sees the server at     *)
(* some moment between its start and its answer.                           *)
(***************************************************************************)
EXTENDS Naturals

CONSTANTS
  MaxVersion,    \* bound: changes of the server's state
  MaxEvents,     \* bound: reads that fail, refreshes by hand, changes of the setting
  LooseRefresh   \* is refresh() also called while no page polls the store?

ASSUME PollingAssumption == MaxVersion \in Nat /\ MaxEvents \in Nat /\ LooseRefresh \in BOOLEAN

VARIABLES
  polling, hidden,   \* polling; document.hidden
  auto,              \* autoRefresh()
  timer,             \* an interval is set
  generation,
  inFlight,          \* the read under way: its requestGeneration and what it saw, or None
  loading,
  shown,             \* version of the value shown
  failed,            \* the last read failed: error is set, or the backend is reported down
  server,            \* version of the server's state
  settled,           \* version the last finished task left behind
  events

storeVars == <<polling, hidden, auto, timer, generation, inFlight, loading, shown, failed, server,
          settled, events>>

None == [gen |-> 0, saw |-> 0]
Unseen == MaxVersion + 1

FlagsTyped ==
  /\ polling \in BOOLEAN /\ hidden \in BOOLEAN /\ auto \in BOOLEAN
  /\ timer \in BOOLEAN /\ loading \in BOOLEAN /\ failed \in BOOLEAN

ReadTyped ==
  /\ generation \in {1, 2}
  /\ inFlight \in {None} \cup [gen : 1..generation, saw : 0..Unseen]

\* Type invariant; nobody has seen more than there is.
StoreTypeOK ==
  /\ FlagsTyped /\ ReadTyped
  /\ server \in 0..MaxVersion /\ shown \in 0..server /\ settled \in 0..server
  /\ inFlight.saw \in 0..server \cup {Unseen}
  /\ events \in 0..MaxEvents

StoreInit ==
  /\ polling = FALSE /\ hidden = FALSE /\ auto \in BOOLEAN /\ timer = FALSE
  /\ generation = 1 /\ inFlight = None /\ loading = FALSE
  /\ shown = 0 /\ failed = FALSE
  /\ server = 0 /\ settled = 0 /\ events = 0

\* Only whether the read under way is of the current generation matters, so the
\* count starts again when no read is.
Overtake ==
  IF inFlight = None THEN UNCHANGED <<generation, inFlight>>
  ELSE generation' = 2 /\ inFlight' = [inFlight EXCEPT !.gen = 1]

\* refresh(), given that a read is under way, or not.
Refresh(busy) ==
  IF busy THEN UNCHANGED <<inFlight, loading, generation>>
  ELSE /\ inFlight' = [gen |-> 1, saw |-> Unseen]
       /\ generation' = 1
       /\ loading' = TRUE

-----------------------------------------------------------------------------
\* startPolling(): a mounted page.
StartPolling ==
  /\ ~polling
  /\ polling' = TRUE
  /\ IF hidden THEN UNCHANGED <<inFlight, loading, generation>> ELSE Refresh(inFlight # None)
  /\ timer' = (timer \/ (~hidden /\ auto))
  /\ UNCHANGED <<hidden, auto, shown, failed, server, settled, events>>

\* stopPolling(): the page is gone, its read is aborted.
StopPolling ==
  /\ polling
  /\ polling' = FALSE /\ timer' = FALSE /\ loading' = FALSE
  /\ Overtake
  /\ UNCHANGED <<hidden, auto, shown, failed, server, settled, events>>

\* onVisibilityChange; nobody listens while no page polls.
Hide ==
  /\ ~hidden /\ hidden' = TRUE
  /\ IF polling THEN timer' = FALSE /\ loading' = FALSE /\ Overtake
     ELSE UNCHANGED <<timer, loading, generation, inFlight>>
  /\ UNCHANGED <<polling, auto, shown, failed, server, settled, events>>

Show ==
  /\ hidden /\ hidden' = FALSE
  /\ IF polling THEN Refresh(inFlight # None) /\ timer' = (timer \/ auto)
     ELSE UNCHANGED <<timer, loading, generation, inFlight>>
  /\ UNCHANGED <<polling, auto, shown, failed, server, settled, events>>

\* onSettled(): the read under way is overtaken, refresh() shares it all the
\* same, and its end asks again.
OnSettled ==
  IF ~polling THEN UNCHANGED <<timer, loading, generation, inFlight>>
  ELSE /\ timer' = (~hidden /\ auto')
       /\ IF inFlight = None /\ ~hidden THEN Refresh(FALSE) ELSE Overtake /\ UNCHANGED loading

\* Some task changes the server's state, and later its request settles.
Change ==
  /\ server < MaxVersion /\ server' = server + 1
  /\ UNCHANGED <<polling, hidden, auto, timer, generation, inFlight, loading, shown, failed,
                 settled, events>>

TaskSettles ==
  /\ settled < server /\ settled' = server
  /\ UNCHANGED auto /\ OnSettled
  /\ UNCHANGED <<polling, hidden, shown, failed, server, events>>

\* REFRESH_EVENT: the setting changes, or the user refreshes everything.
Setting ==
  /\ events < MaxEvents /\ events' = events + 1
  /\ auto' \in BOOLEAN /\ OnSettled
  /\ UNCHANGED <<polling, hidden, shown, failed, server, settled>>

\* The interval fires.
TimerFires ==
  /\ timer /\ ~hidden /\ inFlight = None
  /\ Refresh(FALSE)
  /\ UNCHANGED <<polling, hidden, auto, timer, shown, failed, server, settled, events>>

\* A page refreshes the store itself, after its own task.
ByHand ==
  /\ polling \/ LooseRefresh
  /\ inFlight = None /\ events < MaxEvents /\ events' = events + 1
  /\ Refresh(FALSE)
  /\ UNCHANGED <<polling, hidden, auto, timer, shown, failed, server, settled>>

\* The server answers the read with its state at this moment.
Served ==
  /\ inFlight # None /\ inFlight.saw = Unseen
  /\ inFlight' = [inFlight EXCEPT !.saw = server]
  /\ UNCHANGED <<polling, hidden, auto, timer, generation, loading, shown, failed, server, settled,
                 events>>

Current == inFlight.gen = generation

\* Mutant: the end of an overtaken read does not ask again.
FinallyOnce ==
  /\ inFlight' = None /\ generation' = 1
  /\ loading' = (loading /\ ~Current)

\* The finally block: an overtaken read is read again while its page wants it.
Finally ==
  IF ~Current /\ polling /\ ~hidden THEN Refresh(FALSE)
  ELSE /\ inFlight' = None /\ generation' = 1
       /\ loading' = (loading /\ ~Current)

Answered ==
  /\ inFlight # None /\ inFlight.saw # Unseen
  /\ IF Current THEN shown' = inFlight.saw /\ failed' = FALSE ELSE UNCHANGED <<shown, failed>>
  /\ Finally
  /\ UNCHANGED <<polling, hidden, auto, timer, server, settled, events>>

\* The read fails or has been aborted.
Failed ==
  /\ inFlight # None
  /\ ~Current \/ events < MaxEvents
  /\ events' = IF Current THEN events + 1 ELSE events
  /\ failed' = (failed \/ Current)
  /\ Finally
  /\ UNCHANGED <<polling, hidden, auto, timer, shown, server, settled>>

StoreNext ==
  \/ StartPolling \/ StopPolling \/ Hide \/ Show \/ Change \/ TaskSettles \/ Setting
  \/ TimerFires \/ ByHand \/ Served \/ Answered \/ Failed

StoreSpec == StoreInit /\ [][StoreNext]_storeVars

\* Reads are answered.
FairStoreSpec == StoreSpec /\ WF_storeVars(Served) /\ WF_storeVars(Answered)

-----------------------------------------------------------------------------
Watched == polling /\ ~hidden

\* "A completed mutation invalidates a read that started before it"
\* (onSettled): what replaces the value shown has seen every task that had
\* settled by then.
NeverAppliesStale == [][shown' # shown => shown' >= settled]_storeVars

\* A page somebody looks at, with no read under way and its last read not
\* failed, shows the effect of every settled task: the events that overtake a
\* read (a task settles, the page is hidden and shown, left and mounted again)
\* never cancel the one refresh that would have brought it.
ShowsSettled == Watched /\ inFlight = None /\ ~failed => shown >= settled

\* The fallback poll runs exactly while it should, through every order of page
\* changes, visibility changes and changes of the setting.
TimerRight == timer <=> Watched /\ auto

\* The spinner of a page somebody looks at is on only while a read is under way.
SpinnerEnds == Watched /\ loading => inFlight # None

\* The effect of a settled task reaches the page, if the page stays watched and
\* reads do not fail.
SettledIsShown ==
  \A v \in 1..MaxVersion :
    settled >= v ~> (shown >= v \/ ~Watched \/ failed)
=============================================================================
