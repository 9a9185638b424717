-------------------------- MODULE AutoUpdateProofs --------------------------
(***************************************************************************)
(* Proofs about AutoUpdate, for any number of policies, runtimes and any   *)
(* time limits: the state keeps its types, what config.json says of a run  *)
(* is true, a Runner never oversleeps a policy, and it starts a policy     *)
(* once per trigger.                                                       *)
(*                                                                         *)
(* Most of the argument is about time: a policy's next trigger never moves *)
(* forward but by an edit, which wakes the Runner up; what a Runner read   *)
(* before a record was written is therefore early enough.                  *)
(***************************************************************************)
EXTENDS AutoUpdate, WellFoundedInduction, TLAPS

-----------------------------------------------------------------------------
\* The inductive invariant.

\* A Runner has a run only while it waits for it, and a run names its policy.
RunsOwned ==
  /\ \A k \in Runs : run[k].id = 0 <=> run[k].pc = "none"
  /\ \A r \in Runtime : loop[r].pc # "busy" => run[r].pc = "none"

\* Nothing was saved, run or started later than now, and no request came with a
\* runtime that is not current yet.
Past ==
  /\ \A i \in Id : policies[i] # Nothing => policies[i].updatedAt <= now /\ policies[i].lastRunAt <= now
  /\ \A r \in Runtime, i \in Id : started[r][i] <= now
  /\ api.runtime <= current

\* A Runner that relies on what it has read: nobody has told it, or is about to tell
\* it, of a change.
Relies(r) == ~Cancelled(r) /\ r \notin wake /\ api.step # "wake" /\ ~loop[r].missed

\* What a Runner has read triggers no later than what is stored by now.
ReadIsEarly ==
  ~scope.storeFails => \A r \in Runtime :
    loop[r].pc = "tick" /\ Relies(r) =>
      \A i \in Enabled(policies) :
        /\ i \in Enabled(loop[r].read)
        /\ Due(Seen(r, i, loop[r].read[i])) <= Due(Seen(r, i, policies[i]))

AutoInv == TypeOK /\ RunsOwned /\ Past /\ RunningIsReal /\ ReadIsEarly /\ SleepsUntilDue

-----------------------------------------------------------------------------
\* Facts about numbers.

\* A non-empty set of naturals has a least member.
LEMMA LeastOf ==
  ASSUME NEW S \in SUBSET Nat, S # {}
  PROVE  Min(S) \in S /\ \A x \in S : Min(S) <= x
<1>1. PICK x \in S : \A y \in S : ~(<<y, x>> \in OpToRel(<, Nat))
  BY NatLessThanWellFounded, WFMin, Zenon
<1>2. \A y \in S : x <= y
  <2> TAKE y \in S
  <2>1. ~(<<y, x>> \in OpToRel(<, Nat))
    BY <1>1
  <2>2. x \in Nat /\ y \in Nat
    OBVIOUS
  <2>3. ~(y < x)
    BY <2>1, <2>2 DEF OpToRel
  <2> QED BY <2>2, <2>3
<1> QED BY <1>2 DEF Min

\* The greater of two naturals.
LEMMA GreaterOf ==
  ASSUME NEW a \in Nat, NEW b \in Nat
  PROVE  /\ Max({a, b}) \in {a, b} /\ Max({a, b}) \in Nat
         /\ a <= Max({a, b}) /\ b <= Max({a, b})
<1>1. \E x \in {a, b} : \A y \in {a, b} : x >= y
  <2>1. CASE a >= b
    BY <2>1
  <2>2. CASE ~(a >= b)
    BY <2>2
  <2> QED BY <2>1, <2>2
<1>2. Max({a, b}) \in {a, b} /\ \A y \in {a, b} : Max({a, b}) >= y
  BY <1>1 DEF Max
<1> QED BY <1>2

LEMMA GreaterGrows ==
  ASSUME NEW a \in Nat, NEW b \in Nat, NEW c \in Nat, NEW d \in Nat, a <= c, b <= d
  PROVE  Max({a, b}) <= Max({c, d})
<1>1. Max({a, b}) \in {a, b} /\ Max({c, d}) \in Nat /\ c <= Max({c, d}) /\ d <= Max({c, d})
  BY GreaterOf
<1>2. CASE Max({a, b}) = a
  BY <1>1, <1>2
<1>3. CASE Max({a, b}) = b
  BY <1>1, <1>3
<1> QED BY <1>1, <1>2, <1>3

\* Rounding down, and up to the next multiple, keep an order.
LEMMA RoundsDown == \A a \in Nat, e \in Nat \ {0} : a \div e \in Nat
OBVIOUS

LEMMA RoundingGrows == \A a, b \in Nat, e \in Nat \ {0} : a <= b => a \div e <= b \div e
OBVIOUS

LEMMA MultipleGrows == \A a, b \in Nat, e \in Nat \ {0} : a <= b => (a + 1) * e <= (b + 1) * e
OBVIOUS

LEMMA MultipleIsNat == \A a \in Nat, e \in Nat \ {0} : (a + 1) * e \in Nat
OBVIOUS

Schedule == [kind : {"hours", "clock"}, every : Nat \ {0}]

\* A later start never makes for an earlier trigger.
LEMMA TriggerGrows ==
  ASSUME NEW s \in Schedule, NEW a \in Nat, NEW b \in Nat, a <= b
  PROVE  /\ NextTrigger(s, a) \in Nat /\ NextTrigger(s, b) \in Nat
         /\ NextTrigger(s, a) <= NextTrigger(s, b)
<1>1. s.every \in Nat \ {0}
  BY DEF Schedule
<1>2. PICK e \in Nat \ {0} : e = s.every
  BY <1>1
<1>3. CASE s.kind = "hours"
  BY <1>2, <1>3 DEF NextTrigger
<1>4. CASE s.kind # "hours"
  <2>1. NextTrigger(s, a) = (a \div e + 1) * e /\ NextTrigger(s, b) = (b \div e + 1) * e
    BY <1>2, <1>4 DEF NextTrigger
  <2>2. a \div e \in Nat /\ b \div e \in Nat /\ a \div e <= b \div e
    BY RoundsDown, RoundingGrows
  <2>3. PICK m \in Nat, n \in Nat : m = a \div e /\ n = b \div e
    BY <2>2
  <2>4. (m + 1) * e <= (n + 1) * e
    BY <2>2, <2>3, MultipleGrows
  <2>5. (m + 1) * e \in Nat /\ (n + 1) * e \in Nat
    BY MultipleIsNat
  <2> QED BY <2>1, <2>3, <2>4, <2>5
<1> QED BY <1>3, <1>4

-----------------------------------------------------------------------------
\* Facts about policies.

\* What the properties rest on about a policy that is there.
LEMMA PolicyIs ==
  ASSUME NEW p \in Policy
  PROVE  /\ p.settings.enabled \in BOOLEAN /\ p.settings.schedule \in Schedule
         /\ p.updatedAt \in Nat /\ p.lastRunAt \in Nat
         /\ p.updatedAt \in Time /\ p.lastRunAt \in Time
<1>1. p.settings \in Settings /\ p.updatedAt \in Time /\ p.lastRunAt \in Time
  BY DEF Policy
<1>2. Settings \subseteq [enabled : BOOLEAN, schedule : Schedule]
  BY AutoUpdateAssumption DEF Schedule
<1>3. p.settings \in [enabled : BOOLEAN, schedule : Schedule]
  BY <1>1, <1>2
<1>4. Time \subseteq Nat
  BY AutoUpdateAssumption DEF Time
<1> QED BY <1>1, <1>3, <1>4

\* When a Runner takes a policy to be due: never before a policy of the same schedule
\* that was saved and run no later.
LEMMA DueGrows ==
  ASSUME NEW p \in Policy, NEW q \in Policy, NEW r, NEW i, started[r][i] \in Nat,
         p.settings = q.settings, p.updatedAt <= q.updatedAt, p.lastRunAt <= q.lastRunAt
  PROVE  /\ Due(Seen(r, i, p)) \in Nat /\ Due(Seen(r, i, q)) \in Nat
         /\ Due(Seen(r, i, p)) <= Due(Seen(r, i, q))
<1> DEFINE n(x) == Max({x.lastRunAt, started[r][i]})
<1> DEFINE after(x) == Max({x.updatedAt, n(x)})
<1>1. ASSUME NEW x \in Policy
      PROVE  n(x) \in Nat /\ after(x) \in Nat
             /\ Due(Seen(r, i, x)) = NextTrigger(x.settings.schedule, after(x))
  <2>1. x.lastRunAt \in Nat /\ x.updatedAt \in Nat
    BY PolicyIs
  <2>2. n(x) \in Nat
    BY <2>1, GreaterOf
  <2>3. after(x) \in Nat
    BY <2>1, <2>2, GreaterOf
  <2>4. /\ Seen(r, i, x).settings = x.settings /\ Seen(r, i, x).updatedAt = x.updatedAt
        /\ Seen(r, i, x).lastRunAt = n(x)
    BY DEF Seen, Policy
  <2>5. Due(Seen(r, i, x)) = NextTrigger(x.settings.schedule, after(x))
    BY <2>4 DEF Due
  <2> QED BY <2>2, <2>3, <2>5
<1>2. /\ p.lastRunAt \in Nat /\ p.updatedAt \in Nat /\ q.lastRunAt \in Nat /\ q.updatedAt \in Nat
      /\ p.settings.schedule \in Schedule
  BY PolicyIs
<1>3. n(p) <= n(q) /\ n(p) \in Nat /\ n(q) \in Nat
  <2>1. PICK a \in Nat, b \in Nat, c \in Nat : a = p.lastRunAt /\ b = q.lastRunAt /\ c = started[r][i]
    BY <1>2
  <2>2. Max({a, c}) <= Max({b, c})
    BY <1>2, <2>1, GreaterGrows
  <2> QED BY <1>1, <2>1, <2>2
<1>4. after(p) <= after(q) /\ after(p) \in Nat /\ after(q) \in Nat
  <2>1. PICK a \in Nat, b \in Nat, c \in Nat, d \in Nat :
               a = p.updatedAt /\ b = q.updatedAt /\ c = n(p) /\ d = n(q)
    BY <1>2, <1>3
  <2>2. Max({a, c}) <= Max({b, d})
    BY <1>2, <1>3, <2>1, GreaterGrows
  <2> QED BY <1>1, <2>1, <2>2
<1>5. PICK a \in Nat, b \in Nat : a = after(p) /\ b = after(q)
  BY <1>4
<1>6. a <= b
  BY <1>4, <1>5
<1>7. /\ Due(Seen(r, i, p)) = NextTrigger(p.settings.schedule, a)
      /\ Due(Seen(r, i, q)) = NextTrigger(p.settings.schedule, b)
  BY <1>1, <1>5
<1> HIDE DEF n, after
<1> QED BY <1>2, <1>6, <1>7, TriggerGrows

-----------------------------------------------------------------------------
\* What the steps do to config.json.

\* What is left of the policies goes on from what it was: its settings and the time
\* it was saved are kept, and it was run no earlier.
Onward ==
  /\ policies' \in [Id -> Policy \cup {Nothing}]
  /\ \A i \in Id : policies'[i] # Nothing =>
       /\ policies[i] # Nothing
       /\ policies'[i].settings = policies[i].settings
       /\ policies'[i].updatedAt = policies[i].updatedAt
       /\ policies[i].lastRunAt <= policies'[i].lastRunAt
       /\ policies'[i].lastRunAt <= now

LEMMA NumbersAreNat ==
  /\ MaxPolicies \in Nat \ {0} /\ MaxRuntimes \in Nat \ {0} /\ MaxTime \in Nat \ {0}
  /\ MaxSleep \in Nat \ {0} /\ Retry \in Nat \ {0}
  /\ Id \subseteq Nat /\ Runtime \subseteq Nat /\ Time \subseteq Nat /\ Runs \subseteq Nat
  /\ 0 \in Time /\ 0 \notin Id
  /\ Runtime \subseteq Runs /\ Manual \in Runs /\ Manual \notin Runtime
BY AutoUpdateAssumption DEF Id, Runtime, Time, Runs, Manual

LEMMA StartedIs ==
  ASSUME TypeOK, NEW r \in Runtime, NEW i \in Id
  PROVE  started[r][i] \in Time /\ started[r][i] \in Nat
<1>1. started \in [Runtime -> [Id -> Time]]
  BY DEF TypeOK
<1>2. started[r][i] \in Time
  BY <1>1
<1> QED BY <1>2, NumbersAreNat

\* A write of a record changes one policy that is there, and without failures it does.
LEMMA RecordIs ==
  ASSUME TypeOK, NEW i \in Id, NEW p, policies[i] # Nothing => p \in Policy, Record(i, p)
  PROVE  /\ policies' \in [Id -> Policy \cup {Nothing}]
         /\ \A j \in Id : j # i => policies'[j] = policies[j]
         /\ policies[i] = Nothing => policies'[i] = Nothing
         /\ policies'[i] # Nothing => policies[i] # Nothing /\ policies'[i] \in {policies[i], p}
         /\ ~scope.storeFails => policies'[i] = IF policies[i] = Nothing THEN Nothing ELSE p
<1>1. policies \in [Id -> Policy \cup {Nothing}]
  BY DEF TypeOK
<1>2. \/ policies' = policies /\ (policies[i] # Nothing => scope.storeFails)
      \/ policies[i] # Nothing /\ policies' = [policies EXCEPT ![i] = p]
  BY DEF Record, Write, Writes
<1>3. CASE policies' = policies /\ (policies[i] # Nothing => scope.storeFails)
  BY <1>1, <1>3
<1>4. CASE policies[i] # Nothing /\ policies' = [policies EXCEPT ![i] = p]
  BY <1>1, <1>4
<1> QED BY <1>2, <1>3, <1>4

\* The records of a run.
LEMMA RunRecords ==
  ASSUME TypeOK, RunsOwned, Past, NEW k \in Runs, RunStep(k)
  PROVE  \E i \in Id :
           /\ run[k].id = i /\ Onward
           /\ \A j \in Id : j # i => policies'[j] = policies[j]
           /\ ~scope.storeFails /\ policies'[i] # Nothing =>
                \/ /\ run[k].pc = "begin"
                   /\ policies'[i].lastUpdate = policies[i].lastUpdate
                   /\ run' = [run EXCEPT ![k].pc = "check"]
                \/ /\ run[k].pc = "check" /\ run' = [run EXCEPT ![k].pc = "update"]
                   /\ policies'[i].lastStatus = policies[i].lastStatus
                \/ /\ policies'[i].lastStatus = "ended"
                   /\ policies'[i].lastUpdate = "ended" \/ /\ run[k].pc = "check"
                                                           /\ policies'[i].lastUpdate = policies[i].lastUpdate
                   /\ run' = [run EXCEPT ![k] = NoRun]
<1>1. run[k].pc # "none" /\ run[k].id \in Id \cup {0}
  BY DEF RunStep, Begin, Attempt, Finish, TypeOK
<1>2. PICK i \in Id : i = run[k].id
  BY <1>1, NumbersAreNat DEF RunsOwned
<1>3. policies[i] \in Policy \cup {Nothing} /\ now \in Time /\ policies \in [Id -> Policy \cup {Nothing}]
  BY DEF TypeOK
<1>4. policies[i] # Nothing =>
        /\ policies[i].lastRunAt <= now /\ policies[i].updatedAt <= now
        /\ policies[i].lastRunAt \in Nat
  BY <1>3, PolicyIs DEF Past
<1>5. \A j \in Id : policies[j] # Nothing => policies[j].lastRunAt <= now /\ policies[j].lastRunAt \in Nat
  BY <1>3, PolicyIs DEF Past
<1>6. ASSUME NEW p, policies[i] # Nothing => p \in Policy /\ p.settings = policies[i].settings
               /\ p.updatedAt = policies[i].updatedAt /\ p.lastRunAt \in {policies[i].lastRunAt, now},
             Record(i, p)
      PROVE  Onward /\ (\A j \in Id : j # i => policies'[j] = policies[j])
             /\ (~scope.storeFails /\ policies'[i] # Nothing => policies[i] # Nothing /\ policies'[i] = p)
  <2>1. /\ policies' \in [Id -> Policy \cup {Nothing}]
        /\ \A j \in Id : j # i => policies'[j] = policies[j]
        /\ policies'[i] # Nothing => policies[i] # Nothing /\ policies'[i] \in {policies[i], p}
        /\ ~scope.storeFails => policies'[i] = IF policies[i] = Nothing THEN Nothing ELSE p
    BY <1>6, RecordIs
  <2>2. now \in Nat
    BY <1>3, NumbersAreNat
  <2> QED BY <1>4, <1>5, <1>6, <2>1, <2>2 DEF Onward
<1>7. CASE Begin(k)
  <2> DEFINE p == [policies[i] EXCEPT !.lastRunAt = now, !.lastStatus = "running"]
  <2>1. policies[i] # Nothing => p \in Policy /\ p.settings = policies[i].settings
          /\ p.updatedAt = policies[i].updatedAt /\ p.lastRunAt = now
          /\ p.lastUpdate = policies[i].lastUpdate
    BY <1>3 DEF Policy, Outcome
  <2>2. Record(i, p) /\ run[k].pc = "begin" /\ run' = [run EXCEPT ![k].pc = "check"]
    BY <1>2, <1>7 DEF Begin
  <2> HIDE DEF p
  <2> QED BY <1>2, <1>6, <2>1, <2>2
<1>8. CASE Attempt(k)
  <2> DEFINE p == [policies[i] EXCEPT !.lastUpdate = "running"]
  <2>1. policies[i] # Nothing => p \in Policy /\ p.settings = policies[i].settings
          /\ p.updatedAt = policies[i].updatedAt /\ p.lastRunAt = policies[i].lastRunAt
          /\ p.lastStatus = policies[i].lastStatus
    BY <1>3 DEF Policy, Outcome
  <2>2. Record(i, p) /\ run[k].pc = "check" /\ run' = [run EXCEPT ![k].pc = "update"]
    BY <1>2, <1>8 DEF Attempt
  <2> HIDE DEF p
  <2> QED BY <1>2, <1>6, <2>1, <2>2
<1>9. CASE Finish(k)
  <2> DEFINE p == [policies[i] EXCEPT !.lastStatus = "ended",
                     !.lastUpdate = IF run[k].pc = "update" THEN "ended" ELSE @]
  <2>1. policies[i] # Nothing => p \in Policy /\ p.settings = policies[i].settings
          /\ p.updatedAt = policies[i].updatedAt /\ p.lastRunAt = policies[i].lastRunAt
          /\ p.lastStatus = "ended"
          /\ p.lastUpdate = IF run[k].pc = "update" THEN "ended" ELSE policies[i].lastUpdate
    BY <1>3 DEF Policy, Outcome
  <2>2. Record(i, p) /\ run[k].pc \in {"check", "update"} /\ run' = [run EXCEPT ![k] = NoRun]
    BY <1>2, <1>9 DEF Finish
  <2> HIDE DEF p
  <2> QED BY <1>2, <1>6, <2>1, <2>2
<1> QED BY <1>7, <1>8, <1>9 DEF RunStep

\* A new process and a new runtime only mark what was under way.
LEMMA MarkingGoesOn ==
  ASSUME TypeOK, Past, NEW result \in Writes, Write(result, Interrupted(policies))
  PROVE  /\ Onward
         /\ ~scope.storeFails => \A i \in Id : policies'[i] # Nothing =>
              policies'[i].lastStatus # "running" /\ policies'[i].lastUpdate # "running"
<1>1. policies \in [Id -> Policy \cup {Nothing}] /\ now \in Nat
  BY NumbersAreNat DEF TypeOK
<1>2. \A i \in Id : policies[i] # Nothing => policies[i] \in Policy
  BY <1>1
<1>3. \A i \in Id : policies[i] # Nothing => policies[i].lastRunAt <= now /\ policies[i].lastRunAt \in Nat
  BY <1>2, PolicyIs DEF Past
<1>4. CASE policies' = policies /\ scope.storeFails
  BY <1>1, <1>3, <1>4 DEF Onward
<1>5. CASE policies' = Interrupted(policies)
  <2> SUFFICES ASSUME NEW i \in Id
               PROVE  /\ policies'[i] \in Policy \cup {Nothing}
                      /\ policies'[i] # Nothing =>
                           /\ policies[i] # Nothing
                           /\ policies'[i].settings = policies[i].settings
                           /\ policies'[i].updatedAt = policies[i].updatedAt
                           /\ policies'[i].lastRunAt = policies[i].lastRunAt
                           /\ policies'[i].lastStatus # "running" /\ policies'[i].lastUpdate # "running"
    <3>1. policies' = [j \in Id |-> policies'[j]]
      BY <1>5 DEF Interrupted
    <3> QED BY <3>1, <1>3 DEF Onward
  <2>1. CASE policies[i] = Nothing
    BY <1>5, <2>1 DEF Interrupted
  <2>2. CASE policies[i] # Nothing
    <3>1. policies[i] \in Policy
      BY <1>2, <2>2
    <3>2. policies'[i] = [policies[i] EXCEPT
                            !.lastStatus = IF @ = "running" THEN "interrupted" ELSE @,
                            !.lastUpdate = IF @ = "running" THEN "interrupted" ELSE @]
      BY <1>5, <2>2 DEF Interrupted
    <3> QED BY <2>2, <3>1, <3>2 DEF Policy, Outcome
  <2> QED BY <2>1, <2>2
<1> QED BY <1>4, <1>5 DEF Write, Writes

-----------------------------------------------------------------------------
\* The state stays in its types.

\* The scope in use is within the bounds.
LEMMA ScopeIs ==
  ASSUME TypeOK
  PROVE  /\ scope.targets \subseteq Target /\ scope.settings \subseteq Settings
         /\ scope.policies \in 1..MaxPolicies /\ scope.runtimes \in 1..MaxRuntimes
         /\ scope.time \in 1..MaxTime
         /\ scope.userRuns \in BOOLEAN /\ scope.storeFails \in BOOLEAN
<1>1. scope \in [targets : SUBSET Target, settings : SUBSET Settings,
                 policies : 1..MaxPolicies, runtimes : 1..MaxRuntimes, time : 1..MaxTime,
                 userRuns : BOOLEAN, storeFails : BOOLEAN]
  BY AutoUpdateAssumption DEF TypeOK
<1> QED BY <1>1

\* The states a Runner is put into.
LEMMA RunnerStates ==
  ASSUME TypeOK, NEW pc \in {"off", "asleep", "tick", "busy", "over"},
         NEW deadline \in 0..(MaxTime + MaxSleep + Retry), NEW missed \in BOOLEAN
  PROVE  /\ [Off EXCEPT !.pc = pc] \in RunnerState
         /\ [Off EXCEPT !.pc = pc, !.deadline = deadline] \in RunnerState
         /\ [Off EXCEPT !.pc = pc, !.missed = missed, !.deadline = deadline] \in RunnerState
         /\ Off \in RunnerState
<1>1. [i \in Id |-> Nothing] \in [Id -> Policy \cup {Nothing}]
  OBVIOUS
<1>2. 0 \in 0..(MaxTime + MaxSleep + Retry)
  BY NumbersAreNat
<1> QED BY <1>1, <1>2 DEF Off, RunnerState

\* The states of a request that nothing or only the waking up is left of.
LEMMA RequestStates ==
  ASSUME NEW r \in Runtime
  PROVE  /\ Done \in [step : {"done", "follow", "wake"}, runtime : Runtime,
                    from : Target \cup {"nothing"}, to : Target \cup {"nothing"}]
         /\ [Done EXCEPT !.step = "wake", !.runtime = r] \in
              [step : {"done", "follow", "wake"}, runtime : Runtime,
               from : Target \cup {"nothing"}, to : Target \cup {"nothing"}]
<1>1. 1 \in Runtime
  BY NumbersAreNat DEF Runtime
<1> QED BY <1>1 DEF Done

\* How long a Runner sleeps, when nothing is due that it has read.
LEMMA SleepIs ==
  ASSUME TypeOK, NEW r \in Runtime, NEW ps \in [Id -> Policy \cup {Nothing}], DueNow(r, ps) = {}
  PROVE  /\ Sleep(r, ps) \in Nat /\ Sleep(r, ps) <= MaxSleep
         /\ \A i \in Enabled(ps) : /\ Due(Seen(r, i, ps[i])) \in Nat
                                   /\ now + Sleep(r, ps) <= Due(Seen(r, i, ps[i]))
<1> DEFINE S == {MaxSleep} \cup {Due(Seen(r, i, ps[i])) - now : i \in Enabled(ps)}
<1>1. now \in Nat
  BY NumbersAreNat DEF TypeOK
<1>2. \A i \in Enabled(ps) : Due(Seen(r, i, ps[i])) \in Nat /\ Due(Seen(r, i, ps[i])) - now \in Nat
  <2> TAKE i \in Enabled(ps)
  <2>1. i \in Id /\ ps[i] \in Policy
    BY DEF Enabled
  <2>2. started[r][i] \in Nat
    BY <2>1, StartedIs
  <2>3. Due(Seen(r, i, ps[i])) \in Nat
    <3>1. PICK p \in Policy : p = ps[i]
      BY <2>1
    <3>2. p.updatedAt <= p.updatedAt /\ p.lastRunAt <= p.lastRunAt
      BY PolicyIs
    <3>3. Due(Seen(r, i, p)) \in Nat
      BY <2>2, <3>2, DueGrows
    <3> QED BY <3>1, <3>3
  <2>4. ~(Due(Seen(r, i, ps[i])) <= now)
    BY DEF DueNow
  <2> QED BY <1>1, <2>3, <2>4
<1>3. S \in SUBSET Nat /\ MaxSleep \in S
  BY <1>2, NumbersAreNat
<1>4. \A i \in Enabled(ps) : Due(Seen(r, i, ps[i])) - now \in S
  OBVIOUS
<1>5. Sleep(r, ps) = Min(S)
  BY DEF Sleep
<1> HIDE DEF S
<1>6. Min(S) \in S /\ \A x \in S : Min(S) <= x
  BY <1>3, LeastOf
<1>7. \A i \in Enabled(ps) : Sleep(r, ps) <= Due(Seen(r, i, ps[i])) - now
  BY <1>4, <1>5, <1>6
<1>8. Sleep(r, ps) \in Nat /\ Sleep(r, ps) <= MaxSleep
  BY <1>3, <1>5, <1>6
<1>9. \A d \in Nat, t \in Nat, s \in Nat : s <= d - t => t + s <= d
  OBVIOUS
<1> QED BY <1>1, <1>2, <1>7, <1>8, <1>9

\* The first policy that is due.
LEMMA DueIs ==
  ASSUME NEW r, NEW ps, DueNow(r, ps) # {}
  PROVE  Min(DueNow(r, ps)) \in DueNow(r, ps) /\ Min(DueNow(r, ps)) \in Id
<1>1. DueNow(r, ps) \subseteq Id
  BY DEF DueNow, Enabled
<1> QED BY <1>1, LeastOf, NumbersAreNat

LEMMA RunnerTypes ==
  ASSUME TypeOK, NEW r \in Runtime, Runner(r), UNCHANGED scope
  PROVE  TypeOK'
<1>1. /\ loop \in [Runtime -> RunnerState] /\ loop[r] \in RunnerState /\ now \in 0..MaxTime
      /\ policies \in [Id -> Policy \cup {Nothing}] /\ started \in [Runtime -> [Id -> Time]]
      /\ newest \in Runtime
  BY DEF TypeOK, Time
<1>2. now \in 0..(MaxTime + MaxSleep + Retry) /\ now + Retry \in 0..(MaxTime + MaxSleep + Retry)
  BY <1>1, NumbersAreNat
<1>3. ASSUME NEW x \in RunnerState, loop' = [loop EXCEPT ![r] = x], loop[r].pc # "off", x.pc # "off"
      PROVE  /\ loop' \in [Runtime -> RunnerState]
             /\ newest' = newest => \A q \in Runtime : loop'[q].pc = "off" <=> q > newest'
  <2>1. \A q \in Runtime : loop[q].pc = "off" <=> q > newest
    BY DEF TypeOK
  <2> QED BY <1>1, <1>3, <2>1
<1>4. CASE Awake(r)
  <2>1. loop[r].pc = "asleep" /\ wake' \subseteq wake
        /\ UNCHANGED <<now, policies, nextId, shown, current, newest, started, run, api>>
    BY <1>4 DEF Awake
  <2>2. \E x \in RunnerState : loop' = [loop EXCEPT ![r] = x] /\ x.pc # "off"
    <3>1. CASE loop' = [loop EXCEPT ![r] = [@ EXCEPT !.pc = "tick", !.read = policies, !.missed = FALSE]]
      <4>1. [loop[r] EXCEPT !.pc = "tick", !.read = policies, !.missed = FALSE] \in RunnerState
        BY <1>1 DEF RunnerState
      <4> QED BY <3>1, <4>1, <1>1 DEF RunnerState
    <3>2. CASE loop' = [loop EXCEPT ![r].deadline = now + Retry]
      <4>1. [loop[r] EXCEPT !.deadline = now + Retry] \in RunnerState
        BY <1>1, <1>2 DEF RunnerState
      <4> QED BY <3>2, <4>1, <1>1, <2>1 DEF RunnerState
    <3> QED BY <1>4, <3>1, <3>2 DEF Awake
  <2>3. PICK x \in RunnerState : loop' = [loop EXCEPT ![r] = x] /\ x.pc # "off"
    BY <2>2
  <2>4. /\ loop' \in [Runtime -> RunnerState]
        /\ \A q \in Runtime : loop'[q].pc = "off" <=> q > newest'
    BY <1>3, <2>1, <2>3
  <2> QED BY <2>1, <2>4 DEF TypeOK
<1>5. CASE Tick(r)
  <2> DEFINE read == loop[r].read
  <2>1. loop[r].pc = "tick" /\ UNCHANGED <<now, policies, nextId, shown, current, newest, wake, api>>
    BY <1>5 DEF Tick
  <2>2. read \in [Id -> Policy \cup {Nothing}] /\ loop[r].missed \in BOOLEAN
    BY <1>1 DEF RunnerState
  <2>3. CASE Cancelled(r) \/ DueNow(r, read) = {}
    <3> DEFINE d == now + (IF Cancelled(r) THEN MaxSleep ELSE Sleep(r, read))
    <3>1. d \in 0..(MaxTime + MaxSleep + Retry)
      <4>1. CASE Cancelled(r)
        BY <4>1, <1>1, NumbersAreNat
      <4>2. CASE ~Cancelled(r)
        <5>1. Sleep(r, read) \in Nat /\ Sleep(r, read) <= MaxSleep
          BY <2>2, <2>3, <4>2, SleepIs
        <5>2. d = now + Sleep(r, read)
          BY <4>2
        <5> HIDE DEF read, d
        <5>3. PICK n \in Nat : n = Sleep(r, read) /\ n <= MaxSleep
          BY <5>1
        <5> QED BY <5>2, <5>3, <1>1, NumbersAreNat
      <4> QED BY <4>1, <4>2
    <3>2. /\ loop' = [loop EXCEPT ![r] =
               [Off EXCEPT !.pc = "asleep", !.missed = loop[r].missed, !.deadline = d]]
          /\ UNCHANGED <<started, run>>
      BY <1>5, <2>3 DEF Tick
    <3> HIDE DEF d
    <3>3. [Off EXCEPT !.pc = "asleep", !.missed = loop[r].missed, !.deadline = d] \in RunnerState
      BY <2>2, <3>1, RunnerStates
    <3>4. [Off EXCEPT !.pc = "asleep", !.missed = loop[r].missed, !.deadline = d].pc # "off"
      BY DEF Off
    <3>5. /\ loop' \in [Runtime -> RunnerState]
          /\ \A q \in Runtime : loop'[q].pc = "off" <=> q > newest'
      BY <1>3, <2>1, <3>2, <3>3, <3>4
    <3> QED BY <2>1, <3>2, <3>5 DEF TypeOK
  <2>4. CASE ~(Cancelled(r) \/ DueNow(r, read) = {})
    <3> DEFINE m == Min(DueNow(r, read))
    <3>1. m \in Id
      BY <2>4, DueIs
    <3>2. /\ started' = [started EXCEPT ![r][m] = now]
          /\ run' = [run EXCEPT ![r] = [pc |-> "begin", id |-> m]]
          /\ loop' = [loop EXCEPT ![r] = [Off EXCEPT !.pc = "busy"]]
      BY <1>5, <2>4 DEF Tick
    <3> HIDE DEF m
    <3>3. [Off EXCEPT !.pc = "busy"] \in RunnerState /\ [Off EXCEPT !.pc = "busy"].pc # "off"
      BY <1>2, RunnerStates DEF Off
    <3>4. /\ loop' \in [Runtime -> RunnerState]
          /\ \A q \in Runtime : loop'[q].pc = "off" <=> q > newest'
      BY <1>3, <2>1, <3>2, <3>3
    <3>5. started' \in [Runtime -> [Id -> Time]]
      BY <1>1, <3>1, <3>2 DEF Time
    <3>6. run' \in [Runs -> [pc : {"none", "begin", "check", "update"}, id : Id \cup {0}]]
      BY <3>1, <3>2 DEF TypeOK
    <3> QED BY <2>1, <3>4, <3>5, <3>6 DEF TypeOK
  <2> QED BY <2>3, <2>4
<1>6. CASE TickAgain(r)
  <2>1. /\ loop[r].pc = "busy" /\ loop' = [loop EXCEPT ![r] = [Off EXCEPT !.pc = "asleep", !.deadline = now]]
        /\ UNCHANGED <<now, policies, nextId, shown, current, newest, wake, started, run, api>>
    BY <1>6 DEF TickAgain
  <2>2. /\ [Off EXCEPT !.pc = "asleep", !.deadline = now] \in RunnerState
        /\ [Off EXCEPT !.pc = "asleep", !.deadline = now].pc # "off"
    BY <1>2, RunnerStates DEF Off
  <2>3. /\ loop' \in [Runtime -> RunnerState]
        /\ \A q \in Runtime : loop'[q].pc = "off" <=> q > newest'
    BY <1>3, <2>1, <2>2
  <2> QED BY <2>1, <2>3 DEF TypeOK
<1>7. CASE LoopEnds(r)
  <2>1. /\ loop[r].pc = "asleep" /\ loop' = [loop EXCEPT ![r] = [Off EXCEPT !.pc = "over"]]
        /\ started' = [started EXCEPT ![r] = [i \in Id |-> 0]]
        /\ UNCHANGED <<now, policies, nextId, shown, current, newest, wake, run, api>>
    BY <1>7 DEF LoopEnds
  <2>2. /\ [Off EXCEPT !.pc = "over"] \in RunnerState
        /\ [Off EXCEPT !.pc = "over"].pc # "off"
    BY <1>2, RunnerStates DEF Off
  <2>3. /\ loop' \in [Runtime -> RunnerState]
        /\ \A q \in Runtime : loop'[q].pc = "off" <=> q > newest'
    BY <1>3, <2>1, <2>2
  <2>4. started' \in [Runtime -> [Id -> Time]]
    BY <1>1, <2>1, NumbersAreNat
  <2> QED BY <2>1, <2>3, <2>4 DEF TypeOK
<1> QED BY <1>4, <1>5, <1>6, <1>7 DEF Runner

LEMMA RunTypes ==
  ASSUME TypeOK, RunsOwned, Past, NEW k \in Runs, RunStep(k), UNCHANGED scope
  PROVE  TypeOK'
<1>1. policies' \in [Id -> Policy \cup {Nothing}]
  BY RunRecords DEF Onward
<1>2. run' \in [Runs -> [pc : {"none", "begin", "check", "update"}, id : Id \cup {0}]]
  <2>1. run \in [Runs -> [pc : {"none", "begin", "check", "update"}, id : Id \cup {0}]]
    BY DEF TypeOK
  <2>2. \/ run' = [run EXCEPT ![k].pc = "check"] \/ run' = [run EXCEPT ![k].pc = "update"]
        \/ run' = [run EXCEPT ![k] = NoRun]
    BY DEF RunStep, Begin, Attempt, Finish
  <2> QED BY <2>1, <2>2 DEF NoRun
<1>3. UnchangedByRun
  BY DEF RunStep, Begin, Attempt, Finish
<1> QED BY <1>1, <1>2, <1>3 DEF UnchangedByRun, TypeOK

\* What a browser saves: one policy, and what was recorded of its last run stays.
\* Unless the write may fail, the Runner is going to be told.
LEMMA PutIs ==
  ASSUME TypeOK, Past, NEW t \in scope.targets, NEW id \in Id \cup {0}, NEW s \in scope.settings,
         Put(t, id, s)
  PROVE  /\ nextId' \in 1..(MaxPolicies + 1)
         /\ \E n \in Id, p \in Policy :
              /\ p.updatedAt = now /\ p.lastRunAt <= now /\ p.lastUpdate = "none"
              /\ p.lastStatus = "running" => policies[n] # Nothing /\ policies[n].lastStatus = "running"
              /\ policies' \in {policies, [policies EXCEPT ![n] = p]}
              /\ shown' \subseteq shown \cup {<<n, t>>}
         /\ api' = ToWake \/ (api' = Done /\ scope.storeFails)
<1> DEFINE same == {i \in Id : policies[i] # Nothing /\ (i = id \/ policies[i].target = t)}
           n == IF same = {} THEN nextId ELSE Min(same)
           next == [target |-> t, settings |-> s, updatedAt |-> now, lastUpdate |-> "none",
                    lastRunAt  |-> IF same = {} THEN 0 ELSE policies[n].lastRunAt,
                    lastStatus |-> IF same = {} THEN "none" ELSE policies[n].lastStatus]
<1>1. policies \in [Id -> Policy \cup {Nothing}] /\ now \in Time /\ t \in Target /\ s \in Settings
      /\ nextId \in 1..(MaxPolicies + 1)
  BY ScopeIs DEF TypeOK
<1>2. PICK result \in Writes :
        /\ n <= scope.policies /\ Write(result, [policies EXCEPT ![n] = next])
        /\ nextId' = IF same = {} THEN nextId + 1 ELSE nextId
        /\ api' = IF result = "ok" THEN ToWake ELSE Done
        /\ shown' = shown \cup (IF result = "fail" THEN {} ELSE {<<n, t>>})
  BY DEF Put
<1>3. same # {} => n \in same
  <2>1. same \in SUBSET Nat
    BY NumbersAreNat
  <2> HIDE DEF same
  <2> QED BY <2>1, LeastOf
<1>4. n \in Id /\ nextId' \in 1..(MaxPolicies + 1)
  <2>1. CASE same = {}
    <3>1. n = nextId /\ nextId' = nextId + 1 /\ nextId <= scope.policies
      BY <1>2, <2>1
    <3> HIDE DEF n, same
    <3> QED BY <1>1, <3>1, ScopeIs, NumbersAreNat DEF Id
  <2>2. CASE same # {}
    BY <1>1, <1>2, <1>3, <2>2
  <2> QED BY <2>1, <2>2
<1>5. /\ next \in Policy /\ next.updatedAt = now /\ next.lastRunAt <= now /\ next.lastUpdate = "none"
      /\ next.lastStatus = "running" => policies[n] # Nothing /\ policies[n].lastStatus = "running"
  <2>1. CASE same = {}
    <3>1. now \in Nat
      BY <1>1, NumbersAreNat
    <3> QED BY <1>1, <2>1, <3>1, NumbersAreNat DEF Policy, Outcome
  <2>2. CASE same # {}
    <3>1. policies[n] \in Policy /\ policies[n] # Nothing
      BY <1>1, <1>3, <2>2
    <3>2. policies[n].lastRunAt \in Time /\ policies[n].lastStatus \in Outcome
      BY <3>1 DEF Policy
    <3>3. policies[n].lastRunAt <= now
      BY <1>4, <3>1 DEF Past
    <3> HIDE DEF n, same
    <3> QED BY <1>1, <2>2, <3>1, <3>2, <3>3 DEF Policy, Outcome
  <2> QED BY <2>1, <2>2
<1> HIDE DEF n, next, same
<1>6. /\ policies' \in {policies, [policies EXCEPT ![n] = next]}
      /\ shown' \subseteq shown \cup {<<n, t>>}
  BY <1>2 DEF Write
<1>7. api' = ToWake \/ (api' = Done /\ scope.storeFails)
  BY <1>2 DEF Writes
<1> QED BY <1>4, <1>5, <1>6, <1>7

LEMMA PutTypes ==
  ASSUME TypeOK, Past, NEW t \in scope.targets, NEW id \in Id \cup {0}, NEW s \in scope.settings,
         Put(t, id, s), UNCHANGED scope
  PROVE  TypeOK'
<1>1. policies \in [Id -> Policy \cup {Nothing}] /\ shown \subseteq Id \X Target
      /\ current \in Runtime /\ t \in Target
  BY ScopeIs DEF TypeOK
<1>2. PICK n \in Id, p \in Policy :
        /\ policies' \in {policies, [policies EXCEPT ![n] = p]}
        /\ shown' \subseteq shown \cup {<<n, t>>}
  BY PutIs
<1>3. policies' \in [Id -> Policy \cup {Nothing}] /\ shown' \subseteq Id \X Target
  BY <1>1, <1>2
<1>4. api' = ToWake \/ api' = Done
  BY PutIs
<1>5. api' \in [step : {"done", "follow", "wake"}, runtime : Runtime,
                from : Target \cup {"nothing"}, to : Target \cup {"nothing"}]
  BY <1>1, <1>4, RequestStates DEF ToWake
<1>6. UNCHANGED <<loop, wake>> /\ UnchangedByApi
  BY DEF Put
<1>7. nextId' \in 1..(MaxPolicies + 1)
  BY PutIs
<1> QED BY <1>3, <1>5, <1>6, <1>7 DEF TypeOK, UnchangedByApi

LEMMA DeleteTypes ==
  ASSUME TypeOK, NEW i \in Id, Delete(i), UNCHANGED scope
  PROVE  TypeOK'
<1>1. policies \in [Id -> Policy \cup {Nothing}] /\ current \in Runtime
  BY DEF TypeOK
<1>2. PICK result \in Writes :
        /\ Write(result, [policies EXCEPT ![i] = Nothing])
        /\ api' = IF result = "ok" THEN ToWake ELSE Done
  BY DEF Delete
<1>3. policies' \in [Id -> Policy \cup {Nothing}]
  BY <1>1, <1>2 DEF Write
<1>4. api' \in [step : {"done", "follow", "wake"}, runtime : Runtime,
                from : Target \cup {"nothing"}, to : Target \cup {"nothing"}]
  BY <1>1, <1>2, RequestStates DEF ToWake
<1>5. UNCHANGED <<nextId, shown, loop, wake>> /\ UnchangedByApi
  BY DEF Delete
<1> QED BY <1>3, <1>4, <1>5 DEF TypeOK, UnchangedByApi

LEMMA FollowTypes ==
  ASSUME TypeOK, Follow, UNCHANGED scope
  PROVE  TypeOK'
<1> DEFINE match == {i \in Id : policies[i] # Nothing /\ policies[i].target = api.from}
           pairs == {<<i, api.to>> : i \in match} \cap (Id \X Target)
           moved == [i \in Id |-> IF i \notin match THEN policies[i]
                                  ELSE IF api.to = "nothing" THEN Nothing
                                  ELSE [policies[i] EXCEPT !.target = api.to]]
<1>1. policies \in [Id -> Policy \cup {Nothing}] /\ api.runtime \in Runtime
      /\ api.to \in Target \cup {"nothing"} /\ shown \subseteq Id \X Target
  BY DEF TypeOK
<1>2. moved \in [Id -> Policy \cup {Nothing}]
  <2> SUFFICES ASSUME NEW i \in Id PROVE moved[i] \in Policy \cup {Nothing}
    OBVIOUS
  <2>1. CASE i \in match /\ api.to # "nothing"
    <3>1. policies[i] \in Policy /\ api.to \in Target
      BY <1>1, <2>1
    <3>2. moved[i] = [policies[i] EXCEPT !.target = api.to]
      BY <2>1
    <3> QED BY <3>1, <3>2 DEF Policy
  <2>2. CASE ~(i \in match /\ api.to # "nothing")
    BY <1>1, <2>2
  <2> QED BY <2>1, <2>2
<1>3. \/ UNCHANGED <<policies, shown>> /\ api' = Done
      \/ /\ policies' = policies \/ policies' = moved
         /\ api' = Done \/ api' = [Done EXCEPT !.step = "wake", !.runtime = api.runtime]
         /\ shown' \subseteq shown \cup pairs
  BY DEF Follow, Write
<1>4. policies' \in [Id -> Policy \cup {Nothing}] /\ shown' \subseteq Id \X Target
  BY <1>1, <1>2, <1>3
<1>5. api' \in [step : {"done", "follow", "wake"}, runtime : Runtime,
                from : Target \cup {"nothing"}, to : Target \cup {"nothing"}]
  <2>1. api' = Done \/ api' = [Done EXCEPT !.step = "wake", !.runtime = api.runtime]
    BY <1>3
  <2> QED BY <1>1, <2>1, RequestStates
<1>6. UNCHANGED <<nextId, loop, wake>> /\ UnchangedByApi
  BY DEF Follow
<1> QED BY <1>4, <1>5, <1>6 DEF TypeOK, UnchangedByApi

\* Told of a change or not, a Runner stays what it is.
LEMMA PassedIs ==
  ASSUME TypeOK, NEW told \in Runtime
  PROVE  /\ Passed(told) \in [Runtime -> RunnerState]
         /\ \A r \in Runtime :
              /\ Passed(told)[r].pc = loop[r].pc /\ Passed(told)[r].deadline = loop[r].deadline
              /\ Passed(told)[r].read = loop[r].read
              /\ Passed(told)[r].missed = (loop[r].missed \/ r \in (told + 1)..newest)
<1>1. loop \in [Runtime -> RunnerState]
  BY DEF TypeOK
<1> SUFFICES ASSUME NEW r \in Runtime
             PROVE  /\ Passed(told)[r] \in RunnerState
                    /\ Passed(told)[r].pc = loop[r].pc /\ Passed(told)[r].deadline = loop[r].deadline
                    /\ Passed(told)[r].read = loop[r].read
                    /\ Passed(told)[r].missed = (loop[r].missed \/ r \in (told + 1)..newest)
  <2>1. Passed(told) = [q \in Runtime |-> Passed(told)[q]]
    BY DEF Passed
  <2> QED BY <2>1
<1> DEFINE b == loop[r].missed \/ r \in (told + 1)..newest
<1>2. Passed(told)[r] = [loop[r] EXCEPT !.missed = b]
  BY DEF Passed
<1>3. loop[r] \in RunnerState /\ b \in BOOLEAN
  BY <1>1
<1>4. PICK c \in BOOLEAN : c = b
  BY <1>3
<1>5. Passed(told)[r] = [loop[r] EXCEPT !.missed = c]
  BY <1>2, <1>4
<1> HIDE DEF b
<1>6. /\ [loop[r] EXCEPT !.missed = c] \in RunnerState /\ [loop[r] EXCEPT !.missed = c].missed = c
      /\ [loop[r] EXCEPT !.missed = c].pc = loop[r].pc
      /\ [loop[r] EXCEPT !.missed = c].deadline = loop[r].deadline
      /\ [loop[r] EXCEPT !.missed = c].read = loop[r].read
  BY <1>3 DEF RunnerState
<1>7. Passed(told)[r].missed = b
  BY <1>4, <1>5, <1>6
<1> QED BY <1>5, <1>6, <1>7 DEF b

LEMMA WakeTypes ==
  ASSUME TypeOK, Wake, UNCHANGED scope
  PROVE  TypeOK'
<1>1. api.runtime \in Runtime
  BY DEF TypeOK
<1>2. /\ api' = Done /\ wake' = wake \cup {api.runtime} /\ loop' = Passed(api.runtime)
      /\ UNCHANGED <<policies, nextId, shown>> /\ UnchangedByApi
  BY DEF Wake
<1>3. /\ loop' \in [Runtime -> RunnerState]
      /\ \A r \in Runtime : loop'[r].pc = loop[r].pc
  BY <1>1, <1>2, PassedIs
<1>4. api' \in [step : {"done", "follow", "wake"}, runtime : Runtime,
                from : Target \cup {"nothing"}, to : Target \cup {"nothing"}]
  BY <1>1, <1>2, RequestStates
<1> QED BY <1>1, <1>2, <1>3, <1>4 DEF TypeOK, UnchangedByApi

LEMMA RequestTypes ==
  ASSUME TypeOK, Past, Request, UNCHANGED scope
  PROVE  TypeOK'
<1>1. CASE \E t \in scope.targets, id \in Id \cup {0}, s \in scope.settings : Put(t, id, s)
  BY <1>1, PutTypes
<1>2. CASE \E i \in Id : Delete(i)
  BY <1>2, DeleteTypes
<1>3. ASSUME NEW i \in Id, RunNow(i)
      PROVE  TypeOK'
  <2>1. run' \in [Runs -> [pc : {"none", "begin", "check", "update"}, id : Id \cup {0}]]
    BY <1>3 DEF RunNow, TypeOK
  <2> QED BY <1>3, <2>1 DEF RunNow, UnchangedByRun, TypeOK
<1>4. ASSUME NEW from \in scope.targets, NEW to \in scope.targets \cup {"nothing"},
             ChangeContainer(from, to)
      PROVE  TypeOK'
  <2>1. current \in Runtime /\ from \in Target /\ to \in Target \cup {"nothing"}
    BY ScopeIs DEF TypeOK
  <2>2. api' \in [step : {"done", "follow", "wake"}, runtime : Runtime,
                  from : Target \cup {"nothing"}, to : Target \cup {"nothing"}]
    BY <1>4, <2>1 DEF ChangeContainer
  <2> QED BY <1>4, <2>2 DEF ChangeContainer, UnchangedByApi, TypeOK
<1> QED BY <1>1, <1>2, <1>3, <1>4 DEF Request

\* The process and its surroundings.
LEMMA ProcessTypes ==
  ASSUME TypeOK, Past, Restart \/ NewState \/ Swap \/ TimePasses, UNCHANGED scope
  PROVE  TypeOK'
<1>1. /\ loop \in [Runtime -> RunnerState] /\ now \in 0..MaxTime /\ newest \in Runtime
      /\ current \in Runtime /\ newest \in {current, current + 1}
      /\ \A r \in Runtime : loop[r].pc = "off" <=> r > newest
  BY DEF TypeOK, Time
<1>2. now \in 0..(MaxTime + MaxSleep + Retry)
  BY <1>1, NumbersAreNat
<1>3. StartLoop \in RunnerState /\ StartLoop.pc = "asleep"
  BY <1>2, RunnerStates DEF StartLoop, Off
<1>4. [Off EXCEPT !.pc = "over"] \in RunnerState /\ [Off EXCEPT !.pc = "over"].pc = "over"
      /\ Off \in RunnerState /\ Off.pc = "off"
  BY <1>2, RunnerStates DEF Off
<1>5. newest < scope.runtimes => newest + 1 \in Runtime
  BY <1>1, ScopeIs, NumbersAreNat DEF Runtime
<1>6. CASE Restart
  <2>1. newest < scope.runtimes /\ newest' = newest + 1 /\ current' = newest + 1
        /\ wake' = {} /\ started' = [r \in Runtime |-> [i \in Id |-> 0]]
        /\ run' = [k \in Runs |-> NoRun] /\ api' = Done
        /\ UNCHANGED <<now, nextId, shown>>
        /\ loop' = [r \in Runtime |-> IF r = newest + 1 THEN StartLoop
                                      ELSE IF r <= newest THEN [Off EXCEPT !.pc = "over"] ELSE Off]
    BY <1>6 DEF Restart
  <2>2. policies' \in [Id -> Policy \cup {Nothing}]
    BY <1>6, MarkingGoesOn DEF Restart, Onward
  <2>3. /\ loop' \in [Runtime -> RunnerState]
        /\ \A r \in Runtime : loop'[r].pc = "off" <=> r > newest'
    <3> SUFFICES ASSUME NEW r \in Runtime
                 PROVE  loop'[r] \in RunnerState /\ (loop'[r].pc = "off" <=> r > newest')
      BY <2>1
    <3>1. r \in Nat /\ newest \in Nat
      BY <1>1, NumbersAreNat
    <3>2. CASE r = newest + 1
      BY <1>3, <2>1, <3>1, <3>2
    <3>3. CASE r <= newest
      BY <1>4, <2>1, <3>1, <3>3
    <3>4. CASE r > newest + 1
      BY <1>4, <2>1, <3>1, <3>4
    <3> QED BY <3>1, <3>2, <3>3, <3>4
  <2>4. started' \in [Runtime -> [Id -> Time]]
    BY <2>1, NumbersAreNat
  <2>5. run' \in [Runs -> [pc : {"none", "begin", "check", "update"}, id : Id \cup {0}]]
    BY <2>1 DEF NoRun
  <2>6. api' \in [step : {"done", "follow", "wake"}, runtime : Runtime,
                  from : Target \cup {"nothing"}, to : Target \cup {"nothing"}]
    BY <2>1, <1>1, RequestStates
  <2>7. newest' \in Runtime /\ current' \in Runtime
    BY <1>5, <2>1
  <2> QED BY <2>1, <2>2, <2>3, <2>4, <2>5, <2>6, <2>7 DEF TypeOK
<1>7. CASE NewState
  <2>1. newest < scope.runtimes /\ newest = current /\ newest' = newest + 1
        /\ loop' = [loop EXCEPT ![newest + 1] = StartLoop]
        /\ UNCHANGED <<now, nextId, shown, current, wake, started, run, api>>
    BY <1>7 DEF NewState
  <2>2. policies' \in [Id -> Policy \cup {Nothing}]
    BY <1>7, MarkingGoesOn DEF NewState, Onward
  <2>3. /\ loop' \in [Runtime -> RunnerState]
        /\ \A r \in Runtime : loop'[r].pc = "off" <=> r > newest'
    <3>1. loop' \in [Runtime -> RunnerState] /\ loop'[newest + 1] = StartLoop
          /\ \A r \in Runtime : r # newest + 1 => loop'[r] = loop[r]
      BY <1>1, <1>3, <1>5, <2>1
    <3>2. newest \in Nat /\ \A r \in Runtime : r \in Nat
      BY <1>1, NumbersAreNat
    <3> QED BY <1>1, <1>3, <2>1, <3>1, <3>2
  <2>4. newest' \in Runtime /\ newest' \in {current', current' + 1}
    BY <1>5, <2>1
  <2> QED BY <2>1, <2>2, <2>3, <2>4 DEF TypeOK
<1>8. CASE Swap
  BY <1>8 DEF Swap, TypeOK
<1>9. CASE TimePasses
  <2>1. now' \in Time
    BY <1>1, <1>9, ScopeIs, NumbersAreNat DEF TimePasses, Time
  <2> QED BY <1>9, <2>1 DEF TimePasses, volatile, TypeOK
<1> QED BY <1>6, <1>7, <1>8, <1>9

LEMMA TypesKept ==
  ASSUME TypeOK, RunsOwned, Past, Next
  PROVE  TypeOK'
<1>1. UNCHANGED scope
  BY DEF Next
<1>2. CASE \E r \in Runtime : Runner(r)
  BY <1>1, <1>2, RunnerTypes
<1>3. CASE \E k \in Runs : RunStep(k)
  BY <1>1, <1>3, RunTypes
<1>4. CASE Request
  BY <1>1, <1>4, RequestTypes
<1>5. CASE Follow
  BY <1>1, <1>5, FollowTypes
<1>6. CASE Wake
  BY <1>1, <1>6, WakeTypes
<1>7. CASE Restart \/ NewState \/ Swap \/ TimePasses
  BY <1>1, <1>7, ProcessTypes
<1> QED BY <1>2, <1>3, <1>4, <1>5, <1>6, <1>7 DEF Next

-----------------------------------------------------------------------------
\* Runs and their owners.

LEMMA OwnersKept ==
  ASSUME TypeOK, RunsOwned, Past, Next
  PROVE  RunsOwned'
<1>1. /\ run \in [Runs -> [pc : {"none", "begin", "check", "update"}, id : Id \cup {0}]]
      /\ loop \in [Runtime -> RunnerState]
  BY DEF TypeOK
<1>2. /\ \A k \in Runs : run[k].id = 0 <=> run[k].pc = "none"
      /\ \A r \in Runtime : loop[r].pc # "busy" => run[r].pc = "none"
  BY DEF RunsOwned
<1>3. ASSUME UNCHANGED run, \A r \in Runtime : loop'[r].pc = loop[r].pc \/ run[r].pc = "none"
      PROVE  RunsOwned'
  BY <1>2, <1>3 DEF RunsOwned
<1>4. ASSUME NEW r \in Runtime, Runner(r)
      PROVE  RunsOwned'
  <2>1. CASE Awake(r)
    <3>1. loop[r].pc = "asleep" /\ UNCHANGED run /\ \A q \in Runtime : q # r => loop'[q] = loop[q]
      BY <1>1, <2>1 DEF Awake
    <3> QED BY <1>2, <1>3, <3>1
  <2>2. CASE Tick(r)
    <3>1. CASE UNCHANGED run
      <4>1. loop[r].pc = "tick" /\ \A q \in Runtime : q # r => loop'[q] = loop[q]
        BY <1>1, <2>2 DEF Tick
      <4> QED BY <1>2, <1>3, <3>1, <4>1
    <3>2. CASE ~(Cancelled(r) \/ DueNow(r, loop[r].read) = {})
      <4>1. PICK m \in Id : m = Min(DueNow(r, loop[r].read))
        BY <3>2, DueIs
      <4>2. /\ run' = [run EXCEPT ![r] = [pc |-> "begin", id |-> m]]
            /\ loop' = [loop EXCEPT ![r] = [Off EXCEPT !.pc = "busy"]]
        BY <2>2, <3>2, <4>1 DEF Tick
      <4>3. loop'[r].pc = "busy" /\ \A q \in Runtime : q # r => loop'[q] = loop[q]
        BY <1>1, <4>2 DEF Off
      <4>4. run'[r].pc = "begin" /\ run'[r].id = m /\ \A k \in Runs : k # r => run'[k] = run[k]
        BY <1>1, <4>2, NumbersAreNat
      <4>5. m # 0 /\ Runtime \subseteq Runs
        BY NumbersAreNat
      <4> QED BY <1>2, <4>3, <4>4, <4>5 DEF RunsOwned
    <3> QED BY <2>2, <3>1, <3>2 DEF Tick
  <2>3. CASE TickAgain(r)
    <3>1. run[r].pc = "none" /\ UNCHANGED run /\ \A q \in Runtime : q # r => loop'[q] = loop[q]
      BY <1>1, <2>3 DEF TickAgain
    <3> QED BY <1>3, <3>1
  <2>4. CASE LoopEnds(r)
    <3>1. loop[r].pc = "asleep" /\ UNCHANGED run /\ \A q \in Runtime : q # r => loop'[q] = loop[q]
      BY <1>1, <2>4 DEF LoopEnds
    <3> QED BY <1>2, <1>3, <3>1
  <2> QED BY <1>4, <2>1, <2>2, <2>3, <2>4 DEF Runner
<1>5. ASSUME NEW k \in Runs, RunStep(k)
      PROVE  RunsOwned'
  <2>1. UNCHANGED loop /\ run[k].pc # "none"
    BY <1>5 DEF RunStep, Begin, Attempt, Finish, UnchangedByRun
  <2>2. \/ run' = [run EXCEPT ![k].pc = "check"] \/ run' = [run EXCEPT ![k].pc = "update"]
        \/ run' = [run EXCEPT ![k] = NoRun]
    BY <1>5 DEF RunStep, Begin, Attempt, Finish
  <2>3. /\ \A j \in Runs : j # k => run'[j] = run[j]
        /\ run'[k].id = 0 <=> run'[k].pc = "none"
    BY <1>1, <1>2, <2>1, <2>2 DEF NoRun
  <2> QED BY <1>2, <2>1, <2>3, NumbersAreNat DEF RunsOwned
<1>6. CASE Request
  <2>1. CASE UNCHANGED <<run, loop>>
    BY <1>3, <2>1
  <2>2. ASSUME NEW i \in Id, RunNow(i)
        PROVE  RunsOwned'
    <3>1. run' = [run EXCEPT ![Manual] = [pc |-> "begin", id |-> i]] /\ UNCHANGED loop
      BY <2>2 DEF RunNow, UnchangedByRun
    <3>2. run'[Manual].pc = "begin" /\ run'[Manual].id = i
          /\ \A k \in Runs : k # Manual => run'[k] = run[k]
      BY <1>1, <3>1, NumbersAreNat
    <3> QED BY <1>2, <3>1, <3>2, NumbersAreNat DEF RunsOwned
  <2> QED BY <1>6, <2>1, <2>2 DEF Request, Put, Delete, ChangeContainer, UnchangedByApi
<1>7. CASE Follow \/ Swap \/ TimePasses
  BY <1>3, <1>7 DEF Follow, Swap, TimePasses, UnchangedByApi, volatile
<1>8. CASE Wake
  <2>1. UNCHANGED run /\ loop' = Passed(api.runtime) /\ api.runtime \in Runtime
    BY <1>8 DEF Wake, UnchangedByApi, TypeOK
  <2>2. \A r \in Runtime : loop'[r].pc = loop[r].pc
    BY <2>1, PassedIs
  <2> QED BY <1>3, <2>1, <2>2
<1>9. CASE Restart
  <2>1. \A k \in Runs : run'[k].pc = "none" /\ run'[k].id = 0
    BY <1>9 DEF Restart, NoRun
  <2> QED BY <2>1, NumbersAreNat DEF RunsOwned
<1>10. CASE NewState
  <2>1. UNCHANGED run /\ loop' = [loop EXCEPT ![newest + 1] = StartLoop] /\ newest \in Runtime
    BY <1>10 DEF NewState, TypeOK
  <2>2. \A r \in Runtime : r # newest + 1 => loop'[r] = loop[r]
    BY <1>1, <2>1
  <2>3. newest + 1 \in Runtime => loop[newest + 1].pc = "off"
    <3>1. newest \in Nat
      BY <2>1, NumbersAreNat
    <3> QED BY <3>1 DEF TypeOK
  <2> QED BY <1>2, <1>3, <2>1, <2>2, <2>3
<1> QED BY <1>4, <1>5, <1>6, <1>7, <1>8, <1>9, <1>10 DEF Next

-----------------------------------------------------------------------------
\* Nothing lies in the future.

\* A step saves a policy anew, or leaves of the policies what goes on from them.
LEMMA GoesOn ==
  ASSUME TypeOK, RunsOwned, Past, Next
  PROVE  \/ Onward
         \/ \E t \in scope.targets, id \in Id \cup {0}, s \in scope.settings : Put(t, id, s)
<1>1. policies \in [Id -> Policy \cup {Nothing}] /\ now \in Nat
  BY NumbersAreNat DEF TypeOK
<1>2. \A i \in Id : policies[i] # Nothing =>
        policies[i].lastRunAt \in Nat /\ policies[i].lastRunAt <= now
  BY <1>1, PolicyIs DEF Past
<1>3. CASE UNCHANGED policies
  BY <1>1, <1>2, <1>3 DEF Onward
<1>4. CASE \E k \in Runs : RunStep(k)
  BY <1>4, RunRecords
<1>5. CASE Restart \/ NewState
  BY <1>5, MarkingGoesOn DEF Restart, NewState
<1>6. ASSUME NEW i \in Id, Delete(i)
      PROVE  Onward
  <2>1. policies' = policies \/ policies' = [policies EXCEPT ![i] = Nothing]
    BY <1>6 DEF Delete, Write
  <2> QED BY <1>1, <1>2, <2>1 DEF Onward
<1>7. CASE Follow
  <2> DEFINE match == {i \in Id : policies[i] # Nothing /\ policies[i].target = api.from}
             moved == [i \in Id |-> IF i \notin match THEN policies[i]
                                    ELSE IF api.to = "nothing" THEN Nothing
                                    ELSE [policies[i] EXCEPT !.target = api.to]]
  <2>1. policies' = policies \/ policies' = moved
    BY <1>7 DEF Follow, Write
  <2>2. policies' \in [Id -> Policy \cup {Nothing}]
    BY <1>7, FollowTypes DEF TypeOK, Next
  <2>3. ASSUME policies' = moved, NEW i \in Id, policies'[i] # Nothing
        PROVE  /\ policies[i] # Nothing
               /\ policies'[i].settings = policies[i].settings
               /\ policies'[i].updatedAt = policies[i].updatedAt
               /\ policies'[i].lastRunAt = policies[i].lastRunAt
    <3>1. policies[i] # Nothing => policies[i] \in Policy
      BY <1>1
    <3>2. CASE i \notin match
      BY <2>3, <3>2
    <3>3. CASE i \in match
      <4>1. policies'[i] = [policies[i] EXCEPT !.target = api.to] /\ policies[i] # Nothing
        BY <2>3, <3>3
      <4> QED BY <3>1, <4>1 DEF Policy
    <3> QED BY <3>2, <3>3
  <2> HIDE DEF moved
  <2>4. CASE policies' = moved
    BY <1>2, <2>2, <2>3, <2>4 DEF Onward
  <2> QED BY <1>3, <2>1, <2>4
<1>8. ASSUME NEW r \in Runtime, Runner(r)
      PROVE  UNCHANGED policies
  BY <1>8 DEF Runner, Awake, Tick, TickAgain, LoopEnds
<1>9. CASE Swap \/ Wake \/ TimePasses
  BY <1>9, <1>3 DEF Swap, Wake, TimePasses
<1>10. CASE Request
  <2>1. ASSUME NEW i \in Id, RunNow(i)
        PROVE  UNCHANGED policies
    BY <2>1 DEF RunNow
  <2>2. ASSUME NEW from, NEW to, ChangeContainer(from, to)
        PROVE  UNCHANGED policies
    BY <2>2 DEF ChangeContainer
  <2> QED BY <1>3, <1>6, <1>10, <2>1, <2>2 DEF Request
<1> QED BY <1>3, <1>4, <1>5, <1>7, <1>8, <1>9, <1>10 DEF Next

\* Starts are only noted by tick, as of now, and forgotten with their Runner.
LEMMA StartsNoted ==
  ASSUME TypeOK, RunsOwned, Past, Next
  PROVE  \/ \A r \in Runtime, i \in Id : started'[r][i] \in {started[r][i], 0}
         \/ \E r \in Runtime : /\ Tick(r) /\ ~(Cancelled(r) \/ DueNow(r, loop[r].read) = {})
                               /\ started' = [started EXCEPT ![r][Min(DueNow(r, loop[r].read))] = now]
<1>1. started \in [Runtime -> [Id -> Time]]
  BY DEF TypeOK
<1>2. CASE UNCHANGED started
  BY <1>2
<1>3. ASSUME NEW r \in Runtime, Runner(r)
      PROVE  \/ UNCHANGED started
             \/ \A q \in Runtime, i \in Id : started'[q][i] \in {started[q][i], 0}
             \/ /\ Tick(r) /\ ~(Cancelled(r) \/ DueNow(r, loop[r].read) = {})
                /\ started' = [started EXCEPT ![r][Min(DueNow(r, loop[r].read))] = now]
  <2>1. CASE Awake(r) \/ TickAgain(r)
    BY <2>1 DEF Awake, TickAgain
  <2>2. CASE Tick(r)
    BY <2>2 DEF Tick
  <2>3. CASE LoopEnds(r)
    <3>1. started' = [started EXCEPT ![r] = [i \in Id |-> 0]]
      BY <2>3 DEF LoopEnds
    <3> QED BY <1>1, <3>1
  <2> QED BY <1>3, <2>1, <2>2, <2>3 DEF Runner
<1>4. CASE Restart
  BY <1>4 DEF Restart
<1>5. CASE (\E k \in Runs : RunStep(k)) \/ Request \/ Follow \/ Wake \/ NewState \/ Swap \/ TimePasses
  <2>1. UNCHANGED started
    <3>1. ASSUME NEW k \in Runs, RunStep(k) PROVE UNCHANGED started
      BY <3>1 DEF RunStep, Begin, Attempt, Finish, UnchangedByRun
    <3>2. CASE Request
      BY <3>2 DEF Request, Put, Delete, RunNow, ChangeContainer, UnchangedByApi, UnchangedByRun
    <3>3. CASE Follow \/ Wake \/ NewState \/ Swap \/ TimePasses
      BY <3>3 DEF Follow, Wake, NewState, Swap, TimePasses, UnchangedByApi, volatile
    <3> QED BY <1>5, <3>1, <3>2, <3>3
  <2> QED BY <2>1
<1> QED BY <1>2, <1>3, <1>4, <1>5 DEF Next

\* Time goes by, and what a step saves or starts has the time of now.
LEMMA PastKept ==
  ASSUME TypeOK, RunsOwned, Past, Next
  PROVE  Past'
<1>1. /\ now \in Nat /\ now' \in Nat /\ now <= now'
  <2>1. now \in Nat
    BY NumbersAreNat DEF TypeOK
  <2>2. now' = now \/ TimePasses
    BY DEF Next, Runner, Awake, Tick, TickAgain, LoopEnds, RunStep, Begin, Attempt, Finish, Request, Put,
      Delete, RunNow, ChangeContainer, Follow, Wake, Restart, NewState, Swap, UnchangedByRun, UnchangedByApi
  <2> QED BY <2>1, <2>2 DEF TimePasses
<1>2. /\ policies \in [Id -> Policy \cup {Nothing}]
      /\ \A i \in Id : policies[i] # Nothing =>
           /\ policies[i].updatedAt \in Nat /\ policies[i].lastRunAt \in Nat
           /\ policies[i].updatedAt <= now /\ policies[i].lastRunAt <= now
  <2>1. policies \in [Id -> Policy \cup {Nothing}]
    BY DEF TypeOK
  <2> QED BY <2>1, PolicyIs DEF Past
<1>3. \A i \in Id : policies'[i] # Nothing => policies'[i].updatedAt <= now /\ policies'[i].lastRunAt <= now
  <2>1. CASE Onward
    BY <1>2, <2>1 DEF Onward
  <2>2. ASSUME NEW t \in scope.targets, NEW id \in Id \cup {0}, NEW s \in scope.settings, Put(t, id, s)
        PROVE  \A i \in Id : policies'[i] # Nothing =>
                  policies'[i].updatedAt <= now /\ policies'[i].lastRunAt <= now
    <3>1. PICK n \in Id, p \in Policy :
            /\ p.updatedAt = now /\ p.lastRunAt <= now
            /\ policies' \in {policies, [policies EXCEPT ![n] = p]}
      BY <2>2, PutIs
    <3>2. CASE policies' = policies
      BY <1>2, <3>2
    <3>3. CASE policies' = [policies EXCEPT ![n] = p]
      <4>1. policies'[n] = p /\ \A i \in Id : i # n => policies'[i] = policies[i]
        BY <1>2, <3>3
      <4> QED BY <1>1, <1>2, <3>1, <4>1
    <3> QED BY <3>1, <3>2, <3>3
  <2> QED BY <2>1, <2>2, GoesOn
<1>4. \A i \in Id : policies'[i] # Nothing =>
        policies'[i].updatedAt \in Nat /\ policies'[i].lastRunAt \in Nat
  <2>1. policies' \in [Id -> Policy \cup {Nothing}]
    BY TypesKept DEF TypeOK
  <2> QED BY <2>1, PolicyIs
<1>5. \A r \in Runtime, i \in Id : started'[r][i] <= now
  <2>1. \A r \in Runtime, i \in Id : started[r][i] \in Nat /\ started[r][i] <= now
    BY StartedIs DEF Past
  <2>2. CASE \A r \in Runtime, i \in Id : started'[r][i] \in {started[r][i], 0}
    BY <1>1, <2>1, <2>2
  <2>3. ASSUME NEW r \in Runtime, NEW m, started' = [started EXCEPT ![r][m] = now]
        PROVE  \A q \in Runtime, i \in Id : started'[q][i] <= now
    <3>1. started \in [Runtime -> [Id -> Time]]
      BY DEF TypeOK
    <3>2. \A q \in Runtime, i \in Id : started'[q][i] \in {started[q][i], now}
      BY <2>3, <3>1
    <3> QED BY <1>1, <2>1, <3>2
  <2> QED BY <2>2, <2>3, StartsNoted
<1>6. \A r \in Runtime, i \in Id : started'[r][i] \in Nat
  <2>1. started' \in [Runtime -> [Id -> Time]]
    BY TypesKept DEF TypeOK
  <2> QED BY <2>1, NumbersAreNat
<1>7. api'.runtime <= current'
  <2>1. api.runtime <= current /\ api.runtime \in Nat /\ current \in Nat /\ 1 <= current
    <3>1. api.runtime \in Runtime /\ current \in Runtime
      BY DEF TypeOK
    <3> QED BY <3>1, NumbersAreNat DEF Past, Runtime
  <2>2. newest \in Nat /\ current <= newest
    BY <2>1 DEF TypeOK
  <2>3. CASE UNCHANGED <<api, current>>
    BY <2>1, <2>3
  <2>4. CASE api'.runtime \in {1, api.runtime, current} /\ UNCHANGED current
    BY <2>1, <2>4
  <2>5. CASE Restart \/ Swap
    BY <2>1, <2>2, <2>5 DEF Restart, Swap, Done
  <2>6. CASE Request \/ Follow \/ Wake
    <3>1. UNCHANGED current
      BY <2>6 DEF Request, Put, Delete, RunNow, ChangeContainer, Follow, Wake, UnchangedByApi, UnchangedByRun
    <3>2. api' \in {api, Done, ToWake, [Done EXCEPT !.step = "wake", !.runtime = api.runtime]}
            \/ api'.runtime = current
      <4>1. CASE Request
        <5>1. ASSUME NEW t \in scope.targets, NEW id \in Id \cup {0}, NEW s \in scope.settings, Put(t, id, s)
              PROVE  api' \in {Done, ToWake}
          BY <5>1, PutIs
        <5>2. ASSUME NEW i \in Id, Delete(i)
              PROVE  api' \in {Done, ToWake}
          BY <5>2 DEF Delete
        <5>3. ASSUME NEW i \in Id, RunNow(i)
              PROVE  api' = api
          BY <5>3 DEF RunNow, UnchangedByRun
        <5>4. ASSUME NEW from, NEW to, ChangeContainer(from, to)
              PROVE  api'.runtime = current
          BY <5>4 DEF ChangeContainer
        <5> QED BY <4>1, <5>1, <5>2, <5>3, <5>4 DEF Request
      <4>2. CASE Follow \/ Wake
        BY <4>2 DEF Follow, Wake
      <4> QED BY <2>6, <4>1, <4>2
    <3>3. Done.runtime = 1 /\ ToWake.runtime = current
          /\ [Done EXCEPT !.step = "wake", !.runtime = api.runtime].runtime = api.runtime
      BY DEF Done, ToWake
    <3>4. api'.runtime \in {1, api.runtime, current}
      BY <3>2, <3>3
    <3> QED BY <2>4, <3>1, <3>4
  <2>7. CASE (\E r \in Runtime : Runner(r)) \/ (\E k \in Runs : RunStep(k)) \/ NewState \/ TimePasses
    BY <2>3, <2>7 DEF Runner, Awake, Tick, TickAgain, LoopEnds, RunStep, Begin, Attempt, Finish,
      NewState, TimePasses, UnchangedByRun, volatile
  <2> QED BY <2>5, <2>6, <2>7 DEF Next
<1> QED BY <1>1, <1>3, <1>4, <1>5, <1>6, <1>7 DEF Past

-----------------------------------------------------------------------------
\* What config.json says of runs is true.

\* The policy says no more than before, and the runs go on.
LEMMA RealStays ==
  ASSUME RunningIsReal, ~scope.storeFails, NEW i \in Id,
         policies[i] # Nothing,
         policies'[i].lastStatus = "running" => policies[i].lastStatus = "running",
         policies'[i].lastUpdate = "running" => policies[i].lastUpdate = "running",
         \A k \in Runs : run[k].id = i => run'[k] = run[k]
  PROVE  /\ policies'[i].lastStatus = "running" => \E k \in Runs : run'[k].id = i /\ run'[k].pc # "begin"
         /\ policies'[i].lastUpdate = "running" => \E k \in Runs : run'[k].id = i /\ run'[k].pc = "update"
<1>1. /\ policies[i].lastStatus = "running" => \E k \in Runs : run[k].id = i /\ run[k].pc # "begin"
      /\ policies[i].lastUpdate = "running" => \E k \in Runs : run[k].id = i /\ run[k].pc = "update"
  BY DEF RunningIsReal
<1>2. CASE policies'[i].lastStatus = "running"
  <2>1. PICK k \in Runs : run[k].id = i /\ run[k].pc # "begin"
    BY <1>1, <1>2
  <2>2. run'[k].id = i /\ run'[k].pc # "begin"
    BY <2>1
  <2> QED BY <1>1, <2>2
<1> QED BY <1>1, <1>2

\* Only a run of one's own, and a new one, change the runs.
LEMMA RunsStay ==
  ASSUME TypeOK, RunsOwned, Next, ~Restart, ~(\E k \in Runs : RunStep(k))
  PROVE  \A k \in Runs, i \in Id : run[k].id = i => run'[k] = run[k]
<1>1. /\ run \in [Runs -> [pc : {"none", "begin", "check", "update"}, id : Id \cup {0}]]
      /\ \A k \in Runs : run[k].pc = "none" => run[k].id \notin Id
  BY NumbersAreNat DEF TypeOK, RunsOwned
<1>2. ASSUME NEW k \in Runs, NEW x, run' = [run EXCEPT ![k] = x], run[k].pc = "none"
      PROVE  \A j \in Runs, i \in Id : run[j].id = i => run'[j] = run[j]
  BY <1>1, <1>2
<1>3. ASSUME NEW r \in Runtime, Runner(r)
      PROVE  UNCHANGED run \/ (run[r].pc = "none" /\ \E x : run' = [run EXCEPT ![r] = x])
  <2>1. CASE Tick(r)
    <3>1. run[r].pc = "none"
      BY <2>1 DEF Tick, RunsOwned
    <3> QED BY <2>1, <3>1 DEF Tick
  <2>2. CASE Awake(r) \/ TickAgain(r) \/ LoopEnds(r)
    BY <2>2 DEF Awake, TickAgain, LoopEnds
  <2> QED BY <1>3, <2>1, <2>2 DEF Runner
<1>4. CASE Request
  <2>1. ASSUME NEW i \in Id, RunNow(i)
        PROVE  \A j \in Runs, q \in Id : run[j].id = q => run'[j] = run[j]
    <3>1. run[Manual].pc = "none" /\ \E x : run' = [run EXCEPT ![Manual] = x]
      BY <2>1 DEF RunNow
    <3> QED BY <1>2, <3>1, NumbersAreNat
  <2>2. ASSUME ~\E i \in Id : RunNow(i)
        PROVE  UNCHANGED run
    BY <1>4, <2>2 DEF Request, Put, Delete, ChangeContainer, UnchangedByApi
  <2> QED BY <2>1, <2>2
<1>5. CASE Follow \/ Wake \/ NewState \/ Swap \/ TimePasses
  BY <1>5 DEF Follow, Wake, NewState, Swap, TimePasses, UnchangedByApi, volatile
<1>6. CASE \E r \in Runtime : Runner(r)
  BY <1>2, <1>3, <1>6, NumbersAreNat
<1> QED BY <1>4, <1>5, <1>6 DEF Next

\* But for a run, a save and the marking, what a policy says of its runs stays.
LEMMA SaysTheSame ==
  ASSUME TypeOK, Next, ~Restart, ~NewState, ~(\E k \in Runs : RunStep(k)),
         ~(\E t \in scope.targets, id \in Id \cup {0}, s \in scope.settings : Put(t, id, s)),
         NEW i \in Id, policies'[i] # Nothing
  PROVE  /\ policies[i] # Nothing
         /\ policies'[i].lastStatus = policies[i].lastStatus
         /\ policies'[i].lastUpdate = policies[i].lastUpdate
<1>1. policies \in [Id -> Policy \cup {Nothing}]
  BY DEF TypeOK
<1>2. CASE UNCHANGED policies
  BY <1>2
<1>3. ASSUME NEW j \in Id, Delete(j)
      PROVE  UNCHANGED policies \/ policies' = [policies EXCEPT ![j] = Nothing]
  BY <1>3 DEF Delete, Write
<1>4. CASE Follow
  <2> DEFINE match == {j \in Id : policies[j] # Nothing /\ policies[j].target = api.from}
             moved == [j \in Id |-> IF j \notin match THEN policies[j]
                                    ELSE IF api.to = "nothing" THEN Nothing
                                    ELSE [policies[j] EXCEPT !.target = api.to]]
  <2>1. policies' = policies \/ policies' = moved
    BY <1>4 DEF Follow, Write
  <2>2. CASE policies' = moved /\ i \in match
    <3>1. policies[i] # Nothing /\ policies[i] \in Policy
      BY <1>1, <2>2
    <3>2. policies'[i] = [policies[i] EXCEPT !.target = api.to]
      BY <2>2
    <3> QED BY <3>1, <3>2 DEF Policy
  <2>3. CASE policies' = moved /\ i \notin match
    <3>1. policies'[i] = policies[i]
      BY <2>3
    <3> QED BY <3>1
  <2> QED BY <1>2, <2>1, <2>2, <2>3
<1>5. CASE Request
  <2>1. ASSUME NEW j \in Id, RunNow(j)
        PROVE  UNCHANGED policies
    BY <2>1 DEF RunNow
  <2>2. ASSUME NEW from, NEW to, ChangeContainer(from, to)
        PROVE  UNCHANGED policies
    BY <2>2 DEF ChangeContainer
  <2>3. UNCHANGED policies \/ \E j \in Id : policies' = [policies EXCEPT ![j] = Nothing]
    BY <1>3, <1>5, <2>1, <2>2 DEF Request
  <2> QED BY <1>1, <2>3
<1>6. CASE (\E r \in Runtime : Runner(r)) \/ Swap \/ Wake \/ TimePasses
  <2>1. ASSUME NEW r \in Runtime, Runner(r)
        PROVE  UNCHANGED policies
    BY <2>1 DEF Runner, Awake, Tick, TickAgain, LoopEnds
  <2>2. UNCHANGED policies
    BY <1>6, <2>1 DEF Swap, Wake, TimePasses
  <2> QED BY <1>2, <2>2
<1> QED BY <1>4, <1>5, <1>6 DEF Next

LEMMA RealKept ==
  ASSUME TypeOK, RunsOwned, Past, RunningIsReal, Next
  PROVE  RunningIsReal'
<1> SUFFICES ASSUME ~scope.storeFails, NEW i \in Id, policies'[i] # Nothing
             PROVE  /\ policies'[i].lastStatus = "running" =>
                         \E k \in Runs : run'[k].id = i /\ run'[k].pc # "begin"
                    /\ policies'[i].lastUpdate = "running" =>
                         \E k \in Runs : run'[k].id = i /\ run'[k].pc = "update"
  BY DEF RunningIsReal, Next
<1>1. /\ policies \in [Id -> Policy \cup {Nothing}]
      /\ run \in [Runs -> [pc : {"none", "begin", "check", "update"}, id : Id \cup {0}]]
  BY DEF TypeOK
<1>2. policies[i] # Nothing =>
        /\ policies[i].lastStatus = "running" => \E k \in Runs : run[k].id = i /\ run[k].pc # "begin"
        /\ policies[i].lastUpdate = "running" => \E k \in Runs : run[k].id = i /\ run[k].pc = "update"
  BY DEF RunningIsReal
<1>3. CASE Restart \/ NewState
  BY <1>3, MarkingGoesOn DEF Restart, NewState
<1>4. ASSUME NEW k \in Runs, RunStep(k)
      PROVE  /\ policies'[i].lastStatus = "running" =>
                  \E j \in Runs : run'[j].id = i /\ run'[j].pc # "begin"
             /\ policies'[i].lastUpdate = "running" =>
                  \E j \in Runs : run'[j].id = i /\ run'[j].pc = "update"
  <2>1. PICK n \in Id :
           /\ run[k].id = n /\ Onward
           /\ \A j \in Id : j # n => policies'[j] = policies[j]
           /\ policies'[n] # Nothing =>
                \/ /\ run[k].pc = "begin"
                   /\ policies'[n].lastUpdate = policies[n].lastUpdate
                   /\ run' = [run EXCEPT ![k].pc = "check"]
                \/ /\ run[k].pc = "check" /\ run' = [run EXCEPT ![k].pc = "update"]
                   /\ policies'[n].lastStatus = policies[n].lastStatus
                \/ /\ policies'[n].lastStatus = "ended"
                   /\ policies'[n].lastUpdate = "ended" \/ /\ run[k].pc = "check"
                                                           /\ policies'[n].lastUpdate = policies[n].lastUpdate
                   /\ run' = [run EXCEPT ![k] = NoRun]
    BY <1>4, RunRecords
  <2>2. \A j \in Runs : j # k => run'[j] = run[j]
    BY <1>1, <1>4 DEF RunStep, Begin, Attempt, Finish
  <2>3. policies[i] # Nothing
    BY <2>1 DEF Onward
  <2>4. CASE i # n
    <3>1. \A j \in Runs : run[j].id = i => run'[j] = run[j]
      BY <2>1, <2>2, <2>4
    <3>2. policies'[i] = policies[i]
      BY <2>1, <2>4
    <3> QED BY <2>3, <3>1, <3>2, RealStays
  <2>5. CASE i = n
    <3>1. CASE /\ run[k].pc = "begin"
               /\ policies'[i].lastUpdate = policies[i].lastUpdate
               /\ run' = [run EXCEPT ![k].pc = "check"]
      <4>1. run'[k].id = i /\ run'[k].pc = "check"
        BY <1>1, <2>1, <2>5, <3>1
      <4>2. ASSUME policies[i].lastUpdate = "running"
            PROVE  \E j \in Runs : run'[j].id = i /\ run'[j].pc = "update"
        <5>1. PICK j \in Runs : run[j].id = i /\ run[j].pc = "update"
          BY <1>2, <2>3, <4>2
        <5>2. run'[j] = run[j]
          BY <2>2, <3>1, <5>1
        <5> QED BY <5>1, <5>2
      <4> QED BY <3>1, <4>1, <4>2
    <3>2. CASE run[k].pc = "check" /\ run' = [run EXCEPT ![k].pc = "update"]
      <4>1. run'[k].id = i /\ run'[k].pc = "update"
        BY <1>1, <2>1, <2>5, <3>2
      <4> QED BY <4>1
    <3>3. CASE /\ policies'[i].lastStatus = "ended"
               /\ policies'[i].lastUpdate = "ended" \/ /\ run[k].pc = "check"
                                                       /\ policies'[i].lastUpdate = policies[i].lastUpdate
      <4>1. ASSUME run[k].pc = "check", policies[i].lastUpdate = "running"
            PROVE  \E j \in Runs : run'[j].id = i /\ run'[j].pc = "update"
        <5>1. PICK j \in Runs : run[j].id = i /\ run[j].pc = "update"
          BY <1>2, <2>3, <4>1
        <5>2. run'[j] = run[j]
          BY <2>2, <4>1, <5>1
        <5> QED BY <5>1, <5>2
      <4> QED BY <3>3, <4>1
    <3> QED BY <2>1, <2>5, <3>1, <3>2, <3>3
  <2> QED BY <2>4, <2>5
<1>5. ASSUME NEW t \in scope.targets, NEW id \in Id \cup {0}, NEW s \in scope.settings, Put(t, id, s),
             ~Restart, ~(\E k \in Runs : RunStep(k))
      PROVE  /\ policies'[i].lastStatus = "running" =>
                  \E j \in Runs : run'[j].id = i /\ run'[j].pc # "begin"
             /\ policies'[i].lastUpdate = "running" =>
                  \E j \in Runs : run'[j].id = i /\ run'[j].pc = "update"
  <2>1. PICK n \in Id, p \in Policy :
          /\ p.lastUpdate = "none"
          /\ p.lastStatus = "running" => policies[n] # Nothing /\ policies[n].lastStatus = "running"
          /\ policies' \in {policies, [policies EXCEPT ![n] = p]}
    BY <1>5, PutIs
  <2>2. policies'[i] = policies[i] \/ (i = n /\ policies'[i] = p)
    BY <1>1, <2>1
  <2>3. \A k \in Runs : run[k].id = i => run'[k] = run[k]
    BY <1>5, RunsStay
  <2>4. CASE policies'[i] = policies[i]
    BY <2>3, <2>4, RealStays
  <2>5. CASE i = n /\ policies'[i] = p
    <3>1. policies'[i].lastUpdate # "running"
      BY <2>1, <2>5
    <3>2. CASE policies'[i].lastStatus = "running"
      BY <2>1, <2>3, <2>5, <3>1, <3>2, RealStays
    <3> QED BY <3>1, <3>2
  <2> QED BY <2>2, <2>4, <2>5
<1>6. ASSUME ~Restart, ~NewState, ~(\E k \in Runs : RunStep(k)),
             ~(\E t \in scope.targets, id \in Id \cup {0}, s \in scope.settings : Put(t, id, s))
      PROVE  /\ policies'[i].lastStatus = "running" =>
                  \E j \in Runs : run'[j].id = i /\ run'[j].pc # "begin"
             /\ policies'[i].lastUpdate = "running" =>
                  \E j \in Runs : run'[j].id = i /\ run'[j].pc = "update"
  <2>1. /\ policies[i] # Nothing /\ policies'[i].lastStatus = policies[i].lastStatus
        /\ policies'[i].lastUpdate = policies[i].lastUpdate
    BY <1>6, SaysTheSame
  <2>2. \A k \in Runs : run[k].id = i => run'[k] = run[k]
    BY <1>6, RunsStay
  <2> QED BY <2>1, <2>2, RealStays
<1> QED BY <1>3, <1>4, <1>5, <1>6

-----------------------------------------------------------------------------
\* A Runner that nothing has been kept from wakes up in time.

\* The steps of other Runners and of the runs, the requests and the process leave a
\* Runner where it is; if it may still rely on what it knew, it could before, and
\* the policies only went on.
LEMMA Undisturbed ==
  ASSUME TypeOK, RunsOwned, Past, Next, ~scope.storeFails, ~Restart,
         NEW r \in Runtime, ~Runner(r), loop[r].pc # "off", Relies(r)'
  PROVE  /\ Relies(r) /\ Onward
         /\ loop'[r].pc = loop[r].pc /\ loop'[r].deadline = loop[r].deadline /\ loop'[r].read = loop[r].read
         /\ \A i \in Id : started'[r][i] = started[r][i]
<1>1. /\ loop \in [Runtime -> RunnerState] /\ started \in [Runtime -> [Id -> Time]]
      /\ current \in Nat /\ newest \in Nat /\ r \in Nat
      /\ newest \in {current, current + 1}
      /\ api.runtime \in Runtime /\ api.runtime \in Nat /\ r <= newest
  <2>1. api.runtime \in Runtime /\ current \in Runtime /\ newest \in Runtime
    BY DEF TypeOK
  <2>2. api.runtime \in Nat /\ current \in Nat /\ newest \in Nat /\ r \in Nat
    BY <2>1, NumbersAreNat
  <2>3. r <= newest
    BY <2>2 DEF TypeOK
  <2> QED BY <2>1, <2>2, <2>3 DEF TypeOK
<1>2. r >= current' /\ r \notin wake' /\ api'.step # "wake" /\ ~loop'[r].missed
  <2>1. ~(r < current')
    BY DEF Relies, Cancelled
  <2>2. current' \in Nat
    <3>1. current' \in Runtime
      BY TypesKept DEF TypeOK
    <3> QED BY <3>1, NumbersAreNat
  <2> QED BY <1>1, <2>1, <2>2 DEF Relies
<1>3. ASSUME loop'[r] = loop[r], current' = current \/ Swap,
             r \in wake => r \in wake', api.step = "wake" => api'.step = "wake", Onward,
             started'[r] = started[r]
      PROVE  /\ Relies(r) /\ Onward
             /\ loop'[r].pc = loop[r].pc /\ loop'[r].deadline = loop[r].deadline
             /\ loop'[r].read = loop[r].read
             /\ \A i \in Id : started'[r][i] = started[r][i]
  <2>1. ~(r < current)
    BY <1>1, <1>2, <1>3 DEF Swap
  <2> QED BY <1>2, <1>3, <2>1 DEF Relies, Cancelled
<1>4. ASSUME NEW t \in scope.targets, NEW id \in Id \cup {0}, NEW s \in scope.settings, Put(t, id, s)
      PROVE  FALSE
  <2>1. api' = ToWake
    BY <1>4, PutIs
  <2> QED BY <1>2, <2>1 DEF ToWake, Done
<1>5. Onward
  BY <1>4, GoesOn
<1>6. ASSUME NEW q \in Runtime, Runner(q)
      PROVE  /\ loop'[r] = loop[r] /\ current' = current /\ (r \in wake => r \in wake')
             /\ api' = api /\ started'[r] = started[r]
  <2>1. q # r
    BY <1>6
  <2>2. CASE Awake(q)
    BY <1>1, <2>1, <2>2 DEF Awake
  <2>3. CASE Tick(q)
    <3>1. UNCHANGED <<current, wake, api>> /\ \A x \in Runtime : x # q => loop'[x] = loop[x]
      BY <1>1, <2>3 DEF Tick
    <3>2. UNCHANGED started \/ \E m : started' = [started EXCEPT ![q][m] = now]
      BY <2>3 DEF Tick
    <3> QED BY <1>1, <2>1, <3>1, <3>2
  <2>4. CASE TickAgain(q)
    BY <1>1, <2>1, <2>4 DEF TickAgain
  <2>5. CASE LoopEnds(q)
    BY <1>1, <2>1, <2>5 DEF LoopEnds
  <2> QED BY <1>6, <2>2, <2>3, <2>4, <2>5 DEF Runner
<1>7. CASE \E k \in Runs : RunStep(k)
  <2>1. UnchangedByRun
    BY <1>7 DEF RunStep, Begin, Attempt, Finish
  <2> QED BY <1>3, <1>5, <2>1 DEF UnchangedByRun
<1>8. CASE Request \/ Follow
  <2>1. ASSUME NEW i \in Id, RunNow(i)
        PROVE  UNCHANGED <<loop, wake, current, started, api>>
    BY <2>1 DEF RunNow, UnchangedByRun
  <2>2. ASSUME ~\E i \in Id : RunNow(i)
        PROVE  UNCHANGED <<loop, wake, current, started>> /\ api.step # "wake"
    BY <1>4, <1>8, <2>2 DEF Request, Delete, ChangeContainer, Follow, UnchangedByApi
  <2> QED BY <1>3, <1>5, <2>1, <2>2
<1>9. CASE Wake
  <2>1. wake' = wake \cup {api.runtime} /\ loop' = Passed(api.runtime) /\ UNCHANGED current
    BY <1>9 DEF Wake, UnchangedByApi
  <2>2. r # api.runtime
    BY <1>2, <2>1
  <2>3. api.runtime <= current /\ current = current'
    BY <2>1 DEF Past
  <2>4. r > api.runtime
    BY <1>1, <1>2, <2>2, <2>3
  <2>5. r \in (api.runtime + 1)..newest
    BY <1>1, <2>4
  <2>6. loop'[r].missed
    BY <1>1, <2>1, <2>5, PassedIs
  <2> QED BY <1>2, <2>6
<1>10. CASE NewState
  <2>1. loop' = [loop EXCEPT ![newest + 1] = StartLoop] /\ UNCHANGED <<current, wake, started, api>>
    BY <1>10 DEF NewState
  <2>2. loop'[r] = loop[r]
    BY <1>1, <2>1
  <2> QED BY <1>3, <1>5, <2>1, <2>2
<1>11. CASE Swap \/ TimePasses
  BY <1>3, <1>5, <1>11 DEF Swap, TimePasses, volatile
<1>12. CASE \E q \in Runtime : Runner(q)
  <2>1. PICK q \in Runtime : Runner(q)
    BY <1>12
  <2>2. /\ loop'[r] = loop[r] /\ current' = current /\ (r \in wake => r \in wake')
        /\ api' = api /\ started'[r] = started[r]
    BY <1>6, <2>1
  <2> QED BY <1>3, <1>5, <2>2
<1> QED BY <1>7, <1>8, <1>9, <1>10, <1>11, <1>12 DEF Next

\* Policies that went on are due no earlier for a Runner that started nothing.
LEMMA DueLater ==
  ASSUME TypeOK, Past, Onward, NEW r \in Runtime, NEW i \in Id, i \in Enabled(policies)',
         started'[r][i] = started[r][i]
  PROVE  /\ i \in Enabled(policies)
         /\ Due(Seen(r, i, policies[i])) \in Nat /\ Due(Seen(r, i, policies[i]))' \in Nat
         /\ Due(Seen(r, i, policies[i])) <= Due(Seen(r, i, policies[i]))'
<1>1. policies'[i] # Nothing /\ policies'[i].settings.enabled
  BY DEF Enabled
<1>2. PICK p \in Policy, q \in Policy : p = policies[i] /\ q = policies'[i]
  <2>1. policies \in [Id -> Policy \cup {Nothing}]
    BY DEF TypeOK
  <2> QED BY <1>1, <2>1 DEF Onward
<1>3. p.settings = q.settings /\ p.updatedAt <= q.updatedAt /\ p.lastRunAt <= q.lastRunAt
  <2>1. p.settings = q.settings /\ p.updatedAt = q.updatedAt /\ p.lastRunAt <= q.lastRunAt
    BY <1>1, <1>2 DEF Onward
  <2>2. p.updatedAt \in Nat
    BY PolicyIs
  <2> QED BY <2>1, <2>2
<1>4. i \in Enabled(policies)
  BY <1>1, <1>2, <1>3 DEF Enabled, Onward
<1>5. started[r][i] \in Nat
  BY StartedIs
<1>6. Due(Seen(r, i, p)) \in Nat /\ Due(Seen(r, i, q)) \in Nat /\ Due(Seen(r, i, p)) <= Due(Seen(r, i, q))
  BY <1>3, <1>5, DueGrows
<1>7. Due(Seen(r, i, policies[i])) = Due(Seen(r, i, p))
  BY <1>2
<1>8. Due(Seen(r, i, policies[i]))' = Due(Seen(r, i, q))
  BY <1>2 DEF Due, Seen
<1> QED BY <1>4, <1>6, <1>7, <1>8

\* The new Runner of a reload or a restart starts with an expired timer, and a restart
\* leaves no other.
LEMMA NewRunner ==
  ASSUME TypeOK, NEW r \in Runtime, loop'[r].pc \in {"asleep", "tick"},
         Restart \/ (Next /\ loop[r].pc = "off")
  PROVE  loop'[r].pc = "asleep" /\ loop'[r].deadline = now /\ UNCHANGED now
<1>1. StartLoop.pc = "asleep" /\ StartLoop.deadline = now /\ Off.pc = "off"
      /\ [Off EXCEPT !.pc = "over"].pc = "over"
  BY DEF StartLoop, Off
<1>2. loop \in [Runtime -> RunnerState]
  BY DEF TypeOK
<1>3. CASE Restart
  <2>1. loop'[r] \in {StartLoop, [Off EXCEPT !.pc = "over"], Off} /\ UNCHANGED now
    BY <1>3 DEF Restart
  <2> QED BY <1>1, <2>1
<1>4. CASE Next /\ ~Restart /\ loop[r].pc = "off"
  <2>1. ASSUME loop'[r].pc = loop[r].pc
        PROVE  FALSE
    BY <1>4, <2>1
  <2>2. ASSUME NEW q \in Runtime, Runner(q)
        PROVE  loop'[r] = loop[r]
    <3>1. q # r
      BY <1>4, <2>2 DEF Runner, Awake, Tick, TickAgain, LoopEnds
    <3>2. \E x : loop' = [loop EXCEPT ![q] = x]
      <4>1. CASE Awake(q)
        <5>1. CASE loop' = [loop EXCEPT ![q].deadline = now + Retry]
          BY <5>1
        <5>2. CASE loop' = [loop EXCEPT ![q] = [@ EXCEPT !.pc = "tick", !.read = policies, !.missed = FALSE]]
          BY <5>2
        <5> QED BY <4>1, <5>1, <5>2 DEF Awake
      <4>2. CASE Tick(q)
        BY <4>2 DEF Tick
      <4>3. CASE TickAgain(q) \/ LoopEnds(q)
        BY <4>3 DEF TickAgain, LoopEnds
      <4> QED BY <2>2, <4>1, <4>2, <4>3 DEF Runner
    <3> QED BY <1>2, <3>1, <3>2
  <2>3. ASSUME ~(\E q \in Runtime : Runner(q)), ~Wake, ~NewState
        PROVE  loop'[r] = loop[r]
    BY <1>4, <2>3 DEF Next, RunStep, Begin, Attempt, Finish, Request, Put, Delete, RunNow, ChangeContainer,
      Follow, Swap, TimePasses, UnchangedByRun, UnchangedByApi, volatile
  <2>4. CASE Wake
    <3>1. api.runtime \in Runtime /\ loop' = Passed(api.runtime)
      BY <2>4 DEF Wake, TypeOK
    <3>2. loop'[r].pc = loop[r].pc
      BY <3>1, PassedIs
    <3> QED BY <2>1, <3>2
  <2>5. CASE NewState
    <3>1. loop' = [loop EXCEPT ![newest + 1] = StartLoop] /\ UNCHANGED now
      BY <2>5 DEF NewState
    <3>2. loop'[r] = loop[r] \/ loop'[r] = StartLoop
      BY <1>2, <3>1
    <3> QED BY <1>1, <2>1, <3>1, <3>2
  <2> QED BY <2>1, <2>2, <2>3, <2>4, <2>5
<1> QED BY <1>3, <1>4

\* What a Runner read is as early as what is stored, until somebody is to tell it.
LEMMA ReadKept ==
  ASSUME TypeOK, RunsOwned, Past, ReadIsEarly, Next
  PROVE  ReadIsEarly'
<1> SUFFICES ASSUME ~scope.storeFails, NEW r \in Runtime, loop'[r].pc = "tick", Relies(r)',
                    NEW i \in Id, i \in Enabled(policies)'
             PROVE  /\ i \in Enabled(loop[r].read)'
                    /\ Due(Seen(r, i, loop[r].read[i]))' <= Due(Seen(r, i, policies[i]))'
  <2>1. (ReadIsEarly)' <=>
          (~scope'.storeFails => \A r \in Runtime : loop'[r].pc = "tick" /\ Relies(r)' =>
             \A i \in Enabled(policies)' :
               /\ i \in Enabled(loop[r].read)'
               /\ Due(Seen(r, i, loop[r].read[i]))' <= Due(Seen(r, i, policies[i]))')
    BY DEF ReadIsEarly
  <2>2. Enabled(policies)' \subseteq Id
    BY DEF Enabled
  <2>3. scope' = scope
    BY DEF Next
  <2> QED BY <2>1, <2>2, <2>3
<1>1. loop[r].pc # "off" /\ ~Restart
  BY NewRunner
<1>2. CASE ~Runner(r)
  <2>1. /\ Relies(r) /\ Onward
        /\ loop'[r].pc = loop[r].pc /\ loop'[r].read = loop[r].read
        /\ \A j \in Id : started'[r][j] = started[r][j]
    BY <1>1, <1>2, Undisturbed
  <2>2. /\ i \in Enabled(policies)
        /\ Due(Seen(r, i, policies[i])) \in Nat /\ Due(Seen(r, i, policies[i]))' \in Nat
        /\ Due(Seen(r, i, policies[i])) <= Due(Seen(r, i, policies[i]))'
    BY <2>1, DueLater
  <2>3. /\ i \in Enabled(loop[r].read)
        /\ Due(Seen(r, i, loop[r].read[i])) <= Due(Seen(r, i, policies[i]))
    BY <2>1, <2>2 DEF ReadIsEarly
  <2>4. PICK q : q = loop[r].read[i] /\ q = loop'[r].read[i]
    BY <2>1
  <2>5. Due(Seen(r, i, loop[r].read[i]))' = Due(Seen(r, i, q))
    BY <2>1, <2>4 DEF Due, Seen
  <2>6. i \in Enabled(loop[r].read)'
    BY <2>1, <2>3 DEF Enabled
  <2>7. PICK a, b, c : a = Due(Seen(r, i, q)) /\ b = Due(Seen(r, i, policies[i]))
                       /\ c = Due(Seen(r, i, policies[i]))'
    OBVIOUS
  <2>8. a \in Nat
    <3>1. q \in Policy
      <4>1. loop[r] \in RunnerState
        BY DEF TypeOK
      <4> QED BY <2>3, <2>4, <4>1 DEF RunnerState, Enabled
    <3>2. q.updatedAt <= q.updatedAt /\ q.lastRunAt <= q.lastRunAt
      BY <3>1, PolicyIs
    <3>3. started[r][i] \in Nat
      BY StartedIs
    <3> QED BY <2>7, <3>1, <3>2, <3>3, DueGrows
  <2>9. a <= b /\ b <= c /\ b \in Nat /\ c \in Nat
    BY <2>2, <2>3, <2>4, <2>7
  <2>10. a <= c
    BY <2>8, <2>9
  <2> QED BY <2>5, <2>6, <2>7, <2>10
<1>3. CASE Runner(r)
  <2>1. Awake(r) /\ loop' = [loop EXCEPT ![r] = [@ EXCEPT !.pc = "tick", !.read = policies, !.missed = FALSE]]
    <3>1. CASE Awake(r)
      BY <3>1 DEF Awake, TypeOK
    <3>2. CASE Tick(r) \/ TickAgain(r) \/ LoopEnds(r)
      <4>1. loop \in [Runtime -> RunnerState]
        BY DEF TypeOK
      <4>2. loop'[r].pc \in {"asleep", "busy", "over"}
        BY <3>2, <4>1 DEF Tick, TickAgain, LoopEnds, Off
      <4> QED BY <4>2
    <3> QED BY <1>3, <3>1, <3>2 DEF Runner
  <2>2. loop'[r].read = policies /\ UNCHANGED policies
    BY <2>1 DEF Awake, TypeOK, RunnerState
  <2>3. PICK q : q = policies'[i] /\ q = loop'[r].read[i]
    BY <2>2
  <2>4. Due(Seen(r, i, loop[r].read[i]))' = Due(Seen(r, i, policies[i]))'
    BY <2>3 DEF Due, Seen
  <2>5. i \in Enabled(loop[r].read)'
    BY <2>2 DEF Enabled
  <2>6. Due(Seen(r, i, policies[i]))' \in Nat
    <3>1. policies'[i] # Nothing /\ policies' \in [Id -> Policy \cup {Nothing}]
      BY TypesKept DEF Enabled, TypeOK
    <3>2. q \in Policy
      BY <2>3, <3>1
    <3>3. q.updatedAt <= q.updatedAt /\ q.lastRunAt <= q.lastRunAt
      BY <3>2, PolicyIs
    <3>4. started'[r][i] = started[r][i] /\ started[r][i] \in Nat
      BY <2>1, StartedIs DEF Awake
    <3>5. Due(Seen(r, i, q)) \in Nat
      BY <3>2, <3>3, <3>4, DueGrows
    <3>6. Due(Seen(r, i, policies[i]))' = Due(Seen(r, i, q))
      BY <2>3, <3>4 DEF Due, Seen
    <3> QED BY <3>5, <3>6
  <2> QED BY <2>4, <2>5, <2>6
<1> QED BY <1>2, <1>3

\* A Runner sleeps no longer than until what it read is due, and what is stored is
\* due no earlier than that.
LEMMA SleepKept ==
  ASSUME TypeOK, RunsOwned, Past, ReadIsEarly, SleepsUntilDue, Next
  PROVE  SleepsUntilDue'
<1> SUFFICES ASSUME ~scope.storeFails, NEW r \in Runtime, loop'[r].pc = "asleep", Relies(r)',
                    NEW i \in Id, i \in Enabled(policies)'
             PROVE  loop'[r].deadline <= Max({now', Due(Seen(r, i, policies[i]))'})
  <2>1. (SleepsUntilDue)' <=>
          (~scope'.storeFails => \A r \in Runtime :
             loop'[r].pc = "asleep" /\ Relies(r)' =>
               \A i \in Enabled(policies)' :
                 loop'[r].deadline <= Max({now', Due(Seen(r, i, policies[i]))'}))
    BY DEF SleepsUntilDue, Relies
  <2>2. Enabled(policies)' \subseteq Id
    BY DEF Enabled
  <2>3. scope' = scope
    BY DEF Next
  <2> QED BY <2>1, <2>2, <2>3
<1>1. now \in Nat /\ now' \in Nat /\ now <= now'
  <2>1. now \in Nat
    BY NumbersAreNat DEF TypeOK
  <2>2. now' = now \/ TimePasses
    BY DEF Next, Runner, Awake, Tick, TickAgain, LoopEnds, RunStep, Begin, Attempt, Finish, Request, Put,
      Delete, RunNow, ChangeContainer, Follow, Wake, Restart, NewState, Swap, UnchangedByRun, UnchangedByApi
  <2> QED BY <2>1, <2>2 DEF TimePasses
<1>2. /\ Due(Seen(r, i, policies[i]))' \in Nat
      /\ loop'[r].deadline \in Nat
  <2>1. /\ policies'[i] # Nothing /\ policies' \in [Id -> Policy \cup {Nothing}]
        /\ loop' \in [Runtime -> RunnerState] /\ started' \in [Runtime -> [Id -> Time]]
    BY TypesKept DEF Enabled, TypeOK
  <2>2. PICK q \in Policy : q = policies'[i]
    BY <2>1
  <2>3. q.lastRunAt \in Nat /\ q.updatedAt \in Nat /\ q.settings.schedule \in Schedule
    BY PolicyIs
  <2>4. PICK s \in Nat : s = started'[r][i]
    BY <2>1, NumbersAreNat
  <2>5. Due(Seen(r, i, policies[i]))' =
          NextTrigger(q.settings.schedule, Max({q.updatedAt, Max({q.lastRunAt, s})}))
    BY <2>2, <2>4 DEF Due, Seen, Policy
  <2>6. PICK m \in Nat : m = Max({q.lastRunAt, s})
    BY <2>3, GreaterOf
  <2>7. PICK n \in Nat : n = Max({q.updatedAt, m})
    BY <2>3, GreaterOf
  <2>8. NextTrigger(q.settings.schedule, n) \in Nat
    BY <2>3, TriggerGrows
  <2>9. loop'[r].deadline \in Nat
    <3>1. loop'[r].deadline \in 0..(MaxTime + MaxSleep + Retry)
      BY <2>1 DEF RunnerState
    <3> QED BY <3>1, NumbersAreNat
  <2> QED BY <2>5, <2>6, <2>7, <2>8, <2>9
<1>3. PICK d \in Nat : d = Due(Seen(r, i, policies[i]))'
  BY <1>2
<1>4. Max({now', d}) \in Nat /\ now' <= Max({now', d}) /\ d <= Max({now', d})
  BY <1>1, GreaterOf
<1>5. ASSUME loop'[r].deadline <= now' \/ loop'[r].deadline <= d
      PROVE  loop'[r].deadline <= Max({now', Due(Seen(r, i, policies[i]))'})
  <2>1. PICK a \in Nat, b \in Nat : a = loop'[r].deadline /\ b = Max({now', d})
    BY <1>2, <1>4
  <2>2. a <= b
    BY <1>1, <1>4, <1>5, <2>1
  <2> QED BY <1>3, <2>1, <2>2
<1>6. CASE Restart \/ loop[r].pc = "off"
  <2>1. loop'[r].deadline = now /\ now' = now
    BY <1>6, NewRunner
  <2> QED BY <1>1, <1>5, <2>1
<1>7. CASE ~Restart /\ loop[r].pc # "off" /\ ~Runner(r)
  <2>1. /\ Relies(r) /\ Onward
        /\ loop'[r].pc = loop[r].pc /\ loop'[r].deadline = loop[r].deadline
        /\ \A j \in Id : started'[r][j] = started[r][j]
    BY <1>7, Undisturbed
  <2>2. /\ i \in Enabled(policies)
        /\ Due(Seen(r, i, policies[i])) \in Nat
        /\ Due(Seen(r, i, policies[i])) <= Due(Seen(r, i, policies[i]))'
    BY <2>1, DueLater
  <2>3. loop[r].deadline <= Max({now, Due(Seen(r, i, policies[i]))})
    BY <2>1, <2>2 DEF SleepsUntilDue, Relies
  <2>4. PICK c \in Nat : c = Due(Seen(r, i, policies[i])) /\ c <= d
    BY <1>3, <2>2
  <2>5. Max({now, c}) \in {now, c}
    BY <1>1, GreaterOf
  <2>6. loop'[r].deadline <= now \/ loop'[r].deadline <= c
    BY <2>1, <2>3, <2>4, <2>5
  <2>7. PICK a \in Nat : a = loop'[r].deadline
    BY <1>2
  <2>8. a <= now' \/ a <= d
    BY <1>1, <2>4, <2>6, <2>7
  <2> QED BY <1>5, <2>7, <2>8
<1>8. CASE Runner(r)
  <2>0. loop \in [Runtime -> RunnerState]
    BY DEF TypeOK
  <2>1. CASE Tick(r)
    <3>1. ~Cancelled(r)
      BY <2>1 DEF Relies, Cancelled, Tick
    <3>2. DueNow(r, loop[r].read) = {}
      <4>1. CASE ~(DueNow(r, loop[r].read) = {})
        <5>1. loop' = [loop EXCEPT ![r] = [Off EXCEPT !.pc = "busy"]]
          BY <2>1, <3>1, <4>1 DEF Tick
        <5>2. loop'[r].pc = "busy"
          BY <2>0, <5>1 DEF Off
        <5> QED BY <5>2
      <4> QED BY <4>1
    <3>3. /\ loop' = [loop EXCEPT ![r] =
               [Off EXCEPT !.pc = "asleep", !.missed = loop[r].missed,
                           !.deadline = now + Sleep(r, loop[r].read)]]
          /\ UNCHANGED <<now, policies, nextId, shown, current, newest, wake, started, run, api>>
      BY <2>1, <3>1, <3>2 DEF Tick
    <3>4. loop'[r].missed = loop[r].missed /\ loop'[r].deadline = now + Sleep(r, loop[r].read)
      BY <2>0, <3>3 DEF Off
    <3>5. loop[r].pc = "tick" /\ Relies(r)
      BY <2>1, <3>1, <3>3, <3>4 DEF Relies, Tick
    <3>6. i \in Enabled(policies)
      BY <3>3 DEF Enabled
    <3>7. /\ i \in Enabled(loop[r].read)
          /\ Due(Seen(r, i, loop[r].read[i])) <= Due(Seen(r, i, policies[i]))
      BY <3>5, <3>6 DEF ReadIsEarly
    <3>8. loop[r].read \in [Id -> Policy \cup {Nothing}]
      BY <2>0 DEF RunnerState
    <3>9. /\ Due(Seen(r, i, loop[r].read[i])) \in Nat
          /\ now + Sleep(r, loop[r].read) <= Due(Seen(r, i, loop[r].read[i]))
      BY <3>2, <3>7, <3>8, SleepIs
    <3>10. Due(Seen(r, i, policies[i]))' = Due(Seen(r, i, policies[i]))
      <4>1. PICK q : q = policies[i] /\ q = policies'[i]
        BY <3>3
      <4>2. Due(Seen(r, i, policies[i]))' = Due(Seen(r, i, q))
        BY <3>3, <4>1 DEF Due, Seen
      <4> QED BY <4>1, <4>2
    <3>11. PICK a \in Nat, b \in Nat : a = loop'[r].deadline /\ b = Due(Seen(r, i, loop[r].read[i]))
      BY <1>2, <3>9
    <3>12. a <= b /\ b <= d
      BY <1>3, <3>4, <3>7, <3>9, <3>10, <3>11
    <3>13. a <= d
      BY <3>12
    <3> QED BY <1>5, <3>11, <3>13
  <2>2. CASE TickAgain(r)
    <3>1. loop' = [loop EXCEPT ![r] = [Off EXCEPT !.pc = "asleep", !.deadline = now]] /\ UNCHANGED now
      BY <2>2 DEF TickAgain
    <3>2. loop'[r].deadline = now
      BY <2>0, <3>1 DEF Off
    <3> QED BY <1>1, <1>5, <3>1, <3>2
  <2>3. CASE Awake(r) \/ LoopEnds(r)
    <3>1. loop'[r].pc \in {"tick", "over"}
      <4>1. CASE Awake(r)
        <5>1. loop' = [loop EXCEPT ![r] = [@ EXCEPT !.pc = "tick", !.read = policies, !.missed = FALSE]]
          BY <4>1 DEF Awake
        <5> QED BY <2>0, <5>1 DEF RunnerState
      <4>2. CASE LoopEnds(r)
        BY <2>0, <4>2 DEF LoopEnds, Off
      <4> QED BY <2>3, <4>1, <4>2
    <3> QED BY <3>1
  <2> QED BY <1>8, <2>1, <2>2, <2>3 DEF Runner
<1> QED BY <1>6, <1>7, <1>8

-----------------------------------------------------------------------------
\* The theorems.

LEMMA AutoInit == Init => AutoInv
<1> SUFFICES ASSUME Init PROVE AutoInv
  OBVIOUS
<1> USE DEF Init
<1>1. 1 \in Runtime /\ Runtime \subseteq Nat /\ 0 \notin Id /\ Runtime \subseteq Runs
      /\ 1 \in Time /\ 0 \in Time /\ 1 \in 1..(MaxPolicies + 1)
  BY AutoUpdateAssumption DEF Runtime, Id, Runs, Time
<1>2. loop \in [Runtime -> RunnerState] /\ \A r \in Runtime : loop[r].pc = "off" <=> r > newest
  <2>1. 0 \in 0..(MaxTime + MaxSleep + Retry)
    BY NumbersAreNat
  <2>2. Off \in RunnerState /\ [Off EXCEPT !.pc = "asleep"] \in RunnerState
        /\ Off.pc = "off" /\ [Off EXCEPT !.pc = "asleep"].pc = "asleep"
    <3>1. [i \in Id |-> Nothing] \in [Id -> Policy \cup {Nothing}]
      OBVIOUS
    <3> QED BY <2>1, <3>1 DEF Off, RunnerState
  <2>3. loop = [r \in Runtime |-> IF r = 1 THEN [Off EXCEPT !.pc = "asleep"] ELSE Off] /\ newest = 1
    OBVIOUS
  <2>4. \A r \in Runtime : r \in Nat /\ r >= 1
    BY NumbersAreNat DEF Runtime
  <2> QED BY <2>2, <2>3, <2>4
<1>3. api \in [step : {"done", "follow", "wake"}, runtime : Runtime,
               from : Target \cup {"nothing"}, to : Target \cup {"nothing"}]
  BY <1>1, RequestStates
<1>4. run \in [Runs -> [pc : {"none", "begin", "check", "update"}, id : Id \cup {0}]]
      /\ \A k \in Runs : run[k].pc = "none" /\ run[k].id = 0
  BY DEF NoRun
<1>5. TypeOK
  BY <1>1, <1>2, <1>3, <1>4 DEF TypeOK
<1>6. RunsOwned
  BY <1>1, <1>4 DEF RunsOwned
<1>7. Past
  BY DEF Past, Done
<1>8. RunningIsReal
  BY DEF RunningIsReal
<1>9. Enabled(policies) = {}
  BY DEF Enabled
<1>10. ReadIsEarly /\ SleepsUntilDue
  BY <1>9 DEF ReadIsEarly, SleepsUntilDue
<1> QED BY <1>5, <1>6, <1>7, <1>8, <1>10 DEF AutoInv

LEMMA AutoStutters ==
  ASSUME AutoInv, UNCHANGED vars
  PROVE  AutoInv'
<1>1. UNCHANGED <<now, policies, nextId, current, newest, loop, wake, started, run, shown, api, scope>>
  BY DEF vars, volatile
<1>2. TypeOK' /\ RunsOwned' /\ Past' /\ RunningIsReal'
  BY <1>1 DEF AutoInv, TypeOK, RunsOwned, Past, RunningIsReal
<1>3. ReadIsEarly'
  BY <1>1, Zenon DEF AutoInv, ReadIsEarly, Relies, Cancelled, Enabled, Due, Seen
<1>4. SleepsUntilDue'
  BY <1>1, Zenon DEF AutoInv, SleepsUntilDue, Cancelled, Enabled, Due, Seen
<1> QED BY <1>2, <1>3, <1>4 DEF AutoInv

\* The inductive invariant of the policies and their Runners (autoupdate.go).
THEOREM AutoIsKept == Spec => []AutoInv
<1>1. Init => AutoInv
  BY AutoInit
<1>2. AutoInv /\ [Next]_vars => AutoInv'
  <2>1. AutoInv /\ Next => AutoInv'
    BY TypesKept, OwnersKept, PastKept, RealKept, ReadKept, SleepKept DEF AutoInv
  <2>2. AutoInv /\ UNCHANGED vars => AutoInv'
    BY AutoStutters
  <2> QED BY <2>1, <2>2
<1> QED BY <1>1, <1>2, PTL DEF Spec

\* The state keeps its types, and what config.json says of a run is true unless it
\* could not be written (recordAutoUpdate, markInterruptedAutoUpdates).
THEOREM AutoSound == Spec => []Sound
<1>1. AutoInv => Sound
  BY DEF AutoInv, Sound
<1> QED BY <1>1, AutoIsKept, PTL

\* A Runner that has been told of every change wakes up by the time its earliest
\* policy is due (Runner.tick, Runner.Wake).
THEOREM NeverOversleeps == Spec => []SleepsUntilDue
<1>1. AutoInv => SleepsUntilDue
  BY DEF AutoInv
<1> QED BY <1>1, AutoIsKept, PTL

\* A Runner starts a policy again only at a trigger after the last start (Runner.started).
THEOREM StartsOncePerTrigger == Spec => OncePerTrigger
<1> DEFINE Again == \A r \in Runtime, i \in Id :
             started'[r][i] > started[r][i] =>
               LET p == loop[r].read[i]
               IN  NextTrigger(p.settings.schedule, Max({p.updatedAt, started[r][i]})) <= now
<1>1. AutoInv /\ [Next]_vars => [Again]_vars
  <2> SUFFICES ASSUME AutoInv, Next, NEW q \in Runtime, NEW i \in Id, started'[q][i] > started[q][i]
               PROVE  LET p == loop[q].read[i]
                      IN  NextTrigger(p.settings.schedule, Max({p.updatedAt, started[q][i]})) <= now
    OBVIOUS
  <2>1. TypeOK /\ RunsOwned /\ Past /\ now \in Nat /\ started[q][i] \in Nat
    <3>1. TypeOK /\ RunsOwned /\ Past
      BY DEF AutoInv
    <3> QED BY <3>1, StartedIs, NumbersAreNat DEF TypeOK
  <2>2. ~(started'[q][i] \in {started[q][i], 0})
    BY <2>1
  <2>3. PICK r \in Runtime : /\ ~(Cancelled(r) \/ DueNow(r, loop[r].read) = {})
                             /\ started' = [started EXCEPT ![r][Min(DueNow(r, loop[r].read))] = now]
    BY <2>1, <2>2, StartsNoted
  <2>4. PICK m \in Id : m = Min(DueNow(r, loop[r].read)) /\ m \in DueNow(r, loop[r].read)
    BY <2>3, DueIs
  <2>5. q = r /\ i = m
    <3>1. started \in [Runtime -> [Id -> Time]]
      BY <2>1 DEF TypeOK
    <3>2. q # r \/ i # m => started'[q][i] = started[q][i]
      BY <2>3, <2>4, <3>1
    <3> QED BY <2>2, <3>2
  <2>6. PICK p \in Policy : p = loop[q].read[i]
    <3>1. loop[q] \in RunnerState
      BY <2>1 DEF TypeOK
    <3> QED BY <2>4, <2>5, <3>1 DEF RunnerState, DueNow, Enabled
  <2>7. Due(Seen(q, i, p)) <= now
    BY <2>4, <2>5, <2>6 DEF DueNow
  <2>8. p.lastRunAt \in Nat /\ p.updatedAt \in Nat /\ p.settings.schedule \in Schedule
    BY PolicyIs
  <2>9. PICK s \in Nat : s = started[q][i]
    BY <2>1
  <2>10. PICK l \in Nat : l = Max({p.lastRunAt, s}) /\ s <= l
    BY <2>8, GreaterOf
  <2>11. PICK a \in Nat, b \in Nat : a = Max({p.updatedAt, s}) /\ b = Max({p.updatedAt, l})
    BY <2>8, GreaterOf
  <2>12. a <= b
    <3>1. p.updatedAt <= p.updatedAt
      BY <2>8
    <3> QED BY <2>8, <2>10, <2>11, <3>1, GreaterGrows
  <2>13. Due(Seen(q, i, p)) = NextTrigger(p.settings.schedule, b)
    BY <2>9, <2>10, <2>11 DEF Due, Seen, Policy
  <2>14. PICK x \in Nat, y \in Nat : x = NextTrigger(p.settings.schedule, a)
                                     /\ y = NextTrigger(p.settings.schedule, b) /\ x <= y
    BY <2>8, <2>12, TriggerGrows
  <2>15. x <= now
    BY <2>1, <2>7, <2>13, <2>14
  <2> QED BY <2>6, <2>9, <2>11, <2>14, <2>15
<1> QED BY <1>1, AutoIsKept, PTL DEF Spec, OncePerTrigger
=============================================================================
