---------------------------- MODULE MCAutoUpdate ----------------------------
\* Model checking of AutoUpdate: hourly and clock schedules of period 1 and 2.
EXTENDS AutoUpdate

Hourly(n) == [enabled |-> TRUE, schedule |-> [kind |-> "hours", every |-> n]]
Clock(n)  == [enabled |-> TRUE, schedule |-> [kind |-> "clock", every |-> n]]

MCSettings == {Hourly(1), Clock(2)}

Calm == [targets |-> {"a"}, settings |-> {Hourly(1)}, policies |-> 1, runtimes |-> 1,
         time |-> 2, userRuns |-> FALSE, storeFails |-> FALSE]
Two  == [Calm EXCEPT !.targets = {"a", "b"}, !.policies = 2]

\* Two policies; or one with a reload or a restart; or one that users run, too; or
\* one of either kind of schedule on a file system that fails.
MCAll == {Two,
          [Calm EXCEPT !.runtimes = 2],
          [Calm EXCEPT !.userRuns = TRUE],
          [Calm EXCEPT !.settings = MCSettings, !.time = 4, !.storeFails = TRUE]}
MCTwo == {Two}

\* A run that takes until its policy is due again.
MCLong == {[Two EXCEPT !.time = 3]}
=============================================================================
