----------------------------- MODULE MCScheduler -----------------------------
(* Scheduler on small instances: an entry for each kind of schedule.          *)
EXTENDS Scheduler

CONSTANTS a, b

NewItem(kind, start, interval, cron, max) ==
    [enabled |-> TRUE, kind |-> kind, start_at |-> start, end_at |-> 0,
     interval |-> interval, cron |-> cron, max_runs |-> max]

\* One entry: every two units of time, at most twice; once, at time 7; or at times
\* that never come.
MCDefinitions ==
    [id \in {a} |-> {NewItem("interval", 0, 2, 0, 2), NewItem("once", 7, 0, 0, 0),
                     NewItem("cron", 0, 0, 0, 0)}]

\* Two entries, aligned to the real time.
TwoEntries ==
    [id \in {a, b} |-> IF id = a THEN {NewItem("interval", 6, 2, 0, 0)}
                       ELSE {NewItem("cron", 0, 0, 3, 0)}]

\* An interval entry that may run before the time is known, and a cron entry, which
\* an update may change to an expression that never matches.
Changing ==
    [id \in {a} |-> {NewItem("interval", 0, 2, 0, 0), NewItem("cron", 0, 0, 3, 0),
                     NewItem("cron", 0, 0, 0, 0)}]

\* An interval entry whose limit of runs an update may change.
Limits ==
    [id \in {a} |-> {NewItem("interval", 0, 2, 0, 1), NewItem("interval", 0, 2, 0, 2)}]
=============================================================================
