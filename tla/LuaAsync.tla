------------------------------- MODULE LuaAsync -------------------------------
(* cap_lua_async: Lua scripts that run as jobs in tasks of their own.         *)
(*                                                                            *)
(* A job lives in a slot of s_jobs, under one mutex.  Callers submit jobs,    *)
(* stop one or stop all; a job's task runs the script, marks the slot         *)
(* terminal and then gives the slot's semaphore.  Every time the mutex is     *)
(* taken is one step, so a caller interleaves with the tasks and with other   *)
(* callers between its checks, its waits and its commit.  The mutex is taken  *)
(* with a time limit: a step that gives up on it is a miss, and there may be  *)
(* MaxMisses of them where giving up changes what is left behind.             *)
(*                                                                            *)
(* A slot outlives its job: a terminal slot keeps the job's record until      *)
(* another job needs the slot.  Which of several terminal slots that is goes  *)
(* by the time of day in seconds, so it may be any of them.                   *)
(*                                                                            *)
(* Left out: the script, its path and arguments, logs and summary; the task   *)
(* handle, which is written and never read; job ids are never drawn twice.    *)
EXTENDS Naturals, FiniteSets, FiniteSetsExt

CONSTANTS
    Callers,        \* tasks that call the capability
    Requests,       \* what they submit: [name, exclusive, replace]
    MaxJobs,        \* CAP_LUA_ASYNC_MAX_JOBS, the number of slots
    MaxConcurrent,  \* CAP_LUA_ASYNC_MAX_CONCURRENT
    Outcomes,       \* how a script that nobody stops may end
    None,           \* no name, no exclusive group
    MaxSubmits, MaxStops, MaxMisses   \* bounds: jobs committed, stops, misses

VARIABLES
    jobs,      \* s_jobs
    sem,       \* s_slot_terminal_sem: 1 when it can be taken
    running,   \* s_running_jobs
    tasks,     \* the tasks that exist: id -> [slot, at], at "run" or "give"
    at, work,  \* where each caller is, and the locals it keeps
    submits, stops, misses,   \* how many there have been
    asked,     \* history: ids somebody asked to stop
    stopped,   \* history: ids a caller was told have stopped
    lost       \* history: ids whose finish or failed start missed the mutex

vars    == <<jobs, sem, running, tasks, at, work, submits, stops, misses,
             asked, stopped, lost>>
counts  == <<submits, stops, misses>>
history == <<asked, stopped, lost>>

Slots    == 1 .. MaxJobs
JobIds   == 1 .. MaxSubmits
Terminal == {"done", "failed", "timeout", "stopped"}
Statuses == Terminal \cup {"queued", "running"}
Names    == {r.name : r \in Requests} \ {None}
Groups   == {r.exclusive : r \in Requests} \ {None}

Job  == [used : BOOLEAN, status : Statuses, id : JobIds \cup {0},
         name : Names \cup {None}, exclusive : Groups \cup {None}, stop : BOOLEAN]
Work == [op : {"none", "submit", "settle", "stop", "stop_all"}, req : Requests,
         slot : Slots, id : JobIds \cup {0}, todo : SUBSET (Slots \X JobIds),
         again : BOOLEAN]
Places == {"idle", "preflight", "commit", "spawn", "mark", "settle",
           "stop", "check", "wait", "recheck"}

ASSUME LuaAssumption ==
    /\ Requests \subseteq [name : Names \cup {None}, exclusive : Groups \cup {None},
                           replace : BOOLEAN]
    /\ Requests # {}
    /\ Outcomes \subseteq Terminal \ {"stopped"} /\ Outcomes # {}
    /\ MaxJobs \in Nat \ {0} /\ MaxConcurrent \in 1 .. MaxJobs
    /\ MaxSubmits \in Nat /\ MaxStops \in Nat /\ MaxMisses \in Nat

\* cap_lua_clear_slot
Cleared == [used |-> FALSE, status |-> "queued", id |-> 0, name |-> None,
            exclusive |-> None, stop |-> FALSE]
NoWork  == [op |-> "none", req |-> CHOOSE r \in Requests : TRUE, slot |-> 1,
            id |-> 0, todo |-> {}, again |-> FALSE]

Init ==
    /\ jobs = [s \in Slots |-> Cleared] /\ sem = [s \in Slots |-> 0]
    /\ running = 0 /\ tasks = [id \in {} |-> Cleared]
    /\ at = [c \in Callers |-> "idle"] /\ work = [c \in Callers |-> NoWork]
    /\ submits = 0 /\ stops = 0 /\ misses = 0
    /\ asked = {} /\ stopped = {} /\ lost = {}

-----------------------------------------------------------------------------
(* The table.                                                                 *)

Active(s) == jobs[s].used /\ jobs[s].status \notin Terminal
Settled(s) == ~Active(s)

\* The first active slot of a name or an exclusive group, as a set of one.
First(S) == IF S = {} THEN {} ELSE {Min(S)}
ByName(n)  == First({s \in Slots : n # None /\ Active(s) /\ jobs[s].name = n})
ByGroup(g) == First({s \in Slots : g # None /\ Active(s) /\ jobs[s].exclusive = g})
ById(id)   == {s \in Slots : jobs[s].used /\ jobs[s].id = id}

\* The slot in the way of a request: its name's, or else its group's.
Conflict(r) == IF ByName(r.name) # {} THEN ByName(r.name) ELSE ByGroup(r.exclusive)

\* cap_lua_find_reusable_slot_locked: the first free slot, or a terminal one.
Reusable ==
    IF \E s \in Slots : ~jobs[s].used THEN First({s \in Slots : ~jobs[s].used})
    ELSE {s \in Slots : Settled(s)}

Go(c, where) == at' = [at EXCEPT ![c] = where]
Leave(c)     == Go(c, "idle") /\ work' = [work EXCEPT ![c] = NoWork]

-----------------------------------------------------------------------------
(* cap_lua_async_submit.                                                      *)

Submit(c, r) ==
    /\ at[c] = "idle" /\ submits < MaxSubmits
    /\ Go(c, "preflight")
    /\ work' = [work EXCEPT ![c] = [NoWork EXCEPT !.op = "submit", !.req = r]]
    /\ UNCHANGED <<jobs, sem, running, tasks, counts, history>>

\* One round of the loop that looks for a conflict.
Preflight(c) ==
    LET r == work[c].req
    IN  /\ at[c] = "preflight"
        /\ \/ /\ Conflict(r) = {} /\ running < MaxConcurrent
              /\ Go(c, "commit") /\ UNCHANGED work
           \/ /\ Conflict(r) = {} /\ running >= MaxConcurrent
              /\ Leave(c)
           \/ /\ Conflict(r) # {} /\ ~r.replace
              /\ Leave(c)
           \/ /\ r.replace
              /\ \E s \in Conflict(r) :
                   work' = [work EXCEPT ![c].slot = s, ![c].id = jobs[s].id]
              /\ Go(c, "stop")
        /\ UNCHANGED <<jobs, sem, running, tasks, counts, history>>

\* mutant: the conflict is not looked for a second time.
ClearAlways(r) == running < MaxConcurrent

\* What the second look must find for the job to be committed.
Clear(r) == running < MaxConcurrent /\ Conflict(r) = {}

NewJob(r) == [used |-> TRUE, status |-> "queued", id |-> submits + 1,
              name |-> r.name, exclusive |-> r.exclusive, stop |-> FALSE]

\* The second look and the commit.  A lost race sends the caller round once
\* more; there may be no slot, or no memory, before the slot is cleared or after.
Commit(c) ==
    LET r == work[c].req
    IN  /\ at[c] = "commit"
        /\ \/ /\ Clear(r) /\ submits < MaxSubmits
              /\ \E s \in Reusable :
                   /\ jobs' = [jobs EXCEPT ![s] = NewJob(r)]
                   /\ sem' = [sem EXCEPT ![s] = 0]
                   /\ work' = [work EXCEPT ![c] = [NoWork EXCEPT !.op = "submit",
                                                    !.slot = s, !.id = submits + 1]]
              /\ running' = running + 1 /\ submits' = submits + 1
              /\ Go(c, "spawn")
           \/ /\ running < MaxConcurrent /\ Conflict(r) # {} /\ ~work[c].again
              /\ work' = [work EXCEPT ![c].again = TRUE]
              /\ Go(c, "preflight") /\ UNCHANGED <<jobs, sem, running, submits>>
           \/ /\ Clear(r)
              /\ \E s \in Reusable :
                   jobs' = [jobs EXCEPT ![s] = Cleared] /\ sem' = [sem EXCEPT ![s] = 0]
              /\ Leave(c) /\ UNCHANGED <<running, submits>>
           \/ Leave(c) /\ UNCHANGED <<jobs, sem, running, submits>>
        /\ UNCHANGED <<tasks, stops, misses, history>>

Spawn(c) ==
    /\ at[c] = "spawn"
    /\ tasks' = [id \in DOMAIN tasks \cup {work[c].id} |->
                   IF id = work[c].id THEN [slot |-> work[c].slot, at |-> "run"]
                   ELSE tasks[id]]
    /\ Go(c, "mark")
    /\ UNCHANGED <<jobs, sem, running, work, counts, history>>

\* mutant: a job is counted down twice.
CountDownTwice == IF running > 1 THEN running - 2 ELSE running

CountDown == IF running > 0 THEN running - 1 ELSE running

\* There is no memory for the task; the submitter gives the slot back, unless
\* it misses the mutex.
SpawnFails(c) ==
    /\ at[c] = "spawn"
    /\ \/ /\ jobs' = [jobs EXCEPT ![work[c].slot] = Cleared]
          /\ running' = CountDown
          /\ UNCHANGED <<misses, lost>>
       \/ /\ misses < MaxMisses
          /\ misses' = misses + 1 /\ lost' = lost \cup {work[c].id}
          /\ UNCHANGED <<jobs, running>>
    /\ Leave(c)
    /\ UNCHANGED <<sem, tasks, submits, stops, asked, stopped>>

\* The submitter calls the slot running, whatever has become of it by now.
Mark(c) ==
    /\ at[c] = "mark"
    /\ \/ /\ jobs' = [jobs EXCEPT ![work[c].slot].status = "running"]
          /\ UNCHANGED misses
       \/ /\ misses < MaxMisses
          /\ misses' = misses + 1
          /\ UNCHANGED jobs
    /\ Go(c, "settle")
    /\ UNCHANGED <<sem, running, tasks, work, submits, stops, history>>

\* cap_lua_async_wait_settle: the capability waits a little for its new job.
Settle(c) ==
    /\ at[c] = "settle"
    /\ IF \E s \in ById(work[c].id) : Active(s)
       THEN Go(c, "check") /\ work' = [work EXCEPT ![c].op = "settle"]
       ELSE Leave(c)
    /\ UNCHANGED <<jobs, sem, running, tasks, counts, history>>

-----------------------------------------------------------------------------
(* Stopping and waiting.                                                      *)

\* A caller names a job by id or, if it is active, by name.
StopJob(c, s) ==
    /\ at[c] = "idle" /\ stops < MaxStops /\ jobs[s].used
    /\ stops' = stops + 1
    /\ work' = [work EXCEPT ![c] =
                  [NoWork EXCEPT !.op = "stop", !.slot = s, !.id = jobs[s].id]]
    /\ Go(c, "stop")
    /\ UNCHANGED <<jobs, sem, running, tasks, submits, misses, history>>

\* The caller's next target, lowest slot first; without one it is done.
NextTarget(c, todo) ==
    IF todo = {} THEN Leave(c)
    ELSE \E t \in todo :
           /\ \A u \in todo : t[1] <= u[1]
           /\ work' = [work EXCEPT ![c] = [NoWork EXCEPT !.op = "stop_all",
                         !.slot = t[1], !.id = t[2], !.todo = todo \ {t}]]
           /\ Go(c, "stop")

\* The jobs of a group that are active now, or all of them.
StopAll(c, g) ==
    /\ at[c] = "idle" /\ stops < MaxStops
    /\ stops' = stops + 1
    /\ NextTarget(c, {<<s, jobs[s].id>> : s \in {x \in Slots :
                        Active(x) /\ (g = None \/ jobs[x].exclusive = g)}})
    /\ UNCHANGED <<jobs, sem, running, tasks, submits, misses, history>>

\* The caller goes on after a stop; intime says that it did not time out.
GoOn(c, intime) ==
    CASE work[c].op = "submit" /\ intime -> Go(c, "preflight") /\ UNCHANGED work
      [] work[c].op = "stop_all"         -> NextTarget(c, work[c].todo)
      [] OTHER                           -> Leave(c)

Told(c) == IF work[c].op = "settle" THEN stopped ELSE stopped \cup {work[c].id}

\* mutant: the id is not looked at again.
SameSlot(c) == jobs[work[c].slot].used

\* The slot still holds the job the caller found there.
SameJob(c) == jobs[work[c].slot].used /\ jobs[work[c].slot].id = work[c].id

Ask(s) == [jobs EXCEPT ![s].stop = TRUE]

\* cap_lua_stop_slot_and_wait, up to the wait.
StopSlot(c) ==
    /\ at[c] = "stop"
    /\ \/ /\ SameJob(c) /\ Active(work[c].slot)
          /\ jobs' = Ask(work[c].slot)
          /\ asked' = asked \cup {work[c].id}
          /\ Go(c, "check") /\ UNCHANGED <<work, stopped>>
       \/ /\ SameJob(c) /\ Settled(work[c].slot)
          /\ GoOn(c, TRUE)
          /\ stopped' = Told(c) /\ UNCHANGED <<jobs, asked>>
       \/ /\ ~SameJob(c)
          /\ GoOn(c, TRUE)
          /\ UNCHANGED <<jobs, asked, stopped>>
    /\ UNCHANGED <<sem, running, tasks, counts, lost>>

\* cap_lua_wait_for_terminal looks at the slot before it waits ...
Check(c) ==
    /\ at[c] = "check"
    /\ IF Settled(work[c].slot) THEN GoOn(c, TRUE) /\ stopped' = Told(c)
       ELSE Go(c, "wait") /\ UNCHANGED <<work, stopped>>
    /\ UNCHANGED <<jobs, sem, running, tasks, counts, asked, lost>>

Take(c) == sem[work[c].slot] = 1 /\ sem' = [sem EXCEPT ![work[c].slot] = 0]

\* mutant: the wait has no time limit.
WaitForever(c) ==
    /\ at[c] = "wait" /\ Take(c) /\ Go(c, "recheck")
    /\ UNCHANGED <<jobs, running, tasks, work, counts, history>>

\* ... waits for the semaphore or for the time it was given ...
Wait(c) ==
    /\ at[c] = "wait"
    /\ Take(c) \/ UNCHANGED sem
    /\ Go(c, "recheck")
    /\ UNCHANGED <<jobs, running, tasks, work, counts, history>>

\* mutant: what the semaphore says is not checked.
RecheckTrusts(c) ==
    /\ at[c] = "recheck"
    /\ GoOn(c, TRUE) /\ stopped' = Told(c)
    /\ UNCHANGED <<jobs, sem, running, tasks, counts, asked, lost>>

\* ... and looks again.
Recheck(c) ==
    /\ at[c] = "recheck"
    /\ IF Settled(work[c].slot) THEN GoOn(c, TRUE) /\ stopped' = Told(c)
       ELSE GoOn(c, FALSE) /\ UNCHANGED stopped
    /\ UNCHANGED <<jobs, sem, running, tasks, counts, asked, lost>>

\* A caller that misses the mutex gives up, or takes the slot for active.
MissMutex(c) ==
    /\ at[c] \in {"preflight", "settle", "stop", "check", "recheck"}
    /\ misses < MaxMisses /\ misses' = misses + 1
    /\ IF at[c] = "check" THEN Go(c, "wait") /\ UNCHANGED work ELSE GoOn(c, FALSE)
    /\ UNCHANGED <<jobs, sem, running, tasks, submits, stops, history>>

-----------------------------------------------------------------------------
(* The tasks.                                                                 *)

Live == {id \in DOMAIN tasks : tasks[id].at = "run"}

Without(id) == [other \in DOMAIN tasks \ {id} |-> tasks[other]]

\* cap_lua_finish_job.  The script ends by itself, fails, runs out of time or
\* sees its stop flag; the flag decides what the job is called.
Finish(id) ==
    LET s == tasks[id].slot
    IN  /\ id \in Live
        /\ IF jobs[s].used /\ jobs[s].id = id
           THEN /\ \E status \in IF jobs[s].stop THEN {"stopped"} ELSE Outcomes :
                     jobs' = [jobs EXCEPT ![s].status = status]
                /\ tasks' = [tasks EXCEPT ![id].at = "give"]
           ELSE jobs' = jobs /\ tasks' = Without(id)
        /\ running' = CountDown
        /\ UNCHANGED <<sem, at, work, counts, history>>

\* The task misses the mutex and ends without a trace.
FinishUnseen(id) ==
    /\ id \in Live /\ misses < MaxMisses
    /\ misses' = misses + 1 /\ lost' = lost \cup {id}
    /\ tasks' = Without(id)
    /\ UNCHANGED <<jobs, sem, running, at, work, submits, stops, asked, stopped>>

\* The semaphore is given after the mutex.
Give(id) ==
    /\ id \in DOMAIN tasks /\ tasks[id].at = "give"
    /\ sem' = [sem EXCEPT ![tasks[id].slot] = 1]
    /\ tasks' = Without(id)
    /\ UNCHANGED <<jobs, running, at, work, counts, history>>

-----------------------------------------------------------------------------
Step(c) ==
    \/ Preflight(c) \/ Commit(c) \/ Spawn(c) \/ SpawnFails(c) \/ Mark(c) \/ Settle(c)
    \/ StopSlot(c) \/ Check(c) \/ Wait(c) \/ Recheck(c)

Next ==
    \/ \E c \in Callers :
         \/ \E r \in Requests : Submit(c, r)
         \/ \E s \in Slots : StopJob(c, s)
         \/ \E g \in Groups \cup {None} : StopAll(c, g)
         \/ Step(c) \/ MissMutex(c)
    \/ \E id \in JobIds : Finish(id) \/ FinishUnseen(id) \/ Give(id)

Spec == Init /\ [][Next]_vars

\* The hook that polls the stop flag runs inside every script.
FinishStopped(id) ==
    id \in Live /\ jobs[tasks[id].slot].stop /\ Finish(id)

\* Tasks and callers run on; scripts that nobody stops may run forever.
FairSpec ==
    /\ Spec
    /\ \A c \in Callers : WF_vars(Step(c))
    /\ \A id \in JobIds : WF_vars(FinishStopped(id)) /\ WF_vars(Give(id))

-----------------------------------------------------------------------------
(* Properties.                                                                *)

Starting == {work[c].id : c \in {x \in Callers : at[x] = "spawn"}}

\* Every variable keeps its type.
TypeOK ==
    /\ jobs \in [Slots -> Job] /\ sem \in [Slots -> 0 .. 1] /\ running \in Nat
    /\ DOMAIN tasks \subseteq JobIds
    /\ \A id \in DOMAIN tasks : tasks[id] \in [slot : Slots, at : {"run", "give"}]
    /\ at \in [Callers -> Places] /\ work \in [Callers -> Work]
    /\ submits \in Nat /\ stops \in Nat /\ misses \in Nat
    /\ asked \subseteq JobIds /\ stopped \subseteq JobIds /\ lost \subseteq JobIds

\* The slot of a running script is its own: it holds the job's record, is not
\* taken for terminal and is not given to another job.
LiveOwnsSlot ==
    \A id \in Live : LET s == tasks[id].slot IN jobs[s].id = id /\ Active(s)

\* Two running scripts never share a name or an exclusive group, over races of
\* submitters, takeovers and late finishes.
ExclusiveAlone ==
    \A i, j \in Live :
        LET a == jobs[tasks[i].slot]
            b == jobs[tasks[j].slot]
        IN  i # j => /\ a.name # None => a.name # b.name
                     /\ a.exclusive # None => a.exclusive # b.exclusive

\* A script sees a stop request only if somebody asked to stop that very job,
\* though the flag it polls sits in a slot that jobs share.
StopHitsItsJob ==
    \A id \in Live : jobs[tasks[id].slot].stop => id \in asked

\* A job that a caller was told has stopped is not running, then or later.
StoppedIsGone == stopped \cap Live = {}

\* The job count is the number of scripts that run or are about to, and of those
\* whose end nobody saw; it never exceeds the limit.
CountIsExact ==
    /\ running = Cardinality(Live \cup Starting \cup lost)
    /\ running <= MaxConcurrent

\* A script that was asked to stop ends, and every call (submit with takeover,
\* stop, stop all) returns, whoever takes the slot's semaphore.
StopTakesEffect == \A id \in JobIds : (id \in asked /\ id \in Live) ~> id \notin Live
CallsReturn     == \A c \in Callers : at[c] # "idle" ~> at[c] = "idle"
EverythingEnds  == StopTakesEffect /\ CallsReturn

\* What the documentation draws as the job's state machine: done, failed,
\* timeout and stopped have no way out.
TerminalIsFinal ==
    [][\A s \in Slots :
         (jobs[s].used /\ Settled(s) /\ jobs'[s].used /\ jobs'[s].id = jobs[s].id)
         => jobs'[s].status = jobs[s].status]_vars
=============================================================================
