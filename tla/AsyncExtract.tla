----------------------------- MODULE AsyncExtract -----------------------------
(* The extraction jobs of claw_memory_session.c: memories an LLM finds in the *)
(* user's message while the agent works on its answer.                        *)
(*                                                                            *)
(* The agent's task, which has one request at a time, links a job for it into *)
(* a table and queues it; a worker asks the LLM and completes the job; the    *)
(* last round of the request takes the job back, waiting for it if it must,   *)
(* and stores what was found unless the request stored memories by itself.  A *)
(* request that ends in any other way leaves its job behind, to be swept when *)
(* it has been complete for a minute.  The table is under a lock, the queue   *)
(* and the semaphore of a job are not.                                        *)
(*                                                                            *)
(* Left out: the summaries shown with the last round, a start without an LLM  *)
(* (nothing here runs then) and a lock that cannot be taken, for it is waited *)
(* for without limit.                                                         *)
EXTENDS Integers, Sequences, FiniteSets

CONSTANTS
    Requests,   \* 1..n; the ids the router and the console give are never reused
    QueueLen,   \* CLAW_MEMORY_ASYNC_EXTRACT_QUEUE_LEN
    None

ASSUME ExtractAssumption ==
    Requests \subseteq Nat \ {0} /\ QueueLen \in Nat

VARIABLES
    agent,    \* the agent's task: where it is and in which request
    table,    \* s_async_extract.jobs: the requests that have a job linked
    there,    \* the jobs whose memory has not been freed
    ready,    \* those that are complete
    aged,     \* those that have been for a minute
    sems,     \* jobs whose done_sem has been given
    pipe,     \* s_async_extract.queue
    worker,   \* the worker's task
    marks,    \* s_request_states: requests with a manual write
    wrote,    \* history: requests that stored memories by themselves
    applied   \* history: the requests whose results were stored, one after another

evars == <<agent, table, there, ready, aged, sems, pipe, worker, marks, wrote, applied>>

Rest(at) == agent' = [agent EXCEPT !.at = at]

\* claw_memory_async_extract_free_job
Free(jobs) == /\ there' = there \ jobs /\ sems' = sems \ jobs
              /\ ready' = ready \ jobs /\ aged' = aged \ jobs

\* mutant: jobs are swept by the time they were made, complete or not.
ExpiredAny == {r \in table : r < agent.req}

\* claw_memory_async_extract_sweep_locked
Expired == table \cap aged

-----------------------------------------------------------------------------
(* A request.                                                                 *)

\* claw_memory_async_extract_ensure_started: sweep, and link a new job.
Link ==
    /\ agent.at = "idle" /\ agent.req + 1 \in Requests
    /\ agent' = [at |-> "send", req |-> agent.req + 1]
    /\ table' = (table \ Expired) \cup {agent.req + 1}
    /\ there' = (there \ Expired) \cup {agent.req + 1}
    /\ ready' = ready \ Expired /\ aged' = aged \ Expired /\ sems' = sems \ Expired
    /\ UNCHANGED <<pipe, worker, marks, wrote, applied>>

\* A request with no session or no text has no job, and one for which memory is
\* short has none either, but sweeps.
NoJob ==
    /\ agent.at = "idle" /\ agent.req + 1 \in Requests
    /\ agent' = [at |-> "run", req |-> agent.req + 1]
    /\ \E swept \in {{}, Expired} : table' = table \ swept /\ Free(swept)
    /\ UNCHANGED <<pipe, worker, marks, wrote, applied>>

\* A job that finds no room is unlinked and freed, and the request has none.
Dropped(r) == table' = table \ {r} /\ Free({r})

Send ==
    /\ agent.at = "send" /\ Rest("run")
    /\ \/ /\ Len(pipe) < QueueLen /\ pipe' = Append(pipe, agent.req)
          /\ UNCHANGED <<table, there, ready, aged, sems>>
       \/ /\ Len(pipe) = QueueLen /\ Dropped(agent.req) /\ UNCHANGED pipe
    /\ UNCHANGED <<worker, marks, wrote, applied>>

\* A memory tool of the request: claw_memory_request_mark_manual_write.
ManualWrite ==
    /\ agent.at = "run"
    /\ marks' = marks \cup {agent.req} /\ wrote' = wrote \cup {agent.req}
    /\ UNCHANGED <<agent, table, there, ready, aged, sems, pipe, worker, applied>>

\* The request fails, is cancelled or runs out of rounds.
GiveUp ==
    /\ agent.at = "run" /\ Rest("idle")
    /\ UNCHANGED <<table, there, ready, aged, sems, pipe, worker, marks, wrote, applied>>

\* claw_memory_request_take_manual_write: what was found is not to be stored then.
Outcome(r) == IF r \in marks THEN "discard" ELSE "apply"

\* claw_memory_stage_note_callback, in the last round.
LastRound ==
    /\ agent.at = "run"
    /\ Rest(Outcome(agent.req))
    /\ marks' = marks \ {agent.req}
    /\ UNCHANGED <<table, there, ready, aged, sems, pipe, worker, wrote, applied>>

Taking == agent.at \in {"apply", "discard"}

\* claw_memory_async_extract_take_summary_list: no job, a complete one, or wait.
TakeNone ==
    /\ Taking /\ agent.req \notin table /\ Rest("idle")
    /\ table' = table \ Expired /\ Free(Expired)
    /\ UNCHANGED <<pipe, worker, marks, wrote, applied>>

TakeReady ==
    /\ Taking /\ agent.req \in table \cap ready /\ Rest("idle")
    /\ table' = table \ {agent.req} /\ Free({agent.req})
    /\ applied' = IF agent.at = "apply" THEN Append(applied, agent.req) ELSE applied
    /\ UNCHANGED <<pipe, worker, marks, wrote>>

TakeWait ==
    /\ Taking /\ agent.req \in table \ ready
    /\ Rest(IF agent.at = "apply" THEN "applywait" ELSE "discardwait")
    /\ UNCHANGED <<table, there, ready, aged, sems, pipe, worker, marks, wrote, applied>>

Waiting == agent.at \in {"applywait", "discardwait"}

Wake ==
    /\ Waiting /\ agent.req \in sems
    /\ Rest(IF agent.at = "applywait" THEN "apply" ELSE "discard")
    /\ sems' = sems \ {agent.req}
    /\ UNCHANGED <<table, there, ready, aged, pipe, worker, marks, wrote, applied>>

-----------------------------------------------------------------------------
(* The worker, and time.                                                      *)

Receive ==
    /\ worker.at = "idle" /\ pipe # <<>>
    /\ worker' = [at |-> "ask", job |-> Head(pipe)] /\ pipe' = Tail(pipe)
    /\ UNCHANGED <<agent, table, there, ready, aged, sems, marks, wrote, applied>>

\* The answer of the LLM, or its failing, is noted in the job under the lock, ...
Complete ==
    /\ worker.at = "ask" /\ worker' = [worker EXCEPT !.at = "give"]
    /\ ready' = ready \cup {worker.job}
    /\ UNCHANGED <<agent, table, there, aged, sems, pipe, marks, wrote, applied>>

\* ... and the semaphore is given after it: who came between may have freed both.
Give ==
    /\ worker.at = "give" /\ worker' = [at |-> "idle", job |-> None]
    /\ sems' = IF worker.job \in there THEN sems \cup {worker.job} ELSE sems
    /\ UNCHANGED <<agent, table, there, ready, aged, pipe, marks, wrote, applied>>

Minute ==
    /\ aged # ready /\ aged' = ready
    /\ UNCHANGED <<agent, table, there, ready, sems, pipe, worker, marks, wrote, applied>>

-----------------------------------------------------------------------------
Init ==
    /\ agent = [at |-> "idle", req |-> 0]
    /\ table = {} /\ there = {} /\ ready = {} /\ aged = {} /\ sems = {}
    /\ pipe = <<>> /\ worker = [at |-> "idle", job |-> None]
    /\ marks = {} /\ wrote = {} /\ applied = <<>>

Take   == TakeNone \/ TakeReady \/ TakeWait \/ Wake
Work   == Receive \/ Complete \/ Give
Next   == \/ Link \/ NoJob \/ Send \/ ManualWrite \/ GiveUp \/ LastRound
          \/ Take \/ Work \/ Minute

Spec == Init /\ [][Next]_evars

(* The agent goes on taking, and the worker working: a call of the LLM has a  *)
(* time limit, and both tasks are scheduled.                                  *)
FairSpec == Spec /\ WF_evars(Take) /\ WF_evars(Work)

TypeOK ==
    /\ agent.req \in Requests \cup {0} /\ table \subseteq there
    /\ there \subseteq Requests /\ aged \subseteq ready /\ ready \subseteq there
    /\ Len(pipe) <= QueueLen

\* A job that waits for the worker, or whose message the worker has given to the
\* LLM, is not freed under it, however its request ended and whatever was swept
\* since then.
JobOutlivesWork ==
    /\ \A i \in DOMAIN pipe : pipe[i] \in there
    /\ worker.at = "ask" => worker.job \in there

\* The semaphore the worker gives is still there.
GivenIsThere == worker.at = "give" => worker.job \in there

\* What was found for a request is stored once at most, after nothing of a later
\* one, and never beside memories the request stored by itself.
AppliedAtMostOnce ==
    /\ \A i, j \in DOMAIN applied : i < j => applied[i] < applied[j]
    /\ \A i \in DOMAIN applied : applied[i] \notin wrote

\* No job is freed under its worker, and its result is stored once at most, for the
\* request it came from.
JobsInOrder == JobOutlivesWork /\ AppliedAtMostOnce

\* The end of a request waits without a time limit, but never for a job that
\* nobody will complete.
CollectEnds == Waiting ~> agent.at = "idle"

\* A request that is over has no mark of a manual write left.
MarksGo == agent.at = "idle" => marks = {}
=============================================================================
