------------------------------ MODULE TasksProofs ------------------------------
(***************************************************************************)
(* Proofs about the tasks beside the agent's (MCTasks), for every value of  *)
(* its constants.  Each component has its inductive invariant and a theorem *)
(* of its own specification; the last section carries them over to the      *)
(* specification that the run checks, whose behaviours are of one of them.  *)
(*                                                                          *)
(* Extraction jobs: a job is freed by three hands: the request that made    *)
(* it, when the queue is full; the last round that takes it; the sweep of a *)
(* later request.  The last two free only what the worker has completed,    *)
(* and what is queued or at the worker is not complete and is queued once.  *)
(***************************************************************************)
EXTENDS MCTasks, SequenceTheorems, FiniteSetTheorems, TLAPS

Steps == {"idle", "send", "run", "apply", "discard", "applywait", "discardwait"}

TypeInv ==
    /\ agent \in [at : Steps, req : Requests \cup {0}]
    /\ agent.at # "idle" => agent.req \in Requests
    /\ table \subseteq Requests /\ there \subseteq Requests
    /\ ready \subseteq Requests /\ aged \subseteq Requests
    /\ pipe \in Seq(Requests) /\ Len(pipe) <= QueueLen
    /\ applied \in Seq(Requests) /\ wrote \subseteq Requests
    /\ worker.at \in {"ask", "give"} => worker.job \in Requests

\* The request whose job is linked and not yet queued.
Unsent(r) == agent.at = "send" /\ r = agent.req

\* Jobs are those of the requests so far; the one that is not queued yet is not
\* complete; those that are queued, each once, and the one at the worker are
\* there and not complete.
JobInv ==
    /\ table \subseteq there /\ aged \subseteq ready /\ ready \subseteq there
    /\ \A r \in there : r <= agent.req
    /\ agent.at = "send" => agent.req \in there \ ready
    /\ \A i \in DOMAIN pipe : pipe[i] \in there \ ready /\ ~ Unsent(pipe[i])
    /\ \A i, j \in DOMAIN pipe : pipe[i] = pipe[j] => i = j
    /\ worker.at = "ask" => /\ worker.job \in there \ ready /\ ~ Unsent(worker.job)
                            /\ \A i \in DOMAIN pipe : pipe[i] # worker.job

\* Results are stored at the end of a request, before the next one; a request
\* that wrote by itself is marked until it ends, and is not at "apply" then.
ApplyInv ==
    /\ \A i, j \in DOMAIN applied : i < j => applied[i] < applied[j]
    /\ \A i \in DOMAIN applied : /\ applied[i] <= agent.req /\ applied[i] \notin wrote
                                 /\ agent.at # "idle" => applied[i] # agent.req
    /\ \A r \in wrote : r <= agent.req
    /\ agent.at = "run" /\ agent.req \in wrote => agent.req \in marks
    /\ agent.at \in {"send", "apply", "applywait"} => agent.req \notin wrote

-----------------------------------------------------------------------------
(* The steps of the agent's place, and what they free.                       *)

LEMMA RestIs ==
    ASSUME TypeInv, NEW step \in Steps, Rest(step)
    PROVE  /\ agent' \in [at : Steps, req : Requests \cup {0}]
           /\ agent'.at = step /\ agent'.req = agent.req
  BY DEF Rest, TypeInv

\* A request begins: it is the next number.
LEMMA NextRequest ==
    ASSUME TypeInv, NEW step \in Steps, agent.req + 1 \in Requests,
           agent' = [at |-> step, req |-> agent.req + 1]
    PROVE  /\ agent' \in [at : Steps, req : Requests \cup {0}]
           /\ agent'.at = step /\ agent'.req = agent.req + 1 /\ agent.req \in Nat
           /\ agent'.req \in Requests
  <1>1. agent.req \in Nat
    <2>1. agent.req \in Requests \cup {0}
      BY DEF TypeInv
    <2>2. \A r \in Requests : r \in Nat
      BY ExtractAssumption
    <2>3. CASE agent.req = 0
      BY <2>3
    <2> QED BY <2>1, <2>2, <2>3
  <1>2. /\ agent' \in [at : Steps, req : Requests \cup {0}]
        /\ agent'.at = step /\ agent'.req = agent.req + 1 /\ agent'.req \in Requests
    OBVIOUS
  <1> QED BY <1>1, <1>2

LEMMA TypeStep == TypeInv /\ [Next]_evars => TypeInv'
  <1> SUFFICES ASSUME TypeInv, [Next]_evars PROVE TypeInv'
    OBVIOUS
  <1>0. /\ agent \in [at : Steps, req : Requests \cup {0}] /\ agent.req \in Requests \cup {0}
        /\ agent.at # "idle" => agent.req \in Requests
        /\ table \subseteq Requests /\ there \subseteq Requests
        /\ ready \subseteq Requests /\ aged \subseteq Requests
        /\ pipe \in Seq(Requests) /\ Len(pipe) <= QueueLen /\ QueueLen \in Nat
        /\ applied \in Seq(Requests) /\ wrote \subseteq Requests
        /\ worker.at \in {"ask", "give"} => worker.job \in Requests
    BY ExtractAssumption DEF TypeInv
  <1>s. {"idle", "send", "run", "apply", "discard", "applywait", "discardwait"} \subseteq Steps
    BY DEF Steps
  <1>r. ASSUME NEW r \in Requests, NEW s \in Seq(Requests)
        PROVE  Append(s, r) \in Seq(Requests) /\ Len(Append(s, r)) = Len(s) + 1
    OBVIOUS
  <1>1. CASE Link
    <2>1. agent' \in [at : Steps, req : Requests \cup {0}] /\ agent'.req \in Requests
          /\ agent.req + 1 \in Requests
      BY <1>1, <1>s, NextRequest DEF Link
    <2> QED BY <1>0, <1>1, <2>1 DEF Link, TypeInv
  <1>2. CASE NoJob
    <2>1. agent' \in [at : Steps, req : Requests \cup {0}] /\ agent'.req \in Requests
      BY <1>2, <1>s, NextRequest DEF NoJob
    <2> QED BY <1>0, <1>2, <2>1 DEF NoJob, Free, TypeInv
  <1>3. CASE Send
    <2>1. agent' \in [at : Steps, req : Requests \cup {0}] /\ agent.at = "send"
          /\ agent'.req = agent.req
      BY <1>3, <1>s, RestIs DEF Send
    <2>2. CASE Len(pipe) < QueueLen /\ pipe' = Append(pipe, agent.req)
               /\ UNCHANGED <<table, there, ready, aged, sems>>
      <3>1. agent.req \in Requests
        BY <1>0, <2>1
      <3> QED BY <1>0, <1>3, <1>r, <2>1, <2>2, <3>1 DEF Send, TypeInv
    <2>3. CASE Dropped(agent.req) /\ UNCHANGED pipe
      BY <1>0, <1>3, <2>1, <2>3 DEF Send, Dropped, Free, TypeInv
    <2> QED BY <1>3, <2>2, <2>3 DEF Send
  <1>4. CASE ManualWrite
    BY <1>0, <1>4 DEF ManualWrite, TypeInv
  <1>5. CASE GiveUp \/ LastRound \/ TakeWait \/ Wake
    <2>1. agent' \in [at : Steps, req : Requests \cup {0}] /\ agent'.req = agent.req
      BY <1>5, <1>s, RestIs DEF GiveUp, LastRound, TakeWait, Wake, Outcome
    <2>2. agent.at # "idle"
      BY <1>5 DEF GiveUp, LastRound, TakeWait, Wake, Taking, Waiting
    <2> QED BY <1>0, <1>5, <2>1, <2>2 DEF GiveUp, LastRound, TakeWait, Wake, TypeInv
  <1>6. CASE TakeNone
    <2>1. agent' \in [at : Steps, req : Requests \cup {0}] /\ agent'.req = agent.req
      BY <1>6, <1>s, RestIs DEF TakeNone
    <2>2. agent.at # "idle"
      BY <1>6 DEF TakeNone, Taking
    <2> QED BY <1>0, <1>6, <2>1, <2>2 DEF TakeNone, Free, TypeInv
  <1>7. CASE TakeReady
    <2>1. agent' \in [at : Steps, req : Requests \cup {0}] /\ agent'.req = agent.req
      BY <1>7, <1>s, RestIs DEF TakeReady
    <2>2. agent.req \in Requests
      BY <1>0, <1>7 DEF TakeReady, Taking
    <2>3. applied' \in Seq(Requests)
      BY <1>0, <1>7, <1>r, <2>2 DEF TakeReady
    <2> QED BY <1>0, <1>7, <2>1, <2>2, <2>3 DEF TakeReady, Free, TypeInv
  <1>8. CASE Receive
    <2>1. /\ Head(pipe) \in Requests /\ Tail(pipe) \in Seq(Requests)
          /\ Len(Tail(pipe)) <= QueueLen
      BY <1>0, <1>8 DEF Receive
    <2> QED BY <1>0, <1>8, <2>1 DEF Receive, TypeInv
  <1>9. CASE Complete
    <2>1. worker.job \in Requests
      BY <1>0, <1>9 DEF Complete
    <2> QED BY <1>0, <1>9, <2>1 DEF Complete, TypeInv
  <1>10. CASE Give \/ Minute
    BY <1>0, <1>10 DEF Give, Minute, TypeInv
  <1>11. CASE UNCHANGED evars
    BY <1>0, <1>11 DEF evars, TypeInv
  <1> QED BY <1>1, <1>2, <1>3, <1>4, <1>5, <1>6, <1>7, <1>8, <1>9, <1>10, <1>11
          DEF Next, Take, Work

-----------------------------------------------------------------------------
(* Jobs.                                                                     *)

LEMMA InPipe ==
    ASSUME NEW s \in Seq(Requests), NEW r \in Requests
    PROVE  /\ DOMAIN Append(s, r) = DOMAIN s \cup {Len(s) + 1}
           /\ \A i \in DOMAIN s : Append(s, r)[i] = s[i]
           /\ Append(s, r)[Len(s) + 1] = r /\ Len(s) + 1 \notin DOMAIN s
           /\ s # <<>> => /\ 1 \in DOMAIN s /\ Head(s) = s[1]
                          /\ \A i \in DOMAIN Tail(s) : /\ i + 1 \in DOMAIN s /\ i + 1 # 1
                                                       /\ Tail(s)[i] = s[i + 1]
                                                       /\ i \in Nat
  OBVIOUS

\* Freeing jobs that are neither queued nor at the worker.
LEMMA FreeKeeps ==
    ASSUME TypeInv, JobInv, NEW old, Free(old), table' \subseteq table \ old,
           UNCHANGED <<pipe, worker>>, agent'.req = agent.req, agent'.at # "send",
           old \subseteq ready \/ \A r \in old : Unsent(r)
    PROVE  JobInv'
  <1>1. /\ \A i \in DOMAIN pipe : pipe[i] \in there \ ready /\ pipe[i] \notin old
        /\ worker.at = "ask" => worker.job \in there \ ready /\ worker.job \notin old
    BY DEF JobInv
  <1> QED BY <1>1 DEF JobInv, Free, Unsent

LEMMA JobStep == TypeInv /\ JobInv /\ [Next]_evars => JobInv'
  <1> SUFFICES ASSUME TypeInv, JobInv, [Next]_evars PROVE JobInv'
    OBVIOUS
  <1>0. pipe \in Seq(Requests) /\ Expired \subseteq ready /\ there \subseteq Requests
        /\ agent \in [at : Steps, req : Requests \cup {0}]
    BY DEF TypeInv, Expired, JobInv
  <1>s. {"idle", "send", "run", "apply", "discard", "applywait", "discardwait"} \subseteq Steps
    BY DEF Steps
  <1>n. \A r \in Requests : r \in Nat
    BY ExtractAssumption
  <1>1. CASE Link
    <2>1. PICK new \in Requests : new = agent.req + 1
      BY <1>1 DEF Link
    <2>2. /\ agent'.at = "send" /\ agent'.req = new /\ agent.req \in Nat
      BY <1>1, <1>s, <2>1, NextRequest DEF Link
    <2>3. /\ table' = (table \ Expired) \cup {new} /\ there' = (there \ Expired) \cup {new}
          /\ ready' = ready \ Expired /\ aged' = aged \ Expired /\ UNCHANGED <<pipe, worker>>
      BY <1>1, <2>1 DEF Link
    <2>4. \A r \in there : r \in Nat /\ r <= agent.req /\ r # new
      BY <1>0, <1>n, <2>1, <2>2 DEF JobInv
    <2>5. \A r \in there' : r <= agent'.req
      BY <2>1, <2>2, <2>3, <2>4
    <2>6. new \in there' \ ready'
      BY <2>3, <2>4 DEF JobInv
    <2>7. \A r \in there \ ready : r \in there' \ ready' /\ r # new
      BY <1>0, <2>3, <2>4
    <2>8. /\ \A i \in DOMAIN pipe : pipe[i] \in there' \ ready' /\ pipe[i] # new
          /\ worker.at = "ask" => worker.job \in there' \ ready' /\ worker.job # new
      BY <2>7 DEF JobInv
    <2>9. table' \subseteq there' /\ aged' \subseteq ready' /\ ready' \subseteq there'
      BY <2>3 DEF JobInv
    <2> QED BY <2>2, <2>3, <2>5, <2>6, <2>8, <2>9 DEF JobInv, Unsent
  <1>2. CASE NoJob
    <2>1. PICK swept \in {{}, Expired} : table' = table \ swept /\ Free(swept)
      BY <1>2 DEF NoJob
    <2>2. agent'.at = "run" /\ agent'.req = agent.req + 1 /\ agent.req \in Nat
          /\ UNCHANGED <<pipe, worker>>
      BY <1>2, <1>s, NextRequest DEF NoJob
    <2>3. swept \subseteq ready
      BY <1>0, <2>1
    <2>4. \A r \in there : r <= agent'.req
      BY <1>0, <1>n, <2>2 DEF JobInv
    <2>5. \A r \in there \ ready : r \in there' \ ready'
      BY <2>1, <2>3 DEF Free
    <2>6. table' \subseteq there' /\ aged' \subseteq ready' /\ ready' \subseteq there'
          /\ there' \subseteq there
      BY <2>1 DEF Free, JobInv
    <2> QED BY <2>2, <2>4, <2>5, <2>6 DEF JobInv, Unsent
  <1>3. CASE Send
    <2>1. /\ agent.at = "send" /\ agent'.at = "run" /\ agent'.req = agent.req
          /\ agent.req \in Requests /\ worker' = worker
      BY <1>3, <1>s, RestIs DEF Send, TypeInv
    <2>2. CASE pipe' = Append(pipe, agent.req) /\ UNCHANGED <<table, there, ready, aged, sems>>
      <3>1. \A i \in DOMAIN pipe : pipe[i] # agent.req
        BY <2>1 DEF JobInv, Unsent
      <3>2. worker.at = "ask" => worker.job # agent.req
        BY <2>1 DEF JobInv, Unsent
      <3>3. agent.req \in there
        BY <2>1 DEF JobInv
      <3> QED BY <1>0, <2>1, <2>2, <3>1, <3>2, <3>3, InPipe DEF JobInv, Unsent
    <2>3. CASE Dropped(agent.req) /\ UNCHANGED pipe
      BY <2>1, <2>3, FreeKeeps DEF Dropped, Unsent
    <2> QED BY <1>3, <2>2, <2>3 DEF Send
  <1>4. CASE ManualWrite \/ Give \/ UNCHANGED evars
    BY <1>4 DEF ManualWrite, Give, evars, JobInv, Unsent
  <1>5. CASE GiveUp \/ LastRound \/ TakeWait \/ Wake
    <2>1. agent'.req = agent.req /\ agent'.at # "send"
      BY <1>5, <1>s, RestIs DEF GiveUp, LastRound, TakeWait, Wake, Outcome
    <2>2. UNCHANGED <<table, there, ready, aged, pipe, worker>>
      BY <1>5 DEF GiveUp, LastRound, TakeWait, Wake
    <2> QED BY <2>1, <2>2 DEF JobInv, Unsent
  <1>6. CASE TakeNone
    <2>1. agent'.req = agent.req /\ agent'.at # "send"
      BY <1>6, <1>s, RestIs DEF TakeNone
    <2> QED BY <1>0, <1>6, <2>1, FreeKeeps DEF TakeNone
  <1>7. CASE TakeReady
    <2>1. agent'.req = agent.req /\ agent'.at # "send" /\ {agent.req} \subseteq ready
      BY <1>7, <1>s, RestIs DEF TakeReady
    <2> QED BY <1>7, <2>1, FreeKeeps DEF TakeReady
  <1>8. CASE Receive
    <2>1. /\ pipe # <<>> /\ worker'.at = "ask" /\ worker'.job = Head(pipe)
          /\ pipe' = Tail(pipe) /\ UNCHANGED <<agent, table, there, ready, aged>>
      BY <1>8 DEF Receive
    <2>2. \A i \in DOMAIN pipe' : /\ i + 1 \in DOMAIN pipe /\ i + 1 # 1 /\ i \in Nat
                                  /\ pipe'[i] = pipe[i + 1]
      BY <1>0, <1>s, <2>1, InPipe DEF TypeInv
    <2>3. 1 \in DOMAIN pipe /\ worker'.job = pipe[1]
      BY <1>0, <2>1, InPipe DEF TypeInv
    <2>4. \A i \in DOMAIN pipe' : pipe'[i] # worker'.job
      BY <2>2, <2>3 DEF JobInv
    <2>5. \A i, j \in DOMAIN pipe' : pipe'[i] = pipe'[j] => i = j
      BY <2>2 DEF JobInv
    <2> QED BY <2>1, <2>2, <2>3, <2>4, <2>5 DEF JobInv, Unsent
  <1>9. CASE Complete
    <2>1. /\ worker.at = "ask" /\ worker'.at = "give" /\ ready' = ready \cup {worker.job}
          /\ UNCHANGED <<agent, table, there, aged, pipe>>
      BY <1>9 DEF Complete
    <2> QED BY <2>1 DEF JobInv, Unsent
  <1>10. CASE Minute
    BY <1>10 DEF Minute, JobInv, Unsent
  <1> QED BY <1>1, <1>2, <1>3, <1>4, <1>5, <1>6, <1>7, <1>8, <1>9, <1>10 DEF Next, Take, Work

-----------------------------------------------------------------------------
(* What is stored.                                                           *)

LEMMA ApplyStep == TypeInv /\ JobInv /\ ApplyInv /\ [Next]_evars => ApplyInv'
  <1> SUFFICES ASSUME TypeInv, JobInv, ApplyInv, [Next]_evars PROVE ApplyInv'
    OBVIOUS
  <1>0. applied \in Seq(Requests) /\ wrote \subseteq Requests
        /\ agent \in [at : Steps, req : Requests \cup {0}]
        /\ (agent.at # "idle" => agent.req \in Requests)
    BY DEF TypeInv
  <1>s. {"idle", "send", "run", "apply", "discard", "applywait", "discardwait"} \subseteq Steps
    BY DEF Steps
  <1>n. \A r \in Requests : r \in Nat
    BY ExtractAssumption
  <1>a. \A i \in DOMAIN applied : applied[i] \in Requests /\ applied[i] \in Nat
    BY <1>0, <1>n
  <1>1. CASE Link \/ NoJob
    <2>1. /\ agent.at = "idle" /\ agent'.at \in {"send", "run"}
          /\ agent'.req = agent.req + 1 /\ agent.req \in Nat
          /\ UNCHANGED <<marks, wrote, applied>>
      BY <1>1, <1>s, NextRequest DEF Link, NoJob
    <2>2. \A i \in DOMAIN applied : applied[i] <= agent'.req /\ applied[i] # agent'.req
      BY <1>a, <2>1 DEF ApplyInv
    <2>3. \A r \in wrote : r \in Nat /\ r <= agent.req
      BY <1>0, <1>n DEF ApplyInv
    <2>4. \A r \in wrote : r <= agent'.req /\ r # agent'.req
      BY <2>1, <2>3
    <2> QED BY <2>1, <2>2, <2>4 DEF ApplyInv
  <1>2. CASE Send
    <2>1. /\ agent.at = "send" /\ agent'.at = "run" /\ agent'.req = agent.req
          /\ UNCHANGED <<marks, wrote, applied>>
      BY <1>2, <1>s, RestIs DEF Send
    <2> QED BY <2>1 DEF ApplyInv
  <1>3. CASE ManualWrite
    <2>1. /\ agent.at = "run" /\ marks' = marks \cup {agent.req}
          /\ wrote' = wrote \cup {agent.req} /\ UNCHANGED <<agent, applied>>
      BY <1>3 DEF ManualWrite
    <2>2. agent.req \in Nat
      BY <1>0, <1>n, <2>1
    <2> QED BY <2>1, <2>2 DEF ApplyInv
  <1>4. CASE GiveUp
    <2>1. /\ agent'.at = "idle" /\ agent'.req = agent.req
          /\ UNCHANGED <<marks, wrote, applied>>
      BY <1>4, <1>s, RestIs DEF GiveUp
    <2> QED BY <2>1 DEF ApplyInv
  <1>5. CASE LastRound
    <2>1. /\ agent.at = "run" /\ agent'.at = Outcome(agent.req) /\ agent'.req = agent.req
          /\ UNCHANGED <<wrote, applied>>
      BY <1>5, <1>s, RestIs DEF LastRound, Outcome
    <2>2. agent'.at = "discard" \/ (agent'.at = "apply" /\ agent.req \notin wrote)
      BY <2>1 DEF Outcome, ApplyInv
    <2> QED BY <2>1, <2>2 DEF ApplyInv
  <1>6. CASE TakeNone
    <2>1. /\ agent'.at = "idle" /\ agent'.req = agent.req
          /\ UNCHANGED <<marks, wrote, applied>>
      BY <1>6, <1>s, RestIs DEF TakeNone
    <2> QED BY <2>1 DEF ApplyInv
  <1>7. CASE TakeReady
    <2>1. /\ agent.at \in {"apply", "discard"} /\ agent'.at = "idle" /\ agent'.req = agent.req
          /\ UNCHANGED <<marks, wrote>>
          /\ applied' = IF agent.at = "apply" THEN Append(applied, agent.req) ELSE applied
      BY <1>7, <1>s, RestIs DEF TakeReady, Taking
    <2>2. CASE agent.at = "discard"
      BY <2>1, <2>2 DEF ApplyInv
    <2>3. CASE agent.at = "apply"
      <3>1. agent.req \in Requests /\ agent.req \in Nat /\ agent.req \notin wrote
        BY <1>0, <1>n, <2>3 DEF ApplyInv
      <3>2. /\ DOMAIN applied' = DOMAIN applied \cup {Len(applied) + 1}
            /\ \A i \in DOMAIN applied : applied'[i] = applied[i] /\ i <= Len(applied) /\ i \in Nat
            /\ applied'[Len(applied) + 1] = agent.req
        BY <1>0, <2>1, <2>3, <3>1
      <3>3. \A i \in DOMAIN applied : applied[i] < agent.req
        BY <1>a, <2>3, <3>1 DEF ApplyInv
      <3>4. ASSUME NEW i \in DOMAIN applied', NEW j \in DOMAIN applied', i < j
            PROVE  applied'[i] < applied'[j]
        <4>1. i \in DOMAIN applied
          BY <1>0, <3>2, <3>4
        <4> QED BY <3>2, <3>3, <3>4, <4>1 DEF ApplyInv
      <3>5. \A i \in DOMAIN applied' : applied'[i] <= agent'.req /\ applied'[i] \notin wrote
        BY <2>1, <3>1, <3>2 DEF ApplyInv
      <3> QED BY <2>1, <3>4, <3>5 DEF ApplyInv
    <2> QED BY <2>1, <2>2, <2>3
  <1>8. CASE TakeWait \/ Wake
    <2>1. /\ agent'.at \in {"apply", "discard", "applywait", "discardwait"}
          /\ agent'.at \in {"apply", "applywait"} => agent.at \in {"apply", "applywait"}
          /\ agent.at # "idle" /\ agent'.req = agent.req /\ UNCHANGED <<marks, wrote, applied>>
      BY <1>8, <1>s, RestIs DEF TakeWait, Wake, Taking, Waiting
    <2> QED BY <2>1 DEF ApplyInv
  <1>9. CASE Receive \/ Complete \/ Give \/ Minute \/ UNCHANGED evars
    BY <1>9 DEF Receive, Complete, Give, Minute, evars, ApplyInv
  <1> QED BY <1>1, <1>2, <1>3, <1>4, <1>5, <1>6, <1>7, <1>8, <1>9 DEF Next, Take, Work

-----------------------------------------------------------------------------
Inv == TypeInv /\ JobInv /\ ApplyInv

LEMMA InvInit == Init => Inv
  <1> SUFFICES ASSUME Init PROVE Inv
    OBVIOUS
  <1>1. /\ agent \in [at : Steps, req : Requests \cup {0}] /\ agent.at = "idle"
        /\ agent.req = 0 /\ pipe = <<>> /\ applied = <<>> /\ worker.at = "idle"
    BY DEF Init, Steps
  <1>2. Len(<<>>) = 0 /\ <<>> \in Seq(Requests) /\ QueueLen \in Nat /\ DOMAIN <<>> = {}
    BY ExtractAssumption
  <1>3. table = {} /\ there = {} /\ ready = {} /\ aged = {} /\ wrote = {}
    BY DEF Init
  <1>4. TypeInv
    BY <1>1, <1>2, <1>3 DEF TypeInv
  <1>5. JobInv
    BY <1>1, <1>2, <1>3 DEF JobInv
  <1>6. ApplyInv
    BY <1>1, <1>2, <1>3 DEF ApplyInv
  <1> QED BY <1>4, <1>5, <1>6 DEF Inv

LEMMA InvHolds == Spec => []Inv
  <1>1. Inv /\ [Next]_evars => Inv'
    BY TypeStep, JobStep, ApplyStep DEF Inv
  <1> QED BY InvInit, <1>1, PTL DEF Spec

\* The table has none but the jobs that are there, those that are complete are
\* there too, and the queue of the worker is never longer than it was made.
THEOREM TypeCorrect == Spec => []TypeOK
  <1>1. Inv => TypeOK
    BY DEF Inv, TypeInv, JobInv, TypeOK
  <1> QED BY <1>1, InvHolds, PTL

\* No job is freed while it is queued or while the worker asks the LLM for it,
\* whatever was swept, and a request's results are stored once at most, after
\* those of earlier requests and never beside memories it stored by itself.
THEOREM JobsOutliveTheirWork == Spec => []JobsInOrder
  <1>1. Inv => JobsInOrder
    BY DEF Inv, JobInv, ApplyInv, JobsInOrder, JobOutlivesWork, AppliedAtMostOnce
  <1> QED BY <1>1, InvHolds, PTL

-----------------------------------------------------------------------------
(* The setup sessions: jobs are of the session there is, and unless a stop    *)
(* timed out so is the only worker.                                           *)

\* A sequence, of whatever it holds.
ASequence(s) == s \in Seq({s[i] : i \in DOMAIN s})

FlowType ==
    /\ session = [n |-> session.n, mode |-> session.mode, phase |-> session.phase]
    /\ session.n \in 0..MaxSessions
    /\ workers = [k \in 1..MaxSessions |-> workers[k]]
    /\ \A k \in 1..MaxSessions :
          workers[k] = [at |-> workers[k].at, job |-> workers[k].job,
                        wifi |-> workers[k].wifi, found |-> workers[k].found]
    /\ ASequence(jobs)

\* Jobs are those of the session, which is there, and only one that is closed is freed.
JobsOfSession ==
    /\ \A i \in DOMAIN jobs : jobs[i].session = session.n
    /\ session.phase # "closed" => session.n > 0
    /\ freed \subseteq 1..session.n
    /\ session.n \in freed => session.phase = "closed"

\* Unless a stop timed out, there is one worker, that of the session, until it has ended.
OneWorker ==
    wedged \/ /\ \A k \in 1..MaxSessions :
                    k # session.n \/ exited \/ session.phase = "closed" => workers[k] = F!Gone
              /\ \A k \in 1..MaxSessions :
                    workers[k].job # None => workers[k].job.session = session.n

FlowInv == FlowType /\ JobsOfSession /\ OneWorker

LEMMA JobsAppended ==
    ASSUME ASequence(jobs), NEW job
    PROVE  /\ ASequence(Append(jobs, job))
           /\ Len(jobs) \in Nat /\ DOMAIN jobs = 1..Len(jobs)
           /\ DOMAIN Append(jobs, job) = 1..(Len(jobs) + 1)
           /\ Append(jobs, job)[Len(jobs) + 1] = job
           /\ \A i \in 1..Len(jobs) : Append(jobs, job)[i] = jobs[i]
  <1> DEFINE Old == {jobs[i] : i \in DOMAIN jobs}
             more == Append(jobs, job)
             S == Old \cup {job}
  <1>1. jobs \in Seq(S) /\ job \in S
    <2>1. jobs \in Seq(Old)
      BY DEF ASequence
    <2>2. \A i \in 1..Len(jobs) : jobs[i] \in S
      BY <2>1
    <2> HIDE DEF Old
    <2> QED
      BY <2>1, <2>2
  <1>2. /\ more \in Seq(S) /\ Len(more) = Len(jobs) + 1 /\ more[Len(jobs) + 1] = job
        /\ \A i \in 1..Len(jobs) : more[i] = jobs[i]
        /\ DOMAIN jobs = 1..Len(jobs) /\ DOMAIN more = 1..(Len(jobs) + 1) /\ Len(jobs) \in Nat
    BY <1>1, AppendProperties
  <1> HIDE DEF more
  <1>3. more \in Seq({more[i] : i \in DOMAIN more})
    BY <1>2
  <1>4. ASequence(more)
    BY <1>3 DEF ASequence
  <1> QED
    BY <1>2, <1>4 DEF more

LEMMA JobTaken ==
    ASSUME ASequence(jobs), jobs # <<>>
    PROVE  /\ ASequence(Tail(jobs)) /\ 1 \in DOMAIN jobs /\ Head(jobs) = jobs[1]
           /\ \A i \in DOMAIN Tail(jobs) : i + 1 \in DOMAIN jobs /\ Tail(jobs)[i] = jobs[i + 1]
  <1> DEFINE S == {jobs[i] : i \in DOMAIN jobs}
             rest == Tail(jobs)
  <1>1. jobs \in Seq(S)
    BY DEF ASequence
  <1> HIDE DEF S
  <1>2. /\ Len(jobs) \in Nat \ {0} /\ Head(jobs) = jobs[1] /\ DOMAIN jobs = 1..Len(jobs)
        /\ rest \in Seq(S) /\ Len(rest) = Len(jobs) - 1 /\ DOMAIN rest = 1..(Len(jobs) - 1)
        /\ \A i \in 1..(Len(jobs) - 1) : rest[i] = jobs[i + 1]
    BY <1>1, EmptySeq, HeadTailProperties
  <1> HIDE DEF rest
  <1>3. rest \in Seq({rest[i] : i \in DOMAIN rest})
    BY <1>2
  <1>4. \A i \in DOMAIN rest : i + 1 \in DOMAIN jobs /\ rest[i] = jobs[i + 1]
    BY <1>2
  <1>5. ASequence(rest)
    BY <1>3 DEF ASequence
  <1>6. 1 \in DOMAIN jobs
    BY <1>2
  <1> QED
    BY <1>2, <1>4, <1>5, <1>6 DEF rest

LEMMA NoJobs == ASequence(<<>>) /\ DOMAIN <<>> = {}
  BY DEF ASequence

LEMMA GoneIs ==
    /\ F!Gone = [at |-> "gone", job |-> None, wifi |-> F!NoWifi, found |-> 0]
    /\ F!Free = [at |-> "loop", job |-> None, wifi |-> F!NoWifi, found |-> 0]
  BY DEF F!Gone, F!Free

LEMMA FlowInit == F!Init => FlowInv
  <1> SUFFICES ASSUME F!Init PROVE FlowInv
    OBVIOUS
  <1>1. FlowType
    BY NoJobs, GoneIs, SetupAssumption DEF F!Init, FlowType
  <1>2. JobsOfSession
    BY NoJobs DEF F!Init, JobsOfSession
  <1>3. OneWorker
    BY GoneIs DEF F!Init, OneWorker
  <1> QED
    BY <1>1, <1>2, <1>3 DEF FlowInv

LEMMA FlowKept ==
    ASSUME FlowInv, UNCHANGED <<session, workers, jobs, freed, exited, wedged>>
    PROVE  FlowInv'
  BY DEF FlowInv, FlowType, JobsOfSession, OneWorker

\* A turn of the loop hands over at most one job, of its session.
LEMMA FlowLoop == ASSUME FlowInv, NEW STATE u, F!Loop(u) PROVE FlowInv'
  <1>1. /\ UNCHANGED <<session, workers, freed, exited, wedged>>
        /\ jobs' = jobs \/ \E kind : jobs' = Append(jobs, [kind |-> kind, session |-> session.n])
    BY DEF F!Loop
  <1>2. CASE jobs' = jobs
    BY <1>1, <1>2, FlowKept
  <1>3. ASSUME NEW kind, jobs' = Append(jobs, [kind |-> kind, session |-> session.n])
        PROVE  FlowInv'
    <2>1. /\ ASequence(jobs')
          /\ \A i \in DOMAIN jobs' : jobs'[i].session = session.n
      BY <1>3, JobsAppended DEF FlowInv, FlowType, JobsOfSession
    <2> QED
      BY <1>1, <2>1 DEF FlowInv, FlowType, JobsOfSession, OneWorker
  <1> QED
    BY <1>1, <1>2, <1>3

LEMMA FlowTap == ASSUME FlowInv, NEW flag, F!Tap(flag) PROVE FlowInv'
  BY FlowLoop DEF F!Tap

LEMMA FlowDrive == ASSUME FlowInv, F!Drive PROVE FlowInv'
  BY FlowLoop, FlowKept DEF F!Drive, F!Idle, F!Save

LEMMA FlowCheck == ASSUME FlowInv, NEW k \in 1..MaxSessions, F!Check(k) PROVE FlowInv'
  <1>1. UNCHANGED <<session, jobs, freed, wedged>> /\ workers[k].at = "loop"
    BY DEF F!Check
  <1>2. CASE workers' = [workers EXCEPT ![k].at = "receive"] /\ exited' = exited
    <2>1. FlowType' /\ JobsOfSession'
      BY <1>1, <1>2 DEF FlowInv, FlowType, JobsOfSession
    <2>2. workers'[k].job = workers[k].job /\ \A j \in 1..MaxSessions \ {k} : workers'[j] = workers[j]
      BY <1>2 DEF FlowInv, FlowType
    <2>3. OneWorker'
      BY <1>1, <1>2, <2>2, GoneIs DEF FlowInv, OneWorker
    <2> QED
      BY <2>1, <2>3 DEF FlowInv
  <1>3. CASE workers' = [workers EXCEPT ![k] = F!Gone] /\ exited' = TRUE
    <2>1. FlowType' /\ JobsOfSession'
      BY <1>1, <1>3, GoneIs DEF FlowInv, FlowType, JobsOfSession
    <2>2. workers'[k] = F!Gone /\ \A j \in 1..MaxSessions \ {k} : workers'[j] = workers[j]
      BY <1>3 DEF FlowInv, FlowType
    <2>3. OneWorker'
      BY <1>1, <2>2, GoneIs DEF FlowInv, OneWorker
    <2> QED
      BY <2>1, <2>3 DEF FlowInv
  <1> QED
    BY <1>2, <1>3 DEF F!Check

LEMMA FlowReceive == ASSUME FlowInv, NEW k \in 1..MaxSessions, F!Receive(k) PROVE FlowInv'
  <1>1. UNCHANGED <<session, freed, exited, wedged>> /\ workers[k].at = "receive"
    BY DEF F!Receive
  <1>2. CASE jobs = <<>> /\ workers' = [workers EXCEPT ![k] = F!Free] /\ UNCHANGED jobs
    <2>1. FlowType' /\ JobsOfSession'
      BY <1>1, <1>2, GoneIs DEF FlowInv, FlowType, JobsOfSession
    <2>2. OneWorker'
      BY <1>1, <1>2, GoneIs DEF FlowInv, FlowType, OneWorker
    <2> QED
      BY <2>1, <2>2 DEF FlowInv
  <1>3. CASE /\ jobs # <<>> /\ jobs' = Tail(jobs)
             /\ workers' = [workers EXCEPT ![k] = [at |-> Head(jobs).kind, job |-> Head(jobs),
                                                   wifi |-> ui.wifi, found |-> 0]]
    <2>1. /\ ASequence(jobs') /\ \A i \in DOMAIN jobs' : jobs'[i].session = session.n
          /\ Head(jobs).session = session.n
      BY <1>3, JobTaken DEF FlowInv, FlowType, JobsOfSession
    <2>2. FlowType' /\ JobsOfSession'
      BY <1>1, <1>3, <2>1 DEF FlowInv, FlowType, JobsOfSession
    <2>3. OneWorker'
      BY <1>1, <1>3, <2>1, GoneIs DEF FlowInv, FlowType, OneWorker
    <2> QED
      BY <2>2, <2>3 DEF FlowInv
  <1> QED
    BY <1>2, <1>3 DEF F!Receive

LEMMA FlowScanWrites ==
    ASSUME FlowInv, NEW k \in 1..MaxSessions, F!ScanWrites(k) PROVE FlowInv'
  <1>1. /\ UNCHANGED <<session, jobs, freed, exited, wedged>> /\ workers[k].at = "scan"
        /\ \E found \in Scans :
              workers' = [workers EXCEPT ![k].at = "scanned", ![k].found = Len(found)]
    BY DEF F!ScanWrites
  <1>2. PICK found \in Scans :
           workers' = [workers EXCEPT ![k].at = "scanned", ![k].found = Len(found)]
    BY <1>1
  <1>3. FlowType' /\ JobsOfSession'
    BY <1>1, <1>2 DEF FlowInv, FlowType, JobsOfSession
  <1>4. workers'[k].job = workers[k].job /\ \A j \in 1..MaxSessions \ {k} : workers'[j] = workers[j]
    BY <1>2 DEF FlowInv, FlowType
  <1>5. OneWorker'
    BY <1>1, <1>4, GoneIs DEF FlowInv, FlowType, OneWorker
  <1> QED
    BY <1>3, <1>5 DEF FlowInv

\* A worker whose job has ended looks for the next.
LEMMA FlowJobEnds ==
    ASSUME FlowInv, NEW k \in 1..MaxSessions, F!ScanEnds(k) \/ F!ConnectEnds(k)
    PROVE  FlowInv'
  <1>1. /\ UNCHANGED <<session, jobs, freed, exited, wedged>> /\ workers[k].at # "gone"
        /\ workers' = [workers EXCEPT ![k] = F!Free]
    BY DEF F!ScanEnds, F!ConnectEnds
  <1>2. FlowType' /\ JobsOfSession'
    BY <1>1, GoneIs DEF FlowInv, FlowType, JobsOfSession
  <1>3. OneWorker'
    BY <1>1, GoneIs DEF FlowInv, FlowType, OneWorker
  <1> QED
    BY <1>2, <1>3 DEF FlowInv

LEMMA FlowOpen == ASSUME FlowInv, F!Open PROVE FlowInv'
  <1>1. /\ session.phase = "closed" /\ session.n < MaxSessions
        /\ session' = [n |-> session.n + 1, mode |-> session'.mode, phase |-> "run"]
        /\ jobs' = <<>> /\ exited' = FALSE /\ UNCHANGED <<freed, wedged>>
        /\ workers' = [workers EXCEPT ![session.n + 1] = F!Free]
    BY DEF F!Open
  <1>2. session'.n = session.n + 1 /\ session'.phase = "run" /\ session.n \in 0..MaxSessions
    BY <1>1 DEF FlowInv, FlowType
  <1>3. FlowType'
    <2>1. /\ session' = [n |-> session'.n, mode |-> session'.mode, phase |-> session'.phase]
          /\ session'.n \in 0..MaxSessions
      BY <1>1, <1>2, SetupAssumption
    <2>2. ASequence(jobs')
      BY <1>1, NoJobs
    <2>3. /\ workers' = [k \in 1..MaxSessions |-> workers'[k]]
          /\ \A k \in 1..MaxSessions :
                workers'[k] = [at |-> workers'[k].at, job |-> workers'[k].job,
                               wifi |-> workers'[k].wifi, found |-> workers'[k].found]
      BY <1>1, GoneIs DEF FlowInv, FlowType
    <2> QED
      BY <2>1, <2>2, <2>3 DEF FlowType
  <1>4. JobsOfSession'
    BY <1>1, <1>2, NoJobs, SetupAssumption DEF FlowInv, JobsOfSession
  <1>5. OneWorker'
    BY <1>1, <1>2, GoneIs, SetupAssumption DEF FlowInv, FlowType, OneWorker
  <1> QED
    BY <1>3, <1>4, <1>5 DEF FlowInv

LEMMA FlowClose == ASSUME FlowInv, F!Close PROVE FlowInv'
  <1>1. /\ session' = [session EXCEPT !.phase = "stop"] /\ session.phase = "run"
        /\ UNCHANGED <<workers, jobs, freed, exited, wedged>>
    BY DEF F!Close
  <1>2. session'.n = session.n /\ session'.phase = "stop"
    BY <1>1 DEF FlowInv, FlowType
  <1>3. FlowType'
    BY <1>1, <1>2 DEF FlowInv, FlowType
  <1>4. JobsOfSession' /\ OneWorker'
    BY <1>1, <1>2 DEF FlowInv, FlowType, JobsOfSession, OneWorker
  <1> QED
    BY <1>3, <1>4 DEF FlowInv

LEMMA FlowStopped == ASSUME FlowInv, F!Stopped PROVE FlowInv'
  <1>1. /\ session' = [session EXCEPT !.phase = "closed"] /\ session.phase = "stop"
        /\ UNCHANGED <<workers, jobs, exited>>
        /\ \/ exited /\ freed' = freed \cup {session.n} /\ wedged' = wedged
           \/ wedged' = TRUE /\ freed' = freed
    BY DEF F!Stopped, F!MayFree
  <1>2. session'.n = session.n /\ session'.phase = "closed"
    BY <1>1 DEF FlowInv, FlowType
  <1>3. FlowType'
    BY <1>1, <1>2 DEF FlowInv, FlowType
  <1>4. JobsOfSession'
    BY <1>1, <1>2, SetupAssumption DEF FlowInv, FlowType, JobsOfSession
  <1>5. OneWorker'
    BY <1>1, <1>2 DEF FlowInv, OneWorker
  <1> QED
    BY <1>3, <1>4, <1>5 DEF FlowInv

LEMMA FlowRestart == ASSUME FlowInv, F!Restart PROVE FlowInv'
  <1>1. /\ session' = [session EXCEPT !.phase = "closed"] /\ jobs' = <<>>
        /\ workers' = [k \in DOMAIN workers |-> F!Gone] /\ freed' = freed
    BY DEF F!Restart
  <1>2. session'.n = session.n /\ session'.phase = "closed"
    BY <1>1 DEF FlowInv, FlowType
  <1>3. FlowType'
    BY <1>1, <1>2, NoJobs, GoneIs DEF FlowInv, FlowType
  <1>4. JobsOfSession'
    BY <1>1, <1>2, NoJobs DEF FlowInv, JobsOfSession
  <1>5. OneWorker'
    BY <1>1, GoneIs DEF FlowInv, FlowType, OneWorker
  <1> QED
    BY <1>3, <1>4, <1>5 DEF FlowInv

\* Unless a stop timed out, no worker outlives its session, and none has a job in a
\* context that was freed, however sessions follow one another (setup_worker_stop).
THEOREM FlowHolds == F!Spec => []F!StoppedIsStopped
  <1>1. F!Init => FlowInv
    BY FlowInit
  <1>2. FlowInv /\ [F!Next]_(F!fvars) => FlowInv'
    <2> SUFFICES ASSUME FlowInv, [F!Next]_(F!fvars) PROVE FlowInv'
      OBVIOUS
    <2>1. CASE UNCHANGED F!fvars
      BY <2>1, FlowKept DEF F!fvars
    <2>2. CASE F!Next
      BY <2>2, FlowTap, FlowDrive, FlowOpen, FlowClose, FlowStopped, FlowRestart, FlowCheck,
         FlowReceive, FlowScanWrites, FlowJobEnds DEF F!Next, F!Work
    <2> QED
      BY <2>1, <2>2
  <1>3. FlowInv => F!StoppedIsStopped
    BY GoneIs DEF FlowInv, FlowType, JobsOfSession, OneWorker, F!StoppedIsStopped
  <1> QED
    BY <1>1, <1>2, <1>3, PTL DEF F!Spec

LEMMA FlowRuns == TasksSafe => F!Spec
  <1>1. TasksInit => F!Init
    BY DEF TasksInit
  <1>2. [TasksNext]_tasksVars => [F!Next]_(F!fvars)
    BY DEF TasksNext, Is, tasksVars, setupVars, F!fvars
  <1> QED
    BY <1>1, <1>2, PTL DEF TasksSafe, F!Spec

-----------------------------------------------------------------------------
(* The registry of capabilities: every call under way is counted, and the     *)
(* operator clears only a group whose calls were seen to be none.             *)

Calling(m) == {c \in CapCallers : caller[c] = m}

CapType ==
    /\ state = [g \in C!AllGroups |-> state[g]]
    /\ active = [m \in C!Caps |-> active[m]]
    /\ caller \in [CapCallers -> C!Caps \cup {None}]

\* Every call under way is counted.
CallsCounted == \A m \in C!Caps : active[m] = Cardinality(Calling(m))

\* No call is under way in a group that is cleared or about to be.
CallsAreKept ==
    \A c \in CapCallers : caller[c] # None =>
        state[C!GroupOf(caller[c])] \notin {"absent", "unloading"}

\* What the operator stops and clears is the group that is being unloaded.
UnloadsItsGroup ==
    /\ order.does \in {"drain", "unstop", "clear"} => order.group \in C!AllGroups
    /\ order.does \in {"unstop", "clear"} => state[order.group] = "unloading"

CapInv == CapType /\ CallsCounted /\ CallsAreKept /\ UnloadsItsGroup

LEMMA CapCardinality == \A S : C!Cardinality(S) = Cardinality(S)
  BY DEF C!Cardinality, Cardinality

LEMMA GroupHasIt ==
    ASSUME NEW m \in C!Caps
    PROVE  /\ C!GroupOf(m) \in C!AllGroups
           /\ \E i \in DOMAIN Members[C!GroupOf(m)] : Members[C!GroupOf(m)][i] = m
  <1>1. \E g \in C!AllGroups : \E i \in DOMAIN Members[g] : Members[g][i] = m
    BY DEF C!Caps
  <1> QED
    BY <1>1 DEF C!GroupOf

LEMMA CallingIsFinite ==
    \A m : IsFiniteSet(Calling(m)) /\ Cardinality(Calling(m)) \in Nat
  <1>1. \A m : Calling(m) \subseteq CapCallers
    BY DEF Calling
  <1> QED
    BY <1>1, CapAssumption, FS_Subset, FS_CardinalityType

LEMMA CapInit == C!Init => CapInv
  <1> SUFFICES ASSUME C!Init PROVE CapInv
    OBVIOUS
  <1>1. CapType /\ CallsAreKept
    BY DEF C!Init, CapType, CallsAreKept
  <1>2. ASSUME NEW m \in C!Caps PROVE active[m] = Cardinality(Calling(m))
    <2>1. Calling(m) = {}
      BY CapAssumption DEF C!Init, Calling
    <2> QED
      BY <2>1, FS_EmptySet DEF C!Init
  <1>3. UnloadsItsGroup
    BY CapAssumption DEF C!Init, C!NoOrder, UnloadsItsGroup
  <1> QED
    BY <1>1, <1>2, <1>3 DEF CapInv, CallsCounted

LEMMA CapCall ==
    ASSUME CapInv, NEW c \in CapCallers, NEW m \in C!Caps, C!Call(c, m)
    PROVE  CapInv'
  <1>1. /\ caller[c] = None /\ m # None
        /\ active' = [active EXCEPT ![m] = @ + 1] /\ caller' = [caller EXCEPT ![c] = m]
        /\ UNCHANGED <<state, order>>
        /\ state[C!GroupOf(m)] \notin {"absent", "unloading"}
    BY CapAssumption DEF C!Call, C!Available
  <1>2. CapType'
    BY <1>1 DEF CapInv, CapType
  <1>3. Calling(m)' = Calling(m) \cup {c} /\ c \notin Calling(m)
    BY <1>1 DEF CapInv, CapType, Calling
  <1>4. \A n \in C!Caps \ {m} : Calling(n)' = Calling(n)
    BY <1>1, CapAssumption DEF CapInv, CapType, Calling
  <1>5. Cardinality(Calling(m)') = Cardinality(Calling(m)) + 1
    BY <1>3, CallingIsFinite, FS_AddElement
  <1>6. CallsCounted'
    BY <1>1, <1>4, <1>5 DEF CapInv, CapType, CallsCounted
  <1>7. CallsAreKept'
    BY <1>1 DEF CapInv, CapType, CallsAreKept
  <1> QED
    BY <1>1, <1>2, <1>6, <1>7 DEF CapInv, UnloadsItsGroup

LEMMA CapReturn ==
    ASSUME CapInv, NEW c \in CapCallers, C!Return(c)
    PROVE  CapInv'
  <1>0. PICK m : m = caller[c]
    OBVIOUS
  <1>1. m \in C!Caps /\ m # None /\ state[C!GroupOf(m)] # "absent"
    BY <1>0 DEF C!Return, CapInv, CapType, CallsAreKept
  <1>2. c \in Calling(m) /\ active[m] = Cardinality(Calling(m)) /\ active[m] \in Nat
    BY <1>0, <1>1, CallingIsFinite DEF CapInv, CallsCounted, Calling
  <1>3. Cardinality(Calling(m) \ {c}) = active[m] - 1 /\ active[m] > 0
    <2>1. Cardinality(Calling(m) \ {c}) = Cardinality(Calling(m)) - 1
      BY <1>2, CallingIsFinite, FS_RemoveElement
    <2>2. active[m] # 0
      BY <1>2, CallingIsFinite, FS_EmptySet
    <2> QED
      BY <1>2, <2>1, <2>2
  <1>4. /\ active' = [active EXCEPT ![m] = @ - 1] /\ caller' = [caller EXCEPT ![c] = None]
        /\ UNCHANGED <<state, order>>
    BY <1>0, <1>1, <1>3 DEF C!Return, CapInv, CapType
  <1>5. CapType'
    BY <1>4 DEF CapInv, CapType
  <1>6. Calling(m)' = Calling(m) \ {c} /\ \A n \in C!Caps \ {m} : Calling(n)' = Calling(n)
    BY <1>0, <1>1, <1>4, CapAssumption DEF CapInv, CapType, Calling
  <1>7. CallsCounted'
    BY <1>1, <1>3, <1>4, <1>6 DEF CapInv, CapType, CallsCounted
  <1>8. CallsAreKept'
    BY <1>4 DEF CapInv, CapType, CallsAreKept
  <1> QED
    BY <1>4, <1>5, <1>7, <1>8 DEF CapInv, UnloadsItsGroup

\* A state that is neither of the two may be set whatever is called, unless an unload
\* is under way.
LEMMA CapSets ==
    ASSUME CapInv, NEW g \in C!AllGroups, NEW st, st \notin {"absent", "unloading"},
           state' = [state EXCEPT ![g] = st], UNCHANGED <<active, caller>>,
           order'.does \notin {"unstop", "clear"},
           order'.does = "drain" => order'.group \in C!AllGroups
    PROVE  CapInv'
  <1>1. CapType'
    BY DEF CapInv, CapType
  <1>2. CallsCounted'
    BY DEF CapInv, CallsCounted, Calling
  <1>3. CallsAreKept'
    BY GroupHasIt DEF CapInv, CapType, CallsAreKept
  <1> QED
    BY <1>1, <1>2, <1>3 DEF CapInv, UnloadsItsGroup

LEMMA CapKept == ASSUME CapInv, UNCHANGED <<state, active, caller, order>> PROVE CapInv'
  BY DEF CapInv, CapType, CallsCounted, Calling, CallsAreKept, UnloadsItsGroup

LEMMA CapRegister == ASSUME CapInv, C!Register PROVE CapInv'
  <1>1. /\ state' \in {state, [state EXCEPT ![Head(boot)] = "registered"]}
        /\ UNCHANGED <<active, caller, order>> /\ order = C!NoOrder
    BY DEF C!Register
  <1>2. CapType'
    BY <1>1 DEF CapInv, CapType
  <1>3. CallsCounted'
    BY <1>1 DEF CapInv, CallsCounted, Calling
  <1>4. CallsAreKept'
    BY <1>1, GroupHasIt DEF CapInv, CapType, CallsAreKept
  <1> QED
    BY <1>1, <1>2, <1>3, <1>4, CapAssumption DEF CapInv, UnloadsItsGroup, C!NoOrder

LEMMA CapStartAll == ASSUME CapInv, C!StartAll PROVE CapInv'
  <1>1. CASE UNCHANGED <<state, order, active, caller>>
    BY <1>1, CapKept
  <1>2. ASSUME NEW g \in C!AllGroups, state' = [state EXCEPT ![g] = "started"],
               C!Order("start", g, 0), UNCHANGED <<active, caller>>
        PROVE  CapInv'
    <2>1. order'.does = "start"
      BY <1>2 DEF C!Order
    <2> QED
      BY <1>2, <2>1, "started" \notin {"absent", "unloading"}, CapSets
  <1> QED
    BY <1>1, <1>2 DEF C!StartAll

LEMMA CapEnable == ASSUME CapInv, NEW g \in C!AllGroups, C!Enable(g) PROVE CapInv'
  <1>1. order'.does = "start"
    BY DEF C!Enable, C!Order
  <1> QED
    BY <1>1, "started" \notin {"absent", "unloading"}, CapSets DEF C!Enable

LEMMA CapDisable == ASSUME CapInv, NEW g \in C!AllGroups, C!Disable(g) PROVE CapInv'
  <1>1. order'.does = "stop"
    BY DEF C!Disable, C!Order
  <1> QED
    BY <1>1, "disabled" \notin {"absent", "unloading"}, CapSets DEF C!Disable

LEMMA CapUnload == ASSUME CapInv, NEW g \in C!AllGroups, C!Unload(g) PROVE CapInv'
  <1>1. order'.does = "drain" /\ order'.group = g
    BY DEF C!Unload, C!Order
  <1> QED
    BY <1>1, "draining" \notin {"absent", "unloading"}, CapSets DEF C!Unload

LEMMA CapStartPart == ASSUME CapInv, C!StartPart PROVE CapInv'
  <1>1. order'.does \notin {"drain", "unstop", "clear"} /\ UNCHANGED <<active, caller>>
    BY CapAssumption DEF C!StartPart, C!Order, C!NoOrder
  <1>2. state' \in {state, [state EXCEPT ![order.group] = "disabled"]}
    BY DEF C!StartPart
  <1>3. CapType' /\ CallsCounted'
    BY <1>1, <1>2 DEF CapInv, CapType, CallsCounted, Calling
  <1>4. CallsAreKept'
    <2> SUFFICES ASSUME NEW c \in CapCallers, caller[c] # None
                 PROVE  state'[C!GroupOf(caller[c])] \notin {"absent", "unloading"}
      BY <1>1 DEF CallsAreKept
    <2>1. C!GroupOf(caller[c]) \in C!AllGroups
      BY GroupHasIt DEF CapInv, CapType
    <2>2. state[C!GroupOf(caller[c])] \notin {"absent", "unloading"}
      BY DEF CapInv, CallsAreKept
    <2> QED
      BY <1>2, <2>1, <2>2 DEF CapInv, CapType
  <1> QED
    BY <1>1, <1>3, <1>4 DEF CapInv, UnloadsItsGroup

LEMMA CapStopPart == ASSUME CapInv, C!StopPart PROVE CapInv'
  <1>1. UNCHANGED <<state, active, caller>> /\ order.does \in {"stop", "unstop"}
    BY DEF C!StopPart
  <1>2. order'.does \in {"drain", "unstop", "clear"} =>
           order'.does # "drain" /\ order.does = "unstop" /\ order'.group = order.group
    BY CapAssumption DEF C!StopPart, C!Order, C!NoOrder
  <1> QED
    BY <1>1, <1>2 DEF CapInv, CapType, CallsCounted, Calling, CallsAreKept, UnloadsItsGroup

\* A group is unloaded when none of its capabilities has a call.
LEMMA CapPoll == ASSUME CapInv, C!Poll PROVE CapInv'
  <1> DEFINE g == order.group
  <1>1. UNCHANGED <<active, caller>> /\ order.does = "drain"
    BY DEF C!Poll
  <1>2. CASE order' = C!NoOrder /\ UNCHANGED state
    BY <1>1, <1>2, CapAssumption DEF CapInv, CapType, CallsCounted, Calling, CallsAreKept,
       UnloadsItsGroup, C!NoOrder
  <1>3. CASE /\ ~C!HasActive(g) /\ state' = [state EXCEPT ![g] = "unloading"]
             /\ C!Order("unstop", g, Len(Members[g]))
    <2>1. ASSUME NEW c \in CapCallers, caller[c] # None PROVE C!GroupOf(caller[c]) # g
      <3>1. caller[c] \in C!Caps /\ c \in Calling(caller[c])
        BY <2>1 DEF CapInv, CapType, Calling
      <3>2. active[caller[c]] # 0 /\ active[caller[c]] \in Nat
        BY <3>1, CallingIsFinite, FS_EmptySet DEF CapInv, CallsCounted
      <3>3. active[caller[c]] > 0
        BY <3>2
      <3> QED
        BY <1>3, <3>1, <3>3, GroupHasIt DEF C!HasActive
    <2>2. CapType' /\ CallsCounted'
      BY <1>1, <1>3 DEF CapInv, CapType, CallsCounted, Calling
    <2>3. CallsAreKept'
      BY <1>1, <1>3, <2>1, GroupHasIt DEF CapInv, CapType, CallsAreKept
    <2>4. order'.group = g /\ g \in C!AllGroups
      BY <1>1, <1>3 DEF C!Order, CapInv, UnloadsItsGroup
    <2>5. UnloadsItsGroup'
      BY <1>3, <2>4 DEF CapInv, CapType, UnloadsItsGroup
    <2> QED
      BY <2>2, <2>3, <2>5 DEF CapInv
  <1> QED
    BY <1>2, <1>3 DEF C!Poll

LEMMA CapClear == ASSUME CapInv, C!Clear PROVE CapInv'
  <1> DEFINE g == order.group
  <1>1. /\ state' = [state EXCEPT ![g] = "absent"] /\ UNCHANGED caller
        /\ active' = [m \in C!Caps |-> IF C!GroupOf(m) = g THEN 0 ELSE active[m]]
        /\ order' = C!NoOrder /\ g \in C!AllGroups /\ state[g] = "unloading"
    BY DEF C!Clear, CapInv, UnloadsItsGroup
  <1>2. \A c \in CapCallers : caller[c] # None => C!GroupOf(caller[c]) # g
    BY <1>1 DEF CapInv, CallsAreKept
  <1>3. ASSUME NEW m \in C!Caps, C!GroupOf(m) = g PROVE Cardinality(Calling(m)) = 0
    <2>1. Calling(m) = {}
      BY <1>2, <1>3, CapAssumption DEF Calling
    <2> QED
      BY <2>1, FS_EmptySet
  <1>4. \A m : Calling(m)' = Calling(m)
    BY <1>1 DEF Calling
  <1>5. CapType' /\ CallsCounted'
    BY <1>1, <1>3, <1>4 DEF CapInv, CapType, CallsCounted
  <1>6. CallsAreKept'
    BY <1>1, <1>2, GroupHasIt DEF CapInv, CapType, CallsAreKept
  <1> QED
    BY <1>1, <1>5, <1>6, CapAssumption DEF CapInv, UnloadsItsGroup, C!NoOrder

\* While a group is unloaded no task executes a capability of it, and every call under
\* way is counted (claw_cap_unregister_group, claw_cap_call).
THEOREM CapsHold == C!Spec => []C!UnloadedHasNoCalls
  <1>1. C!Init => CapInv
    BY CapInit
  <1>2. CapInv /\ [C!Next]_(C!cvars) => CapInv'
    <2> SUFFICES ASSUME CapInv, [C!Next]_(C!cvars) PROVE CapInv'
      OBVIOUS
    <2>1. CASE UNCHANGED C!cvars
      BY <2>1, CapKept DEF C!cvars
    <2>2. CASE C!Next
      BY <2>2, CapCall, CapReturn, CapRegister, CapStartAll, CapEnable, CapDisable, CapUnload,
         CapStartPart, CapStopPart, CapPoll, CapClear DEF C!Next
    <2> QED
      BY <2>1, <2>2
  <1>3. CapInv => C!UnloadedHasNoCalls
    BY CapCardinality DEF CapInv, CallsCounted, CallsAreKept, Calling, C!UnloadedHasNoCalls
  <1> QED
    BY <1>1, <1>2, <1>3, PTL DEF C!Spec

LEMMA CapsRun == TasksSafe => C!Spec
  <1>1. TasksInit => C!Init
    BY DEF TasksInit
  <1>2. [TasksNext]_tasksVars => [C!Next]_(C!cvars)
    BY DEF TasksNext, Is, tasksVars, capVars, C!cvars
  <1> QED
    BY <1>1, <1>2, PTL DEF TasksSafe, C!Spec

-----------------------------------------------------------------------------
(* Sending to a chat: where each call is, and what it has sent by then.       *)

IsCall(r) ==
    /\ r = [kind |-> r.kind, text |-> r.text, at |-> r.at, offset |-> r.offset,
            failed |-> r.failed]
    /\ r.failed \in BOOLEAN

SendType ==
    /\ ASequence(chat)
    /\ call = [c \in SendCallers |-> call[c]]
    /\ \A c \in SendCallers : IsCall(call[c])

TextOf(c)     == M!Of(c, "text")
PicturesOf(c) == M!Of(c, "picture")
BytesOf(c)    == M!Bytes(call[c].text)

\* What is shown of a text ends where the next piece begins.
Reaches(c, offset) ==
    IF TextOf(c) = {} THEN offset = 0
    ELSE \E i \in TextOf(c) : M!LastOf(TextOf(c), i) /\ chat[i].to = offset

OnePicture(c) == \E i \in DOMAIN chat : PicturesOf(c) = {i}

NothingYet(c) == TextOf(c) = {} /\ call[c].offset = 0 /\ ~call[c].failed

\* Nothing has been sent; ...
AtFirst(c) ==
    /\ call[c].at = "idle" => NothingYet(c) /\ PicturesOf(c) = {}
    /\ call[c].at = "card" => NothingYet(c) /\ call[c].kind = "text"

\* ... a picture is on its way, on WeChat after its caption; ...
AtPicture(c) ==
    call[c].at \in {"upload", "media"} =>
        /\ call[c].kind = "picture" /\ PicturesOf(c) = {} /\ ~call[c].failed
        /\ IF platform = "wechat" /\ call[c].text # <<>>
           THEN M!Whole(TextOf(c), BytesOf(c))
           ELSE NothingYet(c)

\* ... a text is, on Feishu after the picture it belongs to; ...
AtText(c) ==
    call[c].at = "text" =>
        /\ ~call[c].failed => M!Gapless(TextOf(c)) /\ Reaches(c, call[c].offset)
        /\ \/ call[c].kind = "text"
           \/ /\ call[c].kind = "picture" /\ call[c].text # <<>>
              /\ \/ platform = "feishu" /\ OnePicture(c)
                 \/ platform = "wechat" /\ PicturesOf(c) = {}

\* ... or the call has answered.
AtDone(c) == call[c].at = "done" /\ ~call[c].failed => M!SentAll(c)

\* On Feishu a call goes on only while nothing has failed.
OnFeishu(c) ==
    platform = "feishu" => /\ M!Gapless(TextOf(c))
                           /\ call[c].at = "text" => ~call[c].failed

\* On Feishu users see whatever is answered as sent.
AllSeen == platform = "feishu" => \A i \in DOMAIN chat : chat[i].times > 0

CallInv(c) == /\ AtFirst(c) /\ AtPicture(c) /\ AtText(c) /\ AtDone(c) /\ OnFeishu(c)

SendInv == SendType /\ AllSeen /\ \A c \in SendCallers : CallInv(c)

Piece(c, what, from, to, times) ==
    [of |-> c, what |-> what, from |-> from, to |-> to, times |-> times]

\* What a step of a call does to the chat.
Sends(c) ==
    \/ UNCHANGED chat
    \/ \E what, from, to, times :
          M!Puts(c, what, from, to, times) /\ (platform = "feishu" => times > 0)

\* What the chat is once something more is shown.
LEMMA OneMore ==
    ASSUME ASequence(chat), NEW c, NEW what, NEW from, NEW to, NEW times,
           M!Puts(c, what, from, to, times)
    PROVE  /\ ASequence(chat')
           /\ Len(chat) \in Nat /\ DOMAIN chat = 1..Len(chat)
           /\ DOMAIN chat' = 1..(Len(chat) + 1)
           /\ chat'[Len(chat) + 1] = Piece(c, what, from, to, times)
           /\ \A i \in 1..Len(chat) : chat'[i] = chat[i]
  <1> DEFINE piece == Piece(c, what, from, to, times)
             Old == {chat[i] : i \in DOMAIN chat}
             more == Append(chat, piece)
             Both == Old \cup {piece}
  <1> HIDE DEF piece
  <1>1. chat \in Seq(Both) /\ piece \in Both
    <2>1. chat \in Seq(Old)
      BY DEF ASequence
    <2>2. \A i \in 1..Len(chat) : chat[i] \in Both
      BY <2>1
    <2> HIDE DEF Old
    <2> QED
      BY <2>1, <2>2
  <1>2. /\ more \in Seq(Both) /\ Len(more) = Len(chat) + 1 /\ more[Len(chat) + 1] = piece
        /\ \A i \in 1..Len(chat) : more[i] = chat[i]
        /\ DOMAIN chat = 1..Len(chat) /\ DOMAIN more = 1..(Len(chat) + 1) /\ Len(chat) \in Nat
    BY <1>1, AppendProperties
  <1>3. chat' = more
    BY DEF piece, Piece, M!Puts
  <1> HIDE DEF more
  <1>4. more \in Seq({more[i] : i \in DOMAIN more})
    BY <1>2
  <1>5. ASequence(chat')
    BY <1>3, <1>4 DEF ASequence
  <1> QED
    BY <1>2, <1>3, <1>5 DEF piece

\* A request leaves the chat as it is, when it fails, or one more is in it.
LEMMA PostIs ==
    ASSUME NEW c, NEW what, NEW from, NEW to, NEW ok, M!Posts(c, what, from, to, ok)
    PROVE  /\ UNCHANGED platform /\ Sends(c)
           /\ \/ ~ok /\ UNCHANGED chat
              \/ \E times : M!Puts(c, what, from, to, times)
  <1>1. PICK times \in 0..2 :
          /\ times = 0 /\ ok => platform # "feishu"
          /\ IF ok \/ times > 0 THEN M!Puts(c, what, from, to, times) ELSE UNCHANGED chat
    BY DEF M!Posts
  <1>2. UNCHANGED platform
    BY DEF M!Posts
  <1>3. CASE ok \/ times > 0
    <2>1. platform = "feishu" => times > 0
      BY <1>1, <1>3
    <2> QED
      BY <1>1, <1>2, <1>3, <2>1 DEF Sends
  <1>4. CASE ~(ok \/ times > 0)
    BY <1>1, <1>2, <1>4 DEF Sends
  <1> QED
    BY <1>3, <1>4

LEMMA OfOneMore ==
    ASSUME ASequence(chat), NEW c, NEW what, NEW from, NEW to, NEW times,
           M!Puts(c, what, from, to, times)
    PROVE  /\ M!Of(c, what)' = M!Of(c, what) \cup {Len(chat) + 1}
           /\ \A d, w : d # c \/ w # what => M!Of(d, w)' = M!Of(d, w)
           /\ \A d, w : \A i \in M!Of(d, w) : /\ i \in Nat /\ i < Len(chat) + 1
                                              /\ chat'[i] = chat[i]
  <1> DEFINE n == Len(chat) + 1
  <1>1. /\ n \in Nat /\ DOMAIN chat = 1..Len(chat) /\ DOMAIN chat' = 1..n
        /\ chat'[n].of = c /\ chat'[n].what = what /\ chat'[n].times = times
        /\ \A i \in DOMAIN chat : i \in Nat /\ i < n /\ chat'[i] = chat[i]
    <2>1. /\ Len(chat) \in Nat /\ DOMAIN chat = 1..Len(chat) /\ DOMAIN chat' = 1..n
          /\ chat'[n] = Piece(c, what, from, to, times)
          /\ \A i \in 1..Len(chat) : chat'[i] = chat[i]
      BY OneMore, Zenon
    <2> QED
      BY <2>1 DEF Piece
  <1>2. DOMAIN chat' = DOMAIN chat \cup {n} /\ n \notin DOMAIN chat
    BY <1>1
  <1> HIDE DEF n
  <1>3. M!Of(c, what)' = M!Of(c, what) \cup {n}
    BY <1>1, <1>2 DEF M!Of
  <1>4. ASSUME NEW d, NEW w, d # c \/ w # what
        PROVE  M!Of(d, w)' = M!Of(d, w)
    BY <1>1, <1>2, <1>4 DEF M!Of
  <1>5. \A d, w : \A i \in M!Of(d, w) : i \in Nat /\ i < n /\ chat'[i] = chat[i]
    BY <1>1 DEF M!Of
  <1> QED
    BY <1>3, <1>4, <1>5 DEF n

\* What others send does not change what a call has shown.
LEMMA SameText ==
    ASSUME NEW c, TextOf(c)' = TextOf(c), \A i \in TextOf(c) : chat'[i] = chat[i]
    PROVE  /\ M!Gapless(TextOf(c))' = M!Gapless(TextOf(c))
           /\ \A o : Reaches(c, o)' = Reaches(c, o)
           /\ \A b : M!Whole(TextOf(c), b)' = M!Whole(TextOf(c), b)
  <1>1. M!Gapless(TextOf(c))' = M!Gapless(TextOf(c))
    BY DEF M!Gapless, M!LastOf
  <1>2. \A o : Reaches(c, o)' = Reaches(c, o)
    BY DEF Reaches, M!LastOf
  <1>3. \A b : M!Whole(TextOf(c), b)' = M!Whole(TextOf(c), b)
    BY <1>1 DEF M!Whole, M!LastOf
  <1> QED
    BY <1>1, <1>2, <1>3

\* A piece that begins where the text ends leaves no gap.
LEMMA PieceFits ==
    ASSUME ASequence(chat), NEW c, NEW from, NEW to, NEW times,
           M!Puts(c, "text", from, to, times),
           M!Gapless(TextOf(c)), Reaches(c, from)
    PROVE  /\ M!Gapless(TextOf(c))' /\ Reaches(c, to)'
           /\ M!Whole(TextOf(c), to)'
  <1> DEFINE n == Len(chat) + 1
             P == TextOf(c)
  <1>1. /\ P' = P \cup {n} /\ chat'[n].from = from /\ chat'[n].to = to
        /\ \A i \in P : i \in Nat /\ i < n /\ chat'[i] = chat[i]
        /\ n \in Nat
    <2>1. n \in Nat /\ chat'[n].from = from /\ chat'[n].to = to
      <3>1. Len(chat) \in Nat /\ chat'[n] = Piece(c, "text", from, to, times)
        BY OneMore, Zenon
      <3> QED
        BY <3>1 DEF Piece
    <2> QED
      BY <2>1, OfOneMore DEF TextOf
  <1> HIDE DEF n
  <1>2. M!LastOf(P', n)
    BY <1>1 DEF M!LastOf
  <1>3. M!Gapless(P)'
    <2>1. {j \in P' : j < n} = P
      BY <1>1
    <2>2. \A i \in P : {j \in P' : j < i} = {j \in P : j < i}
      BY <1>1
    <2>3. IF P = {} THEN chat'[n].from = 0
          ELSE \E j \in P : M!LastOf(P, j) /\ chat'[j].to = chat'[n].from
      BY <1>1 DEF Reaches
    <2>4. ASSUME NEW i \in P
          PROVE  IF {j \in P : j < i} = {} THEN chat'[i].from = 0
                 ELSE \E j \in {k \in P : k < i} :
                         M!LastOf({k \in P : k < i}, j) /\ chat'[j].to = chat'[i].from
      BY <1>1 DEF M!Gapless
    <2> QED
      BY <1>1, <2>1, <2>2, <2>3, <2>4, ZenonT(60) DEF M!Gapless, M!LastOf
  <1>4. Reaches(c, to)'
    BY <1>1, <1>2 DEF Reaches, M!LastOf
  <1>5. M!Whole(P, to)'
    BY <1>1, <1>2, <1>3 DEF M!Whole, M!LastOf
  <1> QED
    BY <1>3, <1>4, <1>5

\* What is there of a call after a step of another.
LEMMA OtherCalls ==
    ASSUME SendInv, NEW c, NEW d \in SendCallers, d # c, UNCHANGED platform,
           call'[d] = call[d],
           Sends(c)
    PROVE  CallInv(d)'
  <1>1. /\ \A w : M!Of(d, w)' = M!Of(d, w)
        /\ \A w : \A i \in M!Of(d, w) : i \in DOMAIN chat /\ chat'[i] = chat[i]
        /\ DOMAIN chat \subseteq DOMAIN chat'
    <2>1. CASE UNCHANGED chat
      BY <2>1 DEF M!Of
    <2>2. ASSUME NEW what, NEW from, NEW to, NEW times, M!Puts(c, what, from, to, times)
          PROVE  <1>1!1 /\ <1>1!2 /\ <1>1!3
      <3>1. ASequence(chat)
        BY DEF SendInv, SendType
      <3>2. DOMAIN chat \subseteq DOMAIN chat'
        BY <2>2, <3>1, OneMore
      <3>3. \A w : \A i \in M!Of(d, w) : i \in DOMAIN chat
        BY DEF M!Of
      <3> QED
        BY <2>2, <3>1, <3>2, <3>3, OfOneMore
    <2> QED
      BY <2>1, <2>2 DEF Sends
  <1>2. /\ TextOf(d)' = TextOf(d) /\ PicturesOf(d)' = PicturesOf(d)
        /\ M!Of(d, "card")' = M!Of(d, "card")
        /\ \A i \in TextOf(d) : chat'[i] = chat[i]
        /\ OnePicture(d) => OnePicture(d)'
    BY <1>1 DEF TextOf, PicturesOf, OnePicture
  <1>3. BytesOf(d)' = BytesOf(d)
    BY DEF BytesOf
  <1>4. /\ M!Gapless(TextOf(d))' = M!Gapless(TextOf(d))
        /\ M!Whole(TextOf(d), BytesOf(d))' = M!Whole(TextOf(d), BytesOf(d))
        /\ Reaches(d, call[d].offset)' = Reaches(d, call[d].offset)
    BY <1>2, <1>3, SameText
  <1>5. CallInv(d)
    BY DEF SendInv
  <1>6. AtFirst(d)' /\ AtPicture(d)'
    BY <1>2, <1>4, <1>5 DEF CallInv, AtFirst, AtPicture, NothingYet
  <1>7. AtText(d)' /\ OnFeishu(d)'
    BY <1>2, <1>4, <1>5 DEF CallInv, AtText, OnFeishu
  <1>8. AtDone(d)'
    <2>1. M!SentAll(d) => M!SentAll(d)'
      BY <1>2, <1>4 DEF M!SentAll, TextOf, BytesOf, PicturesOf, OnePicture
    <2> QED
      BY <1>5, <2>1 DEF CallInv, AtDone
  <1> QED
    BY <1>6, <1>7, <1>8 DEF CallInv

\* A call that moves on with what it sends.
Moves(c, step, offset, failed) ==
    /\ call' = [d \in SendCallers |-> call'[d]]
    /\ \A d \in SendCallers \ {c} : call'[d] = call[d]
    /\ IsCall(call'[c])
    /\ call'[c].kind = call[c].kind /\ call'[c].text = call[c].text
    /\ call'[c].at = step /\ call'[c].offset = offset /\ call'[c].failed = failed

LEMMA Moved ==
    ASSUME SendInv, NEW c \in SendCallers, NEW step, call' = M!Moved(c, step)
    PROVE  Moves(c, step, call[c].offset, call[c].failed)
  <1>1. /\ call'[c] = [call[c] EXCEPT !.at = step] /\ IsCall(call[c])
        /\ \A d \in SendCallers \ {c} : call'[d] = call[d]
        /\ call' = [d \in SendCallers |-> call'[d]]
    BY DEF SendInv, SendType, M!Moved
  <1>2. \A r, q : IsCall(r) /\ q = [r EXCEPT !.at = step] =>
           /\ IsCall(q) /\ q.kind = r.kind /\ q.text = r.text
           /\ q.at = step /\ q.offset = r.offset /\ q.failed = r.failed
    BY DEF IsCall
  <1> QED
    BY <1>1, <1>2 DEF Moves

LEMMA Done ==
    ASSUME SendInv, NEW c \in SendCallers, NEW failed \in BOOLEAN, call' = M!Done(c, failed)
    PROVE  Moves(c, "done", call[c].offset, failed)
  <1>1. /\ call'[c] = [[call[c] EXCEPT !.at = "done"] EXCEPT !.failed = failed]
        /\ IsCall(call[c])
        /\ \A d \in SendCallers \ {c} : call'[d] = call[d]
        /\ call' = [d \in SendCallers |-> call'[d]]
    BY DEF SendInv, SendType, M!Done
  <1>2. PICK r, q : r = call[c] /\ q = call'[c]
    OBVIOUS
  <1>3. q = [[r EXCEPT !.at = "done"] EXCEPT !.failed = failed] /\ IsCall(r)
    BY <1>1, <1>2
  <1>4. /\ IsCall(q) /\ q.kind = r.kind /\ q.text = r.text
        /\ q.at = "done" /\ q.offset = r.offset /\ q.failed = failed
    BY <1>3 DEF IsCall
  <1> QED
    BY <1>1, <1>2, <1>4 DEF Moves

LEMMA FailureIs ==
    ASSUME SendInv, NEW c \in SendCallers
    PROVE  /\ call[c].failed \in BOOLEAN
           /\ M!Failed(c, TRUE) = call[c].failed
           /\ M!Failed(c, FALSE) = TRUE
  <1>1. call[c].failed \in BOOLEAN
    BY DEF SendInv, SendType, IsCall
  <1> QED
    BY <1>1, Zenon DEF M!Failed

\* It is enough to look at the call that moves.
LEMMA CallMoves ==
    ASSUME SendInv, NEW c \in SendCallers, UNCHANGED platform,
           NEW step, NEW offset, NEW failed \in BOOLEAN,
           Moves(c, step, offset, failed),
           Sends(c),
           CallInv(c)'
    PROVE  SendInv'
  <1>1. ASequence(chat')
    BY OneMore DEF SendInv, SendType, Sends
  <1>4. AllSeen'
    <2>1. CASE UNCHANGED chat
      BY <2>1 DEF SendInv, AllSeen
    <2>2. ASSUME NEW what, NEW from, NEW to, NEW times, M!Puts(c, what, from, to, times),
                 platform = "feishu" => times > 0
          PROVE  AllSeen'
      <3>1. /\ DOMAIN chat = 1..Len(chat) /\ DOMAIN chat' = 1..(Len(chat) + 1)
            /\ chat'[Len(chat) + 1] = Piece(c, what, from, to, times) /\ Len(chat) \in Nat
            /\ \A i \in 1..Len(chat) : chat'[i] = chat[i]
        <4>1. ASequence(chat)
          BY DEF SendInv, SendType
        <4> QED
          BY <2>2, <4>1, OneMore, Zenon
      <3>2. \A i \in DOMAIN chat' : i \in DOMAIN chat \/ i = Len(chat) + 1
        BY <3>1
      <3> QED
        BY <2>2, <3>1, <3>2 DEF SendInv, AllSeen, Piece
    <2> QED
      BY <2>1, <2>2 DEF Sends
  <1>2. SendType'
    BY <1>1 DEF SendInv, SendType, Moves
  <1>3. ASSUME NEW d \in SendCallers, d # c PROVE CallInv(d)'
    <2>1. call'[d] = call[d]
      BY <1>3 DEF Moves
    <2> QED
      BY <1>3, <2>1, OtherCalls
  <1> QED
    BY <1>2, <1>3, <1>4 DEF SendInv

\* What a call has shown, when nothing is shown.
LEMMA NothingShown ==
    ASSUME UNCHANGED chat
    PROVE  \A c : /\ TextOf(c)' = TextOf(c) /\ PicturesOf(c)' = PicturesOf(c)
                  /\ M!Of(c, "card")' = M!Of(c, "card") /\ OnePicture(c)' = OnePicture(c)
                  /\ M!Gapless(TextOf(c))' = M!Gapless(TextOf(c))
                  /\ \A o : Reaches(c, o)' = Reaches(c, o)
                  /\ \A b : M!Whole(TextOf(c), b)' = M!Whole(TextOf(c), b)
  <1> SUFFICES ASSUME NEW c
      PROVE  /\ TextOf(c)' = TextOf(c) /\ PicturesOf(c)' = PicturesOf(c)
             /\ M!Of(c, "card")' = M!Of(c, "card") /\ OnePicture(c)' = OnePicture(c)
             /\ M!Gapless(TextOf(c))' = M!Gapless(TextOf(c))
             /\ \A o : Reaches(c, o)' = Reaches(c, o)
             /\ \A b : M!Whole(TextOf(c), b)' = M!Whole(TextOf(c), b)
    OBVIOUS
  <1>1. /\ TextOf(c)' = TextOf(c) /\ PicturesOf(c)' = PicturesOf(c)
        /\ M!Of(c, "card")' = M!Of(c, "card") /\ OnePicture(c)' = OnePicture(c)
    BY DEF TextOf, PicturesOf, M!Of, OnePicture
  <1> QED
    BY <1>1, SameText

LEMMA SendInit == M!Init => SendInv
  <1> SUFFICES ASSUME M!Init PROVE SendInv
    OBVIOUS
  <1>1. SendType
    <2>1. ASequence(chat)
      BY DEF M!Init, ASequence
    <2> QED
      BY <2>1 DEF M!Init, M!NoCall, SendType, IsCall
  <1>2. ASSUME NEW c \in SendCallers PROVE CallInv(c)
    <2>1. \A w : M!Of(c, w) = {}
      BY DEF M!Init, M!Of
    <2>2. call[c].at = "idle" /\ call[c].offset = 0 /\ call[c].failed = FALSE
      BY DEF M!Init, M!NoCall
    <2> QED
      BY <2>1, <2>2 DEF CallInv, AtFirst, AtPicture, AtText, AtDone, OnFeishu, NothingYet,
         TextOf, PicturesOf, M!Gapless
  <1>3. AllSeen
    BY DEF M!Init, AllSeen
  <1> QED
    BY <1>1, <1>2, <1>3 DEF SendInv

LEMMA SendBegin == ASSUME SendInv, NEW c \in SendCallers, M!Begin(c) PROVE SendInv'
  <1>1. PICK kind \in {"text", "picture"}, t \in Texts :
          /\ kind = "text" => t # <<>>
          /\ call' = [call EXCEPT ![c] = [M!NoCall EXCEPT !.kind = kind, !.text = t,
                                                          !.at = M!First(kind, t)]]
    BY DEF M!Begin
  <1>2. UNCHANGED <<platform, chat>> /\ call[c] = M!NoCall
    BY DEF M!Begin
  <1> DEFINE step == M!First(kind, t)
  <1>3. /\ step = "card" \/ step = "text" \/ step = "media" \/ step = "upload"
        /\ step = "card" => kind = "text"
        /\ step = "text" => kind = "text" \/ (platform = "wechat" /\ t # <<>>)
        /\ step \in {"media", "upload"} =>
              kind = "picture" /\ ~(platform = "wechat" /\ t # <<>>)
    BY DEF M!First
  <1> HIDE DEF step
  <1>4. /\ call'[c] = [M!NoCall EXCEPT !.kind = kind, !.text = t, !.at = step]
        /\ call' = [d \in SendCallers |-> call'[d]]
        /\ \A d \in SendCallers \ {c} : call'[d] = call[d]
    BY <1>1 DEF SendInv, SendType, step
  <1>5. /\ call'[c].kind = kind /\ call'[c].text = t /\ call'[c].at = step
        /\ call'[c].offset = 0 /\ call'[c].failed = FALSE /\ IsCall(call'[c])
    BY <1>4 DEF IsCall, M!NoCall
  <1>6. TextOf(c) = {} /\ PicturesOf(c) = {}
    BY <1>2 DEF M!NoCall, SendInv, CallInv, AtFirst, NothingYet
  <1>7. TextOf(c)' = {} /\ PicturesOf(c)' = {} /\ M!Gapless(TextOf(c))' /\ Reaches(c, 0)'
    <2>1. M!Gapless(TextOf(c)) /\ Reaches(c, 0)
      BY <1>6 DEF M!Gapless, Reaches
    <2> QED
      BY <1>2, <1>6, <2>1, NothingShown
  <1>8. CallInv(c)'
    BY <1>2, <1>3, <1>5, <1>7 DEF CallInv, AtFirst, AtPicture, AtText, AtDone, OnFeishu, NothingYet
  <1>9. SendType'
    BY <1>2, <1>4, <1>5 DEF SendInv, SendType
  <1>10. \A d \in SendCallers \ {c} : CallInv(d)'
    BY <1>2, <1>4, OtherCalls DEF Sends
  <1>11. AllSeen'
    BY <1>2 DEF SendInv, AllSeen
  <1> QED
    BY <1>8, <1>9, <1>10, <1>11 DEF SendInv

LEMMA GoesOn ==
    ASSUME SendInv, NEW c \in SendCallers, NEW offset, NEW failed \in BOOLEAN,
           call' = [call EXCEPT ![c].offset = offset, ![c].failed = failed]
    PROVE  Moves(c, call[c].at, offset, failed)
  <1>1. /\ call'[c] = [[call[c] EXCEPT !.offset = offset] EXCEPT !.failed = failed]
        /\ IsCall(call[c])
        /\ \A d \in SendCallers \ {c} : call'[d] = call[d]
        /\ call' = [d \in SendCallers |-> call'[d]]
    BY DEF SendInv, SendType
  <1>2. PICK r, q : r = call[c] /\ q = call'[c]
    OBVIOUS
  <1>3. q = [[r EXCEPT !.offset = offset] EXCEPT !.failed = failed] /\ IsCall(r)
    BY <1>1, <1>2
  <1>4. /\ IsCall(q) /\ q.kind = r.kind /\ q.text = r.text
        /\ q.at = r.at /\ q.offset = offset /\ q.failed = failed
    BY <1>3 DEF IsCall
  <1> QED
    BY <1>1, <1>2, <1>4 DEF Moves

LEMMA ToPicture ==
    ASSUME SendInv, NEW c \in SendCallers, NEW offset,
           call' = [call EXCEPT ![c].at = "upload", ![c].offset = offset]
    PROVE  Moves(c, "upload", offset, call[c].failed)
  <1>1. /\ call'[c] = [[call[c] EXCEPT !.at = "upload"] EXCEPT !.offset = offset]
        /\ IsCall(call[c])
        /\ \A d \in SendCallers \ {c} : call'[d] = call[d]
        /\ call' = [d \in SendCallers |-> call'[d]]
    BY DEF SendInv, SendType
  <1>2. PICK r, q : r = call[c] /\ q = call'[c]
    OBVIOUS
  <1>3. q = [[r EXCEPT !.at = "upload"] EXCEPT !.offset = offset] /\ IsCall(r)
    BY <1>1, <1>2
  <1>4. /\ IsCall(q) /\ q.kind = r.kind /\ q.text = r.text
        /\ q.at = "upload" /\ q.offset = offset /\ q.failed = r.failed
    BY <1>3 DEF IsCall
  <1> QED
    BY <1>1, <1>2, <1>4 DEF Moves

\* A call that has failed has only its text on Feishu to look at.
LEMMA CallFails ==
    ASSUME SendInv, NEW c \in SendCallers, UNCHANGED platform,
           Moves(c, "done", call[c].offset, TRUE),
           Sends(c),
           platform = "feishu" => M!Gapless(TextOf(c))'
    PROVE  SendInv'
  <1>1. call'[c].at = "done" /\ call'[c].failed = TRUE
    BY DEF Moves
  <1>2. CallInv(c)'
    BY <1>1 DEF CallInv, AtFirst, AtPicture, AtText, AtDone, OnFeishu
  <1> QED
    BY <1>2, CallMoves

\* What a post of a call other than of a text changes.
LEMMA OtherPost ==
    ASSUME SendInv, NEW c, NEW what, NEW from, NEW to, NEW times, what # "text",
           M!Puts(c, what, from, to, times)
    PROVE  /\ TextOf(c)' = TextOf(c)
           /\ M!Gapless(TextOf(c))' = M!Gapless(TextOf(c))
           /\ \A o : Reaches(c, o)' = Reaches(c, o)
           /\ \A b : M!Whole(TextOf(c), b)' = M!Whole(TextOf(c), b)
  <1>1. ASequence(chat)
    BY DEF SendInv, SendType
  <1>2. TextOf(c)' = TextOf(c) /\ \A i \in TextOf(c) : chat'[i] = chat[i]
    BY <1>1, OfOneMore DEF TextOf
  <1> QED
    BY <1>2, SameText

LEMMA SendUpload == ASSUME SendInv, NEW c \in SendCallers, M!Upload(c) PROVE SendInv'
  <1>1. UNCHANGED <<platform, chat>> /\ call[c].at = "upload" /\ CallInv(c)
    BY DEF M!Upload, SendInv
  <1>2. CASE call' = M!Moved(c, "media")
    <2>1. Moves(c, "media", call[c].offset, call[c].failed)
      BY <1>2, Moved
    <2>2. BytesOf(c)' = BytesOf(c)
      BY <2>1 DEF Moves, BytesOf
    <2>3. CallInv(c)'
      BY <1>1, <2>1, <2>2, NothingShown DEF CallInv, Moves, AtFirst, AtPicture, AtText, AtDone,
         OnFeishu, NothingYet
    <2> QED
      BY <1>1, <2>1, <2>3, CallMoves, FailureIs DEF Sends
  <1>3. CASE call' = M!Done(c, TRUE)
    <2>1. platform = "feishu" => M!Gapless(TextOf(c))'
      BY <1>1, NothingShown DEF CallInv, OnFeishu
    <2> QED
      BY <1>1, <1>3, <2>1, Done, CallFails DEF Sends
  <1> QED
    BY <1>2, <1>3 DEF M!Upload

LEMMA SendGivesUp == ASSUME SendInv, NEW c \in SendCallers, M!GivesUp(c) PROVE SendInv'
  <1>1. UNCHANGED <<platform, chat>> /\ call' = M!Done(c, TRUE) /\ CallInv(c)
    BY DEF M!GivesUp, SendInv
  <1>2. platform = "feishu" => M!Gapless(TextOf(c))'
    BY <1>1, NothingShown DEF CallInv, OnFeishu
  <1> QED
    BY <1>1, <1>2, Done, CallFails DEF Sends

LEMMA SendsCard == ASSUME SendInv, NEW c \in SendCallers, M!SendCard(c) PROVE SendInv'
  <1>1. PICK ok \in BOOLEAN :
          /\ M!Posts(c, "card", 0, M!Bytes(call[c].text), ok)
          /\ call' = IF ok THEN M!Done(c, FALSE) ELSE M!Moved(c, "text")
    BY DEF M!SendCard
  <1> DEFINE b == M!Bytes(call[c].text)
  <1>2. /\ call[c].at = "card" /\ NothingYet(c) /\ call[c].kind = "text" /\ UNCHANGED platform
        /\ call[c].failed = FALSE
    BY <1>1, FailureIs, PostIs DEF M!SendCard, SendInv, CallInv, AtFirst, NothingYet
  <1>3. \/ ~ok /\ UNCHANGED chat
        \/ \E times : M!Puts(c, "card", 0, b, times)
    BY <1>1, PostIs
  <1> HIDE DEF b
  <1>4. Sends(c)
    BY <1>1, PostIs
  <1>5. TextOf(c)' = {} /\ M!Gapless(TextOf(c))' /\ Reaches(c, 0)'
    <2>1. TextOf(c)' = TextOf(c)
      BY <1>3, NothingShown, OtherPost
    <2> QED
      BY <1>2, <2>1 DEF NothingYet, M!Gapless, Reaches
  <1>6. CASE ok = FALSE
    <2>1. Moves(c, "text", 0, FALSE)
      BY <1>1, <1>2, <1>6, Moved DEF NothingYet
    <2>2. CallInv(c)'
      BY <1>2, <1>5, <2>1 DEF CallInv, Moves, AtFirst, AtPicture, AtText, AtDone, OnFeishu
    <2> QED
      BY <1>2, <1>4, <2>1, <2>2, CallMoves
  <1>7. CASE ok = TRUE
    <2>1. Moves(c, "done", 0, FALSE)
      BY <1>1, <1>2, <1>7, Done DEF NothingYet
    <2>2. M!Of(c, "card")' # {}
      <3>1. M!Of(c, "card")' = M!Of(c, "card") \cup {Len(chat) + 1}
        BY <1>3, <1>7, OfOneMore DEF SendInv, SendType
      <3> QED
        BY <3>1
    <2>3. CallInv(c)'
      BY <1>2, <1>5, <2>1, <2>2 DEF CallInv, Moves, AtFirst, AtPicture, AtText, AtDone,
         OnFeishu, M!SentAll
    <2> QED
      BY <1>2, <1>4, <2>1, <2>3, CallMoves
  <1> QED
    BY <1>6, <1>7

LEMMA SendsMedia == ASSUME SendInv, NEW c \in SendCallers, M!SendMedia(c) PROVE SendInv'
  <1>1. PICK ok \in BOOLEAN :
          /\ M!Posts(c, "picture", 0, 0, ok)
          /\ call' = IF ok /\ platform = "feishu" /\ call[c].text # <<>>
                     THEN M!Moved(c, "text") ELSE M!Done(c, ~ok)
    BY DEF M!SendMedia
  <1>2. /\ call[c].at = "media" /\ UNCHANGED platform /\ CallInv(c)
        /\ call[c].kind = "picture" /\ PicturesOf(c) = {} /\ call[c].failed = FALSE
        /\ IF platform = "wechat" /\ call[c].text # <<>>
           THEN M!Whole(TextOf(c), BytesOf(c))
           ELSE NothingYet(c)
    BY <1>1, FailureIs, PostIs DEF M!SendMedia, SendInv, CallInv, AtPicture
  <1>3. \/ ~ok /\ UNCHANGED chat
        \/ \E times : M!Puts(c, "picture", 0, 0, times)
    BY <1>1, PostIs
  <1>4. Sends(c)
    BY <1>1, PostIs
  <1>5. /\ TextOf(c)' = TextOf(c) /\ M!Gapless(TextOf(c))' = M!Gapless(TextOf(c))
        /\ \A o : Reaches(c, o)' = Reaches(c, o)
        /\ \A b : M!Whole(TextOf(c), b)' = M!Whole(TextOf(c), b)
    BY <1>3, NothingShown, OtherPost
  <1>6. CASE ok = FALSE
    <2>1. Moves(c, "done", call[c].offset, TRUE)
      BY <1>1, <1>6, Done
    <2>2. platform = "feishu" => M!Gapless(TextOf(c))'
      BY <1>2, <1>5 DEF CallInv, OnFeishu
    <2> QED
      BY <1>2, <1>4, <2>1, <2>2, CallFails
  <1>7. CASE ok = TRUE
    <2>1. OnePicture(c)'
      <3>1. PICK times : M!Puts(c, "picture", 0, 0, times)
        BY <1>3, <1>7
      <3>2. ASequence(chat)
        BY DEF SendInv, SendType
      <3>3. PicturesOf(c)' = {Len(chat) + 1}
        BY <1>2, <3>1, <3>2, OfOneMore DEF PicturesOf
      <3>4. Len(chat) + 1 \in DOMAIN chat'
        BY <3>1, <3>2, OneMore
      <3> QED
        BY <3>3, <3>4 DEF OnePicture
    <2>2. CASE platform = "feishu" /\ call[c].text # <<>>
      <3>1. Moves(c, "text", 0, FALSE)
        BY <1>1, <1>2, <1>7, <2>2, Moved DEF NothingYet
      <3>2. M!Gapless(TextOf(c))' /\ Reaches(c, 0)'
        BY <1>2, <1>5, <2>2 DEF NothingYet, M!Gapless, Reaches
      <3>3. CallInv(c)'
        BY <1>2, <2>1, <2>2, <3>1, <3>2 DEF CallInv, Moves, AtFirst, AtPicture, AtText, AtDone,
           OnFeishu
      <3> QED
        BY <1>2, <1>4, <3>1, <3>3, CallMoves
    <2>3. CASE ~(platform = "feishu" /\ call[c].text # <<>>)
      <3>1. Moves(c, "done", call[c].offset, FALSE)
        BY <1>1, <1>7, <2>3, Done
      <3>2. call'[c].text = call[c].text /\ call'[c].kind = "picture" /\ call'[c].at = "done"
        BY <1>2, <3>1 DEF Moves
      <3>3. platform = "wechat" /\ call[c].text # <<>> =>
               M!Whole(TextOf(c), M!Bytes(call[c].text))'
        BY <1>2, <1>5, <3>2 DEF BytesOf
      <3>4. M!SentAll(c)'
        BY <1>2, <2>1, <2>3, <3>2, <3>3 DEF M!SentAll, OnePicture, PicturesOf, TextOf
      <3>5. platform = "feishu" => M!Gapless(TextOf(c))'
        BY <1>2, <1>5 DEF CallInv, OnFeishu
      <3>6. CallInv(c)'
        BY <1>2, <3>2, <3>4, <3>5 DEF CallInv, AtFirst, AtPicture, AtText, AtDone, OnFeishu
      <3> QED
        BY <1>2, <1>4, <3>1, <3>6, CallMoves
    <2> QED
      BY <2>2, <2>3
  <1> QED
    BY <1>6, <1>7

LEMMA SendsPiece == ASSUME SendInv, NEW c \in SendCallers, M!SendPiece(c) PROVE SendInv'
  <1> DEFINE from == call[c].offset
             to == M!Least(from + ChunkLen, M!Bytes(call[c].text))
  <1>1. PICK ok \in BOOLEAN : M!Posts(c, "text", from, to, ok) /\ call' = M!AfterPiece(c, to, ok)
    BY DEF M!SendPiece
  <1>2. call[c].at = "text" /\ UNCHANGED platform /\ CallInv(c) /\ SendType
    BY <1>1, PostIs DEF M!SendPiece, SendInv
  <1>3. PICK end : end = to
    OBVIOUS
  <1>4. /\ \/ ~ok /\ UNCHANGED chat
           \/ \E times : M!Puts(c, "text", from, end, times)
        /\ call' = M!AfterPiece(c, end, ok) /\ Sends(c)
    BY <1>1, <1>3, PostIs
  <1> HIDE DEF to
  <1>5. Sends(c)
    BY <1>4
  <1>6. call[c].failed \in BOOLEAN /\ BytesOf(c) = M!Bytes(call[c].text)
    BY FailureIs DEF BytesOf
  <1>7. PicturesOf(c)' = PicturesOf(c) /\ (OnePicture(c) => OnePicture(c)')
    <2>1. CASE UNCHANGED chat
      BY <2>1, NothingShown
    <2>2. CASE \E times : M!Puts(c, "text", from, end, times)
      <3>1. ASequence(chat) /\ "picture" # "text"
        BY <1>2 DEF SendType
      <3>2. DOMAIN chat \subseteq DOMAIN chat'
        BY <2>2, <3>1, OneMore
      <3>3. PicturesOf(c)' = PicturesOf(c)
        BY <2>2, <3>1, OfOneMore DEF PicturesOf
      <3> QED
        BY <3>2, <3>3 DEF OnePicture
    <2> QED
      BY <1>4, <2>1, <2>2
  <1>8. ASSUME call[c].failed = FALSE, chat' # chat
        PROVE  M!Gapless(TextOf(c))' /\ Reaches(c, end)' /\ M!Whole(TextOf(c), end)'
    <2>1. M!Gapless(TextOf(c)) /\ Reaches(c, from) /\ ASequence(chat)
      BY <1>2, <1>8 DEF CallInv, AtText, SendType
    <2>2. \E times : M!Puts(c, "text", from, end, times)
      BY <1>4, <1>8
    <2> QED
      BY <2>1, <2>2, PieceFits
  <1>9. platform = "feishu" => M!Gapless(TextOf(c))'
    <2>1. CASE chat' = chat
      BY <1>2, <2>1, NothingShown DEF CallInv, OnFeishu
    <2>2. platform = "feishu" => call[c].failed = FALSE
      BY <1>2, <1>6 DEF CallInv, OnFeishu
    <2> QED
      BY <1>8, <2>1, <2>2
  \* The piece failed, or one before it.
  <1>10. CASE ok = FALSE \/ call[c].failed = TRUE
    <2>1. M!Failed(c, ok) = TRUE
      BY <1>10, FailureIs
    <2>2. CASE call' = M!Done(c, TRUE)
      BY <1>2, <1>5, <1>9, <2>2, Done, CallFails
    <2>3. CASE /\ call' = [call EXCEPT ![c].offset = end, ![c].failed = TRUE]
               /\ ~(ok = FALSE /\ platform = "feishu")
      <3>1. Moves(c, "text", end, TRUE)
        BY <1>2, <2>3, GoesOn
      <3>2. platform # "feishu"
        BY <1>2, <1>10, <2>3 DEF CallInv, OnFeishu
      <3>3. CallInv(c)'
        BY <1>2, <1>7, <3>1, <3>2 DEF CallInv, Moves, AtFirst, AtPicture, AtText, AtDone, OnFeishu
      <3> QED
        BY <1>2, <1>5, <3>1, <3>3, CallMoves
    <2> QED
      BY <1>4, <2>1, <2>2, <2>3 DEF M!AfterPiece, M!AfterText
  \* No piece has failed so far.
  <1>11. CASE ok = TRUE /\ call[c].failed = FALSE
    <2>1. M!Failed(c, ok) = FALSE
      BY <1>11, FailureIs
    <2>2. M!Gapless(TextOf(c))' /\ Reaches(c, end)' /\ M!Whole(TextOf(c), end)'
      <3>1. /\ M!Gapless(TextOf(c)) /\ Reaches(c, from) /\ ASequence(chat)
            /\ \E times : M!Puts(c, "text", from, end, times)
        BY <1>2, <1>4, <1>11 DEF CallInv, AtText, SendType
      <3> QED
        BY <3>1, PieceFits
    <2>3. CASE end # BytesOf(c)
      <3>1. call' = [call EXCEPT ![c].offset = end, ![c].failed = FALSE]
        BY <1>4, <1>6, <1>11, <2>1, <2>3 DEF M!AfterPiece
      <3>2. Moves(c, "text", end, FALSE)
        BY <1>2, <3>1, GoesOn
      <3>3. CallInv(c)'
        BY <1>2, <1>7, <2>2, <3>2 DEF CallInv, Moves, AtFirst, AtPicture, AtText, AtDone, OnFeishu
      <3> QED
        BY <1>2, <1>5, <3>2, <3>3, CallMoves
    <2>4. CASE end = BytesOf(c) /\ call[c].kind = "picture" /\ platform = "wechat"
      <3>1. call' = [call EXCEPT ![c].at = "upload", ![c].offset = M!Bytes(call[c].text)]
        BY <1>4, <1>6, <1>11, <2>1, <2>4 DEF M!AfterPiece, M!AfterText
      <3>2. Moves(c, "upload", M!Bytes(call[c].text), FALSE)
        BY <1>11, <3>1, ToPicture
      <3>3. BytesOf(c)' = BytesOf(c)
        BY <3>2 DEF Moves, BytesOf
      <3>4. PicturesOf(c) = {} /\ call[c].text # <<>>
        BY <1>2, <2>4 DEF CallInv, AtText
      <3>5. CallInv(c)'
        BY <1>2, <1>7, <2>2, <2>4, <3>2, <3>3, <3>4 DEF CallInv, Moves, AtFirst, AtPicture, AtText,
           AtDone, OnFeishu
      <3> QED
        BY <1>2, <1>5, <3>2, <3>5, CallMoves
    <2>5. CASE end = BytesOf(c) /\ ~(call[c].kind = "picture" /\ platform = "wechat")
      <3>1. call' = M!Done(c, FALSE)
        BY <1>4, <1>6, <1>11, <2>1, <2>5 DEF M!AfterPiece, M!AfterText
      <3>2. Moves(c, "done", call[c].offset, FALSE)
        BY <3>1, Done
      <3>3. call'[c].text = call[c].text /\ call'[c].kind = call[c].kind /\ call'[c].at = "done"
        BY <3>2 DEF Moves
      <3>4. M!Whole(TextOf(c), M!Bytes(call[c].text))'
        BY <1>6, <2>2, <2>5, <3>3
      <3>5. call[c].kind = "picture" => OnePicture(c)'
        BY <1>2, <1>7, <2>5 DEF CallInv, AtText
      <3>6. M!SentAll(c)'
        BY <3>3, <3>4, <3>5 DEF M!SentAll, OnePicture, PicturesOf, TextOf
      <3>7. CallInv(c)'
        BY <1>2, <1>9, <3>3, <3>6 DEF CallInv, AtFirst, AtPicture, AtText, AtDone, OnFeishu
      <3> QED
        BY <1>2, <1>5, <3>2, <3>7, CallMoves
    <2> QED
      BY <2>3, <2>4, <2>5
  <1> QED
    BY <1>6, <1>10, <1>11

\* What is answered to be sent was sent whole and in order, whatever failed on the way,
\* was sent again or was refused, and whoever else sends to the chat; on Feishu all of it
\* is seen, and nothing follows a piece that is missing.
THEOREM SendsHold == M!Spec => [](M!SentIsThere /\ M!NoGaps)
  <1>1. M!Init => SendInv
    BY SendInit
  <1>2. SendInv /\ [M!Next]_(M!svars) => SendInv'
    <2> SUFFICES ASSUME SendInv, [M!Next]_(M!svars) PROVE SendInv'
      OBVIOUS
    <2>1. CASE UNCHANGED M!svars
      <3>1. SendType'
        BY <2>1 DEF M!svars, SendInv, SendType, ASequence
      <3>2. ASSUME NEW c \in SendCallers PROVE CallInv(c)'
        <4>1. CallInv(c)
          BY DEF SendInv
        <4>2. UNCHANGED <<platform, call, chat>>
          BY <2>1 DEF M!svars
        <4> QED
          BY <4>1, <4>2, NothingShown DEF CallInv, AtFirst, AtPicture, AtText, AtDone, OnFeishu,
             NothingYet, BytesOf, M!SentAll, TextOf, PicturesOf, OnePicture
      <3> QED
        BY <2>1, <3>1, <3>2 DEF SendInv, AllSeen, M!svars
    <2>2. CASE M!Next
      BY <2>2, SendBegin, SendUpload, SendGivesUp, SendsCard, SendsMedia, SendsPiece
         DEF M!Next, M!Step
    <2> QED
      BY <2>1, <2>2
  <1>3. SendInv => M!SentIsThere /\ M!NoGaps
    BY DEF SendInv, CallInv, AtDone, OnFeishu, AllSeen, TextOf, M!SentIsThere, M!NoGaps,
       M!Seen
  <1> QED
    BY <1>1, <1>2, <1>3, PTL DEF M!Spec

LEMMA SendsRun == TasksSafe => M!Spec
  <1>1. TasksInit => M!Init
    BY DEF TasksInit
  <1>2. [TasksNext]_tasksVars => [M!Next]_(M!svars)
    BY DEF TasksNext, Is, tasksVars, sendVars, M!svars
  <1> QED
    BY <1>1, <1>2, PTL DEF TasksSafe, M!Spec

-----------------------------------------------------------------------------
(* Buttons: one entry for each button, one number in the registry for each    *)
(* function, and presses in the queue that are later than the one that ran.   *)

Registration == [handle : Handles, refs : [Events -> Nat], on : SUBSET Events]
Pressed      == [handle : Handles, event : Events, no : Nat, age : Nat]
Entries      == {regs[i] : i \in DOMAIN regs}
Registry     == lua[ButtonScript]

ButtonType ==
    /\ regs \in Seq(Registration) /\ inputs \in Seq(Pressed)
    /\ driver = [h \in B!Live |-> driver[h]] /\ B!Live \subseteq Handles
    /\ lua \in [{ButtonScript} -> {Registry}] /\ Registry = [n \in DOMAIN Registry |-> Registry[n]]
    /\ DOMAIN Registry \subseteq Nat \ {0} /\ IsFiniteSet(DOMAIN Registry)
    /\ open = [s \in {ButtonScript} |-> B!Live]
    /\ age \in [Handles -> Nat] /\ due \in [Handles -> [Events -> Nat]]
    /\ uses \in Nat /\ presses \in Nat

\* A button has one entry.
OneEntry == \A i, j \in DOMAIN regs : regs[i].handle = regs[j].handle => i = j

\* The driver calls back for what the entry of a button says, ...
DriverAgrees ==
    /\ \A r \in Entries : r.handle \in B!Live /\ driver[r.handle] = r.on
    /\ \A h \in B!Live : (\A r \in Entries : r.handle # h) => driver[h] = {}

\* ... and the registry of the script has the functions of the entries, each under a
\* number of its own, and no others.
RegistryAgrees ==
    /\ \A r \in Entries, e \in Events : r.refs[e] # 0 =>
          r.refs[e] \in DOMAIN Registry /\ Registry[r.refs[e]] = due[r.handle][e]
    /\ \A n \in DOMAIN Registry : \E r \in Entries, e \in Events : r.refs[e] = n
    /\ \A r, q \in Entries : \A e, f \in Events :
          r.refs[e] = q.refs[f] /\ r.refs[e] # 0 => r = q /\ e = f

\* What waits in the queue was pressed later than what ran, in order.
InOrder ==
    /\ ran.no \in Nat /\ ran.no <= presses /\ B!RightFunction
    /\ \A i \in DOMAIN inputs : ran.no < inputs[i].no /\ inputs[i].no <= presses
    /\ \A i, j \in DOMAIN inputs : i < j => inputs[i].no < inputs[j].no

ButtonInv == ButtonType /\ OneEntry /\ DriverAgrees /\ RegistryAgrees /\ InOrder

LEMMA ButtonInit == ASSUME B!Init PROVE ButtonInv
  <1> USE DEF B!Init, B!NoRefs, B!NoRef, B!Live, Entries, Registry
  <1>1. ButtonType
    <2>1. IsFiniteSet({})
      BY FS_EmptySet
    <2> QED
      BY <2>1 DEF ButtonType, Registration, Pressed
  <1>2. OneEntry /\ DriverAgrees /\ RegistryAgrees
    BY DEF OneEntry, DriverAgrees, RegistryAgrees
  <1>3. InOrder
    BY DEF InOrder, B!RightFunction
  <1> QED
    BY <1>1, <1>2, <1>3 DEF ButtonInv

-----------------------------------------------------------------------------
(* The table of registrations, as a set of entries.                          *)

LEMMA EntriesAreTyped == ASSUME ButtonType PROVE Entries \subseteq Registration
  BY ElementOfSeq DEF ButtonType, Entries

\* Entries of one button are the same.
LEMMA EntryOfHandle ==
    ASSUME OneEntry, NEW r \in Entries, NEW q \in Entries, r.handle = q.handle PROVE r = q
  BY DEF OneEntry, Entries

\* btn_remove_reg
LEMMA EntryRemoved ==
    ASSUME ButtonType, OneEntry, NEW i \in DOMAIN regs, regs' = B!Removed(i)
    PROVE  /\ regs' \in Seq(Registration) /\ OneEntry' /\ Entries' = Entries \ {regs[i]}
  <1> DEFINE n == Len(regs)
  <1>1. /\ n \in Nat /\ DOMAIN regs = 1..n /\ i \in 1..n
        /\ \A k \in 1..n : regs[k] \in Registration
    BY ElementOfSeq DEF ButtonType
  <1>2. DOMAIN regs' = 1..(n - 1) /\ regs' = [j \in 1..(n - 1) |-> IF j = i THEN regs[n] ELSE regs[j]]
    BY <1>1 DEF B!Removed
  <1> HIDE DEF n
  <1>3. \A j \in 1..(n - 1) : /\ j = i => regs'[j] = regs[n] /\ n # i
                              /\ j # i => regs'[j] = regs[j]
                              /\ j \in 1..n /\ n \in 1..n /\ j # n
    BY <1>1, <1>2
  <1>4. regs' \in Seq(Registration)
    <2>1. regs' = [j \in 1..(n - 1) |-> regs'[j]] /\ n - 1 \in Nat
      BY <1>1, <1>2
    <2>2. \A j \in 1..(n - 1) : regs'[j] \in Registration
      BY <1>1, <1>3
    <2> QED
      BY <2>1, <2>2
  <1>5. OneEntry'
    BY <1>1, <1>2, <1>3 DEF OneEntry
  <1>6. Entries' \subseteq Entries \ {regs[i]}
    BY <1>1, <1>2, <1>3 DEF Entries, OneEntry
  <1>7. ASSUME NEW k \in 1..n, k # i PROVE regs[k] \in Entries'
    <2>1. CASE k = n
      <3>1. i \in 1..(n - 1)
        BY <1>1, <1>7, <2>1
      <3> QED
        BY <1>2, <1>3, <2>1, <3>1 DEF Entries
    <2>2. CASE k # n
      <3>1. k \in 1..(n - 1)
        BY <1>1, <1>7, <2>2
      <3> QED
        BY <1>2, <1>3, <1>7, <3>1 DEF Entries
    <2> QED
      BY <2>1, <2>2
  <1>8. Entries \ {regs[i]} \subseteq Entries'
    BY <1>1, <1>7 DEF Entries
  <1> QED
    BY <1>4, <1>5, <1>6, <1>8

\* An entry is changed and stays that of its button.
LEMMA EntryChanged ==
    ASSUME ButtonType, OneEntry, NEW i \in DOMAIN regs, NEW r \in Registration,
           r.handle = regs[i].handle, regs' = [regs EXCEPT ![i] = r]
    PROVE  /\ regs' \in Seq(Registration) /\ OneEntry'
           /\ Entries' = (Entries \ {regs[i]}) \union {r}
  <1>1. regs' \in Seq(Registration) /\ DOMAIN regs' = DOMAIN regs
    BY ExceptSeq DEF ButtonType
  <1>2. \A j \in DOMAIN regs : regs'[j] = IF j = i THEN r ELSE regs[j]
    BY DEF ButtonType
  <1>3. OneEntry'
    BY <1>1, <1>2 DEF OneEntry
  <1>4. Entries' = (Entries \ {regs[i]}) \union {r}
    BY <1>1, <1>2 DEF Entries, OneEntry
  <1> QED
    BY <1>1, <1>3, <1>4

\* A new entry, for an address that has none.
LEMMA EntryAdded ==
    ASSUME ButtonType, OneEntry, NEW r \in Registration, \A q \in Entries : q.handle # r.handle,
           regs' = Append(regs, r)
    PROVE  /\ regs' \in Seq(Registration) /\ OneEntry' /\ Entries' = Entries \union {r}
  <1>1. /\ regs' \in Seq(Registration) /\ Len(regs') = Len(regs) + 1 /\ Len(regs) \in Nat
        /\ DOMAIN regs = 1..Len(regs) /\ DOMAIN regs' = 1..(Len(regs) + 1)
        /\ \A j \in DOMAIN regs : regs'[j] = regs[j]
        /\ regs'[Len(regs) + 1] = r
    BY AppendProperties DEF ButtonType
  <1>2. DOMAIN regs' = DOMAIN regs \union {Len(regs) + 1}
    BY <1>1
  <1>3. OneEntry'
    BY <1>1, <1>2 DEF OneEntry, Entries
  <1>4. Entries' = Entries \union {r}
    BY <1>1, <1>2 DEF Entries
  <1> QED
    BY <1>1, <1>3, <1>4
-----------------------------------------------------------------------------
(* The script's registry beside the entries.                                 *)

LEMMA RegistryIsTyped ==
    ASSUME ButtonType
    PROVE  /\ DOMAIN Registry \subseteq Nat \ {0}
           /\ \A s \in {ButtonScript} : s = ButtonScript /\ lua[s] = Registry /\ open[s] = B!Live
  BY DEF ButtonType, Registry

\* The module of the buttons counts as this one does.
LEMMA ButtonCardinality == \A S : B!Cardinality(S) = Cardinality(S)
  BY DEF B!Cardinality, Cardinality

\* A number that luaL_ref gives is free.
LEMMA NextRefIsFree ==
    ASSUME ButtonType
    PROVE  B!NextRef(ButtonScript) \in Nat \ {0} /\ B!NextRef(ButtonScript) \notin DOMAIN Registry
  <1> DEFINE k == Cardinality(DOMAIN Registry)
  <1>1. IsFiniteSet(DOMAIN Registry) /\ k \in Nat
    BY FS_CardinalityType DEF ButtonType
  <1>2. \E n \in 1..(k + 1) : n \notin DOMAIN Registry
    <2> SUFFICES ASSUME 1..(k + 1) \subseteq DOMAIN Registry PROVE FALSE
      OBVIOUS
    <2>1. Cardinality(1..(k + 1)) = k + 1
      BY <1>1, FS_Interval
    <2>2. Cardinality(1..(k + 1)) <= k
      BY <1>1, FS_Subset
    <2> QED
      BY <1>1, <2>1, <2>2
  <1>3. 1..(k + 1) \subseteq Nat \ {0}
    BY <1>1
  <1>4. B!NextRef(ButtonScript) = CHOOSE n \in 1..(k + 1) : n \notin DOMAIN Registry
    BY ButtonCardinality DEF B!NextRef, Registry
  <1> HIDE DEF k
  <1>5. B!NextRef(ButtonScript) \in 1..(k + 1) /\ B!NextRef(ButtonScript) \notin DOMAIN Registry
    BY <1>2, <1>4, Zenon
  <1> QED
    BY <1>3, <1>5

\* A function is put under a free number, or one that the entry has.
LEMMA RegistrySet ==
    ASSUME ButtonType, RegistryAgrees, NEW r \in Entries, NEW q, NEW e \in Events,
           NEW ref \in Nat \ {0},
           ref \notin DOMAIN Registry \ {r.refs[e]}, OneEntry,
           q.handle = r.handle, q.refs = [r.refs EXCEPT ![e] = ref],
           Entries' = (Entries \ {r}) \union {q},
           DOMAIN Registry' = (DOMAIN Registry \ {r.refs[e]}) \union {ref},
           \A n \in DOMAIN Registry' : Registry'[n] = IF n = ref THEN uses' ELSE Registry[n],
           due' = [due EXCEPT ![r.handle][e] = uses']
    PROVE  RegistryAgrees'
  <1>1. r \in Registration /\ Entries \subseteq Registration
    BY EntriesAreTyped
  <1>2. \A f \in Events : q.refs[f] = IF f = e THEN ref ELSE r.refs[f]
    BY <1>1 DEF Registration
  <1>3. \A x \in Entries \ {r} : x.handle # r.handle /\ due'[x.handle] = due[x.handle]
    BY <1>1, EntryOfHandle DEF ButtonType, Registration
  <1>4. \A f \in Events : due'[r.handle][f] = IF f = e THEN uses' ELSE due[r.handle][f]
    BY <1>1 DEF ButtonType, Registration
  <1>5. \A x \in Entries, f \in Events : x.refs[f] # 0 /\ (x # r \/ f # e) =>
           /\ x.refs[f] \in DOMAIN Registry /\ x.refs[f] # r.refs[e] /\ x.refs[f] # ref
           /\ Registry[x.refs[f]] = due[x.handle][f]
    BY DEF RegistryAgrees
  <1>6. \A x \in Entries', f \in Events : x.refs[f] # 0 =>
           x.refs[f] \in DOMAIN Registry' /\ Registry'[x.refs[f]] = due'[x.handle][f]
    <2> SUFFICES ASSUME NEW x \in Entries', NEW f \in Events, x.refs[f] # 0
                 PROVE  x.refs[f] \in DOMAIN Registry' /\ Registry'[x.refs[f]] = due'[x.handle][f]
      OBVIOUS
    <2>1. CASE x \in Entries \ {r}
      BY <1>3, <1>5, <2>1
    <2>2. CASE x = q /\ f = e
      BY <1>2, <1>4, <2>2
    <2>3. CASE x = q /\ f # e
      <3>1. x.refs[f] = r.refs[f] /\ due'[x.handle][f] = due[r.handle][f]
        BY <1>2, <1>4, <2>3
      <3> QED
        BY <1>5, <2>3, <3>1
    <2> QED
      BY <2>1, <2>2, <2>3
  <1>7. \A n \in DOMAIN Registry' : \E x \in Entries', f \in Events : x.refs[f] = n
    <2> SUFFICES ASSUME NEW n \in DOMAIN Registry'
                 PROVE  \E x \in Entries', f \in Events : x.refs[f] = n
      OBVIOUS
    <2>1. CASE n = ref
      BY <1>2, <2>1
    <2>2. CASE n # ref
      <3>1. PICK x \in Entries, f \in Events : x.refs[f] = n
        BY <2>2 DEF RegistryAgrees
      <3>2. x # r \/ f # e
        BY <2>2, <3>1
      <3>3. CASE x # r
        BY <3>1, <3>3
      <3>4. CASE x = r /\ f # e
        BY <1>2, <3>1, <3>4
      <3> QED
        BY <3>2, <3>3, <3>4
    <2> QED
      BY <2>1, <2>2
  <1>8. \A x, y \in Entries' : \A f, g \in Events :
           x.refs[f] = y.refs[g] /\ x.refs[f] # 0 => x = y /\ f = g
    <2> SUFFICES ASSUME NEW x \in Entries', NEW y \in Entries', NEW f \in Events, NEW g \in Events,
                        x.refs[f] = y.refs[g], x.refs[f] # 0
                 PROVE  x = y /\ f = g
      OBVIOUS
    <2>1. CASE x \in Entries \ {r} /\ y \in Entries \ {r}
      BY <2>1 DEF RegistryAgrees
    <2>2. ASSUME NEW z \in Entries \ {r}, NEW m \in Events, NEW d \in Events, z.refs[m] # 0
          PROVE  z.refs[m] # q.refs[d]
      <3>1. CASE d = e
        BY <1>2, <1>5, <2>2, <3>1
      <3>2. CASE d # e
        <4>1. q.refs[d] = r.refs[d]
          BY <1>2, <3>2
        <4> QED
          BY <2>2, <4>1 DEF RegistryAgrees
      <3> QED
        BY <3>1, <3>2
    <2>3. CASE x = q /\ y = q
      <3>1. \A d \in Events \ {e} : q.refs[d] = r.refs[d]
        BY <1>2
      <3>2. CASE f # e /\ g # e
        <4>1. r.refs[f] = r.refs[g] /\ r.refs[f] # 0
          BY <2>3, <3>1, <3>2
        <4>2. f = g
          BY <4>1 DEF RegistryAgrees
        <4> QED
          BY <2>3, <4>2
      <3>3. \A d \in Events \ {e} : r.refs[d] # 0 => q.refs[d] # q.refs[e]
        BY <1>2, <1>5, <3>1
      <3> QED
        BY <2>3, <3>1, <3>2, <3>3
    <2>4. CASE x = q /\ y \in Entries \ {r}
      BY <2>2, <2>4
    <2>5. CASE x \in Entries \ {r} /\ y = q
      BY <2>2, <2>5, ZenonT(60)
    <2> QED
      BY <2>1, <2>3, <2>4, <2>5
  <1> QED
    BY <1>6, <1>7, <1>8 DEF RegistryAgrees

\* A function is let go.
LEMMA RegistryUnset ==
    ASSUME ButtonType, RegistryAgrees, NEW r \in Entries, NEW q, NEW e \in Events, OneEntry,
           q.handle = r.handle, q.refs = [r.refs EXCEPT ![e] = 0],
           Entries' = (Entries \ {r}) \union {q},
           DOMAIN Registry' = DOMAIN Registry \ {r.refs[e]},
           \A n \in DOMAIN Registry' : Registry'[n] = Registry[n],
           due' = [due EXCEPT ![r.handle][e] = 0]
    PROVE  RegistryAgrees'
  <1>1. r \in Registration /\ Entries \subseteq Registration
    BY EntriesAreTyped
  <1>2. \A f \in Events : q.refs[f] = IF f = e THEN 0 ELSE r.refs[f]
    BY <1>1 DEF Registration
  <1>3. \A x \in Entries \ {r} : x.handle # r.handle /\ due'[x.handle] = due[x.handle]
    BY <1>1, EntryOfHandle DEF ButtonType, Registration
  <1>4. \A f \in Events : due'[r.handle][f] = IF f = e THEN 0 ELSE due[r.handle][f]
    BY <1>1 DEF ButtonType, Registration
  <1>5. \A x \in Entries, f \in Events : x.refs[f] # 0 /\ (x # r \/ f # e) =>
           /\ x.refs[f] \in DOMAIN Registry /\ x.refs[f] # r.refs[e]
           /\ Registry[x.refs[f]] = due[x.handle][f]
    BY DEF RegistryAgrees
  <1>6. \A x \in Entries', f \in Events : x.refs[f] # 0 =>
           x.refs[f] \in DOMAIN Registry' /\ Registry'[x.refs[f]] = due'[x.handle][f]
    <2> SUFFICES ASSUME NEW x \in Entries', NEW f \in Events, x.refs[f] # 0
                 PROVE  x.refs[f] \in DOMAIN Registry' /\ Registry'[x.refs[f]] = due'[x.handle][f]
      OBVIOUS
    <2>1. CASE x \in Entries \ {r}
      BY <1>3, <1>5, <2>1
    <2>2. CASE x = q /\ f = e
      BY <1>2, <1>4, <2>2
    <2>3. CASE x = q /\ f # e
      <3>1. x.refs[f] = r.refs[f] /\ due'[x.handle][f] = due[r.handle][f]
        BY <1>2, <1>4, <2>3
      <3> QED
        BY <1>5, <2>3, <3>1
    <2> QED
      BY <2>1, <2>2, <2>3
  <1>7. \A n \in DOMAIN Registry' : \E x \in Entries', f \in Events : x.refs[f] = n
    <2> SUFFICES ASSUME NEW n \in DOMAIN Registry'
                 PROVE  \E x \in Entries', f \in Events : x.refs[f] = n
      OBVIOUS
    <2>1. PICK x \in Entries, f \in Events : x.refs[f] = n
      BY DEF RegistryAgrees
    <2>2. x # r \/ f # e
      BY <2>1
    <2> QED
      BY <1>2, <2>1, <2>2
  <1>8. \A x, y \in Entries' : \A f, g \in Events :
           x.refs[f] = y.refs[g] /\ x.refs[f] # 0 => x = y /\ f = g
    <2> SUFFICES ASSUME NEW x \in Entries', NEW y \in Entries', NEW f \in Events, NEW g \in Events,
                        x.refs[f] = y.refs[g], x.refs[f] # 0
                 PROVE  x = y /\ f = g
      OBVIOUS
    <2>1. CASE x \in Entries \ {r} /\ y \in Entries \ {r}
      BY <2>1 DEF RegistryAgrees
    <2>2. ASSUME NEW z \in Entries \ {r}, NEW m \in Events, NEW d \in Events, z.refs[m] # 0
          PROVE  z.refs[m] # q.refs[d]
      <3>1. CASE d = e
        BY <1>2, <1>5, <2>2, <3>1
      <3>2. CASE d # e
        <4>1. q.refs[d] = r.refs[d]
          BY <1>2, <3>2
        <4> QED
          BY <2>2, <4>1 DEF RegistryAgrees
      <3> QED
        BY <3>1, <3>2
    <2>3. CASE x = q /\ y = q
      <3>1. \A d \in Events \ {e} : q.refs[d] = r.refs[d]
        BY <1>2
      <3>2. CASE f # e /\ g # e
        <4>1. r.refs[f] = r.refs[g] /\ r.refs[f] # 0
          BY <2>3, <3>1, <3>2
        <4>2. f = g
          BY <4>1 DEF RegistryAgrees
        <4> QED
          BY <2>3, <4>2
      <3>3. \A d \in Events \ {e} : r.refs[d] # 0 => q.refs[d] # q.refs[e]
        BY <1>2, <1>5, <3>1
      <3> QED
        BY <2>3, <3>1, <3>2, <3>3
    <2>4. CASE x = q /\ y \in Entries \ {r}
      BY <2>2, <2>4
    <2>5. CASE x \in Entries \ {r} /\ y = q
      BY <2>2, <2>5
    <2> QED
      BY <2>1, <2>3, <2>4, <2>5
  <1> QED
    BY <1>6, <1>7, <1>8 DEF RegistryAgrees

\* An entry goes with all its functions.
LEMMA RegistryDropped ==
    ASSUME ButtonType, RegistryAgrees, NEW r \in Entries, OneEntry,
           Entries' = Entries \ {r},
           DOMAIN Registry' = DOMAIN Registry \ {r.refs[e] : e \in Events},
           \A n \in DOMAIN Registry' : Registry'[n] = Registry[n],
           due' = [due EXCEPT ![r.handle] = B!NoRefs]
    PROVE  RegistryAgrees'
  <1>1. r \in Registration /\ Entries \subseteq Registration
    BY EntriesAreTyped
  <1>2. \A x \in Entries' : x # r /\ x \in Entries /\ due'[x.handle] = due[x.handle]
    BY <1>1, EntryOfHandle DEF ButtonType, Registration
  <1>3. \A x \in Entries', f \in Events : x.refs[f] # 0 =>
           x.refs[f] \in DOMAIN Registry' /\ Registry'[x.refs[f]] = due'[x.handle][f]
    BY <1>2 DEF RegistryAgrees
  <1>4. \A n \in DOMAIN Registry' : \E x \in Entries', f \in Events : x.refs[f] = n
    BY DEF RegistryAgrees
  <1>5. \A x, y \in Entries' : \A f, g \in Events :
           x.refs[f] = y.refs[g] /\ x.refs[f] # 0 => x = y /\ f = g
    BY <1>2 DEF RegistryAgrees
  <1> QED
    BY <1>3, <1>4, <1>5 DEF RegistryAgrees
-----------------------------------------------------------------------------
(* The calls of the module.                                                  *)

LEMMA FoundIs ==
    ASSUME ButtonInv, NEW h, NEW i \in B!Found(h)
    PROVE  /\ i \in DOMAIN regs /\ regs[i] \in Entries /\ regs[i] \in Registration
           /\ regs[i].handle = h /\ h \in Handles /\ h \in B!Live /\ driver[h] = regs[i].on
           /\ \A j \in B!Found(h) : j = i
           /\ \A r \in Entries \ {regs[i]} : r.handle # h
  <1>1. i \in DOMAIN regs /\ regs[i].handle = h /\ regs[i] \in Entries
    BY DEF B!Found, Entries
  <1>2. regs[i] \in Registration
    BY <1>1, EntriesAreTyped DEF ButtonInv
  <1>3. h \in Handles /\ h \in B!Live /\ driver[h] = regs[i].on
    BY <1>1, <1>2 DEF ButtonInv, DriverAgrees, Registration
  <1>4. \A j \in B!Found(h) : j = i
    BY <1>1 DEF B!Found, ButtonInv, OneEntry
  <1>5. \A r \in Entries \ {regs[i]} : r.handle # h
    BY <1>1, EntryOfHandle DEF ButtonInv
  <1> QED
    BY <1>1, <1>2, <1>3, <1>4, <1>5

\* Calls leave the queue as it is.
LEMMA QueueKept ==
    ASSUME InOrder, UNCHANGED <<ran, inputs, presses>> PROVE InOrder'
  BY DEF InOrder, B!RightFunction

LEMMA ButtonNew == ASSUME ButtonInv, B!New(ButtonScript) PROVE ButtonInv'
  <1>1. PICK h \in Handles \ B!Live :
           /\ regs' = Append(regs, [handle |-> h, refs |-> B!NoRefs, on |-> {}])
           /\ driver' = B!With(driver, h, {})
           /\ open' = [open EXCEPT ![ButtonScript] = @ \union {h}]
           /\ age' = [age EXCEPT ![h] = @ + 1] /\ due' = [due EXCEPT ![h] = B!NoRefs]
           /\ uses' = uses + 1
           /\ UNCHANGED <<inputs, made, lua, loop, presses, refusals, ran>>
    BY DEF B!New, B!May
  <1> DEFINE r == [handle |-> h, refs |-> B!NoRefs, on |-> {}]
  <1>2. r \in Registration /\ r.handle = h /\ r.on = {} /\ \A e \in Events : r.refs[e] = 0
    BY DEF Registration, B!NoRefs, B!NoRef
  <1>3. \A q \in Entries : q.handle # h
    BY DEF ButtonInv, DriverAgrees
  <1> HIDE DEF r
  <1>4. regs' \in Seq(Registration) /\ OneEntry' /\ Entries' = Entries \union {r}
    BY <1>1, <1>2, <1>3, EntryAdded DEF ButtonInv, r
  <1>5. /\ B!Live' = B!Live \union {h}
        /\ \A x \in B!Live' : driver'[x] = IF x = h THEN {} ELSE driver[x]
    BY <1>1 DEF B!Live, B!With
  <1>6. ButtonType'
    <2>1. driver' = [x \in B!Live' |-> driver'[x]]
      BY <1>1, <1>5 DEF B!Live, B!With
    <2>2. age' \in [Handles -> Nat] /\ due' \in [Handles -> [Events -> Nat]]
      BY <1>1 DEF ButtonInv, ButtonType, B!NoRefs, B!NoRef
    <2>3. open' = [s \in {ButtonScript} |-> B!Live']
      BY <1>1, <1>5 DEF ButtonInv, ButtonType
    <2>4. UNCHANGED <<Registry, lua, inputs, presses>> /\ uses' \in Nat
      BY <1>1 DEF Registry, ButtonInv, ButtonType
    <2>5. B!Live' \subseteq Handles
      BY <1>5 DEF ButtonInv, ButtonType
    <2> QED
      BY <1>4, <2>1, <2>2, <2>3, <2>4, <2>5 DEF ButtonInv, ButtonType
  <1>7. DriverAgrees'
    BY <1>2, <1>3, <1>4, <1>5 DEF ButtonInv, DriverAgrees
  <1>8. RegistryAgrees'
    <2>1. Registry' = Registry /\ \A q \in Entries : due'[q.handle] = due[q.handle]
      BY <1>1, <1>3, EntriesAreTyped DEF Registry, ButtonInv, ButtonType, Registration
    <2> QED
      BY <1>2, <1>4, <2>1 DEF ButtonInv, RegistryAgrees
  <1>9. InOrder'
    BY <1>1, QueueKept DEF ButtonInv
  <1> QED
    BY <1>4, <1>6, <1>7, <1>8, <1>9 DEF ButtonInv

\* What a script's registry becomes, and its type.
LEMMA LuaChanged ==
    ASSUME ButtonType, NEW new, lua' = [lua EXCEPT ![ButtonScript] = new]
    PROVE  Registry' = new /\ lua' \in [{ButtonScript} -> {Registry'}]
  BY DEF ButtonType, Registry

\* The driver is told what an entry says now.
LEMMA DriverChanged ==
    ASSUME ButtonInv, NEW h, NEW i \in B!Found(h), NEW q \in Registration, q.handle = h,
           Entries' = (Entries \ {regs[i]}) \union {q}, driver' = [driver EXCEPT ![h] = q.on]
    PROVE  /\ B!Live' = B!Live /\ DriverAgrees' /\ driver' = [x \in B!Live' |-> driver'[x]]
  <1>1. h \in B!Live /\ \A x \in Entries \ {regs[i]} : x.handle # h
    BY FoundIs
  <1>2. B!Live' = B!Live /\ \A x \in B!Live : driver'[x] = IF x = h THEN q.on ELSE driver[x]
    BY <1>1 DEF B!Live, ButtonInv, ButtonType
  <1>3. driver' = [x \in B!Live' |-> driver'[x]]
    BY <1>2 DEF B!Live
  <1>4. DriverAgrees'
    BY <1>1, <1>2, FoundIs DEF ButtonInv, DriverAgrees
  <1> QED
    BY <1>2, <1>3, <1>4

LEMMA ButtonOn == ASSUME ButtonInv, B!On(ButtonScript) PROVE ButtonInv'
  <1> DEFINE How(h, e, i) ==
          LET old   == IF regs[i].refs[e] = B!NoRef THEN {} ELSE {regs[i].refs[e]}
              cleared == [lua EXCEPT ![ButtonScript] = B!Without(@, old)]
              ref   == IF old # {} THEN regs[i].refs[e] ELSE B!NextRef(ButtonScript)
          IN  /\ B!May(ButtonScript) /\ made' = TRUE
              /\ \/ /\ lua' = [cleared EXCEPT ![ButtonScript] = B!With(@, ref, uses')] /\ B!NoFault
                    /\ regs' = [regs EXCEPT ![i].refs[e] = ref, ![i].on = @ \union {e}]
                    /\ driver' = [driver EXCEPT ![h] = @ \union {e}]
                    /\ due' = [due EXCEPT ![h][e] = uses']
                 \/ /\ e \notin regs[i].on /\ B!Fault /\ lua' = cleared
                    /\ regs' = [regs EXCEPT ![i] = B!Unset(@, e)] /\ UNCHANGED driver
                    /\ due' = [due EXCEPT ![h][e] = B!NoRef]
              /\ UNCHANGED <<inputs, open, loop, presses, age, ran>>
  <1>0. PICK h \in open[ButtonScript], e \in Events : \E i \in B!Found(h) : How(h, e, i)
    BY Zenon DEF B!On
  <1>1. PICK i \in B!Found(h) : How(h, e, i)
    BY <1>0, Zenon
  <1> DEFINE r     == regs[i]
             ref   == IF r.refs[e] # 0 THEN r.refs[e] ELSE B!NextRef(ButtonScript)
             cleared == B!Without(Registry, {r.refs[e]})
             set   == [r EXCEPT !.refs[e] = ref, !.on = @ \union {e}]
             unset == [r EXCEPT !.refs[e] = 0]
  <1>2. /\ i \in DOMAIN regs /\ r \in Entries /\ r \in Registration /\ r.handle = h /\ h \in Handles
        /\ h \in B!Live /\ driver[h] = r.on /\ \A x \in Entries \ {r} : x.handle # h
    BY FoundIs
  <1>3. /\ ref \in Nat \ {0} /\ ref \notin DOMAIN Registry \ {r.refs[e]}
        /\ \A n \in DOMAIN Registry : n # 0
    BY <1>2, NextRefIsFree, RegistryIsTyped DEF ButtonInv, Registration
  <1>4. B!Without(Registry, IF r.refs[e] = 0 THEN {} ELSE {r.refs[e]}) = cleared
    BY <1>3 DEF B!Without
  <1>5. DOMAIN cleared = DOMAIN Registry \ {r.refs[e]} /\ \A n \in DOMAIN cleared : cleared[n] = Registry[n]
    BY DEF B!Without
  <1>6. IsFiniteSet(DOMAIN cleared) /\ DOMAIN cleared \subseteq Nat \ {0}
    BY <1>5, FS_Subset DEF ButtonInv, ButtonType
  <1>7. uses' \in Nat /\ UNCHANGED <<inputs, open, presses, age, ran>>
    BY <1>1 DEF B!May, ButtonInv, ButtonType
  <1>8. \/ /\ lua' = [lua EXCEPT ![ButtonScript] = B!With(cleared, ref, uses')]
           /\ regs' = [regs EXCEPT ![i] = set]
           /\ driver' = [driver EXCEPT ![h] = @ \union {e}]
           /\ due' = [due EXCEPT ![h][e] = uses']
        \/ /\ e \notin r.on /\ lua' = [lua EXCEPT ![ButtonScript] = cleared]
           /\ regs' = [regs EXCEPT ![i] = unset] /\ UNCHANGED driver
           /\ due' = [due EXCEPT ![h][e] = 0]
    BY <1>1, <1>2, <1>4, ZenonT(60) DEF B!NoRef, B!Unset, Registry, ButtonInv, ButtonType
  <1>9. InOrder'
    BY <1>7, QueueKept DEF ButtonInv
  <1>10. CASE /\ lua' = [lua EXCEPT ![ButtonScript] = B!With(cleared, ref, uses')]
              /\ regs' = [regs EXCEPT ![i] = set]
              /\ driver' = [driver EXCEPT ![h] = @ \union {e}]
              /\ due' = [due EXCEPT ![h][e] = uses']
    <2>1. set \in Registration /\ set.handle = h /\ set.on = driver[h] \union {e}
                              /\ set.refs = [r.refs EXCEPT ![e] = ref]
      BY <1>2, <1>3 DEF Registration
    <2> HIDE DEF set, ref
    <2>2. /\ regs' \in Seq(Registration) /\ OneEntry'
          /\ Entries' = (Entries \ {r}) \union {set}
      BY <1>2, <1>10, <2>1, EntryChanged DEF ButtonInv
    <2>3. B!Live' = B!Live /\ DriverAgrees' /\ driver' = [x \in B!Live' |-> driver'[x]]
      BY <1>10, <2>1, <2>2, DriverChanged
    <2>4. Registry' = B!With(cleared, ref, uses') /\ lua' \in [{ButtonScript} -> {Registry'}]
      BY <1>10, LuaChanged DEF ButtonInv
    <2>5. /\ DOMAIN Registry' = (DOMAIN Registry \ {r.refs[e]}) \union {ref}
          /\ \A n \in DOMAIN Registry' : Registry'[n] = IF n = ref THEN uses' ELSE Registry[n]
          /\ Registry' = [n \in DOMAIN Registry' |-> Registry'[n]]
      BY <1>5, <2>4 DEF B!With
    <2> HIDE DEF cleared
    <2>6. RegistryAgrees'
      <3>1. \A n \in DOMAIN Registry' : Registry'[n] = IF n = ref THEN uses' ELSE Registry[n]
        BY <2>5
      <3>2. due' = [due EXCEPT ![r.handle][e] = uses']
        BY <1>2, <1>10
      <3>3. set.handle = r.handle /\ ButtonType /\ RegistryAgrees /\ OneEntry
        BY <1>2, <2>1 DEF ButtonInv
      <3> HIDE DEF r
      <3> QED
        BY <1>2, <1>3, <2>1, <2>2, <2>5, <3>1, <3>2, <3>3, RegistrySet
    <2>7. IsFiniteSet(DOMAIN Registry') /\ DOMAIN Registry' \subseteq Nat \ {0}
      <3>1. DOMAIN Registry' = DOMAIN cleared \union {ref}
        BY <1>5, <2>5
      <3>2. IsFiniteSet(DOMAIN Registry')
        BY <1>6, <3>1, FS_AddElement
      <3> QED
        BY <1>3, <1>6, <3>1, <3>2
    <2>8. due' \in [Handles -> [Events -> Nat]]
      BY <1>2, <1>7, <1>10 DEF ButtonInv, ButtonType
    <2>9. ButtonType'
      BY <1>7, <2>2, <2>3, <2>4, <2>5, <2>7, <2>8 DEF ButtonInv, ButtonType
    <2> QED
      BY <1>9, <2>2, <2>3, <2>6, <2>9 DEF ButtonInv
  <1>11. CASE /\ e \notin r.on /\ lua' = [lua EXCEPT ![ButtonScript] = cleared]
              /\ regs' = [regs EXCEPT ![i] = unset] /\ UNCHANGED driver
              /\ due' = [due EXCEPT ![h][e] = 0]
    <2>1. unset \in Registration /\ unset.handle = h /\ unset.on = driver[h]
                                /\ unset.refs = [r.refs EXCEPT ![e] = 0]
      BY <1>2 DEF Registration
    <2> HIDE DEF unset
    <2>2. /\ regs' \in Seq(Registration) /\ OneEntry'
          /\ Entries' = (Entries \ {r}) \union {unset}
      BY <1>2, <1>11, <2>1, EntryChanged DEF ButtonInv
    <2>3. B!Live' = B!Live /\ DriverAgrees' /\ driver' = [x \in B!Live' |-> driver'[x]]
      <3>1. driver' = [driver EXCEPT ![h] = unset.on]
        BY <1>11, <2>1 DEF ButtonInv, ButtonType
      <3> QED
        BY <2>1, <2>2, <3>1, DriverChanged
    <2>4. Registry' = cleared /\ lua' \in [{ButtonScript} -> {Registry'}]
      BY <1>11, LuaChanged DEF ButtonInv
    <2>5. Registry' = [n \in DOMAIN Registry' |-> Registry'[n]]
      BY <1>5, <2>4 DEF B!Without
    <2> HIDE DEF cleared
    <2>6. RegistryAgrees'
      BY <1>2, <1>5, <1>11, <2>1, <2>2, <2>4, RegistryUnset, ZenonT(60) DEF ButtonInv
    <2>7. due' \in [Handles -> [Events -> Nat]]
      BY <1>2, <1>11 DEF ButtonInv, ButtonType
    <2>8. ButtonType'
      BY <1>6, <1>7, <2>2, <2>3, <2>4, <2>5, <2>7 DEF ButtonInv, ButtonType
    <2> QED
      BY <1>9, <2>2, <2>3, <2>6, <2>8 DEF ButtonInv
  <1> QED
    BY <1>8, <1>10, <1>11

\* An entry whose function for one event was let go.
LEMMA EntryUnset ==
    ASSUME ButtonInv, NEW h, NEW i \in B!Found(h), NEW e \in Events,
           NEW q \in Registration, q.handle = h, q.refs = [regs[i].refs EXCEPT ![e] = 0],
           regs' = [regs EXCEPT ![i] = q], driver' = [driver EXCEPT ![h] = q.on],
           lua' = [lua EXCEPT ![ButtonScript] = B!Without(@, {regs[i].refs[e]})],
           due' = [due EXCEPT ![h][e] = 0], uses' \in Nat,
           UNCHANGED <<inputs, open, presses, age, ran>>
    PROVE  ButtonInv'
  <1> DEFINE r     == regs[i]
             cleared == B!Without(Registry, {r.refs[e]})
  <1>1. /\ i \in DOMAIN regs /\ r \in Entries /\ r \in Registration /\ r.handle = h /\ h \in Handles
        /\ h \in B!Live /\ \A x \in Entries \ {r} : x.handle # h
    BY FoundIs
  <1>2. regs' \in Seq(Registration) /\ OneEntry' /\ Entries' = (Entries \ {r}) \union {q}
    BY <1>1, EntryChanged DEF ButtonInv
  <1>3. B!Live' = B!Live /\ DriverAgrees' /\ driver' = [x \in B!Live' |-> driver'[x]]
    BY <1>2, DriverChanged
  <1>4. DOMAIN cleared = DOMAIN Registry \ {r.refs[e]} /\ \A n \in DOMAIN cleared : cleared[n] = Registry[n]
    BY DEF B!Without
  <1>5. IsFiniteSet(DOMAIN cleared) /\ DOMAIN cleared \subseteq Nat \ {0}
    BY <1>4, FS_Subset DEF ButtonInv, ButtonType
  <1>6. lua' = [lua EXCEPT ![ButtonScript] = cleared]
    BY DEF ButtonInv, ButtonType, Registry
  <1>7. Registry' = cleared /\ lua' \in [{ButtonScript} -> {Registry'}]
    BY <1>6, LuaChanged DEF ButtonInv
  <1>8. Registry' = [n \in DOMAIN Registry' |-> Registry'[n]]
    BY <1>7 DEF B!Without
  <1> HIDE DEF cleared
  <1>9. RegistryAgrees'
    BY <1>1, <1>2, <1>4, <1>7, RegistryUnset DEF ButtonInv
  <1>10. due' \in [Handles -> [Events -> Nat]]
    BY <1>1 DEF ButtonInv, ButtonType
  <1>11. ButtonType'
    BY <1>2, <1>3, <1>5, <1>7, <1>8, <1>10 DEF ButtonInv, ButtonType
  <1>12. InOrder'
    BY QueueKept DEF ButtonInv
  <1> QED
    BY <1>2, <1>3, <1>9, <1>11, <1>12 DEF ButtonInv

LEMMA ButtonOff == ASSUME ButtonInv, B!Off(ButtonScript) PROVE ButtonInv'
  <1> DEFINE How(h, e, i) ==
          /\ B!May(ButtonScript)
          /\ lua' = [lua EXCEPT ![ButtonScript] = B!Without(@, {regs[i].refs[e]})]
          /\ due' = [due EXCEPT ![h][e] = B!NoRef]
          /\ \/ /\ regs' = [regs EXCEPT ![i] = B!TurnedOff(@, e)] /\ B!NoFault
                /\ driver' = [driver EXCEPT ![h] = @ \ {e}]
             \/ /\ e \in regs[i].on /\ B!Fault
                /\ regs' = [regs EXCEPT ![i] = B!Unset(@, e)] /\ UNCHANGED driver
          /\ UNCHANGED <<inputs, made, open, loop, presses, age, ran>>
  <1>1. PICK h \in open[ButtonScript], e \in Events : \E i \in B!Found(h) : How(h, e, i)
    BY Zenon DEF B!Off
  <1>2. PICK i \in B!Found(h) : How(h, e, i)
    BY <1>1, Zenon
  <1> DEFINE r   == regs[i]
             off == B!TurnedOff(r, e)
             kept == B!Unset(r, e)
  <1>3. /\ i \in DOMAIN regs /\ r \in Registration /\ r.handle = h /\ h \in B!Live /\ driver[h] = r.on
    BY FoundIs
  <1>4. /\ off \in Registration /\ off.handle = h /\ off.on = driver[h] \ {e}
        /\ off.refs = [r.refs EXCEPT ![e] = 0]
    BY <1>3 DEF Registration, B!TurnedOff, B!Unset, B!NoRef
  <1>5. /\ kept \in Registration /\ kept.handle = h /\ kept.on = driver[h]
        /\ kept.refs = [r.refs EXCEPT ![e] = 0]
    BY <1>3 DEF Registration, B!Unset, B!NoRef
  <1>6. /\ lua' = [lua EXCEPT ![ButtonScript] = B!Without(@, {regs[i].refs[e]})]
        /\ due' = [due EXCEPT ![h][e] = 0] /\ uses' \in Nat
        /\ UNCHANGED <<inputs, open, presses, age, ran>>
    BY <1>2 DEF B!May, B!NoRef, ButtonInv, ButtonType
  <1>7. \/ regs' = [regs EXCEPT ![i] = off] /\ driver' = [driver EXCEPT ![h] = driver[h] \ {e}]
        \/ regs' = [regs EXCEPT ![i] = kept] /\ driver' = [driver EXCEPT ![h] = driver[h]]
    <2>1. driver = [driver EXCEPT ![h] = driver[h]]
      BY <1>3 DEF ButtonInv, ButtonType
    <2>2. [regs EXCEPT ![i] = off] = [regs EXCEPT ![i] = B!TurnedOff(@, e)]
      OBVIOUS
    <2>3. [regs EXCEPT ![i] = kept] = [regs EXCEPT ![i] = B!Unset(@, e)]
      OBVIOUS
    <2> QED
      BY <1>2, <2>1, <2>2, <2>3
  <1> HIDE DEF off, kept, How
  <1>8. CASE regs' = [regs EXCEPT ![i] = off] /\ driver' = [driver EXCEPT ![h] = driver[h] \ {e}]
    BY <1>4, <1>6, <1>8, EntryUnset
  <1>9. CASE regs' = [regs EXCEPT ![i] = kept] /\ driver' = [driver EXCEPT ![h] = driver[h]]
    BY <1>5, <1>6, <1>9, EntryUnset
  <1> QED
    BY <1>7, <1>8, <1>9

\* The driver lets a button go, or its last event.
LEMMA DriverDropped ==
    ASSUME ButtonInv, NEW h \in B!Live, Entries' \subseteq Entries,
           \A r \in Entries : r \in Entries' <=> r.handle # h,
           driver' \in {B!Without(driver, {h}), [driver EXCEPT ![h] = {}]}
    PROVE  /\ DriverAgrees' /\ driver' = [x \in B!Live' |-> driver'[x]] /\ B!Live' \subseteq Handles
           /\ driver' = B!Without(driver, {h}) => B!Live' = B!Live \ {h}
           /\ driver' = [driver EXCEPT ![h] = {}] => B!Live' = B!Live
  <1>1. CASE driver' = B!Without(driver, {h})
    <2>1. B!Live' = B!Live \ {h} /\ \A x \in B!Live' : driver'[x] = driver[x]
      BY <1>1 DEF B!Without, B!Live
    <2>2. driver' = [x \in B!Live' |-> driver'[x]]
      BY <1>1 DEF B!Without, B!Live
    <2>3. h \in B!Live /\ driver' # [driver EXCEPT ![h] = {}]
      BY <2>1 DEF B!Live, ButtonInv, ButtonType
    <2>4. DriverAgrees'
      BY <2>1 DEF ButtonInv, DriverAgrees
    <2> QED
      BY <2>1, <2>2, <2>3, <2>4 DEF ButtonInv, ButtonType
  <1>2. CASE driver' = [driver EXCEPT ![h] = {}]
    <2>1. B!Live' = B!Live /\ \A x \in B!Live : driver'[x] = IF x = h THEN {} ELSE driver[x]
      BY <1>2 DEF B!Live, ButtonInv, ButtonType
    <2>2. driver' = [x \in B!Live' |-> driver'[x]]
      BY <1>2 DEF B!Live
    <2>3. driver' # B!Without(driver, {h})
      BY <2>1 DEF B!Without, B!Live
    <2>4. DriverAgrees'
      BY <2>1 DEF ButtonInv, DriverAgrees
    <2> QED
      BY <2>1, <2>2, <2>3, <2>4 DEF ButtonInv, ButtonType
  <1> QED
    BY <1>1, <1>2

\* An entry goes, with its functions; the button, or its events, go with it.
LEMMA EntryGone ==
    ASSUME ButtonInv, NEW h, NEW i \in B!Found(h), regs' = B!Removed(i),
           lua' = [lua EXCEPT ![ButtonScript] = B!Without(@, B!RefsOf(i))],
           driver' \in {B!Without(driver, {h}), [driver EXCEPT ![h] = {}]},
           open' = [s \in {ButtonScript} |-> B!Live'],
           due' = [due EXCEPT ![h] = B!NoRefs], uses' \in Nat,
           UNCHANGED <<inputs, presses, age, ran>>
    PROVE  ButtonInv'
  <1> DEFINE r     == regs[i]
             refs  == B!RefsOf(i)
             cleared == B!Without(Registry, refs)
  <1>1. /\ i \in DOMAIN regs /\ r \in Entries /\ r \in Registration /\ r.handle = h /\ h \in Handles
        /\ h \in B!Live /\ \A x \in Entries \ {r} : x.handle # h
    BY FoundIs
  <1>2. regs' \in Seq(Registration) /\ OneEntry' /\ Entries' = Entries \ {r}
    BY <1>1, EntryRemoved DEF ButtonInv
  <1>3. /\ DriverAgrees' /\ driver' = [x \in B!Live' |-> driver'[x]] /\ B!Live' \subseteq Handles
    BY <1>1, <1>2, DriverDropped
  <1>4. DOMAIN cleared = DOMAIN Registry \ refs /\ \A n \in DOMAIN cleared : cleared[n] = Registry[n]
    BY DEF B!Without
  <1>5. IsFiniteSet(DOMAIN cleared) /\ DOMAIN cleared \subseteq Nat \ {0}
    BY <1>4, FS_Subset DEF ButtonInv, ButtonType
  <1>6. lua' = [lua EXCEPT ![ButtonScript] = cleared]
    BY DEF ButtonInv, ButtonType, Registry
  <1>7. Registry' = cleared /\ lua' \in [{ButtonScript} -> {Registry'}]
    BY <1>6, LuaChanged DEF ButtonInv
  <1>8. Registry' = [n \in DOMAIN Registry' |-> Registry'[n]]
    BY <1>7 DEF B!Without
  <1>9. refs = {r.refs[e] : e \in Events}
    BY DEF B!RefsOf
  <1> HIDE DEF cleared, refs
  <1>10. RegistryAgrees'
    BY <1>1, <1>2, <1>4, <1>7, <1>9, RegistryDropped DEF ButtonInv
  <1>11. due' \in [Handles -> [Events -> Nat]]
    BY <1>1 DEF ButtonInv, ButtonType, B!NoRefs, B!NoRef
  <1>12. ButtonType'
    BY <1>2, <1>3, <1>5, <1>7, <1>8, <1>11 DEF ButtonInv, ButtonType
  <1>13. InOrder'
    BY QueueKept DEF ButtonInv
  <1> QED
    BY <1>2, <1>3, <1>10, <1>12, <1>13 DEF ButtonInv

\* The userdata of a script hold the buttons that live, also after one of them went.
LEMMA OpenWithout ==
    ASSUME ButtonInv, NEW h \in B!Live, driver' = B!Without(driver, {h}),
           open' = [open EXCEPT ![ButtonScript] = @ \ {h}]
    PROVE  open' = [s \in {ButtonScript} |-> B!Live']
  <1>1. B!Live' = B!Live \ {h}
    BY DEF B!Live, B!Without
  <1>2. open = [s \in {ButtonScript} |-> B!Live]
    BY DEF ButtonInv, ButtonType
  <1> QED
    BY <1>1, <1>2

LEMMA ButtonClose == ASSUME ButtonInv, B!Close(ButtonScript) PROVE ButtonInv'
  <1> DEFINE How(h, i) ==
          /\ B!May(ButtonScript) /\ regs' = B!Removed(i)
          /\ lua' = [lua EXCEPT ![ButtonScript] = B!Without(@, B!RefsOf(i))]
          /\ due' = [due EXCEPT ![h] = B!NoRefs]
          /\ \/ /\ driver' = B!Without(driver, {h})
                /\ open' = [open EXCEPT ![ButtonScript] = @ \ {h}] /\ B!NoFault
             \/ driver' = [driver EXCEPT ![h] = {}] /\ B!Fault /\ UNCHANGED open
          /\ UNCHANGED <<inputs, made, loop, presses, age, ran>>
  <1>1. PICK h \in open[ButtonScript] : \E i \in B!Found(h) : How(h, i)
    BY Zenon DEF B!Close
  <1>2. PICK i \in B!Found(h) : How(h, i)
    BY <1>1, Zenon
  <1>3. h \in B!Live
    BY FoundIs
  <1>4. open' = [s \in {ButtonScript} |-> B!Live']
    <2>1. CASE driver' = B!Without(driver, {h}) /\ open' = [open EXCEPT ![ButtonScript] = @ \ {h}]
      BY <1>3, <2>1, OpenWithout
    <2>2. CASE driver' = [driver EXCEPT ![h] = {}] /\ UNCHANGED open
      BY <2>2 DEF B!Live, ButtonInv, ButtonType
    <2> QED
      BY <1>2, <2>1, <2>2
  <1>5. uses' \in Nat
    BY <1>2 DEF B!May, ButtonInv, ButtonType
  <1> QED
    BY <1>2, <1>4, <1>5, EntryGone

LEMMA ButtonCollect == ASSUME ButtonInv, B!Collect(ButtonScript) PROVE ButtonInv'
  <1>1. PICK h \in open[ButtonScript] :
          /\ IF B!Found(h) = {} THEN UNCHANGED <<regs, lua>>
             ELSE \E i \in B!Found(h) :
                     /\ regs' = B!Removed(i)
                     /\ lua' = [lua EXCEPT ![ButtonScript] = B!Without(@, B!RefsOf(i))]
          /\ driver' = B!Without(driver, {h}) /\ open' = [open EXCEPT ![ButtonScript] = @ \ {h}]
          /\ due' = [due EXCEPT ![h] = B!NoRefs]
          /\ UNCHANGED <<inputs, made, loop, uses, presses, refusals, age, ran>>
    BY DEF B!Collect
  <1>2. h \in B!Live /\ h \in Handles /\ uses \in Nat
    BY RegistryIsTyped DEF ButtonInv, ButtonType
  <1>3. open' = [s \in {ButtonScript} |-> B!Live']
    BY <1>1, <1>2, OpenWithout
  <1>4. CASE B!Found(h) # {}
    <2>1. PICK i \in B!Found(h) : /\ regs' = B!Removed(i)
                                  /\ lua' = [lua EXCEPT ![ButtonScript] = B!Without(@, B!RefsOf(i))]
      BY <1>1, <1>4
    <2> QED
      BY <1>1, <1>2, <1>3, <2>1, EntryGone
  <1>5. CASE B!Found(h) = {}
    <2>1. UNCHANGED <<regs, lua, inputs, uses, presses, age, ran>> /\ due' = [due EXCEPT ![h] = B!NoRefs]
      BY <1>1, <1>5
    <2>2. \A r \in Entries : r.handle # h
      BY <1>5 DEF B!Found, Entries
    <2>3. Entries' = Entries /\ Registry' = Registry
      BY <2>1 DEF Entries, Registry
    <2>4. DriverAgrees' /\ driver' = [x \in B!Live' |-> driver'[x]] /\ B!Live' \subseteq Handles
      BY <1>1, <1>2, <2>2, <2>3, DriverDropped
    <2>5. \A r \in Entries : due'[r.handle] = due[r.handle]
      BY <2>1, <2>2, EntriesAreTyped DEF ButtonInv, ButtonType, Registration
    <2>6. RegistryAgrees'
      BY <2>3, <2>5 DEF ButtonInv, RegistryAgrees
    <2>7. due' \in [Handles -> [Events -> Nat]]
      BY <1>2, <2>1 DEF ButtonInv, ButtonType, B!NoRefs, B!NoRef
    <2>8. ButtonType'
      BY <1>3, <2>1, <2>3, <2>4, <2>7 DEF ButtonInv, ButtonType
    <2>9. OneEntry' /\ InOrder'
      BY <2>1, QueueKept DEF ButtonInv, OneEntry
    <2> QED
      BY <2>4, <2>6, <2>8, <2>9 DEF ButtonInv
  <1> QED
    BY <1>4, <1>5

-----------------------------------------------------------------------------
(* The timer's callback, and dispatch.                                       *)

\* What touches neither the table nor the registry.
LEMMA TablesKept ==
    ASSUME ButtonInv, UNCHANGED <<regs, driver, lua, open, uses, age, due>>
    PROVE  /\ OneEntry' /\ DriverAgrees' /\ RegistryAgrees'
           /\ inputs' \in Seq(Pressed) /\ presses' \in Nat => ButtonType'
  <1>1. Entries' = Entries /\ Registry' = Registry /\ B!Live' = B!Live
    BY DEF Entries, Registry, B!Live
  <1>2. inputs' \in Seq(Pressed) /\ presses' \in Nat => ButtonType'
    BY <1>1 DEF ButtonInv, ButtonType
  <1> QED
    BY <1>1, <1>2 DEF ButtonInv, OneEntry, DriverAgrees, RegistryAgrees

LEMMA ButtonPress == ASSUME ButtonInv, B!Press PROVE ButtonInv'
  <1>1. PICK h \in B!Live, e \in Events :
          /\ presses' = presses + 1
          /\ inputs' = IF Len(inputs) = EventQueueLen THEN inputs
                       ELSE Append(inputs, [handle |-> h, event |-> e, no |-> presses', age |-> age[h]])
          /\ UNCHANGED <<regs, made, driver, lua, open, loop, uses, refusals, age, due, ran>>
    <2>1. \A h \in B!Live : driver[h] \subseteq Events
      <3>1. \A r \in Entries : r.on \subseteq Events
        BY EntriesAreTyped DEF ButtonInv, Registration
      <3> QED
        BY <3>1 DEF ButtonInv, DriverAgrees
    <2> QED
      BY <2>1 DEF B!Press
  <1> DEFINE press == [handle |-> h, event |-> e, no |-> presses', age |-> age[h]]
  <1>2. press \in Pressed /\ press.no = presses + 1 /\ presses' = presses + 1 /\ presses \in Nat
    BY <1>1 DEF ButtonInv, ButtonType, Pressed
  <1> HIDE DEF press
  <1>3. /\ inputs \in Seq(Pressed) /\ DOMAIN inputs = 1..Len(inputs) /\ Len(inputs) \in Nat
        /\ \A j \in DOMAIN inputs : inputs[j].no \in Nat
    <2>1. inputs \in Seq(Pressed) /\ DOMAIN inputs = 1..Len(inputs) /\ Len(inputs) \in Nat
      BY DEF ButtonInv, ButtonType
    <2>2. \A j \in DOMAIN inputs : inputs[j] \in Pressed
      BY <2>1, ElementOfSeq
    <2> QED
      BY <2>1, <2>2 DEF Pressed
  <1>4. CASE inputs' = inputs
    <2>1. ran' = ran /\ inputs' = inputs /\ B!RightFunction' = B!RightFunction
      BY <1>1, <1>4 DEF B!RightFunction
    <2>2. \A j \in DOMAIN inputs : inputs[j].no <= presses'
      BY <1>2, <1>3 DEF ButtonInv, InOrder
    <2>3. ran.no \in Nat /\ ran.no <= presses'
      BY <1>2 DEF ButtonInv, InOrder
    <2>4. InOrder'
      BY <2>1, <2>2, <2>3 DEF ButtonInv, InOrder
    <2>5. inputs' \in Seq(Pressed) /\ presses' \in Nat
      BY <1>2, <1>3, <1>4
    <2> QED
      BY <1>1, <2>4, <2>5, TablesKept DEF ButtonInv
  <1>5. CASE inputs' = Append(inputs, press)
    <2>1. /\ inputs' \in Seq(Pressed) /\ DOMAIN inputs = 1..Len(inputs) /\ Len(inputs) \in Nat
          /\ DOMAIN inputs' = 1..(Len(inputs) + 1) /\ inputs'[Len(inputs) + 1] = press
          /\ \A j \in 1..Len(inputs) : inputs'[j] = inputs[j] /\ inputs[j].no \in Nat
      BY <1>2, <1>3, <1>5, AppendProperties
    <2>2. /\ ran.no \in Nat /\ B!RightFunction' /\ ran' = ran
          /\ \A j \in 1..Len(inputs) : ran.no < inputs[j].no /\ inputs[j].no <= presses
          /\ \A j, k \in 1..Len(inputs) : j < k => inputs[j].no < inputs[k].no
      BY <1>1, <2>1 DEF ButtonInv, InOrder, B!RightFunction
    <2>3. ran.no <= presses
      BY DEF ButtonInv, InOrder
    <2>4. InOrder'
      BY <1>2, <2>1, <2>2, <2>3, SMTT(60) DEF InOrder
    <2> QED
      BY <1>1, <1>2, <2>1, <2>4, TablesKept DEF ButtonInv
  <1> QED
    BY <1>1, <1>4, <1>5 DEF press

\* What a function is told of: the one that is registered, with its place in the order.
LEMMA ButtonRunNext == ASSUME ButtonInv, B!RunNext(ButtonScript) PROVE ButtonInv'
  <1> DEFINE item == Head(inputs)
             Runs(i) ==
                LET ref == regs[i].refs[item.event]
                IN  /\ ref # B!NoRef /\ loop' = [loop EXCEPT ![ButtonScript] = "callback"]
                    /\ ran' = [fn |-> B!Function(ButtonScript, ref),
                               due |-> due[item.handle][item.event],
                               no |-> item.no, before |-> ran.no,
                               fresh |-> item.age = age[item.handle]]
  <1>1. /\ inputs # <<>> /\ inputs' = Tail(inputs)
        /\ UNCHANGED <<regs, made, driver, lua, open, uses, presses, refusals, age, due>>
        /\ \/ UNCHANGED ran
           \/ \E i \in B!Found(item.handle) : Runs(i)
    BY Zenon DEF B!RunNext
  <1> HIDE DEF Runs
  <1>2. /\ inputs \in Seq(Pressed) /\ Len(inputs) \in Nat \ {0} /\ DOMAIN inputs = 1..Len(inputs)
        /\ item = inputs[1] /\ item \in Pressed /\ inputs' \in Seq(Pressed)
        /\ DOMAIN inputs' = 1..(Len(inputs) - 1)
        /\ \A j \in 1..(Len(inputs) - 1) : inputs'[j] = inputs[j + 1]
    BY <1>1, EmptySeq, HeadTailProperties, ElementOfSeq DEF ButtonInv, ButtonType
  <1>3. \A j \in DOMAIN inputs : inputs[j].no \in Nat
    <2>1. \A j \in 1..Len(inputs) : inputs[j] \in Pressed
      BY <1>2, ElementOfSeq
    <2> QED
      BY <1>2, <2>1 DEF Pressed
  <1> HIDE DEF item
  <1>4. /\ \A i \in DOMAIN inputs' : item.no < inputs'[i].no /\ inputs'[i].no <= presses
        /\ \A i, j \in DOMAIN inputs' : i < j => inputs'[i].no < inputs'[j].no
        /\ ran.no < item.no /\ item.no <= presses /\ item.no \in Nat /\ ran.no \in Nat
        /\ \A i \in DOMAIN inputs' : inputs'[i].no \in Nat
    <2>1. /\ \A i, j \in DOMAIN inputs : i < j => inputs[i].no < inputs[j].no
          /\ \A i \in DOMAIN inputs : ran.no < inputs[i].no /\ inputs[i].no <= presses
          /\ ran.no \in Nat
      BY DEF ButtonInv, InOrder
    <2>2. 1 \in DOMAIN inputs /\ item.no \in Nat
      BY <1>2, <1>3
    <2>3. \A i \in DOMAIN inputs' : i \in Nat /\ i + 1 \in DOMAIN inputs /\ 1 < i + 1
                                   /\ inputs'[i] = inputs[i + 1]
      BY <1>2
    <2>4. \A i \in DOMAIN inputs' : item.no < inputs'[i].no /\ inputs'[i].no <= presses
                                   /\ inputs'[i].no \in Nat
      BY <1>2, <1>3, <2>1, <2>2, <2>3
    <2>5. \A i, j \in DOMAIN inputs' : i < j => inputs'[i].no < inputs'[j].no
      BY <2>1, <2>3
    <2> QED
      BY <1>2, <2>1, <2>2, <2>4, <2>5
  <1>5. presses' = presses /\ presses \in Nat
    BY <1>1 DEF ButtonInv, ButtonType
  <1>6. CASE UNCHANGED ran
    <2>1. \A i \in DOMAIN inputs' : ran.no < inputs'[i].no
      BY <1>4
    <2>2. ran.no \in Nat /\ ran.no <= presses /\ B!RightFunction
      BY DEF ButtonInv, InOrder
    <2>3. InOrder'
      BY <1>4, <1>5, <1>6, <2>1, <2>2 DEF InOrder, B!RightFunction
    <2> QED
      BY <1>1, <1>2, <1>5, <2>3, TablesKept DEF ButtonInv
  <1>7. ASSUME NEW i \in B!Found(item.handle), Runs(i) PROVE ButtonInv'
    <2>1. regs[i] \in Entries /\ regs[i].handle = item.handle
      BY FoundIs
    <2>2. regs[i].refs[item.event] # 0 /\ item.event \in Events
      BY <1>2, <1>7 DEF Runs, B!NoRef, Pressed
    <2>3. /\ regs[i].refs[item.event] \in DOMAIN Registry
          /\ Registry[regs[i].refs[item.event]] = due[item.handle][item.event]
      BY <2>1, <2>2 DEF ButtonInv, RegistryAgrees
    <2>4. B!Function(ButtonScript, regs[i].refs[item.event]) = due[item.handle][item.event]
      BY <2>3 DEF B!Function, Registry
    <2>5. ran'.fn = ran'.due /\ ran'.no = item.no /\ ran'.before = ran.no
      BY <1>7, <2>4 DEF Runs
    <2> QED
      BY <1>1, <1>2, <1>4, <1>5, <2>5, TablesKept DEF ButtonInv, InOrder, B!RightFunction
  <1> QED
    BY <1>1, <1>6, <1>7

\* The inductive invariant says that the tables agree.
LEMMA AgreeingTables == ASSUME ButtonInv PROVE B!RightFunction /\ B!TablesAgree
  <1>1. \A h \in B!Live : driver[h] = UNION {regs[i].on : i \in B!Found(h)}
    <2> SUFFICES ASSUME NEW h \in B!Live
                 PROVE  driver[h] = UNION {regs[i].on : i \in B!Found(h)}
      OBVIOUS
    <2>1. CASE B!Found(h) = {}
      BY <2>1 DEF B!Found, Entries, ButtonInv, DriverAgrees
    <2>2. ASSUME NEW i \in B!Found(h) PROVE driver[h] = UNION {regs[j].on : j \in B!Found(h)}
      <3>1. B!Found(h) = {i} /\ driver[h] = regs[i].on
        BY FoundIs
      <3> QED
        BY <3>1
    <2> QED
      BY <2>1, <2>2
  <1>2. \A i \in DOMAIN regs : regs[i].handle \in B!Live
    BY DEF ButtonInv, DriverAgrees, Entries
  <1>3. UNION {DOMAIN lua[s] : s \in {ButtonScript}} = DOMAIN Registry
    BY DEF Registry
  <1>4. DOMAIN Registry = (UNION {B!RefsOf(i) : i \in DOMAIN regs}) \ {B!NoRef}
    <2> DEFINE AllRefs == UNION {B!RefsOf(i) : i \in DOMAIN regs}
    <2>1. ASSUME NEW n \in DOMAIN Registry PROVE n \in AllRefs /\ n # B!NoRef
      <3>1. n # 0
        BY DEF ButtonInv, ButtonType
      <3>2. PICK r \in Entries, e \in Events : r.refs[e] = n
        BY DEF ButtonInv, RegistryAgrees
      <3>3. PICK i \in DOMAIN regs : r = regs[i]
        BY DEF Entries
      <3>4. n \in B!RefsOf(i)
        BY <3>2, <3>3 DEF B!RefsOf
      <3> QED
        BY <3>1, <3>3, <3>4 DEF B!NoRef
    <2>2. ASSUME NEW i \in DOMAIN regs, NEW n \in B!RefsOf(i), n # 0 PROVE n \in DOMAIN Registry
      <3>1. PICK e \in Events : n = regs[i].refs[e]
        BY DEF B!RefsOf
      <3>2. regs[i] \in Entries
        BY DEF Entries
      <3> QED
        BY <2>2, <3>1, <3>2 DEF ButtonInv, RegistryAgrees
    <2>3. \A n \in AllRefs : \E i \in DOMAIN regs : n \in B!RefsOf(i)
      BY Zenon
    <2> HIDE DEF AllRefs
    <2>4. DOMAIN Registry = AllRefs \ {B!NoRef}
      BY <2>1, <2>2, <2>3 DEF B!NoRef
    <2> QED
      BY <2>4 DEF AllRefs
  <1> QED
    BY <1>1, <1>2, <1>3, <1>4 DEF ButtonInv, OneEntry, InOrder, B!TablesAgree

\* A press runs the function that is registered for it, in order, and the module's table,
\* the driver and the Lua registry agree after every call, also one the driver refuses.
THEOREM ButtonsHold == B!Spec => [](B!RightFunction /\ B!TablesAgree)
  <1>1. B!Init => ButtonInv
    BY ButtonInit
  <1>2. ButtonInv /\ [B!Next]_(B!ivars) => ButtonInv'
    <2> SUFFICES ASSUME ButtonInv, [B!Next]_(B!ivars) PROVE ButtonInv'
      OBVIOUS
    <2>1. CASE UNCHANGED <<regs, inputs, driver, lua, open, uses, presses, age, due, ran>>
      BY <2>1, TablesKept, QueueKept DEF ButtonInv, ButtonType
    <2>2. CASE B!Next
      <3>1. \A s \in {ButtonScript} : B!Dispatch(s) \/ B!Return(s) \/ B!Dispatched(s) =>
               UNCHANGED <<regs, inputs, driver, lua, open, uses, presses, age, due, ran>>
        BY DEF B!Dispatch, B!Return, B!Dispatched
      <3> QED
        BY <2>1, <2>2, <3>1, ButtonNew, ButtonOn, ButtonOff, ButtonClose, ButtonCollect,
           ButtonPress, ButtonRunNext DEF B!Next
    <2> QED
      BY <2>1, <2>2 DEF B!ivars
  <1>3. ButtonInv => B!RightFunction /\ B!TablesAgree
    BY AgreeingTables
  <1> QED
    BY <1>1, <1>2, <1>3, PTL DEF B!Spec

LEMMA ButtonRuns == TasksSafe => B!Spec
  <1>1. TasksInit => B!Init
    BY DEF TasksInit
  <1>2. [TasksNext]_tasksVars => [B!Next]_(B!ivars)
    BY DEF TasksNext, Is, tasksVars, buttonVars, B!ivars
  <1> QED
    BY <1>1, <1>2, PTL DEF TasksSafe, B!Spec

-----------------------------------------------------------------------------
(* The camera: where each script is, who holds the mutex, and where the       *)
(* buffers are meanwhile.                                                     *)

\* Whoever holds the mutex stands at one of these places.
Inside == {"opening", "settling", "asks", "waiting", "encoding", "releasing", "freeing",
           "closing"}
Places == Inside \union {"idle", "open", "frame", "jpeg", "close", "release", "free", "write"}
Marks  == {"frame", "jpeg", "picture"}

CameraType ==
    /\ opened \in BOOLEAN /\ borrowed \in Buffers \union {None} /\ queued \subseteq Buffers
    /\ lock \in CameraScripts \union {None}
    /\ at \in [CameraScripts -> Places]
    /\ buffer \in [CameraScripts -> Buffers \union Marks]
    /\ frames \in [CameraScripts -> SUBSET Buffers]

\* The mutex is held by the one script that is inside.
HolderIsInside == \A s \in CameraScripts : at[s] \in Inside <=> lock = s

\* Where a call is tells what it holds: a capture has asked for a frame or a picture
\* and has seen that none is out; the buffer it encodes is neither borrowed nor with
\* the driver; a release has a frame of its script, and what is freed is no buffer.
CallHolds ==
    \A s \in CameraScripts :
        /\ at[s] \in {"asks", "waiting"} => buffer[s] \in {"frame", "jpeg"}
        /\ at[s] \in {"settling", "waiting", "encoding"} => opened /\ borrowed = None
        /\ at[s] = "encoding" => buffer[s] \in Buffers /\ queued = Buffers \ {buffer[s]}
        /\ at[s] \in {"release", "releasing"} => buffer[s] \in frames[s]
        /\ at[s] \in {"free", "freeing"} => buffer[s] = "picture"

\* The driver has all other buffers, while no picture is being encoded.
DriverHasTheOthers ==
    /\ ~opened => borrowed = None
    /\ (\A s \in CameraScripts : at[s] # "encoding") =>
          queued = (IF opened THEN Buffers \ {borrowed} ELSE {})

\* FrameHasOwner, frame by frame.
OneOwner ==
    ~strayed =>
        /\ \A s \in CameraScripts : \A b \in frames[s] :
              b = borrowed /\ \A u \in CameraScripts \ {s} : b \notin frames[u]
        /\ borrowed # None => \E s \in CameraScripts : borrowed \in frames[s]

CameraInv == CameraType /\ HolderIsInside /\ CallHolds /\ DriverHasTheOthers /\ OneOwner

LEMMA CameraInit == ASSUME D!Init PROVE CameraInv
  BY CameraAssumption DEF D!Init, CameraInv, CameraType, HolderIsInside, CallHolds,
     DriverHasTheOthers, OneOwner, Places, Inside, Marks

LEMMA OwnerOfFrame == ASSUME CameraInv PROVE D!FrameHasOwner /\ D!BuffersGoRound
  <1>1. ~strayed => D!Known = {borrowed} \ {None}
    BY CameraAssumption DEF D!Known, CameraInv, OneOwner, CameraType
  <1>2. ~strayed => \A s, u \in CameraScripts : s # u => frames[s] \intersect frames[u] = {}
    BY DEF CameraInv, OneOwner, CameraType
  <1>3. D!BuffersGoRound
    BY CameraAssumption DEF D!BuffersGoRound, CameraInv, HolderIsInside, DriverHasTheOthers, Inside
  <1> QED
    BY <1>1, <1>2, <1>3 DEF D!FrameHasOwner

\* Which frames there are tells of each script's.
LEMMA FramesAreKnown == ASSUME NEW s \in CameraScripts PROVE frames[s] \subseteq D!Known
  BY DEF D!Known

\* A script calls the module.
LEMMA CameraCalls == ASSUME CameraInv, NEW s \in CameraScripts, D!Calls(s) PROVE CameraInv'
  <1> USE CameraAssumption DEF CameraInv
  <1> USE DEF D!Calls, D!Goes, D!device
  <1>1. CameraType'
    BY DEF CameraType, HolderIsInside, CallHolds, Places, Inside, Marks
  <1>2. HolderIsInside'
    BY DEF CameraType, HolderIsInside, Inside
  <1>3. CallHolds'
    BY DEF CameraType, HolderIsInside, CallHolds, DriverHasTheOthers, Places, Inside
  <1>4. DriverHasTheOthers'
    BY DEF CameraType, HolderIsInside, CallHolds, DriverHasTheOthers, Places, Inside
  <1>5. OneOwner'
    BY DEF CameraType, HolderIsInside, CallHolds, OneOwner, Places, Inside, Marks
  <1> QED
    BY <1>1, <1>2, <1>3, <1>4, <1>5

\* A script drops a frame.
LEMMA CameraDrops == ASSUME CameraInv, NEW s \in CameraScripts, D!Drops(s) PROVE CameraInv'
  <1> USE CameraAssumption DEF CameraInv
  <1> USE DEF D!Drops, D!Goes, D!device
  <1>1. CameraType'
    BY DEF CameraType, HolderIsInside, CallHolds, Places, Inside, Marks
  <1>2. HolderIsInside'
    BY DEF CameraType, HolderIsInside, Inside
  <1>3. CallHolds'
    BY DEF CameraType, HolderIsInside, CallHolds, DriverHasTheOthers, Places, Inside
  <1>4. DriverHasTheOthers'
    BY DEF CameraType, HolderIsInside, CallHolds, DriverHasTheOthers, Places, Inside
  <1>5. OneOwner'
    BY DEF CameraType, HolderIsInside, CallHolds, OneOwner, Places, Inside, Marks
  <1> QED
    BY <1>1, <1>2, <1>3, <1>4, <1>5

\* The mutex is taken.
LEMMA CameraTake == ASSUME CameraInv, NEW s \in CameraScripts, D!Take(s) PROVE CameraInv'
  <1> USE CameraAssumption DEF CameraInv
  <1> USE DEF D!Take, D!Waits, D!Locked, D!Goes, D!device
  <1>1. CameraType'
    BY DEF CameraType, HolderIsInside, CallHolds, Places, Inside, Marks
  <1>2. HolderIsInside'
    BY DEF CameraType, HolderIsInside, Inside
  <1>3. CallHolds'
    BY DEF CameraType, HolderIsInside, CallHolds, DriverHasTheOthers, Places, Inside
  <1>4. DriverHasTheOthers'
    BY DEF CameraType, HolderIsInside, CallHolds, DriverHasTheOthers, Places, Inside
  <1>5. OneOwner'
    BY DEF CameraType, HolderIsInside, CallHolds, OneOwner, Places, Inside, Marks
  <1> QED
    BY <1>1, <1>2, <1>3, <1>4, <1>5

\* The mutex is not got in time.
LEMMA CameraGivesUp == ASSUME CameraInv, NEW s \in CameraScripts, D!GivesUp(s) PROVE CameraInv'
  <1> USE CameraAssumption DEF CameraInv
  <1> USE DEF D!GivesUp, D!Waits, D!Locked, D!Long, D!Goes, D!device
  <1>1. CameraType'
    BY DEF CameraType, HolderIsInside, CallHolds, Places, Inside, Marks
  <1>2. HolderIsInside'
    BY DEF CameraType, HolderIsInside, Inside
  <1>3. CallHolds'
    BY DEF CameraType, HolderIsInside, CallHolds, DriverHasTheOthers, Places, Inside
  <1>4. DriverHasTheOthers'
    BY DEF CameraType, HolderIsInside, CallHolds, DriverHasTheOthers, Places, Inside
  <1>5. OneOwner'
    BY DEF CameraType, HolderIsInside, CallHolds, OneOwner, Places, Inside, Marks
  <1> QED
    BY <1>1, <1>2, <1>3, <1>4, <1>5

\* camera_open_locked
LEMMA CameraOpen == ASSUME CameraInv, NEW s \in CameraScripts, D!Open(s) PROVE CameraInv'
  <1> USE CameraAssumption DEF CameraInv
  <1> USE DEF D!Open, D!Fails, D!Closes, D!Fault, D!Goes, D!Holds, D!Unlocks, D!device
  <1>1. CameraType'
    BY DEF CameraType, HolderIsInside, CallHolds, Places, Inside, Marks
  <1>2. HolderIsInside'
    BY DEF CameraType, HolderIsInside, Inside
  <1>3. CallHolds'
    BY DEF CameraType, HolderIsInside, CallHolds, DriverHasTheOthers, Places, Inside
  <1>4. DriverHasTheOthers'
    BY DEF CameraType, HolderIsInside, CallHolds, DriverHasTheOthers, Places, Inside
  <1>5. OneOwner'
    <2>1. UNCHANGED <<borrowed, strayed, frames>> => OneOwner'
      BY DEF OneOwner
    <2>2. CASE D!Fails(s)
      BY <2>2, FramesAreKnown DEF OneOwner, CameraType
    <2> QED
      BY <2>1, <2>2 DEF DriverHasTheOthers, CameraType
  <1> QED
    BY <1>1, <1>2, <1>3, <1>4, <1>5

\* camera_settle_stream_locked
LEMMA CameraSettles == ASSUME CameraInv, NEW s \in CameraScripts, D!Settles(s) PROVE CameraInv'
  <1> USE CameraAssumption DEF CameraInv
  <1> USE DEF D!Settles, D!Fails, D!Closes, D!Fault, D!NoFault, D!Goes, D!Holds,
                 D!Unlocks, D!device
  <1>1. CameraType'
    BY DEF CameraType, HolderIsInside, CallHolds, Places, Inside, Marks
  <1>2. HolderIsInside'
    BY DEF CameraType, HolderIsInside, Inside
  <1>3. CallHolds'
    BY DEF CameraType, HolderIsInside, CallHolds, DriverHasTheOthers, Places, Inside
  <1>4. DriverHasTheOthers'
    BY DEF CameraType, HolderIsInside, CallHolds, DriverHasTheOthers, Places, Inside
  <1>5. OneOwner'
    BY FramesAreKnown DEF CameraType, HolderIsInside, CallHolds, OneOwner, Places,
                             Inside, Marks
  <1> QED
    BY <1>1, <1>2, <1>3, <1>4, <1>5

\* camera_get_frame_locked
LEMMA CameraAsks == ASSUME CameraInv, NEW s \in CameraScripts, D!Asks(s) PROVE CameraInv'
  <1> USE CameraAssumption DEF CameraInv
  <1> USE DEF D!Asks, D!MayTake, D!Goes, D!Holds, D!Unlocks, D!device
  <1>1. CameraType'
    BY DEF CameraType, HolderIsInside, CallHolds, Places, Inside, Marks
  <1>2. HolderIsInside'
    BY DEF CameraType, HolderIsInside, Inside
  <1>3. CallHolds'
    BY DEF CameraType, HolderIsInside, CallHolds, DriverHasTheOthers, Places, Inside
  <1>4. DriverHasTheOthers'
    BY DEF CameraType, HolderIsInside, CallHolds, DriverHasTheOthers, Places, Inside
  <1>5. OneOwner'
    BY DEF CameraType, HolderIsInside, CallHolds, OneOwner, Places, Inside, Marks
  <1> QED
    BY <1>1, <1>2, <1>3, <1>4, <1>5

\* A frame comes, or none.
LEMMA CameraGets == ASSUME CameraInv, NEW s \in CameraScripts, D!Gets(s) PROVE CameraInv'
  <1> USE CameraAssumption DEF CameraInv
  <1> USE DEF D!Gets, D!Borrows, D!Encodes, D!Fails, D!Closes, D!Fault, D!NoFault,
                 D!Goes, D!Holds, D!Unlocks, D!device
  <1>1. CameraType'
    <2>1. ASSUME NEW b \in queued, D!Borrows(s, b) PROVE CameraType'
      BY <2>1 DEF CameraType, Places
    <2>2. ASSUME NEW b \in queued, D!Encodes(s, b) PROVE CameraType'
      BY <2>2 DEF CameraType, Places, Inside, Marks
    <2>3. CASE UNCHANGED <<D!device, buffer, frames>>
      BY <2>3 DEF CameraType, Places
    <2>4. CASE D!Fails(s) /\ UNCHANGED <<buffer, frames>>
      BY <2>4 DEF CameraType, Places
    <2> QED
      BY <2>1, <2>2, <2>3, <2>4
  <1>2. HolderIsInside'
    BY DEF CameraType, HolderIsInside, Inside
  <1>3. CallHolds'
    BY DEF CameraType, HolderIsInside, CallHolds, DriverHasTheOthers, Places, Inside
  <1>4. DriverHasTheOthers'
    BY DEF CameraType, HolderIsInside, CallHolds, DriverHasTheOthers, Places, Inside
  <1>5. OneOwner'
    BY FramesAreKnown DEF CameraType, HolderIsInside, CallHolds, OneOwner, Places,
                             Inside, Marks
  <1> QED
    BY <1>1, <1>2, <1>3, <1>4, <1>5

\* The encoded frame goes back.
LEMMA CameraGivesBack == ASSUME CameraInv, NEW s \in CameraScripts, D!GivesBack(s) PROVE CameraInv'
  <1> USE CameraAssumption DEF CameraInv
  <1> USE DEF D!GivesBack, D!Fails, D!Closes, D!Fault, D!NoFault, D!Goes, D!Holds,
                 D!Unlocks, D!device
  <1>1. CameraType'
    BY ZenonT(60) DEF CameraType, HolderIsInside, CallHolds, Places, Inside, Marks
  <1>2. HolderIsInside'
    BY DEF CameraType, HolderIsInside, Inside
  <1>3. CallHolds'
    BY DEF CameraType, HolderIsInside, CallHolds, DriverHasTheOthers, Places, Inside
  <1>4. DriverHasTheOthers'
    BY DEF CameraType, HolderIsInside, CallHolds, DriverHasTheOthers, Places, Inside
  <1>5. OneOwner'
    BY FramesAreKnown DEF CameraType, HolderIsInside, CallHolds, OneOwner, Places,
                             Inside, Marks
  <1> QED
    BY <1>1, <1>2, <1>3, <1>4, <1>5

\* The picture is written.
LEMMA CameraWrites == ASSUME CameraInv, NEW s \in CameraScripts, D!Writes(s) PROVE CameraInv'
  <1> USE CameraAssumption DEF CameraInv
  <1> USE DEF D!Writes, D!Goes, D!device
  <1>1. CameraType'
    BY DEF CameraType, HolderIsInside, CallHolds, Places, Inside, Marks
  <1>2. HolderIsInside'
    BY DEF CameraType, HolderIsInside, Inside
  <1>3. CallHolds'
    BY DEF CameraType, HolderIsInside, CallHolds, DriverHasTheOthers, Places, Inside
  <1>4. DriverHasTheOthers'
    BY DEF CameraType, HolderIsInside, CallHolds, DriverHasTheOthers, Places, Inside
  <1>5. OneOwner'
    BY DEF CameraType, HolderIsInside, CallHolds, OneOwner, Places, Inside, Marks
  <1> QED
    BY <1>1, <1>2, <1>3, <1>4, <1>5

\* camera_release_frame
LEMMA CameraReleases == ASSUME CameraInv, NEW s \in CameraScripts, D!Releases(s) PROVE CameraInv'
  <1> USE CameraAssumption DEF CameraInv
  <1> USE DEF D!Releases, D!IsOut, D!Fault, D!Goes, D!Holds, D!Unlocks, D!device
  <1>1. CameraType'
    BY DEF CameraType, HolderIsInside, CallHolds, Places, Inside, Marks
  <1>2. HolderIsInside'
    BY DEF CameraType, HolderIsInside, Inside
  <1>3. CallHolds'
    BY DEF CameraType, HolderIsInside, CallHolds, DriverHasTheOthers, Places, Inside
  <1>4. DriverHasTheOthers'
    BY DEF CameraType, HolderIsInside, CallHolds, DriverHasTheOthers, Places, Inside
  <1>5. OneOwner'
    <2>1. \A u \in CameraScripts : frames'[u] = IF u = s THEN frames[s] \ {buffer[s]} ELSE frames[u]
      BY DEF CameraType
    <2>2. buffer[s] \in frames[s]
      BY DEF CallHolds, CameraType
    <2>3. CASE D!IsOut(buffer[s]) /\ borrowed' = None
      <3>1. ~strayed' => ~strayed
        BY Zenon
      <3> QED
        BY <3>1, <2>1, <2>2, <2>3 DEF OneOwner, CameraType
    <2>4. CASE ~D!IsOut(buffer[s]) /\ UNCHANGED <<borrowed, strayed>>
      BY <2>1, <2>2, <2>4 DEF OneOwner, CameraType
    <2> QED
      BY <2>3, <2>4
  <1> QED
    BY <1>1, <1>2, <1>3, <1>4, <1>5

\* camera_free_buffer
LEMMA CameraFrees == ASSUME CameraInv, NEW s \in CameraScripts, D!Frees(s) PROVE CameraInv'
  <1> USE CameraAssumption DEF CameraInv
  <1> USE DEF D!Frees, D!IsOut, D!Goes, D!Holds, D!Unlocks, D!device
  <1>1. CameraType'
    BY DEF CameraType, HolderIsInside, CallHolds, Places, Inside, Marks
  <1>2. HolderIsInside'
    BY DEF CameraType, HolderIsInside, Inside
  <1>3. CallHolds'
    BY DEF CameraType, HolderIsInside, CallHolds, DriverHasTheOthers, Places, Inside
  <1>4. DriverHasTheOthers'
    BY DEF CameraType, HolderIsInside, CallHolds, DriverHasTheOthers, Places, Inside
  <1>5. OneOwner'
    BY DEF CameraType, HolderIsInside, CallHolds, OneOwner, Places, Inside, Marks
  <1> QED
    BY <1>1, <1>2, <1>3, <1>4, <1>5

\* camera_close_locked
LEMMA CameraClose == ASSUME CameraInv, NEW s \in CameraScripts, D!Close(s) PROVE CameraInv'
  <1> USE CameraAssumption DEF CameraInv
  <1> USE DEF D!Close, D!Closes, D!Goes, D!Holds, D!Unlocks, D!device
  <1>1. CameraType'
    BY DEF CameraType, HolderIsInside, CallHolds, Places, Inside, Marks
  <1>2. HolderIsInside'
    BY DEF CameraType, HolderIsInside, Inside
  <1>3. CallHolds'
    BY DEF CameraType, HolderIsInside, CallHolds, DriverHasTheOthers, Places, Inside
  <1>4. DriverHasTheOthers'
    BY DEF CameraType, HolderIsInside, CallHolds, DriverHasTheOthers, Places, Inside
  <1>5. OneOwner'
    BY FramesAreKnown DEF CameraType, HolderIsInside, CallHolds, OneOwner, Places,
                             Inside, Marks
  <1> QED
    BY <1>1, <1>2, <1>3, <1>4, <1>5

\* No buffer is lost between driver, capture and frame object, and the frame that is out
\* has one owner, whichever scripts take pictures and whatever fails.
THEOREM CameraHolds == D!Spec => [](D!BuffersGoRound /\ D!FrameHasOwner)
  <1>1. D!Init => CameraInv
    BY CameraInit
  <1>2. CameraInv /\ [D!Next]_(D!cvars) => CameraInv'
    <2> SUFFICES ASSUME CameraInv, [D!Next]_(D!cvars) PROVE CameraInv'
      OBVIOUS
    <2>1. CASE UNCHANGED D!cvars
      BY <2>1 DEF D!cvars, CameraInv, CameraType, HolderIsInside, CallHolds, DriverHasTheOthers,
         OneOwner
    <2>2. CASE D!Next
      BY <2>2, CameraCalls, CameraDrops, CameraTake, CameraGivesUp, CameraOpen, CameraSettles,
         CameraAsks, CameraGets, CameraGivesBack, CameraWrites, CameraReleases, CameraFrees,
         CameraClose DEF D!Next, D!Works
    <2> QED
      BY <2>1, <2>2
  <1>3. CameraInv => D!BuffersGoRound /\ D!FrameHasOwner
    BY OwnerOfFrame
  <1> QED
    BY <1>1, <1>2, <1>3, PTL DEF D!Spec

LEMMA CameraRuns == TasksSafe => D!Spec
  <1>1. TasksInit => D!Init
    BY DEF TasksInit
  <1>2. [TasksNext]_tasksVars => [D!Next]_(D!cvars)
    BY DEF TasksNext, Is, tasksVars, cameraVars, D!cvars
  <1> QED
    BY <1>1, <1>2, PTL DEF TasksSafe, D!Spec

-----------------------------------------------------------------------------
(* The specification of the run.                                              *)

\* Of the setup sessions and the capabilities: no worker outlives its session unless a
\* stop timed out, and a group that is unloaded has no call under way.
THEOREM NothingRunsOn == TasksSpec => []StoppedIsStopped
  <1>1. F!StoppedIsStopped /\ C!UnloadedHasNoCalls => StoppedIsStopped
    BY DEF StoppedIsStopped
  <1> QED
    BY <1>1, FlowHolds, FlowRuns, CapsHold, CapsRun, PTL DEF TasksSpec

\* Of the chats: what is answered to be sent can be read, whole and in order, and on
\* Feishu nothing follows a piece that is missing.
THEOREM SentCanBeRead == TasksSpec => []SentIsThere
  <1>1. M!SentIsThere /\ M!NoGaps => SentIsThere
    BY DEF SentIsThere
  <1> QED
    BY <1>1, SendsHold, SendsRun, PTL DEF TasksSpec

\* Of buttons and camera: a press runs the function registered for it, the three tables
\* agree, no buffer is lost and the frame that is out has one owner.
THEOREM DevicesAreKept == TasksSpec => []DevicesHold
  <1>1. (B!RightFunction /\ B!TablesAgree) /\ (D!BuffersGoRound /\ D!FrameHasOwner)
           => DevicesHold
    BY DEF DevicesHold
  <1> QED
    BY <1>1, ButtonsHold, ButtonRuns, CameraHolds, CameraRuns, PTL DEF TasksSpec
=============================================================================
