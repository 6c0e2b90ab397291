---------------------------- MODULE LuaAsyncProofs ----------------------------
(***************************************************************************)
(* Proofs about LuaAsync for any number of callers, requests and slots and *)
(* all bounds.  What makes the safety properties inductive is who knows a  *)
(* job by its slot (Knows), and that a job that runs or is about to run    *)
(* (Owns) has its record in that slot.                                     *)
(***************************************************************************)
EXTENDS LuaAsync, FiniteSetTheorems, WellFoundedInduction, TLAPS

\* A slot, a task or a caller says that job id is, or was, in slot s.
CallerKnows(c, id, s) ==
    \/ work[c].id = id /\ work[c].slot = s /\ id # 0
    \/ <<s, id>> \in work[c].todo
Knows(id, s) ==
    \/ jobs[s].used /\ jobs[s].id = id
    \/ id \in DOMAIN tasks /\ tasks[id].slot = s
    \/ \E c \in Callers : CallerKnows(c, id, s)

\* The script of job id runs on slot s, or its submitter is about to start it.
Owns(id, s) ==
    \/ id \in Live /\ tasks[id].slot = s
    \/ \E c \in Callers : at[c] = "spawn" /\ work[c].id = id /\ work[c].slot = s

\* Places at which a caller names a job.
Naming == {"spawn", "mark", "settle", "stop", "check", "wait", "recheck"}

\* Whoever names a job knows it.
NamesKnown == \A c \in Callers : at[c] \in Naming => work[c].id # 0

\* A job has been submitted, and never moves to another slot.
OneSlotEach ==
    /\ \A s \in Slots, id \in JobIds \cup {0} : Knows(id, s) => id \in 1 .. submits
    /\ \A s, t \in Slots, id \in JobIds : Knows(id, s) /\ Knows(id, t) => s = t

\* A job is started once, by one submitter.
StartedOnce ==
    \A c \in Callers : at[c] = "spawn" =>
        /\ work[c].id \notin DOMAIN tasks
        /\ \A d \in Callers : at[d] = "spawn" /\ work[d].id = work[c].id => d = c

\* An owner's slot holds its record, which is not terminal; its flag is set, and
\* its end told to a caller, only for a reason.
OwnersHold ==
    \A s \in Slots, id \in JobIds : Owns(id, s) =>
        /\ jobs[s].id = id /\ Active(s)
        /\ jobs[s].stop => id \in asked
        /\ id \notin stopped

\* Owners share neither a name nor a group.
OwnersApart ==
    \A s, t \in Slots, i, j \in JobIds : Owns(i, s) /\ Owns(j, t) /\ i # j =>
        /\ jobs[s].name # None => jobs[s].name # jobs[t].name
        /\ jobs[s].exclusive # None => jobs[s].exclusive # jobs[t].exclusive

\* What was told or lost had been submitted, and what is lost does not run.
PastIsPast ==
    /\ submits <= MaxSubmits
    /\ stopped \subseteq 1 .. submits /\ lost \subseteq 1 .. submits
    /\ lost \cap Live = {} /\ lost \cap Starting = {}

IInv == /\ TypeOK /\ NamesKnown /\ OneSlotEach /\ StartedOnce
        /\ OwnersHold /\ OwnersApart /\ PastIsPast /\ CountIsExact
-----------------------------------------------------------------------------
(* The table's lookups.                                                      *)

\* A nonempty set of numbers has a least one.
LEMMA LeastExists ==
    ASSUME NEW S, S \subseteq Nat, S # {}
    PROVE  \E x \in S : \A y \in S : x <= y
  <1>1. \A x, y \in Nat : <<y, x>> \in OpToRel(<, Nat) <=> y < x
    BY DEF OpToRel
  <1>2. PICK R : R = OpToRel(<, Nat)
    OBVIOUS
  <1>3. IsWellFoundedOn(R, Nat)
    BY <1>2, NatLessThanWellFounded
  <1>4. PICK x \in S : \A y \in S : ~ (<<y, x>> \in R)
    BY <1>3, WFMin
  <1>5. \A y \in S : ~ (y < x)
    BY <1>1, <1>2, <1>4
  <1>6. \A y \in S : x <= y
    BY <1>5
  <1> QED BY <1>6

\* First picks a member, if there is one.
LEMMA FirstIsMember ==
    ASSUME NEW S, S \subseteq Slots
    PROVE  First(S) \subseteq S /\ (First(S) = {} <=> S = {})
  <1>0. S \subseteq Nat
    BY LuaAssumption, SMT DEF Slots
  <1>1. S # {} => \E x \in S : \A y \in S : x <= y
    BY <1>0, LeastExists
  <1>2. S # {} => Min(S) \in S
    BY <1>1 DEF Min
  <1> QED BY <1>2 DEF First

\* A conflict is an active slot.
LEMMA ConflictIsSlot ==
    ASSUME NEW r
    PROVE  Conflict(r) \subseteq {s \in Slots : Active(s)}
  <1>1. ByName(r.name) \subseteq {s \in Slots : Active(s)}
    BY FirstIsMember DEF ByName
  <1>2. ByGroup(r.exclusive) \subseteq {s \in Slots : Active(s)}
    BY FirstIsMember DEF ByGroup
  <1> QED BY <1>1, <1>2 DEF Conflict

\* Without a conflict no active slot has the request's name or group.
LEMMA NoConflict ==
    ASSUME NEW r, Conflict(r) = {}, NEW s \in Slots, Active(s)
    PROVE  /\ r.name # None => jobs[s].name # r.name
           /\ r.exclusive # None => jobs[s].exclusive # r.exclusive
  <1>1. ByName(r.name) = {} /\ ByGroup(r.exclusive) = {}
    BY DEF Conflict
  <1>2. {t \in Slots : r.name # None /\ Active(t) /\ jobs[t].name = r.name} = {}
    BY <1>1, FirstIsMember DEF ByName
  <1>3. {t \in Slots : r.exclusive # None /\ Active(t) /\ jobs[t].exclusive = r.exclusive}
          = {}
    BY <1>1, FirstIsMember DEF ByGroup
  <1> QED BY <1>2, <1>3

\* A slot that may be reused is free, or its job is over.
LEMMA ReusableIsSettled ==
    Reusable \subseteq {s \in Slots : Settled(s)}
  <1>1. First({s \in Slots : ~jobs[s].used}) \subseteq {s \in Slots : ~jobs[s].used}
    BY FirstIsMember
  <1> QED BY <1>1 DEF Reusable, Settled, Active

-----------------------------------------------------------------------------
(* Type correctness, one lemma for each group of actions.                    *)

LEMMA TypeInit == Init => TypeOK
  <1> SUFFICES ASSUME Init PROVE TypeOK
    OBVIOUS
  <1> USE LuaAssumption DEF Init, JobIds
  <1>1. 1 \in Slots
    BY DEF Slots
  <1>2. Cleared \in Job
    BY DEF Cleared, Job, Statuses
  <1>3. NoWork \in Work
    BY <1>1 DEF NoWork, Work
  <1>4. "idle" \in Places
    BY DEF Places
  <1> QED BY <1>2, <1>3, <1>4 DEF TypeOK

LEMMA NoWorkType ==
    /\ NoWork \in Work
    /\ \A r \in Requests : [NoWork EXCEPT !.op = "submit", !.req = r] \in Work
  <1>1. NoWork \in Work
    BY LuaAssumption DEF NoWork, Work, Slots, JobIds
  <1> QED BY <1>1 DEF Work

\* What a caller's step may do to its place and its locals.
CallerTypeOK == at \in [Callers -> Places] /\ work \in [Callers -> Work]

LEMMA LeaveType ==
    ASSUME TypeOK, NEW c \in Callers, Leave(c)
    PROVE  CallerTypeOK'
  BY NoWorkType DEF TypeOK, CallerTypeOK, Leave, Go, Places

LEMMA NextTargetType ==
    ASSUME TypeOK, NEW c \in Callers, NEW todo \in SUBSET (Slots \X JobIds),
           NextTarget(c, todo)
    PROVE  CallerTypeOK'
  <1>1. CASE todo = {}
    BY <1>1, LeaveType DEF NextTarget
  <1>2. CASE todo # {}
    <2>1. PICK t \in todo :
            /\ work' = [work EXCEPT ![c] = [NoWork EXCEPT !.op = "stop_all",
                          !.slot = t[1], !.id = t[2], !.todo = todo \ {t}]]
            /\ Go(c, "stop")
      BY <1>2 DEF NextTarget
    <2>2. t[1] \in Slots /\ t[2] \in JobIds
      OBVIOUS
    <2>3. [NoWork EXCEPT !.op = "stop_all", !.slot = t[1], !.id = t[2],
                         !.todo = todo \ {t}] \in Work
      BY <2>2, NoWorkType DEF Work
    <2> QED BY <2>1, <2>3 DEF TypeOK, CallerTypeOK, Go, Places
  <1> QED BY <1>1, <1>2

LEMMA GoOnType ==
    ASSUME TypeOK, NEW c \in Callers, NEW intime \in BOOLEAN, GoOn(c, intime)
    PROVE  CallerTypeOK'
  <1>1. work[c].todo \in SUBSET (Slots \X JobIds)
    BY DEF TypeOK, Work
  <1>2. NextTarget(c, work[c].todo) => CallerTypeOK'
    BY <1>1, NextTargetType
  <1>3. Go(c, "preflight") /\ UNCHANGED work => CallerTypeOK'
    BY DEF Go, CallerTypeOK, TypeOK, Places
  <1> QED BY <1>2, <1>3, LeaveType DEF GoOn

-----------------------------------------------------------------------------
\* What becomes of the variables that are not a caller's.
TableTypeOK ==
    /\ jobs \in [Slots -> Job] /\ sem \in [Slots -> 0 .. 1]
    /\ DOMAIN tasks \subseteq JobIds
    /\ \A id \in DOMAIN tasks : tasks[id] \in [slot : Slots, at : {"run", "give"}]
CountTypeOK ==
    /\ submits \in Nat /\ stops \in Nat /\ misses \in Nat
    /\ asked \subseteq JobIds /\ stopped \subseteq JobIds /\ lost \subseteq JobIds

LEMMA SubmitType ==
    ASSUME TypeOK, NEW c \in Callers,
           \/ \E r \in Requests : Submit(c, r)
           \/ Preflight(c)
    PROVE  CallerTypeOK' /\ TableTypeOK' /\ CountTypeOK' /\ running' = running
  <1>1. TableTypeOK' /\ CountTypeOK' /\ running' = running
    BY DEF Submit, Preflight, TypeOK, TableTypeOK, CountTypeOK, counts, history
  <1>2. ASSUME NEW r \in Requests, Submit(c, r) PROVE CallerTypeOK'
    BY <1>2, NoWorkType DEF Submit, TypeOK, CallerTypeOK, Go, Places
  <1>3. ASSUME Preflight(c) PROVE CallerTypeOK'
    <2>1. CASE Go(c, "commit") /\ UNCHANGED work
      BY <2>1 DEF TypeOK, CallerTypeOK, Go, Places
    <2>2. CASE Leave(c)
      BY <2>2, LeaveType
    <2>3. ASSUME NEW s \in Conflict(work[c].req),
                 work' = [work EXCEPT ![c].slot = s, ![c].id = jobs[s].id],
                 Go(c, "stop")
          PROVE  CallerTypeOK'
      <3>1. s \in Slots
        BY <2>3, ConflictIsSlot
      <3>2. jobs[s].id \in JobIds \cup {0}
        BY <3>1 DEF TypeOK, Job
      <3>0. work[c] \in Work
        BY DEF TypeOK
      <3>3. [work[c] EXCEPT !.slot = s, !.id = jobs[s].id] \in Work
        BY <3>0, <3>1, <3>2 DEF Work
      <3>4. work' = [work EXCEPT ![c] = [work[c] EXCEPT !.slot = s, !.id = jobs[s].id]]
        BY <2>3 DEF TypeOK
      <3> QED BY <2>3, <3>3, <3>4 DEF TypeOK, CallerTypeOK, Go, Places
    <2> QED BY <1>3, <2>1, <2>2, <2>3 DEF Preflight
  <1> QED BY <1>1, <1>2, <1>3

LEMMA NewJobType ==
    ASSUME submits \in Nat, submits < MaxSubmits, NEW r \in Requests
    PROVE  NewJob(r) \in Job
  <1>1. submits + 1 \in JobIds
    BY LuaAssumption DEF JobIds
  <1>2. r.name \in Names \cup {None} /\ r.exclusive \in Groups \cup {None}
    BY LuaAssumption
  <1> QED BY <1>1, <1>2 DEF NewJob, Job, Statuses

LEMMA ClearedType == Cleared \in Job
  BY DEF Cleared, Job, Statuses

LEMMA CommitType ==
    ASSUME TypeOK, NEW c \in Callers, Commit(c)
    PROVE  CallerTypeOK' /\ TableTypeOK' /\ CountTypeOK' /\ running' \in Nat
  <1> USE DEF TypeOK
  <1>0. work[c].req \in Requests
    BY DEF Work
  <1>1. \A s \in Reusable : s \in Slots
    BY ReusableIsSettled
  <1>2. /\ TableTypeOK' <=> jobs' \in [Slots -> Job] /\ sem' \in [Slots -> 0 .. 1]
        /\ CountTypeOK' <=> submits' \in Nat
    BY DEF Commit, TableTypeOK, CountTypeOK, history
  <1>3. CASE /\ submits < MaxSubmits
             /\ \E s \in Reusable :
                   /\ jobs' = [jobs EXCEPT ![s] = NewJob(work[c].req)]
                   /\ sem' = [sem EXCEPT ![s] = 0]
                   /\ work' = [work EXCEPT ![c] = [NoWork EXCEPT !.op = "submit",
                                                    !.slot = s, !.id = submits + 1]]
             /\ running' = running + 1 /\ submits' = submits + 1
             /\ Go(c, "spawn")
    <2>1. PICK s \in Reusable :
             /\ jobs' = [jobs EXCEPT ![s] = NewJob(work[c].req)]
             /\ sem' = [sem EXCEPT ![s] = 0]
             /\ work' = [work EXCEPT ![c] = [NoWork EXCEPT !.op = "submit",
                                              !.slot = s, !.id = submits + 1]]
      BY <1>3
    <2>2. jobs' \in [Slots -> Job] /\ sem' \in [Slots -> 0 .. 1]
      BY <1>0, <1>1, <1>3, <2>1, NewJobType
    <2>3. submits + 1 \in JobIds
      BY <1>3, LuaAssumption DEF JobIds
    <2>4. [NoWork EXCEPT !.op = "submit", !.slot = s, !.id = submits + 1] \in Work
      BY <1>1, <2>3, NoWorkType DEF Work
    <2>5. CallerTypeOK'
      BY <1>3, <2>1, <2>4 DEF CallerTypeOK, Go, Places
    <2> QED BY <1>2, <1>3, <2>2, <2>5
  <1>4. CASE /\ work' = [work EXCEPT ![c].again = TRUE]
             /\ Go(c, "preflight") /\ UNCHANGED <<jobs, sem, running, submits>>
    <2>1. [work[c] EXCEPT !.again = TRUE] \in Work
      BY ZenonT(30) DEF Work
    <2>2. work' = [work EXCEPT ![c] = [work[c] EXCEPT !.again = TRUE]]
      BY <1>4
    <2> QED BY <1>2, <1>4, <2>1, <2>2 DEF CallerTypeOK, Go, Places
  <1>5. CASE /\ \E s \in Reusable :
                   jobs' = [jobs EXCEPT ![s] = Cleared] /\ sem' = [sem EXCEPT ![s] = 0]
             /\ Leave(c) /\ UNCHANGED <<running, submits>>
    BY <1>1, <1>2, <1>5, ClearedType, LeaveType
  <1>6. CASE Leave(c) /\ UNCHANGED <<jobs, sem, running, submits>>
    BY <1>2, <1>6, LeaveType
  <1> QED BY <1>3, <1>4, <1>5, <1>6 DEF Commit

LEMMA SpawnType ==
    ASSUME TypeOK, NamesKnown, NEW c \in Callers, Spawn(c) \/ Mark(c) \/ Settle(c)
    PROVE  CallerTypeOK' /\ TableTypeOK' /\ CountTypeOK' /\ running' = running
  <1> USE DEF TypeOK
  <1>0. work[c] \in Work
    OBVIOUS
  <1>1. CASE Spawn(c)
    <2>1. work[c].id \in JobIds /\ work[c].slot \in Slots
      BY <1>0, <1>1 DEF NamesKnown, Naming, Spawn, Work
    <2>2. TableTypeOK'
      BY <1>1, <2>1 DEF Spawn, TableTypeOK
    <2> QED BY <1>1, <2>2 DEF Spawn, CallerTypeOK, CountTypeOK, counts, history, Go, Places
  <1>2. CASE Mark(c)
    <2>1. work[c].slot \in Slots
      BY <1>0 DEF Work
    <2>2. [jobs[work[c].slot] EXCEPT !.status = "running"] \in Job
      BY <2>1 DEF Job, Statuses
    <2>3. jobs' \in [Slots -> Job] /\ misses' \in Nat
      BY <1>2, <2>1, <2>2 DEF Mark
    <2> QED BY <1>2, <2>3
        DEF Mark, CallerTypeOK, TableTypeOK, CountTypeOK, history, Go, Places
  <1>3. CASE Settle(c)
    <2>1. CallerTypeOK'
      <3>1. ASSUME Go(c, "check"), work' = [work EXCEPT ![c].op = "settle"]
            PROVE  CallerTypeOK'
        <4>1. [work[c] EXCEPT !.op = "settle"] \in Work
          BY <1>0 DEF Work
        <4>2. work' = [work EXCEPT ![c] = [work[c] EXCEPT !.op = "settle"]]
          BY <3>1
        <4> QED BY <3>1, <4>1, <4>2 DEF CallerTypeOK, Go, Places
      <3> QED BY <1>3, <3>1, LeaveType DEF Settle
    <2> QED BY <1>3, <2>1 DEF Settle, TableTypeOK, CountTypeOK, counts, history
  <1> QED BY <1>1, <1>2, <1>3

LEMMA SpawnFailsType ==
    ASSUME TypeOK, NamesKnown, NEW c \in Callers, SpawnFails(c)
    PROVE  /\ CallerTypeOK' /\ TableTypeOK' /\ CountTypeOK'
           /\ running' \in Nat
  <1> USE DEF TypeOK
  <1>1. work[c].slot \in Slots /\ work[c].id \in JobIds
    BY DEF SpawnFails, NamesKnown, Naming, Work
  <1>2. /\ jobs' \in [Slots -> Job] /\ misses' \in Nat /\ lost' \subseteq JobIds
        /\ running' \in Nat
    BY <1>1, ClearedType DEF SpawnFails, CountDown
  <1>3. CallerTypeOK'
    BY LeaveType DEF SpawnFails
  <1> QED BY <1>2, <1>3 DEF SpawnFails, TableTypeOK, CountTypeOK

LEMMA StopCallType ==
    ASSUME TypeOK, OneSlotEach, NEW c \in Callers,
           \/ \E s \in Slots : StopJob(c, s)
           \/ \E g \in Groups \cup {None} : StopAll(c, g)
    PROVE  CallerTypeOK' /\ TableTypeOK' /\ CountTypeOK' /\ running' = running
  <1> USE DEF TypeOK
  <1>0. /\ UNCHANGED <<jobs, sem, running, tasks, submits, misses, history>>
        /\ stops' = stops + 1
    BY DEF StopJob, StopAll
  <1>1. TableTypeOK' /\ CountTypeOK' /\ running' = running
    BY <1>0 DEF TableTypeOK, CountTypeOK, history
  <1>2. ASSUME NEW s \in Slots, StopJob(c, s) PROVE CallerTypeOK'
    <2>1. jobs[s].id \in JobIds \cup {0}
      BY DEF Job
    <2>2. [NoWork EXCEPT !.op = "stop", !.slot = s, !.id = jobs[s].id] \in Work
      BY <2>1, NoWorkType DEF Work
    <2> QED BY <1>2, <2>2 DEF StopJob, CallerTypeOK, Go, Places
  <1>3. ASSUME NEW g \in Groups \cup {None}, StopAll(c, g) PROVE CallerTypeOK'
    <2> DEFINE S == {x \in Slots : Active(x) /\ (g = None \/ jobs[x].exclusive = g)}
    <2>1. \A s \in S : s \in Slots /\ jobs[s].id \in JobIds
      <3>1. ASSUME NEW s \in S PROVE s \in Slots /\ jobs[s].id \in JobIds
        <4>1. Knows(jobs[s].id, s) /\ jobs[s].id \in JobIds \cup {0}
          BY DEF Knows, Active, Job
        <4> QED BY <4>1 DEF OneSlotEach
      <3> QED BY <3>1
    <2>2. {<<s, jobs[s].id>> : s \in S} \in SUBSET (Slots \X JobIds)
      BY <2>1
    <2> QED BY <1>3, <2>2, NextTargetType DEF StopAll
  <1> QED BY <1>1, <1>2, <1>3

LEMMA ToldType ==
    ASSUME TypeOK, NamesKnown, NEW c \in Callers, at[c] \in Naming
    PROVE  Told(c) \subseteq JobIds
  BY DEF TypeOK, NamesKnown, Told, Work

LEMMA WaitType ==
    ASSUME TypeOK, NamesKnown, NEW c \in Callers,
           StopSlot(c) \/ Check(c) \/ Wait(c) \/ Recheck(c) \/ MissMutex(c)
    PROVE  CallerTypeOK' /\ TableTypeOK' /\ CountTypeOK' /\ running' = running
  <1> USE DEF TypeOK
  <1>1. at[c] # "preflight" /\ at[c] # "settle" => Told(c) \subseteq JobIds
    BY ToldType DEF StopSlot, Check, Wait, Recheck, MissMutex, Naming
  <1>2. CASE StopSlot(c)
    <2>1. CallerTypeOK'
      BY <1>2, GoOnType DEF StopSlot, CallerTypeOK, Go, Places
    <2>2. work[c].slot \in Slots /\ work[c].id \in JobIds
      BY <1>2 DEF StopSlot, NamesKnown, Naming, Work
    <2>3. jobs[work[c].slot] \in Job
      BY <2>2
    <2>6. [jobs[work[c].slot] EXCEPT !.stop = TRUE] \in Job
      BY <2>3 DEF Job
    <2>4. Ask(work[c].slot) \in [Slots -> Job]
      BY <2>2, <2>6 DEF Ask
    <2>5. jobs' \in [Slots -> Job] /\ asked' \subseteq JobIds /\ stopped' \subseteq JobIds
      BY <1>1, <1>2, <2>2, <2>4 DEF StopSlot
    <2> QED BY <1>2, <2>1, <2>5 DEF StopSlot, TableTypeOK, CountTypeOK, counts
  <1>3. CASE Check(c)
    <2>1. CallerTypeOK'
      BY <1>3, GoOnType DEF Check, CallerTypeOK, Go, Places
    <2>2. stopped' \subseteq JobIds
      BY <1>1, <1>3 DEF Check
    <2> QED BY <1>3, <2>1, <2>2 DEF Check, TableTypeOK, CountTypeOK, counts
  <1>4. CASE Wait(c)
    <2>1. sem' \in [Slots -> 0 .. 1]
      BY <1>4 DEF Wait, Take
    <2> QED BY <1>4, <2>1
        DEF Wait, CallerTypeOK, TableTypeOK, CountTypeOK, counts, history, Go, Places
  <1>5. CASE Recheck(c)
    <2>1. CallerTypeOK'
      BY <1>5, GoOnType DEF Recheck
    <2>2. stopped' \subseteq JobIds
      BY <1>1, <1>5 DEF Recheck
    <2> QED BY <1>5, <2>1, <2>2 DEF Recheck, TableTypeOK, CountTypeOK, counts
  <1>6. CASE MissMutex(c)
    <2>1. CallerTypeOK'
      BY <1>6, GoOnType DEF MissMutex, CallerTypeOK, Go, Places
    <2>2. misses' \in Nat
      BY <1>6 DEF MissMutex
    <2> QED BY <1>6, <2>1, <2>2 DEF MissMutex, TableTypeOK, CountTypeOK, history
  <1> QED BY <1>2, <1>3, <1>4, <1>5, <1>6

\* A finish gives the slot a terminal status, or leaves it alone.
LEMMA FinishStatus ==
    ASSUME NEW id \in JobIds, Finish(id)
    PROVE  \/ jobs' = jobs
           \/ \E status \in Terminal :
                jobs' = [jobs EXCEPT ![tasks[id].slot].status = status]
  BY LuaAssumption DEF Finish, Terminal

LEMMA TaskType ==
    ASSUME TypeOK, NEW id \in JobIds, Finish(id) \/ FinishUnseen(id) \/ Give(id)
    PROVE  CallerTypeOK' /\ TableTypeOK' /\ CountTypeOK' /\ running' \in Nat
  <1> USE DEF TypeOK
  <1>1. id \in DOMAIN tasks /\ tasks[id] \in [slot : Slots, at : {"run", "give"}]
    BY DEF Finish, FinishUnseen, Give, Live
  <1>2. CASE Finish(id)
    <2>1. running' \in Nat
      BY <1>2 DEF Finish, CountDown
    <2>2. jobs' \in [Slots -> Job]
      <3>1. Terminal \subseteq Statuses
        BY DEF Statuses
      <3>2. ASSUME NEW status \in Statuses,
                   jobs' = [jobs EXCEPT ![tasks[id].slot].status = status]
            PROVE  jobs' \in [Slots -> Job]
        <4>1. jobs[tasks[id].slot] \in Job
          BY <1>1
        <4>2. [jobs[tasks[id].slot] EXCEPT !.status = status] \in Job
          BY <4>1 DEF Job
        <4> QED BY <1>1, <3>2, <4>2
      <3> QED BY <1>2, <3>1, <3>2, FinishStatus
    <2>3. /\ DOMAIN tasks' \subseteq JobIds
          /\ \A o \in DOMAIN tasks' : tasks'[o] \in [slot : Slots, at : {"run", "give"}]
      BY <1>1, <1>2 DEF Finish, Without
    <2> QED BY <1>2, <2>1, <2>2, <2>3
        DEF Finish, CallerTypeOK, TableTypeOK, CountTypeOK, counts, history
  <1>3. CASE FinishUnseen(id)
    BY <1>3 DEF FinishUnseen, Without, CallerTypeOK, TableTypeOK, CountTypeOK
  <1>4. CASE Give(id)
    BY <1>1, <1>4 DEF Give, Without, CallerTypeOK, TableTypeOK, CountTypeOK, counts, history
  <1> QED BY <1>2, <1>3, <1>4

-----------------------------------------------------------------------------
(* What a caller's step does to what callers know.                           *)

\* The step leaves the caller elsewhere than before a start, and tells it of no
\* job that nobody knew.
Quiet(c) ==
    /\ at'[c] # "spawn" /\ (at'[c] \in Naming => work'[c].id # 0)
    /\ \A d \in Callers \ {c} : at'[d] = at[d] /\ work'[d] = work[d]
    /\ \A s \in Slots, id \in JobIds \cup {0} : CallerKnows(c, id, s)' => Knows(id, s)

LEMMA LeaveQuiet ==
    ASSUME TypeOK, NEW c \in Callers, Leave(c)
    PROVE  Quiet(c)
  <1>1. at'[c] = "idle" /\ work'[c] = NoWork
    BY DEF TypeOK, Leave, Go
  <1>2. \A d \in Callers \ {c} : at'[d] = at[d] /\ work'[d] = work[d]
    BY DEF TypeOK, Leave, Go
  <1>3. \A s \in Slots, id \in JobIds \cup {0} : ~ CallerKnows(c, id, s)'
    BY <1>1 DEF CallerKnows, NoWork
  <1> QED BY <1>1, <1>2, <1>3 DEF Quiet, Naming

LEMMA StayQuiet ==
    ASSUME TypeOK, NamesKnown, NEW c \in Callers, NEW p, Go(c, p), p # "spawn",
           p \in Naming => at[c] \in Naming,
           \/ UNCHANGED work
           \/ work' = [work EXCEPT ![c].again = TRUE]
           \/ work' = [work EXCEPT ![c].op = "settle"]
    PROVE  Quiet(c)
  <1>1. at'[c] = p /\ \A d \in Callers \ {c} : at'[d] = at[d] /\ work'[d] = work[d]
    BY DEF TypeOK, Go
  <1>2. work'[c].id = work[c].id /\ work'[c].slot = work[c].slot /\ work'[c].todo = work[c].todo
    BY DEF TypeOK, Work
  <1>3. \A s \in Slots, id \in JobIds \cup {0} : CallerKnows(c, id, s)' => CallerKnows(c, id, s)
    BY <1>2 DEF CallerKnows
  <1> QED BY <1>1, <1>2, <1>3 DEF Quiet, Knows, NamesKnown

LEMMA NextTargetQuiet ==
    ASSUME TypeOK, NEW c \in Callers, NEW todo \in SUBSET (Slots \X JobIds),
           \A s \in Slots, id \in JobIds : <<s, id>> \in todo => Knows(id, s),
           NextTarget(c, todo)
    PROVE  Quiet(c)
  <1>1. CASE todo = {}
    BY <1>1, LeaveQuiet DEF NextTarget
  <1>2. CASE todo # {}
    <2>1. PICK t \in todo :
            /\ work' = [work EXCEPT ![c] = [NoWork EXCEPT !.op = "stop_all",
                          !.slot = t[1], !.id = t[2], !.todo = todo \ {t}]]
            /\ Go(c, "stop")
      BY <1>2 DEF NextTarget
    <2>2. t[1] \in Slots /\ t[2] \in JobIds /\ t = <<t[1], t[2]>>
      OBVIOUS
    <2>3. /\ work'[c].id = t[2] /\ work'[c].slot = t[1] /\ work'[c].todo = todo \ {t}
          /\ at'[c] = "stop"
          /\ \A d \in Callers \ {c} : at'[d] = at[d] /\ work'[d] = work[d]
      BY <2>1 DEF TypeOK, Go, NoWork
    <2>4. t[2] # 0
      BY <2>2, LuaAssumption DEF JobIds
    <2>5. ASSUME NEW s \in Slots, NEW id \in JobIds \cup {0}, CallerKnows(c, id, s)'
          PROVE  Knows(id, s)
      <3>1. <<s, id>> \in todo
        BY <2>2, <2>3, <2>5 DEF CallerKnows
      <3> QED BY <3>1
    <2> QED BY <2>3, <2>4, <2>5 DEF Quiet
  <1> QED BY <1>1, <1>2

LEMMA GoOnQuiet ==
    ASSUME TypeOK, NamesKnown, NEW c \in Callers, NEW intime \in BOOLEAN, GoOn(c, intime)
    PROVE  Quiet(c)
  <1>1. work[c].todo \in SUBSET (Slots \X JobIds)
    BY DEF TypeOK, Work
  <1>2. \A s \in Slots, id \in JobIds : <<s, id>> \in work[c].todo => Knows(id, s)
    BY DEF Knows, CallerKnows
  <1>3. NextTarget(c, work[c].todo) => Quiet(c)
    BY <1>1, <1>2, NextTargetQuiet
  <1>4. Go(c, "preflight") /\ UNCHANGED work => Quiet(c)
    BY StayQuiet DEF Naming
  <1> QED BY <1>3, <1>4, LeaveQuiet DEF GoOn

LEMMA SubmitQuiet ==
    ASSUME TypeOK, NamesKnown, OneSlotEach, NEW c \in Callers,
           \/ \E r \in Requests : Submit(c, r)
           \/ Preflight(c)
    PROVE  Quiet(c)
  <1>1. ASSUME NEW r \in Requests, Submit(c, r) PROVE Quiet(c)
    <2>1. /\ at'[c] = "preflight" /\ work'[c] = [NoWork EXCEPT !.op = "submit", !.req = r]
          /\ \A d \in Callers \ {c} : at'[d] = at[d] /\ work'[d] = work[d]
      BY <1>1 DEF TypeOK, Submit, Go
    <2>2. work'[c].id = 0 /\ work'[c].todo = {}
      BY <2>1 DEF NoWork
    <2>3. \A s \in Slots, id \in JobIds \cup {0} : ~ CallerKnows(c, id, s)'
      BY <2>2 DEF CallerKnows
    <2> QED BY <2>1, <2>3 DEF Quiet, Naming
  <1>2. CASE Go(c, "commit") /\ UNCHANGED work
    BY <1>2, StayQuiet DEF Naming
  <1>3. ASSUME NEW s \in Conflict(work[c].req),
               work' = [work EXCEPT ![c].slot = s, ![c].id = jobs[s].id],
               Go(c, "stop")
        PROVE  Quiet(c)
    <2>1. s \in Slots /\ jobs[s].used
      BY ConflictIsSlot DEF Active
    <2>2. jobs[s].id \in JobIds \cup {0} /\ Knows(jobs[s].id, s)
      BY <2>1 DEF TypeOK, Job, Knows
    <2>3. jobs[s].id # 0
      BY <2>1, <2>2 DEF OneSlotEach, TypeOK
    <2>4. work[c] \in Work
      BY DEF TypeOK
    <2>5. /\ work'[c] = [work[c] EXCEPT !.slot = s, !.id = jobs[s].id]
          /\ at'[c] = "stop"
          /\ \A d \in Callers \ {c} : at'[d] = at[d] /\ work'[d] = work[d]
      BY <1>3 DEF TypeOK, Go
    <2>6. work'[c].id = jobs[s].id /\ work'[c].slot = s /\ work'[c].todo = work[c].todo
      BY <2>4, <2>5 DEF Work
    <2>7. ASSUME NEW t \in Slots, NEW id \in JobIds \cup {0}, CallerKnows(c, id, t)'
          PROVE  Knows(id, t)
      BY <2>2, <2>6, <2>7 DEF CallerKnows, Knows
    <2> QED BY <2>3, <2>5, <2>6, <2>7 DEF Quiet
  <1>4. ASSUME Preflight(c) PROVE Quiet(c)
    BY <1>2, <1>3, <1>4, LeaveQuiet DEF Preflight
  <1> QED BY <1>1, <1>4

LEMMA RunQuiet ==
    ASSUME TypeOK, NamesKnown, NEW c \in Callers,
           Spawn(c) \/ SpawnFails(c) \/ Mark(c) \/ Settle(c)
    PROVE  Quiet(c)
  <1>1. CASE Spawn(c)
    BY <1>1, StayQuiet DEF Spawn, Naming
  <1>2. CASE SpawnFails(c)
    BY <1>2, LeaveQuiet DEF SpawnFails
  <1>3. CASE Mark(c)
    BY <1>3, StayQuiet DEF Mark, Naming
  <1>4. CASE Settle(c)
    BY <1>4, StayQuiet, LeaveQuiet DEF Settle, Naming
  <1> QED BY <1>1, <1>2, <1>3, <1>4

LEMMA StopCallQuiet ==
    ASSUME TypeOK, OneSlotEach, NEW c \in Callers,
           \/ \E s \in Slots : StopJob(c, s)
           \/ \E g \in Groups \cup {None} : StopAll(c, g)
    PROVE  Quiet(c)
  <1>0. ASSUME NEW s \in Slots, jobs[s].used
        PROVE  jobs[s].id \in JobIds /\ Knows(jobs[s].id, s)
    <2>1. Knows(jobs[s].id, s) /\ jobs[s].id \in JobIds \cup {0}
      BY <1>0 DEF Knows, TypeOK, Job
    <2> QED BY <2>1 DEF OneSlotEach
  <1>1. ASSUME NEW s \in Slots, StopJob(c, s) PROVE Quiet(c)
    <2>1. jobs[s].id \in JobIds /\ Knows(jobs[s].id, s)
      BY <1>0, <1>1 DEF StopJob
    <2>2. /\ work'[c] = [NoWork EXCEPT !.op = "stop", !.slot = s, !.id = jobs[s].id]
          /\ at'[c] = "stop"
          /\ \A d \in Callers \ {c} : at'[d] = at[d] /\ work'[d] = work[d]
      BY <1>1 DEF TypeOK, StopJob, Go
    <2>3. work'[c].id = jobs[s].id /\ work'[c].slot = s /\ work'[c].todo = {}
      BY <2>2 DEF NoWork
    <2>4. jobs[s].id # 0
      BY <2>1, LuaAssumption DEF JobIds
    <2>5. ASSUME NEW t \in Slots, NEW id \in JobIds \cup {0}, CallerKnows(c, id, t)'
          PROVE  Knows(id, t)
      BY <2>1, <2>3, <2>5 DEF CallerKnows
    <2> QED BY <2>2, <2>3, <2>4, <2>5 DEF Quiet
  <1>2. ASSUME NEW g \in Groups \cup {None}, StopAll(c, g) PROVE Quiet(c)
    <2> DEFINE S == {x \in Slots : Active(x) /\ (g = None \/ jobs[x].exclusive = g)}
               T == {<<s, jobs[s].id>> : s \in S}
    <2>1. \A s \in S : s \in Slots /\ jobs[s].id \in JobIds /\ Knows(jobs[s].id, s)
      BY <1>0 DEF Active
    <2>2. T \in SUBSET (Slots \X JobIds)
      BY <2>1
    <2>3. \A s \in Slots, id \in JobIds : <<s, id>> \in T => Knows(id, s)
      BY <2>1
    <2>4. NextTarget(c, T)
      BY <1>2 DEF StopAll
    <2> HIDE DEF T
    <2> QED BY <2>2, <2>3, <2>4, NextTargetQuiet
  <1> QED BY <1>1, <1>2

LEMMA WaitQuiet ==
    ASSUME TypeOK, NamesKnown, NEW c \in Callers,
           StopSlot(c) \/ Check(c) \/ Wait(c) \/ Recheck(c) \/ MissMutex(c)
    PROVE  Quiet(c)
  <1>1. CASE StopSlot(c)
    BY <1>1, StayQuiet, GoOnQuiet DEF StopSlot, Naming
  <1>2. CASE Check(c)
    BY <1>2, StayQuiet, GoOnQuiet DEF Check, Naming
  <1>3. CASE Wait(c)
    BY <1>3, StayQuiet DEF Wait, Naming
  <1>4. CASE Recheck(c)
    BY <1>4, GoOnQuiet DEF Recheck
  <1>5. CASE MissMutex(c)
    BY <1>5, StayQuiet, GoOnQuiet DEF MissMutex, Naming
  <1> QED BY <1>1, <1>2, <1>3, <1>4, <1>5

-----------------------------------------------------------------------------
(* A step other than a commit says nothing new of a job's slot.              *)

\* The steps of callers, and those of tasks.
CallerStep(c) ==
    \/ \E r \in Requests : Submit(c, r)
    \/ \E s \in Slots : StopJob(c, s)
    \/ \E g \in Groups \cup {None} : StopAll(c, g)
    \/ Step(c) \/ MissMutex(c)
TaskStep(id) == Finish(id) \/ FinishUnseen(id) \/ Give(id)

\* The way through Commit that commits a job.
Committed(c, s) ==
    LET r == work[c].req
    IN  /\ at[c] = "commit" /\ Clear(r) /\ submits < MaxSubmits /\ s \in Reusable
        /\ jobs' = [jobs EXCEPT ![s] = NewJob(r)]
        /\ work' = [work EXCEPT ![c] = [NoWork EXCEPT !.op = "submit",
                                         !.slot = s, !.id = submits + 1]]
        /\ running' = running + 1 /\ submits' = submits + 1
        /\ Go(c, "spawn")
        /\ UNCHANGED <<tasks, history>>

\* The other ways through Commit.
NotCommitted(c) ==
    /\ at[c] = "commit"
    /\ \/ UNCHANGED jobs
       \/ \E s \in Reusable : jobs' = [jobs EXCEPT ![s] = Cleared]
    /\ \/ Leave(c)
       \/ Go(c, "preflight") /\ work' = [work EXCEPT ![c].again = TRUE]
    /\ UNCHANGED <<tasks, running, submits, history>>

LEMMA CommitSplit ==
    ASSUME NEW c \in Callers, Commit(c)
    PROVE  (\E s \in Slots : Committed(c, s)) \/ NotCommitted(c)
  BY ReusableIsSettled DEF Commit, Committed, NotCommitted

LEMMA NotCommittedQuiet ==
    ASSUME TypeOK, NamesKnown, NEW c \in Callers, NotCommitted(c)
    PROVE  Quiet(c)
  BY StayQuiet, LeaveQuiet DEF NotCommitted, Naming

NothingNew ==
    /\ submits' = submits
    /\ \A s \in Slots, id \in JobIds \cup {0} : Knows(id, s)' => Knows(id, s)

LEMMA QuietNothingNew ==
    ASSUME TypeOK, NEW c \in Callers, Quiet(c), submits' = submits,
           \A s \in Slots, id \in JobIds \cup {0} :
               /\ jobs'[s].used /\ jobs'[s].id = id => Knows(id, s)
               /\ id \in DOMAIN tasks' /\ tasks'[id].slot = s => Knows(id, s)
    PROVE  NothingNew
  <1> SUFFICES ASSUME NEW s \in Slots, NEW id \in JobIds \cup {0}, Knows(id, s)'
               PROVE  Knows(id, s)
    BY DEF NothingNew
  <1>1. ASSUME NEW d \in Callers, CallerKnows(d, id, s)' PROVE Knows(id, s)
    <2>1. CASE d = c
      BY <1>1, <2>1 DEF Quiet
    <2>2. CASE d # c
      BY <1>1, <2>2 DEF Quiet, CallerKnows, Knows
    <2> QED BY <2>1, <2>2
  <1> QED BY <1>1 DEF Knows

LEMMA StepNothingNew ==
    ASSUME IInv, NEW c \in Callers, CallerStep(c), ~ \E s \in Slots : Committed(c, s)
    PROVE  Quiet(c) /\ NothingNew
  <1> USE DEF IInv
  <1>1. CASE (\E r \in Requests : Submit(c, r)) \/ Preflight(c)
    <2>1. UNCHANGED <<jobs, tasks, submits>>
      BY <1>1 DEF Submit, Preflight, counts
    <2> QED BY <1>1, <2>1, SubmitQuiet, QuietNothingNew DEF Knows
  <1>2. CASE (\E s \in Slots : StopJob(c, s)) \/ (\E g \in Groups \cup {None} : StopAll(c, g))
    <2>1. UNCHANGED <<jobs, tasks, submits>>
      BY <1>2 DEF StopJob, StopAll
    <2> QED BY <1>2, <2>1, StopCallQuiet, QuietNothingNew DEF Knows
  <1>3. CASE Commit(c)
    <2>1. NotCommitted(c)
      BY <1>3, CommitSplit
    <2>2. \A s \in Slots, id \in JobIds \cup {0} :
               /\ jobs'[s].used /\ jobs'[s].id = id => Knows(id, s)
               /\ id \in DOMAIN tasks' /\ tasks'[id].slot = s => Knows(id, s)
      BY <2>1 DEF NotCommitted, Knows, Cleared, TypeOK
    <2> QED BY <2>1, <2>2, NotCommittedQuiet, QuietNothingNew DEF NotCommitted
  <1>4. CASE Spawn(c)
    <2>1. \A s \in Slots, id \in JobIds \cup {0} :
               /\ jobs'[s].used /\ jobs'[s].id = id => Knows(id, s)
               /\ id \in DOMAIN tasks' /\ tasks'[id].slot = s => Knows(id, s)
      BY <1>4 DEF Spawn, Knows, CallerKnows, NamesKnown, Naming
    <2> QED BY <1>4, <2>1, RunQuiet, QuietNothingNew DEF Spawn, counts
  <1>5. CASE SpawnFails(c) \/ Mark(c) \/ Settle(c)
    <2>1. \A s \in Slots : jobs'[s].used => jobs[s].used /\ jobs'[s].id = jobs[s].id
      BY <1>5 DEF SpawnFails, Mark, Settle, Cleared, TypeOK, Job
    <2>2. UNCHANGED <<tasks, submits>>
      BY <1>5 DEF SpawnFails, Mark, Settle, counts
    <2> QED BY <1>5, <2>1, <2>2, RunQuiet, QuietNothingNew DEF Knows
  <1>6. CASE StopSlot(c) \/ Check(c) \/ Wait(c) \/ Recheck(c) \/ MissMutex(c)
    <2>0. jobs' = jobs \/ jobs' = Ask(work[c].slot)
      BY <1>6 DEF StopSlot, Check, Wait, Recheck, MissMutex
    <2>1. \A s \in Slots : jobs'[s].used = jobs[s].used /\ jobs'[s].id = jobs[s].id
      BY <2>0 DEF Ask, TypeOK, Job
    <2>2. UNCHANGED <<tasks, submits>>
      BY <1>6 DEF StopSlot, Check, Wait, Recheck, MissMutex, counts
    <2> QED BY <1>6, <2>1, <2>2, WaitQuiet, QuietNothingNew DEF Knows
  <1> QED BY <1>1, <1>2, <1>3, <1>4, <1>5, <1>6 DEF CallerStep, Step

LEMMA TaskNothingNew ==
    ASSUME TypeOK, NEW id \in JobIds, TaskStep(id)
    PROVE  NothingNew /\ UNCHANGED <<at, work>>
  <1>1. UNCHANGED <<at, work, submits>>
    BY DEF TaskStep, Finish, FinishUnseen, Give, counts
  <1>2. id \in DOMAIN tasks /\ tasks[id].slot \in Slots
    BY DEF TaskStep, Finish, FinishUnseen, Give, Live, TypeOK
  <1>3. \A s \in Slots : jobs'[s].used = jobs[s].used /\ jobs'[s].id = jobs[s].id
    <2>1. ASSUME NEW status \in Terminal,
                 jobs' = [jobs EXCEPT ![tasks[id].slot].status = status]
          PROVE  \A s \in Slots : jobs'[s].used = jobs[s].used /\ jobs'[s].id = jobs[s].id
      BY <1>2, <2>1 DEF TypeOK, Job
    <2>2. CASE jobs' = jobs
      BY <2>2
    <2> QED BY <2>1, <2>2, FinishStatus DEF TaskStep, FinishUnseen, Give
  <1>4. \A o \in DOMAIN tasks' : o \in DOMAIN tasks /\ tasks'[o].slot = tasks[o].slot
    BY <1>2 DEF TaskStep, Finish, FinishUnseen, Give, Without, TypeOK
  <1> QED BY <1>1, <1>3, <1>4 DEF NothingNew, Knows, CallerKnows

\* A commit puts the new job, and nothing else, into its slot.
LEMMA CommittedKnows ==
    ASSUME TypeOK, NEW c \in Callers, NEW t \in Slots, Committed(c, t),
           NEW s \in Slots, NEW id \in JobIds \cup {0}, Knows(id, s)'
    PROVE  Knows(id, s) \/ (id = submits + 1 /\ s = t)
  <1>1. CASE jobs'[s].used /\ jobs'[s].id = id
    BY <1>1 DEF Committed, NewJob, TypeOK, Knows
  <1>2. CASE id \in DOMAIN tasks' /\ tasks'[id].slot = s
    BY <1>2 DEF Committed, Knows
  <1>3. ASSUME NEW d \in Callers, CallerKnows(d, id, s)'
        PROVE  Knows(id, s) \/ (id = submits + 1 /\ s = t)
    <2>1. CASE d = c
      <3>1. work'[c] = [NoWork EXCEPT !.op = "submit", !.slot = t, !.id = submits + 1]
        BY DEF Committed, TypeOK
      <3>2. work'[c].id = submits + 1 /\ work'[c].slot = t /\ work'[c].todo = {}
        BY <3>1 DEF NoWork
      <3> QED BY <1>3, <2>1, <3>2 DEF CallerKnows
    <2>2. CASE d # c
      BY <1>3, <2>2 DEF Committed, CallerKnows, Knows, TypeOK
    <2> QED BY <2>1, <2>2
  <1> QED BY <1>1, <1>2, <1>3 DEF Knows

LEMMA OneSlotKept ==
    ASSUME IInv,
           \/ NothingNew
           \/ \E c \in Callers, t \in Slots : Committed(c, t)
    PROVE  OneSlotEach'
  <1> USE DEF IInv
  <1>1. CASE NothingNew
    BY <1>1 DEF NothingNew, OneSlotEach
  <1>2. ASSUME NEW c \in Callers, NEW t \in Slots, Committed(c, t)
        PROVE  OneSlotEach'
    <2>1. submits \in Nat /\ submits' = submits + 1
      BY <1>2 DEF Committed, TypeOK
    <2>2. \A s \in Slots, id \in JobIds \cup {0} :
            Knows(id, s)' => Knows(id, s) \/ (id = submits + 1 /\ s = t)
      BY <1>2, CommittedKnows
    <2>3. \A s \in Slots : ~ Knows(submits + 1, s) \/ submits + 1 \notin JobIds
      BY <2>1 DEF OneSlotEach
    <2>4. ASSUME NEW s \in Slots, NEW id \in JobIds \cup {0}, Knows(id, s)'
          PROVE  id \in 1 .. submits'
      BY <2>1, <2>2, <2>4 DEF OneSlotEach
    <2>5. ASSUME NEW s \in Slots, NEW u \in Slots, NEW id \in JobIds,
                 Knows(id, s)', Knows(id, u)'
          PROVE  s = u
      BY <2>2, <2>3, <2>5 DEF OneSlotEach
    <2> QED BY <2>4, <2>5 DEF OneSlotEach
  <1> QED BY <1>1, <1>2

-----------------------------------------------------------------------------
(* A step other than a commit leaves every owner's record as it was, but     *)
(* for a flag that was asked for.                                            *)

OwnersKept ==
    /\ asked \subseteq asked'
    /\ \A s \in Slots, id \in JobIds : Owns(id, s)' =>
         /\ Owns(id, s)
         /\ jobs'[s].used = jobs[s].used /\ jobs'[s].id = jobs[s].id
         /\ jobs'[s].name = jobs[s].name /\ jobs'[s].exclusive = jobs[s].exclusive
         /\ jobs'[s].status \notin Terminal
         /\ jobs'[s].stop => jobs[s].stop \/ id \in asked'
         /\ id \notin stopped'

LEMMA OwnersKeptHold ==
    ASSUME IInv, OwnersKept
    PROVE  OwnersHold' /\ OwnersApart'
  <1>1. OwnersHold'
    BY DEF IInv, OwnersKept, OwnersHold, Active
  <1>2. OwnersApart'
    BY DEF IInv, OwnersKept, OwnersApart
  <1> QED BY <1>1, <1>2

\* An owner's slot is its own.
LEMMA OwnersSlot ==
    ASSUME IInv, NEW s \in Slots, NEW id \in JobIds, Owns(id, s)
    PROVE  /\ jobs[s].id = id /\ Active(s) /\ Knows(id, s)
           /\ \A t \in Slots : Knows(id, t) => t = s
  <1>1. jobs[s].id = id /\ Active(s)
    BY DEF IInv, OwnersHold
  <1>2. Knows(id, s)
    BY <1>1 DEF Active, Knows
  <1> QED BY <1>1, <1>2 DEF IInv, OneSlotEach

\* The scripts that are about to start, after a quiet step.
LEMMA QuietOwns ==
    ASSUME TypeOK, NEW c \in Callers, Quiet(c),
           NEW s \in Slots, NEW id \in JobIds, Owns(id, s)', at[c] # "spawn",
           \A o \in Live' : o \in Live /\ tasks'[o].slot = tasks[o].slot
    PROVE  Owns(id, s)
  <1>1. ASSUME NEW d \in Callers, (at[d] = "spawn" /\ work[d].id = id /\ work[d].slot = s)'
        PROVE  Owns(id, s)
    BY <1>1 DEF Quiet, Owns
  <1> QED BY <1>1 DEF Owns

\* What a caller is told is no owner.
LEMMA ToldIsOver ==
    ASSUME IInv, NEW c \in Callers, at[c] \in Naming, Settled(work[c].slot),
           NEW s \in Slots, NEW id \in JobIds, Owns(id, s)
    PROVE  id \notin Told(c)
  <1>1. id \notin stopped
    BY DEF IInv, OwnersHold
  <1>2. ASSUME id = work[c].id PROVE FALSE
    <2>1. work[c].slot \in Slots /\ id # 0
      BY <1>2 DEF IInv, TypeOK, Work, NamesKnown
    <2>2. Knows(id, work[c].slot)
      BY <1>2, <2>1 DEF Knows, CallerKnows
    <2>3. work[c].slot = s /\ Active(s)
      BY <2>1, <2>2, OwnersSlot
    <2> QED BY <2>3 DEF Settled
  <1> QED BY <1>1, <1>2 DEF Told

\* Steps that leave the table alone and tell nobody anything.
LEMMA OwnersKeptSame ==
    ASSUME IInv, NEW c \in Callers, Quiet(c), at[c] # "spawn",
           UNCHANGED <<jobs, tasks, asked, stopped>>
    PROVE  OwnersKept
  <1>1. ASSUME NEW s \in Slots, NEW id \in JobIds, Owns(id, s)' PROVE Owns(id, s)
    BY <1>1, QuietOwns DEF IInv, Live
  <1>2. ASSUME NEW s \in Slots, NEW id \in JobIds, Owns(id, s)
        PROVE  jobs[s].status \notin Terminal /\ id \notin stopped
    BY <1>2 DEF IInv, OwnersHold, Active
  <1> QED BY <1>1, <1>2 DEF OwnersKept

LEMMA NotCommittedOwners ==
    ASSUME IInv, NEW c \in Callers, NotCommitted(c)
    PROVE  OwnersKept
  <1>0. Quiet(c)
    BY NotCommittedQuiet DEF IInv
  <1> SUFFICES ASSUME NEW t \in Slots, Settled(t), jobs' = [jobs EXCEPT ![t] = Cleared]
               PROVE  OwnersKept
    BY <1>0, ReusableIsSettled, OwnersKeptSame DEF NotCommitted, history
  <1>1. ASSUME NEW s \in Slots, NEW id \in JobIds, Owns(id, s)'
        PROVE  Owns(id, s)
    BY <1>0, <1>1, QuietOwns DEF IInv, Live, NotCommitted
  <1>2. ASSUME NEW s \in Slots, NEW id \in JobIds, Owns(id, s)
        PROVE  jobs[s].status \notin Terminal /\ id \notin stopped /\ s # t
    BY <1>2 DEF IInv, OwnersHold, Active, Settled
  <1>3. UNCHANGED <<asked, stopped>> /\ jobs \in [Slots -> Job]
    BY DEF NotCommitted, history, IInv, TypeOK
  <1> QED BY <1>1, <1>2, <1>3 DEF OwnersKept

LEMMA SpawnOwners ==
    ASSUME IInv, NEW c \in Callers, Spawn(c)
    PROVE  OwnersKept
  <1>0. Quiet(c)
    BY RunQuiet DEF IInv
  <1>1. ASSUME NEW s \in Slots, NEW id \in JobIds, Owns(id, s)'
        PROVE  Owns(id, s)
    <2>1. ASSUME NEW d \in Callers, (at[d] = "spawn" /\ work[d].id = id /\ work[d].slot = s)'
          PROVE  Owns(id, s)
      BY <1>0, <2>1 DEF Quiet, Owns
    <2>2. ASSUME id \in Live', tasks'[id].slot = s PROVE Owns(id, s)
      BY <2>2 DEF Spawn, Live, Owns
    <2> QED BY <1>1, <2>1, <2>2 DEF Owns
  <1>2. ASSUME NEW s \in Slots, NEW id \in JobIds, Owns(id, s)
        PROVE  jobs[s].status \notin Terminal /\ id \notin stopped
    BY <1>2 DEF IInv, OwnersHold, Active
  <1> QED BY <1>1, <1>2 DEF Spawn, history, OwnersKept

LEMMA SpawnFailsOwners ==
    ASSUME IInv, NEW c \in Callers, SpawnFails(c)
    PROVE  OwnersKept
  <1>0. Quiet(c)
    BY RunQuiet DEF IInv
  <1>1. ASSUME NEW s \in Slots, NEW id \in JobIds, Owns(id, s)'
        PROVE  Owns(id, s) /\ id # work[c].id
    <2>1. ASSUME NEW d \in Callers, (at[d] = "spawn" /\ work[d].id = id /\ work[d].slot = s)'
          PROVE  Owns(id, s) /\ id # work[c].id
      BY <1>0, <2>1 DEF Quiet, Owns, IInv, StartedOnce, SpawnFails
    <2>2. ASSUME id \in Live', tasks'[id].slot = s PROVE Owns(id, s) /\ id # work[c].id
      BY <2>2 DEF SpawnFails, Live, Owns, IInv, StartedOnce
    <2> QED BY <1>1, <2>1, <2>2 DEF Owns
  <1>2. work[c].slot \in Slots /\ work[c].id \in JobIds
    BY DEF SpawnFails, IInv, TypeOK, NamesKnown, Naming, Work
  <1>3. jobs[work[c].slot].id = work[c].id
    <2>1. Owns(work[c].id, work[c].slot)
      BY DEF SpawnFails, Owns
    <2> QED BY <1>2, <2>1, OwnersSlot
  <1>4. ASSUME NEW s \in Slots, NEW id \in JobIds, Owns(id, s), id # work[c].id
        PROVE  jobs[s].status \notin Terminal /\ id \notin stopped /\ s # work[c].slot
    BY <1>3, <1>4 DEF IInv, OwnersHold, Active
  <1>5. \A s \in Slots : s # work[c].slot => jobs'[s] = jobs[s]
    BY DEF SpawnFails, IInv, TypeOK
  <1> QED BY <1>1, <1>4, <1>5 DEF SpawnFails, OwnersKept

LEMMA MarkOwners ==
    ASSUME IInv, NEW c \in Callers, Mark(c)
    PROVE  OwnersKept
  <1>0. Quiet(c)
    BY RunQuiet DEF IInv
  <1>1. ASSUME NEW s \in Slots, NEW id \in JobIds, Owns(id, s)' PROVE Owns(id, s)
    BY <1>0, <1>1, QuietOwns DEF IInv, Live, Mark
  <1>2. ASSUME NEW s \in Slots, NEW id \in JobIds, Owns(id, s)
        PROVE  jobs[s].status \notin Terminal /\ id \notin stopped
    BY <1>2 DEF IInv, OwnersHold, Active
  <1>3. ASSUME NEW s \in Slots
        PROVE  /\ jobs'[s].used = jobs[s].used /\ jobs'[s].id = jobs[s].id
               /\ jobs'[s].name = jobs[s].name /\ jobs'[s].exclusive = jobs[s].exclusive
               /\ jobs'[s].stop = jobs[s].stop
               /\ jobs'[s].status \in {jobs[s].status, "running"}
    BY DEF Mark, IInv, TypeOK, Job
  <1> QED BY <1>1, <1>2, <1>3 DEF Mark, history, OwnersKept, Terminal

LEMMA StopSlotOwners ==
    ASSUME IInv, NEW c \in Callers, StopSlot(c)
    PROVE  OwnersKept
  <1>0. Quiet(c)
    BY WaitQuiet DEF IInv
  <1>1. ASSUME NEW s \in Slots, NEW id \in JobIds, Owns(id, s)' PROVE Owns(id, s)
    BY <1>0, <1>1, QuietOwns DEF IInv, Live, StopSlot
  <1>2. ASSUME NEW s \in Slots, NEW id \in JobIds, Owns(id, s)
        PROVE  jobs[s].status \notin Terminal /\ id \notin stopped /\ jobs[s].id = id
    BY <1>2 DEF IInv, OwnersHold, Active
  <1>3. CASE SameJob(c) /\ jobs' = Ask(work[c].slot) /\ asked' = asked \cup {work[c].id}
             /\ stopped' = stopped
    <2>1. ASSUME NEW s \in Slots
          PROVE  /\ jobs'[s].used = jobs[s].used /\ jobs'[s].id = jobs[s].id
                 /\ jobs'[s].name = jobs[s].name /\ jobs'[s].exclusive = jobs[s].exclusive
                 /\ jobs'[s].status = jobs[s].status
                 /\ jobs'[s].stop => jobs[s].stop \/ s = work[c].slot
      BY <1>3 DEF Ask, IInv, TypeOK, Job
    <2> QED BY <1>1, <1>2, <1>3, <2>1 DEF OwnersKept, SameJob
  <1>4. CASE Settled(work[c].slot) /\ jobs' = jobs /\ asked' = asked /\ stopped' = Told(c)
    <2>1. ASSUME NEW s \in Slots, NEW id \in JobIds, Owns(id, s) PROVE id \notin Told(c)
      BY <2>1, <1>4, ToldIsOver DEF StopSlot, Naming
    <2> QED BY <1>1, <1>2, <1>4, <2>1 DEF OwnersKept
  <1>5. CASE UNCHANGED <<jobs, asked, stopped>>
    BY <1>1, <1>2, <1>5 DEF OwnersKept
  <1> QED BY <1>3, <1>4, <1>5 DEF StopSlot

LEMMA WaitOwners ==
    ASSUME IInv, NEW c \in Callers, Check(c) \/ Wait(c) \/ Recheck(c) \/ MissMutex(c)
    PROVE  OwnersKept
  <1>0. Quiet(c) /\ at[c] # "spawn" /\ UNCHANGED <<jobs, tasks, asked>>
    BY WaitQuiet DEF IInv, Check, Wait, Recheck, MissMutex, history
  <1>1. CASE stopped' = stopped
    BY <1>0, <1>1, OwnersKeptSame
  <1>2. CASE stopped' = Told(c) /\ Settled(work[c].slot) /\ at[c] \in Naming
    <2>1. ASSUME NEW s \in Slots, NEW id \in JobIds, Owns(id, s)' PROVE Owns(id, s)
      BY <1>0, <2>1, QuietOwns DEF IInv, Live
    <2>2. ASSUME NEW s \in Slots, NEW id \in JobIds, Owns(id, s)
          PROVE  jobs[s].status \notin Terminal /\ id \notin Told(c)
      BY <1>2, <2>2, ToldIsOver DEF IInv, OwnersHold, Active
    <2> QED BY <1>0, <1>2, <2>1, <2>2 DEF OwnersKept
  <1> QED BY <1>1, <1>2 DEF Check, Wait, Recheck, MissMutex, history, Naming

LEMMA StepOwners ==
    ASSUME IInv, NEW c \in Callers, CallerStep(c), ~ \E s \in Slots : Committed(c, s)
    PROVE  OwnersKept
  <1>1. Quiet(c)
    BY StepNothingNew
  <1>2. CASE \/ \E r \in Requests : Submit(c, r)
             \/ \E s \in Slots : StopJob(c, s)
             \/ \E g \in Groups \cup {None} : StopAll(c, g)
             \/ Preflight(c) \/ Settle(c)
    <2>1. UNCHANGED <<jobs, tasks, asked, stopped>> /\ at[c] # "spawn"
      BY <1>2 DEF Submit, StopJob, StopAll, Preflight, Settle, history
    <2> QED BY <1>1, <2>1, OwnersKeptSame
  <1>3. CASE Commit(c)
    BY <1>3, CommitSplit, NotCommittedOwners
  <1> QED BY <1>2, <1>3, SpawnOwners, SpawnFailsOwners, MarkOwners, StopSlotOwners,
             WaitOwners DEF CallerStep, Step

\* A script that ends owns nothing any more, and no other owner's slot changes.
LEMMA TaskOwners ==
    ASSUME IInv, NEW id \in JobIds, TaskStep(id)
    PROVE  OwnersKept
  <1>0. /\ UNCHANGED <<at, work, asked, stopped>>
        /\ id \in DOMAIN tasks /\ tasks[id].slot \in Slots /\ tasks[id].at \in {"run", "give"}
    BY DEF TaskStep, Finish, FinishUnseen, Give, Live, counts, history, IInv, TypeOK
  <1>1. ASSUME NEW o \in Live' PROVE o \in Live /\ o # id /\ tasks'[o].slot = tasks[o].slot
    BY <1>0, <1>1 DEF TaskStep, Finish, FinishUnseen, Give, Live, Without, IInv, TypeOK
  <1>2. ASSUME NEW s \in Slots, NEW o \in JobIds, Owns(o, s)'
        PROVE  Owns(o, s) /\ (o = id => id \notin Live)
    <2>1. CASE o \in Live' /\ tasks'[o].slot = s
      BY <1>1, <2>1 DEF Owns
    <2>2. ASSUME NEW d \in Callers, (at[d] = "spawn" /\ work[d].id = o /\ work[d].slot = s)'
          PROVE  Owns(o, s) /\ o # id
      BY <1>0, <2>2 DEF Owns, IInv, StartedOnce
    <2> QED BY <1>1, <1>2, <2>1, <2>2 DEF Owns
  <1>3. ASSUME NEW s \in Slots, NEW o \in JobIds, Owns(o, s)
        PROVE  jobs[s].id = o /\ jobs[s].status \notin Terminal /\ o \notin stopped
    BY <1>3 DEF IInv, OwnersHold, Active
  <1>4. CASE jobs' = jobs
    BY <1>0, <1>2, <1>3, <1>4 DEF OwnersKept
  <1>5. ASSUME NEW status \in Terminal, id \in Live,
               jobs' = [jobs EXCEPT ![tasks[id].slot].status = status]
        PROVE  OwnersKept
    <2>1. jobs[tasks[id].slot].id = id
      BY <1>0, <1>3, <1>5 DEF Owns
    <2>2. ASSUME NEW s \in Slots, NEW o \in JobIds, Owns(o, s)'
          PROVE  Owns(o, s) /\ jobs'[s] = jobs[s]
      BY <1>0, <1>2, <1>3, <1>5, <2>1, <2>2 DEF IInv, TypeOK
    <2> QED BY <1>0, <1>3, <2>2 DEF OwnersKept
  <1> QED BY <1>4, <1>5, FinishStatus DEF TaskStep, Finish, FinishUnseen, Give

\* A committed job owns its slot, alone in its name and its group.
LEMMA CommittedOwners ==
    ASSUME IInv, NEW c \in Callers, NEW t \in Slots, Committed(c, t)
    PROVE  OwnersHold' /\ OwnersApart'
  <1>0. /\ UNCHANGED <<tasks, asked, stopped>> /\ submits \in Nat
        /\ jobs \in [Slots -> Job] /\ stopped \subseteq 1 .. submits
    BY DEF Committed, history, IInv, TypeOK, PastIsPast
  <1>1. jobs'[t] = NewJob(work[c].req) /\ \A s \in Slots : s # t => jobs'[s] = jobs[s]
    BY <1>0 DEF Committed
  <1>2. ASSUME NEW s \in Slots, NEW id \in JobIds, Owns(id, s)'
        PROVE  Owns(id, s) \/ (id = submits + 1 /\ s = t)
    <2>1. work'[c].id = submits + 1 /\ work'[c].slot = t
      BY DEF Committed, NoWork, IInv, TypeOK
    <2>2. \A d \in Callers \ {c} : at'[d] = at[d] /\ work'[d] = work[d]
      BY DEF Committed, Go, IInv, TypeOK
    <2>3. ASSUME NEW d \in Callers, (at[d] = "spawn" /\ work[d].id = id /\ work[d].slot = s)'
          PROVE  Owns(id, s) \/ (id = submits + 1 /\ s = t)
      BY <2>1, <2>2, <2>3 DEF Owns
    <2> QED BY <1>0, <1>2, <2>3 DEF Owns, Live
  <1>3. ASSUME NEW s \in Slots, NEW id \in JobIds, Owns(id, s)
        PROVE  s # t /\ jobs'[s] = jobs[s] /\ jobs[s].id = id /\ Active(s)
               /\ id # submits + 1
    <2>1. s # t
      BY <1>3, ReusableIsSettled DEF IInv, OwnersHold, Committed, Settled
    <2>2. id \in 1 .. submits
      BY <1>3, OwnersSlot DEF IInv, OneSlotEach
    <2> QED BY <1>0, <1>1, <1>3, <2>1, <2>2 DEF IInv, OwnersHold
  <1>4. OwnersHold'
    <2>1. ASSUME NEW s \in Slots, NEW id \in JobIds, Owns(id, s)
          PROVE  (jobs[s].stop => id \in asked) /\ id \notin stopped
      BY <2>1 DEF IInv, OwnersHold
    <2>2. /\ jobs'[t].id = submits + 1 /\ jobs'[t].used /\ jobs'[t].status \notin Terminal
          /\ ~ jobs'[t].stop /\ submits + 1 \notin stopped
      BY <1>0, <1>1 DEF NewJob, Terminal
    <2> QED BY <1>0, <1>2, <1>3, <2>1, <2>2 DEF OwnersHold, Active
  <1>5. OwnersApart'
    <2>1. ASSUME NEW s \in Slots, NEW id \in JobIds, Owns(id, s)
          PROVE  /\ work[c].req.name # None => jobs[s].name # work[c].req.name
                 /\ work[c].req.exclusive # None => jobs[s].exclusive # work[c].req.exclusive
      BY <1>3, <2>1, NoConflict DEF Committed, Clear
    <2>2. jobs'[t].name = work[c].req.name /\ jobs'[t].exclusive = work[c].req.exclusive
      BY <1>1 DEF NewJob
    <2>3. ASSUME NEW s \in Slots, NEW u \in Slots, NEW i \in JobIds, NEW j \in JobIds,
                 Owns(i, s)', Owns(j, u)', i # j
          PROVE  /\ jobs'[s].name # None => jobs'[s].name # jobs'[u].name
                 /\ jobs'[s].exclusive # None => jobs'[s].exclusive # jobs'[u].exclusive
      <3>1. CASE Owns(i, s) /\ Owns(j, u)
        BY <1>3, <2>3, <3>1 DEF IInv, OwnersApart
      <3>2. CASE Owns(i, s) /\ u = t
        BY <1>3, <2>1, <2>2, <3>2
      <3>3. CASE s = t /\ Owns(j, u)
        BY <1>3, <2>1, <2>2, <3>3
      <3> QED BY <1>2, <2>3, <3>1, <3>2, <3>3
    <2> QED BY <2>3 DEF OwnersApart
  <1> QED BY <1>4, <1>5

-----------------------------------------------------------------------------
(* Names and starts.                                                         *)

LEMMA NamesKept ==
    ASSUME IInv,
           \/ \E c \in Callers : Quiet(c)
           \/ \E c \in Callers, t \in Slots : Committed(c, t)
           \/ UNCHANGED <<at, work>>
    PROVE  NamesKnown'
  <1>1. ASSUME NEW c \in Callers, Quiet(c) PROVE NamesKnown'
    BY <1>1 DEF Quiet, IInv, NamesKnown
  <1>2. ASSUME NEW c \in Callers, NEW t \in Slots, Committed(c, t) PROVE NamesKnown'
    <2>0. submits \in Nat /\ work \in [Callers -> Work]
      BY DEF IInv, TypeOK
    <2>1. work'[c] = [NoWork EXCEPT !.op = "submit", !.slot = t, !.id = submits + 1]
      BY <1>2, <2>0 DEF Committed
    <2>3. work'[c].id = submits + 1 /\ submits + 1 # 0
      BY <2>0, <2>1 DEF NoWork
    <2>2. \A d \in Callers \ {c} : at'[d] = at[d] /\ work'[d] = work[d]
      BY <1>2 DEF Committed, Go, IInv, TypeOK
    <2> QED BY <2>2, <2>3 DEF IInv, NamesKnown
  <1> QED BY <1>1, <1>2 DEF IInv, NamesKnown

LEMMA StartsKept ==
    ASSUME IInv, NEW c \in Callers, Quiet(c),
           tasks' = tasks \/ Spawn(c)
    PROVE  StartedOnce'
  <1>1. ASSUME NEW d \in Callers, at'[d] = "spawn"
        PROVE  d # c /\ at[d] = "spawn" /\ work'[d] = work[d]
    BY <1>1 DEF Quiet
  <1>2. ASSUME NEW d \in Callers, at'[d] = "spawn" PROVE work'[d].id \notin DOMAIN tasks'
    BY <1>1, <1>2 DEF Spawn, IInv, StartedOnce
  <1> QED BY <1>1, <1>2 DEF IInv, StartedOnce

LEMMA TaskStartsKept ==
    ASSUME IInv, NEW id \in JobIds, TaskStep(id)
    PROVE  StartedOnce'
  <1>1. DOMAIN tasks' \subseteq DOMAIN tasks /\ UNCHANGED <<at, work>>
    BY DEF TaskStep, Finish, FinishUnseen, Give, Without, counts
  <1> QED BY <1>1 DEF IInv, StartedOnce

LEMMA CommittedStarts ==
    ASSUME IInv, NEW c \in Callers, NEW t \in Slots, Committed(c, t)
    PROVE  /\ StartedOnce'
           /\ submits + 1 \notin DOMAIN tasks /\ submits + 1 \notin Starting
  <1>1. /\ work'[c].id = submits + 1 /\ submits \in Nat /\ tasks' = tasks
        /\ \A d \in Callers \ {c} : at'[d] = at[d] /\ work'[d] = work[d]
    BY DEF Committed, Go, NoWork, IInv, TypeOK
  <1>2. \A id \in DOMAIN tasks : id \in 1 .. submits
    <2>1. \A id \in DOMAIN tasks : tasks[id].slot \in Slots /\ id \in JobIds
      BY DEF IInv, TypeOK
    <2> QED BY <2>1 DEF Knows, IInv, OneSlotEach
  <1>3. \A d \in Callers : at[d] = "spawn" => work[d].id \in 1 .. submits
    <2>1. ASSUME NEW d \in Callers, at[d] = "spawn" PROVE work[d].id \in 1 .. submits
      <3>1. work[d].slot \in Slots /\ work[d].id \in JobIds \cup {0} /\ work[d].id # 0
        BY <2>1 DEF IInv, TypeOK, Work, NamesKnown, Naming
      <3> QED BY <3>1 DEF Knows, CallerKnows, IInv, OneSlotEach
    <2> QED BY <2>1
  <1>4. submits + 1 \notin 1 .. submits
    BY <1>1
  <1> QED BY <1>1, <1>2, <1>3, <1>4 DEF IInv, StartedOnce, Starting

-----------------------------------------------------------------------------
(* What has been told and lost, and the count.                               *)

Counted == Live \cup Starting \cup lost

LEMMA CountedFinite ==
    ASSUME TypeOK, NamesKnown
    PROVE  /\ Counted \subseteq JobIds /\ IsFiniteSet(Counted)
           /\ Cardinality(Counted) \in Nat
  <1>1. Counted \subseteq JobIds
    BY DEF TypeOK, NamesKnown, Naming, Counted, Live, Starting, Work
  <1>2. IsFiniteSet(JobIds)
    BY LuaAssumption, FS_Interval DEF JobIds
  <1> QED BY <1>1, <1>2, FS_Subset, FS_CardinalityType

\* Whoever a caller names had been submitted.
LEMMA NamedWasSubmitted ==
    ASSUME IInv, NEW c \in Callers, at[c] \in Naming
    PROVE  work[c].id \in 1 .. submits
  <1>1. work[c].slot \in Slots /\ work[c].id \in JobIds \cup {0} /\ work[c].id # 0
    BY DEF IInv, TypeOK, Work, NamesKnown
  <1> QED BY <1>1 DEF Knows, CallerKnows, IInv, OneSlotEach

\* The starts and the scripts after a quiet step.
LEMMA QuietStarting ==
    ASSUME IInv, NEW c \in Callers, Quiet(c)
    PROVE  Starting' = IF at[c] = "spawn" THEN Starting \ {work[c].id} ELSE Starting
  <1>1. \A d \in Callers : at'[d] = "spawn" <=> at[d] = "spawn" /\ d # c
    BY DEF Quiet
  <1>2. \A d \in Callers : at'[d] = "spawn" => work'[d] = work[d]
    BY DEF Quiet
  <1>3. \A d \in Callers : at[c] = "spawn" /\ at[d] = "spawn" /\ d # c => work[d].id # work[c].id
    BY DEF IInv, StartedOnce
  <1> QED BY <1>1, <1>2, <1>3 DEF Starting

\* Steps of callers that count nothing.
LEMMA OtherStepsCount ==
    ASSUME IInv, NEW c \in Callers, CallerStep(c), ~ \E s \in Slots : Committed(c, s)
    PROVE  \/ Spawn(c)
           \/ SpawnFails(c)
           \/ at[c] # "spawn" /\ UNCHANGED <<tasks, running, lost>>
  BY CommitSplit DEF CallerStep, Step, Submit, StopJob, StopAll, Preflight, NotCommitted,
     Mark, Settle, StopSlot, Check, Wait, Recheck, MissMutex, counts, history

\* What a caller's step adds to the history.
LEMMA PastKept ==
    ASSUME IInv, NEW c \in Callers, CallerStep(c), ~ \E s \in Slots : Committed(c, s)
    PROVE  PastIsPast'
  <1>1. Quiet(c) /\ submits' = submits
    BY StepNothingNew DEF NothingNew
  <1>2. Starting' = IF at[c] = "spawn" THEN Starting \ {work[c].id} ELSE Starting
    BY <1>1, QuietStarting
  <1>3. stopped' \subseteq 1 .. submits
    <2>1. stopped' = stopped \/ (at[c] \in Naming /\ stopped' = Told(c))
      BY CommitSplit DEF CallerStep, Step, Submit, StopJob, StopAll, Preflight, NotCommitted,
         Spawn, SpawnFails, Mark, Settle, StopSlot, Check, Wait, Recheck, MissMutex,
         history, Naming
    <2>2. Told(c) \subseteq stopped \cup {work[c].id}
      BY DEF Told
    <2>3. at[c] \in Naming => work[c].id \in 1 .. submits
      BY NamedWasSubmitted
    <2>4. stopped \subseteq 1 .. submits
      BY DEF IInv, PastIsPast
    <2> QED BY <2>1, <2>2, <2>3, <2>4
  <1>4. CASE Spawn(c)
    <2>1. work[c].id \in Starting /\ lost' = lost
      BY <1>4 DEF Spawn, Starting, history
    <2>2. Live' \subseteq Live \cup {work[c].id}
      BY <1>4 DEF Spawn, Live
    <2> QED BY <1>1, <1>2, <1>3, <2>1, <2>2 DEF IInv, PastIsPast
  <1>5. CASE SpawnFails(c)
    <2>1. work[c].id \in 1 .. submits /\ work[c].id \notin Live
      BY <1>5, NamedWasSubmitted DEF SpawnFails, Naming, IInv, StartedOnce, Live
    <2>2. Live' = Live /\ lost' \subseteq lost \cup {work[c].id} /\ at[c] = "spawn"
      BY <1>5 DEF SpawnFails, Live
    <2> QED BY <1>1, <1>2, <1>3, <2>1, <2>2 DEF IInv, PastIsPast
  <1>6. CASE at[c] # "spawn" /\ UNCHANGED <<tasks, running, lost>>
    BY <1>1, <1>2, <1>3, <1>6 DEF IInv, PastIsPast, Live
  <1> QED BY <1>4, <1>5, <1>6, OtherStepsCount

LEMMA StepCount ==
    ASSUME IInv, NEW c \in Callers, CallerStep(c), ~ \E s \in Slots : Committed(c, s)
    PROVE  CountIsExact'
  <1>1. Starting' = IF at[c] = "spawn" THEN Starting \ {work[c].id} ELSE Starting
    BY StepNothingNew, QuietStarting
  <1>2. /\ running = Cardinality(Counted) /\ running <= MaxConcurrent /\ running \in Nat
        /\ IsFiniteSet(Counted)
    BY CountedFinite DEF IInv, CountIsExact, Counted, TypeOK
  <1>3. CASE Spawn(c)
    <2>1. Live' = Live \cup {work[c].id} /\ work[c].id \in Starting
      BY <1>3 DEF Spawn, Live, Starting
    <2>2. Counted' = Counted /\ running' = running
      BY <1>1, <1>3, <2>1 DEF Spawn, history, Counted
    <2> QED BY <1>2, <2>2 DEF CountIsExact, Counted
  <1>4. CASE SpawnFails(c)
    <2>1. work[c].id \in Starting /\ work[c].id \notin Live /\ work[c].id \notin lost
      BY <1>4 DEF SpawnFails, Starting, Live, IInv, StartedOnce, PastIsPast
    <2>2. Live' = Live /\ at[c] = "spawn"
      BY <1>4 DEF SpawnFails, Live
    <2>3. CASE running' = CountDown /\ lost' = lost
      <3>1. Counted' = Counted \ {work[c].id} /\ work[c].id \in Counted
        BY <1>1, <2>1, <2>2, <2>3 DEF Counted
      <3>2. Cardinality(Counted') = running - 1 /\ Cardinality(Counted') \in Nat
        BY <1>2, <3>1, FS_RemoveElement, FS_CardinalityType
      <3>3. running' = running - 1
        BY <1>2, <2>3, <3>2 DEF CountDown
      <3>4. running' <= MaxConcurrent
        BY <1>2, <3>3, LuaAssumption
      <3> QED BY <3>2, <3>3, <3>4 DEF CountIsExact, Counted
    <2>4. CASE running' = running /\ lost' = lost \cup {work[c].id}
      <3>1. Counted' = Counted
        BY <1>1, <2>1, <2>2, <2>4 DEF Counted
      <3> QED BY <1>2, <2>4, <3>1 DEF CountIsExact, Counted
    <2> QED BY <1>4, <2>3, <2>4 DEF SpawnFails
  <1>5. CASE at[c] # "spawn" /\ UNCHANGED <<tasks, running, lost>>
    BY <1>1, <1>2, <1>5 DEF CountIsExact, Counted, Live
  <1> QED BY <1>3, <1>4, <1>5, OtherStepsCount

LEMMA CommittedCount ==
    ASSUME IInv, NEW c \in Callers, NEW t \in Slots, Committed(c, t)
    PROVE  PastIsPast' /\ CountIsExact'
  <1>1. /\ submits \in Nat /\ submits' = submits + 1 /\ submits' <= MaxSubmits
        /\ running \in Nat /\ running' = running + 1 /\ running' <= MaxConcurrent
        /\ Live' = Live /\ UNCHANGED <<stopped, lost>>
    BY LuaAssumption DEF Committed, Clear, history, Live, IInv, TypeOK
  <1>2. submits + 1 \notin Live /\ submits + 1 \notin Starting /\ submits + 1 \notin lost
    BY <1>1, CommittedStarts DEF Live, IInv, PastIsPast
  <1>3. Starting' = Starting \cup {submits + 1}
    <2>0. at \in [Callers -> Places] /\ work \in [Callers -> Work]
      BY DEF IInv, TypeOK
    <2>1. at'[c] = "spawn" /\ at[c] # "spawn" /\ work'[c].id = submits + 1
      BY <2>0 DEF Committed, Go, NoWork
    <2>2. \A d \in Callers \ {c} : at'[d] = at[d] /\ work'[d] = work[d]
      BY <2>0 DEF Committed, Go
    <2>3. Starting' \subseteq Starting \cup {submits + 1}
      BY <2>1, <2>2 DEF Starting
    <2>4. submits + 1 \in Starting'
      BY <2>1 DEF Starting
    <2>5. Starting \subseteq Starting'
      BY <2>1, <2>2 DEF Starting
    <2> QED BY <2>3, <2>4, <2>5
  <1>4. PastIsPast'
    BY <1>1, <1>2, <1>3 DEF IInv, PastIsPast
  <1>5. CountIsExact'
    <2>1. Counted' = Counted \cup {submits + 1} /\ submits + 1 \notin Counted
      BY <1>1, <1>2, <1>3 DEF Counted
    <2>2. running = Cardinality(Counted) /\ IsFiniteSet(Counted)
      BY CountedFinite DEF IInv, CountIsExact, Counted
    <2>3. Cardinality(Counted') = running + 1
      BY <2>1, <2>2, FS_AddElement
    <2> QED BY <1>1, <2>3 DEF CountIsExact, Counted
  <1> QED BY <1>4, <1>5

\* A script that ends leaves the count, and with it the set that is counted.
LEMMA TaskCount ==
    ASSUME IInv, NEW id \in JobIds, TaskStep(id)
    PROVE  PastIsPast' /\ CountIsExact'
  <1>0. /\ UNCHANGED <<at, work, submits, stopped>> /\ id \in DOMAIN tasks
        /\ Starting' = Starting
    BY DEF TaskStep, Finish, FinishUnseen, Give, Live, counts, history, Starting
  <1>1. id \in 1 .. submits /\ id \notin Starting
    <2>1. tasks[id].slot \in Slots
      BY <1>0 DEF IInv, TypeOK
    <2> QED BY <1>0, <2>1 DEF Knows, IInv, OneSlotEach, StartedOnce, Starting
  <1>2. /\ running = Cardinality(Counted) /\ running <= MaxConcurrent /\ running \in Nat
        /\ IsFiniteSet(Counted)
    BY CountedFinite DEF IInv, CountIsExact, Counted, TypeOK
  <1>3. CASE Finish(id)
    <2>1. id \in Live /\ Live' = Live \ {id} /\ lost' = lost /\ id \notin lost
      BY <1>3 DEF Finish, Live, Without, history, IInv, PastIsPast, TypeOK
    <2>2. Counted' = Counted \ {id} /\ id \in Counted
      BY <1>0, <1>1, <2>1 DEF Counted
    <2>3. Cardinality(Counted') = running - 1 /\ Cardinality(Counted') \in Nat
      BY <1>2, <2>2, FS_RemoveElement, FS_CardinalityType
    <2>4. running > 0
      BY <1>2, <2>3
    <2>5. running' = running - 1
      BY <1>3, <2>4 DEF Finish, CountDown
    <2>6. running' <= MaxConcurrent
      BY <1>2, <2>5, LuaAssumption
    <2> QED BY <1>0, <2>1, <2>3, <2>5, <2>6 DEF IInv, PastIsPast, CountIsExact, Counted
  <1>4. CASE FinishUnseen(id)
    <2>1. id \in Live /\ Live' = Live \ {id} /\ lost' = lost \cup {id} /\ running' = running
      BY <1>4 DEF FinishUnseen, Live, Without
    <2>2. Counted' = Counted
      BY <1>0, <2>1 DEF Counted
    <2> QED BY <1>0, <1>1, <1>2, <2>1, <2>2 DEF IInv, PastIsPast, CountIsExact, Counted
  <1>5. CASE Give(id)
    <2>1. Live' = Live /\ lost' = lost /\ running' = running
      BY <1>5 DEF Give, Live, Without, history
    <2> QED BY <1>0, <1>2, <2>1 DEF IInv, PastIsPast, CountIsExact, Counted
  <1> QED BY <1>3, <1>4, <1>5 DEF TaskStep

-----------------------------------------------------------------------------
(* The invariant.                                                            *)

LEMMA InvInit == Init => IInv
  <1> SUFFICES ASSUME Init PROVE IInv
    OBVIOUS
  <1>1. TypeOK
    BY TypeInit
  <1>2. DOMAIN tasks = {} /\ Live = {} /\ Starting = {} /\ lost = {} /\ running = 0
    BY DEF Init, Live, Starting
  <1>3. \A s \in Slots : ~ jobs[s].used
    BY DEF Init, Cleared
  <1>4. \A c \in Callers : at[c] = "idle" /\ work[c].id = 0 /\ work[c].todo = {}
    BY DEF Init, NoWork
  <1>5. \A s \in Slots, id \in JobIds \cup {0} : ~ Knows(id, s) /\ ~ Owns(id, s)
    BY <1>2, <1>3, <1>4 DEF Knows, CallerKnows, Owns
  <1>6. PastIsPast
    BY <1>2, LuaAssumption DEF Init, PastIsPast
  <1>7. CountIsExact
    <2>1. Live \cup Starting \cup lost = {}
      BY <1>2
    <2>2. Cardinality({}) = 0
      BY FS_EmptySet
    <2> QED BY <1>2, <2>1, <2>2, LuaAssumption DEF CountIsExact
  <1> QED BY <1>1, <1>4, <1>5, <1>6, <1>7
      DEF IInv, NamesKnown, Naming, OneSlotEach, StartedOnce, OwnersHold, OwnersApart

LEMMA CallerStepType ==
    ASSUME IInv, NEW c \in Callers, CallerStep(c)
    PROVE  CallerTypeOK' /\ TableTypeOK' /\ CountTypeOK' /\ running' \in Nat
  <1> USE DEF IInv
  <1>1. running \in Nat
    BY DEF TypeOK
  <1>2. CASE \/ \E r \in Requests : Submit(c, r)
             \/ \E s \in Slots : StopJob(c, s)
             \/ \E g \in Groups \cup {None} : StopAll(c, g)
             \/ Preflight(c) \/ Commit(c)
    BY <1>1, <1>2, SubmitType, StopCallType, CommitType
  <1> QED BY <1>1, <1>2, SpawnType, SpawnFailsType, WaitType DEF CallerStep, Step

LEMMA CallerStepKeeps ==
    ASSUME IInv, NEW c \in Callers, CallerStep(c)
    PROVE  IInv'
  <1>1. CallerTypeOK' /\ TableTypeOK' /\ CountTypeOK' /\ running' \in Nat
    BY CallerStepType
  <1>2. CASE \E t \in Slots : Committed(c, t)
    <2> QED BY <1>1, <1>2, NamesKept, OneSlotKept, CommittedStarts, CommittedOwners,
               CommittedCount DEF IInv, TypeOK, CallerTypeOK, TableTypeOK, CountTypeOK
  <1>3. CASE ~ \E t \in Slots : Committed(c, t)
    <2>1. Quiet(c) /\ NothingNew
      BY <1>3, StepNothingNew
    <2>2. OwnersHold' /\ OwnersApart'
      BY <1>3, StepOwners, OwnersKeptHold
    <2>3. StartedOnce'
      <3>1. SpawnFails(c) => tasks' = tasks
        BY DEF SpawnFails
      <3> QED BY <1>3, <2>1, <3>1, StartsKept, OtherStepsCount
    <2>4. NamesKnown' /\ OneSlotEach'
      BY <2>1, NamesKept, OneSlotKept
    <2>5. PastIsPast' /\ CountIsExact'
      BY <1>3, PastKept, StepCount
    <2> QED BY <1>1, <2>2, <2>3, <2>4, <2>5
        DEF IInv, TypeOK, CallerTypeOK, TableTypeOK, CountTypeOK
  <1> QED BY <1>2, <1>3

LEMMA TaskStepKeeps ==
    ASSUME IInv, NEW id \in JobIds, TaskStep(id)
    PROVE  IInv'
  <1>1. TypeOK'
    BY TaskType DEF TaskStep, IInv, TypeOK, CallerTypeOK, TableTypeOK, CountTypeOK
  <1>2. NothingNew /\ UNCHANGED <<at, work>>
    BY TaskNothingNew DEF IInv
  <1> QED BY <1>1, <1>2, NamesKept, OneSlotKept, TaskStartsKept, TaskOwners, OwnersKeptHold,
             TaskCount DEF IInv

LEMMA StutterKeeps ==
    ASSUME IInv, UNCHANGED vars
    PROVE  IInv'
  BY DEF IInv, TypeOK, NamesKnown, OneSlotEach, StartedOnce, OwnersHold, OwnersApart,
     PastIsPast, CountIsExact, Knows, CallerKnows, Owns, Active, Live, Starting, vars

LEMMA InvNext == IInv /\ [Next]_vars => IInv'
  BY CallerStepKeeps, TaskStepKeeps, StutterKeeps DEF Next, CallerStep, TaskStep

LEMMA InvHolds == Spec => []IInv
  BY InvInit, InvNext, PTL DEF Spec

\* The table, the tasks and the callers keep their types.
THEOREM TypeCorrect == Spec => []TypeOK
  <1>1. IInv => TypeOK
    BY DEF IInv
  <1> QED BY <1>1, InvHolds, PTL

\* s_running_jobs is the number of scripts that run or are about to, and of
\* those whose end missed the mutex; it never exceeds the limit.
THEOREM CountsWhatRuns == Spec => []CountIsExact
  <1>1. IInv => CountIsExact
    BY DEF IInv
  <1> QED BY <1>1, InvHolds, PTL

\* A running script's slot holds its record until it ends.
THEOREM ScriptsOwnTheirSlots == Spec => []LiveOwnsSlot
  <1>1. IInv => LiveOwnsSlot
    BY DEF IInv, TypeOK, OwnersHold, Owns, Live, LiveOwnsSlot
  <1> QED BY <1>1, InvHolds, PTL

\* Of two scripts with a name or a group in common never both run, however many
\* callers race to submit, take over and stop.
THEOREM ScriptsRunApart == Spec => []ExclusiveAlone
  <1>1. IInv => ExclusiveAlone
    BY DEF IInv, TypeOK, OwnersApart, Owns, Live, ExclusiveAlone
  <1> QED BY <1>1, InvHolds, PTL

\* A stop flag that a script sees was set for that script's job.
THEOREM StopsAreMeant == Spec => []StopHitsItsJob
  <1>1. IInv => StopHitsItsJob
    BY DEF IInv, TypeOK, OwnersHold, Owns, Live, StopHitsItsJob
  <1> QED BY <1>1, InvHolds, PTL

\* A job that a caller was told has stopped does not run.
THEOREM StoppedDoesNotRun == Spec => []StoppedIsGone
  <1>1. IInv => StoppedIsGone
    BY DEF IInv, TypeOK, OwnersHold, Owns, Live, StoppedIsGone
  <1> QED BY <1>1, InvHolds, PTL

=============================================================================
