------------------------------ MODULE Scheduler ------------------------------
(* cap_scheduler: entries that publish an event when they are due.            *)
(*                                                                            *)
(* The table of entries lives in memory under one mutex; its definitions are  *)
(* written to schedules.json and its runtime state to a blob in flash.  The   *)
(* scheduler task reads the clock, takes the mutex and handles what is due;   *)
(* capability and console calls read the clock too, take the mutex later,     *)
(* change one entry and persist.  The clock starts over at power-on and jumps *)
(* to the real time when SNTP answers, after which the scheduler is told.     *)
(*                                                                            *)
(* A call that takes the mutex is one step, its writes included: nothing else *)
(* can look while it holds the mutex.  A power cut in the middle of its two   *)
(* writes is a step of its own (CutInCommit).  A publish call may wait for    *)
(* room in the router's queue with the mutex held; what it comes to is the    *)
(* choice of the events that were taken.                                      *)
(*                                                                            *)
(* Left out: the fields an entry only passes on to its event, missed_count,   *)
(* last_success_ms and last_error_code, which are only reported, editing the  *)
(* file behind the scheduler's back, and cap_scheduler_stop, which nothing    *)
(* calls.                                                                     *)
EXTENDS Integers, FiniteSets

CONSTANTS
    Ids,          \* schedule ids
    Definitions,  \* Definitions[id]: the items a caller may add or update to
    MaxItems,     \* config.max_items
    TickMs,       \* config.tick_ms, in the units of the clock
    None,         \* a free slot, no call, no record
    Torn,         \* the contents of a truncated file
    Epoch,        \* the real time when the model starts
    WriteResults, \* what writing the file may come to: "ok", "kept", "torn"
    SaveResults,  \* what saving the blob may come to: "ok", "kept", "erased"
    Asked,        \* what callers ask for
    CanTear,      \* a power cut may hit the file while it is rewritten
    MaxReal, MaxCalls, MaxCuts   \* bounds: real time, calls, power cuts

VARIABLES
    entries,  \* s_cap_scheduler.entries, by id
    valid,    \* s_cap_scheduler.time_valid
    phase,    \* "off", "up", or "failed": cap_scheduler_init refused the file
    sample,   \* now_ms of the pass the task has begun
    delay,    \* what is left of the task's vTaskDelay
    call,     \* the call that has read the clock and waits for the mutex
    clock,    \* gettimeofday
    real,     \* the real time
    file,     \* schedules.json
    blob,     \* the runtime state in flash
    calls, cuts,   \* how many calls and power cuts there have been
    sent,     \* history: events the task published, by id, since it was added
    slips,    \* history: passes whose runtime state was not saved
    acked,    \* history: ids whose add succeeded and nobody asked to remove
    held,     \* history: ids whose pause succeeded and nobody asked to undo
    wiped,    \* history: the flash was erased, and nothing was saved since
    limits    \* history: the max_runs of the definitions an id was ever given

vars == <<entries, valid, phase, sample, delay, call, clock, real, file, blob,
          calls, cuts, sent, slips, acked, held, wiped, limits>>
env  == <<clock, real>>
task == <<sample, delay>>
hist == <<sent, slips, acked, held, limits>>

Never == -1       \* next_fire_ms of an entry that will not fire
Fails == -2       \* cap_scheduler_compute_next_fire returned an error

Kinds    == {"once", "interval", "cron"}
Statuses == {"scheduled", "paused", "completed", "error", "disabled"}
Item     == [enabled : BOOLEAN, kind : Kinds, start_at : Nat, end_at : Nat,
             interval : Nat, cron : Nat, max_runs : Nat]
Runtime  == [status : Statuses, next : Int, last : Nat, runs : Nat]
Entry    == [item : Item, rt : Runtime]
Ops      == {"add", "update", "enable", "disable", "remove", "pause", "resume"}
Direct   == {"trigger", "reload"}   \* these read the clock under the mutex

ASSUME SchedulerAssumption ==
    /\ Definitions \in [Ids -> SUBSET Item]
    /\ \A id \in Ids : \A i \in Definitions[id] :
          /\ i.kind = "once" => i.start_at > 0
          /\ i.kind = "interval" => i.interval > 0
    /\ MaxItems \in Nat /\ TickMs \in Nat \ {0} /\ Epoch \in Nat \ {0}
    /\ WriteResults \subseteq {"ok", "kept", "torn"} /\ "ok" \in WriteResults
    /\ SaveResults \subseteq {"ok", "kept", "erased"} /\ "ok" \in SaveResults
    /\ CanTear \in BOOLEAN /\ Asked \subseteq Ops \cup Direct
    /\ MaxReal \in Nat /\ MaxCalls \in Nat /\ MaxCuts \in Nat

\* The marks of what is not there are no records.
ASSUME MarksAreNoRecords ==
    None \notin Item /\ None \notin Runtime /\ None \notin Entry
      /\ Torn \notin [Ids -> Item \cup {None}]

-----------------------------------------------------------------------------
(* When an entry fires next.                                                  *)

Cutoff(item, t) == IF item.end_at > 0 /\ t > item.end_at THEN Never ELSE t

\* The first of start, start + interval, ... after the anchor.
NextInterval(item, anchor) ==
    IF item.start_at = 0 THEN anchor + item.interval
    ELSE IF item.start_at > anchor THEN item.start_at
    ELSE item.start_at
         + ((anchor - item.start_at) \div item.interval + 1) * item.interval

\* A cron expression that matches every cron-th minute; 0 stands for one that
\* does not parse or matches no minute of the year the code searches.
NextCron(item, anchor) == (anchor \div item.cron + 1) * item.cron

\* mutant: one run too many.
UsedUpLate(item, runs) == item.max_runs > 0 /\ runs > item.max_runs

\* The run count has reached the item's limit.
UsedUp(item, runs) == item.max_runs > 0 /\ runs >= item.max_runs

ComputeNextFire(item, anchor, runs) ==
    IF ~item.enabled \/ UsedUp(item, runs) THEN Never
    ELSE CASE item.kind = "once" ->
                 IF anchor >= item.start_at THEN Never
                 ELSE Cutoff(item, item.start_at)
           [] item.kind = "interval" -> Cutoff(item, NextInterval(item, anchor))
           [] item.kind = "cron" ->
                 IF item.cron = 0 THEN Fails
                 ELSE Cutoff(item, NextCron(item, anchor))

RequiresValidTime(item) ==
    ~(item.kind = "interval" /\ item.start_at = 0 /\ item.end_at = 0)

Put(e, status, next) == [e EXCEPT !.rt.status = status, !.rt.next = next]

\* mutant: an entry is armed though the time is not known.
RefreshBlind(e, now, known) ==
    LET next == ComputeNextFire(e.item, now, e.rt.runs)
    IN  IF ~e.item.enabled THEN Put(e, "disabled", Never)
        ELSE IF e.rt.status = "paused" THEN e
        ELSE IF next = Fails THEN Put(e, "error", e.rt.next)
        ELSE IF next = Never THEN Put(e, "completed", Never)
        ELSE Put(e, "scheduled", next)

\* cap_scheduler_refresh_entry_locked; known says whether the time is valid.
Refresh(e, now, known) ==
    LET next == ComputeNextFire(e.item, now, e.rt.runs)
    IN  IF ~e.item.enabled THEN Put(e, "disabled", Never)
        ELSE IF e.rt.status = "paused" THEN e
        ELSE IF ~known /\ RequiresValidTime(e.item) THEN Put(e, "scheduled", Never)
        ELSE IF next = Fails THEN Put(e, "error", e.rt.next)
        ELSE IF next = Never THEN Put(e, "completed", Never)
        ELSE Put(e, "scheduled", next)

Fresh(item) ==
    [item |-> item,
     rt |-> [status |-> IF item.enabled THEN "scheduled" ELSE "disabled",
             next |-> 0, last |-> 0, runs |-> 0]]

\* An event of entry e was published at time now, and the router took it (ok)
\* or not.  The status "running" is over before the mutex is given back.
Published(e, ok, planned, now) ==
    LET done == [e EXCEPT !.rt.status = "scheduled", !.rt.last = now, !.rt.runs = @ + 1]
    IN  IF ~ok THEN [e EXCEPT !.rt.status = "error", !.rt.last = now]
        ELSE IF e.item.kind = "once" THEN Put(done, "completed", Never)
        ELSE Refresh(done, planned, valid)

-----------------------------------------------------------------------------
(* Memory, file and blob.                                                     *)

Present == {id \in Ids : entries[id] # None}

ItemsOf(es)    == [id \in Ids |-> IF es[id] = None THEN None ELSE es[id].item]
RuntimesOf(es) == [id \in Ids |-> IF es[id] = None THEN None ELSE es[id].rt]

\* mutant: the definitions are written before the entry is changed.
WrittenEarly(result, es) == CASE result = "ok" -> ItemsOf(entries)
                              [] result = "kept" -> file
                              [] result = "torn" -> Torn

Written(result, es) == CASE result = "ok" -> ItemsOf(es)
                         [] result = "kept" -> file
                         [] result = "torn" -> Torn

\* A blob that does not read back as written is erased.
Saved(result, es) == CASE result = "ok" -> RuntimesOf(es)
                       [] result = "kept" -> blob
                       [] result = "erased" -> [id \in Ids |-> None]

Save(result, es) ==
    /\ blob' = Saved(result, es)
    /\ wiped' = (result = "erased" \/ (result = "kept" /\ wiped))

\* cap_scheduler_persist_all_locked, and what add, update, remove and enable do
\* with its result: the file is written first, and if either write fails the
\* entry is put back as it was, in memory only.
Commit(new, id) ==
    \E w \in WriteResults, s \in SaveResults :
        /\ file' = Written(w, new)
        /\ IF w = "ok" THEN Save(s, new) ELSE UNCHANGED <<blob, wiped>>
        /\ entries' = IF w = "ok" /\ s = "ok" THEN new ELSE entries
        /\ acked' = CASE call.op = "remove" -> acked \ {id}
                      [] call.op = "add" /\ w = "ok" /\ s = "ok" -> acked \cup {id}
                      [] OTHER -> acked
        /\ held' = IF call.op = "update" THEN held ELSE held \ {id}

\* mutant: the saved status is not restored.
RestoredCounts(item, saved) ==
    IF saved = None THEN Put(Fresh(item), Fresh(item).rt.status, Never)
    ELSE [item |-> item, rt |-> [saved EXCEPT !.status = Fresh(item).rt.status]]

\* The entry as the blob left it, if it has a record of the entry.
Restored(item, saved) ==
    IF saved = None THEN Put(Fresh(item), Fresh(item).rt.status, Never)
    ELSE [item |-> item, rt |-> saved]

\* cap_scheduler_load_from_disk_locked on an intact file: the items, the saved
\* runtime state of those that have one, and a refresh of all that is not paused.
Loaded(now, known) ==
    LET full(id) == Restored(file[id], blob[id])
        anchor(id) == IF full(id).rt.last > 0 THEN full(id).rt.last ELSE now
    IN  [id \in Ids |->
           IF file[id] = None THEN None
           ELSE IF full(id).rt.status = "paused" THEN full(id)
           ELSE Refresh(full(id), anchor(id), known)]

\* What a load does not find in an erased flash is gone: the pauses, and the
\* counts of the runs so far.
Forget ==
    /\ held' = IF wiped THEN {} ELSE held
    /\ sent' = IF wiped THEN [id \in Ids |-> 0] ELSE sent
    /\ UNCHANGED <<slips, acked, limits>>

Init ==
    /\ entries = [id \in Ids |-> None] /\ valid = FALSE /\ phase = "off"
    /\ sample = None /\ delay = 0 /\ call = None
    /\ clock = 1 /\ real = Epoch
    /\ file = [id \in Ids |-> None] /\ blob = [id \in Ids |-> None]
    /\ calls = 0 /\ cuts = 0
    /\ sent = [id \in Ids |-> 0] /\ slips = 0 /\ acked = {} /\ held = {}
    /\ wiped = FALSE /\ limits = [id \in Ids |-> {}]

-----------------------------------------------------------------------------
(* The scheduler task.                                                        *)

\* fire_due_entries reads the clock before it takes the mutex.
BeginPass ==
    /\ phase = "up" /\ sample = None /\ delay = 0
    /\ sample' = clock /\ delay' = delay
    /\ UNCHANGED <<entries, valid, phase, call, env, file, blob, wiped, calls, cuts, hist>>

Watched(e) == e # None /\ e.item.enabled /\ e.rt.status # "paused"
Due(e, now) == Watched(e) /\ e.rt.next > 0 /\ e.rt.next <= now
Late(e, now) == Due(e, now) /\ now > e.rt.next + TickMs

\* mutant: the anchor of a missed run is the run, not the time.
MissedReplays(e, now) == Refresh(e, e.rt.next, valid)

\* A run that is late by more than a tick is skipped.
Missed(e, now) == Refresh(e, now, valid)

\* One pass: what is late by more than a tick is counted as missed and moved
\* on, the rest of what is due is published.  taken are the events the router's
\* queue took.
Pass ==
    LET late == {id \in Ids : Late(entries[id], sample)}
        due  == {id \in Ids : Due(entries[id], sample)} \ late
    IN  /\ phase = "up" /\ sample # None
        /\ \E taken \in SUBSET due, s \in SaveResults :
             LET new == [id \in Ids |->
                           IF id \in late THEN Missed(entries[id], sample)
                           ELSE IF id \in due
                           THEN Published(entries[id], id \in taken,
                                          entries[id].rt.next, sample)
                           ELSE entries[id]]
             IN  /\ entries' = new
                 /\ sent' = [id \in Ids |-> sent[id] + IF id \in taken THEN 1 ELSE 0]
                 /\ IF late \cup due = {}
                    THEN UNCHANGED <<blob, wiped, slips>>
                    ELSE /\ Save(s, new)
                         /\ slips' = IF s = "ok" THEN slips ELSE slips + 1
        /\ sample' = None /\ delay' = TickMs
        /\ UNCHANGED <<valid, phase, call, env, file, calls, cuts, acked, held, limits>>

-----------------------------------------------------------------------------
(* Calls.                                                                     *)

BeginCall ==
    /\ phase = "up" /\ call = None /\ calls < MaxCalls
    /\ \E op \in Ops \cap Asked, id \in Ids :
         \E item \in IF op \in {"add", "update"} THEN Definitions[id] ELSE {None} :
            call' = [op |-> op, id |-> id, item |-> item, now |-> clock]
    /\ calls' = calls + 1
    /\ UNCHANGED <<entries, valid, phase, task, env, file, blob, wiped, cuts, hist>>

Accepted ==
    IF call.op = "add"
    THEN entries[call.id] = None /\ Cardinality(Present) < MaxItems
    ELSE entries[call.id] # None

Enabled(e, on) ==
    [e EXCEPT !.item.enabled = on,
              !.rt.status = IF on THEN "scheduled" ELSE "disabled"]

\* The entry as the call leaves it; now was read before the mutex was taken.
Changed(e) ==
    CASE call.op = "add"     -> Refresh(Fresh(call.item), call.now, valid)
      [] call.op = "update"  ->
            IF e.rt.status = "paused" THEN [e EXCEPT !.item = call.item]
            ELSE Refresh([e EXCEPT !.item = call.item], call.now, valid)
      [] call.op = "enable"  -> Refresh(Enabled(e, TRUE), call.now, valid)
      [] call.op = "disable" -> Refresh(Enabled(e, FALSE), call.now, valid)
      [] call.op = "remove"  -> None
      [] call.op = "pause"   -> [e EXCEPT !.rt.status = "paused"]
      [] call.op = "resume"  -> Refresh(e, call.now, valid)

After == [entries EXCEPT ![call.id] = Changed(entries[call.id])]

Refuse ==
    /\ phase = "up" /\ call # None /\ ~Accepted
    /\ call' = None
    /\ UNCHANGED <<entries, valid, phase, task, env, file, blob, wiped, calls, cuts, hist>>

\* Runs are counted anew for an entry that is added.
Counted == IF call.op = "add" THEN [sent EXCEPT ![call.id] = 0] ELSE sent

\* The limits an id was ever given, with the one of the call's definition.
Limited ==
    IF call.op \in {"add", "update"}
    THEN [limits EXCEPT ![call.id] = @ \cup {call.item.max_runs}] ELSE limits

\* add, update, remove, enable and disable persist definitions and state.
ChangeDefinition ==
    /\ phase = "up" /\ call # None /\ Accepted /\ call.op \notin {"pause", "resume"}
    /\ Commit(After, call.id)
    /\ sent' = Counted /\ limits' = Limited
    /\ call' = None
    /\ UNCHANGED <<valid, phase, task, env, calls, cuts, slips>>

\* pause and resume persist the state only, and undo if that fails.
ChangeStatus ==
    /\ phase = "up" /\ call # None /\ Accepted /\ call.op \in {"pause", "resume"}
    /\ \E s \in SaveResults :
         /\ Save(s, After)
         /\ entries' = IF s = "ok" THEN After ELSE entries
         /\ held' = IF call.op = "pause" /\ s = "ok" THEN held \cup {call.id}
                    ELSE held \ {call.id}
    /\ call' = None
    /\ UNCHANGED <<valid, phase, task, env, file, calls, cuts, sent, slips, acked, limits>>

\* trigger_now publishes whatever the entry's status is, and does not undo.
Trigger(id) ==
    /\ "trigger" \in Asked
    /\ phase = "up" /\ calls < MaxCalls /\ entries[id] # None
    /\ \E ok \in BOOLEAN, s \in SaveResults :
         LET new == [entries EXCEPT ![id] = Published(@, ok, clock, clock)]
         IN  entries' = new /\ Save(s, new)
    /\ held' = held \ {id}
    /\ calls' = calls + 1
    /\ UNCHANGED <<valid, phase, task, call, env, file, cuts, sent, slips, acked, limits>>

\* reload: the definitions are rewritten as they were read, the state is saved;
\* neither failure is reported.
Reload ==
    /\ "reload" \in Asked
    /\ phase = "up" /\ calls < MaxCalls
    /\ calls' = calls + 1
    /\ IF file = Torn THEN UNCHANGED <<entries, blob, wiped, file, hist>>
       ELSE /\ Forget
            /\ \E w \in WriteResults, s \in SaveResults :
                 LET new == Loaded(clock, valid)
                 IN  entries' = new /\ Save(s, new) /\ file' = Written(w, new)
    /\ UNCHANGED <<valid, phase, task, call, env, cuts>>

-----------------------------------------------------------------------------
(* Time, SNTP and power.                                                      *)

TimePasses ==
    /\ real < MaxReal
    /\ real' = real + 1
    /\ clock' = IF phase = "off" THEN clock ELSE clock + 1
    /\ delay' = IF delay > 0 THEN delay - 1 ELSE 0
    /\ UNCHANGED <<entries, valid, phase, sample, call, file, blob, wiped, calls, cuts, hist>>

\* SNTP sets the clock; the sync service has not told the scheduler yet.
ClockIsSet ==
    /\ phase = "up" /\ clock < real
    /\ clock' = real
    /\ UNCHANGED <<entries, valid, phase, task, call, real, file, blob, wiped, calls, cuts, hist>>

Rebased(e) ==
    LET bare == IF ~valid /\ ~RequiresValidTime(e.item)
                THEN [e EXCEPT !.rt.last = 0, !.rt.next = Never] ELSE e
    IN  IF e.rt.status = "paused" THEN bare ELSE Refresh(bare, clock, TRUE)

HandleTimeSync ==
    /\ phase = "up" /\ clock = real /\ ~valid
    /\ valid' = TRUE
    /\ LET new == [id \in Ids |-> IF entries[id] = None THEN None ELSE Rebased(entries[id])]
       IN  /\ entries' = new
           /\ \E s \in SaveResults : Save(s, new)
    /\ UNCHANGED <<phase, task, call, env, file, calls, cuts, hist>>

\* cap_scheduler_init at power-on; a file that does not parse makes
\* app_claw_start fail, which app_main treats as fatal.
Boot ==
    /\ phase = "off"
    /\ clock' = 1
    /\ IF file = Torn
       THEN /\ phase' = "failed"
            /\ UNCHANGED <<entries, blob, wiped, file, hist>>
       ELSE /\ phase' = "up" /\ Forget
            /\ \E w \in WriteResults, s \in SaveResults :
                 LET new == Loaded(1, FALSE)
                 IN  entries' = new /\ Save(s, new) /\ file' = Written(w, new)
    /\ UNCHANGED <<valid, task, call, real, calls, cuts>>

PowerOff ==
    /\ phase # "off" /\ cuts < MaxCuts
    /\ cuts' = cuts + 1
    /\ phase' = "off" /\ valid' = FALSE /\ call' = None
    /\ sample' = None /\ delay' = 0
    /\ entries' = [id \in Ids |-> None]
    /\ UNCHANGED <<clock, real, calls, slips, blob, wiped>>

Cut == PowerOff /\ UNCHANGED <<file, sent, acked, held, limits>>

\* The power goes while add, update, remove or enable writes the file, or
\* between the file and the blob.
CutInCommit ==
    /\ phase = "up" /\ call # None /\ Accepted /\ call.op \notin {"pause", "resume"}
    /\ \/ file' = ItemsOf(After)
       \/ CanTear /\ file' = Torn
    /\ acked' = IF call.op = "remove" THEN acked \ {call.id} ELSE acked
    /\ held' = IF call.op = "update" THEN held ELSE held \ {call.id}
    /\ sent' = Counted /\ limits' = Limited
    /\ PowerOff

\* Every start writes the definitions back to the file it has just read.
CutInBoot ==
    /\ phase = "off" /\ file # Torn /\ CanTear /\ cuts < MaxCuts
    /\ file' = Torn
    /\ cuts' = cuts + 1
    /\ UNCHANGED <<entries, valid, phase, task, call, env, blob, wiped, calls, hist>>

Next ==
    \/ BeginPass \/ Pass
    \/ BeginCall \/ Refuse \/ ChangeDefinition \/ ChangeStatus
    \/ \E id \in Ids : Trigger(id)
    \/ Reload
    \/ TimePasses \/ ClockIsSet \/ HandleTimeSync
    \/ Boot \/ CutInBoot \/ Cut \/ CutInCommit

Spec == Init /\ [][Next]_vars

-----------------------------------------------------------------------------
(* Properties.                                                                *)

\* Every variable keeps its type: an entry's record in memory, file and blob.
TypeOK ==
    /\ entries \in [Ids -> Entry \cup {None}]
    /\ valid \in BOOLEAN /\ phase \in {"off", "up", "failed"}
    /\ sample \in Nat \cup {None} /\ delay \in Nat /\ clock \in Nat /\ real \in Nat
    /\ call # None => call \in [op : Ops, id : Ids, item : Item \cup {None}, now : Nat]
    /\ file = Torn \/ file \in [Ids -> Item \cup {None}]
    /\ blob \in [Ids -> Runtime \cup {None}]
    /\ calls \in Nat /\ cuts \in Nat /\ slips \in Nat
    /\ sent \in [Ids -> Nat] /\ acked \subseteq Ids /\ held \subseteq Ids
    /\ wiped \in BOOLEAN /\ limits \in [Ids -> SUBSET Nat]

\* Before the first time sync of a power cycle no entry that needs the real
\* time is scheduled, whatever fire time it had saved before the restart.  (A
\* failed trigger_now leaves the saved time of a paused entry armed, in state
\* "error".)
NeverArmedUnsynced ==
    \A id \in Ids :
        (~valid /\ entries[id] # None /\ entries[id].rt.status \notin {"paused", "error"}
                /\ RequiresValidTime(entries[id].item))
            => entries[id].rt.next <= 0

\* A pause that was acknowledged holds, over updates, time syncs, reloads and
\* restarts, until a caller enables, disables, removes or triggers the entry, or
\* the entries are loaded from a flash that a failed save has erased.
HeldStaysPaused ==
    \A id \in held : entries[id] # None => entries[id].rt.status = "paused"

Fires(id) == sent'[id] = sent[id] + 1
Within(id, max) == max = 0 \/ sent[id] < max + slips
WithinLimit(id) ==
    IF entries[id].rt.status = "error" THEN \E max \in limits[id] : Within(id, max)
    ELSE Within(id, entries[id].item.max_runs)

\* The task publishes an entry at most max_runs times, and once more for each
\* pass whose run counts did not reach the flash, counted since the entry was
\* added or the entries were loaded from an erased flash.  (An update of a
\* paused entry leaves its fire time, and a failed trigger_now arms it, in state
\* "error": that run is within the largest limit the id was given.)
RunsBounded == [][\A id \in Ids : Fires(id) => WithinLimit(id)]_vars

\* A pass ends that found the entry late.
FoundLate(id) ==
    /\ phase = "up" /\ sample # None /\ sample' = None /\ phase' = "up"
    /\ Late(entries[id], sample)

NeverMatches(item) == item.kind = "cron" /\ item.cron = 0

\* A pass leaves nothing it found late by more than a tick due at the time it
\* looked: a missed run is moved on, not looked at again in every pass.  An entry
\* whose cron expression matches no minute is shown in state "error" instead.
MissedMovesOn ==
    [][\A id \in Ids :
         FoundLate(id) =>
            \/ ~Due(entries'[id], sample)
            \/ NeverMatches(entries[id].item) /\ entries'[id].rt.status = "error"]_vars

\* An entry whose add succeeded is there whenever the scheduler runs, after any
\* failed call, torn write and power cut, until somebody asks for its removal: with
\* a torn file it does not start, rather than start without the entry.
AckedSurvives == phase = "up" => \A id \in acked : entries[id] # None

\* What is not so: a run is within the limit its entry has now; a missed run always
\* moves on; and a device that was switched off starts again.
LatestLimitHolds ==
    [][\A id \in Ids : Fires(id) => Within(id, entries[id].item.max_runs)]_vars
EveryMissMovesOn == [][\A id \in Ids : FoundLate(id) => ~Due(entries'[id], sample)]_vars
StartsAgain == phase # "failed"

\* What the skill manual promises of scheduler_resume: after it succeeded the
\* entry is not paused.
ResumeResumes ==
    [][(call # None /\ call.op = "resume" /\ Accepted /\ call' = None /\ phase' = "up")
       => entries'[call.id].rt.status # "paused"]_vars

\* What the documentation promises of scheduler_trigger_now: it does not affect
\* subsequent plans, so the entry's next fire time stays as it was.
TriggerKeepsPlan ==
    [][\A id \in Ids : Trigger(id) => entries'[id].rt.next = entries[id].rt.next]_vars

\* A once entry that has run is not fired by the task again.
OnceRunsOnce ==
    [][\A id \in Ids :
         (Fires(id) /\ entries[id].item.kind = "once") => entries[id].rt.runs = 0]_vars

\* An interval entry without start and end starts timing at power-on: its next
\* run is never further away than one interval.
IntervalFromPowerOn ==
    \A id \in Ids :
        (Watched(entries[id]) /\ ~RequiresValidTime(entries[id].item))
            => entries[id].rt.next <= clock + entries[id].item.interval
=============================================================================
