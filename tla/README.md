# Attaky Claw: a TLA+ verification project

Attaky Claw is the firmware of a small device that runs an LLM agent: messages arrive from chat
platforms, schedules or scripts as events, a router matches them with rules, an agent core asks a
language model and runs tools, Lua scripts run as jobs, and a face on an LCD shows what is going
on.  It is C on FreeRTOS: tasks, queues, mutexes, callbacks and files in flash.

This directory holds TLA+ models of the parts of it where tasks meet, TLC configurations that
check them on small instances, and proofs checked by TLAPS.

## Run it

    tlc -config ClawCoreSafety.cfg MCClawCore      # and so on, see "Runs"
    tlapm ClawCoreProofs.tla                        # and the other *Proofs modules, see "Proofs"

`PROJECT.json` lists the runs, the mutants, the source lines of every definition, the hazards and
the theorems.

## The system

Paths are relative to `src/components/` unless they begin with `application/`.

| Component | State | Operations | Talks to |
|---|---|---|---|
| Agent core, `claw_modules/claw_core/src/claw_core.c` | request queue, response queue, pending list, in-flight slot | submit, receive_for, cancel_request, the worker task's loop over context, LLM and tools | router (publishes answers), memory (hooks), capabilities (tools), LLM runtime |
| Event router, `claw_modules/claw_event_router` | event queue, table of pending ids, rules and their file, recursive mutex | publish, cancel_event, handle_event, rule edits, the router task | core (submit), capabilities, Lua jobs, observers |
| Scheduler, `claw_capabilities/cap_scheduler` | entries under a mutex, `schedules.json`, a state blob in flash, whether the clock is right | add, update, enable, disable, pause, resume, remove, trigger, reload, time sync, the tick task | router (publishes what is due), flash |
| Lua jobs, `claw_capabilities/cap_lua/src/cap_lua_async.c` | job slots, a semaphore per slot, count of running jobs, a log ring per job | submit with takeover, stop, stop all, tail, the job tasks | Lua interpreter (hook polls the stop flag) |
| Memory, `claw_modules/claw_memory/src/claw_memory.c` | a journal of items, an index with counts, a digest of recalls | store, update, forget, recall, compaction, start | core's tools, extraction jobs |
| Sessions, `claw_memory_session.c`, `claw_capabilities/cap_session_mgr` | per session a file of turns under a ring of places; per chat the version of its session; jobs that extract memories | append a turn, load the history, roll; start, complete, take and sweep a job | core's hooks, LLM runtime |
| Skills, `claw_modules/claw_skill`, `cap_skill_mgr` | the catalog read from SKILL.md files, a file of active skills per session, the groups each session sees | register, unregister, activate, reload, clear, boot | capability registry |
| Capability registry, `claw_modules/claw_cap` | groups, their state, running calls | register, start, enable, disable, unload, call | core, router, console |
| Chat platforms, `claw_capabilities/cap_im_platform` | per platform a poll or websocket task, an attachment task, queues, offsets and rings of ids seen; WeChat's login | start, stop, receive, publish, download, send; log in by QR code | router, HTTP |
| Lua modules, `lua_modules` | the display's frame, an HTTP app per script, tables of buttons, the camera's buffers | calls of scripts, callbacks of timers, requests of the HTTP server | arbiter, drivers |
| Display arbiter, emote, status, `common/display_arbiter`, `emote`, `status_state` | owner of the panel, number of Lua holds; status latch, suspend flag, flush semaphore | acquire, release; set status, suspend, resume, flush | Lua display module, setup UI, router's observer |
| Setup UI, `common/setup_ui` | session, state machine, flags of taps, draft of the configuration, worker with two queues | run a session, submit jobs, post results, save, restart | arbiter, Wi-Fi, settings |
| Wi-Fi manager, `common/wifi_manager` | mode, target, retries, event bits, a timer | apply, wait, scan, fall back to the access point, the driver's events | driver, setup UI, HTTP server |
| HTTP clients, `common/http_reuse` | a pool of clients that keep their connections | init, perform, cleanup | everything that fetches |
| Files, time, web search, MCP, model inspection, captive DNS, settings, HTTP server, LED, CLI | files, connections, driver state | tools of the agent, REST, commands | all of the above |

How they interact: everything that happens enters through `claw_event_router_publish` into one
bounded queue; the router task runs rules with its mutex held, and a rule may publish again, submit
to the core's bounded queue, or start a Lua job.  The core's worker publishes its answers back into
the router.  The display is the one output that several of them want at once.

What is hard, and what the models are about:

* *Two tasks between two lock sections.*  A cancel between the end of one request and the start of
  the next; a submitter that looked for conflicts and commits later; owner changes told after the
  unlock; a login decided under the lock and answered without it.
* *Bounded queues that wait for each other*, some without a time limit: router and agent.
* *Timeouts racing late answers*: receive_for, publish calls that give up, stops that wait for less
  than what they wait for may take, HTTP requests given up under a script.
* *Identities that are reused*: event ids made of milliseconds, job slots, log positions, addresses of
  buttons and camera frames, numbers of Lua functions.
* *Several writes that should be one*: schedules, memories, histories and rules, over power cuts.
* *Messages that come again or not at all*: offsets, acknowledgements and rings of ids.
* *A clock that starts over at power-on and jumps* when SNTP answers.

## Modules

| Module | Models | A step is |
|---|---|---|
| `AgentService` | what the core promises: accept, process in order, end each request once, cancel only what is processed | abstract |
| `ClawCore`, `ClawCoreProofs` | claw_core.c: queues, worker, in-flight slot, receive with its pending list, cancel | a queue call or critical section |
| `CancelableQueue` | what the router promises about an event: queued, marked, skipped or processed | abstract |
| `EventRouter` | claw_event_router.c: publish, pending table, cancel, router task, emit from a rule | a critical section or queue call |
| `RuleStore` | claw_event_router.c: rule edits, the rule file, the table an event's rules are taken from | a file operation or mutex section |
| `MessagePath` | gateways' publish, the router's rules, the agent's queue and the answer's way back, composed | an action of a rule, a queue call |
| `Scheduler`, `SchedulerProofs` | cap_scheduler.c and cap_scheduler_store.c: entries, the tick, calls, persistence, power cuts, time sync | a mutex section; a power cut may fall into a commit |
| `LuaAsync`, `LuaAsyncProofs` | cap_lua_async.c: slots, submit with takeover, stop, the job tasks | a mutex section or semaphore call |
| `LogRing` | the log ring of a job, bytes named by their position in the stream | an append or read |
| `MemoryStore` | claw_memory.c: journal, index, digest, compaction, recall | a file write |
| `Sessions` | claw_memory_session.c and cap_session_mgr.c: turns on file, the chat's version | a file write |
| `AsyncExtract` | claw_memory_session.c: extraction jobs beside the agent's requests | a lock section, queue or semaphore call |
| `SkillRegistry` | claw_skill.c, cap_skill_mgr.c, claw_cap.c's visible groups | a file operation or a change of the registry |
| `ClawCap` | claw_cap.c: groups, enable, disable, unload, counted calls | a lock section or callback |
| `TelegramGateway`, `QQGateway`, `FeishuGateway`, `WechatGateway` | what the four platforms receive, with start and stop | a request, a queue call, a lock section |
| `WechatLogin` | the login by QR code | a lock section or request |
| `ChatSend` | what the four platforms send: pieces, cards, uploads, captions | a request |
| `LuaHttpServer` | lua_module_http_server.c: apps, their queues, requests that time out | a lock section or queue call |
| `HttpReuse` | esp_http_client_reuse.c: lease, perform with its retry, return, eviction | a lock section or call of the client |
| `DisplayArbiter`, `Display`, `DisplayProofs` | display_arbiter.c as operators; composed with scripts, setup sessions, the status slot and the render task | a lock section or unlocked access |
| `SetupFlow` | setup_screens.c, setup_sm.c, setup_worker.c, setup_model.c | a turn of the screens' loop, a step of the worker |
| `WifiManager` | wifi_manager.c over a driver that reports late | a call of the driver, an event |
| `InputEvents` | lua_module_button.c, lua_module_knob.c | a call of the script, a callback of the timer |
| `Camera` | lua_module_camera_service.c and its binding | what the mutex is taken for, a frame |
| `MCClawCore`, `MCEventRouter`, `MCScheduler`, `MCLuaAsync`, `MCDisplay` | constants, symmetry and small definitions for TLC | |
| `MCStores`, `MCTasks`, `MCStreams`, `MCServices` | several components side by side, see below | |
| `StoresProofs` | theorems about MessagePath, RuleStore and Sessions | |
| `TasksProofs` | theorems about AsyncExtract, SetupFlow, ClawCap, ChatSend, InputEvents and Camera | |
| `ServicesProofs` | theorems about EventRouter, HttpReuse, LuaHttpServer and WechatGateway | |
| `StreamsProofs` | theorems about LogRing, TelegramGateway, QQGateway, FeishuGateway and WechatLogin | |

Components that share no state are checked side by side: in `MCStores` (RuleStore, MemoryStore,
Sessions, Scheduler, SkillRegistry, MessagePath), `MCTasks` (AsyncExtract, SetupFlow, ClawCap,
ChatSend, WifiManager, InputEvents, Camera), `MCStreams` (LogRing, TelegramGateway, QQGateway,
FeishuGateway, WechatLogin) and `MCServices` (EventRouter, LuaHttpServer, HttpReuse,
WechatGateway) each behaviour is one of one component, which `part` names, while the others stay at
their initial state.  The fairness of a component is stated for its own behaviours only,
`WF_v(Is("telegram") /\ T!Poll)` and alike.  The constants of the components are constants of the
composition too, so that a theorem about a component holds of every behaviour of the composition, for
every value of them.  Where components do share state the modules compose
them: Display, MessagePath, Sessions (the chat's version, the queue of requests, the history),
SkillRegistry (registry, lists and groups).

### ClawCore

`requestQ`, `responseQ`, `pending`, `inflight`, `inflightAbort` and `armed` are the fields of the
same names in the source; `pc`, `cur`, `err`, `reply`, `iteration` are the worker's place and
locals; `client` is what each calling task does.  `submitted`, `finished`, `delivered`, `lost`,
`cancelAsked`, `sessionLog`, `observed`, `outMessages` are what the outside sees.  Request ids are
positive: 0 is "nothing in flight", or "any" for receive and cancel.  The model's answer, the
tools and the memory hooks are choices of outcomes, failures and lack of memory included.

Fairness (`FairSpec`): the worker is a task that is never starved; a client's wait is bounded by its
timeout; a client that waits for `response_lock` gets it in turn (strong fairness: FreeRTOS mutexes
go to the waiting task of highest priority, and equal ones in order).  Submitting and cancelling
get none.  The worker waits for room in the response queue without limit, so that a request
finishes only because clients that submit go on to receive, as every caller in the repository
does.  A receiver that times out leaves its response behind; when such responses fill the queue
and nobody receives again the worker waits for ever, and that is the one end `NobodyHangs` allows
besides a finished request.

### EventRouter, RuleStore, MessagePath

`queue`, `pending` (the table of 6 slots), `pc`, `cur`, `left` for the router task, `publisher`
for each publishing task, `mutex` for the recursive mutex the task keeps while a rule's actions
run, `fate` for what became of each event, `displaced` for the events a cancel may miss.  One event of
the model is one call of publish.  Ids are a constant function of events because two calls in one
millisecond get the same id.  The rules are a constant: per event, the action sequences it matches.
Fairness: the router task and each publisher that is inside a call; a publish call that finds the queue
full gives up after its timeout; publishers wait for the mutex with strong fairness.

In `RuleStore` a rule is an id with a body; an edit reads the file, writes `<path>.tmp`, removes the
file, renames, swaps the table.  Each is a step that may fail or be cut by the power.  In
`MessagePath` the rules are the shipped ones or none, chats publish messages that talk to the agent
or ask for a new session, and both ends wait a second for room in the other's queue
(`core_submit_timeout_ms` 1000, app_claw.c:391; claw_event_router.c:2324), which is a choice to give up.

### Scheduler

`entries` with the fields that decide when an entry runs; `file` and `blob` are what is in flash;
`clock` is gettimeofday and `real` the real time.  They differ from power-on until SNTP answers.
A call reads the clock before it waits for the mutex in the code, so it is two steps here.  A
commit writes the file, then the blob; if one fails the change is undone in memory only.
`CutInCommit` is a power cut in the middle; `Boot` reads what is left.

### LuaAsync and LogRing

Each section of `s_lock` is a step.  A slot keeps its record after its job ended; which of several
terminal slots is reused goes by the time of day in seconds, hence any of them.  `lost` counts jobs
whose task could not get the mutex within its limit (`MaxMisses`).  Fairness: callers, the
tasks of jobs that were asked to stop (the interpreter's hook polls the flag every 100
instructions), and the give of the semaphore.  A script that nobody stops may run forever.
`LogRing` names a byte by its position in the stream of all bytes printed; the ring's cells, the
position of the writer, and a reader that comes back with the position it was told.

### The stores: MemoryStore, Sessions, SkillRegistry

An operation of `MemoryStore` is a list of the steps it still has to take, one for what it reads and
one for each file it writes, so that a cut or a failed write falls between any two, or into one, and
so do the steps of other callers: the agent's tools, Lua jobs, rules and the console reach the same
capabilities and nothing locks.  A memory has an id, a key and labels; compaction comes after
Threshold changes or, as the journal may have passed its 32 KB, after any; sizes are whether what it
copies fits the buffer it allocated.  Where callers overtake each other the history says so
(`crossed`): a compaction answers for the journal as it read it.  In `Sessions` a record is a run of
cells; a cut leaves header, contents and length of different ages, as FAT brings a file's length up
to date when it is closed.  In `SkillRegistry` a skill has a document that is good, bad or absent,
a place in the catalog, and per session a list on file and groups in memory; the calls read and write
these in the code's order.

### The gateways

Each has the server's side (what it still holds, what it believes was received), the tasks that exist
(more than one of a kind when a stop timed out), the queue and the ring of ids, and the operator's
order.  The server repeats what was not confirmed; requests and answers are lost by a bounded number of
faults; Telegram's model also restarts.  A stop waits with a limit; the wait may end with the task
still there.  Fairness is that of the tasks and of waits with limits: requests and downloads end
(esp_http_client has timeouts), connections close.  The operator and the server's new messages
have none.  `WechatLogin` has the HTTP thread and the login's tasks; `TimePasses` is the limit of a
login.  `ChatSend` is about callers only: its requests fail before or after their work, are done twice
by the wrapped perform, or are refused in a body that only Feishu reads.

### The rest

`AsyncExtract`: `agent` is the agent's place in its request, `table`, `there`, `ready`, `pipe`,
`sems` the jobs linked, allocated, complete, queued and given.  Fair: the agent's collecting (limited
wait) and the worker.  `SetupFlow`: `ui` holds the state machine, the flags of taps, what is listed
and drafted; `jobs` and `results` the queues; `run` the worker.  Fair: the loop (`Drive`), which turns
every 20 ms, and each worker, whose scans and connections end.  `WifiManager`: one state without lock
between the event task, the timer and callers; `events` are on their way to the event task.  Fair:
association with a network that can be joined, event task, timer, a caller inside a call.
`LuaHttpServer`: fair are the server's answer, its timeout of ten seconds, and scripts that serve.
`Camera`: every call holds `s_camera.lock`, others wait two seconds for it.  `InputEvents`: a call is
one step, which is right while one script at a time uses the module.

### DisplayArbiter and Display

`owner` and `depth` are the arbiter's fields; `told[c]` is the notification caller c owes to emote's
callback after it left the mutex, so callbacks of two callers may arrive in either order.  A script
calls init, deinit, or ends (then `lua_display_runtime_cleanup` runs).  A session goes through
acquire, suspend, prime, drain, draw, resume, release.  The render task reads the suspend flag, then
the owner, then draws.  The observer that raises notifications is one task (the router task; nothing
outside the router's tests calls handle_event), the network status another.  `driven` and
`lastDriven` are emote's latch, `shown` what the engine was told last.  The history variable `holds`
has the inits that their own scripts have not undone, `leaves` the scripts that ended with more than
their cleanup gives back.

## Runs

Passing runs, each within five minutes:

| Run | Instance | Shows |
|---|---|---|
| `core_safety` | 3 requests, 2 clients, queues of 2 and 1, one tool iteration; one request published and not queued; clients symmetric; 1.6M states | cancel never hits a bystander and is never forgotten, no receiver sleeps on a parked response, each response is in exactly one place, and the core implements `AgentService` |
| `core_live` | 2 requests, 2 clients, one with a session, a response queue of one, so that the worker waits for room; 118k states | every accepted request ends and every receive returns, unless the worker waits behind responses whose receivers all gave up; no session gets both the turn of a request and the note that it failed |
| `router_queue` | 4 events, two of one id, one of these published by a rule, 2 publishers, queue 2, table 2; 20k states | the router implements `CancelableQueue`: a queued event can be cancelled, and what was cancelled is not processed, but for events that share an id while pending or were evicted from a full table |
| `sched_fire` | 1 entry, interval with at most two runs, once, or at times that never come; 2 calls of any kind; a power cut, torn files, saves that fail or erase the saved state; 2.9M states | paused stays paused, nothing that needs the time is armed without it, a missed run moves on, runs stay within max_runs but for passes whose counts were not saved |
| `lua_exclusive` | 2 slots, 2 callers, one takes over the other's group, a stop, a missed mutex | two live scripts never share a name or a group; the count of jobs is right and within its limit |
| `lua_live` | 1 slot, 2 jobs; fair; 216k states | a stop hits the job it names, "stopped" means gone, a stop takes effect and every call returns |
| `display` | 2 scripts (symmetric), one session, 2 inbound events, 2 calls of display.init, one failing cleanup; 7.8M states | a drained session draws alone, the latest status is on the slot when all is settled, there are no more holds than inits that their scripts have not undone |
| `services` | router: 4 events that share ids, 2 publishers, queue and table of 1; 2 scripts that want one HTTP id; 2 tasks with 3 configurations and a pool of 1; WeChat with 2 messages, a send beside, start and stop | the router drops nothing that was not cancelled, even when ids are shared, and comes round although a rule publishes into its own queue; requests of scripts are answered, never after they were freed; a pooled client has one user and a request is sent again once at most; WeChat's messages are published once, in order, and rows of stage messages are limited |
| `streams` | ring of 4 with texts of 1 to 5; Telegram, QQ and Feishu with 3 or 4 messages, queues of 1 or 2, rings of 2 or 3, 2 orders of the operator, a fault, a restart; 2 logins | readers of a log get what was printed at the position told and are told of gaps; no message is published twice and Telegram forgets none unseen; workers meet no queue that is gone; polls, downloads, logins and stops end |
| `stores` | one caller with 3 memories, 3 operations, a recall; two callers with 2 memories, 2 operations, a recall and no faults; 3 turns in 3 places; 2 rules, 3 edits; 2 schedules; 2 skills in 2 sessions, 4 calls; 4 messages of 2 chats; in each of the others a failed write or a cut; 1.17M states | what was answered is there after faults and cuts, told in order and counted once; an event runs the rules of one table; skills stay active and visible together; answers come in the order of messages or are given up by name, and router and agent come to rest |
| `tasks` | 4 requests with jobs; 5 taps in 2 sessions; 2 groups, 2 callers, 3 orders; 2 senders; Wi-Fi with 2 configurations and a fault; 2 buttons; 2 scripts with a camera of 2 buffers; 715k states | jobs outlive their worker and are stored once; screens mean what they show; no call runs in an unloaded group; what is answered to be sent was sent whole and in order, and can be read on Feishu; a press runs its function; no camera buffer is lost; the device is got at again and again; nobody waits for ever |

The composed properties are conjunctions; the comment of each in its MC module says which module's
property it takes and the module says what that means:

| Property | Is made of |
|---|---|
| AnsweredStays | MemoryStore: AnswersHold, RecallReaches, RecallsCounted; SkillRegistry: ActiveStays, GroupsFollow, CatalogStays; Scheduler: AckedSurvives, two entries, torn files |
| HistoryHolds | Sessions: LoadTellsTheTurns, RollStartsFresh |
| RulesHold | RuleStore: EditsKept, OneTableRuns |
| AnswersInOrder, WayComesToRest | MessagePath: AnswersAreSorted, NotesComeFirst, EachIsAnswered; ComesToRest |
| JobsInOrder, WaitsEnd | AsyncExtract: JobOutlivesWork, AppliedAtMostOnce; CollectEnds with SetupFlow's WaitsEnd and WifiManager's Reachable |
| StoppedIsStopped, ScreensTellTrue | SetupFlow; ClawCap's UnloadedHasNoCalls |
| SentIsThere | ChatSend: SentIsThere, NoGaps |
| DevicesHold | InputEvents: RightFunction, TablesAgree; Camera: BuffersGoRound, FrameHasOwner |
| HandledOnce | TelegramGateway: HandledOnce, ForgottenWasHandled; QQ, Feishu: PublishedOnce; Feishu: FilesStay |
| WorkersInOrder, PollingEnds | the four gateways' tasks and waits |
| HttpInOrder | LuaHttpServer: OneApp, RequestsInOrder; HttpReuse: ClientsInOrder, SentAgainOnce |
| ChatsInOrder | WechatGateway: PublishedInOrder, PollerHasState, StageRowsBounded |
| ServicesMove | EventRouter's RouterMoves with LuaHttpServer's Completes |

Why these bounds suffice: every hazard here needs two actors that race, a third party at most, and a
queue, table or ring that is full; each instance has these (three requests are needed to have one in
flight, one queued and one ending; texts longer than the ring and a stream of three rings; a table as
small as allowed; more messages than a ring of ids holds; a memory too many for the compaction's
threshold).  Histories repeat afterwards: slots, ids and rings are reused within each instance.
Larger instances that were run by hand, without error: QQ with 2 faults (217k states), 3 requests to
scripts (51k), WeChat with messages a, b, a (503k), 5 calls of skills, 3 calls of the scheduler, a
third set of rules and RequestLen 1 and 2 in MessagePath (152k).  `CHECK_DEADLOCK FALSE` is set
where all bounded work may be done and the system idles.

Every passing property has a mutant in its module (marked "mutant:"), a plausible slip in that code,
with which TLC finds the property violated; a composed one has a mutant in more than one module
where that is cheap.

One more run is expected to be violated, `lua_final`; it is in the next section.

## Known disagreements

What the documentation, a comment or the code around promises and the code does not do, found while
modelling and shown by TLC unless "(read)" says that it was only read.  LuaAsync's TerminalIsFinal is
the run `lua_final`.  The others are properties of the named module that its run leaves out, or excludes by the condition given; they fail on the instance
of the named cfg, or of the module's run where none is named, with the changes given.

### Agent core, router, rules

| Where | Property | What happens |
|---|---|---|
| ClawCore, `ClawCoreLive.cfg` | FailureNoteOnlyForFailed | when storing the turn of an answered request fails, its session gets "the previous request failed before producing a final answer" (claw_core.c:1366, 1405) |
| ClawCore, `ClawCoreLive.cfg` | ObserverSeesEveryRequest | claw-core.mdx: observers get a summary "after each request"; only on success (claw_core.c:1374) |
| EventRouter, `EventRouterQueue.cfg` | CancelledNeverProcessed | ids of one millisecond are shared, so a cancel is undone by the next event of that millisecond (claw_event_router.c:308) |
| EventRouter, `EventRouterQueue.cfg` | PendingIsCancellable | with a table as long as the queue a queued event loses its slot and cancel answers NOT_FOUND (claw_event_router.c:281, the assertion at :46) |
| RuleStore, two editors | EditsKept | edits read, change and write the file without a lock: one editor's answered edit is lost in the other's copy, or the file with it |
| RuleStore, `Inline` TRUE | OneTableRuns | an edit made by an action of a rule frees the table its own loop walks over |
| RuleStore (read) | | a cut or failed rename between remove and rename leaves no rules; the .tmp is never looked at |
| MessagePath, RequestLen 1 | PromisedIsAnswered | the router holds its mutex while it waits a second for the agent's queue, the agent waits for that mutex or for room in the router's queue: a message or an answer is given up with a log line |
| MessagePath, a rule on `agent_response` | PromisedIsAnswered | dataflow-and-automation.mdx tells to route `agent_response`; the core publishes `out_message` (claw_core.c:581), so the documented rule never matches |
| MessagePath | TurnedAwayOnlyWhenBusy, OutputIsOwn | messages are turned away though nobody is busy with them; `ctx.last` leaks from rule to rule and holds the output of failed capabilities |
| MessagePath, Bound {"a"} | FailuresAreCounted | a send that has no channel or text is not counted in failed_actions |
| MessagePath, a catch-all rule | ComesToRest | the loop guard covers only events whose source is the router; a rule that matches everything and runs the agent goes on for ever |
| (read) | | `emit_event`'s default source makes the router drop what it emitted (claw_event_router.c:1796, 1909); the `drop` action, "Drop the Event", stops neither later actions nor later rules |

### Scheduler, Lua jobs, memory, sessions, skills, capabilities

| Where | Property | What happens |
|---|---|---|
| LuaAsync, run `lua_final` | TerminalIsFinal | cap-lua.mdx:174 draws no way out of done, failed, timeout, stopped.  The submitter sets "running" after it created the task (cap_lua_async.c:887) without looking: a script that already ended is "running" for good, and its name and group stay taken |
| Scheduler, `SchedulerFire.cfg` with `MaxCalls = 3` | ResumeResumes | SKILL.md:33 "resume one scheduler entry"; refresh returns at once for a paused entry, so resume changes nothing and reports success (cap_scheduler.c:1068) |
| Scheduler, `SchedulerFire.cfg` | OnceRunsOnce | a once entry triggered early is armed again by a restart, reload or time sync (cap_scheduler.c:1224) |
| Scheduler, `SchedulerFire.cfg` | TriggerKeepsPlan | cap-scheduler.mdx:51 "does not affect subsequent plans"; the entry is planned anew from the call (cap_scheduler.c:486) |
| Scheduler, `SchedulerFire.cfg` | IntervalFromPowerOn | cap-scheduler.mdx:104 interval tasks "start timing upon power-on"; a saved last run keeps them waiting for the real time (cap_scheduler.c:632) |
| Scheduler, `SchedulerFire.cfg` | EveryMissMovesOn | SKILL.md:94 a missed run "advances to the next fire time"; an entry updated to a cron expression that never matches keeps its old time and is counted as missed in every pass (cap_scheduler.c:370) |
| Scheduler, `SchedulerFire.cfg` | StartsAgain | schedules.json is truncated and rewritten in place; after a cut in between init fails and app_main aborts (cap_scheduler_store.c:359) |
| Scheduler, `SchedulerFire.cfg` with `Definitions <- Limits`, `MaxCalls = 4`, `MaxCuts = 0`, Asked add, update, pause, trigger | LatestLimitHolds | an entry that was paused, got a lower max_runs by an update and was then triggered in vain (status error, its old fire time still armed) is run once more than max_runs says |
| LogRing | MarkMeansLoss | run_lua.md:48 "older log text was overwritten"; a text exactly as long as the ring is marked with nothing lost (cap_lua_async.c:218) |
| MemoryStore, no faults | UpdateKeepsMemory | memory_ops/SKILL.md:22: an update that keeps key and text, and whose store triggers a compaction, is merged into the old item, which the update then forgets: answered OK, memory gone |
| MemoryStore, two callers | RewritesWhatIsThere | a compaction writes what it read; what another caller stored since is lost though answered OK, what it forgot is back (claw_memory_storage.c:929-1083) |
| MemoryStore (left out of the bounds) | | compaction copies into count * 512 + 16 bytes and drops what does not fit; a torn index stays so for ever; a cut between records and index counts recalls twice, one into the records loses memories; a line after half a line is lost though answered OK; the digest has no limit |
| Sessions | RollIsForGood | a torn version file is read as version 1: the first conversation comes back after a roll.  A cut while a turn is saved can lose a session's whole history |
| AsyncExtract | GivenIsThere, MarksGo | a semaphore is given after the lock, when the job may have been freed (claw_memory_session.c:319); marks of requests that ended early are never removed |
| SkillRegistry, one caller, no faults | RestoredAfterReboot | cap-skill.mdx:86 "After reboot, activation state is restored from FATFS": the list is, the groups it makes visible are not |
| SkillRegistry, one caller, no faults | GoneIsHidden | groups of an unregistered skill stay visible in sessions |
| SkillRegistry, one caller, one cut | ListsAreReadable, BootsAgain | a cut into a session's list ends all activation in it; an invalid SKILL.md, which write_file lets through, makes claw_skill_init fail and app_main abort on every boot (main.c:699) |
| SkillRegistry, two callers | CatalogStays, ActiveStays, GroupsFollow | two reloads that fail together leave the registry empty; an activation during a reload drops the session's other skills |
| ClawCap (read) | CallsOnlyStarted | enable says started before the start callbacks run; a failing start does not stop what started; disable answers OK though stop callbacks fail and does not wait for calls; an unload that times out leaves the group draining |

### Chat platforms

| Where | Property | What happens |
|---|---|---|
| TelegramGateway | StartMeansPolling, NoTaskWithoutQueue | a stop waits 5 s for a poll of 20 s; if it times out, the next enable answers OK while the poll task ends: no gateway (cap-im-platform.mdx: the backend "starts two FreeRTOS tasks" from the start hook).  A second attachment task may run and lose its queue |
| TelegramGateway, BatchLen 1, "other" first | WaitsEnd | updates without a message never advance the offset: polling spins, and as many of them as a batch holds stop it for good |
| TelegramGateway (read) | | a failed publish, full queue or failed download loses the message, as the offset confirms it; the ring of 64 ids is shorter than the default batch of 100, and an answer that repeats more than 64 updates is published again (`AnswersFitRing`, under which HandledOnce is proved) |
| QQGateway | NoSecondHandler | a second stop after one that timed out forgets the inbound task and clears the flag: two inbound tasks after the next start |
| QQGateway | FramesOfThisConnection, HelloIsHeard | frames of the connection before count for the new one; a HELLO that finds the queue full leaves the gateway connected and never identified |
| FeishuGateway | StartMeansConnection, JobsAreAlwaysServed | as Telegram, with 5 s against a fetch of 15 s or a download of 30 s; an attachment task about to end is taken for a live one |
| FeishuGateway | NothingForgotten | what could not be published or queued is acknowledged and remembered as seen |
| FeishuGateway | DownloadsStay | two files of a post that came with one name, or with none ("file"), are saved under one path (cap_im_feishu.c:1280, 2010): the later overwrites the earlier, or removes it when its download fails.  The data of two downloads that failed share a path as well (:1134) |
| WechatGateway | StartMeansPolling, StaysConfigured | a stop waits 5 s for a poll of 40 s, then as Telegram; a stop that succeeds frees token and configuration, and a start polls nothing until it is configured again |
| WechatGateway | NoUseAfterFree, OwnToken | senders are not waited for; a slot of the context cache that changes hands gives a message another chat's token |
| WechatLogin | ActiveIsPolled, NoTokenUnscanned, CancelStays | a start between the task's decision and its last lock finds the handle set: nobody polls; a late "confirmed" of the old code completes the new login (http_server_wechat_api.c: "Never include the token while the session is still active"); a cancel is overwritten by a late answer |
| QQ, WeChat (read) | | attachments of one message with one kind and extension get one file name (cap_im_attachment.c:304): the second overwrites the first, or removes it when it fails |
| ChatSend | SentIsSeen, SeenOnce, PiecesAreWhole, MessagesStandTogether | Telegram, QQ and WeChat answer that a piece was sent which the platform refused under HTTP 200 (cap_im_wechat.c:1633-1636); a request that failed on a connection of the pool is sent again (esp_http_client_reuse.c:507-528), so a piece can be seen twice, and a card whose answer was lost is sent again as text; pieces cut UTF-8 characters; the pieces of two callers mix |

### Display, setup, Wi-Fi, HTTP, devices

| Where | Property | What happens |
|---|---|---|
| HttpReuse, `Services.cfg` | LeaseMatchesConfig | esp_http_client_reuse.c says a lease "matches" its configuration; a reused client keeps the event handler and headers of the request before |
| HttpReuse (read) | | a retried perform sends a POST again that was handled, into the same buffer; a pooled client whose address cannot be set makes init answer NULL |
| Display | SessionKeepsDisplay | lua_module_display/README.md:30 ownership "for the lifetime of the display session"; the cleanup of any ending script, or another script's deinit, releases it (lua_module_display.c:144) |
| Display | SetupIsExclusive | display_arbiter.h:31 "Exclusive setup-session display ownership"; acquire(LUA) takes it (display_arbiter.c:89) |
| Display | ReleasedAtExit | lua-modules.mdx:420 released "on display.deinit() or script-exit cleanup"; a script with two inits releases one of two holds |
| Display | RedrivenOnRegain | emote.c:61 "regaining the display always re-drives once"; the loss may be told after the regain, or a hook that saw emote own the display drives after it lost it.  The state shown is still the latest one (`LatestStatusShown`) |
| Display, `MaxPresses = 2` | PressInSessionIsNoOp | main.c:379 "a press during a session is a no-op"; if a script took and gave back the display, the press passes the cheap check, is latched, and the session is followed by another one |
| SetupFlow | TapMeansItsRow, TapsStay | a stale scan is taken for the fresh one and rows change under the user (comment at setup_screens.c:1408); flags of taps stay set across screens |
| SetupFlow, MaxTaps 7 | SaveKeepsWifi, NoneInFreed | a network picked and left is saved by a session that only set the LLM, with an empty password; a session after a stop that timed out has two workers and the first one's context is freed (setup_worker.h: "must NOT be restarted"; main.c:393 opens it all the same) |
| WifiManager | OkMeansJoined, ToldTheTruth, Settles | wait_connected answers OK for the address of the network before; the state told stays "connected"; a fallback or a scan's end that overlaps a new configuration switches the station off, and nothing tries again |
| WifiManager, an empty network among Configs | Reachable | "got IP" of the network before closes the access point just opened: no network and no access point |
| Setup and Wi-Fi (read) | | the screens' configuration has no access point settings, so that a connection made there drops its name, password and behaviour until a restart (setup_screens.c:91) |
| LuaHttpServer | NothingLeaks, IdsComeFree, WholeRoot | a request that timed out is never freed; a failure after registering keeps the id for ever; a static root is read while it is written |
| InputEvents | FreshOnly | an event waiting for a closed button reaches a new one at the same address |
| InputEvents, two scripts | RightFunction | table and queue are static: the dispatch of one script runs the function that has the number in its own Lua state, or none |
| Knobs (read) | | off for all events forgets what the driver refused |
| Camera | PicturesAreFreed | camera_free_buffer calls camera_release_frame first, which answers OK when no frame is out: the picture of every camera.capture stays on the heap (lua_module_camera_service.c:771) |
| Camera | FramesAreReadable | close unmaps the buffer under a frame object; its release later gives back the frame of the next opening |

## Proofs

TLAPS proves the following for every value of the constants, from the named assumptions of the
modules (`ConstantsOK` and alike) and those given here only.  TLC checked each invariant first.  A
property that is not inductive is strengthened by what each task's place says about the state it
shares; the proofs have a lemma per action, or per group of actions that touch the same state, and PTL
at the end.

* `ClawCoreProofs`.  `TypeCorrect`: the type invariant.  `NoReceiverMissesItsResponse`
  (WaiterMissesNothing): the inductive part is `LockInv`, the lock is held by exactly the receiver
  that waits or looks, and only its holder changes `pending`; a receiver that started to wait saw the
  whole list.  `CancelNeverHitsABystander` and `CancelNeverForgotten`: neither is inductive.  The
  strengthening follows a raised abort flag through the worker's places: `SlotInv` says when the slot
  is taken and by whom, `FlightInv` that a raised flag belongs to a request that was asked for,
  `ReplyInv` what the reply says at each place after the transport was disarmed.
  `CoreIsAnAgentService`: claw_core refines `AgentService`.  `OrderInv` says that what was submitted is
  what ended, what is in hand and what is queued, in this order; each action is then shown to be one
  step of the service or none, from the invariants before and after it.
  `NoResponseIsLostOrDoubled` (ResponseExactlyOnce): `PlaceInv` counts the places of a response (both
  lists, the hands of the worker and of receivers, the outside) and says one from the moment its
  request is taken, none before.  `NeverTurnAndNote` (OneRecordPerRequest): `RecordInv` follows `err`,
  which the append of the turn overwrites.
* `LuaAsyncProofs`: `CountsWhatRuns`, `ScriptsOwnTheirSlots`, `ScriptsRunApart`, `StopsAreMeant`,
  `StoppedDoesNotRun`.  The invariant says who knows a job by its slot, that each job is in one slot for
  ever, that one that runs or is about to has its record there, that no two of these share a name or a
  group, and that the count is the number of those and of the ends that missed the mutex.
* `SchedulerProofs`.  Invariants are per entry and relate its record in memory with the ones in the
  file and in the blob, which a restart puts together again; what a call or a pass does to one entry is
  a lemma per operator.  No theorem restricts what is asked or what fails: any entries, any calls, files
  torn by a failed write or a cut, saved states kept old or erased.  Where the code loses something, the
  property says what, with history variables: `wiped`, that the flash was erased and nothing saved
  since, and `limits`, every max_runs an id was given.  `PausedStaysPaused`: a pause holds until a
  load finds the flash erased.  `RunsAreBounded` counts the runs since that load, allows one more for
  each pass whose counts were not saved, and measures an entry armed in state "error" (updated while
  paused, then triggered in vain) by the largest limit of its id; the stronger `LatestLimitHolds` is
  false (see above).  `MissedRunsMoveOn`: what a pass found late is not due after it, or its cron
  expression matches no minute and it is shown in state "error".  `AddedIsKept`: when the scheduler
  runs it has every acknowledged entry; with a torn file it does not start at all.
* `StoresProofs`, three components.
  - MessagePath, for any messages in any number of chats, any lengths of the two queues, any failures
    and timeouts; the rules are the shipped ones or none (`Sizes`), as others may answer a message twice
    or never.  `AnswersComeInOrder`: the places of a message form a chain (gate, queue, router's hand,
    agent's queue, agent, queue again, router's hand, chat), and of one chat whatever is further on is
    earlier (`InOrder`), in each queue as well; a message past the second rule has its note or was given
    up (`NoteInv`); and each message is unpublished, at one of the places, answered or given up
    (`FindInv`).  Lemmas about the chain say what a move to the next place preserves; the rules enter by
    lemmas that evaluate the shipped table.
  - RuleStore (`RulesAreKept`): until a cut or a failed write hurts an edit, the table in use is the one
    that is due, and at each place of an edit the editor's copy, the file and its `.tmp` are what it
    found or what it makes of it (`Copied`).  What the loop over the rules has run is those rules of the
    table it started with that fire, before where it is, in their order and up to one that consumes
    the event (`Looping`); no edit swaps the table while it runs.
  - Sessions (`TurnsAreTold`): header and body of a file tell the newest turns of its version, as far as
    the places the header names are filled (`Tells`).  A file no cut went into, and the one a turn is
    loaded from, is complete (`FilesFilled`).  The version a turn is written to follows from how often
    the chat was rolled before it (`VersionsFollow`).
  - `RulesAreHeld` (RulesHold) and `HistoryIsTold` (HistoryHolds) carry the two over to the run.
* `TasksProofs`, six components.
  - AsyncExtract, `JobsOutliveTheirWork` (JobsInOrder): a job is freed by three hands, and what is queued
    or at the worker is there, not complete, and queued once (`JobInv`); results are stored in the order
    of requests and not beside memories a request wrote by itself (`ApplyInv`).
  - SetupFlow, `FlowHolds`: while no stop timed out there is one worker at most, the one of the session
    that is open, in a context nobody freed (`OneWorker`).
  - ClawCap, `CapsHold`: `active` counts the calls under way of each capability (`CallsCounted`), none
    is under way in a group that is cleared or about to be (`CallsAreKept`), and the group an order stops
    and clears is the one that is being unloaded (`UnloadsItsGroup`).
  - ChatSend, `SendsHold`: while nothing failed, what was shown or answered of a call is its pieces up
    to the place the call is at (`Reaches`), without a gap (`Gapless`); on Feishu it is also seen
    (`AllSeen`), because its answers are read.
  - InputEvents, `ButtonsHold`: an address has one entry (`OneEntry`), the driver calls for what the
    entry has and the registry holds the functions it names (`DriverAgrees`, `RegistryAgrees`), and
    what is queued is in the order of presses (`InOrder`).
  - Camera, `CameraHolds`: who holds the lock is the one inside a call (`HolderIsInside`), each place of
    a call says what it has in hand (`CallHolds`), the driver has every other buffer
    (`DriverHasTheOthers`), and a frame that is out has one owner (`OneOwner`).
  - `NothingRunsOn` (StoppedIsStopped), `SentCanBeRead` (SentIsThere), `DevicesAreKept` (DevicesHold)
    carry them over to the run.  Assumed: callers are finitely many, marks such as "no buffer" are not
    buffers, bounds are numbers (`CapAssumption`, `CameraAssumption`, `ButtonAssumption`,
    `SetupAssumption`).
* `ServicesProofs`, four components.
  - EventRouter, in two parts, both for any ids events share and any sizes of queue and table.
    `SkipsAreAddressed` and `TableIsFresh`, from `IInv`, that each pending event is with its publisher, in
    the queue or in the task's hand, and that a cancelled slot with a pending event was asked for.
    `RouterIsCancelableQueue` (ImplementsCancelableQueue) and what it comes to for one event,
    `QueuedIsCancellable` and `CancelledStaysUnprocessed`.  The code ties neither ids (of a millisecond)
    to events nor the table (6 slots) to what may be pending, so events are lost to cancels, and
    the abstract queue says which: those announced while another of their id is there, that other, and,
    when as many ids are there as the table has slots, those of one id.  The history variable
    `displaced` holds them.  `CancelInv` adds that each pending event that is not displaced has its slot,
    with no other event in it, and that its cancel sticks; that an eviction happens only at a full table
    is a choice of one event per slot.
    `SkippedOnlyWhenAddressed` carries the first part over to the run.
  - HttpReuse (`ClientsAreKept`): each client is unborn, in the pool at one place, leased to one task
    that knows it, or gone; the pool keeps its order of use and its limit (`PoolInv`).  A step is about
    one client, and a lemma (`Changed`) says what the others keep.
  - LuaHttpServer (`AppsAreKept`): an open request is in the queue of one app or in the hands of one
    script, in the order asked, and what is there is open (`RequestsKept`); a script that closes its app
    has answered them all (`AppsClose`).
  - WechatGateway (`ChatsAreKept`): who polls has the state (`Polling`); the rows of stage messages are
    counted before they are sent (`Row`); the ids remembered, and the messages in hand, are runs of
    numbers around the position asked from (`Reads`).  The last, and with it that messages are published
    once and in order, has the hypothesis `AnswersFitSeen`, that the ring of ids holds what one answer
    brings: the code's ring has 64, and how much an answer brings is up to WeChat.
  - `HttpStaysInOrder` (HttpInOrder) and `ChatsStayInOrder` (ChatsInOrder) carry them over to the run.
* `StreamsProofs`, five components.
  - LogRing: `RingIsTail`, `ReadersGetTheStream`, `ReadersMissNothing`, `LossesAreMarked`.  The
    invariant is TypeOK, the length and the reader's position below the stream's, and the four
    properties; the work is arithmetic modulo the ring's size, in lemmas about a hidden `%`.
  - TelegramGateway (`UpdatesAreHandled`).  That nothing is forgotten unseen, and that the queue outlives
    its tasks, holds for any lengths.  That an update is published once for each time the device is
    switched on has the hypothesis `AnswersFitRing`: the ring holds as many ids as an answer has.  An
    answer is a run of numbers from the position that was confirmed, and what the ring has let go is
    older than anything in it by as many ids as it has cells (`Kept`), hence older than the position.
    The code does not guarantee the hypothesis, see "Known disagreements".
  - FeishuGateway (`EventsAreHandled`): the ring is in the order of messages, so that one pushed again
    while it is among so many is recognised; each piece of a message is at one place, the queue, a
    task's hand or published, once.  Files stay what they were published as until another attachment of
    the same message and the same name is downloaded, or the next that failed before it had a name
    (`FsOverwrites`): the history variable `tried` says which had their turn.
  - QQGateway (`FramesAreHandled`): messages come in an order of their own, so the ring is not sorted.
    That an evicted message is not sent again is a pigeonhole argument (`Crowd`): any two in flight
    are near each other, and so many newer ones do not fit between.  It holds for the time in which no
    two inbound tasks take turns (`doubled`, which a stop that timed out allows).
  - WechatLogin (`OneLoginTask`): the handle is set while a task polls, and a task is created only when
    it is clear.
  - `StreamsAreHandledOnce` (HandledOnce) and `WorkersStayInOrder` (WorkersInOrder) carry them over to the
    run; the first with the hypothesis, and without it for what does not need it.
* `DisplayProofs`, for any number of scripts: `TypeCorrect`, `LuaOwnsWhatItHolds`,
  `DrainedSessionDrawsAlone`, `LatestStatusIsShown`, `HoldsEndWithScripts`.  The
  two that are not inductive are strengthened by `Drained` (a completion found after the prime-take
  is of a flush that ended behind the raised gate) and `DriveIsOwed` (if emote owns the display and
  the slot is behind, the hook is on its way to drive it or somebody has yet to tell emote that it
  got the display).  `HoldsEndWithScripts`, for any number of inits in any script: the holds
  are counted against the inits that are not undone (`Counted`), and `GivesBack` says that a script that
  ended left none of them, unless it ended with several or could not destroy the display.  Those it may
  leave are real holds (ReleasedAtExit, "Known disagreements").

Only checked:

* liveness under fairness (NobodyHangs, EverythingEnds, ServicesMove, PollingEnds, WaitsEnd,
  WayComesToRest, and with it that ClawCore's fair behaviours make progress), which is out of the
  prover's reach;
* AnsweredStays, but for its part AckedSurvives (`AddedIsKept`): what MemoryStore promises speaks of the
  result of replaying a journal, a recursion over the operations in it, which needs induction over
  data; SkillRegistry has no proofs yet;
* ScreensTellTrue: it relates what several screens show to results of the worker over a whole session,
  and its invariant has not been found; `FlowHolds` proves the half about the worker;
* WifiManager, of which only liveness is checked.

## Not modelled, and why

`PROJECT.json` has a status and a reason for every component.  In short: parsers, formatters and
JSON tools, HTTP clients of other services, drivers and drawing have no state that steps of several
tasks share; they are most of the repository's lines, which is why the map covers a sixth of them.
Within the modelled components, handle_event called from outside, stop and restart of
the router, counters that are only reported, the script interpreter, the drawing engine and the
contents of messages, requests and files are left out.  Locks that are created by their first user
(cap_im_local, the camera, the Lua HTTP server) may be created twice by two tasks; the models have one.

## Plan

Built so far, the most important behaviour first: core, router, scheduler, Lua jobs, log ring and
display; then the stores, the tasks beside the agent, the gateways, and the way of a message through
router and agent.  Next:

1. Proofs: SkillRegistry's and MemoryStore's parts of AnsweredStays, ScreensTellTrue, and a safety
   property of WifiManager.
2. The LLM snapshot (claw_core_llm.c): a configuration replaced under a running call, "never a torn
   mix", pairs of begin and end.
3. Local messaging: the sockets of pages, their jobs and the order of what they show.
