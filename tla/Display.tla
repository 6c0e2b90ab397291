------------------------------ MODULE Display ------------------------------
(***************************************************************************)
(* The display and everyone who wants it: Lua scripts (display.init,       *)
(* display.deinit and the cleanup at a script's end), setup sessions       *)
(* opened with the SELECT button (application/edge_agent/main/main.c and   *)
(* common/setup_ui), and emote (common/emote): its render task, which      *)
(* draws unless suspended, and its status slot, which shows the state that *)
(* the router's observer sets (app_claw.c, status_state.c).                *)
(*                                                                         *)
(* One step is one section under a mutex or one unlocked read or write.    *)
(* The engine behind emote_* calls is external: a drive shows the status.  *)
(* Not modelled: the drawing calls, a port that does not stop in time      *)
(* (the code asks for a power cycle then), emote's bring-up and its debug  *)
(* console, recording and speaking, which nothing sets.                    *)
(***************************************************************************)
EXTENDS DisplayArbiter, FiniteSets

CONSTANTS
    Scripts,        \* the Lua scripts, each run once
    Launcher,       \* the task that runs setup sessions
    MaxInits,       \* bound: display.init calls
    MaxInbounds,    \* bound: events that raise a notification
    MaxPresses,     \* bound: presses of SELECT
    MaxFails        \* bound: cleanups whose display_hal_destroy times out on a flush

ASSUME DisplayConstants ==
    /\ Launcher \notin Scripts
    /\ Callers = Scripts \cup {Launcher}
    /\ None \notin Owners
    /\ MaxInits \in Nat /\ MaxInbounds \in Nat /\ MaxPresses \in Nat /\ MaxFails \in Nat

VARIABLES
    script,     \* where each script is
    inits,      \* display.init calls so far
    holds,      \* history: the inits, with their scripts, that these have not undone
    fails,      \* cleanups that failed to destroy the display
    leaves,     \* history: scripts that ended with more than their cleanup gives back
    session,    \* where the launcher is
    pressed,    \* its notification: none, given "before" a session, or while one was "open"
    presses,    \* presses that were passed on
    late,       \* history: this session's drain timed out
    suspended,  \* s_emote_suspended
    flushed,    \* s_flush_done_sem, a binary semaphore
    render,     \* the render task: idle, or in emote_flush_callback past a part of its gate
    status,     \* status_state_resolved()
    inbounds,   \* events seen by the observer
    writer,     \* where the observer and the change hook it calls are
    apply,      \* emote_apply has seen that emote owns the display
    driven,     \* s_status_driven
    lastDriven, \* s_last_driven_status
    shown,      \* the status the engine was last told to show
    redriven    \* history: driven since emote got the display

scriptVars  == <<script, inits, holds, fails, leaves>>
sessionVars == <<session, pressed, presses, late, suspended>>
renderVars  == <<flushed, render>>
statusVars  == <<status, inbounds, writer, apply>>
latchVars   == <<driven, lastDriven, shown, redriven>>
vars == <<arbiterVars, scriptVars, sessionVars, renderVars, statusVars, latchVars>>

Statuses == {"normal", "notification"}
ScriptAt == {"idle", "running", "create", "giveback", "release", "destroy",
             "last", "ended"}
SessionAt == {"wait", "acquire", "suspend", "prime", "drain", "draw", "resume",
              "release"}
InSession == session \in {"suspend", "prime", "drain", "draw", "resume", "release"}

TypeOK ==
    /\ ArbiterTypeOK
    /\ script \in [Scripts -> ScriptAt]
    /\ inits \in 0..MaxInits /\ holds \subseteq Scripts \X (1..inits)
    /\ fails \in 0..MaxFails /\ leaves \subseteq Scripts
    /\ session \in SessionAt
    /\ pressed \in {"no", "before", "open"}
    /\ presses \in 0..MaxPresses
    /\ late \in BOOLEAN /\ suspended \in BOOLEAN /\ flushed \in BOOLEAN
    /\ render \in {"idle", "gate", "draw"}
    /\ status \in Statuses /\ lastDriven \in Statuses /\ shown \in Statuses
    /\ inbounds \in 0..MaxInbounds
    /\ writer \in [at : {"idle", "set", "hook", "drive", "forget"},
                   next : {"set", "idle"}]
    /\ apply \in BOOLEAN /\ driven \in BOOLEAN /\ redriven \in BOOLEAN

\* Emote is up, has applied its first network status and owns the display.
Init ==
    /\ ArbiterInit
    /\ script = [s \in Scripts |-> "idle"] /\ inits = 0
    /\ holds = {} /\ fails = 0 /\ leaves = {}
    /\ session = "wait" /\ pressed = "no" /\ presses = 0
    /\ late = FALSE /\ suspended = FALSE /\ flushed = FALSE /\ render = "idle"
    /\ status = "normal" /\ inbounds = 0
    /\ writer = [at |-> "idle", next |-> "idle"] /\ apply = FALSE
    /\ driven = TRUE /\ lastDriven = "normal" /\ shown = "normal"
    /\ redriven = TRUE
-----------------------------------------------------------------------------
(* The status latch of emote.c.  Both sections run under emote_lock.        *)

DrivenOnce == driven                        \* mutant: the latch is not keyed on the state
UpToDate == driven /\ lastDriven = status

\* emote_status_drive_locked: emote_drive_status_default and the refresh.
DriveLocked(resetLatch) ==
    IF ~resetLatch /\ UpToDate THEN UNCHANGED latchVars
    ELSE /\ driven' = TRUE
         /\ lastDriven' = status /\ shown' = status
         /\ redriven' = (redriven \/ owner = "emote")

\* emote_status_clear_latch_locked
ClearLatch ==
    /\ driven' = FALSE
    /\ UNCHANGED <<lastDriven, shown, redriven>>

\* emote_on_owner_changed, called by whoever changed the owner.
OwnerChanged(c) ==
    /\ told[c] # None
    /\ IF told[c] = "emote" THEN DriveLocked(FALSE) ELSE ClearLatch
    /\ told' = [told EXCEPT ![c] = None]
    /\ UNCHANGED <<owner, depth, scriptVars, sessionVars, renderVars, statusVars>>

\* With every call of the arbiter: a tenure of emote ends with its ownership.
Tenure ==
    /\ redriven' = (redriven /\ owner' = "emote")
    /\ UNCHANGED <<driven, lastDriven, shown>>
-----------------------------------------------------------------------------
(* Lua scripts: lua_module_display.c and the end of cap_lua_runtime.c.      *)

AtScript(s, at) == script[s] = at /\ Free(s)
GotoScript(s, at) == script' = [script EXCEPT ![s] = at]
ScriptOnly == UNCHANGED <<sessionVars, renderVars, statusVars>>

Own(s) == {h \in holds : h[1] = s}

\* The script undoes one of its inits, if it has one left.
UndoOne(s) ==
    IF Own(s) = {} THEN UNCHANGED holds
    ELSE holds' = holds \ {CHOOSE h \in Own(s) : \A g \in Own(s) : g[2] <= h[2]}

StartScript(s) ==
    /\ AtScript(s, "idle") /\ GotoScript(s, "running")
    /\ UNCHANGED <<arbiterVars, inits, holds, fails, leaves, latchVars>> /\ ScriptOnly

\* display.init: display_arbiter_acquire ...
DisplayInit(s) ==
    /\ AtScript(s, "running") /\ inits < MaxInits
    /\ inits' = inits + 1 /\ holds' = holds \cup {<<s, inits'>>}
    /\ AcquireLua(s) /\ Tenure
    /\ GotoScript(s, "create")
    /\ UNCHANGED <<fails, leaves>> /\ ScriptOnly

\* ... then display_hal_create, which succeeds at once when another script has
\* created the same display, or fails and the hold is given back.
HalCreate(s) ==
    /\ AtScript(s, "create")
    /\ GotoScript(s, "running") \/ GotoScript(s, "giveback")
    /\ UNCHANGED <<arbiterVars, inits, holds, fails, leaves, latchVars>> /\ ScriptOnly

\* display.deinit: display_hal_destroy, whoever created the display; when it
\* fails, deinit raises an error.
DisplayDeinit(s) ==
    /\ AtScript(s, "running")
    /\ GotoScript(s, "release")
    /\ UNCHANGED <<arbiterVars, inits, holds, fails, leaves, latchVars>> /\ ScriptOnly

\* ... display_arbiter_release, of init's failure, of deinit and of the cleanup.
Release(s) ==
    /\ \/ AtScript(s, "giveback") /\ GotoScript(s, "running")
       \/ AtScript(s, "release") /\ GotoScript(s, "running")
       \/ AtScript(s, "last") /\ GotoScript(s, "ended")
    /\ ReleaseLua(s) /\ Tenure /\ UndoOne(s)
    /\ UNCHANGED <<inits, fails, leaves>> /\ ScriptOnly

NeverCleans == FALSE                        \* mutant: the cleanup is not registered
OwnedByLua == owner = "lua"

\* The script ends, by itself, by an error or by a stop, and
\* lua_display_runtime_cleanup looks whether Lua owns the display; if not there
\* is no hold.
EndScript(s) ==
    /\ AtScript(s, "running")
    /\ GotoScript(s, IF OwnedByLua THEN "destroy" ELSE "ended")
    /\ holds' = IF OwnedByLua THEN holds ELSE holds \ Own(s)
    /\ leaves' = IF \E g, h \in Own(s) : g # h THEN leaves \cup {s} ELSE leaves
    /\ UNCHANGED <<arbiterVars, inits, fails, latchVars>> /\ ScriptOnly

\* The cleanup destroys the display and releases one hold, if that succeeds.
CleanupDestroy(s) ==
    /\ AtScript(s, "destroy")
    /\ \/ GotoScript(s, "last") /\ UNCHANGED <<fails, leaves>>
       \/ /\ GotoScript(s, "ended") /\ leaves' = leaves \cup {s}
          /\ fails < MaxFails /\ fails' = fails + 1
    /\ UNCHANGED <<arbiterVars, inits, holds, latchVars>> /\ ScriptOnly
-----------------------------------------------------------------------------
(* Setup sessions: the SELECT button, its launcher task and setup_ui.c.     *)

AtSession(at) == session = at /\ Free(Launcher)
SessionOnly == UNCHANGED <<scriptVars, renderVars, statusVars>>

\* select_btn_single_click_cb; a second notification is the same notification.
Press ==
    /\ presses < MaxPresses /\ owner = "emote" /\ pressed = "no"
    /\ presses' = presses + 1
    /\ pressed' = IF InSession THEN "open" ELSE "before"
    /\ UNCHANGED <<arbiterVars, session, late, suspended, latchVars>> /\ SessionOnly

\* select_launcher_task: take the notification, look at the owner again.
Launch ==
    /\ AtSession("wait") /\ pressed # "no"
    /\ pressed' = "no"
    /\ session' = IF owner = "emote" THEN "acquire" ELSE "wait"
    /\ UNCHANGED <<arbiterVars, presses, late, suspended, latchVars>> /\ SessionOnly

OpenSession ==
    /\ AtSession("acquire")
    /\ IF MayOpenSetup
       THEN AcquireSetup(Launcher) /\ Tenure /\ session' = "suspend"
       ELSE session' = "wait" /\ UNCHANGED <<arbiterVars, latchVars>>
    /\ late' = FALSE
    /\ UNCHANGED <<pressed, presses, suspended>> /\ SessionOnly

\* emote_suspend_for_session: raise the gate, ...
Suspend ==
    /\ AtSession("suspend")
    /\ suspended' = TRUE /\ session' = "prime"
    /\ UNCHANGED <<arbiterVars, pressed, presses, late, latchVars>> /\ SessionOnly

KeepsStale == UNCHANGED flushed             \* mutant: no prime-take
TakesStale == flushed' = FALSE

\* ... take what an earlier flush has given, ...
Prime ==
    /\ AtSession("prime")
    /\ TakesStale /\ session' = "drain"
    /\ UNCHANGED <<arbiterVars, pressed, presses, late, suspended, render, scriptVars,
                   statusVars, latchVars>>

\* ... and wait for one flush to end, 200 ms at most.
Drain ==
    /\ AtSession("drain")
    /\ \/ flushed /\ flushed' = FALSE /\ UNCHANGED late
       \/ ~flushed /\ late' = TRUE /\ UNCHANGED flushed
    /\ session' = "draw"
    /\ UNCHANGED <<arbiterVars, pressed, presses, suspended, render, scriptVars,
                   statusVars, latchVars>>

\* The LVGL port draws until it is stopped.
StopDrawing ==
    /\ AtSession("draw")
    /\ session' = "resume"
    /\ UNCHANGED <<arbiterVars, pressed, presses, late, suspended, latchVars>>
    /\ SessionOnly

\* emote_resume_after_session
Resume ==
    /\ AtSession("resume")
    /\ suspended' = FALSE /\ session' = "release"
    /\ UNCHANGED <<arbiterVars, pressed, presses, late, latchVars>> /\ SessionOnly

CloseSession ==
    /\ AtSession("release")
    /\ ReleaseSetup(Launcher) /\ Tenure
    /\ session' = "wait"
    /\ UNCHANGED <<pressed, presses, late, suspended>> /\ SessionOnly
-----------------------------------------------------------------------------
(* Emote: the render task, the status hook and the network status.          *)

EmoteOnly == UNCHANGED <<arbiterVars, scriptVars, sessionVars>>

\* The flush is only completed, without a draw.
SkipDraw == render' = "idle" /\ flushed' = TRUE

\* emote_flush_callback draws if no session has suspended it ...
Flush ==
    /\ render = "idle"
    /\ IF suspended THEN SkipDraw ELSE render' = "gate" /\ UNCHANGED flushed
    /\ UNCHANGED <<statusVars, latchVars>> /\ EmoteOnly

\* ... and emote, looked up next, owns the display.
Gate ==
    /\ render = "gate"
    /\ IF owner = "emote" THEN render' = "draw" /\ UNCHANGED flushed ELSE SkipDraw
    /\ UNCHANGED <<statusVars, latchVars>> /\ EmoteOnly

FlushDone ==
    /\ render = "draw"
    /\ render' = "idle" /\ flushed' = TRUE
    /\ UNCHANGED <<statusVars, latchVars>> /\ EmoteOnly

WriterAt(at) == writer.at = at
WriterGoto(at, next) == writer' = [at |-> at, next |-> next]

\* app_claw_inbound_status_observer, in the router task: clear a pending
\* notification (a change, so the hook runs), then raise one (another change).
Inbound ==
    /\ WriterAt("idle") /\ inbounds < MaxInbounds
    /\ inbounds' = inbounds + 1
    /\ IF status = "notification"
       THEN status' = "normal" /\ WriterGoto("hook", "set")
       ELSE WriterGoto("set", "idle") /\ UNCHANGED status
    /\ UNCHANGED <<apply, renderVars, latchVars>> /\ EmoteOnly

Raise ==
    /\ WriterAt("set")
    /\ status' = "notification" /\ WriterGoto("hook", "idle")
    /\ UNCHANGED <<inbounds, apply, renderVars, latchVars>> /\ EmoteOnly

\* emote_on_status_state_change reads the owner ...
Hook ==
    /\ WriterAt("hook")
    /\ WriterGoto(IF owner = "emote" THEN "drive" ELSE "forget", writer.next)
    /\ UNCHANGED <<status, inbounds, apply, renderVars, latchVars>> /\ EmoteOnly

\* ... and then drives the slot or clears the latch.
HookActs ==
    /\ \/ WriterAt("drive") /\ DriveLocked(TRUE)
       \/ WriterAt("forget") /\ ClearLatch
    /\ WriterGoto(writer.next, "idle")
    /\ UNCHANGED <<status, inbounds, apply, renderVars>> /\ EmoteOnly

\* emote_set_network_status: emote_apply reads the owner and then drives.
NetworkStatus ==
    /\ ~apply /\ owner = "emote"
    /\ apply' = TRUE
    /\ UNCHANGED <<status, inbounds, writer, renderVars, latchVars>> /\ EmoteOnly

ApplyDrives ==
    /\ apply
    /\ apply' = FALSE
    /\ DriveLocked(FALSE)
    /\ UNCHANGED <<status, inbounds, writer, renderVars>> /\ EmoteOnly
-----------------------------------------------------------------------------
ScriptStep(s) ==
    \/ StartScript(s) \/ DisplayInit(s) \/ HalCreate(s) \/ DisplayDeinit(s)
    \/ Release(s) \/ EndScript(s) \/ CleanupDestroy(s)

SessionStep ==
    \/ Launch \/ OpenSession \/ Suspend \/ Prime \/ Drain \/ StopDrawing \/ Resume
    \/ CloseSession

EmoteStep ==
    \/ Flush \/ Gate \/ FlushDone \/ Raise \/ Hook \/ HookActs \/ ApplyDrives

Next ==
    \/ \E c \in Callers : OwnerChanged(c)
    \/ \E s \in Scripts : ScriptStep(s)
    \/ Press \/ SessionStep
    \/ Inbound \/ NetworkStatus \/ EmoteStep

Spec == Init /\ [][Next]_vars
-----------------------------------------------------------------------------
\* Nobody is on the way to the status slot or inside the arbiter.
Settled ==
    /\ \A c \in Callers : Free(c)
    /\ WriterAt("idle")

\* Once a session draws on the panel, emote's render task is not in a draw of
\* its own, unless the 200 ms wait for it was given up (emote.c,
\* emote_suspend_for_session), also when a script took the display from the
\* session and gave it to emote.
SessionDrawsAlone == session = "draw" /\ ~late => render # "draw"

\* Whenever emote owns the display and nothing is under way, its status slot
\* shows the state the observer set last: no notification is dropped by the
\* latch (emote.c, the comment at s_status_driven).
LatestStatusShown == Settled /\ owner = "emote" => shown = status

\* There are never more holds than scripts under way have inits to undo, though a
\* deinit or a cleanup may release the hold of another script, so that emote gets
\* the display back when the last one ends; but for the inits of scripts that ended
\* with more than one, of which the cleanup undoes one, or whose cleanup could not
\* destroy the display and undid none.
NoHoldOutlivesScripts ==
    depth <= Cardinality({h \in holds : script[h[1]] # "ended" \/ h[1] \in leaves})

(* What the documentation says and the code does not do.                    *)

\* lua_module_display/README.md: "The display arbiter automatically grants Lua
\* foreground ownership for the lifetime of the display session".
SessionKeepsDisplay == \A h \in holds : script[h[1]] = "running" => owner = "lua"

\* display_arbiter.h: "Exclusive setup-session display ownership".
SetupIsExclusive == InSession => owner = "setup"

\* lua-modules.mdx: "ownership is released on display.deinit() or script-exit cleanup".
ReleasedAtExit == (\A s \in Scripts : script[s] = "ended") => owner # "lua"

\* emote.c: the latch is "reset on ownership loss so regaining the display always
\* re-drives once".
RedrivenOnRegain == Settled /\ owner = "emote" => redriven

\* main.c: "a press during a session is a no-op".
PressInSessionIsNoOp == [][session' = "acquire" /\ session = "wait" => pressed # "open"]_vars
=============================================================================
