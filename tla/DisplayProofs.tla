---------------------------- MODULE DisplayProofs ----------------------------
(***************************************************************************)
(* Proofs about Display for any number of scripts and all bounds.  Type    *)
(* correctness is inductive; the other properties need what is said below  *)
(* about a session's drain and about who still owes the status slot a      *)
(* drive.                                                                  *)
(***************************************************************************)
EXTENDS Display, FiniteSetTheorems, TLAPS

LEMMA TypeInit == Init => TypeOK
  <1> SUFFICES ASSUME Init PROVE TypeOK
    OBVIOUS
  <1> USE DisplayConstants DEF Init
  <1>1. ArbiterTypeOK
    BY DEF ArbiterInit, ArbiterTypeOK, Owners
  <1>2. /\ script \in [Scripts -> ScriptAt] /\ inits \in 0..MaxInits
        /\ holds \subseteq Scripts \X (1..inits)
        /\ fails \in 0..MaxFails /\ leaves \subseteq Scripts
    BY DEF ScriptAt
  <1>3. /\ session \in SessionAt /\ presses \in 0..MaxPresses
        /\ inbounds \in 0..MaxInbounds
    BY DEF SessionAt
  <1>4. writer \in [at : {"idle", "set", "hook", "drive", "forget"},
                   next : {"set", "idle"}]
    OBVIOUS
  <1> QED BY <1>1, <1>2, <1>3, <1>4 DEF TypeOK, Statuses

-----------------------------------------------------------------------------
(* Type correctness, one lemma for each group of actions.                   *)

LEMMA ArbiterType ==
    ASSUME ArbiterTypeOK, NEW c \in Callers,
           \/ AcquireLua(c) \/ ReleaseLua(c) \/ AcquireSetup(c) \/ ReleaseSetup(c)
    PROVE  ArbiterTypeOK'
  BY DEF ArbiterTypeOK, AcquireLua, ReleaseLua, AcquireSetup, ReleaseSetup, ChangeOwner,
     HasHold, MayOpenSetup, arbiterVars, Owners

LEMMA LatchType ==
    ASSUME TypeOK,
           \/ DriveLocked(TRUE) \/ DriveLocked(FALSE) \/ ClearLatch \/ Tenure
           \/ UNCHANGED latchVars
    PROVE  /\ lastDriven' \in Statuses /\ shown' \in Statuses
           /\ driven' \in BOOLEAN /\ redriven' \in BOOLEAN
  BY DEF TypeOK, DriveLocked, ClearLatch, Tenure, latchVars, UpToDate

LEMMA ScriptType ==
    ASSUME TypeOK, NEW s \in Scripts, ScriptStep(s)
    PROVE  TypeOK'
  <1>1. s \in Callers
    BY DisplayConstants
  <1>2. /\ ArbiterTypeOK'
        /\ lastDriven' \in Statuses /\ shown' \in Statuses
        /\ driven' \in BOOLEAN /\ redriven' \in BOOLEAN
        /\ ScriptOnly
    <2> USE DEF ScriptStep
    <2>1. UNCHANGED arbiterVars => ArbiterTypeOK'
      BY DEF TypeOK, ArbiterTypeOK, arbiterVars
    <2>2. AcquireLua(s) \/ ReleaseLua(s) => ArbiterTypeOK'
      BY <1>1, ArbiterType DEF TypeOK
    <2>3. UNCHANGED latchVars \/ Tenure
      BY DEF StartScript, DisplayInit, HalCreate, DisplayDeinit, Release, EndScript,
         CleanupDestroy, latchVars
    <2>4. UNCHANGED arbiterVars \/ AcquireLua(s) \/ ReleaseLua(s)
      BY DEF StartScript, DisplayInit, HalCreate, DisplayDeinit, Release, EndScript,
         CleanupDestroy, arbiterVars
    <2>5. ScriptOnly
      BY DEF StartScript, DisplayInit, HalCreate, DisplayDeinit, Release, EndScript,
         CleanupDestroy
    <2> QED BY <2>1, <2>2, <2>3, <2>4, <2>5, LatchType
  <1>3. /\ script' \in [Scripts -> ScriptAt]
        /\ inits' \in 0..MaxInits
        /\ fails' \in 0..MaxFails /\ leaves' \subseteq Scripts
    <2> USE DisplayConstants DEF TypeOK, AtScript, GotoScript, ScriptAt
    <2>1. CASE StartScript(s) BY <2>1 DEF StartScript
    <2>2. CASE DisplayInit(s) BY <2>2 DEF DisplayInit
    <2>3. CASE HalCreate(s) BY <2>3 DEF HalCreate
    <2>4. CASE DisplayDeinit(s) BY <2>4 DEF DisplayDeinit
    <2>5. CASE Release(s) BY <2>5 DEF Release
    <2>6. CASE EndScript(s) BY <2>6 DEF EndScript
    <2>7. CASE CleanupDestroy(s) BY <2>7 DEF CleanupDestroy
    <2> QED BY <2>1, <2>2, <2>3, <2>4, <2>5, <2>6, <2>7 DEF ScriptStep
  <1>4. holds' \subseteq Scripts \X (1..inits')
    <2>1. CASE DisplayInit(s)
      BY <1>3, <2>1 DEF TypeOK, DisplayInit
    <2>2. CASE ~ DisplayInit(s)
      <3>1. inits' = inits /\ holds' \subseteq holds
        BY <2>2 DEF ScriptStep, StartScript, HalCreate, DisplayDeinit, Release, UndoOne,
           EndScript, CleanupDestroy
      <3> QED BY <3>1 DEF TypeOK
    <2> QED BY <2>1, <2>2
  <1> QED BY <1>2, <1>3, <1>4 DEF TypeOK, ScriptOnly, sessionVars, renderVars, statusVars

LEMMA SessionType ==
    ASSUME TypeOK, Press \/ SessionStep
    PROVE  TypeOK'
  <1>1. Launcher \in Callers
    BY DisplayConstants
  <1>2. /\ UNCHANGED scriptVars /\ UNCHANGED statusVars /\ render' = render
        /\ UNCHANGED latchVars \/ Tenure
        /\ UNCHANGED arbiterVars \/ AcquireSetup(Launcher) \/ ReleaseSetup(Launcher)
    BY DEF SessionStep, SessionOnly, renderVars, Press, Launch, OpenSession, Suspend, Prime,
       Drain, StopDrawing, Resume, CloseSession
  <1>3. ArbiterTypeOK'
    BY <1>1, <1>2, ArbiterType DEF TypeOK, ArbiterTypeOK, arbiterVars
  <1>4. /\ lastDriven' \in Statuses /\ shown' \in Statuses
        /\ driven' \in BOOLEAN /\ redriven' \in BOOLEAN
    BY <1>2, LatchType
  <1>5. /\ session' \in SessionAt
        /\ pressed' \in {"no", "before", "open"}
        /\ presses' \in 0..MaxPresses
        /\ late' \in BOOLEAN /\ suspended' \in BOOLEAN /\ flushed' \in BOOLEAN
    <2> USE DisplayConstants
        DEF TypeOK, SessionAt, AtSession, SessionOnly, renderVars, sessionVars
    <2>1. CASE Press BY <2>1 DEF Press
    <2>2. CASE Launch BY <2>2 DEF Launch
    <2>3. CASE OpenSession BY <2>3 DEF OpenSession
    <2>4. CASE Suspend BY <2>4 DEF Suspend
    <2>5. CASE Prime BY <2>5 DEF Prime, TakesStale
    <2>6. CASE Drain BY <2>6 DEF Drain
    <2>7. CASE StopDrawing BY <2>7 DEF StopDrawing
    <2>8. CASE Resume BY <2>8 DEF Resume
    <2>9. CASE CloseSession BY <2>9 DEF CloseSession
    <2> QED BY <2>1, <2>2, <2>3, <2>4, <2>5, <2>6, <2>7, <2>8, <2>9 DEF SessionStep
  <1> QED BY <1>2, <1>3, <1>4, <1>5 DEF TypeOK, scriptVars, statusVars

EmoteAction == EmoteStep \/ Inbound \/ NetworkStatus

LEMMA EmoteType ==
    ASSUME TypeOK, EmoteAction
    PROVE  TypeOK'
  <1> USE DEF EmoteAction, EmoteStep
  <1>1. /\ EmoteOnly
        /\ \/ UNCHANGED latchVars \/ ClearLatch
           \/ DriveLocked(TRUE) \/ DriveLocked(FALSE)
    BY DEF Flush, Gate, FlushDone, Raise, Hook, HookActs, ApplyDrives, Inbound,
       NetworkStatus
  <1>2. /\ lastDriven' \in Statuses /\ shown' \in Statuses
        /\ driven' \in BOOLEAN /\ redriven' \in BOOLEAN
    BY <1>1, LatchType
  <1>3. /\ flushed' \in BOOLEAN /\ render' \in {"idle", "gate", "draw"}
        /\ status' \in Statuses /\ inbounds' \in 0..MaxInbounds
        /\ writer' \in [at : {"idle", "set", "hook", "drive", "forget"},
                        next : {"set", "idle"}]
        /\ apply' \in BOOLEAN
    <2> USE DisplayConstants
        DEF TypeOK, SkipDraw, WriterAt, WriterGoto, Statuses, renderVars, statusVars
    <2>1. CASE Flush BY <2>1 DEF Flush
    <2>2. CASE Gate BY <2>2 DEF Gate
    <2>3. CASE FlushDone BY <2>3 DEF FlushDone
    <2>4. CASE Inbound BY <2>4 DEF Inbound
    <2>5. CASE Raise BY <2>5 DEF Raise
    <2>6. CASE Hook BY <2>6 DEF Hook
    <2>7. CASE HookActs BY <2>7 DEF HookActs
    <2>8. CASE NetworkStatus BY <2>8 DEF NetworkStatus
    <2>9. CASE ApplyDrives BY <2>9 DEF ApplyDrives
    <2> QED BY <2>1, <2>2, <2>3, <2>4, <2>5, <2>6, <2>7, <2>8, <2>9
  <1>4. ArbiterTypeOK'
    BY <1>1 DEF EmoteOnly, arbiterVars, TypeOK, ArbiterTypeOK
  <1> QED BY <1>1, <1>2, <1>3, <1>4 DEF TypeOK, EmoteOnly, scriptVars, sessionVars

LEMMA ToldType ==
    ASSUME TypeOK, NEW c \in Callers, OwnerChanged(c)
    PROVE  TypeOK'
  <1>1. /\ lastDriven' \in Statuses /\ shown' \in Statuses
        /\ driven' \in BOOLEAN /\ redriven' \in BOOLEAN
    BY LatchType DEF OwnerChanged
  <1>2. ArbiterTypeOK'
    BY DEF OwnerChanged, TypeOK, ArbiterTypeOK
  <1> QED BY <1>1, <1>2 DEF OwnerChanged, TypeOK, scriptVars, sessionVars, renderVars,
             statusVars

LEMMA TypeStep ==
    ASSUME TypeOK, [Next]_vars
    PROVE  TypeOK'
  <1>1. CASE UNCHANGED vars
    BY <1>1 DEF vars, arbiterVars, scriptVars, sessionVars, renderVars, statusVars,
       latchVars, TypeOK, ArbiterTypeOK
  <1> QED BY <1>1, ToldType, ScriptType, SessionType, EmoteType DEF Next, EmoteAction

\* Every variable keeps its type, for any number of scripts.
THEOREM TypeCorrect == Spec => []TypeOK
  BY TypeInit, TypeStep, PTL DEF Spec
-----------------------------------------------------------------------------
(* What each kind of step leaves alone.                                     *)

LEMMA StepKinds ==
    ASSUME [Next]_vars
    PROVE  \/ \E c \in Callers : OwnerChanged(c)
           \/ \E s \in Scripts : ScriptStep(s)
           \/ Press \/ SessionStep
           \/ EmoteAction
           \/ UNCHANGED vars
  BY DEF Next, EmoteAction

\* What a script does to the arbiter and to the latch.
LEMMA ScriptKeeps ==
    ASSUME NEW s \in Scripts, ScriptStep(s)
    PROVE  /\ ScriptOnly
           /\ \/ UNCHANGED <<arbiterVars, latchVars>>
              \/ Free(s) /\ Tenure /\ (AcquireLua(s) \/ ReleaseLua(s))
  BY DEF ScriptStep, StartScript, DisplayInit, HalCreate, DisplayDeinit, Release,
     EndScript, CleanupDestroy, AtScript, arbiterVars, latchVars

\* What a session does to them.
LEMMA SessionKeeps ==
    ASSUME Press \/ SessionStep
    PROVE  /\ UNCHANGED scriptVars /\ UNCHANGED statusVars /\ render' = render
           /\ \/ UNCHANGED <<arbiterVars, latchVars>>
              \/ /\ Free(Launcher) /\ Tenure
                 /\ AcquireSetup(Launcher) \/ ReleaseSetup(Launcher)
  BY DEF SessionStep, SessionOnly, renderVars, Press, Launch, OpenSession, Suspend, Prime,
     Drain, StopDrawing, Resume, CloseSession, AtSession, arbiterVars, latchVars

LEMMA EmoteKeeps ==
    ASSUME EmoteAction
    PROVE  EmoteOnly
  BY DEF EmoteAction, EmoteStep, Flush, Gate, FlushDone, Raise, Hook, HookActs,
     ApplyDrives, Inbound, NetworkStatus
-----------------------------------------------------------------------------
(* The arbiter's two fields agree.                                          *)

LEMMA ArbiterHeld ==
    ASSUME ArbiterTypeOK, OwnerIsHeld, NEW c \in Callers,
           \/ AcquireLua(c) \/ ReleaseLua(c) \/ AcquireSetup(c) \/ ReleaseSetup(c)
    PROVE  OwnerIsHeld'
  BY DEF ArbiterTypeOK, OwnerIsHeld, AcquireLua, ReleaseLua, AcquireSetup, ReleaseSetup,
     ChangeOwner, HasHold, MayOpenSetup, arbiterVars, Owners

\* display_arbiter.c: whatever scripts and sessions do in turns, Lua owns the
\* display exactly while a hold is not released.
THEOREM LuaOwnsWhatItHolds == Spec => []OwnerIsHeld
  <1>1. Init => OwnerIsHeld
    BY DEF Init, ArbiterInit, OwnerIsHeld
  <1>2. TypeOK /\ OwnerIsHeld /\ [Next]_vars => OwnerIsHeld'
    <2> SUFFICES ASSUME TypeOK, OwnerIsHeld, [Next]_vars PROVE OwnerIsHeld'
      OBVIOUS
    <2>1. /\ ArbiterTypeOK /\ Scripts \subseteq Callers /\ Launcher \in Callers
      BY DisplayConstants DEF TypeOK
    <2>2. UNCHANGED <<owner, depth>> => OwnerIsHeld'
      BY DEF OwnerIsHeld
    <2>3. ASSUME NEW s \in Scripts, ScriptStep(s) PROVE OwnerIsHeld'
      BY <2>1, <2>2, <2>3, ScriptKeeps, ArbiterHeld DEF arbiterVars
    <2>4. CASE Press \/ SessionStep
      BY <2>1, <2>2, <2>4, SessionKeeps, ArbiterHeld DEF arbiterVars
    <2>5. CASE EmoteAction
      BY <2>2, <2>5, EmoteKeeps DEF EmoteOnly, arbiterVars
    <2> QED BY <2>2, <2>3, <2>4, <2>5, StepKinds DEF OwnerChanged, vars, arbiterVars
  <1> QED BY <1>1, <1>2, TypeCorrect, PTL DEF Spec
-----------------------------------------------------------------------------
(* A session's drain.                                                       *)

\* From raising the gate to lowering it emote is suspended; a completion found
\* after the prime-take is of a flush that ended after the gate was up; and once
\* such a completion was taken, no flush gets past the gate.
Drained ==
    /\ session \in {"prime", "drain", "draw", "resume"} => suspended
    /\ session = "drain" /\ flushed => render = "idle"
    /\ session = "draw" /\ ~late => render = "idle"

LEMMA DrainedBySession ==
    ASSUME Drained, Press \/ SessionStep
    PROVE  Drained'
  <1> USE DEF Drained, AtSession, SessionOnly, renderVars
  <1>1. CASE Press BY <1>1 DEF Press
  <1>2. CASE Launch BY <1>2 DEF Launch
  <1>3. CASE OpenSession BY <1>3 DEF OpenSession
  <1>4. CASE Suspend BY <1>4 DEF Suspend
  <1>5. CASE Prime BY <1>5 DEF Prime, TakesStale
  <1>6. CASE Drain BY <1>6 DEF Drain
  <1>7. CASE StopDrawing BY <1>7 DEF StopDrawing
  <1>8. CASE Resume BY <1>8 DEF Resume
  <1>9. CASE CloseSession BY <1>9 DEF CloseSession
  <1> QED BY <1>1, <1>2, <1>3, <1>4, <1>5, <1>6, <1>7, <1>8, <1>9 DEF SessionStep

LEMMA DrainedByEmote ==
    ASSUME Drained, EmoteAction
    PROVE  Drained'
  <1>1. UNCHANGED sessionVars
    BY EmoteKeeps DEF EmoteOnly
  <1>2. CASE Flush \/ Gate \/ FlushDone
    BY <1>1, <1>2 DEF Flush, Gate, FlushDone, SkipDraw, Drained, sessionVars
  <1>3. CASE ~(Flush \/ Gate \/ FlushDone)
    <2>1. UNCHANGED renderVars
      BY <1>3 DEF EmoteAction, EmoteStep, Raise, Hook, HookActs, ApplyDrives, Inbound,
         NetworkStatus
    <2> QED BY <1>1, <2>1 DEF Drained, sessionVars, renderVars
  <1> QED BY <1>2, <1>3

\* emote_suspend_for_session: a session whose drain did not time out has the
\* panel to itself, whoever owns it.
THEOREM DrainedSessionDrawsAlone == Spec => []SessionDrawsAlone
  <1>1. Init => Drained
    BY DEF Init, Drained
  <1>2. Drained /\ [Next]_vars => Drained'
    <2> SUFFICES ASSUME Drained, [Next]_vars PROVE Drained'
      OBVIOUS
    <2>1. UNCHANGED <<sessionVars, renderVars>> => Drained'
      BY DEF Drained, sessionVars, renderVars
    <2>2. ASSUME NEW s \in Scripts, ScriptStep(s) PROVE Drained'
      BY <2>1, <2>2, ScriptKeeps DEF ScriptOnly
    <2>3. ASSUME NEW c \in Callers, OwnerChanged(c) PROVE Drained'
      BY <2>1, <2>3 DEF OwnerChanged
    <2>4. UNCHANGED vars => Drained'
      BY <2>1 DEF vars
    <2> QED BY <2>2, <2>3, <2>4, DrainedBySession, DrainedByEmote, StepKinds
  <1>3. Drained => SessionDrawsAlone
    BY DEF Drained, SessionDrawsAlone
  <1> QED BY <1>1, <1>2, <1>3, PTL DEF Spec
-----------------------------------------------------------------------------
(* The status slot.                                                         *)

\* If emote owns the display and the slot does not show the status, then
\* somebody is on the way to drive it: the hook, or a caller that has yet to
\* tell emote that it got the display.  A hook that only clears the latch is
\* not one of them.
DriveIsOwed ==
    /\ lastDriven = shown
    /\ \/ shown = status
       \/ writer.at \in {"hook", "drive"}
       \/ owner # "emote"
       \/ \E c \in Callers : told[c] = "emote"

\* Every drive leaves the latest status on the slot.
LEMMA DriveShows ==
    ASSUME lastDriven = shown, status' = status, DriveLocked(TRUE) \/ DriveLocked(FALSE)
    PROVE  lastDriven' = shown' /\ shown' = status'
  BY DEF DriveLocked, UpToDate, latchVars

\* A caller that gives emote the display owes it a notification, and no call
\* drops one that somebody else owes.
LEMMA ArbiterOwes ==
    ASSUME TypeOK, DriveIsOwed, NEW c \in Callers, Free(c), Tenure, UNCHANGED statusVars,
           \/ AcquireLua(c) \/ ReleaseLua(c) \/ AcquireSetup(c) \/ ReleaseSetup(c)
    PROVE  DriveIsOwed'
  <1> USE DEF TypeOK, ArbiterTypeOK
  <1>1. lastDriven' = shown' /\ shown' = shown /\ status' = status /\ writer' = writer
    BY DEF Tenure, statusVars, DriveIsOwed
  <1>2. \/ owner' = owner /\ told' = told
        \/ \E o \in Owners : ChangeOwner(c, o)
    BY DEF AcquireLua, ReleaseLua, AcquireSetup, ReleaseSetup, arbiterVars, Owners
  <1>3. CASE owner' = owner /\ told' = told
    BY <1>1, <1>3 DEF DriveIsOwed
  <1>4. ASSUME NEW o \in Owners, ChangeOwner(c, o) PROVE DriveIsOwed'
    <2>1. CASE o = "emote"
      <3>1. told'[c] = "emote"
        BY <1>4, <2>1 DEF ChangeOwner
      <3> QED BY <1>1, <3>1 DEF DriveIsOwed
    <2>2. CASE o # "emote"
      BY <1>1, <1>4, <2>2 DEF ChangeOwner, DriveIsOwed
    <2> QED BY <2>1, <2>2
  <1> QED BY <1>2, <1>3, <1>4

LEMMA ToldOwes ==
    ASSUME TypeOK, DriveIsOwed, NEW c \in Callers, OwnerChanged(c)
    PROVE  DriveIsOwed'
  <1>1. UNCHANGED <<owner, status, writer>>
    BY DEF OwnerChanged, statusVars
  <1>2. CASE told[c] = "emote"
    BY <1>1, <1>2, DriveShows DEF OwnerChanged, DriveIsOwed
  <1>3. CASE told[c] # "emote"
    <2>1. lastDriven' = shown' /\ shown' = shown
      BY <1>3 DEF OwnerChanged, ClearLatch, DriveIsOwed
    <2>2. ASSUME NEW d \in Callers, told[d] = "emote" PROVE told'[d] = "emote"
      BY <1>3, <2>2 DEF OwnerChanged, TypeOK, ArbiterTypeOK
    <2> QED BY <1>1, <2>1, <2>2 DEF DriveIsOwed
  <1> QED BY <1>2, <1>3

LEMMA EmoteOwes ==
    ASSUME TypeOK, DriveIsOwed, EmoteAction
    PROVE  DriveIsOwed'
  <1>1. owner' = owner /\ told' = told
    BY EmoteKeeps DEF EmoteOnly, arbiterVars
  <1>2. CASE Flush \/ Gate \/ FlushDone \/ NetworkStatus
    BY <1>1, <1>2 DEF Flush, Gate, FlushDone, NetworkStatus, statusVars, latchVars, DriveIsOwed
  <1>3. CASE Inbound
    <2>1. lastDriven' = shown' /\ shown' = shown
      BY <1>3 DEF Inbound, latchVars, DriveIsOwed
    <2>2. CASE status = "notification"
      BY <1>3, <2>1, <2>2 DEF Inbound, WriterGoto, DriveIsOwed
    <2>3. CASE status # "notification"
      BY <1>1, <1>3, <2>1, <2>3 DEF Inbound, WriterAt, DriveIsOwed
    <2> QED BY <2>2, <2>3
  <1>4. CASE Raise
    BY <1>4 DEF Raise, WriterGoto, latchVars, DriveIsOwed
  <1>5. CASE Hook
    BY <1>1, <1>5 DEF Hook, WriterGoto, latchVars, DriveIsOwed
  <1>6. CASE HookActs
    <2>1. CASE WriterAt("drive")
      BY <1>6, <2>1, DriveShows DEF HookActs, WriterAt, DriveIsOwed
    <2>2. CASE WriterAt("forget")
      BY <1>1, <1>6, <2>2 DEF HookActs, WriterAt, ClearLatch, DriveIsOwed
    <2> QED BY <1>6, <2>1, <2>2 DEF HookActs
  <1>7. CASE ApplyDrives
    BY <1>7, DriveShows DEF ApplyDrives, DriveIsOwed
  <1> QED BY <1>2, <1>3, <1>4, <1>5, <1>6, <1>7 DEF EmoteAction, EmoteStep

\* emote.c: with any number of tasks changing the owner, and their notifications
\* arriving in any order, the latch never drops the latest status.
THEOREM LatestStatusIsShown == Spec => []LatestStatusShown
  <1>1. Init => DriveIsOwed
    BY DEF Init, DriveIsOwed
  <1>2. TypeOK /\ DriveIsOwed /\ [Next]_vars => DriveIsOwed'
    <2> SUFFICES ASSUME TypeOK, DriveIsOwed, [Next]_vars PROVE DriveIsOwed'
      OBVIOUS
    <2>1. Scripts \subseteq Callers /\ Launcher \in Callers
      BY DisplayConstants
    <2>2. UNCHANGED <<arbiterVars, latchVars, statusVars>> => DriveIsOwed'
      BY DEF DriveIsOwed, arbiterVars, latchVars, statusVars
    <2>3. ASSUME NEW s \in Scripts, ScriptStep(s) PROVE DriveIsOwed'
      BY <2>1, <2>2, <2>3, ScriptKeeps, ArbiterOwes DEF ScriptOnly
    <2>4. CASE Press \/ SessionStep
      BY <2>1, <2>2, <2>4, SessionKeeps, ArbiterOwes
    <2>5. UNCHANGED vars => DriveIsOwed'
      BY <2>2 DEF vars
    <2> QED BY <2>3, <2>4, <2>5, ToldOwes, EmoteOwes, StepKinds
  <1>3. DriveIsOwed => LatestStatusShown
    BY DisplayConstants DEF DriveIsOwed, LatestStatusShown, Settled, Free, WriterAt, Owners
  <1> QED BY <1>1, <1>2, <1>3, TypeCorrect, PTL DEF Spec
-----------------------------------------------------------------------------
(* Holds.                                                                   *)

\* As many inits are open as there are holds; a script that ended leaves none open,
\* and one in its cleanup has one at most, but for those that are said to leave some.
Counted == IsFiniteSet(holds) /\ depth <= Cardinality(holds)

GivesBack(s) ==
    s \notin leaves =>
        /\ script[s] = "ended" => Own(s) = {}
        /\ script[s] \in {"destroy", "last"} => \A g, h \in Own(s) : g = h

HoldsInv == Counted /\ \A s \in Scripts : GivesBack(s)

LEMMA OneLess ==
    ASSUME NEW A, NEW x, IsFiniteSet(A)
    PROVE  Cardinality(A \ {x}) >= Cardinality(A) - 1
  <1>1. Cardinality(A) \in Nat
    BY FS_CardinalityType
  <1>2. Cardinality(A \ {x}) = IF x \in A THEN Cardinality(A) - 1 ELSE Cardinality(A)
    BY FS_RemoveElement
  <1> QED BY <1>1, <1>2

\* Undoing an init takes one away, and the only one a script has.
LEMMA Undone ==
    ASSUME TypeOK, NEW s \in Scripts, UndoOne(s)
    PROVE  /\ \E h : holds' = holds \ {h}
           /\ \A g \in Own(s) : (\A h \in Own(s) : g = h) => holds' = holds \ {g}
  <1>1. CASE Own(s) = {}
    <2>1. \E h : h \notin holds
      <3>1. holds \subseteq Scripts \X Nat
        BY DEF TypeOK
      <3>2. <<s, -1>> \notin holds
        BY <3>1
      <3> QED BY <3>2
    <2>2. PICK h : h \notin holds
      BY <2>1
    <2>3. holds' = holds \ {h}
      BY <1>1, <2>2 DEF UndoOne
    <2> QED BY <1>1, <2>3
  <1>2. CASE Own(s) # {}
    <2>1. holds' = holds \ {CHOOSE h \in Own(s) : \A g \in Own(s) : g[2] <= h[2]}
      BY <1>2 DEF UndoOne
    <2>2. ASSUME NEW g \in Own(s), \A h \in Own(s) : g = h
          PROVE  g = CHOOSE h \in Own(s) : \A k \in Own(s) : k[2] <= h[2]
      <3>1. g[2] \in Nat
        BY DEF TypeOK, Own
      <3>2. g[2] <= g[2]
        BY <3>1
      <3>3. \A k \in Own(s) : k[2] <= g[2]
        BY <2>2, <3>2
      <3> QED BY <2>2, <3>3
    <2> QED BY <2>1, <2>2
  <1> QED BY <1>1, <1>2

\* What a step of s leaves of the inits of another script.
LEMMA OthersKeep ==
    ASSUME TypeOK, HoldsInv, NEW s \in Scripts, ScriptStep(s), NEW t \in Scripts, t # s,
           holds' \subseteq holds \cup {<<s, inits + 1>>}
    PROVE  GivesBack(t)'
  <1>1. script'[t] = script[t]
    BY DEF ScriptStep, StartScript, DisplayInit, HalCreate, DisplayDeinit, Release,
       EndScript, CleanupDestroy, GotoScript, TypeOK
  <1>2. leaves \subseteq leaves'
    BY DEF ScriptStep, StartScript, DisplayInit, HalCreate, DisplayDeinit, Release,
       EndScript, CleanupDestroy
  <1>3. Own(t)' \subseteq Own(t)
    BY DEF Own
  <1> QED BY <1>1, <1>2, <1>3 DEF HoldsInv, GivesBack

\* A script's init adds one hold and one init to undo; it gives one hold back when
\* it undoes an init, or has none to undo.
LEMMA ScriptHolds ==
    ASSUME TypeOK, OwnerIsHeld, HoldsInv, NEW s \in Scripts, ScriptStep(s)
    PROVE  HoldsInv'
  <1>1. /\ IsFiniteSet(holds) /\ Cardinality(holds) \in Nat
        /\ depth <= Cardinality(holds) /\ depth \in Nat
        /\ script \in [Scripts -> ScriptAt] /\ GivesBack(s)
    BY FS_CardinalityType DEF TypeOK, ArbiterTypeOK, HoldsInv, Counted
  <1>2. ASSUME holds' \subseteq holds \cup {<<s, inits + 1>>}, Counted', GivesBack(s)'
        PROVE  HoldsInv'
    BY <1>2, OthersKeep DEF HoldsInv
  <1>3. CASE StartScript(s) \/ HalCreate(s) \/ DisplayDeinit(s)
    <2>1. /\ holds' = holds /\ depth' = depth
          /\ script'[s] \notin {"ended", "destroy", "last"}
      BY <1>1, <1>3 DEF StartScript, HalCreate, DisplayDeinit, GotoScript, arbiterVars
    <2> QED BY <1>1, <1>2, <2>1 DEF Counted, GivesBack
  <1>4. CASE DisplayInit(s)
    <2>1. /\ holds' = holds \cup {<<s, inits + 1>>} /\ depth' = depth + 1
          /\ script'[s] = "create"
      BY <1>1, <1>4 DEF DisplayInit, GotoScript, AcquireLua
    <2>2. <<s, inits + 1>> \notin holds
      BY DEF TypeOK
    <2>3. IsFiniteSet(holds') /\ Cardinality(holds') = Cardinality(holds) + 1
      BY <1>1, <2>1, <2>2, FS_AddElement
    <2> QED BY <1>1, <1>2, <2>1, <2>3 DEF Counted, GivesBack
  <1>5. CASE Release(s)
    <2>1. /\ UndoOne(s) /\ leaves' = leaves /\ (depth' = depth - 1 \/ depth' = 0)
          /\ \/ script'[s] = "running"
             \/ script[s] = "last" /\ script'[s] = "ended"
      BY <1>1, <1>5 DEF Release, AtScript, GotoScript, ReleaseLua, HasHold, arbiterVars
    <2>2. PICK h : holds' = holds \ {h}
      BY <2>1, Undone
    <2>3. /\ IsFiniteSet(holds') /\ Cardinality(holds') >= Cardinality(holds) - 1
          /\ Cardinality(holds') \in Nat
      BY <1>1, <2>2, OneLess, FS_RemoveElement, FS_CardinalityType
    <2>4. Counted'
      BY <1>1, <2>1, <2>3 DEF Counted
    <2>5. GivesBack(s)'
      <3>1. CASE script'[s] = "running"
        BY <3>1 DEF GivesBack
      <3>2. CASE script[s] = "last" /\ script'[s] = "ended"
        <4> SUFFICES ASSUME s \notin leaves PROVE Own(s)' = {}
          BY <2>1, <3>2 DEF GivesBack
        <4>1. \A g, k \in Own(s) : g = k
          BY <1>1, <3>2 DEF GivesBack
        <4>2. \A g \in Own(s) : holds' = holds \ {g}
          BY <2>1, <4>1, Undone
        <4>3. ASSUME NEW g \in Own(s)' PROVE FALSE
          <5>1. g \in Own(s) /\ g \in holds'
            BY <2>2, <4>3 DEF Own
          <5> QED BY <4>2, <5>1
        <4> QED BY <4>3
      <3> QED BY <2>1, <3>1, <3>2
    <2> QED BY <1>2, <2>2, <2>4, <2>5
  <1>6. CASE EndScript(s)
    <2>1. /\ depth' = depth
          /\ holds' = IF OwnedByLua THEN holds ELSE holds \ Own(s)
          /\ script'[s] = IF OwnedByLua THEN "destroy" ELSE "ended"
          /\ s \notin leaves' => \A g, h \in Own(s) : g = h
      BY <1>1, <1>6 DEF EndScript, GotoScript, arbiterVars
    <2>2. CASE OwnedByLua
      <3>1. holds' = holds /\ script'[s] = "destroy"
        BY <2>1, <2>2
      <3> QED BY <1>1, <1>2, <2>1, <3>1 DEF Counted, GivesBack, Own
    <2>3. CASE ~ OwnedByLua
      <3>1. holds' = holds \ Own(s) /\ depth' = 0
        BY <1>1, <2>1, <2>3 DEF OwnedByLua, OwnerIsHeld
      <3>2. IsFiniteSet(holds') /\ Cardinality(holds') \in Nat
        BY <1>1, <3>1, FS_Subset, FS_CardinalityType
      <3>3. Own(s)' = {}
        BY <3>1 DEF Own
      <3> QED BY <1>2, <3>1, <3>2, <3>3 DEF Counted, GivesBack
    <2> QED BY <2>2, <2>3
  <1>7. CASE CleanupDestroy(s)
    <2>1. /\ depth' = depth /\ holds' = holds
          /\ \/ leaves' = leaves /\ script[s] = "destroy" /\ script'[s] = "last"
             \/ s \in leaves'
      BY <1>1, <1>7 DEF CleanupDestroy, AtScript, GotoScript, arbiterVars
    <2> QED BY <1>1, <1>2, <2>1 DEF Counted, GivesBack, Own
  <1> QED BY <1>3, <1>4, <1>5, <1>6, <1>7 DEF ScriptStep

\* lua_module_display.c and the end of cap_lua_runtime_execute_file, for any number
\* of scripts and of display.init calls in each: whichever script's hold a deinit
\* or a cleanup releases, there are never more holds than inits to undo.
THEOREM HoldsEndWithScripts == Spec => []NoHoldOutlivesScripts
  <1>1. Init => HoldsInv
    <2> SUFFICES ASSUME Init PROVE HoldsInv
      OBVIOUS
    <2>1. holds = {} /\ depth = 0
      BY DEF Init, ArbiterInit
    <2> QED BY <2>1, FS_EmptySet DEF HoldsInv, Counted, GivesBack, Own
  <1>2. TypeOK /\ OwnerIsHeld /\ HoldsInv /\ [Next]_vars => HoldsInv'
    <2> SUFFICES ASSUME TypeOK, OwnerIsHeld, HoldsInv, [Next]_vars
                 PROVE  HoldsInv'
      OBVIOUS
    <2>1. ArbiterTypeOK /\ Launcher \in Callers
      BY DisplayConstants DEF TypeOK
    <2>2. ASSUME UNCHANGED scriptVars, depth' = depth PROVE HoldsInv'
      BY <2>2 DEF HoldsInv, Counted, GivesBack, Own, scriptVars
    <2>3. ASSUME NEW s \in Scripts, ScriptStep(s) PROVE HoldsInv'
      BY <2>3, ScriptHolds
    <2>4. CASE Press \/ SessionStep
      <3>1. depth' = depth
        BY <2>4, SessionKeeps DEF AcquireSetup, ReleaseSetup, arbiterVars
      <3> QED BY <2>2, <2>4, <3>1, SessionKeeps
    <2>5. CASE EmoteAction
      BY <2>2, <2>5, EmoteKeeps DEF EmoteOnly, arbiterVars
    <2>6. ASSUME NEW c \in Callers, OwnerChanged(c) PROVE HoldsInv'
      BY <2>2, <2>6 DEF OwnerChanged
    <2>7. UNCHANGED vars => HoldsInv'
      BY <2>2 DEF vars, arbiterVars
    <2> QED BY <2>3, <2>4, <2>5, <2>6, <2>7, StepKinds
  <1>3. TypeOK /\ HoldsInv => NoHoldOutlivesScripts
    <2> SUFFICES ASSUME TypeOK, HoldsInv PROVE NoHoldOutlivesScripts
      OBVIOUS
    <2>1. ASSUME NEW h \in holds PROVE script[h[1]] # "ended" \/ h[1] \in leaves
      <3>1. h[1] \in Scripts /\ h \in Own(h[1])
        BY DEF TypeOK, Own
      <3> QED BY <3>1 DEF HoldsInv, GivesBack
    <2>2. holds = {h \in holds : script[h[1]] # "ended" \/ h[1] \in leaves}
      BY <2>1
    <2> QED BY <2>2 DEF HoldsInv, Counted, NoHoldOutlivesScripts
  <1> QED BY <1>1, <1>2, <1>3, TypeCorrect, LuaOwnsWhatItHolds, PTL DEF Spec
=============================================================================
