--------------------------------- MODULE Camera ---------------------------------
(* The camera of Lua scripts (lua_module_camera_service.c and its binding):   *)
(* one device, whose buffers go round between the driver, a capture and a     *)
(* frame object that a script borrows one with.  Every call runs under a      *)
(* mutex that others wait two seconds for, while opening waits up to thirty   *)
(* for the sensor to settle and a capture five for a frame.                   *)
(*                                                                            *)
(* Left out: formats and sizes, and the encoder, which is made with the first *)
(* opening and may fail like any other step.                                  *)
EXTENDS Naturals, FiniteSets

CONSTANTS
    Scripts,       \* that run at the same time
    Buffers,       \* CAMERA_BUFFER_COUNT; named by their address
    Settle,        \* CAMERA_STREAM_SETTLE_FRAMES
    None,
    MaxCalls, MaxFaults    \* bounds

VARIABLES
    opened, settled, borrowed,    \* s_camera; borrowed_ptr or None
    queued,    \* buffers the driver fills
    lock,      \* who holds s_camera.lock
    at,        \* per script: where its call is
    buffer,    \* per script: the buffer its capture took, or the frame it gives back
    frames,    \* per script: the frame objects it has not released
    heap,      \* JPEG pictures on the heap
    calls, faults,    \* bounds
    strayed    \* history: a frame object outlived the opening it was borrowed in

cvars == <<opened, settled, borrowed, queued, lock, at, buffer, frames, heap, calls, faults,
           strayed>>

device  == <<opened, settled, borrowed, queued>>
Goes(s, place) == at' = [at EXCEPT ![s] = place]
Holds(s, place) == lock = s /\ at[s] = place
Unlocks(s, place) == lock' = None /\ Goes(s, place)
Fault   == faults < MaxFaults /\ faults' = faults + 1
NoFault == UNCHANGED faults
Known   == UNION {frames[s] : s \in Scripts}

\* camera_close_locked: all buffers are unmapped, whoever looks at them.
Closes ==
    /\ opened' = FALSE /\ settled' = 0 /\ borrowed' = None /\ queued' = {}
    /\ strayed' = (strayed \/ Known # {})

Fails(s) == Fault /\ Closes /\ Unlocks(s, "idle")
-----------------------------------------------------------------------------
\* A script calls open, get_frame, capture, release or close.
Calls(s) ==
    /\ at[s] = "idle" /\ calls < MaxCalls /\ calls' = calls + 1
    /\ \/ \E op \in {"open", "frame", "jpeg", "close"} : Goes(s, op) /\ UNCHANGED buffer
       \/ \E b \in frames[s] : Goes(s, "release") /\ buffer' = [buffer EXCEPT ![s] = b]
    /\ UNCHANGED <<device, lock, frames, heap, faults, strayed>>

Locked == [open |-> "opening", frame |-> "asks", jpeg |-> "asks", close |-> "closing",
           release |-> "releasing", free |-> "freeing"]
Waits(s) == at[s] \in DOMAIN Locked

\* camera_lock
Take(s) ==
    /\ Waits(s) /\ lock = None /\ lock' = s /\ Goes(s, Locked[at[s]])
    /\ buffer' = [buffer EXCEPT ![s] = IF at[s] = "frame" THEN "frame"
                                       ELSE IF at[s] = "jpeg" THEN "jpeg" ELSE @]
    /\ UNCHANGED <<device, frames, heap, calls, faults, strayed>>

\* Where the holder may stay for more than two seconds.
Long == {"settling", "waiting"}

\* The wait for the mutex ends: the call fails, a release forgets its frame, and a
\* picture is freed after all.
GivesUp(s) ==
    /\ Waits(s) /\ lock # None /\ at[lock] \in Long /\ Goes(s, "idle")
    /\ frames' = [frames EXCEPT ![s] = IF at[s] = "release" THEN @ \ {buffer[s]} ELSE @]
    /\ heap' = IF at[s] = "free" THEN heap - 1 ELSE heap
    /\ UNCHANGED <<device, lock, buffer, calls, faults, strayed>>

\* camera_open_locked: any of its steps may fail, and all is closed again.
Open(s) ==
    /\ Holds(s, "opening")
    /\ \/ opened /\ Unlocks(s, "idle") /\ UNCHANGED <<device, faults, strayed>>
       \/ /\ ~opened /\ opened' = TRUE /\ queued' = Buffers /\ settled' = 0 /\ Goes(s, "settling")
          /\ UNCHANGED <<borrowed, lock, faults, strayed>>
       \/ ~opened /\ Fails(s)
    /\ UNCHANGED <<buffer, frames, heap, calls>>

\* camera_settle_stream_locked: one frame, which may be no good, goes round; without
\* one in time, or if it cannot be given back, the camera is closed.
Settles(s) ==
    /\ Holds(s, "settling")
    /\ \/ /\ \/ settled' = settled + 1 /\ NoFault
             \/ Fault /\ UNCHANGED settled
          /\ IF settled' = Settle THEN Unlocks(s, "idle") ELSE UNCHANGED <<lock, at>>
          /\ UNCHANGED <<opened, borrowed, queued, strayed>>
       \/ Fails(s)
    /\ UNCHANGED <<buffer, frames, heap, calls>>

\* mutant: a frame is taken although one is out.
AnyTime == opened

MayTake == opened /\ borrowed = None

\* camera_get_frame_locked
Asks(s) ==
    /\ Holds(s, "asks") /\ IF MayTake THEN Goes(s, "waiting") /\ UNCHANGED lock
                           ELSE Unlocks(s, "idle")
    /\ UNCHANGED <<device, buffer, frames, heap, calls, faults, strayed>>

\* camera_capture_frame: the frame goes to a new object of the script.
Borrows(s, b) ==
    /\ buffer[s] = "frame" /\ borrowed' = b /\ queued' = queued \ {b}
    /\ frames' = [frames EXCEPT ![s] = @ \union {b}] /\ Unlocks(s, "idle")
    /\ UNCHANGED <<opened, settled, buffer, heap, strayed>>

\* camera_capture_jpeg: the frame is encoded and given back at once.
Encodes(s, b) ==
    /\ buffer[s] = "jpeg" /\ buffer' = [buffer EXCEPT ![s] = b]
    /\ queued' = queued \ {b} /\ Goes(s, "encoding")
    /\ UNCHANGED <<opened, settled, borrowed, lock, frames, heap, strayed>>

\* A frame comes; one that is no good goes back, and another is waited for until the
\* time is up.  Without a frame, or if it cannot be given back, the camera is closed.
Gets(s) ==
    /\ Holds(s, "waiting")
    /\ \/ /\ NoFault /\ \E b \in queued : Borrows(s, b) \/ Encodes(s, b)
       \/ /\ Fault /\ \/ Unlocks(s, "idle")
                      \/ UNCHANGED <<lock, at>>
          /\ UNCHANGED <<device, buffer, frames, heap, strayed>>
       \/ Fails(s) /\ UNCHANGED <<buffer, frames, heap>>
    /\ UNCHANGED calls

GivesBack(s) ==
    /\ Holds(s, "encoding")
    /\ \/ queued' = queued \union {buffer[s]} /\ heap' = heap + 1 /\ Unlocks(s, "write") /\ NoFault
          /\ UNCHANGED <<opened, settled, borrowed, strayed>>
       \/ queued' = queued \union {buffer[s]} /\ Fault /\ Unlocks(s, "idle")
          /\ UNCHANGED <<opened, settled, borrowed, heap, strayed>>
       \/ Fails(s) /\ UNCHANGED heap
    /\ UNCHANGED <<buffer, frames, calls>>

\* camera.capture: the file is written, or not, and the picture freed.
Writes(s) ==
    /\ at[s] = "write" /\ Goes(s, "free") /\ buffer' = [buffer EXCEPT ![s] = "picture"]
    /\ UNCHANGED <<device, lock, frames, heap, calls, faults, strayed>>

\* mutant: whatever is borrowed is given back.
AnyFrame(ptr) == borrowed # None

IsOut(ptr) == borrowed # None /\ borrowed = ptr

\* camera_release_frame
Releases(s) ==
    /\ Holds(s, "releasing")
    /\ frames' = [frames EXCEPT ![s] = @ \ {buffer[s]}]
    /\ \/ /\ IsOut(buffer[s]) /\ borrowed' = None /\ queued' = queued \union {borrowed}
          /\ Unlocks(s, "idle") /\ UNCHANGED <<opened, settled, faults, strayed>>
       \/ ~IsOut(buffer[s]) /\ Unlocks(s, "idle") /\ UNCHANGED <<device, faults, strayed>>
       \/ /\ IsOut(buffer[s]) /\ Fault /\ Unlocks(s, "idle")
          /\ opened' = FALSE /\ settled' = 0 /\ borrowed' = None /\ queued' = {}
          /\ strayed' = (strayed \/ Known # {buffer[s]})
    /\ UNCHANGED <<buffer, heap, calls>>

\* camera_free_buffer of a picture, which calls camera_release_frame first and frees
\* only what that refuses: with no frame out the picture is not freed.
Frees(s) ==
    /\ Holds(s, "freeing") /\ Unlocks(s, "idle")
    /\ \/ IsOut(buffer[s]) /\ borrowed' = None /\ queued' = queued \union {borrowed} /\ UNCHANGED heap
       \/ /\ ~IsOut(buffer[s]) /\ heap' = IF borrowed = None THEN heap ELSE heap - 1
          /\ UNCHANGED <<borrowed, queued>>
    /\ UNCHANGED <<opened, settled, buffer, frames, calls, faults, strayed>>

Close(s) ==
    /\ Holds(s, "closing") /\ Closes /\ Unlocks(s, "idle")
    /\ UNCHANGED <<buffer, frames, heap, calls, faults>>

\* A script ends, or drops its frames: lua_module_camera_frame_gc releases one.
Drops(s) ==
    \E b \in frames[s] :
        /\ at[s] = "idle" /\ Goes(s, "release") /\ buffer' = [buffer EXCEPT ![s] = b]
        /\ UNCHANGED <<device, lock, frames, heap, calls, faults, strayed>>

Init ==
    /\ opened = FALSE /\ settled = 0 /\ borrowed = None /\ queued = {} /\ lock = None
    /\ at = [s \in Scripts |-> "idle"] /\ buffer = [s \in Scripts |-> "frame"]
    /\ frames = [s \in Scripts |-> {}] /\ heap = 0 /\ calls = 0 /\ faults = 0
    /\ strayed = FALSE

Works(s) == Take(s) \/ Open(s) \/ Settles(s) \/ Asks(s) \/ Gets(s) \/ GivesBack(s)
              \/ Writes(s) \/ Releases(s) \/ Frees(s) \/ Close(s)

Next == \E s \in Scripts : Calls(s) \/ Works(s) \/ GivesUp(s) \/ Drops(s)

Spec == Init /\ [][Next]_cvars
-----------------------------------------------------------------------------
TypeOK ==
    /\ opened \in BOOLEAN /\ settled \in 0..Settle /\ borrowed \in Buffers \union {None}
    /\ queued \subseteq Buffers /\ lock \in Scripts \union {None} /\ heap \in Nat
    /\ frames \in [Scripts -> SUBSET Buffers]

\* While the camera is open no buffer gets lost between the driver, a capture and a
\* frame object: else the stream runs dry.
BuffersGoRound ==
    lock = None => queued = (IF opened THEN Buffers \ {borrowed} ELSE {})

\* The frame that is out is the one of the one frame object there is, through releases
\* that wait for the mutex, pictures that are freed and scripts that end; as long as no
\* object outlives the opening it comes from.
FrameHasOwner ==
    ~strayed => /\ Known = {borrowed} \ {None}
                /\ \A s, u \in Scripts : s # u => frames[s] \intersect frames[u] = {}

\* A demonstration: a picture that was written to its file is freed.
PicturesAreFreed == (\A s \in Scripts : at[s] = "idle") => heap = 0

\* A demonstration: a frame object reads its frame until it is released, and nobody
\* else gives it back.
FramesAreReadable == Known \subseteq {borrowed}
=============================================================================
