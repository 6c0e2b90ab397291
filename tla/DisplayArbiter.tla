--------------------------- MODULE DisplayArbiter ---------------------------
(***************************************************************************)
(* The display arbiter, components/common/display_arbiter: who owns the    *)
(* one LCD panel.  Emote, the idle face, owns it unless a Lua script or a  *)
(* setup session took it.  Every call changes the state under the mutex    *)
(* and, after it gave the mutex back, tells the owner-changed callback in  *)
(* the caller's own task: told[c] is what caller c has changed and not yet *)
(* told, and calls by different tasks may tell in another order than they  *)
(* changed.  The owner is read without the mutex.                          *)
(*                                                                         *)
(* Nobody calls acquire or release for EMOTE, and the 1 s limit on the     *)
(* mutex is never met: its holders do not wait.                            *)
(***************************************************************************)
EXTENDS Naturals

CONSTANTS
    Callers,        \* the tasks that call the arbiter
    None            \* nothing to tell

VARIABLES
    owner,          \* s_state.owner
    depth,          \* s_state.lua_depth
    told            \* per caller, the notification it owes

arbiterVars == <<owner, depth, told>>

Owners == {"lua", "emote", "setup"}

ArbiterTypeOK ==
    /\ owner \in Owners
    /\ depth \in Nat
    /\ told \in [Callers -> Owners \cup {None}]

ArbiterInit ==
    /\ owner = "emote"
    /\ depth = 0
    /\ told = [c \in Callers |-> None]

\* A caller is inside the arbiter until it has told the callback.
Free(c) == told[c] = None

ChangeOwner(c, o) ==
    /\ owner' = o
    /\ told' = [told EXCEPT ![c] = o]

\* display_arbiter_acquire(LUA): whoever owns the display loses it.
AcquireLua(c) ==
    /\ depth' = depth + 1
    /\ IF owner = "lua" THEN UNCHANGED <<owner, told>> ELSE ChangeOwner(c, "lua")

HasHold == depth > 0

\* display_arbiter_release(LUA): INVALID_STATE without a hold; the last one
\* gives the display to emote, whoever had it before.
ReleaseLua(c) ==
    IF HasHold
    THEN /\ depth' = depth - 1
         /\ IF depth = 1 /\ owner = "lua" THEN ChangeOwner(c, "emote")
            ELSE UNCHANGED <<owner, told>>
    ELSE UNCHANGED arbiterVars

MayOpenSetup == owner = "emote"

\* display_arbiter_acquire_setup, where it succeeds.
AcquireSetup(c) ==
    /\ MayOpenSetup
    /\ ChangeOwner(c, "setup")
    /\ UNCHANGED depth

\* display_arbiter_release_setup: INVALID_STATE for a session that lost the display.
ReleaseSetup(c) ==
    /\ IF owner = "setup" THEN ChangeOwner(c, "emote") ELSE UNCHANGED <<owner, told>>
    /\ UNCHANGED depth

\* Lua owns the display exactly as long as some hold is not released, although
\* setup sessions and scripts change the two fields (owner, lua_depth) in turns.
OwnerIsHeld == owner = "lua" <=> depth > 0
=============================================================================
