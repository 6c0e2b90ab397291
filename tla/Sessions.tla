------------------------------ MODULE Sessions ------------------------------
(* The conversations of a chat: which session a message goes to               *)
(* (cap_session_mgr), and the file that keeps the turns of a session          *)
(* (claw_memory_session).                                                     *)
(*                                                                            *)
(* A chat has a small file with the version of its session, which roll_chat_  *)
(* session counts up; a message is given its session when it is routed, and   *)
(* the agent takes it up later.  A session file begins with a header, a ring  *)
(* of the places of the last records, followed by all records ever written;   *)
(* a turn appends two and rewrites the header over the old one.  The file     *)
(* system brings the length of a file up to date only when it is closed, so a *)
(* power cut can leave header, contents and length of different ages.         *)
(*                                                                            *)
(* A record is a run of cells that only together are the record.  Left out:   *)
(* the shortening of texts, chats with one map file, and running out of       *)
(* memory; so a request that appends has loaded before.                       *)
EXTENDS Integers, Sequences, FiniteSets, SequencesExt

CONSTANTS
    Versions,     \* versions a chat's session can reach: 1..n
    Slots,        \* session_history_effective_max_slots
    Lengths,      \* lengths a record can have, in cells
    MaxTurns, MaxQueue, MaxFaults,   \* bounds
    None,         \* no file, no request
    Broken        \* a file whose contents cannot be read back

VARIABLES
    mapped,   \* the version in the chat's map file
    files,    \* the session files
    queue,    \* requests with their session, waiting for the agent
    turn,     \* the request the agent has loaded the history for, and that history
    turns, faults,    \* bounds: turns begun, power cuts and failed writes
    era,      \* history: how often a roll was answered
    log,      \* history: the records a session should have
    strayed   \* history: the map file was damaged or could not be written

vars == <<mapped, files, queue, turn, turns, faults, era, log, strayed>>

Fallback == 0   \* claw_event_router_build_session_id: a session with no version
Sessionids == Versions \cup {Fallback}
NoFile   == [head |-> None, body |-> <<>>]
NewHead  == [total |-> 0, at |-> <<>>]
Newest(s, n) == IF Len(s) <= n THEN s ELSE SubSeq(s, Len(s) - n + 1, Len(s))

-----------------------------------------------------------------------------
(* Session files.                                                             *)

\* mutant: a full ring is read from its first slot.
OldestFirst(head) == 0

\* session_history_retained_slot: the slot of the oldest record there is.
Oldest(head) == IF head.total < Slots THEN 0 ELSE head.total % Slots

Retained(head) == IF head.total < Slots THEN head.total ELSE Slots

\* The places the header tells, oldest first.
Places(head) ==
    [i \in 1..Retained(head) |-> head.at[((Oldest(head) + i - 1) % Slots) + 1]]

Cells(body, place) == SubSeq(body, place.off + 1, place.off + place.len)

Record(r, len) == [i \in 1..len |-> <<r, i, len>>]

\* What is at a place reads as one whole record.
Whole(body, place) ==
    /\ place.off + place.len <= Len(body)
    /\ Cells(body, place) = Record(body[place.off + 1][1], place.len)

\* claw_memory_session_load_json_alloc finds nothing wrong.
Readable(file) ==
    /\ file.head \notin {None, Broken}
    /\ \A i \in DOMAIN Places(file.head) : Whole(file.body, Places(file.head)[i])

Rendered(file) ==
    [i \in DOMAIN Places(file.head) |-> file.body[Places(file.head)[i].off + 1][1]]

\* session_history_append_indexed_record
Noted(head, off, len) ==
    LET slot == (head.total % Slots) + 1
    IN  [total |-> head.total + 1,
         at |-> IF slot > Len(head.at) THEN Append(head.at, [off |-> off, len |-> len])
                ELSE [head.at EXCEPT ![slot] = [off |-> off, len |-> len]]]

\* session_history_open_for_append: a header that cannot be read starts anew.
Opened(file) ==
    IF file.head \in {None, Broken} THEN [head |-> NewHead, body |-> <<>>] ELSE file

\* The file with a turn of two records more.
WithTurn(file, u, a, ulen, alen) ==
    LET end  == Len(Opened(file).body)
        head == Noted(Noted(Opened(file).head, end, ulen), end + ulen, alen)
    IN  [head |-> head, body |-> Opened(file).body \o Record(u, ulen) \o Record(a, alen)]

-----------------------------------------------------------------------------
(* Messages and rolls.                                                        *)

\* cap_session_mgr_read_version_locked: what cannot be read is no version.
Version == IF mapped \in {None, Broken} THEN 0 ELSE mapped

Fault == faults < MaxFaults /\ faults' = faults + 1

Ask(sid) == /\ Len(queue) < MaxQueue /\ turns < MaxTurns /\ turns' = turns + 1
            /\ queue' = Append(queue, [sid |-> sid, era |-> era, n |-> turns + 1])

\* cap_session_mgr_build_session_id: a chat with no version begins with the first;
\* when that cannot be written the message goes to the session without one.
Message ==
    /\ UNCHANGED <<files, turn, era, log>>
    /\ \/ /\ Ask(IF Version = 0 THEN 1 ELSE Version)
          /\ mapped' = IF Version = 0 THEN 1 ELSE mapped
          /\ UNCHANGED <<faults, strayed>>
       \/ /\ Version = 0 /\ Ask(Fallback) /\ Fault
          /\ mapped' \in {mapped, Broken} /\ strayed' = TRUE

NextVersion == Version + 1

\* cap_session_mgr_roll_locked; a failed write may have emptied the file.
Roll ==
    /\ NextVersion \in Versions
    /\ UNCHANGED <<files, queue, turn, turns, log>>
    /\ \/ mapped' = NextVersion /\ era' = era + 1 /\ UNCHANGED <<faults, strayed>>
       \/ Fault /\ mapped' \in {mapped, Broken} /\ strayed' = TRUE /\ UNCHANGED era

-----------------------------------------------------------------------------
(* A turn.                                                                    *)

\* The agent takes a request up and reads its history; a file that does not
\* read well is begun anew.
Load ==
    /\ turn = None /\ queue # <<>>
    /\ queue' = Tail(queue)
    /\ LET r    == Head(queue)
           file == files[r.sid]
           well == Readable(file)
       IN  /\ turn' = [req |-> r, shown |-> IF well THEN Rendered(file) ELSE <<>>]
           /\ files' = IF well \/ file.head = None THEN files
                       ELSE [files EXCEPT ![r.sid] = [head |-> NewHead, body |-> <<>>]]
           /\ log' = IF well THEN log ELSE [log EXCEPT ![r.sid] = <<>>]
    /\ UNCHANGED <<mapped, turns, faults, era, strayed>>

Said(who) == [n |-> turn.req.n, who |-> who, era |-> turn.req.era]

\* The turn is kept, or the request ended without one to keep.
KeepTurn(ulen, alen) ==
    /\ turn # None /\ turn' = None
    /\ LET v == turn.req.sid
       IN  /\ files' = [files EXCEPT ![v] =
                           WithTurn(@, Said("user"), Said("assistant"), ulen, alen)]
           /\ log' = [log EXCEPT ![v] = @ \o <<Said("user"), Said("assistant")>>]
    /\ UNCHANGED <<mapped, queue, turns, faults, era, strayed>>

Drop == /\ turn # None /\ turn' = None
        /\ UNCHANGED <<mapped, files, queue, turns, faults, era, log, strayed>>

\* A power cut while the turn is written: the contents up to some place, and
\* the header from before, from after or torn.  Requests are forgotten.
CutIntoTurn(ulen, alen) ==
    /\ turn # None /\ turn' = None /\ queue' = <<>> /\ Fault
    /\ LET v    == turn.req.sid
           old  == Opened(files[v])
           new  == WithTurn(files[v], Said("user"), Said("assistant"), ulen, alen)
           both == <<Said("user"), Said("assistant")>>
       IN  \E n \in Len(old.body)..Len(new.body), head \in {old.head, new.head, Broken} :
              /\ files' = [files EXCEPT ![v] = [head |-> head,
                                                body |-> SubSeq(new.body, 1, n)]]
              /\ log' = [log EXCEPT ![v] = IF head = new.head THEN @ \o both ELSE @]
    /\ UNCHANGED <<mapped, turns, era, strayed>>

\* A power cut at any other time, into a roll or into the starting anew of a file.
Cut ==
    /\ Fault /\ turn' = None /\ queue' = <<>>
    /\ \/ UNCHANGED <<mapped, files, strayed>>
       \/ mapped' = Broken /\ strayed' = TRUE /\ UNCHANGED files
       \/ /\ queue # <<>> /\ turn = None
          /\ LET v == Head(queue).sid
             IN  /\ files[v].head # None /\ ~Readable(files[v])
                 /\ files' = [files EXCEPT ![v] = [head |-> Broken, body |-> <<>>]]
          /\ UNCHANGED <<mapped, strayed>>
    /\ UNCHANGED <<turns, era, log>>

Init ==
    /\ mapped = None /\ files = [v \in Sessionids |-> NoFile]
    /\ queue = <<>> /\ turn = None /\ turns = 0 /\ faults = 0
    /\ era = 0 /\ log = [v \in Sessionids |-> <<>>] /\ strayed = FALSE

Next ==
    \/ Message \/ Roll \/ Load \/ Drop \/ Cut
    \/ \E ulen, alen \in Lengths : KeepTurn(ulen, alen) \/ CutIntoTurn(ulen, alen)

Spec == Init /\ [][Next]_vars

TypeOK ==
    /\ mapped \in Versions \cup {None, Broken}
    /\ \A v \in Sessionids : files[v].head \notin {None, Broken} =>
          Len(files[v].head.at) = Retained(files[v].head)
    /\ turn # None => Len(turn.shown) <= Slots

\* A session file that reads well tells the newest turns of its session in
\* order, none twice and none that was not had, and one that a power cut has
\* not been into reads well: header, places and records agree however the ring
\* has gone round and whatever earlier cuts left behind.
LoadTellsTheTurns ==
    \A v \in Sessionids :
        /\ Readable(files[v]) => Rendered(files[v]) = Newest(log[v], Slots)
        /\ faults = 0 /\ log[v] # <<>> => Readable(files[v])

\* After a roll was answered nothing said before is shown to a message sent
\* after it, also when requests from before are still answered (unless the map
\* file was damaged).  cap_session_mgr.c describes the roll as advancing the
\* chat to a fresh session.
RollStartsFresh ==
    turn # None /\ ~strayed => \A i \in DOMAIN turn.shown : turn.shown[i].era >= turn.req.era

\* The same when the map file is damaged.
RollIsForGood ==
    turn # None => \A i \in DOMAIN turn.shown : turn.shown[i].era >= turn.req.era
=============================================================================
