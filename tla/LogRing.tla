-------------------------------- MODULE LogRing --------------------------------
(* The log of a Lua job (cap_lua_async): a ring of LogSize bytes that keeps   *)
(* the end of what the script printed, and callers who read it in pieces, from *)
(* the position a former answer told them to go on from.                      *)
(*                                                                            *)
(* A byte is named by its position in the stream of everything printed, so    *)
(* that what is read can be compared with what was printed there.  The ring   *)
(* is appended to and read under the mutex of the job table; a text whose     *)
(* writer misses the mutex is not printed at all, as far as the ring goes.    *)
EXTENDS Integers, Sequences

CONSTANTS
    LogSize,   \* log_size
    Sizes,     \* the lengths of the texts a script prints
    Pieces,    \* the max_bytes a reader asks for
    None,      \* a byte of the ring that was never written
    MaxSeq     \* bound: bytes printed

ASSUME LogAssumption ==
    /\ LogSize \in Nat \ {0} /\ MaxSeq \in Nat
    /\ Sizes \subseteq Nat \ {0} /\ Pieces \subseteq Nat \ {0}

VARIABLES
    ring,       \* log_buf
    start,      \* log_start
    len,        \* log_len
    seq,        \* log_seq, 64 bits wide
    truncated,  \* log_truncated
    next,       \* the reader's log_next_seq
    answer      \* what the reader was told last

vars == <<ring, start, len, seq, truncated, next, answer>>

Cells == 0 .. LogSize - 1
Cell(i) == i % LogSize
NoAnswer == [from |-> 0, bytes |-> <<>>, truncated |-> FALSE]

Init ==
    /\ ring = [i \in Cells |-> None] /\ start = 0 /\ len = 0
    /\ seq = 0 /\ truncated = FALSE
    /\ next = 0 /\ answer = NoAnswer

\* cap_lua_log_copy_into_ring: n bytes from stream position first, put at cell
\* pos and, past the end, at the front.
Written(pos, first, n) ==
    [i \in Cells |->
        CASE pos <= i /\ i < pos + n                     -> first + (i - pos)
          [] i < pos /\ i + LogSize < pos + n            -> first + (i + LogSize - pos)
          [] OTHER                                       -> ring[i]]

\* A text at least as long as the ring replaces it by its end.
AppendLong(n) ==
    /\ n >= LogSize
    /\ ring' = [i \in Cells |-> seq + n - LogSize + i]
    /\ start' = 0 /\ len' = LogSize /\ truncated' = TRUE

Overflow(n) == IF len + n > LogSize THEN len + n - LogSize ELSE 0

Marked(n) == truncated \/ Overflow(n) > 0

\* A shorter one goes behind the last byte, over the oldest if there is no room.
AppendShort(n) ==
    /\ n < LogSize
    /\ start' = Cell(start + Overflow(n))
    /\ len' = len - Overflow(n) + n
    /\ truncated' = Marked(n)
    /\ ring' = Written(Cell(start' + (len - Overflow(n))), seq, n)

Log(n) ==
    /\ seq + n <= MaxSeq
    /\ AppendLong(n) \/ AppendShort(n)
    /\ seq' = seq + n
    /\ UNCHANGED <<next, answer>>

Earliest == seq - len

\* mutant: a position before the ring is read as if it were in it.
FromUnclamped(since) == IF since > seq THEN seq ELSE since

\* mutant: the oldest byte is left out.
FromSecond(since) == IF since <= Earliest THEN Earliest + 1
                     ELSE IF since > seq THEN seq ELSE since

From(since) == IF since < Earliest THEN Earliest
               ELSE IF since > seq THEN seq ELSE since

\* cap_lua_async_copy_log_range_locked
Copied(since, most) ==
    LET from == From(since)
        n    == IF seq - from > most THEN most ELSE seq - from
        src  == Cell(start + (from - Earliest))
    IN  IF len = 0 THEN [from |-> seq, bytes |-> <<>>, truncated |-> truncated]
        ELSE [from |-> from,
              bytes |-> [k \in 1 .. n |-> ring[Cell(src + (k - 1))]],
              truncated |-> truncated \/ since < Earliest]

\* cap_lua_async_tail_job: a reader goes on from where it was, or takes the end, or
\* comes with a position from another job's log.
Read(since, most) ==
    /\ answer' = Copied(since, most)
    /\ next' = answer'.from + Len(answer'.bytes)
    /\ UNCHANGED <<ring, start, len, seq, truncated>>

Next ==
    \/ \E n \in Sizes : Log(n)
    \/ \E most \in Pieces :
         \/ Read(next, most)
         \/ Read(IF seq > most THEN seq - most ELSE 0, most)
         \/ Read(seq + 1, most)

Spec == Init /\ [][Next]_vars

-----------------------------------------------------------------------------
(* Properties.                                                                *)

\* Every variable keeps its type.
TypeOK ==
    /\ ring \in [Cells -> Nat \cup {None}] /\ start \in Cells
    /\ len \in 0 .. LogSize /\ seq \in Nat /\ truncated \in BOOLEAN
    /\ next \in Nat
    /\ answer.from \in Nat /\ answer.bytes \in Seq(Nat) /\ answer.truncated \in BOOLEAN

\* The ring holds the end of what was printed, byte for byte, wherever it starts
\* and however the texts wrapped.
RingHoldsTail ==
    \A k \in 0 .. len - 1 : ring[Cell(start + k)] = Earliest + k

\* Every byte a reader gets is the one that was printed at its position.
AnswerIsPrinted ==
    \A k \in 1 .. Len(answer.bytes) : answer.bytes[k] = answer.from + k - 1

\* A reader that goes on from where it was skips bytes only if the answer says
\* that older text was lost.
GapsAreTold ==
    [][\A most \in Pieces :
         Read(next, most) => answer'.from = next \/ answer'.truncated]_vars

\* Bytes that are lost are marked.
LossIsMarked == seq > len => truncated

\* What the skill manual says of log_truncated: it is true if older text was
\* overwritten.
MarkMeansLoss == truncated => seq > len
=============================================================================
