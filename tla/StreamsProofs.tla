----------------------------- MODULE StreamsProofs -----------------------------
(* What is passed on piece by piece.  LogRing for every ring size, text       *)
(* length and piece: the ring holds the end of the stream, and what a reader  *)
(* gets is what was printed.  The gateways and the login for every traffic,   *)
(* queue, ring and number of faults and orders: an update, frame or event     *)
(* that comes again is published once, and the tasks keep to their queues.    *)
(*                                                                            *)
(* An index into the log is below twice its size before it is wrapped, so     *)
(* that wrapping takes the size off at most once (CellValue); all else about  *)
(* the log is linear.                                                         *)
EXTENDS MCStreams, SequenceTheorems, FiniteSetTheorems, TLAPS

\* The invariant: types, bytes that are in the ring were printed, the ring is
\* the end of the stream, and an answer is a piece of it.
IInv ==
    /\ TypeOK
    /\ len <= seq /\ next <= seq
    /\ RingHoldsTail
    /\ AnswerIsPrinted
    /\ LossIsMarked

\* Wrapping an index that is below twice the size.
LEMMA CellValue ==
    ASSUME NEW a \in Nat, a < 2 * LogSize
    PROVE  /\ a < LogSize => Cell(a) = a
           /\ LogSize <= a => Cell(a) = a - LogSize
           /\ Cell(a) \in 0 .. LogSize - 1
<1>. USE LogAssumption DEF Cell
<1>1. a < LogSize => Cell(a) = a
  BY Z3
<1>2. LogSize <= a => Cell(a) = a - LogSize
  BY Z3
<1>3. Cell(a) \in 0 .. LogSize - 1
  BY SMT
<1>. QED
  BY <1>1, <1>2, <1>3

\* The cell of the k-th byte, reached in two steps or in one.
LEMMA CellTwice ==
    ASSUME NEW a \in 0 .. LogSize - 1, NEW b \in Nat, NEW c \in Nat, b + c < LogSize
    PROVE  Cell(Cell(a + b) + c) = Cell(a + (b + c))
<1>. USE LogAssumption
<1>1. a + b \in Nat /\ a + b < 2 * LogSize
  OBVIOUS
<1>2. a + (b + c) \in Nat /\ a + (b + c) < 2 * LogSize
  OBVIOUS
<1>3. Cell(a + b) + c \in Nat /\ Cell(a + b) + c < 2 * LogSize
  BY <1>1, CellValue
<1>4. CASE a + b < LogSize
  BY <1>1, <1>4, CellValue
<1>5. CASE a + b >= LogSize
  <2>1. Cell(a + b) = (a + b) - LogSize
    BY <1>1, <1>5, CellValue
  <2>2. Cell(Cell(a + b) + c) = Cell(a + b) + c
    BY <1>3, <2>1, CellValue
  <2>3. Cell(a + (b + c)) = a + (b + c) - LogSize
    BY <1>2, <1>5, CellValue
  <2>. QED
    BY <2>1, <2>2, <2>3
<1>. QED
  BY <1>4, <1>5

\* The initial ring is empty.
LEMMA InitInv == Init => IInv
BY LogAssumption
   DEF Init, IInv, TypeOK, RingHoldsTail, AnswerIsPrinted, LossIsMarked, NoAnswer, Cells

\* A text longer than the ring leaves its end in it.
LEMMA LongStep ==
    ASSUME IInv, NEW n \in Nat \ {0}, AppendLong(n), seq' = seq + n,
           UNCHANGED <<next, answer>>
    PROVE  IInv'
<1>. USE LogAssumption
<1>1. ring' \in [Cells -> Nat \cup {None}] /\ start' = 0 /\ len' = LogSize /\ truncated'
  BY DEF AppendLong, IInv, TypeOK, Cells
<1>2. TypeOK'
  BY <1>1 DEF IInv, TypeOK, Cells
<1>3. RingHoldsTail'
  <2>. SUFFICES ASSUME NEW k \in 0 .. LogSize - 1
                PROVE  ring'[Cell(0 + k)] = seq' - LogSize + k
    BY <1>1 DEF RingHoldsTail, Earliest
  <2>1. Cell(0 + k) = k
    BY CellValue, k < 2 * LogSize
  <2>. QED
    BY <2>1 DEF AppendLong, Cells, IInv, TypeOK
<1>4. len' <= seq'
  BY <1>1 DEF AppendLong, IInv, TypeOK
<1>5. AnswerIsPrinted' /\ LossIsMarked'
  BY <1>1 DEF IInv, AnswerIsPrinted, LossIsMarked
<1>6. next' <= seq'
  BY DEF IInv, TypeOK
<1>. QED
  BY <1>2, <1>3, <1>4, <1>5, <1>6 DEF IInv

\* The cells of the bytes that are kept are not written; those behind them are,
\* in order.
LEMMA Regions ==
    ASSUME NEW st \in 0 .. LogSize - 1, NEW kept \in Nat, NEW n \in Nat \ {0},
           kept + n <= LogSize, NEW k \in 0 .. kept + n - 1,
           NEW pos, pos = Cell(st + kept), NEW i, i = Cell(st + k)
    PROVE  /\ i \in 0 .. LogSize - 1 /\ pos \in 0 .. LogSize - 1
           /\ k < kept => ~(pos <= i /\ i < pos + n) /\ ~(i < pos /\ i + LogSize < pos + n)
           /\ k >= kept => \/ pos <= i /\ i < pos + n /\ i - pos = k - kept
                           \/ /\ i < pos /\ i + LogSize < pos + n
                              /\ i + LogSize - pos = k - kept
<1>. USE LogAssumption
<1>1. /\ st + kept \in Nat /\ st + kept < 2 * LogSize
      /\ st + k \in Nat /\ st + k < 2 * LogSize
  OBVIOUS
<1>2. /\ st + kept < LogSize => pos = st + kept
      /\ st + kept >= LogSize => pos = st + kept - LogSize
      /\ pos \in 0 .. LogSize - 1
  BY <1>1, CellValue
<1>3. /\ st + k < LogSize => i = st + k
      /\ st + k >= LogSize => i = st + k - LogSize
      /\ i \in 0 .. LogSize - 1
  BY <1>1, CellValue
<1>. QED
  BY <1>2, <1>3

\* What the copy of n bytes to cell pos leaves in the cells.
LEMMA WrittenCells ==
    ASSUME IInv, NEW pos \in 0 .. LogSize - 1, NEW n \in Nat \ {0}
    PROVE  /\ Written(pos, seq, n) \in [Cells -> Nat \cup {None}]
           /\ \A i \in 0 .. LogSize - 1 :
                 /\ pos <= i /\ i < pos + n => Written(pos, seq, n)[i] = seq + (i - pos)
                 /\ i < pos /\ i + LogSize < pos + n
                      => Written(pos, seq, n)[i] = seq + (i + LogSize - pos)
                 /\ ~(pos <= i /\ i < pos + n) /\ ~(i < pos /\ i + LogSize < pos + n)
                      => Written(pos, seq, n)[i] = ring[i]
<1>. USE LogAssumption
<1>1. seq \in Nat /\ ring \in [Cells -> Nat \cup {None}]
  BY DEF IInv, TypeOK
<1>2. ASSUME NEW i \in 0 .. LogSize - 1
      PROVE  /\ Written(pos, seq, n)[i] \in Nat \cup {None}
             /\ pos <= i /\ i < pos + n => Written(pos, seq, n)[i] = seq + (i - pos)
             /\ i < pos /\ i + LogSize < pos + n
                  => Written(pos, seq, n)[i] = seq + (i + LogSize - pos)
             /\ ~(pos <= i /\ i < pos + n) /\ ~(i < pos /\ i + LogSize < pos + n)
                  => Written(pos, seq, n)[i] = ring[i]
  <2>1. CASE pos <= i /\ i < pos + n
    BY <1>1, <2>1 DEF Written, Cells
  <2>2. CASE i < pos /\ i + LogSize < pos + n
    BY <1>1, <2>2 DEF Written, Cells
  <2>3. CASE ~(pos <= i /\ i < pos + n) /\ ~(i < pos /\ i + LogSize < pos + n)
    BY <1>1, <2>3 DEF Written, Cells
  <2>. QED
    BY <2>1, <2>2, <2>3
<1>3. Written(pos, seq, n) = [i \in Cells |-> Written(pos, seq, n)[i]]
  BY DEF Written
<1>. QED
  BY <1>2, <1>3 DEF Cells

\* A shorter text goes behind the bytes that are kept and over none of them.
LEMMA ShortStep ==
    ASSUME IInv, NEW n \in Nat \ {0}, AppendShort(n), seq' = seq + n,
           UNCHANGED <<next, answer>>
    PROVE  IInv'
<1>. USE LogAssumption
<1>1. /\ len \in 0 .. LogSize /\ seq \in Nat /\ start \in 0 .. LogSize - 1
      /\ n < LogSize /\ len <= seq /\ truncated \in BOOLEAN
      /\ ring \in [Cells -> Nat \cup {None}]
  BY DEF IInv, TypeOK, Cells, AppendShort
<1>2. PICK over \in Nat : over = Overflow(n)
  <2>1. Overflow(n) \in Nat
    BY <1>1 DEF Overflow
  <2>. QED
    BY <2>1
<1>3. PICK kept \in Nat : kept = len - over /\ kept + n <= LogSize
  BY <1>1, <1>2 DEF Overflow
<1>4. start' = Cell(start + over) /\ len' = kept + n
  BY <1>2, <1>3 DEF AppendShort
<1>5. start' \in 0 .. LogSize - 1
  <2>1. start + over \in Nat /\ start + over < 2 * LogSize
    BY <1>1, <1>2, <1>3
  <2>. QED
    BY <1>4, <2>1, CellValue
<1>6. PICK pos \in 0 .. LogSize - 1 : pos = Cell(start' + kept)
  <2>1. start' + kept \in Nat /\ start' + kept < 2 * LogSize
    BY <1>3, <1>5
  <2>. QED
    BY <2>1, CellValue
<1>7. ring' = Written(pos, seq, n)
  BY <1>2, <1>3, <1>6 DEF AppendShort
<1>8. TypeOK'
  <2>1. len' \in 0 .. LogSize /\ start' \in Cells /\ seq' \in Nat /\ truncated' \in BOOLEAN
    BY <1>1, <1>3, <1>4, <1>5 DEF AppendShort, Marked, Cells
  <2>2. ring' \in [Cells -> Nat \cup {None}]
    BY <1>7, WrittenCells
  <2>. QED
    BY <2>1, <2>2 DEF IInv, TypeOK
<1>9. ASSUME NEW k \in 0 .. kept + n - 1
      PROVE  ring'[Cell(start' + k)] = seq - kept + k
  <2>0. PICK i : i = Cell(start' + k)
    OBVIOUS
  <2>1. /\ i \in 0 .. LogSize - 1
        /\ k < kept => ~(pos <= i /\ i < pos + n) /\ ~(i < pos /\ i + LogSize < pos + n)
        /\ k >= kept => \/ pos <= i /\ i < pos + n /\ i - pos = k - kept
                        \/ /\ i < pos /\ i + LogSize < pos + n
                           /\ i + LogSize - pos = k - kept
    BY <1>3, <1>5, <1>6, <2>0, Regions
  <2>2. CASE k < kept
    <3>1. ring'[i] = ring[i]
      BY <1>7, <2>1, <2>2, WrittenCells
    <3>2. /\ k \in Nat /\ over + k < LogSize /\ over + k \in 0 .. len - 1
          /\ seq - len + (over + k) = seq - kept + k
      BY <1>1, <1>3, <2>2
    <3>3. i = Cell(start + (over + k))
      <4>1. Cell(Cell(start + over) + k) = Cell(start + (over + k))
        <5>1. /\ start \in 0 .. LogSize - 1 /\ over \in Nat /\ k \in Nat
              /\ over + k < LogSize
          BY <1>1, <1>2, <3>2
        <5>. QED
          BY ONLY <5>1, CellTwice
      <4>. QED
        BY <1>4, <2>0, <4>1
    <3>4. ring[Cell(start + (over + k))] = seq - len + (over + k)
      BY <3>2 DEF IInv, RingHoldsTail, Earliest
    <3>. QED
      BY <2>0, <3>1, <3>2, <3>3, <3>4
  <2>3. CASE k >= kept
    <3>1. ring'[i] = seq + (k - kept)
      <4>1. CASE pos <= i /\ i < pos + n /\ i - pos = k - kept
        BY <1>7, <2>1, <4>1, WrittenCells
      <4>2. CASE /\ i < pos /\ i + LogSize < pos + n
                 /\ i + LogSize - pos = k - kept
        <5>1. i \in 0 .. LogSize - 1 /\ i < pos /\ i + LogSize < pos + n
          BY <2>1, <4>2
        <5>2. Written(pos, seq, n)[i] = seq + (i + LogSize - pos)
          BY <5>1, WrittenCells
        <5>. QED
          BY <1>7, <4>2, <5>2
      <4>. QED
        BY <2>1, <2>3, <4>1, <4>2
    <3>. QED
      BY <1>1, <1>3, <2>0, <3>1
  <2>. QED
    BY <1>3, <2>2, <2>3
<1>10. RingHoldsTail'
  <2>1. seq' - len' = seq - kept
    BY <1>1, <1>3, <1>4
  <2>2. 0 .. len' - 1 = 0 .. kept + n - 1
    BY <1>4
  <2>. QED
    BY <1>9, <2>1, <2>2 DEF RingHoldsTail, Earliest
<1>11. len' <= seq'
  BY <1>1, <1>3, <1>4
<1>12. LossIsMarked'
  <2>1. CASE over > 0
    BY <1>2, <2>1 DEF AppendShort, Marked, LossIsMarked
  <2>2. CASE over = 0
    BY <1>1, <1>3, <1>4, <2>2 DEF AppendShort, Marked, LossIsMarked, IInv
  <2>. QED
    BY <2>1, <2>2
<1>13. AnswerIsPrinted'
  BY DEF IInv, AnswerIsPrinted
<1>14. next' <= seq'
  BY <1>1 DEF IInv, TypeOK
<1>. QED
  BY <1>8, <1>10, <1>11, <1>12, <1>13, <1>14 DEF IInv

\* A reader gets the bytes of the stream from the position it is told.
LEMMA ReadStep ==
    ASSUME IInv, NEW since \in Nat, NEW most \in Pieces, Read(since, most)
    PROVE  /\ IInv'
           /\ since <= seq => answer'.from = since \/ answer'.truncated
<1>. USE LogAssumption
<1>. DEFINE from == From(since)
            off  == from - Earliest
            n    == IF seq - from > most THEN most ELSE seq - from
            src  == Cell(start + off)
<1>1. /\ len \in 0 .. LogSize /\ seq \in Nat /\ start \in 0 .. LogSize - 1
      /\ len <= seq /\ truncated \in BOOLEAN /\ most \in Nat
  BY DEF IInv, TypeOK, Cells
<1>2. CASE len = 0
  <2>1. answer' = [from |-> seq, bytes |-> <<>>, truncated |-> truncated]
    BY <1>2 DEF Read, Copied
  <2>2. TypeOK'
    BY <1>1, <2>1 DEF IInv, TypeOK, Read
  <2>3. AnswerIsPrinted'
    BY <2>1 DEF AnswerIsPrinted
  <2>4. next' <= seq'
    BY <1>1, <2>1 DEF Read
  <2>5. IInv'
    BY <2>2, <2>3, <2>4 DEF IInv, Read, RingHoldsTail, LossIsMarked, Earliest
  <2>6. since <= seq => answer'.from = since \/ answer'.truncated
    BY <1>1, <1>2, <2>1 DEF IInv, LossIsMarked
  <2>. QED
    BY <2>5, <2>6
<1>3. CASE len > 0
  <2>1. /\ from \in Nat /\ off \in 0 .. len /\ n \in Nat /\ off + n <= len
        /\ from = seq - len + off
    BY <1>1, <1>3 DEF From, Earliest
  <2>2. answer' = [from |-> from,
                   bytes |-> [k \in 1 .. n |-> ring[Cell(src + (k - 1))]],
                   truncated |-> truncated \/ since < Earliest]
    BY <1>3 DEF Read, Copied
  <2>3. ASSUME NEW k \in 1 .. n
        PROVE  ring[Cell(src + (k - 1))] = from + k - 1
    <3>. HIDE DEF off, n, from
    <3>1. k - 1 \in Nat /\ off + (k - 1) < len /\ off \in Nat
      BY <1>1, <2>1
    <3>2. Cell(src + (k - 1)) = Cell(start + (off + (k - 1)))
      BY <1>1, <3>1, CellTwice, off + (k - 1) < LogSize
    <3>3. src \in Int
      BY <1>1, <2>1, <3>1, CellValue, start + off \in Nat, start + off < 2 * LogSize
    <3>4. ring[Cell(start + (off + (k - 1)))] = seq - len + (off + (k - 1))
      BY <1>1, <3>1, off + (k - 1) \in 0 .. len - 1 DEF IInv, RingHoldsTail, Earliest
    <3>. QED
      BY <1>1, <2>1, <3>2, <3>4
  <2>. HIDE DEF from, off, n, src
  <2>4. answer'.bytes \in Seq(Nat) /\ Len(answer'.bytes) = n
    <3>1. [k \in 1 .. n |-> ring[Cell(src + (k - 1))]] \in Seq(Nat)
      BY <2>1, <2>3
    <3>2. Len([k \in 1 .. n |-> ring[Cell(src + (k - 1))]]) = n
      BY <2>1
    <3>. QED
      BY <2>2, <3>1, <3>2
  <2>5. AnswerIsPrinted'
    <3>. SUFFICES ASSUME NEW k \in 1 .. n
                  PROVE  answer'.bytes[k] = answer'.from + k - 1
      BY <2>4 DEF AnswerIsPrinted
    <3>. QED
      BY <2>2, <2>3
  <2>6. answer'.from \in Nat /\ answer'.truncated \in BOOLEAN /\ next' \in Nat
    BY <1>1, <2>1, <2>2, <2>4 DEF Read, Earliest
  <2>7. TypeOK'
    BY <2>4, <2>6 DEF IInv, TypeOK, Read
  <2>8. next' <= seq'
    BY <1>1, <2>1, <2>2, <2>4 DEF Read
  <2>9. IInv'
    BY <2>5, <2>7, <2>8 DEF IInv, Read, RingHoldsTail, LossIsMarked, Earliest
  <2>10. since <= seq => answer'.from = since \/ answer'.truncated
    <3>1. since <= seq => from = since \/ since < Earliest
      BY <1>1 DEF From, Earliest, from
    <3>. QED
      BY <2>2, <3>1
  <2>. QED
    BY <2>9, <2>10
<1>. QED
  BY <1>1, <1>2, <1>3

\* Every step keeps the invariant, and a reader that goes on skips nothing
\* unless it is told.
LEMMA StepInv == IInv /\ [Next]_vars => IInv'
<1>. SUFFICES ASSUME IInv, [Next]_vars PROVE IInv'
  OBVIOUS
<1>. USE LogAssumption
<1>1. ASSUME NEW n \in Sizes, Log(n) PROVE IInv'
  <2>1. n \in Nat \ {0}
    OBVIOUS
  <2>2. CASE AppendLong(n)
    BY <1>1, <2>1, <2>2, LongStep DEF Log
  <2>3. CASE AppendShort(n)
    BY <1>1, <2>1, <2>3, ShortStep DEF Log
  <2>. QED
    BY <1>1, <2>2, <2>3 DEF Log
<1>2. ASSUME NEW most \in Pieces, NEW since \in Nat, Read(since, most) PROVE IInv'
  BY <1>2, ReadStep
<1>3. ASSUME NEW most \in Pieces
      PROVE  /\ next \in Nat /\ seq + 1 \in Nat
             /\ (IF seq > most THEN seq - most ELSE 0) \in Nat
  BY DEF IInv, TypeOK
<1>4. CASE UNCHANGED vars
  BY <1>4 DEF vars, IInv, TypeOK, RingHoldsTail, AnswerIsPrinted, LossIsMarked, Earliest
<1>. QED
  BY <1>1, <1>2, <1>3, <1>4 DEF Next

\* The invariant holds in every reachable state.
LEMMA Invariance == Spec => []IInv
<1>. QED
  BY InitInv, StepInv, PTL DEF Spec

\* cap_lua_async_append_log_locked: the ring always holds the end of the stream,
\* whatever its size and the lengths of the texts.
THEOREM RingIsTail == Spec => []RingHoldsTail
<1>1. IInv => RingHoldsTail
  BY DEF IInv
<1>. QED
  BY <1>1, Invariance, PTL

\* cap_lua_async_copy_log_range_locked: what a reader gets was printed where it
\* is told.
THEOREM ReadersGetTheStream == Spec => []AnswerIsPrinted
<1>1. IInv => AnswerIsPrinted
  BY DEF IInv
<1>. QED
  BY <1>1, Invariance, PTL

\* cap_lua_async_tail_job: a reader that goes on from where it was misses nothing
\* that was printed, unless the answer says so.
THEOREM ReadersMissNothing == Spec => GapsAreTold
<1>1. IInv => [\A most \in Pieces :
                 Read(next, most) => answer'.from = next \/ answer'.truncated]_vars
  <2>. SUFFICES ASSUME IInv, NEW most \in Pieces, Read(next, most)
                PROVE  answer'.from = next \/ answer'.truncated
    OBVIOUS
  <2>1. next \in Nat /\ next <= seq
    BY DEF IInv, TypeOK
  <2>. QED
    BY <2>1, ReadStep
<1>. QED
  BY <1>1, Invariance, PTL DEF GapsAreTold

\* Bytes that were lost are marked as lost.
THEOREM LossesAreMarked == Spec => []LossIsMarked
<1>1. IInv => LossIsMarked
  BY DEF IInv
<1>. QED
  BY <1>1, Invariance, PTL

-----------------------------------------------------------------------------
(* Sequences without repetition.                                             *)

Different(s) == \A i, j \in 1..Len(s) : s[i] = s[j] => i = j

LEMMA OneMore ==
    ASSUME NEW S, NEW s \in Seq(S), NEW x \in S
    PROVE  /\ Append(s, x) \in Seq(S) /\ Len(Append(s, x)) = Len(s) + 1
           /\ \A i \in 1..Len(s) : Append(s, x)[i] = s[i]
           /\ Append(s, x)[Len(s) + 1] = x
           /\ \A i \in 1..Len(Append(s, x)) : i \in 1..Len(s) \/ i = Len(s) + 1
  <1>1. Len(s) \in Nat
    BY LenProperties
  <1> QED
    BY <1>1

LEMMA DifferentMore ==
    ASSUME NEW S, NEW s \in Seq(S), NEW x \in S, Different(s),
           \A i \in 1..Len(s) : s[i] # x
    PROVE  Different(Append(s, x))
  <1>1. PICK t : t = Append(s, x)
    OBVIOUS
  <1>2. /\ Len(s) \in Nat
        /\ \A i \in 1..Len(s) : t[i] = s[i]
        /\ t[Len(s) + 1] = x
        /\ \A i \in 1..Len(t) : i \in 1..Len(s) \/ i = Len(s) + 1
    BY <1>1, OneMore, LenProperties
  <1> QED
    BY <1>1, <1>2 DEF Different

-----------------------------------------------------------------------------
(* Rings of ids.                                                              *)

\* How many ids were written since cell i was, when the next cell is c.
Age(size, c, i) == IF i < c THEN (c - 1) - i ELSE ((c - 1) - i) + size

NextCell(size, c) == (c + 1) % size

\* The ring r of so many cells, the next one being c, after the ids D came in increasing
\* order, the last of them being top at most: what it forgot is older by as many ids as it
\* has cells.
Kept(size, r, c, top, D) ==
    /\ r \in [0..(size - 1) -> Nat] /\ c \in 0..(size - 1)
    /\ \A i \in 0..(size - 1) : r[i] # 0 => r[i] + Age(size, c, i) <= top
    /\ \A u \in D : /\ u \in Nat /\ 0 < u /\ u <= top
                    /\ (\E i \in 0..(size - 1) : r[i] = u) \/ u + size <= top

LEMMA CellsMove ==
    ASSUME NEW size \in Nat \ {0}, NEW c \in 0..(size - 1)
    PROVE  /\ NextCell(size, c) \in 0..(size - 1)
           /\ Age(size, NextCell(size, c), c) = 0
           /\ Age(size, c, c) = size - 1
           /\ \A i \in 0..(size - 1) :
                 /\ Age(size, c, i) \in 0..(size - 1)
                 /\ i # c => Age(size, NextCell(size, c), i) = Age(size, c, i) + 1
  <1>1. CASE c + 1 < size
    <2>1. (c + 1) % size = c + 1
      BY <1>1, Z3
    <2> QED
      BY <1>1, <2>1 DEF NextCell, Age
  <1>2. CASE c + 1 = size
    <2>1. (c + 1) % size = 0
      BY <1>2, Z3
    <2> QED
      BY <1>2, <2>1 DEF NextCell, Age
  <1> QED
    BY <1>1, <1>2

\* An id that comes later than all before it is written over the oldest one.
LEMMA IdIsKept ==
    ASSUME NEW size \in Nat \ {0}, NEW r, NEW c, NEW top \in Nat, NEW D,
           Kept(size, r, c, top, D), NEW m \in Nat, top < m
    PROVE  Kept(size, [r EXCEPT ![c] = m], NextCell(size, c), m, D \cup {m})
  <1>1. PICK q : q = [r EXCEPT ![c] = m]
    OBVIOUS
  <1>2. PICK d : d = NextCell(size, c)
    OBVIOUS
  <1>3. r \in [0..(size - 1) -> Nat] /\ c \in 0..(size - 1)
    BY DEF Kept
  <1>4. /\ q \in [0..(size - 1) -> Nat] /\ q[c] = m
        /\ \A i \in 0..(size - 1) : i # c => q[i] = r[i]
    BY <1>1, <1>3
  <1>5. /\ d \in 0..(size - 1) /\ Age(size, d, c) = 0 /\ Age(size, c, c) = size - 1
        /\ \A i \in 0..(size - 1) : /\ Age(size, c, i) \in 0..(size - 1)
                                    /\ i # c => Age(size, d, i) = Age(size, c, i) + 1
    BY <1>2, <1>3, CellsMove
  <1>6. ASSUME NEW i \in 0..(size - 1), q[i] # 0 PROVE q[i] + Age(size, d, i) <= m
    <2>1. CASE i = c
      BY <1>4, <1>5, <2>1
    <2>2. CASE i # c
      <3>1. r[i] # 0 /\ q[i] = r[i] /\ r[i] \in Nat
        BY <1>3, <1>4, <1>6, <2>2
      <3>2. r[i] + Age(size, c, i) <= top
        BY <3>1 DEF Kept
      <3> QED
        BY <1>5, <2>2, <3>1, <3>2
    <2> QED
      BY <2>1, <2>2
  <1>7. ASSUME NEW u \in D
        PROVE  /\ u \in Nat /\ 0 < u /\ u <= m
               /\ (\E i \in 0..(size - 1) : q[i] = u) \/ u + size <= m
    <2>1. /\ u \in Nat /\ 0 < u /\ u <= top
          /\ (\E i \in 0..(size - 1) : r[i] = u) \/ u + size <= top
      BY <1>7 DEF Kept
    <2>2. CASE u + size <= top
      BY <2>1, <2>2
    <2>3. CASE \E i \in 0..(size - 1) : i # c /\ r[i] = u
      BY <1>4, <2>1, <2>3
    <2>4. CASE r[c] = u
      <3>1. r[c] + Age(size, c, c) <= top
        BY <1>3, <2>1, <2>4 DEF Kept
      <3> QED
        BY <1>5, <2>1, <2>4, <3>1
    <2> QED
      BY <2>1, <2>2, <2>3, <2>4
  <1>8. \A u \in D \cup {m} : /\ u \in Nat /\ 0 < u /\ u <= m
                              /\ (\E i \in 0..(size - 1) : q[i] = u) \/ u + size <= m
    BY <1>3, <1>4, <1>7
  <1> QED
    BY <1>1, <1>2, <1>4, <1>5, <1>6, <1>8 DEF Kept

\* A later end makes no difference, nor do fewer ids.
LEMMA KeptLater ==
    ASSUME NEW size \in Nat \ {0}, NEW r, NEW c, NEW top \in Nat, NEW D,
           Kept(size, r, c, top, D), NEW m \in Nat, top <= m, NEW E, E \subseteq D
    PROVE  Kept(size, r, c, m, E)
  <1>1. r \in [0..(size - 1) -> Nat] /\ c \in 0..(size - 1)
    BY DEF Kept
  <1>2. \A i \in 0..(size - 1) : r[i] \in Nat /\ Age(size, c, i) \in 0..(size - 1)
    BY <1>1, CellsMove
  <1>3. ASSUME NEW i \in 0..(size - 1), r[i] # 0 PROVE r[i] + Age(size, c, i) <= m
    <2>1. r[i] + Age(size, c, i) <= top
      BY <1>3 DEF Kept
    <2> QED
      BY <1>2, <2>1
  <1>4. ASSUME NEW u \in E
        PROVE  /\ u \in Nat /\ 0 < u /\ u <= m
               /\ (\E i \in 0..(size - 1) : r[i] = u) \/ u + size <= m
    <2>1. /\ u \in Nat /\ 0 < u /\ u <= top
          /\ (\E i \in 0..(size - 1) : r[i] = u) \/ u + size <= top
      BY <1>4 DEF Kept
    <2> QED
      BY <2>1
  <1> QED
    BY <1>1, <1>3, <1>4 DEF Kept

\* What the ring shows came, and what came of late is shown.
LEMMA KeptShows ==
    ASSUME NEW size \in Nat \ {0}, NEW r, NEW c, NEW top \in Nat, NEW D,
           Kept(size, r, c, top, D), NEW u \in Nat, 0 < u
    PROVE  /\ top < u => ~(\E i \in DOMAIN r : r[i] = u)
           /\ u \in D /\ top < u + size => \E i \in DOMAIN r : r[i] = u
  <1>1. r \in [0..(size - 1) -> Nat] /\ c \in 0..(size - 1) /\ DOMAIN r = 0..(size - 1)
    BY DEF Kept
  <1>2. \A i \in 0..(size - 1) : Age(size, c, i) \in 0..(size - 1)
    BY <1>1, CellsMove
  <1>3. ASSUME top < u, NEW i \in DOMAIN r, r[i] = u PROVE FALSE
    <2>1. r[i] + Age(size, c, i) <= top
      BY <1>1, <1>3 DEF Kept
    <2> QED
      BY <1>1, <1>2, <1>3, <2>1
  <1>4. ASSUME u \in D, top < u + size PROVE \E i \in DOMAIN r : r[i] = u
    <2>1. (\E i \in 0..(size - 1) : r[i] = u) \/ u + size <= top
      BY <1>4 DEF Kept
    <2> QED
      BY <1>1, <1>4, <2>1
  <1> QED
    BY <1>3, <1>4

LEMMA EmptyRing ==
    ASSUME NEW size \in Nat \ {0}, NEW top \in Nat
    PROVE  Kept(size, [i \in 0..(size - 1) |-> 0], 0, top, {})
  <1>1. 0 \in 0..(size - 1)
    OBVIOUS
  <1> QED
    BY <1>1 DEF Kept

\* The numbers after lo up to hi.
Numbers(s, lo, hi) ==
    /\ lo <= hi /\ s \in Seq(Nat) /\ Len(s) = hi - lo
    /\ \A i \in 1..(hi - lo) : s[i] = lo + i

LEMMA OneLess ==
    ASSUME NEW s, NEW lo \in Nat, NEW hi \in Nat, Numbers(s, lo, hi), s # <<>>
    PROVE  Head(s) = lo + 1 /\ lo < hi /\ Numbers(Tail(s), lo + 1, hi)
  <1>1. s \in Seq(Nat) /\ Len(s) \in Nat /\ Len(s) = hi - lo /\ Len(s) # 0
    BY EmptySeq, LenProperties DEF Numbers
  <1>2. /\ Head(s) = s[1] /\ Tail(s) \in Seq(Nat) /\ Len(Tail(s)) = Len(s) - 1
        /\ \A i \in 1..(Len(s) - 1) : Tail(s)[i] = s[i + 1]
    BY <1>1, HeadTailProperties
  <1>3. lo < hi /\ 1 \in 1..(hi - lo) /\ lo + 1 <= hi /\ Len(s) - 1 = hi - (lo + 1)
    BY <1>1
  <1>4. \A i \in 1..(hi - (lo + 1)) : i + 1 \in 1..(hi - lo) /\ (lo + 1) + i = lo + (i + 1)
    BY <1>1
  <1>5. \A i \in 1..(hi - (lo + 1)) : Tail(s)[i] = (lo + 1) + i
    BY <1>1, <1>2, <1>3, <1>4 DEF Numbers
  <1> QED
    BY <1>2, <1>3, <1>5 DEF Numbers

LEMMA NumbersAre ==
    ASSUME NEW lo \in Nat, NEW n \in Nat
    PROVE  Numbers([i \in 1..n |-> lo + i], lo, lo + n)
  <1>1. PICK c : c = [i \in 1..n |-> lo + i]
    OBVIOUS
  <1>2. c \in [1..n -> Nat] /\ \A i \in 1..n : c[i] = lo + i
    BY <1>1
  <1>3. c \in Seq(Nat) /\ Len(c) = n
    BY <1>2, SeqDef, LenProperties
  <1>4. lo <= lo + n /\ (lo + n) - lo = n
    OBVIOUS
  <1> QED
    BY <1>1, <1>2, <1>3, <1>4 DEF Numbers

-----------------------------------------------------------------------------
(* Telegram.  Since the device was switched on, the gateway has looked at the *)
(* updates after low up to top: Telegram sends them in order, from the first  *)
(* one that it was not asked to forget.                                       *)

LookedAt(low, top) == {u \in (low + 1)..top : TgTraffic[u] # "other"}

TgRead(low, top) ==
    /\ sent \in Nat /\ sent <= Len(TgTraffic) /\ confirmed \in Nat
    /\ offset \in Nat /\ tgAsked \in Nat
    /\ poll \in {"off", "loop", "asked", "handle"}
    /\ low <= confirmed /\ confirmed <= top /\ top <= sent /\ top <= confirmed + TgBatchLen
    /\ offset <= top + 1 /\ tgAsked <= top + 1
    /\ 1..top \subseteq handled

\* What came since low is in the ring of ids or too old to come again.
TgMemory(low, top) == Kept(TgRingLen, cache, slot, top, LookedAt(low, top))

\* What is left of an answer begins with the update after the last one, or before.
TgBatch(top) ==
    poll = "handle" => \E h, e \in Nat :
        /\ Numbers(batch, h, e) /\ h < e /\ confirmed <= h /\ h <= top
        /\ e <= confirmed + TgBatchLen /\ e <= sent

Shown(low, top, n) == \A u \in T!Updates : /\ n[u] <= cuts + 1
                                           /\ u <= low \/ top < u => n[u] <= cuts

\* An attachment is in one place.
TgJobs(low, top) ==
    /\ jobs \in Seq(T!Updates) /\ hand \in [T!Workers -> {0} \cup T!Updates]
    /\ \A i \in 1..Len(jobs) : low < jobs[i] /\ jobs[i] <= top /\ saved[jobs[i]] <= cuts
    /\ \A i, j \in 1..Len(jobs) : jobs[i] = jobs[j] => i = j
    /\ \A k \in T!Workers : hand[k] # 0 =>
          /\ low < hand[k] /\ hand[k] <= top /\ saved[hand[k]] <= cuts
          /\ \A i \in 1..Len(jobs) : jobs[i] # hand[k]
          /\ \A l \in T!Workers : hand[l] = hand[k] => l = k

TgTold(low, top) ==
    /\ cuts \in Nat /\ texts \in [T!Updates -> Nat] /\ saved \in [T!Updates -> Nat]
    /\ Shown(low, top, texts) /\ Shown(low, top, saved)
    /\ TgJobs(low, top)

\* Unless a start met a task that a stop had given up, there is one at most.
TgTasks ==
    ~overrun =>
        /\ alive # {} => attached /\ queue
        /\ \A k, l \in alive : k = l

TgInv ==
    /\ TgTasks
    /\ \E low, top \in Nat :
          /\ TgRead(low, top) /\ TgBatch(top)
          /\ AnswersFitRing => TgMemory(low, top) /\ TgTold(low, top)

LEMMA TgLength == Len(TgTraffic) \in Nat /\ T!Updates = 1..Len(TgTraffic)
  BY TgAssumption, LenProperties DEF T!Updates

LEMMA TgLimits == TgRingLen \in Nat \ {0} /\ TgBatchLen \in Nat
  BY TgAssumption

LEMMA TgInit == ASSUME T!Init PROVE TgInv
  <1>1. TgRead(0, 0)
    <2>1. 0 <= TgBatchLen /\ 0 <= Len(TgTraffic)
      BY TgLimits, TgLength
    <2>2. 1..0 \subseteq handled /\ 0 <= 0 /\ 0 <= 0 + 1 /\ 0 <= 0 + TgBatchLen
      BY TgLimits
    <2>3. /\ sent = 0 /\ confirmed = 0 /\ offset = 0 /\ tgAsked = 0 /\ poll = "loop"
      BY DEF T!Init
    <2> QED
      BY <2>1, <2>2, <2>3 DEF TgRead
  <1>2. TgBatch(0)
    BY DEF TgBatch, T!Init
  <1>3. TgTold(0, 0)
    <2>1. jobs \in Seq(T!Updates) /\ Len(jobs) = 0
      BY DEF T!Init
    <2>2. hand = [k \in T!Workers |-> 0] /\ cuts = 0
      BY DEF T!Init
    <2>3. texts = [u \in T!Updates |-> 0] /\ saved = [u \in T!Updates |-> 0]
      BY DEF T!Init
    <2>4. TgJobs(0, 0)
      BY <2>1, <2>2 DEF TgJobs
    <2>5. Shown(0, 0, texts) /\ Shown(0, 0, saved)
      BY <2>2, <2>3 DEF Shown
    <2> QED
      BY <2>2, <2>3, <2>4, <2>5 DEF TgTold
  <1>4. TgMemory(0, 0)
    <2>1. LookedAt(0, 0) = {}
      BY DEF LookedAt
    <2>2. Kept(TgRingLen, cache, slot, 0, {})
      BY TgLimits, EmptyRing DEF T!Init, T!EmptyRing
    <2> QED
      BY <2>1, <2>2 DEF TgMemory
  <1>5. TgTasks
    BY DEF TgTasks, T!Init
  <1> QED
    BY <1>1, <1>2, <1>3, <1>4, <1>5 DEF TgInv

LEMMA TgReadSame ==
    ASSUME NEW low, NEW top, TgRead(low, top),
           UNCHANGED <<sent, confirmed, offset, tgAsked, handled>>,
           poll' \in {"off", "loop", "asked", "handle"}
    PROVE  TgRead(low, top)'
  BY DEF TgRead

LEMMA TgMemorySame ==
    ASSUME NEW low, NEW top, TgMemory(low, top), UNCHANGED <<cache, slot>>
    PROVE  TgMemory(low, top)'
  BY DEF TgMemory

LEMMA TgToldSame ==
    ASSUME NEW low, NEW top, TgTold(low, top), UNCHANGED <<texts, saved, cuts, jobs, hand>>
    PROVE  TgTold(low, top)'
  BY DEF TgTold, TgJobs, Shown

\* A queue that is deleted or made anew is empty.
LEMMA TgToldEmpty ==
    ASSUME NEW low, NEW top, TgTold(low, top), UNCHANGED <<texts, saved, cuts, hand>>,
           jobs' = <<>>
    PROVE  TgTold(low, top)'
  <1>1. jobs' \in Seq(T!Updates) /\ Len(jobs') = 0
    OBVIOUS
  <1>2. TgJobs(low, top)'
    BY <1>1 DEF TgJobs, TgTold
  <1> QED
    BY <1>2 DEF TgTold, Shown

LEMMA TgUserSends ==
    ASSUME NEW low \in Nat, NEW top \in Nat, TgRead(low, top), TgBatch(top), T!UserSends
    PROVE  TgRead(low, top)' /\ TgBatch(top)'
  <1>1. /\ UNCHANGED <<confirmed, offset, cache, slot, tgAsked, handled, poll, batch>>
        /\ sent' = sent + 1 /\ sent < Len(TgTraffic) /\ sent \in Nat
    BY DEF T!UserSends, T!poller, T!memory, T!told, TgRead
  <1>2. sent + 1 \in Nat /\ sent + 1 <= Len(TgTraffic) /\ top <= sent + 1
    BY <1>1, TgLength DEF TgRead
  <1>3. TgRead(low, top)'
    BY <1>1, <1>2 DEF TgRead
  <1>4. ASSUME NEW h \in Nat, NEW e \in Nat, e <= sent PROVE e <= sent'
    BY <1>1, <1>4
  <1>5. TgBatch(top)'
    BY <1>1, <1>4 DEF TgBatch
  <1> QED
    BY <1>3, <1>5

LEMMA TgAsk ==
    ASSUME NEW low \in Nat, NEW top \in Nat, TgRead(low, top), TgBatch(top), T!Ask
    PROVE  TgRead(low, top)' /\ TgBatch(top)'
  BY DEF T!Ask, T!server, T!memory, T!told, TgRead, TgBatch

LEMMA TgUpto ==
    ASSUME NEW low \in Nat, NEW top \in Nat, TgRead(low, top)
    PROVE  T!Upto \in Nat /\ confirmed <= T!Upto /\ T!Upto <= top
  BY DEF TgRead, T!Upto

LEMMA TgForgets ==
    ASSUME NEW low \in Nat, NEW top \in Nat, TgRead(low, top), confirmed' \in {confirmed, T!Upto},
           UNCHANGED <<sent, offset, tgAsked, handled>>,
           poll' \in {"off", "loop", "asked", "handle"}
    PROVE  TgRead(low, top)'
  <1>1. PICK c : c = confirmed'
    OBVIOUS
  <1>2. /\ c \in Nat /\ low <= c /\ c <= top
        /\ top <= c + TgBatchLen
    <2>1. T!Upto \in Nat /\ confirmed <= T!Upto /\ T!Upto <= top
      BY TgUpto
    <2>2. /\ confirmed \in Nat /\ low <= confirmed /\ confirmed <= top
          /\ top <= confirmed + TgBatchLen
      BY DEF TgRead
    <2>3. CASE c = confirmed
      BY <2>2, <2>3
    <2>4. CASE c = T!Upto
      BY <2>1, <2>2, <2>4, TgLimits
    <2> QED
      BY <1>1, <2>3, <2>4
  <1>3. /\ confirmed' \in Nat /\ low <= confirmed' /\ confirmed' <= top
        /\ top <= confirmed' + TgBatchLen
    BY <1>1, <1>2
  <1> QED
    BY <1>3 DEF TgRead

LEMMA TgAnswer ==
    ASSUME NEW low \in Nat, NEW top \in Nat, TgRead(low, top), T!Answer
    PROVE  TgRead(low, top)' /\ TgBatch(top)'
  <1>1. PICK c : c = confirmed'
    OBVIOUS
  <1>2. PICK n : n = T!Smaller(TgBatchLen, sent - c)
    OBVIOUS
  <1>3. /\ UNCHANGED <<sent, offset, cache, slot, tgAsked, handled>>
        /\ confirmed' \in {confirmed, T!Upto}
        /\ batch' = [i \in 1..n |-> c + i]
        /\ poll' = IF batch' = <<>> THEN "loop" ELSE "handle"
    BY <1>1, <1>2 DEF T!Answer, T!memory, T!told
  <1>4. TgRead(low, top)'
    BY <1>3, TgForgets
  <1>5. c \in Nat /\ c <= top /\ top <= sent /\ sent \in Nat
    BY <1>1, <1>3, <1>4 DEF TgRead
  <1>6. n \in Nat /\ n <= TgBatchLen /\ c + n <= sent
    <2>1. sent - c \in Nat
      BY <1>5
    <2> QED
      BY <1>2, <1>5, <2>1, TgLimits DEF T!Smaller
  <1>7. PICK e : e = c + n
    OBVIOUS
  <1>8. e \in Nat /\ e - c = n /\ e <= sent /\ e <= c + TgBatchLen
    BY <1>5, <1>6, <1>7, TgLimits
  <1>9. Numbers(batch', c, e)
    BY <1>3, <1>5, <1>6, <1>7, NumbersAre
  <1>10. ASSUME poll' = "handle" PROVE c < e
    <2>1. batch' # <<>>
      BY <1>3, <1>10
    <2>2. Len(batch') = e - c /\ batch' \in Seq(Nat)
      BY <1>9 DEF Numbers
    <2>3. Len(batch') # 0
      BY <2>1, <2>2, EmptySeq
    <2>4. n # 0
      BY <1>8, <2>2, <2>3
    <2> QED
      BY <1>5, <1>6, <1>7, <2>4
  <1>11. c <= c
    BY <1>5
  <1>12. TgBatch(top)'
    BY <1>1, <1>3, <1>5, <1>8, <1>9, <1>10, <1>11 DEF TgBatch
  <1> QED
    BY <1>4, <1>12

LEMMA TgNoAnswer ==
    ASSUME NEW low \in Nat, NEW top \in Nat, TgRead(low, top), T!NoAnswer
    PROVE  TgRead(low, top)' /\ TgBatch(top)'
  <1>1. TgRead(low, top)'
    BY TgForgets DEF T!NoAnswer, T!memory, T!told
  <1>2. TgBatch(top)'
    BY DEF T!NoAnswer, TgBatch
  <1> QED
    BY <1>1, <1>2

\* What becomes of the update that is looked at: it is new and comes after all others, or
\* it is known.
LEMMA TgHandles ==
    ASSUME NEW low \in Nat, NEW top \in Nat, TgRead(low, top), TgBatch(top), poll = "handle"
    PROVE  \E h, e \in Nat :
             /\ Head(batch) = h + 1 /\ Numbers(Tail(batch), h + 1, e) /\ h + 1 <= e
             /\ confirmed <= h /\ h <= top /\ e <= confirmed + TgBatchLen /\ e <= sent
             /\ h + 1 \in T!Updates
             /\ AnswersFitRing /\ TgMemory(low, top) =>
                   /\ h < top /\ TgTraffic[h + 1] # "other" => T!Seen(h + 1)
                   /\ h = top => ~T!Seen(h + 1)
  <1>1. PICK h, e \in Nat :
          /\ Numbers(batch, h, e) /\ h < e /\ confirmed <= h /\ h <= top
          /\ e <= confirmed + TgBatchLen /\ e <= sent
    BY DEF TgBatch
  <1>2. batch # <<>>
    <2>1. Len(batch) = e - h /\ e - h # 0
      BY <1>1 DEF Numbers
    <2> QED
      BY <2>1
  <1>3. Head(batch) = h + 1 /\ Numbers(Tail(batch), h + 1, e) /\ h + 1 <= e
    BY <1>1, <1>2, OneLess
  <1>4. h + 1 \in T!Updates
    BY <1>1, <1>3, TgLength DEF TgRead
  <1>5. low <= confirmed /\ confirmed \in Nat /\ top <= confirmed + TgBatchLen
    BY DEF TgRead
  <1>6. ASSUME AnswersFitRing, TgMemory(low, top), h < top, TgTraffic[h + 1] # "other"
        PROVE  T!Seen(h + 1)
    <2>1. h + 1 \in LookedAt(low, top)
      BY <1>1, <1>5, <1>6 DEF LookedAt
    <2>2. top < (h + 1) + TgRingLen
      BY <1>1, <1>5, <1>6, TgLimits DEF AnswersFitRing
    <2> QED
      BY <1>6, <2>1, <2>2, KeptShows, TgLimits DEF T!Seen, TgMemory
  <1>7. ASSUME TgMemory(low, top), h = top PROVE ~T!Seen(h + 1)
    <2>1. Kept(TgRingLen, cache, slot, top, LookedAt(low, top))
      BY <1>7 DEF TgMemory
    <2>2. top + 1 \in Nat /\ 0 < top + 1 /\ top < top + 1
      OBVIOUS
    <2>3. ~(\E i \in DOMAIN cache : cache[i] = top + 1)
      BY <2>1, <2>2, KeptShows, TgLimits
    <2> QED
      BY <1>7, <2>3 DEF T!Seen
  <1> QED
    BY <1>1, <1>3, <1>4, <1>6, <1>7

\* The update that comes next.
LEMMA TgNew ==
    ASSUME NEW low \in Nat, NEW top \in Nat, TgTold(low, top), low <= top,
           top + 1 \in T!Updates, UNCHANGED <<cuts, hand, saved>>,
           \/ UNCHANGED <<texts, jobs>>
           \/ texts' = [texts EXCEPT ![top + 1] = @ + 1] /\ UNCHANGED jobs
           \/ jobs' = Append(jobs, top + 1) /\ UNCHANGED texts
    PROVE  TgTold(low, top + 1)'
  <1>1. PICK u \in Nat : u = top + 1
    OBVIOUS
  <1>2. /\ cuts \in Nat /\ texts \in [T!Updates -> Nat] /\ saved \in [T!Updates -> Nat]
        /\ Shown(low, top, texts) /\ Shown(low, top, saved) /\ TgJobs(low, top)
    BY DEF TgTold
  <1>3. T!Updates \subseteq Nat
    BY TgLength
  <1>4. ASSUME NEW n \in [T!Updates -> Nat], Shown(low, top, n),
               NEW m, m = n \/ m = [n EXCEPT ![u] = @ + 1]
        PROVE  m \in [T!Updates -> Nat] /\ Shown(low, u, m)
    <2>1. m \in [T!Updates -> Nat]
      BY <1>4
    <2>2. ASSUME NEW v \in T!Updates
          PROVE  m[v] <= cuts + 1 /\ (v <= low \/ u < v => m[v] <= cuts)
      <3>1. n[v] <= cuts + 1 /\ (v <= low \/ top < v => n[v] <= cuts) /\ v \in Nat
            /\ n[v] \in Nat
        BY <1>3, <1>4 DEF Shown
      <3>2. CASE v = u
        <4>1. m[v] = n[v] \/ m[v] = n[v] + 1
          BY <1>4, <3>2
        <4> QED
          BY <1>1, <1>2, <3>1, <3>2, <4>1
      <3>3. CASE v # u
        <4>1. m[v] = n[v]
          BY <1>4, <3>3
        <4> QED
          BY <1>1, <3>1, <4>1
      <3> QED
        BY <3>2, <3>3
    <2> QED
      BY <2>1, <2>2 DEF Shown
  <1>5. texts' \in [T!Updates -> Nat] /\ Shown(low, u, texts')
    BY <1>1, <1>2, <1>4
  <1>6. saved' \in [T!Updates -> Nat] /\ Shown(low, u, saved')
    BY <1>1, <1>2, <1>4
  <1>7. /\ jobs \in Seq(T!Updates) /\ hand \in [T!Workers -> {0} \cup T!Updates]
        /\ \A i \in 1..Len(jobs) : low < jobs[i] /\ jobs[i] <= top /\ saved[jobs[i]] <= cuts
        /\ \A i, j \in 1..Len(jobs) : jobs[i] = jobs[j] => i = j
        /\ \A k \in T!Workers : hand[k] # 0 =>
              /\ low < hand[k] /\ hand[k] <= top /\ saved[hand[k]] <= cuts
              /\ \A i \in 1..Len(jobs) : jobs[i] # hand[k]
              /\ \A l \in T!Workers : hand[l] = hand[k] => l = k
    BY <1>2 DEF TgJobs
  <1>8. \A i \in 1..Len(jobs) : jobs[i] \in T!Updates /\ jobs[i] \in Nat /\ jobs[i] <= u
                                /\ jobs[i] # u
    <2> SUFFICES ASSUME NEW i \in 1..Len(jobs)
                 PROVE  jobs[i] \in T!Updates /\ jobs[i] \in Nat /\ jobs[i] <= u /\ jobs[i] # u
      OBVIOUS
    <2>1. jobs[i] \in T!Updates /\ jobs[i] <= top
      BY <1>7, ElementOfSeq
    <2>2. PICK v \in Nat : v = jobs[i]
      BY <1>3, <2>1
    <2>3. v <= u /\ v # u
      BY <1>1, <2>1, <2>2
    <2> QED
      BY <2>1, <2>2, <2>3
  <1>9. \A k \in T!Workers : hand[k] # 0 => hand[k] \in Nat /\ hand[k] <= u /\ hand[k] # u
    <2> SUFFICES ASSUME NEW k \in T!Workers, hand[k] # 0
                 PROVE  hand[k] \in Nat /\ hand[k] <= u /\ hand[k] # u
      OBVIOUS
    <2>1. hand[k] \in T!Updates /\ hand[k] <= top
      BY <1>7
    <2>2. PICK v \in Nat : v = hand[k]
      BY <1>3, <2>1
    <2>3. v <= u /\ v # u
      BY <1>1, <2>1, <2>2
    <2> QED
      BY <2>1, <2>2, <2>3
  <1>10. saved[u] <= cuts /\ low < u /\ u <= u
    <2>1. top < u
      BY <1>1
    <2> QED
      BY <1>1, <1>2, <2>1 DEF Shown
  <1>11. (TgJobs(low, u))'
    <2>1. CASE UNCHANGED jobs
      BY <1>7, <1>8, <1>9, <2>1 DEF TgJobs
    <2>2. CASE jobs' = Append(jobs, u)
      <3>1. PICK q : q = jobs'
        OBVIOUS
      <3>2. PICK n : n = Len(jobs)
        OBVIOUS
      <3>3. /\ q \in Seq(T!Updates) /\ Len(q) = n + 1 /\ q[n + 1] = u /\ n \in Nat
            /\ \A i \in 1..n : q[i] = jobs[i]
        BY <1>1, <1>7, <2>2, <3>1, <3>2, AppendProperties, LenProperties
      <3>4. \A i \in 1..(n + 1) : i \in 1..n \/ i = n + 1
        BY <3>3
      <3>5. \A i \in 1..(n + 1) : low < q[i] /\ q[i] <= u /\ saved[q[i]] <= cuts
        BY <1>7, <1>8, <1>10, <3>2, <3>3, <3>4
      <3>6. \A i, j \in 1..(n + 1) : q[i] = q[j] => i = j
        BY <1>7, <1>8, <3>2, <3>3, <3>4
      <3>7. \A k \in T!Workers : hand[k] # 0 => \A i \in 1..(n + 1) : q[i] # hand[k]
        BY <1>7, <1>9, <3>2, <3>3, <3>4
      <3> QED
        BY <1>7, <1>9, <3>1, <3>3, <3>5, <3>6, <3>7 DEF TgJobs
    <2> QED
      BY <1>1, <2>1, <2>2
  <1> QED
    BY <1>1, <1>2, <1>5, <1>6, <1>11 DEF TgTold, Shown

LEMMA TgHandle ==
    ASSUME NEW low \in Nat, NEW top \in Nat, TgRead(low, top), TgBatch(top),
           AnswersFitRing => TgMemory(low, top) /\ TgTold(low, top), T!HandleUpdate
    PROVE  \E new \in Nat :
              /\ TgRead(low, new)' /\ TgBatch(new)'
              /\ AnswersFitRing => TgMemory(low, new)' /\ TgTold(low, new)'
  <1>1. /\ poll = "handle" /\ batch' = Tail(batch) /\ handled' = handled \cup {Head(batch)}
        /\ poll' = IF Tail(batch) = <<>> THEN "loop" ELSE "handle"
        /\ UNCHANGED <<sent, confirmed, tgAsked, hand, saved, cuts>>
        /\ offset' = IF TgTraffic[Head(batch)] = "other" THEN offset
                     ELSE T!Greater(offset, T!After(Head(batch)))
    BY DEF T!HandleUpdate, T!server
  <1>2. PICK h, e \in Nat :
             /\ Head(batch) = h + 1 /\ Numbers(Tail(batch), h + 1, e) /\ h + 1 <= e
             /\ confirmed <= h /\ h <= top /\ e <= confirmed + TgBatchLen /\ e <= sent
             /\ h + 1 \in T!Updates
             /\ AnswersFitRing /\ TgMemory(low, top) =>
                   /\ h < top /\ TgTraffic[h + 1] # "other" => T!Seen(h + 1)
                   /\ h = top => ~T!Seen(h + 1)
    BY <1>1, TgHandles
  <1>3. /\ sent \in Nat /\ sent <= Len(TgTraffic) /\ confirmed \in Nat
        /\ offset \in Nat /\ tgAsked \in Nat
        /\ low <= confirmed /\ confirmed <= top /\ top <= sent /\ top <= confirmed + TgBatchLen
        /\ offset <= top + 1 /\ tgAsked <= top + 1
        /\ 1..top \subseteq handled
    BY DEF TgRead
  <1>4. ASSUME NEW new \in Nat, h + 1 <= new, top <= new
        PROVE  TgBatch(new)'
    <2>1. poll' = "handle" => h + 1 < e
      <3>1. Len(Tail(batch)) = e - (h + 1) /\ Tail(batch) \in Seq(Nat)
        BY <1>2 DEF Numbers
      <3>2. ASSUME poll' = "handle" PROVE Len(Tail(batch)) # 0
        BY <1>1, <3>1, <3>2, EmptySeq
      <3>3. ASSUME e = h + 1 PROVE Len(Tail(batch)) = 0
        BY <1>2, <3>1, <3>3
      <3> QED
        BY <1>2, <3>2, <3>3
    <2>2. confirmed <= h + 1 /\ h + 1 \in Nat
      BY <1>2, <1>3
    <2> QED
      BY <1>1, <1>2, <1>4, <2>1, <2>2 DEF TgBatch
  <1>5. PICK o : o = offset'
    OBVIOUS
  <1>6. o \in Nat /\ (o = offset \/ o = h + 2)
    BY <1>1, <1>2, <1>3, <1>5 DEF T!Greater, T!After
  <1>7. CASE h < top
    <2>1. o <= top + 1
      BY <1>2, <1>3, <1>6, <1>7
    <2>2. TgRead(low, top)'
      BY <1>1, <1>3, <1>5, <1>6, <2>1 DEF TgRead
    <2>3. TgBatch(top)'
      BY <1>4, <1>7
    <2>4. ASSUME AnswersFitRing PROVE TgMemory(low, top)' /\ TgTold(low, top)'
      <3>1. UNCHANGED <<cache, slot, texts, jobs>>
        <4>1. CASE TgTraffic[h + 1] = "other"
          BY <1>2, <4>1 DEF T!HandleUpdate
        <4>2. CASE TgTraffic[h + 1] # "other"
          BY <1>2, <1>7, <2>4, <4>2 DEF T!HandleUpdate
        <4> QED
          BY <4>1, <4>2
      <3> QED
        BY <1>1, <2>4, <3>1, TgMemorySame, TgToldSame
    <2> QED
      BY <2>2, <2>3, <2>4
  <1>8. CASE h = top
    <2>1. PICK u \in Nat : u = top + 1
      OBVIOUS
    <2>2. Head(batch) = u /\ u \in T!Updates /\ top < u /\ u <= sent
          /\ u <= confirmed + TgBatchLen /\ low < u
      BY <1>2, <1>3, <1>8, <2>1, TgLimits
    <2>3. o <= u + 1 /\ tgAsked <= u + 1 /\ confirmed <= u
      BY <1>3, <1>6, <1>8, <2>1
    <2>4. 1..u \subseteq handled'
      <3>1. \A v \in 1..u : v \in 1..top \/ v = u
        BY <2>1
      <3> QED
        BY <1>1, <1>3, <2>2, <3>1
    <2>5. TgRead(low, u)' /\ TgBatch(u)'
      <3>1. TgBatch(u)'
        BY <1>4, <1>8, <2>1, <2>2
      <3>2. TgRead(low, u)'
        BY <1>1, <1>3, <1>5, <1>6, <2>2, <2>3, <2>4 DEF TgRead
      <3> QED
        BY <3>1, <3>2
    <2>6. ASSUME AnswersFitRing, TgTraffic[u] = "other"
          PROVE  TgMemory(low, u)' /\ TgTold(low, u)'
      <3>1. UNCHANGED <<cache, slot, texts, jobs>>
        BY <2>2, <2>6 DEF T!HandleUpdate
      <3>2. LookedAt(low, u) = LookedAt(low, top)
        <4>1. \A v \in (low + 1)..u : v \in (low + 1)..top \/ v = u
          BY <2>1
        <4>2. \A v \in (low + 1)..top : v \in (low + 1)..u
          BY <2>1
        <4> QED
          BY <2>6, <4>1, <4>2 DEF LookedAt
      <3>3. Kept(TgRingLen, cache, slot, u, LookedAt(low, u))
        BY <2>2, <2>6, <3>2, KeptLater, TgLimits DEF TgMemory
      <3>4. TgTold(low, u)'
        BY <1>1, <1>3, <2>1, <2>2, <2>6, <3>1, TgNew
      <3> QED
        BY <3>1, <3>3, <3>4 DEF TgMemory
    <2>7. ASSUME AnswersFitRing, TgTraffic[u] # "other"
          PROVE  TgMemory(low, u)' /\ TgTold(low, u)'
      <3>1. /\ T!Record(u)
            /\ \/ UNCHANGED <<texts, jobs>>
               \/ texts' = [texts EXCEPT ![u] = @ + 1] /\ UNCHANGED jobs
               \/ jobs' = Append(jobs, u) /\ UNCHANGED texts
        <4>1. ~T!Seen(u)
          BY <1>2, <1>8, <2>1, <2>7
        <4> QED
          BY <2>2, <2>7, <4>1 DEF T!HandleUpdate, T!QueueAttachment, T!PublishText
      <3>2. LookedAt(low, u) = LookedAt(low, top) \cup {u}
        <4>1. \A v \in (low + 1)..u : v \in (low + 1)..top \/ v = u
          BY <2>1
        <4>2. u \in (low + 1)..u /\ \A v \in (low + 1)..top : v \in (low + 1)..u
          BY <2>1, <2>2
        <4> QED
          BY <2>7, <4>1, <4>2 DEF LookedAt
      <3>3. cache' = [cache EXCEPT ![slot] = u] /\ slot' = NextCell(TgRingLen, slot)
        BY <3>1 DEF T!Record, NextCell
      <3>4. Kept(TgRingLen, cache', slot', u, LookedAt(low, u))
        <4>1. Kept(TgRingLen, [cache EXCEPT ![slot] = u], NextCell(TgRingLen, slot), u,
                   LookedAt(low, top) \cup {u})
          BY <2>2, <2>7, IdIsKept, TgLimits DEF TgMemory
        <4> QED
          BY <3>2, <3>3, <4>1
      <3>5. TgTold(low, u)'
        BY <1>1, <1>3, <2>1, <2>2, <2>7, <3>1, TgNew
      <3> QED
        BY <3>4, <3>5 DEF TgMemory
    <2> QED
      BY <2>5, <2>6, <2>7
  <1> QED
    BY <1>2, <1>7, <1>8

-----------------------------------------------------------------------------
(* Telegram's attachment task, the operator and the power.                    *)

LEMMA TgReceive ==
    ASSUME NEW low \in Nat, NEW top \in Nat, TgTold(low, top), NEW k \in T!Workers, T!Receive(k)
    PROVE  TgTold(low, top)'
  <1>1. /\ jobs # <<>> /\ jobs' = Tail(jobs) /\ hand' = [hand EXCEPT ![k] = Head(jobs)]
        /\ hand[k] = 0 /\ UNCHANGED <<texts, saved, cuts>>
    BY DEF T!Receive, T!told
  <1>2. /\ jobs \in Seq(T!Updates) /\ hand \in [T!Workers -> {0} \cup T!Updates]
        /\ \A i \in 1..Len(jobs) : low < jobs[i] /\ jobs[i] <= top /\ saved[jobs[i]] <= cuts
        /\ \A i, j \in 1..Len(jobs) : jobs[i] = jobs[j] => i = j
        /\ \A l \in T!Workers : hand[l] # 0 =>
              /\ low < hand[l] /\ hand[l] <= top /\ saved[hand[l]] <= cuts
              /\ \A i \in 1..Len(jobs) : jobs[i] # hand[l]
              /\ \A m \in T!Workers : hand[m] = hand[l] => m = l
    BY DEF TgTold, TgJobs
  <1>3. PICK n : n = Len(jobs)
    OBVIOUS
  <1>4. PICK q : q = Tail(jobs)
    OBVIOUS
  <1>5. PICK u : u = Head(jobs)
    OBVIOUS
  <1>6. /\ n \in Nat /\ 1 <= n /\ u = jobs[1] /\ q \in Seq(T!Updates) /\ Len(q) = n - 1
        /\ \A i \in 1..(n - 1) : q[i] = jobs[i + 1]
    <2>1. Len(jobs) \in Nat /\ Len(jobs) # 0
      BY <1>1, <1>2, EmptySeq, LenProperties
    <2> QED
      BY <1>1, <1>2, <1>3, <1>4, <1>5, <2>1, HeadTailProperties
  <1>7. 1 \in 1..n /\ \A i \in 1..(n - 1) : i + 1 \in 1..n /\ i + 1 # 1
    BY <1>6
  <1>8. PICK g : g = hand'
    OBVIOUS
  <1>9. g \in [T!Workers -> {0} \cup T!Updates] /\ g[k] = u /\ u \in T!Updates
        /\ \A l \in T!Workers : l # k => g[l] = hand[l]
    <2>1. u \in T!Updates
      BY <1>2, <1>3, <1>6, <1>7, ElementOfSeq
    <2> QED
      BY <1>1, <1>2, <1>5, <1>8, <2>1
  <1>10. \A i \in 1..(n - 1) : /\ low < q[i] /\ q[i] <= top /\ saved[q[i]] <= cuts
                               /\ q[i] # u
    BY <1>2, <1>3, <1>6, <1>7
  <1>11. \A i, j \in 1..(n - 1) : q[i] = q[j] => i = j
    <2> SUFFICES ASSUME NEW i \in 1..(n - 1), NEW j \in 1..(n - 1), q[i] = q[j]
                 PROVE  i = j
      OBVIOUS
    <2>1. i + 1 = j + 1
      BY <1>2, <1>3, <1>6, <1>7
    <2> QED
      BY <1>6, <2>1
  <1>12. ASSUME NEW l \in T!Workers, g[l] # 0
         PROVE  /\ low < g[l] /\ g[l] <= top /\ saved[g[l]] <= cuts
                /\ \A i \in 1..(n - 1) : q[i] # g[l]
                /\ \A m \in T!Workers : g[m] = g[l] => m = l
    <2>1. CASE l = k
      <3>1. low < u /\ u <= top /\ saved[u] <= cuts
        BY <1>2, <1>3, <1>6, <1>7
      <3>2. \A m \in T!Workers : m # k => hand[m] # u
        BY <1>2, <1>3, <1>6, <1>7, <1>9, TgLength
      <3> QED
        BY <1>9, <1>10, <2>1, <3>1, <3>2
    <2>2. CASE l # k
      <3>1. g[l] = hand[l] /\ hand[l] # 0
        BY <1>9, <1>12, <2>2
      <3>2. \A i \in 1..n : jobs[i] # hand[l]
        BY <1>2, <1>3, <3>1
      <3>3. \A i \in 1..(n - 1) : q[i] # g[l]
        BY <1>6, <1>7, <3>1, <3>2
      <3>4. g[k] # g[l]
        BY <1>6, <1>7, <1>9, <3>1, <3>2
      <3>5. ASSUME NEW m \in T!Workers, g[m] = g[l] PROVE m = l
        BY <1>2, <1>9, <3>1, <3>4, <3>5
      <3> QED
        BY <1>2, <3>1, <3>3, <3>5
    <2> QED
      BY <2>1, <2>2
  <1>13. TgJobs(low, top)'
    BY <1>1, <1>4, <1>6, <1>8, <1>9, <1>10, <1>11, <1>12 DEF TgJobs
  <1> QED
    BY <1>1, <1>13 DEF TgTold, Shown

LEMMA TgSave ==
    ASSUME NEW low \in Nat, NEW top \in Nat, TgTold(low, top), NEW k \in T!Workers, T!Save(k)
    PROVE  TgTold(low, top)'
  <1>1. /\ hand[k] # 0 /\ hand' = [hand EXCEPT ![k] = 0]
        /\ UNCHANGED <<texts, jobs, cuts>>
        /\ UNCHANGED saved \/ saved' = [saved EXCEPT ![hand[k]] = @ + 1]
    BY DEF T!Save
  <1>2. /\ jobs \in Seq(T!Updates) /\ hand \in [T!Workers -> {0} \cup T!Updates]
        /\ \A i \in 1..Len(jobs) : low < jobs[i] /\ jobs[i] <= top /\ saved[jobs[i]] <= cuts
        /\ \A i, j \in 1..Len(jobs) : jobs[i] = jobs[j] => i = j
        /\ \A l \in T!Workers : hand[l] # 0 =>
              /\ low < hand[l] /\ hand[l] <= top /\ saved[hand[l]] <= cuts
              /\ \A i \in 1..Len(jobs) : jobs[i] # hand[l]
              /\ \A m \in T!Workers : hand[m] = hand[l] => m = l
    BY DEF TgTold, TgJobs
  <1>3. /\ cuts \in Nat /\ saved \in [T!Updates -> Nat] /\ Shown(low, top, saved)
    BY DEF TgTold
  <1>4. PICK u : u = hand[k]
    OBVIOUS
  <1>5. u \in T!Updates /\ low < u /\ u <= top /\ saved[u] <= cuts /\ saved[u] \in Nat
    BY <1>1, <1>2, <1>3, <1>4
  <1>6. PICK s : s = saved'
    OBVIOUS
  <1>7. /\ s \in [T!Updates -> Nat] /\ \A v \in T!Updates : v # u => s[v] = saved[v]
        /\ s[u] <= cuts + 1
    <2>1. CASE UNCHANGED saved
      BY <1>3, <1>5, <1>6, <2>1
    <2>2. CASE saved' = [saved EXCEPT ![u] = @ + 1]
      BY <1>3, <1>5, <1>6, <2>2
    <2> QED
      BY <1>1, <1>4, <2>1, <2>2
  <1>8. Shown(low, top, s)
    <2> SUFFICES ASSUME NEW v \in T!Updates
                 PROVE  s[v] <= cuts + 1 /\ (v <= low \/ top < v => s[v] <= cuts)
      BY DEF Shown
    <2>1. v \in Nat
      BY TgLength
    <2>2. CASE v = u
      BY <1>5, <1>7, <2>1, <2>2
    <2>3. CASE v # u
      BY <1>3, <1>7, <2>3 DEF Shown
    <2> QED
      BY <2>2, <2>3
  <1>9. PICK g : g = hand'
    OBVIOUS
  <1>10. g \in [T!Workers -> {0} \cup T!Updates] /\ g[k] = 0
         /\ \A l \in T!Workers : l # k => g[l] = hand[l]
    BY <1>1, <1>2, <1>9
  <1>11. \A i \in 1..Len(jobs) : jobs[i] \in T!Updates /\ jobs[i] # u
    BY <1>1, <1>2, <1>4, ElementOfSeq
  <1>12. \A i \in 1..Len(jobs) : low < jobs[i] /\ jobs[i] <= top /\ s[jobs[i]] <= cuts
    BY <1>2, <1>7, <1>11
  <1>13. ASSUME NEW l \in T!Workers, g[l] # 0
         PROVE  /\ low < g[l] /\ g[l] <= top /\ s[g[l]] <= cuts
                /\ \A i \in 1..Len(jobs) : jobs[i] # g[l]
                /\ \A m \in T!Workers : g[m] = g[l] => m = l
    <2>1. l # k /\ g[l] = hand[l] /\ hand[l] # 0 /\ hand[l] \in T!Updates
      BY <1>2, <1>10, <1>13
    <2>2. hand[l] # u
      BY <1>1, <1>2, <1>4, <2>1
    <2>3. s[g[l]] = saved[hand[l]]
      BY <1>7, <2>1, <2>2
    <2>4. \A m \in T!Workers : g[m] = g[l] => m = l
      BY <1>2, <1>10, <1>13, <2>1
    <2> QED
      BY <1>2, <2>1, <2>3, <2>4
  <1>14. TgJobs(low, top)'
    BY <1>1, <1>2, <1>6, <1>9, <1>10, <1>12, <1>13 DEF TgJobs
  <1> QED
    BY <1>1, <1>3, <1>6, <1>7, <1>8, <1>14 DEF TgTold, Shown

\* The device is switched off and on: it has looked at nothing yet.
LEMMA TgCut ==
    ASSUME NEW low \in Nat, NEW top \in Nat, TgRead(low, top),
           AnswersFitRing => TgTold(low, top), T!PowerCut
    PROVE  \E new \in Nat :
              /\ TgRead(new, new)' /\ TgBatch(new)'
              /\ AnswersFitRing => TgMemory(new, new)' /\ TgTold(new, new)'
  <1>1. /\ cuts' = cuts + 1 /\ offset' = 0 /\ cache' = [i \in 0..(TgRingLen - 1) |-> 0]
        /\ slot' = 0 /\ poll' = "loop" /\ tgAsked' = 0
        /\ hand' = [k \in T!Workers |-> 0] /\ jobs' = <<>>
        /\ UNCHANGED <<sent, confirmed, texts, saved, handled>>
    BY DEF T!PowerCut, T!EmptyRing, T!server, T!told
  <1>2. /\ sent \in Nat /\ sent <= Len(TgTraffic) /\ confirmed \in Nat /\ confirmed <= sent
        /\ 1..confirmed \subseteq handled
    <2>1. /\ sent \in Nat /\ sent <= Len(TgTraffic) /\ confirmed \in Nat
          /\ confirmed <= top /\ top <= sent /\ 1..top \subseteq handled
      BY DEF TgRead
    <2>2. 1..confirmed \subseteq 1..top
      BY <2>1
    <2> QED
      BY <2>1, <2>2
  <1>3. TgRead(confirmed, confirmed)'
    <2>1. confirmed <= confirmed /\ confirmed <= confirmed + TgBatchLen /\ 0 <= confirmed + 1
      BY <1>2, TgLimits
    <2> QED
      BY <1>1, <1>2, <2>1 DEF TgRead
  <1>4. TgBatch(confirmed)'
    BY <1>1 DEF TgBatch
  <1>5. TgMemory(confirmed, confirmed)'
    <2>1. LookedAt(confirmed, confirmed) = {}
      BY <1>2 DEF LookedAt
    <2>2. Kept(TgRingLen, cache', slot', confirmed, LookedAt(confirmed, confirmed))
      BY <1>1, <1>2, <2>1, EmptyRing, TgLimits
    <2> QED
      BY <1>1, <2>2 DEF TgMemory
  <1>6. ASSUME AnswersFitRing PROVE TgTold(confirmed, confirmed)'
    <2>1. cuts \in Nat /\ texts \in [T!Updates -> Nat] /\ saved \in [T!Updates -> Nat]
          /\ Shown(low, top, texts) /\ Shown(low, top, saved)
      BY <1>6 DEF TgTold
    <2>2. PICK n \in Nat : n = cuts + 1
      BY <2>1
    <2>3. \A u \in T!Updates : /\ texts[u] <= n /\ texts[u] <= n + 1
                               /\ saved[u] <= n /\ saved[u] <= n + 1
      <3> SUFFICES ASSUME NEW u \in T!Updates
                   PROVE  /\ texts[u] <= n /\ texts[u] <= n + 1
                          /\ saved[u] <= n /\ saved[u] <= n + 1
        OBVIOUS
      <3>1. /\ texts[u] <= cuts + 1 /\ saved[u] <= cuts + 1
            /\ texts[u] \in Nat /\ saved[u] \in Nat
        BY <2>1 DEF Shown
      <3> QED
        BY <2>2, <3>1
    <2>4. jobs' \in Seq(T!Updates) /\ Len(jobs') = 0
          /\ hand' \in [T!Workers -> {0} \cup T!Updates] /\ \A k \in T!Workers : hand'[k] = 0
      BY <1>1
    <2>5. \A m \in Nat : TgJobs(m, m)'
      BY <2>4 DEF TgJobs
    <2> QED
      BY <1>1, <1>2, <2>1, <2>2, <2>3, <2>5 DEF TgTold, Shown
  <1>7. PICK c \in Nat : c = confirmed
    BY <1>2
  <1>8. /\ TgRead(c, c)' /\ TgBatch(c)'
        /\ AnswersFitRing => TgMemory(c, c)' /\ TgTold(c, c)'
    BY <1>1, <1>3, <1>4, <1>5, <1>6, <1>7
  <1> QED
    BY <1>8

LEMMA TgTasksKept ==
    ASSUME TgTasks, [T!Next]_(T!gvars)
    PROVE  TgTasks'
  <1>1. CASE UNCHANGED <<alive, attached, queue, overrun>>
    BY <1>1 DEF TgTasks
  <1>2. ASSUME NEW k \in T!Workers, T!Load(k) PROVE TgTasks'
    <2>1. CASE T!Receive(k)
      BY <1>1, <2>1 DEF T!Receive
    <2>2. CASE T!Save(k)
      BY <1>1, <2>2 DEF T!Save
    <2>3. CASE T!AttachmentEnds(k)
      BY <2>3 DEF T!AttachmentEnds, TgTasks
    <2> QED
      BY <1>2, <2>1, <2>2, <2>3 DEF T!Load
  <1>3. CASE T!Operate
    <2>1. CASE T!Disable \/ T!EnablePolling
      BY <1>1, <2>1 DEF T!Disable, T!EnablePolling, T!loader
    <2>2. CASE T!Enable
      BY <2>2 DEF T!Enable, TgTasks
    <2>3. CASE T!EnableFails
      BY <2>3 DEF T!EnableFails, TgTasks
    <2>4. CASE T!EnableHalf
      BY <2>4 DEF T!EnableHalf, TgTasks
    <2> QED
      BY <1>3, <2>1, <2>2, <2>3, <2>4 DEF T!Operate
  <1>4. CASE T!Wait
    <2>1. CASE T!Stopped
      BY <2>1 DEF T!Stopped, T!TasksGone, TgTasks
    <2>2. CASE T!StopTimesOut
      BY <1>1, <2>2 DEF T!StopTimesOut, T!loader
    <2>3. CASE T!Undone
      BY <2>3 DEF T!Undone, TgTasks
    <2> QED
      BY <1>4, <2>1, <2>2, <2>3 DEF T!Wait
  <1>5. CASE T!UserSends
    BY <1>1, <1>5 DEF T!UserSends, T!loader
  <1>6. CASE T!Poll
    BY <1>1, <1>6 DEF T!Poll, T!Ask, T!Answer, T!NoAnswer, T!HandleUpdate, T!PollEnds, T!loader
  <1>7. CASE T!PowerCut
    BY <1>7 DEF T!PowerCut, TgTasks
  <1>8. CASE UNCHANGED T!gvars
    BY <1>1, <1>8 DEF T!gvars, T!loader
  <1> QED
    BY <1>2, <1>3, <1>4, <1>5, <1>6, <1>7, <1>8 DEF T!Next

LEMMA TgStep ==
    ASSUME TgInv, [T!Next]_(T!gvars)
    PROVE  TgInv'
  <1>1. TgTasks'
    BY TgTasksKept DEF TgInv
  <1>2. PICK low, top \in Nat :
            /\ TgRead(low, top) /\ TgBatch(top)
            /\ AnswersFitRing => TgMemory(low, top) /\ TgTold(low, top)
    BY DEF TgInv
  <1>3. ASSUME NEW new \in Nat, NEW end \in Nat, TgRead(new, end)', TgBatch(end)',
               AnswersFitRing => TgMemory(new, end)' /\ TgTold(new, end)'
        PROVE  TgInv'
    BY <1>1, <1>3 DEF TgInv
  <1>4. CASE /\ UNCHANGED <<sent, confirmed, offset, cache, slot, tgAsked, handled, batch>>
             /\ poll' \in {poll, "loop", "off"}
             /\ UNCHANGED <<texts, saved, cuts, hand>> /\ jobs' \in {jobs, <<>>}
    <2>1. TgRead(low, top)'
      BY <1>2, <1>4, TgReadSame DEF TgRead
    <2>2. TgBatch(top)'
      BY <1>2, <1>4 DEF TgBatch
    <2>3. AnswersFitRing => TgMemory(low, top)' /\ TgTold(low, top)'
      BY <1>2, <1>4, TgMemorySame, TgToldSame, TgToldEmpty
    <2> QED
      BY <1>3, <2>1, <2>2, <2>3
  <1>5. CASE T!UserSends
    <2>1. AnswersFitRing => TgMemory(low, top)' /\ TgTold(low, top)'
      BY <1>2, <1>5, TgMemorySame, TgToldSame DEF T!UserSends, T!memory, T!told, T!loader
    <2> QED
      BY <1>2, <1>3, <1>5, <2>1, TgUserSends
  <1>6. CASE T!Poll
    <2>1. CASE T!Ask \/ T!Answer \/ T!NoAnswer
      <3>1. AnswersFitRing => TgMemory(low, top)' /\ TgTold(low, top)'
        <4>1. UNCHANGED <<cache, slot, texts, saved, cuts, jobs, hand>>
          BY <2>1 DEF T!Ask, T!Answer, T!NoAnswer, T!memory, T!told, T!loader
        <4> QED
          BY <1>2, <4>1, TgMemorySame, TgToldSame
      <3>2. TgRead(low, top)' /\ TgBatch(top)'
        BY <1>2, <2>1, TgAsk, TgAnswer, TgNoAnswer
      <3> QED
        BY <1>3, <3>1, <3>2
    <2>2. CASE T!HandleUpdate
      BY <1>2, <1>3, <2>2, TgHandle
    <2>3. CASE T!PollEnds
      BY <1>4, <2>3 DEF T!PollEnds, T!server, T!memory, T!told, T!loader
    <2> QED
      BY <1>6, <2>1, <2>2, <2>3 DEF T!Poll
  <1>7. ASSUME NEW k \in T!Workers, T!Load(k) PROVE TgInv'
    <2>1. CASE T!AttachmentEnds(k)
      BY <1>4, <2>1 DEF T!AttachmentEnds, T!server, T!memory, T!poller, T!told
    <2>2. CASE T!Receive(k) \/ T!Save(k)
      <3>1. AnswersFitRing => TgTold(low, top)'
        BY <1>2, <2>2, TgReceive, TgSave
      <3>2. UNCHANGED <<sent, confirmed, offset, cache, slot, poll, tgAsked, batch, handled>>
        BY <2>2 DEF T!Receive, T!Save, T!server, T!memory, T!poller, T!told
      <3>3. TgRead(low, top)' /\ TgBatch(top)'
        BY <1>2, <3>2 DEF TgRead, TgBatch
      <3>4. AnswersFitRing => TgMemory(low, top)'
        BY <1>2, <3>2, TgMemorySame
      <3> QED
        BY <1>3, <3>1, <3>3, <3>4
    <2> QED
      BY <1>7, <2>1, <2>2 DEF T!Load
  <1>8. CASE T!Operate
    BY <1>4, <1>8 DEF T!Operate, T!Disable, T!EnablePolling, T!Enable, T!EnableFails,
                      T!EnableHalf, T!server, T!memory, T!poller, T!told, T!loader
  <1>9. CASE T!Wait
    BY <1>4, <1>9 DEF T!Wait, T!Stopped, T!StopTimesOut, T!Undone, T!server, T!memory,
                      T!poller, T!told, T!loader
  <1>10. CASE T!PowerCut
    BY <1>2, <1>3, <1>10, TgCut
  <1>11. CASE UNCHANGED T!gvars
    BY <1>4, <1>11 DEF T!gvars, T!server, T!memory, T!poller, T!told, T!loader
  <1> QED
    BY <1>5, <1>6, <1>7, <1>8, <1>9, <1>10, <1>11 DEF T!Next

\* Telegram forgets nothing unseen and no task meets a queue that is gone.  For each time
\* the device is switched on an update is published once at most and an attachment saved
\* once at most, over repeated answers, stops that timed out and starts, as far as the ring
\* of ids holds what an answer repeats.
THEOREM UpdatesAreHandled == T!Init /\ [][T!Next]_(T!gvars) =>
    [](T!ForgottenWasHandled /\ T!QueueOutlivesTasks /\ (AnswersFitRing => T!HandledOnce))
  <1>1. TgInv => T!ForgottenWasHandled /\ T!QueueOutlivesTasks
                    /\ (AnswersFitRing => T!HandledOnce)
    <2> SUFFICES ASSUME TgInv
                 PROVE  T!ForgottenWasHandled /\ T!QueueOutlivesTasks
                            /\ (AnswersFitRing => T!HandledOnce)
      OBVIOUS
    <2>1. PICK low, top \in Nat :
              TgRead(low, top) /\ (AnswersFitRing => TgTold(low, top))
      BY DEF TgInv
    <2>2. ASSUME AnswersFitRing PROVE T!HandledOnce
      <3> SUFFICES ASSUME NEW u \in T!Updates
                   PROVE  texts[u] <= 1 + cuts /\ saved[u] <= 1 + cuts
        BY DEF T!HandledOnce
      <3>1. texts[u] <= cuts + 1 /\ saved[u] <= cuts + 1 /\ cuts \in Nat
        BY <2>1, <2>2 DEF TgTold, Shown
      <3>2. cuts + 1 = 1 + cuts
        BY <3>1
      <3> QED
        BY <3>1, <3>2
    <2>3. T!ForgottenWasHandled
      <3>1. 1..top \subseteq handled /\ confirmed <= top /\ confirmed \in Nat
        BY <2>1 DEF TgRead
      <3>2. 1..confirmed \subseteq 1..top
        BY <3>1
      <3> QED
        BY <3>1, <3>2 DEF T!ForgottenWasHandled
    <2>4. T!QueueOutlivesTasks
      BY DEF TgInv, TgTasks, T!QueueOutlivesTasks
    <2> QED
      BY <2>2, <2>3, <2>4
  <1> QED
    BY <1>1, TgInit, TgStep, PTL

-----------------------------------------------------------------------------
(* Feishu.  What it pushes again is in the ring of messages, so a message is  *)
(* taken apart once, and each of its pieces is in one place: the queue, the   *)
(* hand of the task that downloads, or among what is published.               *)

FsJob  == {job \in [message : Nat, key : Nat \ {0}] : job.key \in Fs!Keys(job.message)}
FsFile == [message : Nat, name : Nat, holds : Nat]
Of(file, job) == file.message = job.message /\ file.holds = job.key

FsTold(top, told) ==
    told \in Seq(Nat) /\ Different(told) /\ \A i \in 1..Len(told) : told[i] <= top

FsQueued(top, queued) ==
    /\ queued \in Seq(FsJob) /\ Different(queued)
    /\ \A i \in 1..Len(queued) : queued[i].message <= top

FsLoads(top, queued, task) ==
    /\ task.pc \in {"receive", "save", "leave", "gone"}
    /\ task.pc = "save" => /\ task.job \in FsJob /\ task.job.message <= top
                           /\ \A i \in 1..Len(queued) : queued[i] # task.job

FsFiles(top, queued, task, out) ==
    /\ out \in Seq(FsFile)
    /\ \A i, j \in 1..Len(out) :
          out[i].message = out[j].message /\ out[i].holds = out[j].holds => i = j
    /\ \A i \in 1..Len(out) :
          /\ out[i].message <= top
          /\ \A j \in 1..Len(queued) : ~Of(out[i], queued[j])
          /\ task.pc = "save" => ~Of(out[i], task.job)

FsPieces(top, queued, task, out) ==
    FsQueued(top, queued) /\ FsLoads(top, queued, task) /\ FsFiles(top, queued, task, out)

\* A message that comes for the first time brings pieces that are nowhere yet.
LEMMA FsNewPieces ==
    ASSUME NEW top \in Nat, NEW queued, NEW task, NEW out, FsPieces(top, queued, task, out),
           NEW more \in Seq(FsJob), Different(more),
           \A i \in 1..Len(more) : more[i].message = top + 1
    PROVE  FsPieces(top + 1, queued \o more, task, out)
  <1>1. queued \in Seq(FsJob) /\ Len(queued) \in Nat /\ Len(more) \in Nat
    BY LenProperties DEF FsPieces, FsQueued
  <1>2. PICK q : q = queued \o more
    OBVIOUS
  <1>3. /\ q \in Seq(FsJob) /\ Len(q) = Len(queued) + Len(more)
        /\ \A i \in 1..Len(q) : q[i] = IF i <= Len(queued) THEN queued[i]
                                       ELSE more[i - Len(queued)]
    BY <1>1, <1>2, ConcatProperties
  <1>4. ASSUME NEW i \in 1..Len(q)
        PROVE  \/ i \in 1..Len(queued) /\ q[i] = queued[i]
               \/ i - Len(queued) \in 1..Len(more) /\ q[i] = more[i - Len(queued)]
                      /\ i \notin 1..Len(queued)
    BY <1>1, <1>3
  <1>5. ASSUME NEW i \in 1..Len(q), i \notin 1..Len(queued) PROVE q[i].message = top + 1
    BY <1>4, <1>5
  <1>6. ASSUME NEW i \in 1..Len(q), i \in 1..Len(queued)
        PROVE  q[i] = queued[i] /\ q[i].message \in Nat /\ q[i].message <= top
    <2>1. q[i] = queued[i] /\ queued[i] \in FsJob
      BY <1>1, <1>4, <1>6, ElementOfSeq
    <2> QED
      BY <1>6, <2>1 DEF FsPieces, FsQueued, FsJob
  <1>7. Different(q)
    <2> SUFFICES ASSUME NEW i \in 1..Len(q), NEW j \in 1..Len(q), q[i] = q[j] PROVE i = j
      BY DEF Different
    <2>1. CASE i \in 1..Len(queued)
      <3>1. j \in 1..Len(queued)
        <4>1. q[j].message \in Nat /\ q[j].message <= top
          BY <1>6, <2>1
        <4>2. q[j].message # top + 1
          BY <4>1
        <4> QED
          BY <1>5, <4>2
      <3> QED
        BY <1>6, <2>1, <3>1 DEF FsPieces, FsQueued, Different
    <2>2. CASE i \notin 1..Len(queued)
      <3>1. j \notin 1..Len(queued)
        <4>1. q[j].message = top + 1
          BY <1>5, <2>2
        <4>2. ~(q[j].message \in Nat /\ q[j].message <= top)
          BY <4>1
        <4> QED
          BY <1>6, <4>2
      <3>2. /\ i - Len(queued) \in 1..Len(more) /\ q[i] = more[i - Len(queued)]
            /\ j - Len(queued) \in 1..Len(more) /\ q[j] = more[j - Len(queued)]
        BY <1>4, <2>2, <3>1
      <3>3. i - Len(queued) = j - Len(queued)
        BY <3>2 DEF Different
      <3> QED
        BY <1>1, <3>3
    <2> QED
      BY <2>1, <2>2
  <1>8. FsQueued(top + 1, q)
    <2>1. \A i \in 1..Len(q) : q[i].message <= top + 1
      BY <1>5, <1>6
    <2> QED
      BY <1>3, <1>7, <2>1 DEF FsQueued
  <1>9. FsLoads(top + 1, q, task)
    <2>1. task.pc \in {"receive", "save", "leave", "gone"}
      BY DEF FsPieces, FsLoads
    <2>2. ASSUME task.pc = "save"
          PROVE  /\ task.job \in FsJob /\ task.job.message <= top + 1
                 /\ \A i \in 1..Len(q) : q[i] # task.job
      <3>1. task.job \in FsJob /\ task.job.message \in Nat /\ task.job.message <= top
        BY <2>2 DEF FsPieces, FsLoads, FsJob
      <3>2. task.job.message <= top + 1 /\ task.job.message # top + 1
        BY <3>1
      <3>3. \A i \in 1..Len(queued) : queued[i] # task.job
        BY <2>2 DEF FsPieces, FsLoads
      <3> QED
        BY <1>5, <1>6, <3>1, <3>2, <3>3
    <2> QED
      BY <2>1, <2>2 DEF FsLoads
  <1>10. FsFiles(top + 1, q, task, out)
    <2>1. out \in Seq(FsFile)
      BY DEF FsPieces, FsFiles
    <2>2. ASSUME NEW i \in 1..Len(out)
          PROVE  /\ out[i].message <= top + 1 /\ out[i].message # top + 1
                 /\ \A j \in 1..Len(queued) : ~Of(out[i], queued[j])
      <3>1. out[i] \in FsFile
        BY <2>1, ElementOfSeq
      <3>2. out[i].message \in Nat /\ out[i].message <= top
        BY <3>1 DEF FsPieces, FsFiles, FsFile
      <3>3. \A j \in 1..Len(queued) : ~Of(out[i], queued[j])
        BY DEF FsPieces, FsFiles
      <3> QED
        BY <3>2, <3>3
    <2>3. ASSUME NEW i \in 1..Len(out), NEW j \in 1..Len(q) PROVE ~Of(out[i], q[j])
      BY <1>5, <1>6, <2>2 DEF Of
    <2> QED
      BY <2>1, <2>2, <2>3 DEF FsPieces, FsFiles
  <1> QED
    BY <1>2, <1>8, <1>9, <1>10 DEF FsPieces

\* Receive: a piece goes from the queue to the task.
LEMMA FsTakesPiece ==
    ASSUME NEW top \in Nat, NEW queued, NEW task, NEW out, FsPieces(top, queued, task, out),
           queued # <<>>, NEW now, now = [pc |-> "save", job |-> Head(queued)]
    PROVE  FsPieces(top, Tail(queued), now, out)
  <1>1. queued \in Seq(FsJob) /\ Len(queued) \in Nat
    BY LenProperties DEF FsPieces, FsQueued
  <1>2. PICK q : q = Tail(queued)
    OBVIOUS
  <1>3. /\ Head(queued) = queued[1] /\ Head(queued) \in FsJob /\ q \in Seq(FsJob)
        /\ Len(q) = Len(queued) - 1 /\ Len(queued) # 0
        /\ \A i \in 1..Len(q) : q[i] = queued[i + 1]
    BY <1>1, <1>2, HeadTailProperties, EmptySeq
  <1>4. /\ 1 \in 1..Len(queued)
        /\ \A i \in 1..Len(q) : i + 1 \in 1..Len(queued) /\ i + 1 # 1
        /\ \A i, j \in 1..Len(q) : i + 1 = j + 1 => i = j
    BY <1>1, <1>3
  <1>5. FsQueued(top, q)
    BY <1>3, <1>4 DEF FsPieces, FsQueued, Different
  <1>6. FsLoads(top, q, now)
    <2>1. \A i \in 1..Len(q) : q[i] # now.job
      BY <1>3, <1>4 DEF FsPieces, FsQueued, Different
    <2>2. now.job.message <= top
      BY <1>3, <1>4 DEF FsPieces, FsQueued
    <2> QED
      BY <1>3, <2>1, <2>2 DEF FsLoads
  <1>7. FsFiles(top, q, now, out)
    <2>1. \A i \in 1..Len(out) : ~Of(out[i], now.job)
      BY <1>3, <1>4 DEF FsPieces, FsFiles
    <2>2. \A i \in 1..Len(out) : \A j \in 1..Len(q) : ~Of(out[i], q[j])
      BY <1>3, <1>4 DEF FsPieces, FsFiles
    <2> QED
      BY <2>1, <2>2 DEF FsPieces, FsFiles
  <1> QED
    BY <1>2, <1>5, <1>6, <1>7 DEF FsPieces

\* A picture to load is named by its message and its key.
LEMMA SameJob ==
    ASSUME NEW a \in FsJob, NEW b \in FsJob, a.message = b.message, a.key = b.key PROVE a = b
  BY DEF FsJob

\* Save: a piece goes from the task to what is published, or gets lost.
LEMMA FsSavesPiece ==
    ASSUME NEW top \in Nat, NEW queued, NEW task, NEW out, FsPieces(top, queued, task, out),
           task.pc = "save", NEW now, now.pc = "receive", NEW file \in FsFile,
           Of(file, task.job)
    PROVE  FsPieces(top, queued, now, out) /\ FsPieces(top, queued, now, Append(out, file))
  <1>1. out \in Seq(FsFile) /\ Len(out) \in Nat
    BY LenProperties DEF FsPieces, FsFiles
  <1>2. PICK o : o = Append(out, file)
    OBVIOUS
  <1>3. /\ o \in Seq(FsFile) /\ Len(o) = Len(out) + 1
        /\ \A i \in 1..Len(out) : o[i] = out[i]
        /\ o[Len(out) + 1] = file
        /\ \A i \in 1..Len(o) : i \in 1..Len(out) \/ i = Len(out) + 1
    BY <1>1, <1>2, OneMore
  <1>4. FsLoads(top, queued, now)
    BY DEF FsLoads
  <1>5. \A i \in 1..Len(out) : ~(out[i].message = file.message /\ out[i].holds = file.holds)
    BY DEF FsPieces, FsFiles, Of
  <1>6. \A j \in 1..Len(queued) : ~Of(file, queued[j])
    <2>1. \A j \in 1..Len(queued) : queued[j] # task.job /\ queued[j] \in FsJob
      BY ElementOfSeq DEF FsPieces, FsLoads, FsQueued
    <2>2. task.job \in FsJob
      BY DEF FsPieces, FsLoads
    <2>3. ASSUME NEW j \in 1..Len(queued), Of(file, queued[j]) PROVE FALSE
      <3>1. queued[j].message = task.job.message /\ queued[j].key = task.job.key
        BY <2>3 DEF Of
      <3>2. queued[j] = task.job
        BY <2>1, <2>2, <3>1, SameJob
      <3> QED
        BY <2>1, <3>2
    <2> QED
      BY <2>3
  <1>7. file.message <= top
    BY DEF FsPieces, FsLoads, Of
  <1>8. FsFiles(top, queued, now, out)
    BY DEF FsPieces, FsFiles
  <1>9. FsFiles(top, queued, now, o)
    <2>1. \A i, j \in 1..Len(o) :
             o[i].message = o[j].message /\ o[i].holds = o[j].holds => i = j
      BY <1>3, <1>5 DEF FsPieces, FsFiles
    <2>2. \A i \in 1..Len(o) :
             /\ o[i].message <= top
             /\ \A j \in 1..Len(queued) : ~Of(o[i], queued[j])
      BY <1>3, <1>6, <1>7 DEF FsPieces, FsFiles
    <2> QED
      BY <1>3, <2>1, <2>2 DEF FsFiles
  <1> QED
    BY <1>2, <1>4, <1>8, <1>9 DEF FsPieces

\* A stop or a failing start empties the queue; a task that is not downloading has
\* no piece.
LEMMA FsNoPieces ==
    ASSUME NEW top, NEW queued, NEW task, NEW out, FsPieces(top, queued, task, out),
           NEW now, now.pc \in {"receive", "leave", "gone"}
    PROVE  FsPieces(top, queued, now, out) /\ FsPieces(top, <<>>, now, out)
  <1>1. <<>> \in Seq(FsJob) /\ Len(<<>>) = 0
    OBVIOUS
  <1>2. FsQueued(top, <<>>)
    BY <1>1 DEF FsQueued, Different
  <1>3. FsLoads(top, queued, now) /\ FsLoads(top, <<>>, now)
    BY DEF FsLoads
  <1>4. FsFiles(top, queued, now, out) /\ FsFiles(top, <<>>, now, out)
    BY <1>1 DEF FsPieces, FsFiles
  <1> QED
    BY <1>2, <1>3, <1>4 DEF FsPieces

FsTasks ==
    /\ fsAttached = (loader # Fs!Gone)
    /\ loader.pc \in {"receive", "save"} => fsQueue

FsInv ==
    /\ fsPushed \in Nat
    /\ Kept(FsRingLen, fsRing, fsSlot, fsPushed, 1..fsPushed)
    /\ FsTold(fsPushed, fsTexts)
    /\ FsPieces(fsPushed, fsJobs, loader, files)
    /\ FsTasks

\* What another attachment of its message may have overwritten.
FsTurned(done, file) ==
    \E key \in Fs!Keys(file.message) \ {file.holds} :
        /\ file.name \in {0, Fs!FileName(file.message, key)}
        /\ [message |-> file.message, key |-> key] \in done

FsStays(out, stored, done) ==
    \A i \in 1..Len(out) : out[i] \in stored \/ FsTurned(done, out[i])

FsDisk == FsStays(files, disk, tried)

LEMMA FsLimits == FsRingLen \in Nat \ {0} /\ FsQueueLen \in Nat /\ MaxFsFaults \in Nat
  BY FsAssumption

LEMMA FsInit == ASSUME Fs!Init PROVE FsInv /\ FsDisk
  <1>1. /\ fsPushed = 0 /\ fsJobs = <<>> /\ fsQueue = TRUE /\ loader = Fs!Waiting
        /\ fsAttached = TRUE /\ fsTexts = <<>> /\ files = <<>> /\ fsFaults = 0
        /\ fsRing = [i \in 0..(FsRingLen - 1) |-> 0] /\ fsSlot = 0
    BY DEF Fs!Init
  <1>2. Kept(FsRingLen, fsRing, fsSlot, 0, {}) /\ 1..0 = {}
    BY <1>1, FsLimits, EmptyRing
  <1>3. /\ <<>> \in Seq(Nat) /\ <<>> \in Seq(FsJob) /\ <<>> \in Seq(FsFile) /\ Len(<<>>) = 0
    OBVIOUS
  <1>4. FsTold(0, <<>>)
    BY <1>3 DEF FsTold, Different
  <1>5. loader.pc = "receive" /\ loader # Fs!Gone
    BY <1>1 DEF Fs!Waiting, Fs!Gone
  <1>6. FsPieces(0, <<>>, loader, <<>>)
    BY <1>3, <1>5 DEF FsPieces, FsQueued, FsLoads, FsFiles, Different
  <1>7. FsInv
    BY <1>1, <1>2, <1>4, <1>5, <1>6 DEF FsInv, FsTasks
  <1>8. FsDisk
    BY <1>1, <1>3 DEF FsDisk, FsStays
  <1> QED
    BY <1>7, <1>8

\* cap_im_feishu_queue_attachment: what is queued is of the message and all different.
LEMMA FsQueues ==
    ASSUME NEW m \in Nat, Fs!Queued(m), fsJobs \in Seq(FsJob)
    PROVE  \E more \in Seq(FsJob) :
              /\ Different(more) /\ \A i \in 1..Len(more) : more[i].message = m
              /\ fsJobs' = fsJobs \o more
  <1>1. PICK n \in Nat : Fs!Keys(m) = 1..n
    <2>1. Fs!Keys(m) = 1..2 \/ Fs!Keys(m) = {1} \/ Fs!Keys(m) = {}
      <3>1. CASE FsTraffic[m] \in {"post", "files"}
        BY <3>1 DEF Fs!Keys
      <3>2. CASE FsTraffic[m] = "file"
        BY <3>2 DEF Fs!Keys
      <3>3. CASE FsTraffic[m] \notin {"post", "files", "file"}
        BY <3>3 DEF Fs!Keys
      <3> QED
        BY <3>1, <3>2, <3>3
    <2>2. {1} = 1..1 /\ {} = 1..0
      OBVIOUS
    <2> QED
      BY <2>1, <2>2
  <1>2. PICK new : new = [key \in Fs!Keys(m) |-> [message |-> m, key |-> key]]
    OBVIOUS
  <1>3. /\ new \in [1..n -> FsJob]
        /\ \A i \in 1..n : new[i].message = m /\ new[i].key = i
    BY <1>1, <1>2 DEF FsJob
  <1>4. Len(new) = n /\ new \in Seq(FsJob)
    BY <1>3, SeqDef, LenProperties
  <1>5. PICK room : room = IF fsQueue THEN FsQueueLen - Len(fsJobs) ELSE 0
    OBVIOUS
  <1>6. fsJobs' = fsJobs \o SubSeq(new, 1, IF Len(new) < room THEN Len(new) ELSE room)
    BY <1>2, <1>5 DEF Fs!Queued
  <1>7. PICK last \in Int : /\ last = IF Len(new) < room THEN Len(new) ELSE room
                            /\ last <= n
    <2>1. Len(fsJobs) \in Nat
      BY LenProperties
    <2>2. room \in Int
      BY <1>5, <2>1, FsLimits
    <2> QED
      BY <1>4, <2>2
  <1>8. PICK more : more = SubSeq(new, 1, last)
    OBVIOUS
  <1>9. \A i \in 1..last : i \in 1..n /\ new[i] \in FsJob
    BY <1>3, <1>7
  <1>10. /\ more \in Seq(FsJob)
         /\ Len(more) = IF 1 <= last THEN (last - 1) + 1 ELSE 0
         /\ \A i \in 1..((last - 1) + 1) : more[i] = new[(1 + i) - 1]
    BY <1>8, <1>9, SubSeqProperties
  <1>11. \A i \in 1..Len(more) : i \in 1..n /\ more[i] = new[i]
    BY <1>7, <1>10
  <1>12. Different(more)
    BY <1>3, <1>11 DEF Different
  <1> QED
    BY <1>3, <1>6, <1>7, <1>8, <1>10, <1>11, <1>12

\* A message that comes for the first time.
LEMMA FsPushes == ASSUME FsInv, Fs!Pushes PROVE FsInv' /\ (FsDisk => FsDisk')
  <1>1. PICK top \in Nat : top = fsPushed
    BY DEF FsInv
  <1>2. /\ Kept(FsRingLen, fsRing, fsSlot, top, 1..top) /\ FsTold(top, fsTexts)
        /\ FsPieces(top, fsJobs, loader, files) /\ FsTasks
    BY <1>1 DEF FsInv
  <1>3. fsPushed' = top + 1 /\ Fs!HandleFrame(top + 1)
    BY <1>1 DEF Fs!Pushes
  <1>4. UNCHANGED <<loader, fsQueue, fsAttached, files, disk, tried>>
    BY <1>3 DEF Fs!HandleFrame, Fs!socket
  <1>5. ~Fs!Seen(top + 1)
    <2>1. top < top + 1 /\ 0 < top + 1 /\ top + 1 \in Nat
      OBVIOUS
    <2>2. ~(\E i \in DOMAIN fsRing : fsRing[i] = top + 1)
      <3>1. top \in Nat /\ Kept(FsRingLen, fsRing, fsSlot, top, 1..top)
        BY <1>2
      <3> QED
        BY ONLY <2>1, <3>1, FsLimits, KeptShows, ZenonT(60)
    <2> QED
      BY <2>2 DEF Fs!Seen
  <1>6. PICK out \in BOOLEAN : Fs!Handle(top + 1, out)
    BY <1>3, <1>5 DEF Fs!HandleFrame
  <1>7. Kept(FsRingLen, fsRing', fsSlot', top + 1, 1..(top + 1))
    <2>1. fsRing' = [fsRing EXCEPT ![fsSlot] = top + 1]
          /\ fsSlot' = NextCell(FsRingLen, fsSlot)
      BY <1>6 DEF Fs!Handle, Fs!Record, NextCell
    <2>2. 1..(top + 1) = (1..top) \cup {top + 1} /\ top < top + 1
      OBVIOUS
    <2>3. Kept(FsRingLen, [fsRing EXCEPT ![fsSlot] = top + 1], NextCell(FsRingLen, fsSlot),
               top + 1, (1..top) \cup {top + 1})
      BY <1>2, <2>2, FsLimits, IdIsKept
    <2> QED
      BY <2>1, <2>2, <2>3
  <1>8. FsTold(top + 1, fsTexts')
    <2>1. fsTexts \in Seq(Nat) /\ Len(fsTexts) \in Nat /\ Different(fsTexts)
          /\ \A i \in 1..Len(fsTexts) : fsTexts[i] \in Nat /\ fsTexts[i] <= top
      BY <1>2, LenProperties, ElementOfSeq DEF FsTold
    <2>2. \A i \in 1..Len(fsTexts) : fsTexts[i] <= top + 1 /\ fsTexts[i] # top + 1
      BY <2>1
    <2>3. PICK told : told = Append(fsTexts, top + 1)
      OBVIOUS
    <2>4. /\ told \in Seq(Nat) /\ \A i \in 1..Len(fsTexts) : told[i] = fsTexts[i]
          /\ told[Len(fsTexts) + 1] = top + 1
          /\ \A i \in 1..Len(told) : i \in 1..Len(fsTexts) \/ i = Len(fsTexts) + 1
      BY <2>1, <2>3, OneMore
    <2>5. Different(told)
      BY <2>1, <2>2, <2>3, DifferentMore
    <2>6. \A i \in 1..Len(told) : told[i] <= top + 1
      BY <2>2, <2>4
    <2>7. fsTexts' = told \/ fsTexts' = fsTexts
      BY <1>6, <2>3 DEF Fs!Handle, Fs!Said
    <2> QED
      BY <2>1, <2>2, <2>4, <2>5, <2>6, <2>7 DEF FsTold
  <1>9. FsPieces(top + 1, fsJobs', loader, files)
    <2>1. Fs!Queued(top + 1) /\ fsJobs \in Seq(FsJob) /\ top + 1 \in Nat
      BY <1>2, <1>6 DEF Fs!Handle, FsPieces, FsQueued
    <2>2. PICK more \in Seq(FsJob) :
              /\ Different(more) /\ \A i \in 1..Len(more) : more[i].message = top + 1
              /\ fsJobs' = fsJobs \o more
      BY <2>1, FsQueues
    <2> QED
      BY <1>2, <2>2, FsNewPieces
  <1>10. FsTasks'
    BY <1>2, <1>4 DEF FsTasks, Fs!Gone
  <1>11. FsInv'
    <2>1. fsPushed' \in Nat
      BY <1>3
    <2> QED
      BY <1>3, <1>4, <1>7, <1>8, <1>9, <1>10, <2>1 DEF FsInv
  <1>12. FsDisk => FsDisk'
    BY <1>4 DEF FsDisk
  <1> QED
    BY <1>11, <1>12

\* A message that comes again is known.
LEMMA FsPushesAgain ==
    ASSUME FsInv, Fs!PushesAgain PROVE FsInv' /\ (FsDisk => FsDisk')
  <1>1. PICK m \in 1..fsPushed : fsPushed - m < FsRingLen /\ Fs!HandleFrame(m)
    BY DEF Fs!PushesAgain
  <1>2. Fs!Seen(m)
    <2>1. m \in Nat /\ 0 < m /\ fsPushed \in Nat /\ fsPushed < m + FsRingLen
      BY <1>1, FsLimits DEF FsInv
    <2>2. Kept(FsRingLen, fsRing, fsSlot, fsPushed, 1..fsPushed)
      BY DEF FsInv
    <2>3. \E i \in DOMAIN fsRing : fsRing[i] = m
      BY <1>1, <2>1, <2>2, FsLimits, KeptShows
    <2> QED
      BY <2>3 DEF Fs!Seen
  <1>3. UNCHANGED <<fsRing, fsSlot, fsJobs, fsTexts, loader, fsQueue, fsAttached, files,
                    disk, tried>>
    BY <1>1, <1>2 DEF Fs!HandleFrame, Fs!memory, Fs!socket
  <1>4. fsPushed' = fsPushed
    BY DEF Fs!PushesAgain
  <1>5. FsInv'
    BY <1>3, <1>4 DEF FsInv, FsTasks, Fs!Gone
  <1>6. FsDisk => FsDisk'
    BY <1>3 DEF FsDisk
  <1> QED
    BY <1>5, <1>6

\* What of a message is on the disk when one of its attachments had its turn.
LEMMA FsOverwrites ==
    ASSUME NEW out \in Seq(FsFile), NEW stored, NEW done, FsStays(out, stored, done),
           NEW job \in FsJob, \A i \in 1..Len(out) : ~Of(out[i], job),
           NEW opened, opened \subseteq {0, Fs!FileName(job.message, job.key)},
           NEW now, \A f \in stored : f.message # job.message \/ f.name \notin opened => f \in now
    PROVE  FsStays(out, now, done \union {job})
  <1> SUFFICES ASSUME NEW i \in 1..Len(out)
               PROVE  out[i] \in now \/ FsTurned(done \union {job}, out[i])
    BY DEF FsStays
  <1>1. PICK file \in FsFile : file = out[i]
    BY ElementOfSeq
  <1>2. CASE FsTurned(done, file)
    BY <1>1, <1>2 DEF FsTurned
  <1>3. CASE file \in stored /\ (file.message # job.message \/ file.name \notin opened)
    BY <1>1, <1>3
  <1>4. CASE file.message = job.message /\ file.name \in opened
    <2>1. job.key \in Fs!Keys(file.message) /\ job.key # file.holds
      BY <1>1, <1>4 DEF FsJob, Of
    <2>2. file.name \in {0, Fs!FileName(file.message, job.key)}
      BY <1>4
    <2>3. [message |-> file.message, key |-> job.key] = job
      BY <1>4 DEF FsJob
    <2> QED
      BY <1>1, <2>1, <2>2, <2>3 DEF FsTurned
  <1> QED
    BY <1>1, <1>2, <1>3, <1>4 DEF FsStays

FsFound(job, loaded) ==
    [message |-> job.message, name |-> Fs!Name(job, loaded), holds |-> job.key]

FsSaved(file, stored, out, opened) ==
    /\ out => stored
    /\ disk' = {f \in disk : f.message # file.message \/ f.name \notin opened}
                  \union (IF stored THEN {file} ELSE {})
    /\ files' = IF out THEN Append(files, file) ELSE files

\* cap_im_feishu_save_attachment
LEMMA FsSaves == ASSUME FsInv, Fs!Save PROVE FsInv' /\ (FsDisk => FsDisk')
  <1>1. loader.pc = "save" /\ loader' = Fs!Waiting /\ loader'.pc = "receive"
    BY DEF Fs!Save, Fs!Waiting
  <1>2. UNCHANGED <<fsPushed, fsRing, fsSlot, fsTexts, fsJobs, fsQueue, fsAttached>>
        /\ tried' = tried \union {loader.job}
    BY DEF Fs!Save, Fs!cloud, Fs!memory
  <1>3. PICK loaded, stored, out \in BOOLEAN :
        \E opened \in SUBSET {Fs!Name(loader.job, TRUE), Fs!Name(loader.job, FALSE)} :
            FsSaved(FsFound(loader.job, loaded), stored, out, opened)
    BY DEF Fs!Save, FsSaved, FsFound
  <1>4. PICK opened \in SUBSET {Fs!Name(loader.job, TRUE), Fs!Name(loader.job, FALSE)} :
            FsSaved(FsFound(loader.job, loaded), stored, out, opened)
    BY <1>3
  <1>5. PICK file :
            /\ file = [message |-> loader.job.message, name |-> Fs!Name(loader.job, loaded),
                       holds |-> loader.job.key]
            /\ out => stored
            /\ disk' = {f \in disk : f.message # file.message \/ f.name \notin opened}
                          \union (IF stored THEN {file} ELSE {})
            /\ files' = IF out THEN Append(files, file) ELSE files
    BY <1>4 DEF FsSaved, FsFound
  <1>6. /\ FsPieces(fsPushed, fsJobs, loader, files) /\ fsPushed \in Nat
        /\ files \in Seq(FsFile) /\ loader.job \in FsJob
    BY <1>1 DEF FsInv, FsPieces, FsFiles, FsLoads
  <1>7. file \in FsFile /\ Of(file, loader.job)
    <2>1. Fs!FileName(loader.job.message, loader.job.key) \in Nat
      BY <1>6 DEF Fs!FileName, FsJob
    <2> QED
      BY <1>5, <1>6, <2>1 DEF FsFile, FsJob, Of, Fs!Name
  <1>8. FsPieces(fsPushed, fsJobs, loader', files')
    <2>1. /\ FsPieces(fsPushed, fsJobs, loader', files)
          /\ FsPieces(fsPushed, fsJobs, loader', Append(files, file))
      BY <1>1, <1>6, <1>7, FsSavesPiece
    <2> QED
      BY <1>5, <2>1
  <1>9. FsInv'
    <2>1. loader' # Fs!Gone /\ loader # Fs!Gone
      BY <1>1 DEF Fs!Gone
    <2> QED
      BY <1>1, <1>2, <1>8, <2>1 DEF FsInv, FsTasks, Fs!Gone
  <1>10. ASSUME FsDisk PROVE FsDisk'
    <2>1. opened \subseteq {0, Fs!FileName(loader.job.message, loader.job.key)}
      BY DEF Fs!Name
    <2>2. \A i \in 1..Len(files) : ~Of(files[i], loader.job)
      BY <1>1, <1>6 DEF FsPieces, FsFiles
    <2>3. \A f \in disk : f.message # loader.job.message \/ f.name \notin opened => f \in disk'
      BY <1>5
    <2>4. FsStays(files, disk', tried')
      BY <1>2, <1>6, <1>10, <2>1, <2>2, <2>3, FsOverwrites DEF FsDisk
    <2>5. CASE files' = files
      BY <2>4, <2>5 DEF FsDisk
    <2>6. CASE files' = Append(files, file) /\ file \in disk'
      <3>1. PICK o : o = Append(files, file)
        OBVIOUS
      <3>2. /\ \A i \in 1..Len(files) : o[i] = files[i]
            /\ o[Len(files) + 1] = file
            /\ \A i \in 1..Len(o) : i \in 1..Len(files) \/ i = Len(files) + 1
        BY <1>6, <1>7, <3>1, OneMore
      <3>3. FsStays(o, disk', tried')
        BY <2>4, <2>6, <3>2 DEF FsStays
      <3> QED
        BY <2>6, <3>1, <3>3 DEF FsDisk
    <2> QED
      BY <1>5, <2>5, <2>6
  <1> QED
    BY <1>9, <1>10

\* The actions that publish nothing.
FsQuiet == UNCHANGED <<fsPushed, fsRing, fsSlot, fsTexts, files, disk, tried>>

LEMMA FsKeeps ==
    ASSUME FsInv, FsQuiet, FsPieces(fsPushed, fsJobs', loader', files), FsTasks'
    PROVE  FsInv' /\ (FsDisk => FsDisk')
  <1>1. FsInv'
    BY DEF FsInv, FsQuiet
  <1>2. FsDisk => FsDisk'
    BY DEF FsDisk, FsQuiet
  <1> QED
    BY <1>1, <1>2

\* cap_im_feishu_attachment_task, but for the download.
LEMMA FsLoader ==
    ASSUME FsInv, Fs!Receive \/ Fs!Leave \/ Fs!Ends PROVE FsInv' /\ (FsDisk => FsDisk')
  <1>1. FsPieces(fsPushed, fsJobs, loader, files) /\ FsTasks /\ fsPushed \in Nat
    BY DEF FsInv
  <1>2. CASE Fs!Receive
    <2>1. FsQuiet /\ UNCHANGED <<fsQueue, fsAttached>> /\ loader.pc = "receive"
      BY <1>2 DEF Fs!Receive, FsQuiet, Fs!cloud, Fs!memory, Fs!told
    <2>2. fsJobs # <<>> /\ fsJobs' = Tail(fsJobs)
          /\ loader' = [pc |-> "save", job |-> Head(fsJobs)]
      BY <1>2 DEF Fs!Receive
    <2>3. FsPieces(fsPushed, fsJobs', loader', files)
      BY <1>1, <2>2, FsTakesPiece
    <2>4. loader # Fs!Gone /\ loader' # Fs!Gone /\ loader'.pc = "save"
      BY <2>1, <2>2 DEF Fs!Gone
    <2>5. FsTasks'
      BY <1>1, <2>1, <2>4 DEF FsTasks, Fs!Gone
    <2> QED
      BY <2>1, <2>3, <2>5, FsKeeps
  <1>3. CASE Fs!Leave
    <2>1. FsQuiet /\ UNCHANGED <<fsJobs, fsQueue, fsAttached>> /\ loader.pc = "receive"
      BY <1>3 DEF Fs!Leave, FsQuiet, Fs!cloud, Fs!memory, Fs!told
    <2>2. loader'.pc = "leave"
      BY <1>3 DEF Fs!Leave, Fs!Waiting
    <2>3. FsPieces(fsPushed, fsJobs', loader', files)
      BY <1>1, <2>1, <2>2, FsNoPieces
    <2>4. loader # Fs!Gone /\ loader' # Fs!Gone
      BY <2>1, <2>2 DEF Fs!Gone
    <2>5. FsTasks'
      BY <1>1, <2>1, <2>2, <2>4 DEF FsTasks, Fs!Gone
    <2> QED
      BY <2>1, <2>3, <2>5, FsKeeps
  <1>4. CASE Fs!Ends
    <2>1. FsQuiet /\ UNCHANGED <<fsJobs, fsQueue>>
          /\ loader' = Fs!Gone /\ fsAttached' = FALSE
      BY <1>4 DEF Fs!Ends, FsQuiet, Fs!cloud, Fs!memory, Fs!told
    <2>2. loader'.pc = "gone"
      BY <2>1 DEF Fs!Gone
    <2>3. FsPieces(fsPushed, fsJobs', loader', files)
      BY <1>1, <2>1, <2>2, FsNoPieces
    <2>4. FsTasks'
      BY <2>1, <2>2 DEF FsTasks, Fs!Gone
    <2> QED
      BY <2>1, <2>3, <2>4, FsKeeps
  <1> QED
    BY <1>2, <1>3, <1>4

\* cap_im_feishu_stop, cap_im_feishu_start
LEMMA FsOperates ==
    ASSUME FsInv, Fs!Stopped \/ Fs!Enable \/ Fs!EnableFails PROVE FsInv' /\ (FsDisk => FsDisk')
  <1>1. FsPieces(fsPushed, fsJobs, loader, files) /\ FsTasks /\ fsPushed \in Nat
    BY DEF FsInv
  <1>2. CASE Fs!Stopped
    <2>1. /\ FsQuiet /\ UNCHANGED <<loader, fsAttached>> /\ ~fsAttached
          /\ fsJobs' = <<>> /\ fsQueue' = FALSE
      BY <1>2 DEF Fs!Stopped, Fs!TasksGone, FsQuiet, Fs!cloud, Fs!memory, Fs!told
    <2>2. loader = Fs!Gone /\ loader.pc = "gone"
      <3>1. loader = Fs!Gone
        BY <1>1, <2>1 DEF FsTasks
      <3> QED
        BY <3>1 DEF Fs!Gone
    <2>3. FsPieces(fsPushed, fsJobs', loader', files)
      BY <1>1, <2>1, <2>2, FsNoPieces
    <2>4. FsTasks'
      BY <1>1, <2>1, <2>2 DEF FsTasks, Fs!Gone
    <2> QED
      BY <2>1, <2>3, <2>4, FsKeeps
  <1>3. CASE Fs!Enable
    <2>1. /\ FsQuiet /\ UNCHANGED fsJobs /\ fsQueue' = TRUE /\ fsAttached' = TRUE
          /\ loader' = IF fsAttached THEN loader ELSE Fs!Waiting
      BY <1>3 DEF Fs!Enable, Fs!Attach, FsQuiet, Fs!cloud, Fs!memory, Fs!told
    <2>2. Fs!Waiting.pc = "receive" /\ Fs!Waiting # Fs!Gone
      BY DEF Fs!Waiting, Fs!Gone
    <2>3. FsPieces(fsPushed, fsJobs', loader', files)
      <3>1. FsPieces(fsPushed, fsJobs, Fs!Waiting, files)
        BY <1>1, <2>2, FsNoPieces
      <3> QED
        BY <1>1, <2>1, <3>1
    <2>4. FsTasks'
      BY <1>1, <2>1, <2>2 DEF FsTasks, Fs!Gone
    <2> QED
      BY <2>1, <2>3, <2>4, FsKeeps
  <1>4. CASE Fs!EnableFails
    <2>1. /\ FsQuiet /\ fsJobs' = <<>> /\ fsQueue' = FALSE /\ fsAttached' = FALSE
          /\ loader' = Fs!Gone
      BY <1>4 DEF Fs!EnableFails, Fs!Fault, FsQuiet, Fs!cloud, Fs!memory, Fs!told
    <2>2. loader'.pc = "gone"
      BY <2>1 DEF Fs!Gone
    <2>3. FsPieces(fsPushed, fsJobs', loader', files)
      BY <1>1, <2>1, <2>2, FsNoPieces
    <2>4. FsTasks'
      BY <2>1, <2>2 DEF FsTasks, Fs!Gone
    <2> QED
      BY <2>1, <2>3, <2>4, FsKeeps
  <1> QED
    BY <1>2, <1>3, <1>4

\* The websocket, its task, and the calls that leave the queue and its task alone.
LEMMA FsElsewhere ==
    ASSUME FsInv,
           \/ Fs!Connects \/ Fs!Disconnects \/ Fs!GivesUp \/ Fs!Socket \/ Fs!Disable
           \/ Fs!EnableRunning \/ Fs!StopTimesOut \/ UNCHANGED Fs!fvars
    PROVE  FsInv' /\ (FsDisk => FsDisk')
  <1>1. FsQuiet /\ UNCHANGED Fs!loads
    <2>1. CASE Fs!Connects \/ Fs!Disconnects \/ Fs!GivesUp \/ UNCHANGED Fs!fvars
      BY <2>1 DEF Fs!Connects, Fs!Disconnects, Fs!GivesUp, Fs!Fault, FsQuiet, Fs!cloud,
                  Fs!memory, Fs!told, Fs!loads, Fs!fvars
    <2>2. CASE Fs!Socket
      BY <2>2 DEF Fs!Socket, Fs!Opens, Fs!Notices, Fs!Closes, Fs!Turns, Fs!Fault, FsQuiet,
                  Fs!cloud, Fs!memory, Fs!told, Fs!loads
    <2>3. CASE Fs!Disable \/ Fs!EnableRunning \/ Fs!StopTimesOut
      BY <2>3 DEF Fs!Disable, Fs!EnableRunning, Fs!StopTimesOut, FsQuiet, Fs!cloud,
                  Fs!memory, Fs!told, Fs!loads
    <2> QED
      BY <2>1, <2>2, <2>3
  <1>2. FsPieces(fsPushed, fsJobs', loader', files) /\ FsTasks'
    BY <1>1 DEF FsInv, FsTasks, Fs!Gone, Fs!loads
  <1> QED
    BY <1>1, <1>2, FsKeeps

LEMMA FsStep ==
    ASSUME FsInv, [Fs!Next]_(Fs!fvars)
    PROVE  FsInv' /\ (FsDisk => FsDisk')
  BY FsPushes, FsPushesAgain, FsSaves, FsLoader, FsOperates, FsElsewhere
     DEF Fs!Next, Fs!Thread, Fs!Load, Fs!Operate, Fs!Wait

\* A message that Feishu pushes again is published once, text and attachments, and the
\* queue outlives the task that receives from it; and a saved attachment stays what it
\* was published as until another of its message has overwritten it, however many
\* downloads fail.
THEOREM EventsAreHandled == Fs!Init /\ [][Fs!Next]_(Fs!fvars) =>
    [](Fs!PublishedOnce /\ Fs!QueueOutlivesTask /\ Fs!FilesStay)
  <1> DEFINE Inv == FsInv /\ FsDisk
  <1>1. Fs!Init => Inv
    BY FsInit
  <1>2. Inv /\ [Fs!Next]_(Fs!fvars) => Inv'
    BY FsStep
  <1>3. Inv => Fs!PublishedOnce /\ Fs!QueueOutlivesTask /\ Fs!FilesStay
    <2> SUFFICES ASSUME FsInv, FsDisk
                 PROVE  Fs!PublishedOnce /\ Fs!QueueOutlivesTask /\ Fs!FilesStay
      OBVIOUS
    <2>1. DOMAIN fsTexts = 1..Len(fsTexts) /\ Different(fsTexts)
      BY LenProperties DEF FsInv, FsTold
    <2>2. DOMAIN files = 1..Len(files)
      BY LenProperties DEF FsInv, FsPieces, FsFiles
    <2>3. Fs!PublishedOnce
      BY <2>1, <2>2 DEF FsInv, FsPieces, FsFiles, Different, Fs!PublishedOnce
    <2>4. Fs!QueueOutlivesTask
      BY DEF FsInv, FsTasks, Fs!QueueOutlivesTask
    <2>5. Fs!FilesStay
      BY <2>2 DEF FsDisk, FsStays, FsTurned, Fs!FilesStay
    <2> QED
      BY <2>3, <2>4, <2>5
  <1> HIDE DEF Inv
  <1> QED
    BY <1>1, <1>2, <1>3, PTL

-----------------------------------------------------------------------------
(* QQ.  What it sends again is one of its last messages, but frames that were *)
(* dropped make way for later ones, so the ring is not in their order.  Of    *)
(* two messages in the ring, or waiting for it, the one that came first is    *)
(* not later by half the ring; and so many of them as the ring holds are not  *)
(* all near to the oldest: when that one is overwritten, QQ will not send it  *)
(* again.                                                                     *)

\* Messages of which x came first; 0 is none.
Near(size, x, y) == x # 0 /\ y # 0 => 2 * (x - y) < size

QqRing(size, r, c, top) ==
    /\ r \in [0..(size - 1) -> Nat] /\ c \in 0..(size - 1)
    /\ \A i \in 0..(size - 1) : r[i] <= top
    /\ \A i, j \in 0..(size - 1) : r[i] # 0 /\ r[i] = r[j] => i = j
    /\ \A i, j \in 0..(size - 1) :
          Age(size, c, j) < Age(size, c, i) /\ r[i] # 0 => r[j] # 0 /\ Near(size, r[i], r[j])

\* The message that is being looked at and those in the queue behind it.
QqLine(size, r, top, n, q) ==
    /\ n \in Nat /\ q \in [0..n -> Nat]
    /\ \A j \in 0..n : q[j] <= top
    /\ \A i \in 0..(size - 1) : \A j \in 0..n : Near(size, r[i], q[j])
    /\ \A i, j \in 0..n : i < j => Near(size, q[i], q[j])

\* A message that was looked at is in the ring, or it neither waits nor comes again.
Remembered(size, r, top, n, q, u) ==
    /\ u \in Nat /\ 0 < u /\ u <= top
    /\ \/ \E i \in 0..(size - 1) : r[i] = u
       \/ size <= 2 * (top - u) /\ \A j \in 0..n : q[j] # u

\* So many different numbers as the ring has places are not all near x.
LEMMA Crowd ==
    ASSUME NEW size \in Nat \ {0}, NEW f \in [0..(size - 1) -> Nat], NEW x \in Nat,
           \A i, j \in 0..(size - 1) : f[i] = f[j] => i = j,
           \A i \in 0..(size - 1) : f[i] # x /\ 2 * (x - f[i]) < size
    PROVE  \E i \in 0..(size - 1) : size <= 2 * (f[i] - x)
  <1> SUFFICES ASSUME ~(\E i \in 0..(size - 1) : size <= 2 * (f[i] - x)) PROVE FALSE
    OBVIOUS
  <1>0. ASSUME NEW v \in Nat, NEW i \in 0..(size - 1), v = f[i] PROVE 2 * (v - x) < size
    <2>1. ~(size <= 2 * (v - x))
      BY <1>0
    <2> QED
      BY <2>1
  <1>1. PICK h \in Nat : 2 * h < size /\ size <= 2 * h + 2
    <2>1. (size - 1) \div 2 \in Nat /\ 2 * ((size - 1) \div 2) < size
          /\ size <= 2 * ((size - 1) \div 2) + 2
      BY Z3
    <2> QED
      BY <2>1
  <1>2. PICK window : window = ((x - h)..(x + h)) \ {x}
    OBVIOUS
  <1>3. IsFiniteSet(window) /\ Cardinality(window) = 2 * h
    <2>1. x - h \in Int /\ x + h \in Int /\ ~(x - h > x + h) /\ (x + h) - (x - h) + 1 = 2 * h + 1
          /\ x \in (x - h)..(x + h)
      OBVIOUS
    <2>2. IsFiniteSet((x - h)..(x + h)) /\ Cardinality((x - h)..(x + h)) = 2 * h + 1
      BY <2>1, FS_Interval
    <2>3. IsFiniteSet(window) /\ Cardinality(window) = Cardinality((x - h)..(x + h)) - 1
      BY <1>2, <2>1, <2>2, FS_RemoveElement
    <2> QED
      BY <2>2, <2>3
  <1>4. IsFiniteSet(0..(size - 1)) /\ Cardinality(0..(size - 1)) = size
    <2>1. 0 \in Int /\ size - 1 \in Int /\ ~(0 > size - 1) /\ (size - 1) - 0 + 1 = size
      OBVIOUS
    <2> QED
      BY <2>1, FS_Interval
  <1>5. \A i \in 0..(size - 1) : f[i] \in window
    <2> SUFFICES ASSUME NEW i \in 0..(size - 1) PROVE f[i] \in window
      OBVIOUS
    <2>1. PICK v \in Nat : v = f[i]
      OBVIOUS
    <2>2. v # x /\ 2 * (x - v) < size /\ 2 * (v - x) < size
      BY <1>0, <2>1
    <2>3. x - h <= v /\ v <= x + h
      BY <1>1, <2>2
    <2> QED
      BY <1>2, <2>1, <2>2, <2>3
  <1>6. f \in [0..(size - 1) -> window]
    BY <1>5
  <1>7. \E i, j \in 0..(size - 1) : i # j /\ f[i] = f[j]
    <2>1. Cardinality(window) < Cardinality(0..(size - 1))
      BY <1>1, <1>3, <1>4
    <2>2. PICK cells : cells = 0..(size - 1)
      OBVIOUS
    <2>3. /\ IsFiniteSet(cells) /\ IsFiniteSet(window) /\ Cardinality(window) < Cardinality(cells)
          /\ f \in [cells -> window]
      BY <1>3, <1>4, <1>6, <2>1, <2>2
    <2>4. \E x1, y1 \in cells : x1 # y1 /\ f[x1] = f[y1]
      BY ONLY <2>3, FS_PigeonHole
    <2> QED
      BY <2>2, <2>4
  <1> QED
    BY <1>7

\* A message of late, or none, and the line it is at the end of.
Fresh(size, later, m) == m # 0 => m <= later /\ 2 * (later - m) < size
Longer(n, q, m, p) == p \in [0..(n + 1) -> Nat] /\ (\A j \in 0..n : p[j] = q[j]) /\ p[n + 1] = m

\* A frame is queued, or dropped.
LEMMA QqArrival ==
    ASSUME NEW size \in Nat \ {0}, NEW r, NEW c, NEW top \in Nat, NEW n, NEW q,
           QqRing(size, r, c, top), QqLine(size, r, top, n, q),
           NEW later \in Nat, top <= later,
           NEW m \in Nat, Fresh(size, later, m), NEW p, Longer(n, q, m, p)
    PROVE  /\ QqRing(size, r, c, later)
           /\ QqLine(size, r, later, n, q) /\ QqLine(size, r, later, n + 1, p)
           /\ \A u : Remembered(size, r, top, n, q, u) =>
                 /\ Remembered(size, r, later, n, q, u)
                 /\ Remembered(size, r, later, n + 1, p, u)
  <1>1. /\ r \in [0..(size - 1) -> Nat] /\ n \in Nat /\ q \in [0..n -> Nat]
        /\ \A i \in 0..(size - 1) : r[i] <= top /\ r[i] \in Nat
        /\ \A j \in 0..n : q[j] <= top /\ q[j] \in Nat
    BY DEF QqRing, QqLine
  <1>2. /\ \A i \in 0..(size - 1) : r[i] <= later
        /\ \A j \in 0..n : q[j] <= later
    <2>1. ASSUME NEW v \in Nat, v <= top PROVE v <= later
      BY <2>1
    <2> QED
      BY <1>1, <2>1
  <1> USE DEF Longer, Fresh
  <1>3. QqRing(size, r, c, later)
    BY <1>2 DEF QqRing
  <1>4. QqLine(size, r, later, n, q)
    BY <1>2 DEF QqLine
  <1>5. \A x \in Nat : x <= top => Near(size, x, m)
    BY DEF Near
  <1>6. \A j \in 0..(n + 1) : j \in 0..n \/ j = n + 1
    BY <1>1
  <1>7. QqLine(size, r, later, n + 1, p)
    <2>1. \A j \in 0..(n + 1) : p[j] <= later
      BY <1>2, <1>6
    <2>2. \A i \in 0..(size - 1) : \A j \in 0..(n + 1) : Near(size, r[i], p[j])
      <3> SUFFICES ASSUME NEW i \in 0..(size - 1), NEW j \in 0..(n + 1)
                   PROVE  Near(size, r[i], p[j])
        OBVIOUS
      <3>1. CASE j \in 0..n
        BY <3>1 DEF QqLine
      <3>2. CASE j = n + 1
        BY <1>1, <1>5, <3>2
      <3> QED
        BY <1>6, <3>1, <3>2
    <2>3. ASSUME NEW i \in 0..(n + 1), NEW j \in 0..(n + 1), i < j PROVE Near(size, p[i], p[j])
      <3>1. i \in 0..n
        BY <1>1, <2>3
      <3>2. CASE j \in 0..n
        BY <2>3, <3>1, <3>2 DEF QqLine
      <3>3. CASE j = n + 1
        BY <1>1, <1>5, <3>1, <3>3
      <3> QED
        BY <1>6, <3>2, <3>3
    <2> QED
      BY <1>1, <2>1, <2>2, <2>3 DEF QqLine
  <1>8. ASSUME NEW u, Remembered(size, r, top, n, q, u)
        PROVE  Remembered(size, r, later, n, q, u) /\ Remembered(size, r, later, n + 1, p, u)
    <2>1. u \in Nat /\ 0 < u /\ u <= top /\ u <= later
      BY <1>8 DEF Remembered
    <2>2. CASE \E i \in 0..(size - 1) : r[i] = u
      BY <2>1, <2>2 DEF Remembered
    <2>3. CASE size <= 2 * (top - u) /\ \A j \in 0..n : q[j] # u
      <3>1. size <= 2 * (later - u) /\ m # u
        BY <2>1, <2>3
      <3>2. \A j \in 0..(n + 1) : p[j] # u
        BY <1>6, <2>3, <3>1
      <3> QED
        BY <2>1, <2>3, <3>1, <3>2 DEF Remembered
    <2> QED
      BY <1>8, <2>2, <2>3 DEF Remembered
  <1> QED
    BY <1>3, <1>4, <1>7, <1>8

\* Messages leave the line, in front or all of them.
LEMMA QqLeaves ==
    ASSUME NEW size, NEW r, NEW top \in Nat, NEW n, NEW q,
           QqLine(size, r, top, n, q),
           NEW d \in Nat, NEW k \in Nat, NEW p, p \in [0..k -> Nat],
           \A j \in 0..k : p[j] = 0 \/ (j + d \in 0..n /\ p[j] = q[j + d])
    PROVE  /\ QqLine(size, r, top, k, p)
           /\ \A u : Remembered(size, r, top, n, q, u) => Remembered(size, r, top, k, p, u)
  <1>1. ASSUME NEW j \in 0..k PROVE p[j] <= top
    <2>1. CASE p[j] = 0
      BY <2>1
    <2>2. CASE j + d \in 0..n /\ p[j] = q[j + d]
      BY <2>2 DEF QqLine
    <2> QED
      BY <2>1, <2>2
  <1>2. ASSUME NEW i \in 0..(size - 1), NEW j \in 0..k PROVE Near(size, r[i], p[j])
    <2>1. CASE p[j] = 0
      BY <2>1 DEF Near
    <2>2. CASE j + d \in 0..n /\ p[j] = q[j + d]
      BY <2>2 DEF QqLine
    <2> QED
      BY <2>1, <2>2
  <1>3. ASSUME NEW i \in 0..k, NEW j \in 0..k, i < j PROVE Near(size, p[i], p[j])
    <2>1. CASE p[i] = 0 \/ p[j] = 0
      BY <2>1 DEF Near
    <2>2. CASE /\ i + d \in 0..n /\ p[i] = q[i + d]
               /\ j + d \in 0..n /\ p[j] = q[j + d]
      <3>1. i + d < j + d
        BY <1>3
      <3>2. Near(size, q[i + d], q[j + d])
        BY <2>2, <3>1 DEF QqLine
      <3> QED
        BY <2>2, <3>2
    <2> QED
      BY <2>1, <2>2
  <1>4. QqLine(size, r, top, k, p)
    BY <1>1, <1>2, <1>3 DEF QqLine
  <1>5. ASSUME NEW u, Remembered(size, r, top, n, q, u) PROVE Remembered(size, r, top, k, p, u)
    <2>1. u \in Nat /\ 0 < u /\ u <= top /\ u # 0
      BY <1>5 DEF Remembered
    <2>2. (\A j \in 0..n : q[j] # u) => \A j \in 0..k : p[j] # u
      BY <2>1
    <2> QED
      BY <1>5, <2>1, <2>2 DEF Remembered
  <1> QED
    BY <1>4, <1>5

\* The ring with one message more, and the line without the message in hand.
Takes(size, r, c, m, t, d) == t = [r EXCEPT ![c] = m] /\ d = NextCell(size, c)
Looked(q, p) == p = [q EXCEPT ![0] = 0]
Shows(size, r, m) == \E i \in 0..(size - 1) : r[i] = m

\* A message that is not in the ring is written over the oldest one.
LEMMA QqRecord ==
    ASSUME NEW size \in Nat \ {0}, NEW r, NEW c, NEW top \in Nat, NEW n, NEW q,
           QqRing(size, r, c, top), QqLine(size, r, top, n, q),
           NEW m, m = q[0], m # 0, ~Shows(size, r, m),
           NEW t, NEW d, Takes(size, r, c, m, t, d), NEW p, Looked(q, p)
    PROVE  /\ QqRing(size, t, d, top) /\ QqLine(size, t, top, n, p)
           /\ Remembered(size, t, top, n, p, m)
           /\ \A u : Remembered(size, r, top, n, q, u) => Remembered(size, t, top, n, p, u)
  <1> USE DEF Takes, Looked, Shows
  <1>1. /\ r \in [0..(size - 1) -> Nat] /\ c \in 0..(size - 1) /\ n \in Nat /\ 0 \in 0..n
        /\ q \in [0..n -> Nat] /\ q[0] \in Nat /\ q[0] <= top
    BY DEF QqRing, QqLine
  <1>2. /\ t \in [0..(size - 1) -> Nat] /\ t[c] = q[0]
        /\ \A i \in 0..(size - 1) : i # c => t[i] = r[i]
    BY <1>1
  <1>3. /\ p \in [0..n -> Nat] /\ p[0] = 0
        /\ \A j \in 0..n : j # 0 => p[j] = q[j]
    BY <1>1
  <1>4. /\ d \in 0..(size - 1) /\ Age(size, d, c) = 0 /\ Age(size, c, c) = size - 1
        /\ \A i \in 0..(size - 1) : /\ Age(size, c, i) \in 0..(size - 1)
                                    /\ i # c => Age(size, d, i) = Age(size, c, i) + 1
    BY <1>1, CellsMove
  <1>5. ASSUME NEW i \in 0..(size - 1), i # c PROVE Age(size, c, i) < Age(size, c, c)
    <2>1. Age(size, d, i) = Age(size, c, i) + 1 /\ Age(size, d, i) \in 0..(size - 1)
      BY <1>1, <1>4, <1>5, CellsMove
    <2> QED
      BY <1>4, <2>1
  <1>6. QqRing(size, t, d, top)
    <2>1. \A i \in 0..(size - 1) : t[i] <= top
      BY <1>1, <1>2 DEF QqRing
    <2>2. \A i, j \in 0..(size - 1) : t[i] # 0 /\ t[i] = t[j] => i = j
      BY <1>1, <1>2 DEF QqRing
    <2>3. ASSUME NEW i \in 0..(size - 1), NEW j \in 0..(size - 1),
                 Age(size, d, j) < Age(size, d, i), t[i] # 0
          PROVE  t[j] # 0 /\ Near(size, t[i], t[j])
      <3>1. i # c
        <4>1. Age(size, d, j) \in 0..(size - 1)
          BY <1>4, CellsMove
        <4> QED
          BY <1>4, <2>3, <4>1
      <3>2. CASE j = c
        BY <1>2, <2>3, <3>1, <3>2, <1>1 DEF QqLine
      <3>3. CASE j # c
        <4>1. Age(size, c, j) < Age(size, c, i)
          BY <1>4, <2>3, <3>1, <3>3
        <4> QED
          BY <1>2, <2>3, <3>1, <3>3, <4>1 DEF QqRing
      <3> QED
        BY <3>2, <3>3
    <2>4. \A i, j \in 0..(size - 1) :
             Age(size, d, j) < Age(size, d, i) /\ t[i] # 0
                => t[j] # 0 /\ Near(size, t[i], t[j])
      BY <2>3
    <2> QED
      BY <1>2, <1>4, <2>1, <2>2, <2>4 DEF QqRing
  <1>7. QqLine(size, t, top, n, p)
    <2>1. \A j \in 0..n : p[j] <= top
      BY <1>3 DEF QqLine
    <2>2. ASSUME NEW i \in 0..(size - 1), NEW j \in 0..n PROVE Near(size, t[i], p[j])
      <3>1. CASE j = 0
        BY <1>3, <3>1 DEF Near
      <3>2. CASE j # 0 /\ i # c
        BY <1>2, <1>3, <3>2 DEF QqLine
      <3>3. CASE j # 0 /\ i = c
        <4>1. 0 < j
          BY <3>3
        <4>2. Near(size, q[0], q[j])
          BY <1>1, <4>1 DEF QqLine
        <4> QED
          BY <1>2, <1>3, <3>3, <4>2
      <3> QED
        BY <3>1, <3>2, <3>3
    <2>3. ASSUME NEW i \in 0..n, NEW j \in 0..n, i < j PROVE Near(size, p[i], p[j])
      <3>1. j # 0
        BY <2>3
      <3>2. CASE i = 0
        BY <1>3, <3>2 DEF Near
      <3>3. CASE i # 0
        BY <1>3, <2>3, <3>1, <3>3 DEF QqLine
      <3> QED
        BY <3>2, <3>3
    <2> QED
      BY <1>1, <1>3, <2>1, <2>2, <2>3 DEF QqLine
  <1>8. Remembered(size, t, top, n, p, m)
    BY <1>1, <1>2 DEF Remembered
  <1>9. ASSUME NEW u, Remembered(size, r, top, n, q, u)
        PROVE  Remembered(size, t, top, n, p, u)
    <2>1. u \in Nat /\ 0 < u /\ u <= top
      BY <1>9 DEF Remembered
    <2>2. CASE size <= 2 * (top - u) /\ \A j \in 0..n : q[j] # u
      BY <1>3, <2>1, <2>2 DEF Remembered
    <2>3. CASE \E i \in 0..(size - 1) : i # c /\ r[i] = u
      BY <1>2, <2>1, <2>3 DEF Remembered
    <2>4. CASE r[c] = u
      <3>1. \A i \in 0..(size - 1) : i # c => r[i] # 0 /\ Near(size, u, r[i])
        BY <1>1, <1>5, <2>1, <2>4 DEF QqRing
      <3>2. \A i \in 0..(size - 1) : Near(size, u, t[i])
        BY <1>1, <1>2, <2>4, <3>1 DEF QqLine
      <3>3. \A i \in 0..(size - 1) : t[i] # 0 /\ t[i] # u
        BY <1>1, <1>2, <2>1, <2>4, <3>1 DEF QqRing
      <3>4. \A i, j \in 0..(size - 1) : t[i] = t[j] => i = j
        BY <1>6, <3>3 DEF QqRing
      <3>5. \A i \in 0..(size - 1) : t[i] # u /\ 2 * (u - t[i]) < size
        BY <2>1, <3>2, <3>3 DEF Near
      <3>6. PICK i \in 0..(size - 1) : size <= 2 * (t[i] - u)
        BY <1>2, <2>1, <3>4, <3>5, Crowd
      <3>7. t[i] \in Nat /\ t[i] <= top
        BY <1>2, <1>6 DEF QqRing
      <3>8. size <= 2 * (top - u)
        BY <2>1, <3>6, <3>7
      <3>9. ASSUME NEW j \in 0..n, p[j] = u PROVE FALSE
        <4>1. Near(size, t[i], u)
          BY <1>7, <3>9 DEF QqLine
        <4>2. 2 * (t[i] - u) < size
          BY <2>1, <3>3, <4>1 DEF Near
        <4> QED
          BY <2>1, <3>6, <3>7, <4>2
      <3> QED
        BY <2>1, <3>8, <3>9 DEF Remembered
    <2> QED
      BY <1>9, <2>2, <2>3, <2>4 DEF Remembered
  <1> QED
    BY <1>6, <1>7, <1>8, <1>9

\* The ring, the task's hand, the queue and what is published.
QqHeld(top, r, c, fs, tasks, told, q) ==
    /\ QqRing(QQRingLen, r, c, top) /\ QqLine(QQRingLen, r, top, Len(fs), q)
    /\ \A j \in 1..Len(fs) : q[j] = fs[j].message
    /\ \A k \in Q!Workers : tasks[k].pc = "process" => q[0] = tasks[k].frame.message
    /\ told \in Seq(Nat) /\ Different(told)
    /\ \A i \in 1..Len(told) : Remembered(QQRingLen, r, top, Len(fs), q, told[i])
    /\ \A k \in Q!Workers : tasks[k].pc = "download" =>
          /\ Remembered(QQRingLen, r, top, Len(fs), q, tasks[k].frame.message)
          /\ \A i \in 1..Len(told) : told[i] # tasks[k].frame.message

QqOnce(top, r, c, fs, tasks, told) == \E q : QqHeld(top, r, c, fs, tasks, told, q)

QqFrame == [op : {"hello", "reconnect"}, message : {0}, of : Nat]
              \cup [op : {"dispatch"}, message : Nat \ {0}, of : Nat]
QqTask  == {Q!Idle, Q!Gone} \cup [pc : {"process"}, frame : QqFrame]
              \cup [pc : {"download"}, frame : QqFrame]

QqTypes ==
    /\ pushed \in Nat /\ client \in Nat /\ conns \in Nat /\ frames \in Seq(QqFrame)
    /\ inbound \in [Q!Workers -> QqTask] /\ doubled \in BOOLEAN

\* One task at most, on its queue; one that a stop of a gone gateway forgot is alone
\* until the next start.
QqAlone ==
    /\ \A k, l \in Q!Workers : inbound[k] # Q!Gone /\ inbound[l] # Q!Gone => k = l
    /\ (\E k \in Q!Workers : inbound[k] # Q!Gone) =>
          qqQueue /\ (loading \/ (~qqOn /\ qqOper = "idle" /\ ws = "off"))

QqInv ==
    /\ QqTypes
    /\ ~doubled => QqAlone /\ QqOnce(pushed, seen, place, frames, inbound, published)

LEMMA QqLimits == QQRingLen \in Nat \ {0}
  BY QQAssumption

LEMMA QqTaskIs ==
    ASSUME NEW t \in QqTask
    PROVE  /\ t.pc \in {"receive", "gone", "process", "download"}
           /\ t.pc \in {"process", "download"} => t.frame \in QqFrame /\ t # Q!Gone
           /\ Q!Idle.pc = "receive" /\ Q!Gone.pc = "gone" /\ Q!Idle # Q!Gone
           /\ Q!Idle \in QqTask /\ Q!Gone \in QqTask
  BY DEF QqTask, Q!Idle, Q!Gone

\* What a queue that is emptied and tasks that have nothing in hand forget.
LEMMA QqEmpties ==
    ASSUME NEW top \in Nat, NEW r, NEW c, NEW fs, NEW tasks, NEW told,
           QqOnce(top, r, c, fs, tasks, told),
           NEW now, \A k \in Q!Workers : now[k] = tasks[k] \/ now[k].pc \in {"receive", "gone"}
    PROVE  QqOnce(top, r, c, <<>>, now, told) /\ QqOnce(top, r, c, fs, now, told)
  <1>1. PICK q : QqHeld(top, r, c, fs, tasks, told, q)
    BY DEF QqOnce
  <1>2. Len(<<>>) = 0 /\ Len(fs) \in Nat /\ q \in [0..Len(fs) -> Nat]
    BY <1>1 DEF QqHeld, QqLine
  <1>3. PICK p : p = [j \in 0..0 |-> q[0]]
    OBVIOUS
  <1>4. /\ p \in [0..0 -> Nat] /\ p[0] = q[0]
        /\ \A j \in 0..0 : p[j] = 0 \/ (j + 0 \in 0..Len(fs) /\ p[j] = q[j + 0])
    BY <1>2, <1>3
  <1>5. /\ QqLine(QQRingLen, r, top, 0, p)
        /\ \A u : Remembered(QQRingLen, r, top, Len(fs), q, u)
                     => Remembered(QQRingLen, r, top, 0, p, u)
    BY <1>1, <1>4, QqLeaves DEF QqHeld
  <1>6. QqHeld(top, r, c, <<>>, now, told, p)
    <2>1. \A k \in Q!Workers : now[k].pc \in {"process", "download"} => now[k] = tasks[k]
      OBVIOUS
    <2>2. \A k \in Q!Workers : now[k].pc = "process" => p[0] = now[k].frame.message
      BY <1>1, <1>4, <2>1 DEF QqHeld
    <2>3. \A k \in Q!Workers : now[k].pc = "download" =>
             /\ Remembered(QQRingLen, r, top, 0, p, now[k].frame.message)
             /\ \A i \in 1..Len(told) : told[i] # now[k].frame.message
      BY <1>1, <1>5, <2>1 DEF QqHeld
    <2>4. \A i \in 1..Len(told) : Remembered(QQRingLen, r, top, 0, p, told[i])
      BY <1>1, <1>5 DEF QqHeld
    <2>5. \A j \in 1..0 : p[j] = <<>>[j].message
      OBVIOUS
    <2> QED
      BY <1>1, <1>2, <1>5, <2>2, <2>3, <2>4, <2>5 DEF QqHeld
  <1>7. QqHeld(top, r, c, fs, now, told, q)
    BY <1>1 DEF QqHeld
  <1> QED
    BY <1>6, <1>7 DEF QqOnce

\* The websocket's thread queues a frame or drops it.
LEMMA QqQueues ==
    ASSUME NEW top \in Nat, NEW r, NEW c, NEW fs \in Seq(QqFrame), NEW tasks, NEW told,
           QqOnce(top, r, c, fs, tasks, told),
           NEW later \in Nat, top <= later, NEW f \in QqFrame,
           Fresh(QQRingLen, later, f.message)
    PROVE  /\ QqOnce(later, r, c, fs, tasks, told)
           /\ QqOnce(later, r, c, Append(fs, f), tasks, told)
  <1>1. PICK q : QqHeld(top, r, c, fs, tasks, told, q)
    BY DEF QqOnce
  <1>2. PICK n \in Nat : n = Len(fs)
    BY LenProperties
  <1>3. QqLine(QQRingLen, r, top, n, q) /\ QqRing(QQRingLen, r, c, top) /\ q \in [0..n -> Nat]
    BY <1>1, <1>2 DEF QqHeld, QqLine
  <1>4. PICK m \in Nat : m = f.message
    BY DEF QqFrame
  <1>5. PICK p : p = [j \in 0..(n + 1) |-> IF j \in 0..n THEN q[j] ELSE m]
    OBVIOUS
  <1>6. p \in [0..(n + 1) -> Nat] /\ (\A j \in 0..n : p[j] = q[j]) /\ p[n + 1] = m
    BY <1>2, <1>3, <1>4, <1>5
  <1>7. Fresh(QQRingLen, later, m) /\ Longer(n, q, m, p)
    BY <1>4, <1>6 DEF Longer
  <1>8. /\ QqRing(QQRingLen, r, c, later)
        /\ QqLine(QQRingLen, r, later, n, q) /\ QqLine(QQRingLen, r, later, n + 1, p)
        /\ \A u : Remembered(QQRingLen, r, top, n, q, u) =>
              /\ Remembered(QQRingLen, r, later, n, q, u)
              /\ Remembered(QQRingLen, r, later, n + 1, p, u)
    BY <1>3, <1>6, <1>7, QqLimits, QqArrival
  <1>9. QqHeld(later, r, c, fs, tasks, told, q)
    BY <1>1, <1>2, <1>8 DEF QqHeld
  <1>10. PICK gs : gs = Append(fs, f)
    OBVIOUS
  <1>11. /\ Len(gs) = n + 1 /\ (\A i \in 1..n : gs[i] = fs[i]) /\ gs[n + 1] = f
         /\ \A i \in 1..(n + 1) : i \in 1..n \/ i = n + 1
    BY <1>2, <1>10, OneMore
  <1>12. \A j \in 1..(n + 1) : p[j] = gs[j].message
    <2> SUFFICES ASSUME NEW j \in 1..(n + 1) PROVE p[j] = gs[j].message
      OBVIOUS
    <2>1. CASE j \in 1..n
      BY <1>1, <1>2, <1>6, <1>11, <2>1 DEF QqHeld
    <2>2. CASE j = n + 1
      BY <1>4, <1>6, <1>11, <2>2
    <2> QED
      BY <1>11, <2>1, <2>2
  <1>13. QqHeld(later, r, c, gs, tasks, told, p)
    <2>1. p[0] = q[0]
      BY <1>2, <1>6
    <2> QED
      BY <1>1, <1>2, <1>8, <1>11, <1>12, <2>1 DEF QqHeld
  <1> QED
    BY <1>9, <1>10, <1>13 DEF QqOnce

\* The other tasks go on as they were; what task k has in hand.
OthersStay(now, tasks, k) == \A l \in Q!Workers : l # k => now[l] = tasks[l]
InHand(tasks, k, pc, m) == tasks[k].pc = pc /\ tasks[k].frame.message = m

\* Only task k has something in hand.
Only(tasks, k) == \A l \in Q!Workers : l # k => tasks[l].pc = "gone"

\* Receive
LEMMA QqTakes ==
    ASSUME NEW top \in Nat, NEW r, NEW c, NEW fs \in Seq(QqFrame), NEW tasks, NEW told,
           QqOnce(top, r, c, fs, tasks, told), fs # <<>>, NEW k \in Q!Workers,
           Only(tasks, k), NEW now, OthersStay(now, tasks, k),
           now[k] = [pc |-> "process", frame |-> Head(fs)]
    PROVE  QqOnce(top, r, c, Tail(fs), now, told)
  <1>1. PICK q : QqHeld(top, r, c, fs, tasks, told, q)
    BY DEF QqOnce
  <1>2. PICK n \in Nat : n = Len(fs) - 1 /\ Len(fs) = n + 1
    <2>1. Len(fs) \in Nat \ {0}
      BY EmptySeq
    <2>2. Len(fs) - 1 \in Nat /\ Len(fs) = (Len(fs) - 1) + 1
      BY <2>1
    <2> QED
      BY <2>2
  <1>3. PICK gs : gs = Tail(fs)
    OBVIOUS
  <1>4. Len(gs) = n /\ \A i \in 1..n : gs[i] = fs[i + 1] /\ i + 1 \in 1..(n + 1)
    BY <1>2, <1>3, HeadTailProperties
  <1>5. QqLine(QQRingLen, r, top, n + 1, q) /\ q \in [0..(n + 1) -> Nat]
    BY <1>1, <1>2 DEF QqHeld, QqLine
  <1>6. PICK p : p = [j \in 0..n |-> q[j + 1]]
    OBVIOUS
  <1>7. /\ p \in [0..n -> Nat] /\ p[0] = q[1]
        /\ \A j \in 0..n : j + 1 \in 0..(n + 1) /\ p[j] = q[j + 1]
    BY <1>5, <1>6
  <1>8. /\ QqLine(QQRingLen, r, top, n, p)
        /\ \A u : Remembered(QQRingLen, r, top, n + 1, q, u)
                     => Remembered(QQRingLen, r, top, n, p, u)
    <2>1. \A j \in 0..n : p[j] = 0 \/ (j + 1 \in 0..(n + 1) /\ p[j] = q[j + 1])
      BY <1>7
    <2> QED
      BY <1>5, <1>7, <2>1, QqLeaves
  <1>9. ASSUME NEW j \in 1..n PROVE p[j] = gs[j].message
    <2>1. j + 1 \in 1..Len(fs) /\ j \in 0..n
      BY <1>2, <1>4
    <2>2. q[j + 1] = fs[j + 1].message
      BY <1>1, <2>1 DEF QqHeld
    <2> QED
      BY <1>4, <1>7, <2>1, <2>2
  <1>10. p[0] = now[k].frame.message /\ now[k].pc = "process"
    <2>1. Head(fs) = fs[1] /\ 1 \in 1..Len(fs)
      BY <1>2, HeadTailProperties
    <2>2. q[1] = fs[1].message
      BY <1>1, <2>1 DEF QqHeld
    <2> QED
      BY <1>7, <2>1, <2>2
  <1>11. \A l \in Q!Workers : l # k => now[l].pc = "gone"
    BY DEF Only, OthersStay
  <1>12. QqHeld(top, r, c, gs, now, told, p)
    <2>1. \A l \in Q!Workers : now[l].pc = "process" => p[0] = now[l].frame.message
      BY <1>10, <1>11
    <2>2. \A l \in Q!Workers : now[l].pc # "download"
      BY <1>10, <1>11
    <2> QED
      BY <1>1, <1>2, <1>4, <1>8, <1>9, <2>1, <2>2 DEF QqHeld
  <1> QED
    BY <1>3, <1>12 DEF QqOnce

\* The check and the record of a message, which then is in the hand of task k.
LEMMA QqRemembers ==
    ASSUME NEW top \in Nat, NEW r, NEW c, NEW fs, NEW tasks, NEW told,
           QqOnce(top, r, c, fs, tasks, told), NEW k \in Q!Workers, Only(tasks, k),
           NEW m, InHand(tasks, k, "process", m), m # 0, ~Shows(QQRingLen, r, m),
           NEW now, OthersStay(now, tasks, k), InHand(now, k, "download", m),
           NEW t, NEW d, Takes(QQRingLen, r, c, m, t, d)
    PROVE  QqOnce(top, t, d, fs, now, told)
  <1>1. PICK q : QqHeld(top, r, c, fs, tasks, told, q)
    BY DEF QqOnce
  <1>2. PICK n : n = Len(fs)
    OBVIOUS
  <1>3. /\ QqRing(QQRingLen, r, c, top) /\ QqLine(QQRingLen, r, top, n, q)
        /\ q[0] = m /\ n \in Nat /\ q \in [0..n -> Nat]
        /\ DOMAIN r = 0..(QQRingLen - 1)
    BY <1>1, <1>2 DEF QqHeld, QqRing, QqLine, InHand
  <1>4. PICK p : p = [q EXCEPT ![0] = 0]
    OBVIOUS
  <1>5. /\ QqRing(QQRingLen, t, d, top) /\ QqLine(QQRingLen, t, top, n, p)
        /\ Remembered(QQRingLen, t, top, n, p, m)
        /\ \A u : Remembered(QQRingLen, r, top, n, q, u)
                     => Remembered(QQRingLen, t, top, n, p, u)
    <2>1. ~Shows(QQRingLen, r, m) /\ Takes(QQRingLen, r, c, m, t, d) /\ Looked(q, p)
      BY <1>3, <1>4 DEF Looked
    <2> QED
      BY <1>3, <2>1, QqLimits, QqRecord
  <1>6. \A j \in 1..n : p[j] = fs[j].message
    BY <1>1, <1>2, <1>3, <1>4 DEF QqHeld
  <1>7. \A l \in Q!Workers : now[l].pc # "process" /\ (l # k => now[l].pc = "gone")
    BY DEF Only, OthersStay, InHand
  <1>8. ASSUME NEW i \in 1..Len(told) PROVE told[i] # m
    <2>1. Remembered(QQRingLen, r, top, n, q, told[i])
      BY <1>1, <1>2 DEF QqHeld
    <2>2. 0 \in 0..n
      BY <1>3
    <2> QED
      BY <1>3, <2>1, <2>2 DEF Remembered, Shows
  <1>9. \A l \in Q!Workers : now[l].pc = "download" =>
           /\ Remembered(QQRingLen, t, top, n, p, now[l].frame.message)
           /\ \A i \in 1..Len(told) : told[i] # now[l].frame.message
    BY <1>5, <1>7, <1>8 DEF InHand
  <1>10. \A i \in 1..Len(told) : Remembered(QQRingLen, t, top, n, p, told[i])
    BY <1>1, <1>2, <1>5 DEF QqHeld
  <1>11. QqHeld(top, t, d, fs, now, told, p)
    BY <1>1, <1>2, <1>5, <1>6, <1>7, <1>9, <1>10 DEF QqHeld
  <1> QED
    BY <1>11 DEF QqOnce

\* The message in the hand of task k is published.
LEMMA QqPublishes ==
    ASSUME NEW top \in Nat, NEW r, NEW c, NEW fs, NEW tasks, NEW told,
           QqOnce(top, r, c, fs, tasks, told), NEW k \in Q!Workers, Only(tasks, k),
           NEW m \in Nat, InHand(tasks, k, "download", m),
           NEW now, OthersStay(now, tasks, k), now[k] = Q!Idle
    PROVE  QqOnce(top, r, c, fs, now, Append(told, m))
  <1>1. PICK q : QqHeld(top, r, c, fs, tasks, told, q)
    BY DEF QqOnce
  <1>2. PICK o : o = Append(told, m)
    OBVIOUS
  <1>3. /\ told \in Seq(Nat) /\ Different(told)
        /\ \A i \in 1..Len(told) : told[i] # m
        /\ Remembered(QQRingLen, r, top, Len(fs), q, m)
    BY <1>1 DEF QqHeld, InHand
  <1>4. /\ o \in Seq(Nat) /\ Len(o) = Len(told) + 1
        /\ \A i \in 1..Len(told) : o[i] = told[i]
        /\ o[Len(told) + 1] = m
        /\ \A i \in 1..Len(o) : i \in 1..Len(told) \/ i = Len(told) + 1
    BY <1>2, <1>3, OneMore
  <1>5. Different(o)
    BY <1>2, <1>3, DifferentMore
  <1>6. \A i \in 1..Len(o) : Remembered(QQRingLen, r, top, Len(fs), q, o[i])
    BY <1>1, <1>3, <1>4 DEF QqHeld
  <1>7. \A l \in Q!Workers : now[l].pc \notin {"process", "download"}
    BY DEF Only, OthersStay, Q!Idle
  <1>8. QqHeld(top, r, c, fs, now, o, q)
    BY <1>1, <1>4, <1>5, <1>6, <1>7 DEF QqHeld
  <1> QED
    BY <1>2, <1>8 DEF QqOnce

LEMMA QqInit == ASSUME Q!Init PROVE QqInv
  <1>1. /\ pushed = 0 /\ client = 0 /\ conns = 0 /\ frames = <<>> /\ qqQueue = TRUE
        /\ inbound = [k \in Q!Workers |-> IF k = 1 THEN Q!Idle ELSE Q!Gone]
        /\ loading = TRUE /\ published = <<>> /\ doubled = FALSE
        /\ seen = [i \in 0..(QQRingLen - 1) |-> 0] /\ place = 0
    BY DEF Q!Init
  <1>2. /\ <<>> \in Seq(QqFrame) /\ <<>> \in Seq(Nat) /\ Len(<<>>) = 0
        /\ Q!Workers = {1, 2}
    BY DEF Q!Workers
  <1>3. \A k \in Q!Workers : inbound[k].pc \in {"receive", "gone"}
    BY <1>1 DEF Q!Idle, Q!Gone
  <1>4. QqTypes
    BY <1>1, <1>2 DEF QqTypes, QqTask
  <1>5. QqAlone
    BY <1>1, <1>2 DEF QqAlone
  <1>6. PICK q : q = [j \in 0..0 |-> 0]
    OBVIOUS
  <1>7. q \in [0..0 -> Nat] /\ \A j \in 0..0 : q[j] = 0
    BY <1>6
  <1>8. QqRing(QQRingLen, seen, 0, 0)
    BY <1>1, QqLimits DEF QqRing
  <1>9. QqLine(QQRingLen, seen, 0, 0, q)
    BY <1>7 DEF QqLine, Near
  <1>10. QqHeld(0, seen, 0, <<>>, inbound, <<>>, q)
    BY <1>2, <1>3, <1>8, <1>9 DEF QqHeld, Different
  <1> QED
    BY <1>1, <1>4, <1>5, <1>10 DEF QqInv, QqOnce

\* What QQ and the tasks of the gateway leave alone.
QqQuiet == UNCHANGED <<pushed, frames, seen, place, inbound, published>>
QqCalm  == UNCHANGED <<qqQueue, loading, qqOn, qqOper, doubled>>

\* cap_im_qq_ws_task, and the websocket's connection.
LEMMA QqSocket ==
    ASSUME QqInv, Q!Connects \/ Q!Disconnects \/ Q!Socket
    PROVE  QqInv'
  <1>1. /\ QqQuiet /\ QqCalm
        /\ client' \in Nat /\ conns' \in Nat /\ (ws = "off" => ws' = "off")
    <2>1. CASE Q!Connects \/ Q!Disconnects
      BY <2>1 DEF Q!Connects, Q!Disconnects, QqQuiet, QqCalm, Q!loader, Q!memory, Q!order,
                  Q!socket, QqInv, QqTypes
    <2>2. CASE Q!Opens
      BY <2>2 DEF Q!Opens, QqQuiet, QqCalm, Q!loader, Q!memory, Q!order, QqInv, QqTypes
    <2>3. CASE Q!Passes
      <3>1. QqQuiet /\ QqCalm /\ UNCHANGED <<client, conns>> /\ ws = "run"
        BY <2>3 DEF Q!Passes, QqQuiet, QqCalm, Q!loader, Q!memory, Q!order
      <3> QED
        BY <3>1 DEF QqInv, QqTypes
    <2>4. CASE Q!Notices \/ Q!Turns
      <3>1. QqQuiet /\ QqCalm /\ UNCHANGED <<client, conns>> /\ ws # "off"
        BY <2>4 DEF Q!Notices, Q!Turns, QqQuiet, QqCalm, Q!loader, Q!memory, Q!order, Q!qq
      <3> QED
        BY <3>1 DEF QqInv, QqTypes
    <2>5. CASE Q!Closes
      <3>1. QqQuiet /\ QqCalm /\ client' = 0 /\ UNCHANGED conns /\ ws = "close"
        BY <2>5 DEF Q!Closes, QqQuiet, QqCalm, Q!loader, Q!memory, Q!order
      <3> QED
        BY <3>1 DEF QqInv, QqTypes
    <2> QED
      BY <2>1, <2>2, <2>3, <2>4, <2>5 DEF Q!Socket
  <1>2. QqTypes'
    BY <1>1 DEF QqInv, QqTypes, QqQuiet, QqCalm
  <1>3. QqAlone => QqAlone'
    BY <1>1 DEF QqAlone, QqQuiet, QqCalm, Q!Gone
  <1> QED
    BY <1>1, <1>2, <1>3 DEF QqInv, QqQuiet, QqCalm

\* cap_im_qq_handle_inbound_ws_data
LEMMA QqArrives ==
    ASSUME QqInv, NEW f \in QqFrame, Fresh(QQRingLen, pushed', f.message), Q!Arrives(f),
           pushed' \in {pushed, pushed + 1}
    PROVE  QqInv'
  <1>1. UNCHANGED <<client, conns, ws, seen, place, inbound, published>> /\ QqCalm
    BY DEF Q!Arrives, Q!socket, Q!memory, Q!order, QqCalm
  <1>2. PICK top \in Nat, later \in Nat : top = pushed /\ later = pushed' /\ top <= later
    BY DEF QqInv, QqTypes
  <1>3. frames' = frames \/ frames' = Append(frames, f)
    BY DEF Q!Arrives
  <1>4. frames \in Seq(QqFrame) /\ Append(frames, f) \in Seq(QqFrame)
    BY OneMore DEF QqInv, QqTypes
  <1>5. QqTypes'
    BY <1>1, <1>2, <1>3, <1>4 DEF QqInv, QqTypes, QqCalm
  <1>6. QqAlone => QqAlone'
    BY <1>1 DEF QqAlone, QqCalm, Q!Gone
  <1>7. QqOnce(top, seen, place, frames, inbound, published)
           => QqOnce(later, seen, place, frames', inbound, published)
    <2> SUFFICES ASSUME QqOnce(top, seen, place, frames, inbound, published)
                 PROVE  QqOnce(later, seen, place, frames', inbound, published)
      OBVIOUS
    <2>1. /\ QqOnce(later, seen, place, frames, inbound, published)
          /\ QqOnce(later, seen, place, Append(frames, f), inbound, published)
      BY <1>2, <1>4, QqQueues
    <2> QED
      BY <1>3, <2>1
  <1> QED
    BY <1>1, <1>2, <1>5, <1>6, <1>7 DEF QqInv, QqCalm

\* HELLO, a new message, an old one, and RECONNECT.
LEMMA QqSends ==
    ASSUME QqInv, Q!Greets \/ Q!Pushes \/ Q!PushesAgain \/ Q!AsksToReconnect
    PROVE  QqInv'
  <1>1. pushed \in Nat /\ client \in Nat
    BY DEF QqInv, QqTypes
  <1>2. CASE Q!Greets
    <2>1. /\ Q!Frame("hello", 0) \in QqFrame /\ Q!Frame("hello", 0).message = 0
      BY <1>1 DEF Q!Frame, QqFrame
    <2>2. Fresh(QQRingLen, pushed', Q!Frame("hello", 0).message)
      BY <2>1 DEF Fresh
    <2> QED
      BY <1>2, <2>1, <2>2, QqArrives DEF Q!Greets
  <1>3. CASE Q!AsksToReconnect
    <2>1. /\ Q!Frame("reconnect", 0) \in QqFrame /\ Q!Frame("reconnect", 0).message = 0
      BY <1>1 DEF Q!Frame, QqFrame
    <2>2. Fresh(QQRingLen, pushed', Q!Frame("reconnect", 0).message)
      BY <2>1 DEF Fresh
    <2> QED
      BY <1>3, <2>1, <2>2, QqArrives DEF Q!AsksToReconnect
  <1>4. CASE Q!Pushes
    <2>1. PICK m \in Nat : m = pushed + 1 /\ m # 0
      BY <1>1
    <2>2. /\ Q!Frame("dispatch", m) \in QqFrame /\ Q!Frame("dispatch", m).message = m
      BY <1>1, <2>1 DEF Q!Frame, QqFrame
    <2>3. Fresh(QQRingLen, m, m)
      BY QqLimits DEF Fresh
    <2>4. pushed' = m /\ Q!Arrives(Q!Frame("dispatch", m))
      BY <1>4, <2>1 DEF Q!Pushes
    <2> QED
      BY <2>1, <2>2, <2>3, <2>4, QqArrives
  <1>5. CASE Q!PushesAgain
    <2>1. PICK m \in 1..pushed : 2 * (pushed - m) < QQRingLen /\ Q!Arrives(Q!Frame("dispatch", m))
      BY <1>5 DEF Q!PushesAgain
    <2>2. m \in Nat /\ m # 0 /\ m <= pushed
      BY <1>1
    <2>3. /\ Q!Frame("dispatch", m) \in QqFrame /\ Q!Frame("dispatch", m).message = m
      BY <1>1, <2>2 DEF Q!Frame, QqFrame
    <2>4. pushed' = pushed
      BY <1>5 DEF Q!PushesAgain
    <2>5. Fresh(QQRingLen, pushed', m)
      BY <2>1, <2>2, <2>4 DEF Fresh
    <2> QED
      BY <2>1, <2>3, <2>4, <2>5, QqArrives
  <1> QED
    BY <1>2, <1>3, <1>4, <1>5

\* The task goes on.
LEMMA QqSameTasks ==
    ASSUME QqTypes, QqAlone, NEW k \in Q!Workers, inbound[k] # Q!Gone, NEW t, t # Q!Gone,
           inbound' = [inbound EXCEPT ![k] = t],
           UNCHANGED <<qqQueue, loading, qqOn, qqOper, ws>>
    PROVE  QqAlone' /\ Only(inbound, k)
  <1>1. \A l \in Q!Workers : l # k => inbound[l] = Q!Gone /\ inbound'[l] = Q!Gone
    BY DEF QqTypes, QqAlone
  <1>2. Only(inbound, k)
    BY <1>1 DEF Only, Q!Gone
  <1>3. \A l \in Q!Workers : inbound'[l] # Q!Gone' => l = k
    BY <1>1 DEF Q!Gone
  <1>4. qqQueue /\ (loading \/ (~qqOn /\ qqOper = "idle" /\ ws = "off"))
    BY DEF QqAlone
  <1>5. QqAlone'
    BY <1>3, <1>4 DEF QqAlone
  <1> QED
    BY <1>2, <1>5

LEMMA QqReceives == ASSUME QqInv, NEW k \in Q!Workers, Q!Receive(k) PROVE QqInv'
  <1>1. PICK t : t = [pc |-> "process", frame |-> Head(frames)]
    OBVIOUS
  <1>2. /\ inbound[k] = Q!Idle /\ frames # <<>> /\ frames' = Tail(frames)
        /\ inbound' = [inbound EXCEPT ![k] = t]
        /\ UNCHANGED <<pushed, client, conns, qqQueue, loading, qqOn, qqOper, ws, seen, place,
                       published, doubled>>
    BY <1>1 DEF Q!Receive, Q!qq, Q!socket, Q!memory, Q!order
  <1>3. frames \in Seq(QqFrame) /\ Head(frames) \in QqFrame /\ Tail(frames) \in Seq(QqFrame)
    BY <1>2, HeadTailProperties DEF QqInv, QqTypes
  <1>4. t \in QqTask /\ t # Q!Gone /\ inbound[k] # Q!Gone
    BY <1>1, <1>2, <1>3 DEF QqTask, Q!Gone, Q!Idle
  <1>5. QqTypes'
    BY <1>2, <1>3, <1>4 DEF QqInv, QqTypes
  <1>6. ASSUME ~doubled PROVE QqAlone' /\ QqOnce(pushed, seen, place, frames', inbound', published)
    <2>1. QqAlone' /\ Only(inbound, k)
      BY <1>2, <1>4, <1>6, QqSameTasks DEF QqInv
    <2>2. /\ pushed \in Nat /\ inbound'[k] = [pc |-> "process", frame |-> Head(frames)]
          /\ OthersStay(inbound', inbound, k)
      BY <1>1, <1>2 DEF QqInv, QqTypes, OthersStay
    <2>3. QqOnce(pushed, seen, place, frames, inbound, published)
      BY <1>6 DEF QqInv
    <2> QED
      BY <1>2, <1>3, <2>1, <2>2, <2>3, QqTakes
  <1> QED
    BY <1>2, <1>5, <1>6 DEF QqInv

\* cap_im_qq_process_frame: a frame without a message, or of a known one.
LEMMA QqDrops ==
    ASSUME QqInv, NEW k \in Q!Workers, inbound[k].pc \in {"process", "download"},
           inbound' = [inbound EXCEPT ![k] = Q!Idle],
           UNCHANGED <<pushed, client, conns, frames, qqQueue, loading, qqOn, qqOper, ws, seen,
                       place, published, doubled>>
    PROVE  QqInv'
  <1>1. inbound[k] \in QqTask /\ inbound[k] # Q!Gone /\ Q!Idle \in QqTask /\ Q!Idle # Q!Gone
        /\ Q!Idle.pc = "receive"
    BY QqTaskIs DEF QqInv, QqTypes
  <1>2. QqTypes'
    BY <1>1 DEF QqInv, QqTypes
  <1>3. ASSUME ~doubled PROVE QqAlone' /\ QqOnce(pushed, seen, place, frames, inbound', published)
    <2>1. QqAlone'
      BY <1>1, <1>3, QqSameTasks DEF QqInv
    <2>2. /\ pushed \in Nat /\ QqOnce(pushed, seen, place, frames, inbound, published)
          /\ \A l \in Q!Workers : inbound'[l] = inbound[l] \/ inbound'[l].pc \in {"receive", "gone"}
      BY <1>1, <1>3 DEF QqInv, QqTypes
    <2> QED
      BY <2>1, <2>2, QqEmpties
  <1> QED
    BY <1>2, <1>3 DEF QqInv

\* cap_im_qq_process_frame, cap_im_qq_save_attachment: a message that is published.
LEMMA QqTells ==
    ASSUME QqInv, NEW k \in Q!Workers, inbound[k].pc \in {"process", "download"},
           inbound' = [inbound EXCEPT ![k] = Q!Idle],
           UNCHANGED <<pushed, client, conns, frames, qqQueue, loading, qqOn, qqOper, ws, doubled>>,
           NEW m, m = inbound[k].frame.message,
           published' = Append(published, m),
           IF inbound[k].pc = "process" THEN m # 0 /\ ~Q!Seen(m) /\ Q!Record(m)
           ELSE UNCHANGED <<seen, place>>
    PROVE  QqInv'
  <1>1. /\ inbound[k] \in QqTask /\ inbound[k] # Q!Gone /\ inbound[k].frame \in QqFrame
        /\ Q!Idle \in QqTask /\ Q!Idle # Q!Gone
    BY QqTaskIs DEF QqInv, QqTypes
  <1>2. QqTypes'
    BY <1>1 DEF QqInv, QqTypes
  <1>3. m \in Nat /\ pushed \in Nat
    BY <1>1 DEF QqFrame, QqInv, QqTypes
  <1>4. ASSUME ~doubled
         PROVE  QqAlone' /\ QqOnce(pushed, seen', place', frames, inbound', published')
    <2>1. QqAlone' /\ Only(inbound, k)
      BY <1>1, <1>4, QqSameTasks DEF QqInv
    <2>2. QqOnce(pushed, seen, place, frames, inbound, published)
      BY <1>4 DEF QqInv
    <2>3. PICK mid : mid = [inbound EXCEPT ![k] = [pc |-> "download", frame |-> inbound[k].frame]]
      OBVIOUS
    <2>4. /\ OthersStay(mid, inbound, k) /\ OthersStay(inbound', mid, k)
          /\ InHand(mid, k, "download", m) /\ inbound'[k] = Q!Idle
      BY <2>3 DEF QqInv, QqTypes, OthersStay, InHand
    <2>5. QqOnce(pushed, seen', place', frames, mid, published)
      <3>1. CASE inbound[k].pc = "process"
        <4>1. DOMAIN seen = 0..(QQRingLen - 1)
          BY <2>2 DEF QqOnce, QqHeld, QqRing
        <4>2. /\ ~Shows(QQRingLen, seen, m) /\ m # 0 /\ InHand(inbound, k, "process", m)
              /\ Takes(QQRingLen, seen, place, m, seen', place')
          BY <3>1, <4>1 DEF Q!Seen, Q!Record, NextCell, Shows, Takes, InHand
        <4> QED
          BY <1>3, <2>1, <2>2, <2>4, <4>2, QqRemembers
      <3>2. CASE inbound[k].pc = "download"
        <4>1. inbound[k] = [pc |-> "download", frame |-> inbound[k].frame]
          BY <1>1, <3>2 DEF QqTask, Q!Idle, Q!Gone
        <4>2. mid = inbound
          BY <2>3, <4>1 DEF QqInv, QqTypes
        <4> QED
          BY <2>2, <3>2, <4>2
      <3> QED
        BY <3>1, <3>2
    <2>6. Only(mid, k)
      BY <2>1, <2>4 DEF Only, OthersStay
    <2>7. QqOnce(pushed, seen', place', frames, inbound', Append(published, m))
      BY <1>3, <2>4, <2>5, <2>6, QqPublishes
    <2> QED
      BY <2>1, <2>7
  <1> QED
    BY <1>2, <1>4 DEF QqInv

\* cap_im_qq_process_frame: the message is remembered before its photo is fetched.
LEMMA QqKeeps ==
    ASSUME QqInv, NEW k \in Q!Workers, inbound[k].pc = "process",
           inbound' = [inbound EXCEPT ![k].pc = "download"],
           UNCHANGED <<pushed, client, conns, frames, qqQueue, loading, qqOn, qqOper, ws, doubled>>,
           NEW m, m = inbound[k].frame.message, UNCHANGED published,
           m # 0, ~Q!Seen(m), Q!Record(m)
    PROVE  QqInv'
  <1>1. /\ inbound[k] \in QqTask /\ inbound[k] # Q!Gone /\ inbound[k].frame \in QqFrame
    BY QqTaskIs DEF QqInv, QqTypes
  <1>2. inbound' = [inbound EXCEPT ![k] = [pc |-> "download", frame |-> inbound[k].frame]]
    <2>1. PICK t : t = inbound[k]
      OBVIOUS
    <2>2. t \in QqTask /\ t.pc = "process"
      BY <1>1, <2>1
    <2>3. [t EXCEPT !.pc = "download"] = [pc |-> "download", frame |-> t.frame]
      BY <2>2 DEF QqTask, Q!Idle, Q!Gone
    <2> QED
      BY <2>1, <2>3
  <1>3. PICK t : t = [pc |-> "download", frame |-> inbound[k].frame]
    OBVIOUS
  <1>4. t \in QqTask /\ t # Q!Gone
    BY <1>1, <1>3 DEF QqTask, Q!Gone
  <1>5. QqTypes'
    BY <1>2, <1>3, <1>4 DEF QqInv, QqTypes
  <1>6. ASSUME ~doubled
        PROVE  QqAlone' /\ QqOnce(pushed, seen', place', frames, inbound', published)
    <2>1. QqAlone' /\ Only(inbound, k)
      BY <1>1, <1>2, <1>3, <1>4, <1>6, QqSameTasks DEF QqInv
    <2>2. QqOnce(pushed, seen, place, frames, inbound, published) /\ pushed \in Nat
      BY <1>6 DEF QqInv, QqTypes
    <2>3. OthersStay(inbound', inbound, k) /\ InHand(inbound', k, "download", m)
      BY <1>2 DEF QqInv, QqTypes, OthersStay, InHand
    <2>4. DOMAIN seen = 0..(QQRingLen - 1)
      BY <2>2 DEF QqOnce, QqHeld, QqRing
    <2>5. /\ ~Shows(QQRingLen, seen, m) /\ InHand(inbound, k, "process", m)
          /\ Takes(QQRingLen, seen, place, m, seen', place')
      BY <2>4 DEF Q!Seen, Q!Record, NextCell, Shows, Takes, InHand
    <2> QED
      BY <2>1, <2>2, <2>3, <2>5, QqRemembers
  <1> QED
    BY <1>5, <1>6 DEF QqInv

\* The message is remembered, but the event is not published.
LEMMA QqForgets ==
    ASSUME QqInv, NEW k \in Q!Workers, inbound[k].pc = "process",
           inbound' = [inbound EXCEPT ![k] = Q!Idle],
           UNCHANGED <<pushed, client, conns, frames, qqQueue, loading, qqOn, qqOper, ws, doubled>>,
           NEW m, m = inbound[k].frame.message, UNCHANGED published,
           m # 0, ~Q!Seen(m), Q!Record(m)
    PROVE  QqInv'
  <1>1. /\ inbound[k] \in QqTask /\ inbound[k] # Q!Gone /\ Q!Idle \in QqTask
        /\ Q!Idle # Q!Gone /\ Q!Idle.pc = "receive"
    BY QqTaskIs DEF QqInv, QqTypes
  <1>2. QqTypes'
    BY <1>1 DEF QqInv, QqTypes
  <1>3. ASSUME ~doubled
        PROVE  QqAlone' /\ QqOnce(pushed, seen', place', frames, inbound', published)
    <2>1. QqAlone' /\ Only(inbound, k)
      BY <1>1, <1>3, QqSameTasks DEF QqInv
    <2>2. QqOnce(pushed, seen, place, frames, inbound, published) /\ pushed \in Nat
      BY <1>3 DEF QqInv, QqTypes
    <2>3. PICK mid : mid = [inbound EXCEPT ![k] = [pc |-> "download", frame |-> inbound[k].frame]]
      OBVIOUS
    <2>4. OthersStay(mid, inbound, k) /\ InHand(mid, k, "download", m)
      BY <2>3 DEF QqInv, QqTypes, OthersStay, InHand
    <2>5. DOMAIN seen = 0..(QQRingLen - 1)
      BY <2>2 DEF QqOnce, QqHeld, QqRing
    <2>6. /\ ~Shows(QQRingLen, seen, m) /\ InHand(inbound, k, "process", m)
          /\ Takes(QQRingLen, seen, place, m, seen', place')
      BY <2>5 DEF Q!Seen, Q!Record, NextCell, Shows, Takes, InHand
    <2>7. QqOnce(pushed, seen', place', frames, mid, published)
      BY <2>1, <2>2, <2>4, <2>6, QqRemembers
    <2>8. \A l \in Q!Workers : inbound'[l] = mid[l] \/ inbound'[l].pc \in {"receive", "gone"}
      BY <1>1, <2>3 DEF QqInv, QqTypes
    <2> QED
      BY <2>1, <2>2, <2>7, <2>8, QqEmpties
  <1> QED
    BY <1>2, <1>3 DEF QqInv

\* cap_im_qq_inbound_task
LEMMA QqHandles == ASSUME QqInv, NEW k \in Q!Workers, Q!Handle(k) PROVE QqInv'
  <1>1. CASE Q!Receive(k)
    BY <1>1, QqReceives
  <1>2. inbound[k] \in QqTask /\ inbound \in [Q!Workers -> QqTask]
    BY DEF QqInv, QqTypes
  <1>3. CASE Q!Process(k)
    <2>1. PICK f : f = inbound[k].frame
      OBVIOUS
    <2>2. /\ inbound[k].pc = "process" /\ f \in QqFrame
          /\ UNCHANGED <<pushed, client, conns, frames, qqQueue, loading, qqOn, qqOper,
                         ws, doubled>>
      BY <1>2, <1>3, <2>1, QqTaskIs DEF Q!Process, Q!qq, Q!socket, Q!order
    <2>3. CASE f.op # "dispatch" \/ Q!Seen(f.message)
      <3>1. inbound' = [inbound EXCEPT ![k] = Q!Idle] /\ UNCHANGED <<seen, place, published>>
        BY <1>3, <2>1, <2>3 DEF Q!Process, Q!memory
      <3> QED
        BY <2>2, <3>1, QqDrops
    <2>4. CASE ~(f.op # "dispatch" \/ Q!Seen(f.message)) /\ QQTraffic[f.message] # "photo"
      <3>1. /\ inbound' = [inbound EXCEPT ![k] = Q!Idle] /\ ~Q!Seen(f.message)
            /\ Q!Record(f.message) /\ Q!Publish(f.message)
        BY <1>3, <2>1, <2>4 DEF Q!Process
      <3>2. f.message # 0
        BY <2>2, <2>4 DEF QqFrame
      <3>3. CASE published' = Append(published, f.message)
        BY <2>1, <2>2, <3>1, <3>2, <3>3, QqTells
      <3>4. CASE UNCHANGED published
        BY <2>1, <2>2, <3>1, <3>2, <3>4, QqForgets
      <3> QED
        BY <3>1, <3>3, <3>4 DEF Q!Publish
    <2>5. CASE ~(f.op # "dispatch" \/ Q!Seen(f.message)) /\ QQTraffic[f.message] = "photo"
      <3>1. /\ inbound' = [inbound EXCEPT ![k].pc = "download"] /\ ~Q!Seen(f.message)
            /\ Q!Record(f.message) /\ UNCHANGED published
        BY <1>3, <2>1, <2>5 DEF Q!Process
      <3>2. f.message # 0
        BY <2>2, <2>5 DEF QqFrame
      <3> QED
        BY <2>1, <2>2, <3>1, <3>2, QqKeeps
    <2> QED
      BY <2>3, <2>4, <2>5
  <1>4. CASE Q!Save(k)
    <2>1. /\ inbound[k].pc = "download" /\ inbound' = [inbound EXCEPT ![k] = Q!Idle]
          /\ Q!Publish(inbound[k].frame.message)
          /\ UNCHANGED <<pushed, client, conns, frames, qqQueue, loading, qqOn, qqOper, ws,
                         doubled, seen, place>>
      BY <1>4 DEF Q!Save, Q!qq, Q!socket, Q!order, Q!memory
    <2>2. CASE published' = Append(published, inbound[k].frame.message)
      BY <2>1, <2>2, QqTells
    <2>3. CASE UNCHANGED published
      BY <2>1, <2>3, QqDrops
    <2> QED
      BY <2>1, <2>2, <2>3 DEF Q!Publish
  <1>5. CASE Q!Leave(k)
    <2>1. /\ inbound[k] = Q!Idle /\ inbound' = [inbound EXCEPT ![k] = Q!Gone]
          /\ UNCHANGED <<pushed, client, conns, frames, seen, place, published, doubled>>
      BY <1>5 DEF Q!Leave, Q!qq, Q!socket, Q!order, Q!memory
    <2>2. QqTypes'
      BY <2>1, QqTaskIs DEF QqInv, QqTypes
    <2>3. ASSUME ~doubled
          PROVE  QqAlone' /\ QqOnce(pushed, seen, place, frames, inbound', published)
      <3>1. inbound[k] # Q!Gone
        BY <2>1 DEF Q!Idle, Q!Gone
      <3>2. \A l \in Q!Workers : inbound'[l] = Q!Gone
        BY <1>2, <2>1, <2>3, <3>1 DEF QqInv, QqAlone
      <3>3. QqAlone'
        BY <3>2 DEF QqAlone, Q!Gone
      <3>4. \A l \in Q!Workers : inbound'[l].pc = "gone"
        BY <3>2 DEF Q!Gone
      <3>5. pushed \in Nat /\ QqOnce(pushed, seen, place, frames, inbound, published)
        BY <2>3 DEF QqInv, QqTypes
      <3> QED
        BY <3>3, <3>4, <3>5, QqEmpties
    <2> QED
      BY <2>1, <2>2, <2>3 DEF QqInv
  <1> QED
    BY <1>1, <1>3, <1>4, <1>5 DEF Q!Handle

\* The calls change what the tasks are called, and may start one or empty the queue.
LEMMA QqOrders ==
    ASSUME QqInv, UNCHANGED <<pushed, client, conns, seen, place, published>>,
           frames' = frames \/ frames' = <<>>, doubled' \in BOOLEAN, doubled => doubled',
           inbound' \in [Q!Workers -> {Q!Idle} \cup {inbound[k] : k \in Q!Workers}],
           \A k \in Q!Workers : inbound'[k] = inbound[k] \/ inbound'[k] = Q!Idle,
           ~doubled' => QqAlone'
    PROVE  QqInv'
  <1>1. Q!Idle \in QqTask /\ Q!Idle.pc = "receive" /\ frames' \in Seq(QqFrame)
    BY QqTaskIs, EmptySeq DEF QqInv, QqTypes, QqTask, Q!Idle
  <1>2. QqTypes'
    BY <1>1 DEF QqInv, QqTypes
  <1>3. ASSUME ~doubled' PROVE QqOnce(pushed, seen, place, frames', inbound', published)
    <2>1. pushed \in Nat /\ QqOnce(pushed, seen, place, frames, inbound, published)
      BY <1>3 DEF QqInv, QqTypes
    <2>2. \A k \in Q!Workers : inbound'[k] = inbound[k] \/ inbound'[k].pc \in {"receive", "gone"}
      BY <1>1
    <2> QED
      BY <2>1, <2>2, QqEmpties
  <1> QED
    BY <1>2, <1>3 DEF QqInv

\* cap_im_qq_gateway_stop, and a start that finds the ws task.
LEMMA QqStops ==
    ASSUME QqInv, \/ Q!Disable \/ Q!DisableGone \/ Q!EnableRunning \/ Q!StopTimesOut
    PROVE  QqInv'
  <1>1. UNCHANGED <<pushed, client, conns, ws, seen, place, published, frames, inbound, qqQueue,
                    doubled>>
    BY DEF Q!Disable, Q!DisableGone, Q!EnableRunning, Q!StopTimesOut, Q!qq, Q!socket, Q!memory,
           Q!loader
  <1>2. QqTypes'
    BY <1>1 DEF QqInv, QqTypes
  <1>3. ASSUME QqAlone, NEW k \in Q!Workers, inbound[k] # Q!Gone
        PROVE  qqQueue /\ (loading' \/ (~qqOn' /\ qqOper' = "idle" /\ ws = "off"))
    <2>1. qqQueue /\ (loading \/ (~qqOn /\ qqOper = "idle" /\ ws = "off"))
      BY <1>3 DEF QqAlone
    <2>2. CASE Q!Disable
      BY <2>1, <2>2 DEF Q!Disable, Q!Begin, Q!loader
    <2>3. CASE Q!DisableGone
      BY <2>1, <2>3 DEF Q!DisableGone, Q!Begin, Q!Reset
    <2>4. CASE Q!EnableRunning
      BY <2>1, <2>4 DEF Q!EnableRunning, Q!Begin, Q!loader
    <2>5. CASE Q!StopTimesOut
      BY <2>1, <2>5 DEF Q!StopTimesOut, Q!loader
    <2> QED
      BY <2>2, <2>3, <2>4, <2>5
  <1>4. QqAlone => QqAlone'
    BY <1>1, <1>3 DEF QqAlone, Q!Gone
  <1> QED
    BY <1>1, <1>2, <1>4 DEF QqInv

\* cap_im_qq_gateway_start
LEMMA QqStarts ==
    ASSUME QqInv, Q!Enable \/ Q!EnableFails \/ Q!EnableHalf
    PROVE  QqInv'
  <1>1. /\ UNCHANGED <<pushed, client, conns, seen, place, published>>
        /\ frames' = frames \/ frames' = <<>>
    BY DEF Q!Enable, Q!EnableFails, Q!EnableHalf, Q!qq, Q!socket, Q!memory
  <1>2. doubled \in BOOLEAN /\ inbound \in [Q!Workers -> QqTask]
    BY DEF QqInv, QqTypes
  <1>3. doubled' = (doubled \/ Q!Alive # {})
    BY DEF Q!Enable, Q!EnableFails, Q!EnableHalf, Q!Attach
  <1>4. doubled' \in BOOLEAN /\ (doubled => doubled')
    BY <1>2, <1>3
  <1>5. ~doubled' => \A l \in Q!Workers : inbound[l] = Q!Gone
    BY <1>3 DEF Q!Alive
  <1>6. CASE Q!Attach
    <2>1. PICK k \in Q!Workers : inbound' = [inbound EXCEPT ![k] = Q!Idle]
      BY <1>6 DEF Q!Attach
    <2>2. qqQueue' = TRUE /\ loading' = TRUE
      BY <1>6 DEF Q!Attach
    <2>3. ~doubled' => \A l \in Q!Workers : inbound'[l] # Q!Gone => l = k
      BY <1>2, <1>5, <2>1
    <2>4. ~doubled' => QqAlone'
      BY <2>2, <2>3 DEF QqAlone, Q!Gone
    <2>5. \A l \in Q!Workers : inbound'[l] = inbound[l] \/ inbound'[l] = Q!Idle
      BY <1>2, <2>1
    <2>6. inbound' \in [Q!Workers -> {Q!Idle} \cup {inbound[l] : l \in Q!Workers}]
      BY <1>2, <2>1
    <2> QED
      BY <1>1, <1>4, <2>4, <2>5, <2>6, QqOrders
  <1>7. CASE Q!EnableFails
    <2>1. inbound' = inbound
      BY <1>7 DEF Q!EnableFails
    <2>2. ~doubled' => QqAlone'
      BY <1>5, <2>1 DEF QqAlone, Q!Gone
    <2>3. inbound' \in [Q!Workers -> {Q!Idle} \cup {inbound[l] : l \in Q!Workers}]
      BY <1>2, <2>1
    <2> QED
      BY <1>1, <1>4, <2>1, <2>2, <2>3, QqOrders
  <1> QED
    BY <1>6, <1>7 DEF Q!Enable, Q!EnableHalf

\* A call that has seen the tasks off deletes the queue.
LEMMA QqEnds == ASSUME QqInv, Q!Stopped \/ Q!Undone PROVE QqInv'
  <1>1. /\ UNCHANGED <<pushed, client, conns, seen, place, published, inbound, doubled>>
        /\ frames' = <<>> /\ ~loading /\ qqOper # "idle"
    BY DEF Q!Stopped, Q!Undone, Q!TasksGone, Q!qq, Q!socket, Q!memory
  <1>2. inbound \in [Q!Workers -> QqTask] /\ doubled \in BOOLEAN
    BY DEF QqInv, QqTypes
  <1>3. ~doubled => \A l \in Q!Workers : inbound[l] = Q!Gone
    BY <1>1 DEF QqInv, QqAlone
  <1>4. ~doubled' => QqAlone'
    BY <1>1, <1>3 DEF QqAlone, Q!Gone
  <1>5. inbound' \in [Q!Workers -> {Q!Idle} \cup {inbound[l] : l \in Q!Workers}]
    BY <1>1, <1>2
  <1> QED
    BY <1>1, <1>2, <1>4, <1>5, QqOrders

LEMMA QqStep == ASSUME QqInv, [Q!Next]_(Q!qvars) PROVE QqInv'
  <1>1. CASE UNCHANGED Q!qvars
    BY <1>1 DEF QqInv, QqTypes, QqAlone, Q!qvars, Q!qq, Q!socket, Q!flags, Q!loader, Q!memory,
                Q!order, Q!Gone
  <1>2. CASE Q!Thread \/ Q!Trouble \/ Q!Socket
    BY <1>2, QqSocket, QqSends DEF Q!Thread, Q!Trouble
  <1>3. CASE \E k \in Q!Workers : Q!Handle(k)
    BY <1>3, QqHandles
  <1>4. CASE Q!Operate \/ Q!Wait
    BY <1>4, QqStops, QqStarts, QqEnds DEF Q!Operate, Q!Wait
  <1> QED
    BY <1>1, <1>2, <1>3, <1>4 DEF Q!Next

\* What QQ sends again is published once, and no two tasks take turns at the queue nor is
\* it deleted under one, unless a start met a task that a stop had given up.
THEOREM FramesAreHandled == Q!Init /\ [][Q!Next]_(Q!qvars) => [](Q!PublishedOnce /\ Q!OneHandler)
  <1>1. QqInv => Q!PublishedOnce /\ Q!OneHandler
    <2> SUFFICES ASSUME QqInv, ~doubled
                 PROVE  /\ \A i, j \in DOMAIN published : published[i] = published[j] => i = j
                        /\ Q!Cardinality(Q!Alive) <= 1 /\ (Q!Alive # {} => qqQueue)
      BY DEF Q!PublishedOnce, Q!OneHandler
    <2>1. /\ QqAlone /\ published \in Seq(Nat) /\ Different(published)
      BY DEF QqInv, QqOnce, QqHeld
    <2>2. \A i, j \in DOMAIN published : published[i] = published[j] => i = j
      BY <2>1, LenProperties DEF Different
    <2>3. Q!Alive # {} => qqQueue
      BY <2>1 DEF QqAlone, Q!Alive
    <2>4. Q!Cardinality(Q!Alive) = Cardinality(Q!Alive)
      BY DEF Q!Cardinality, Cardinality, Q!IsFiniteSet, IsFiniteSet
    <2>5. Cardinality(Q!Alive) <= 1
      <3>1. CASE Q!Alive = {}
        BY <3>1, FS_EmptySet
      <3>2. CASE Q!Alive # {}
        <4>1. PICK k \in Q!Alive : TRUE
          BY <3>2
        <4>2. Q!Alive = {k}
          BY <2>1, <4>1 DEF QqAlone, Q!Alive
        <4> QED
          BY <4>2, FS_Singleton
      <3> QED
        BY <3>1, <3>2
    <2> QED
      BY <2>2, <2>3, <2>4, <2>5
  <1> QED
    BY <1>1, QqInit, QqStep, PTL

-----------------------------------------------------------------------------
(* WeChat logins: while a task polls its handle is set, so that no other one  *)
(* is created.                                                                *)

LgInv ==
    /\ at \in [W!Tasks -> {"off", "top", "ask", "asked", "judge", "fetch", "fail", "leave"}]
    /\ handle \in BOOLEAN /\ W!OnePoller
    /\ \A k \in W!Tasks : at[k] # "off" => handle

\* The task goes on, and so may its handle; or it ends.
Moves(k) == \E pc \in {"off", "top", "ask", "asked", "judge", "fetch", "fail", "leave"} :
    /\ at' = [at EXCEPT ![k] = pc]
    /\ handle' = handle \/ (pc = "off" /\ handle' = FALSE)

LEMMA LgMoves ==
    ASSUME LgInv, NEW k \in W!Tasks, at[k] # "off", Moves(k)
    PROVE  LgInv'
  <1>1. PICK pc \in {"off", "top", "ask", "asked", "judge", "fetch", "fail", "leave"} :
            /\ at' = [at EXCEPT ![k] = pc]
            /\ handle' = handle \/ (pc = "off" /\ handle' = FALSE)
    BY DEF Moves
  <1>2. at' \in [W!Tasks -> {"off", "top", "ask", "asked", "judge", "fetch", "fail", "leave"}]
    BY <1>1 DEF LgInv
  <1>3. \A j \in W!Tasks : at[j] # "off" => j = k
    BY DEF LgInv, W!OnePoller
  <1>4. \A j \in W!Tasks : at'[j] # "off" => j = k
    BY <1>1, <1>3 DEF LgInv
  <1>5. at'[k] = pc
    BY <1>1 DEF LgInv
  <1>6. handle' \in BOOLEAN
    BY <1>1 DEF LgInv
  <1>7. \A j \in W!Tasks : at'[j] # "off" => handle'
    BY <1>1, <1>4, <1>5 DEF LgInv
  <1>8. W!OnePoller'
    BY <1>4 DEF W!OnePoller
  <1> QED
    BY <1>2, <1>6, <1>7, <1>8 DEF LgInv

\* cap_im_wechat_qr_task
LEMMA LgTask ==
    ASSUME LgInv, NEW k \in W!Tasks, W!Step(k)
    PROVE  at[k] # "off" /\ Moves(k)
  <1>1. CASE W!Top(k)
    BY <1>1 DEF W!Top, W!Goto, Moves
  <1>2. CASE W!Ask(k)
    BY <1>2 DEF W!Ask, Moves
  <1>3. CASE W!Answer(k)
    BY <1>3 DEF W!Answer, Moves
  <1>4. CASE W!Judge(k)
    <2>1. at[k] = "judge"
      BY <1>4 DEF W!Judge
    <2>2. CASE result[k] = "timeout" /\ W!LastTry
      BY <1>4, <2>1, <2>2 DEF W!Judge, W!Goto, Moves
    <2>3. CASE result[k] = "timeout" /\ ~W!LastTry
      BY <1>4, <2>1, <2>3 DEF W!Judge, W!Goto, Moves
    <2>4. CASE result[k] = "error"
      BY <1>4, <2>1, <2>4 DEF W!Judge, W!Goto, Moves, W!Released
    <2>5. CASE result[k] = "ok" /\ ~qr.active
      BY <1>4, <2>1, <2>5 DEF W!Judge, W!Goto, Moves, W!Released
    <2>6. CASE ~(\/ result[k] = "timeout" \/ result[k] = "error"
                 \/ result[k] = "ok" /\ ~qr.active)
      BY <1>4, <2>1, <2>6 DEF W!Judge, W!Goto, Moves
    <2> QED
      BY <2>1, <2>2, <2>3, <2>4, <2>5, <2>6
  <1>5. CASE W!Fetch(k)
    BY <1>5 DEF W!Fetch, W!Goto, Moves
  <1>6. CASE W!Fail(k) \/ W!Leave(k)
    BY <1>6 DEF W!Fail, W!Leave, W!Goto, Moves
  <1>7. CASE W!MissLock(k)
    BY <1>7 DEF W!MissLock, W!Goto, Moves
  <1> QED
    BY <1>1, <1>2, <1>3, <1>4, <1>5, <1>6, <1>7 DEF W!Step

LEMMA LgSame == ASSUME LgInv, UNCHANGED <<at, handle>> PROVE LgInv'
  BY DEF LgInv, W!OnePoller

\* cap_im_wechat_qr_login_start: a task is created when there is none.
LEMMA LgStart == ASSUME LgInv, W!StartFetched PROVE LgInv'
  <1>1. CASE handle
    <2>1. handle' = TRUE /\ UNCHANGED at
      BY <1>1 DEF W!StartFetched
    <2> QED
      BY <2>1 DEF LgInv, W!OnePoller
  <1>2. CASE ~handle
    <2>1. PICK k \in W!Tasks : at[k] = "off" /\ at' = [at EXCEPT ![k] = "top"]
      BY <1>2 DEF W!StartFetched
    <2>2. \A j \in W!Tasks : at[j] = "off"
      BY <1>2 DEF LgInv
    <2>3. \A j \in W!Tasks : at'[j] # "off" => j = k
      BY <2>1, <2>2 DEF LgInv
    <2>4. handle' = TRUE
      BY DEF W!StartFetched
    <2>5. at' \in [W!Tasks -> {"off", "top", "ask", "asked", "judge", "fetch", "fail", "leave"}]
      BY <2>1 DEF LgInv
    <2> QED
      BY <2>3, <2>4, <2>5 DEF LgInv, W!OnePoller
  <1> QED
    BY <1>1, <1>2

\* However starts, missed locks and the ends of tasks fall together, one task polls.
THEOREM OneLoginTask == W!Init /\ [][W!Next]_(W!lvars) => []W!OnePoller
  <1>1. W!Init => LgInv
    BY DEF W!Init, LgInv, W!OnePoller
  <1>2. LgInv /\ [W!Next]_(W!lvars) => LgInv'
    <2> SUFFICES ASSUME LgInv, [W!Next]_(W!lvars) PROVE LgInv'
      OBVIOUS
    <2>1. CASE W!StartBegin \/ W!StartTaskless \/ W!StartFails \/ W!Cancel \/ W!TimePasses
                  \/ W!CodeMoves \/ UNCHANGED W!lvars
      BY <2>1, LgSame DEF W!StartBegin, W!StartTaskless, W!StartFails, W!Cancel, W!TimePasses,
                          W!CodeMoves, W!lvars, W!task
    <2>2. CASE W!StartFetched
      BY <2>2, LgStart
    <2>3. ASSUME NEW k \in W!Tasks, W!Step(k) PROVE LgInv'
      BY <2>3, LgTask, LgMoves
    <2> QED
      BY <2>1, <2>2, <2>3 DEF W!Next, W!StartEnds
  <1>3. LgInv => W!OnePoller
    BY DEF LgInv
  <1> QED
    BY <1>1, <1>2, <1>3, PTL

-----------------------------------------------------------------------------
(* The instances together: a behaviour of MCStreams is one of one of them,    *)
(* while the others stay at their beginning.                                  *)

LEMMA LogRuns == StreamsSafe => Spec
  <1>1. StreamsInit => Init
    BY DEF StreamsInit
  <1>2. [StreamsNext]_streamsVars => [Next]_vars
    BY DEF StreamsNext, streamsVars, logVars
  <1> QED
    BY <1>1, <1>2, PTL DEF StreamsSafe, Spec

LEMMA TelegramRuns == StreamsSafe => T!Init /\ [][T!Next]_(T!gvars)
  <1>1. StreamsInit => T!Init
    BY DEF StreamsInit
  <1>2. [StreamsNext]_streamsVars => [T!Next]_(T!gvars)
    BY DEF StreamsNext, streamsVars, tgVars, T!gvars, T!server, T!memory, T!poller, T!loader,
           T!order, T!told
  <1> QED
    BY <1>1, <1>2, PTL DEF StreamsSafe

LEMMA QQRuns == StreamsSafe => Q!Init /\ [][Q!Next]_(Q!qvars)
  <1>1. StreamsInit => Q!Init
    BY DEF StreamsInit
  <1>2. [StreamsNext]_streamsVars => [Q!Next]_(Q!qvars)
    BY DEF StreamsNext, streamsVars, qqVars, Q!qvars, Q!qq, Q!socket, Q!flags, Q!loader,
           Q!memory, Q!order
  <1> QED
    BY <1>1, <1>2, PTL DEF StreamsSafe

LEMMA FeishuRuns == StreamsSafe => Fs!Init /\ [][Fs!Next]_(Fs!fvars)
  <1>1. StreamsInit => Fs!Init
    BY DEF StreamsInit
  <1>2. [StreamsNext]_streamsVars => [Fs!Next]_(Fs!fvars)
    BY DEF StreamsNext, streamsVars, fsVars, Fs!fvars, Fs!cloud, Fs!socket, Fs!loads,
           Fs!memory, Fs!order, Fs!told
  <1> QED
    BY <1>1, <1>2, PTL DEF StreamsSafe

LEMMA LoginRuns == StreamsSafe => W!Init /\ [][W!Next]_(W!lvars)
  <1>1. StreamsInit => W!Init
    BY DEF StreamsInit
  <1>2. [StreamsNext]_streamsVars => [W!Next]_(W!lvars)
    BY DEF StreamsNext, streamsVars, loginVars, W!lvars, W!task
  <1> QED
    BY <1>1, <1>2, PTL DEF StreamsSafe

\* TelegramGateway, QQGateway, FeishuGateway: Telegram forgets nothing unseen, what QQ and
\* Feishu send again is published once, and a saved file of Feishu's stays until another of
\* its message overwrites it.  What Telegram's answers repeat is published once as well if
\* the ring holds as many ids as an answer.
THEOREM StreamsAreHandledOnce == StreamsSafe =>
    /\ [](T!ForgottenWasHandled /\ Q!PublishedOnce /\ Fs!PublishedOnce /\ Fs!FilesStay)
    /\ AnswersFitRing => []HandledOnce
  <1>1. T!HandledOnce /\ T!ForgottenWasHandled /\ Q!PublishedOnce /\ Fs!PublishedOnce
            /\ Fs!FilesStay => HandledOnce
    BY DEF HandledOnce
  <1>2. CASE AnswersFitRing
    BY <1>1, <1>2, TelegramRuns, QQRuns, FeishuRuns, UpdatesAreHandled, FramesAreHandled,
       EventsAreHandled, PTL
  <1>3. CASE ~AnswersFitRing
    BY <1>3, TelegramRuns, QQRuns, FeishuRuns, UpdatesAreHandled, FramesAreHandled,
       EventsAreHandled, PTL
  <1> QED
    BY <1>2, <1>3

\* TelegramGateway, QQGateway, FeishuGateway: no task outlives its queue nor meets a
\* second one unless a stop timed out.  WechatLogin: one task polls for logins.
THEOREM WorkersStayInOrder == StreamsSafe => []WorkersInOrder
  <1>1. T!QueueOutlivesTasks /\ Q!OneHandler /\ Fs!QueueOutlivesTask /\ W!OnePoller
            => WorkersInOrder
    BY DEF WorkersInOrder
  <1> QED
    BY <1>1, TelegramRuns, QQRuns, FeishuRuns, LoginRuns, UpdatesAreHandled, FramesAreHandled,
       EventsAreHandled, OneLoginTask, PTL
=============================================================================
