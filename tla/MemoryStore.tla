----------------------------- MODULE MemoryStore -----------------------------
(* claw_memory: the long-term memories kept in four files.                    *)
(*                                                                            *)
(* memory_records.jsonl is a journal of items, the last line of an id being   *)
(* the item; memory_index.json lists the labels of the live items with a      *)
(* number and a reference count each; memory_digest.log takes a line for      *)
(* every item a recall shows.  Every fifth change, and every start, compacts: *)
(* the journal is rewritten with the live items, duplicates merged and the    *)
(* recalls of the digest added in, and the index is built anew; so it is when *)
(* the journal has grown long.                                                *)
(*                                                                            *)
(* The agent's task, scripts, rules and the console call the capabilities and *)
(* nothing locks: an operation is a list of the steps it still has to take,   *)
(* one for what it reads and one for each file it writes, and those of the    *)
(* callers come in any order.  What was read may be old when it is written; a *)
(* power cut and a failed write fall between any two steps, and a cut into a  *)
(* rewriting.                                                                 *)
(*                                                                            *)
(* Left out: MEMORY.md but for its failing to be written, the keyword index   *)
(* and the lines of the digest other than recalls, which nothing reads back,  *)
(* the fields of an item nothing here looks at, the bytes of the journal (it  *)
(* may be long at any time), and claw_memory_make_id giving an id again after *)
(* a restart with no clock.  Files that follow one another are read at once.  *)
EXTENDS Integers, Sequences, FiniteSets, SequencesExt

CONSTANTS
    Callers,      \* the tasks that call the capabilities
    Facts,        \* contents of memories
    Key,          \* Key[f]: what two contents that say the same share
    Size,         \* Size[f]: the bytes of its line in the journal
    Tags,         \* the sequences of labels an item may carry
    Ids,          \* memory ids, in the order they are made: 1..n
    SlotBytes,    \* the room compaction takes for an item
    Slack,        \* ... and once more
    Capacity,     \* CLAW_MEMORY_MAX_ACTIVE_ITEMS
    Threshold,    \* CLAW_MEMORY_COMPACT_CHANGE_THRESHOLD
    None,
    Broken,       \* the contents of an index that does not parse
    MaxOps, MaxRecalls, MaxFaults   \* bounds

VARIABLES
    items,    \* the journal, read: items by the first appearance of their id
    ragged,   \* the journal ends in the middle of a line
    index,    \* memory_index.json
    digest,   \* memory_digest.log: the ids recalled
    todo,     \* per caller: the steps its operation still has to take, ...
    job,      \* ... its arguments, ...
    plan,     \* ... and what it has read, or made of that to write
    changes,  \* s_memory.write_changes_since_compact
    made,     \* how many ids claw_memory_make_id has given
    ops, faults,   \* bounds: operations begun, power cuts and failed writes
    promised, \* history: keys of memories written and not given up since
    gone,     \* history: ids whose forgetting was written
    recalled, \* history: recall lines written, by id
    crossed,  \* history: per caller: another wrote the index, or the journal anew, since it read
    lossy,    \* history: a line or the rewriting of the journal was cut, met another's, or did not fit
    drift,    \* history: the index missed an item since it was last built anew
    twice     \* history: a journal was rewritten and its index was not, or from older reads

vars == <<items, ragged, index, digest, todo, job, plan, changes, made, ops,
          faults, promised, gone, recalled, crossed, lossy, drift, twice>>
disk == <<items, ragged, index, digest>>
hist == <<promised, gone, recalled, crossed, lossy, drift, twice>>

NewIndex == [sum |-> <<>>, next |-> 1, seen |-> 0]
Idle     == [kind |-> "none", item |-> None, old |-> None]
Steps    == {"load", "append", "index", "note", "find", "bury", "relabel", "unindex", "unnote",
             "updated", "scan", "rewrite", "reindex"}

Live(list)  == {i \in DOMAIN list : ~list[i].dead}
LiveIds     == {items[i].id : i \in Live(items)}
LiveKeys    == {Key[items[i].fact] : i \in Live(items)}
At(list, id) == {i \in DOMAIN list : list[i].id = id}

\* claw_memory_load_current_items: a later line of the same id takes its place.
Put(list, item) ==
    IF At(list, item.id) = {} THEN Append(list, item)
    ELSE [i \in DOMAIN list |-> IF list[i].id = item.id THEN item ELSE list[i]]

-----------------------------------------------------------------------------
(* The index: labels with a number and a count of the items that carry them.  *)

Numbers(x) == {x.sum[l].sid : l \in DOMAIN x.sum}

\* claw_memory_ensure_summary_label
Ensure(x, label, preferred) ==
    IF label \in DOMAIN x.sum THEN x
    ELSE LET sid == IF preferred > 0 /\ preferred \notin Numbers(x)
                    THEN preferred ELSE x.next
         IN  [x EXCEPT !.sum = [l \in DOMAIN @ \cup {label} |->
                                   IF l = label THEN [sid |-> sid, refs |-> 0] ELSE @[l]],
                       !.next = IF sid >= @ THEN sid + 1 ELSE @]

\* claw_memory_adjust_summary_stats
Adjust(x, sids, d) ==
    [x EXCEPT !.sum = [l \in DOMAIN @ |->
        IF @[l].sid \in {sids[i] : i \in DOMAIN sids}
        THEN [@[l] EXCEPT !.refs = IF @ + d < 0 THEN 0 ELSE @ + d]
        ELSE @[l]]]

\* claw_memory_remove_unused_summaries
DropUnused(x) ==
    [x EXCEPT !.sum = [l \in {k \in DOMAIN @ : @[k].refs > 0} |-> @[l]]]

\* The numbers of an item's labels in an index that has them all.
SidsIn(x, tags) == [i \in DOMAIN tags |-> x.sum[tags[i]].sid]

EnsureAll(x, tags) == FoldLeft(LAMBDA y, l : Ensure(y, l, 0), x, tags)

\* The labels of a compacted item, under their old numbers where these are free.
Carry(old, x, tags) ==
    FoldLeft(LAMBDA y, l : Ensure(y, l, IF l \in DOMAIN old.sum THEN old.sum[l].sid ELSE 0),
             x, tags)

-----------------------------------------------------------------------------
(* Compaction.                                                                *)

\* mutant: the recalls already added in are added again.
PendingAll(id, seen) == Cardinality({i \in DOMAIN digest : digest[i] = id})

\* Recalls of an item the digest has after a place, that which the index remembers.
Pending(id, seen) ==
    Cardinality({i \in DOMAIN digest : i > seen /\ digest[i] = id})

\* claw_memory_apply_digest_recall_deltas
Counted(list, seen) ==
    [i \in DOMAIN list |-> [list[i] EXCEPT !.acc = @ + Pending(list[i].id, seen)]]

\* One item per key: the first keeps its id and takes the words of a later one.
Merge(list, newer) ==
    LET Add(sofar, item) ==
            LET same == {i \in DOMAIN sofar : Key[sofar[i].fact] = Key[item.fact]}
            IN  IF item.dead THEN sofar
                ELSE IF same = {} THEN Append(sofar, item)
                ELSE [i \in DOMAIN sofar |->
                        IF i \notin same THEN sofar[i]
                        ELSE [sofar[i] EXCEPT
                                !.acc  = IF item.acc > @ THEN item.acc ELSE @,
                                !.fact = IF newer THEN item.fact ELSE @,
                                !.tags = IF newer THEN item.tags ELSE @]]
    IN  FoldLeft(Add, <<>>, list)

Score(item) == item.acc

\* claw_memory_trim_to_capacity: the first of the least used goes.
Trim(list) ==
    LET Least(l) == CHOOSE i \in DOMAIN l :
                       /\ \A j \in DOMAIN l : Score(l[i]) <= Score(l[j])
                       /\ \A j \in 1..(i - 1) : Score(l[i]) < Score(l[j])
        cut[n \in 0..Len(list)] ==
            IF n = 0 THEN list ELSE RemoveAt(cut[n - 1], Least(cut[n - 1]))
    IN  IF Len(list) <= Capacity THEN list ELSE cut[Len(list) - Capacity]

\* The index built from the compacted items, and the items numbered after it.
BuiltIndex(list, old, size) ==
    LET Add(x, item) == LET y == Carry(old, x, item.tags)
                        IN  Adjust(y, SidsIn(y, item.tags), 1)
    IN  [FoldLeft(Add, NewIndex, list) EXCEPT !.seen = size]

Numbered(list, x) ==
    [i \in DOMAIN list |-> [list[i] EXCEPT !.sids = SidsIn(x, list[i].tags)]]

\* The lines that fit the buffer: SlotBytes for each and Slack.
Fit(list) ==
    LET bytes == FoldLeft(LAMBDA s, item : Append(s, Size[item.fact] +
                              IF s = <<>> THEN 0 ELSE Last(s)), <<>>, list)
    IN  SelectSeq([i \in DOMAIN list |-> <<i, list[i]>>],
                  LAMBDA p : bytes[p[1]] < Len(list) * SlotBytes + Slack)

Fitted(list) == [i \in DOMAIN Fit(list) |-> Fit(list)[i][2]]

-----------------------------------------------------------------------------
(* The steps of an operation, and its end.                                    *)

At1(c, step) == todo[c] # <<>> /\ Head(todo[c]) = step
AtAny(c, steps) == todo[c] # <<>> /\ Head(todo[c]) \in steps

Goes(c, steps) ==
    /\ todo' = [todo EXCEPT ![c] = steps]
    /\ job' = IF steps = <<>> THEN [job EXCEPT ![c] = Idle] ELSE job
Next1(c)      == Goes(c, Tail(todo[c]))
Plans(c, what) == plan' = [plan EXCEPT ![c] = what]

\* The operation ends before its time.
Finish(c) == Goes(c, <<>>) /\ Plans(c, None)

\* A step that could not write ends the operation with an error.
Fail(c) == Finish(c) /\ faults < MaxFaults /\ faults' = faults + 1 /\ drift' = TRUE

\* Reading; and writing what others have read.
Reads(c)  == crossed' = [crossed EXCEPT ![c] = FALSE]
Writes(c) == crossed' = [d \in Callers |-> crossed[d] \/ (d # c /\ todo[d] # <<>>)]

\* Another has the same file open: FatFs keeps a length for each of them.
Meets(c, steps) == \E d \in Callers \ {c} : AtAny(d, steps)
Journal == {"append", "bury", "rewrite"}
Index   == {"index", "unindex", "reindex"}

\* claw_memory_maybe_compact, before the steps that remain: after so many changes, or
\* when the journal is long.
MaybeCompact(c, rest) ==
    \/ Goes(c, <<"scan", "rewrite", "reindex">> \o rest)
    \/ changes' < Threshold /\ Goes(c, rest)

-----------------------------------------------------------------------------
(* Storing.                                                                   *)

Item(id, f, tags) ==
    [id |-> id, fact |-> f, tags |-> tags, sids |-> <<>>, acc |-> 0, dead |-> FALSE]

\* Live items that say the same as the new one, but for the one it replaces.
Known(item, ignore) ==
    {i \in Live(items) : items[i].id # ignore /\ Key[items[i].fact] = Key[item.fact]}

StoreSteps  == <<"load", "append", "index", "note">>
ForgetSteps == <<"find", "bury", "relabel", "unindex", "unnote">>

Begin(c, kind, item, old, steps) ==
    /\ todo[c] = <<>> /\ ops < MaxOps
    /\ \A d \in Callers : job[d].kind # "boot"
    /\ item # None => item.id \in Ids
    /\ ops' = ops + 1
    /\ made' = IF item # None /\ item.id > made THEN item.id ELSE made
    /\ job' = [job EXCEPT ![c] = [kind |-> kind, item |-> item, old |-> old]]
    /\ todo' = [todo EXCEPT ![c] = steps]
    /\ UNCHANGED <<disk, plan, changes, faults, hist>>

\* A caller may name the id to store under; otherwise a new one is made.
Store(c, f, tags, id) ==
    /\ id <= made + 1
    /\ Begin(c, "store", Item(id, f, tags), None, StoreSteps)

\* Only an item that is live can be updated, to something else: the new one is
\* stored beside it and the old one is forgotten.
Update(c, id, f, tags) ==
    /\ \E i \in At(items, id) :
          ~items[i].dead /\ (items[i].fact # f \/ items[i].tags # tags)
    /\ Begin(c, "update", Item(made + 1, f, tags), id,
             StoreSteps \o ForgetSteps \o <<"updated">>)

Forget(c, id) ==
    /\ At(items, id) # {}
    /\ Begin(c, "forget", None, id, ForgetSteps)

\* A memory that is known is not stored again; without an index none is.
Load(c) ==
    /\ At1(c, "load") /\ Reads(c)
    /\ UNCHANGED <<disk, changes, made, ops, faults, gone, recalled, lossy, drift, twice>>
    /\ LET new   == job[c].item
           known == Known(new, job[c].old)
           x     == EnsureAll(index, new.tags)
           item  == [new EXCEPT !.sids = SidsIn(x, new.tags)]
       IN  \/ /\ known # {}
              /\ LET rest == SubSeq(todo[c], 5, Len(todo[c]))
                 IN  /\ todo' = [todo EXCEPT ![c] = rest]
                     /\ \E i \in known : job' = [job EXCEPT ![c] =
                            IF rest = <<>> THEN Idle ELSE [@ EXCEPT !.item = items[i]]]
              /\ promised' = promised \cup {Key[new.fact]} /\ UNCHANGED plan
           \/ /\ known = {} /\ index = Broken
              /\ Finish(c) /\ UNCHANGED promised
           \/ /\ known = {} /\ index # Broken
              /\ Plans(c, Adjust(x, item.sids, 1))
              /\ todo' = [todo EXCEPT ![c] = Tail(@)] /\ job' = [job EXCEPT ![c].item = item]
              /\ UNCHANGED promised

KeysAt(id) == {Key[items[i].fact] : i \in At(items, id)}

\* A line after half a line is lost with it, and so may be one that meets another's.
AppendNew(c) ==
    /\ At1(c, "append")
    /\ UNCHANGED <<index, digest, changes, made, ops, crossed>>
    /\ twice' = (twice \/ Meets(c, {"reindex"}))
    /\ LET item == job[c].item
       IN  \/ /\ items' = IF ragged THEN items ELSE Put(items, item)
              /\ ragged' = FALSE /\ lossy' = (lossy \/ ragged)
              /\ promised' = (promised \ KeysAt(item.id)) \cup {Key[item.fact]}
              /\ gone' = gone \ {item.id}
              /\ recalled' = [recalled EXCEPT ![item.id] =
                                 IF index = Broken THEN 0 ELSE Pending(item.id, index.seen)]
              /\ Next1(c) /\ UNCHANGED <<plan, faults, drift>>
           \/ /\ Meets(c, Journal) /\ lossy' = TRUE
              /\ Next1(c) /\ UNCHANGED <<items, ragged, plan, faults, promised, gone, recalled, drift>>
           \/ /\ Fail(c) /\ ragged' = TRUE
              /\ UNCHANGED <<items, promised, gone, recalled, lossy>>

\* claw_memory_save_index: the file is opened for writing, which empties it.
SaveIndex(c) ==
    /\ AtAny(c, {"index", "unindex"})
    /\ UNCHANGED <<items, ragged, digest, changes, made, ops, promised, gone, recalled, lossy>>
    /\ Writes(c)
    /\ \/ /\ index' = plan[c] \/ (Meets(c, Index) /\ index' = Broken)
          /\ Plans(c, None) /\ Next1(c) /\ UNCHANGED faults
          /\ drift' = (drift \/ crossed[c]) /\ twice' = (twice \/ crossed[c])
       \/ index' \in {index, Broken} /\ Fail(c) /\ UNCHANGED twice

\* MEMORY.md, a line of the digest, and the change is counted.
Note(c) ==
    /\ AtAny(c, {"note", "unnote"})
    /\ UNCHANGED <<disk, made, ops, promised, gone, recalled, crossed, lossy, twice>>
    /\ \/ /\ changes' = changes + 1 /\ MaybeCompact(c, Tail(todo[c]))
          /\ UNCHANGED <<plan, faults, drift>>
       \/ Fail(c) /\ UNCHANGED changes

-----------------------------------------------------------------------------
(* Forgetting.                                                                *)

Find(c) ==
    /\ At1(c, "find") /\ Reads(c)
    /\ UNCHANGED <<disk, changes, made, ops, faults, promised, gone, recalled, lossy, drift, twice>>
    /\ \/ job[c].old \notin LiveIds /\ Finish(c)
       \/ \E i \in At(items, job[c].old) \cap Live(items) : Plans(c, items[i]) /\ Next1(c)

\* The line that buries an item comes first, the index is looked at after it.  What
\* replaces it is there, unless it is gone already or is the same.
Bury(c) ==
    /\ At1(c, "bury")
    /\ UNCHANGED <<index, digest, changes, made, ops, recalled, crossed, twice>>
    /\ \/ /\ items' = IF ragged THEN items ELSE Put(items, [plan[c] EXCEPT !.dead = TRUE])
          /\ ragged' = FALSE /\ lossy' = (lossy \/ ragged)
          /\ LET old == job[c].old
             IN  /\ gone' = gone \cup {old}
                 /\ promised' = (promised \ (KeysAt(old) \cup {Key[plan[c].fact]})) \cup
                       (IF job[c].kind = "update" /\ job[c].item.id \in LiveIds \ {old}
                        THEN KeysAt(job[c].item.id) ELSE {})
          /\ Next1(c) /\ UNCHANGED <<plan, faults, drift>>
       \/ /\ Meets(c, Journal) /\ lossy' = TRUE
          /\ Next1(c) /\ UNCHANGED <<items, ragged, plan, faults, promised, gone, drift>>
       \/ /\ Fail(c) /\ ragged' = TRUE /\ UNCHANGED <<items, promised, gone, lossy>>

Relabel(c) ==
    /\ At1(c, "relabel")
    /\ UNCHANGED <<disk, changes, made, ops, faults, promised, gone, recalled, crossed, lossy, twice>>
    /\ \/ index = Broken /\ Finish(c) /\ drift' = TRUE
       \/ /\ index # Broken /\ Plans(c, DropUnused(Adjust(index, plan[c].sids, -1)))
          /\ Next1(c) /\ UNCHANGED drift

\* The update ends with a line of the digest and a look at the count.
Updated(c) ==
    /\ At1(c, "updated") /\ UNCHANGED changes
    /\ UNCHANGED <<disk, plan, made, ops, faults, hist>>
    /\ MaybeCompact(c, <<>>)

-----------------------------------------------------------------------------
(* Compacting.                                                                *)

KeysOf(list) == {Key[list[i].fact] : i \in DOMAIN list}
Most(S)      == CHOOSE n \in S : \A m \in S : m <= n

\* Journal, index and the length of the digest are read.
Scan(c) ==
    /\ At1(c, "scan") /\ Reads(c)
    /\ UNCHANGED <<disk, changes, made, ops, faults, promised, gone, recalled, lossy, drift, twice>>
    /\ \/ index = Broken /\ Finish(c)
       \/ /\ index # Broken
          /\ Plans(c, [items |-> items, index |-> index, size |-> Len(digest)]) /\ Next1(c)

\* The journal is rewritten in place, with what was read of it; the count starts anew
\* however that ends.  What others wrote since is lost, what they buried comes back.
Rewrite(c) ==
    /\ At1(c, "rewrite") /\ Writes(c)
    /\ UNCHANGED <<index, digest, made, ops>>
    /\ \E newer \in BOOLEAN :
          LET read   == plan[c].items
              merged == Merge(Counted(read, plan[c].index.seen), newer)
              kept   == Trim(merged)
              built  == BuiltIndex(kept, plan[c].index, plan[c].size)
              lines  == Fitted(Numbered(kept, built))
              ids    == {read[i].id : i \in Live(read)}
              Group(id) == {read[i].id : i \in {j \in Live(read) :
                               \E k \in At(read, id) : Key[read[j].fact] = Key[read[k].fact]}}
          IN  /\ changes' = 0
              /\ promised' = (promised \cap {Key[read[i].fact] : i \in Live(read)})
                                 \ (KeysOf(merged) \ KeysOf(kept))
              /\ gone' = gone \ ids
              /\ recalled' = [id \in DOMAIN recalled |->
                                IF id \in ids THEN Most({recalled[i] : i \in Group(id)})
                                ELSE recalled[id]]
              /\ \/ /\ items' = lines /\ ragged' = FALSE
                    /\ lossy' = (lossy \/ lines # Numbered(kept, built) \/ Meets(c, Journal))
                    /\ Plans(c, built) /\ Next1(c)
                    /\ twice' = (twice \/ crossed[c] \/ Len(digest) # plan[c].size)
                    /\ UNCHANGED <<faults, drift>>
                 \/ /\ \E n \in 0..Len(lines) : items' = SubSeq(lines, 1, n)
                    /\ ragged' \in BOOLEAN /\ lossy' = TRUE /\ twice' = TRUE /\ Fail(c)

\* The journal is as it should be but its index could not be written, or both are.
Reindex(c) ==
    /\ At1(c, "reindex") /\ Writes(c)
    /\ UNCHANGED <<items, ragged, digest, changes, made, ops, promised, gone, recalled, lossy>>
    /\ \/ /\ index' = plan[c] \/ (Meets(c, Index) /\ index' = Broken)
          /\ Plans(c, None) /\ Next1(c) /\ UNCHANGED faults
          /\ drift' = crossed[c] /\ twice' = (twice \/ crossed[c])
       \/ index' \in {index, Broken} /\ Fail(c) /\ twice' = TRUE

-----------------------------------------------------------------------------
(* Recalling, and power cuts.                                                 *)

\* The items a label finds: those that carry the number the index gives it.
Found(label) ==
    {i \in Live(items) : label \in DOMAIN index.sum
                         /\ index.sum[label].sid \in ToSet(items[i].sids)}

\* claw_memory_recall by one label: what it shows is noted in the digest.
Recall(c, label) ==
    /\ todo[c] = <<>> /\ index # Broken /\ Len(digest) < MaxRecalls
    /\ \A d \in Callers : job[d].kind # "boot"
    /\ Found(label) # {}
    /\ LET ids == {items[i].id : i \in Found(label)}
       IN  /\ digest' = digest \o SetToSeq(ids)
           /\ recalled' = [id \in DOMAIN recalled |->
                              IF id \in ids THEN recalled[id] + 1 ELSE recalled[id]]
    /\ UNCHANGED <<items, ragged, index, todo, job, plan, changes, made, ops, faults,
                   promised, gone, crossed, lossy, drift, twice>>

\* The files being written may be left half written.  A start compacts, before there is
\* anyone else.
PowerCut(main) ==
    /\ faults < MaxFaults /\ faults' = faults + 1
    /\ todo' = [c \in Callers |-> IF c = main THEN <<"scan", "rewrite", "reindex">> ELSE <<>>]
    /\ job' = [c \in Callers |-> IF c = main THEN [Idle EXCEPT !.kind = "boot"] ELSE Idle]
    /\ plan' = [c \in Callers |-> None] /\ crossed' = [c \in Callers |-> FALSE]
    /\ changes' = 0 /\ drift' = (drift \/ \E c \in Callers : todo[c] # <<>>)
    /\ UNCHANGED <<digest, made, ops, promised, gone, recalled>>
    /\ \/ index' = index
       \/ index' = Broken /\ \E c \in Callers : AtAny(c, Index)
    /\ \/ /\ UNCHANGED <<items, ragged, lossy>>
          /\ twice' = (twice \/ \E c \in Callers : At1(c, "reindex"))
       \/ /\ \E c \in Callers : AtAny(c, {"append", "bury"})
          /\ ragged' = TRUE /\ UNCHANGED <<items, lossy>>
          /\ twice' = (twice \/ \E c \in Callers : At1(c, "reindex"))
       \/ \E c \in Callers :
             /\ At1(c, "rewrite")
             /\ LET lines == Fitted(Trim(Merge(Counted(plan[c].items, plan[c].index.seen), FALSE)))
                IN  \E n \in 0..Len(lines) : items' = SubSeq(lines, 1, n)
             /\ ragged' \in BOOLEAN /\ lossy' = TRUE /\ twice' = TRUE

-----------------------------------------------------------------------------
(* The whole.                                                                 *)

\* A device that starts for the first time: claw_memory_init made the files.
Init ==
    /\ items = <<>> /\ ragged = FALSE /\ index = NewIndex /\ digest = <<>>
    /\ todo = [c \in Callers |-> <<>>] /\ job = [c \in Callers |-> Idle]
    /\ plan = [c \in Callers |-> None]
    /\ changes = 0 /\ made = 0 /\ ops = 0 /\ faults = 0
    /\ promised = {} /\ gone = {} /\ recalled = [id \in Ids |-> 0]
    /\ crossed = [c \in Callers |-> FALSE]
    /\ lossy = FALSE /\ drift = FALSE /\ twice = FALSE

Step(c) ==
    \/ Load(c) \/ AppendNew(c) \/ SaveIndex(c) \/ Note(c)
    \/ Find(c) \/ Bury(c) \/ Relabel(c) \/ Updated(c)
    \/ Scan(c) \/ Rewrite(c) \/ Reindex(c)

Next ==
    \E c \in Callers :
       \/ \E f \in Facts, tags \in Tags, id \in Ids : Store(c, f, tags, id)
       \/ \E f \in Facts, tags \in Tags, id \in Ids : Update(c, id, f, tags)
       \/ \E id \in Ids : Forget(c, id)
       \/ Step(c)
       \/ \E tags \in Tags : \E i \in DOMAIN tags : Recall(c, tags[i])
       \/ PowerCut(c)

Spec == Init /\ [][Next]_vars

Quiet == \A c \in Callers : todo[c] = <<>>

TypeOK ==
    /\ \A i \in DOMAIN items : items[i].id \in Ids /\ items[i].fact \in Facts
    /\ \A i, j \in DOMAIN items : items[i].id = items[j].id => i = j
    /\ index # Broken => \A l, k \in DOMAIN index.sum :
                             index.sum[l].sid = index.sum[k].sid => l = k
    /\ \A c \in Callers : todo[c] \in Seq(Steps) /\ (todo[c] = <<>>) = (job[c] = Idle)
    /\ changes \in Nat

\* Whatever the callers' steps, power cuts and failed writes there are between them, a
\* memory that was stored or updated is there until it is forgotten, replaced, trimmed,
\* or the journal is rewritten from what was read before it was there; and so is what
\* was forgotten gone (unless a line or the rewriting itself was cut, or met another's).
AnswersHold ==
    ~lossy => promised \subseteq LiveKeys /\ gone \cap LiveIds = {}

\* When no operation is under way every memory is found by each of its labels: the
\* counts of the index never let a label go that an item still carries, through
\* stores, updates, forgets, merges and the new numbers of a compaction, of callers that
\* do not write over what another has read.
RecallReaches ==
    Quiet /\ ~drift /\ index # Broken =>
        \A i \in Live(items) : \A n \in DOMAIN items[i].tags : i \in Found(items[i].tags[n])

\* Every recall of a memory is counted once, in its journal line or still in the
\* digest, across compactions (unless the index of one could not be saved, or the
\* digest or the index was written while it ran).
RecallsCounted ==
    ~twice /\ ~lossy /\ Quiet /\ index # Broken =>
        \A i \in Live(items) :
            items[i].acc + Pending(items[i].id, index.seen) = recalled[items[i].id]

\* An update that is answered with OK keeps the memory it updates.
\* claw_memory_cap.c describes memory_update as updating one item.
UpdateKeepsMemory ==
    [][\A c \in Callers :
          At1(c, "bury") /\ job[c].kind = "update" /\ ~lossy' =>
              (todo'[c] # <<>> => Key[job[c].item.fact] \in LiveKeys')]_vars

\* A rewriting keeps what is there when it is written.
RewritesWhatIsThere ==
    [][\A c \in Callers : At1(c, "rewrite") /\ items' # items => items = plan[c].items]_vars
=============================================================================
