--------------------------- MODULE SchedulerProofs ---------------------------
(***************************************************************************)
(* Proofs about Scheduler for every set of entries and definitions, every  *)
(* tick and capacity, and any number of calls, power cuts and failed       *)
(* writes.  What a call or a pass makes of one entry is stated once for    *)
(* each operator (RefreshIs, PublishedIs, ChangedIs, ...); the invariants  *)
(* are per entry and relate its record in memory with the ones in the file *)
(* and in the blob, which a restart puts together again.                   *)
(***************************************************************************)
EXTENDS Scheduler, TLAPS

(* An item whose kind is "interval" has an interval: no definition lacks it  *)
(* and no call takes it away.                                               *)
GoodItem  == {i \in Item : i.kind = "interval" => i.interval > 0}
GoodEntry == [item : GoodItem, rt : Runtime]

LEMMA Quotient ==
    ASSUME NEW a \in Nat, NEW k \in Nat \ {0}
    PROVE  (a \div k) \in Nat /\ (a \div k + 1) * k \in Nat /\ (a \div k + 1) * k > a
  OBVIOUS

LEMMA NextIntervalIs ==
    ASSUME NEW item \in Item, item.interval > 0, NEW anchor \in Nat
    PROVE  NextInterval(item, anchor) \in Nat /\ NextInterval(item, anchor) > anchor
  <1>1. item.start_at \in Nat /\ item.interval \in Nat \ {0}
    BY DEF Item
  <1>2. CASE item.start_at = 0 \/ item.start_at > anchor
    BY <1>1, <1>2 DEF NextInterval
  <1>3. CASE item.start_at # 0 /\ ~ (item.start_at > anchor)
    <2>1. PICK a \in Nat : a = anchor - item.start_at
      BY <1>1, <1>3
    <2>2. PICK p : p = (a \div item.interval + 1) * item.interval
      OBVIOUS
    <2>3. p \in Nat /\ p > a
      BY <1>1, <2>2, Quotient
    <2>4. NextInterval(item, anchor) = item.start_at + p
      BY <1>3, <2>1, <2>2 DEF NextInterval
    <2> QED BY <1>1, <2>1, <2>3, <2>4
  <1> QED BY <1>2, <1>3

\* A fire time is one in the future, or none; that it cannot be computed is a
\* matter of the cron expression alone.
LEMMA NextFireIs ==
    ASSUME NEW item \in GoodItem, NEW anchor \in Nat, NEW runs \in Nat
    PROVE  /\ ComputeNextFire(item, anchor, runs) \in Int
           /\ \/ ComputeNextFire(item, anchor, runs) = Never
              \/ /\ ComputeNextFire(item, anchor, runs) = Fails
                 /\ item.kind = "cron" /\ item.cron = 0
              \/ ComputeNextFire(item, anchor, runs) > anchor
           /\ UsedUp(item, runs) => ComputeNextFire(item, anchor, runs) = Never
  <1>1. item \in Item /\ item.kind \in Kinds /\ item.start_at \in Nat /\ item.cron \in Nat
    BY DEF GoodItem, Item
  <1>2. ASSUME NEW t \in Nat, t > anchor
        PROVE  Cutoff(item, t) = Never \/ (Cutoff(item, t) = t /\ Cutoff(item, t) > anchor)
    BY <1>2 DEF Cutoff
  <1>3. Never \in Int /\ Fails \in Int
    BY DEF Never, Fails
  <1>4. CASE ~item.enabled \/ UsedUp(item, runs)
    BY <1>3, <1>4 DEF ComputeNextFire
  <1>5. CASE ~ (~item.enabled \/ UsedUp(item, runs))
    <2>1. CASE item.kind = "once"
      <3>1. ComputeNextFire(item, anchor, runs) =
              IF anchor >= item.start_at THEN Never ELSE Cutoff(item, item.start_at)
        BY <1>5, <2>1 DEF ComputeNextFire
      <3>2. anchor >= item.start_at \/ item.start_at > anchor
        BY <1>1
      <3> QED BY <1>1, <1>2, <1>3, <1>5, <3>1, <3>2
    <2>2. CASE item.kind = "interval"
      <3>1. ComputeNextFire(item, anchor, runs) = Cutoff(item, NextInterval(item, anchor))
        BY <1>5, <2>2 DEF ComputeNextFire
      <3>2. item.interval > 0
        BY <2>2 DEF GoodItem
      <3> QED BY <1>1, <1>2, <1>3, <1>5, <3>1, <3>2, NextIntervalIs
    <2>3. CASE item.kind = "cron" /\ item.cron = 0
      BY <1>3, <1>5, <2>3 DEF ComputeNextFire
    <2>4. CASE item.kind = "cron" /\ item.cron # 0
      <3>1. ComputeNextFire(item, anchor, runs) = Cutoff(item, NextCron(item, anchor))
        BY <1>5, <2>4 DEF ComputeNextFire
      <3>2. NextCron(item, anchor) \in Nat /\ NextCron(item, anchor) > anchor
        BY <1>1, <2>4, Quotient DEF NextCron
      <3> QED BY <1>2, <1>3, <1>5, <3>1, <3>2
    <2> QED BY <1>1, <2>1, <2>2, <2>3, <2>4 DEF Kinds
  <1> QED BY <1>4, <1>5

LEMMA PutIs ==
    ASSUME NEW e \in GoodEntry, NEW status \in Statuses, NEW next \in Int
    PROVE  /\ Put(e, status, next) \in GoodEntry
           /\ Put(e, status, next).item = e.item
           /\ Put(e, status, next).rt = [status |-> status, next |-> next,
                                         last |-> e.rt.last, runs |-> e.rt.runs]
  BY DEF Put, GoodEntry, Runtime

(* Room for one more run; and what may be armed while the time is unknown.   *)
Room(item, rt) == rt.next > 0 => item.max_runs = 0 \/ rt.runs < item.max_runs
Unarmed(e, known) ==
    ~known /\ e.rt.status \notin {"paused", "error"} /\ RequiresValidTime(e.item)
        => e.rt.next <= 0

LEMMA RefreshIs ==
    ASSUME NEW e \in GoodEntry, NEW now \in Nat, NEW known \in BOOLEAN
    PROVE  /\ Refresh(e, now, known) \in GoodEntry
           /\ Refresh(e, now, known).item = e.item
           /\ Refresh(e, now, known).rt.runs = e.rt.runs
           /\ Refresh(e, now, known).rt.last = e.rt.last
           /\ Refresh(e, now, known).rt.status = "paused" => Refresh(e, now, known) = e
           /\ Refresh(e, now, known).rt.status # "paused" => Room(e.item, Refresh(e, now, known).rt)
           /\ Unarmed(Refresh(e, now, known), known)
           /\ (e.rt.status # "paused" /\ (e.item.kind = "cron" => e.item.cron > 0))
                => ~ Due(Refresh(e, now, known), now)
  <1>1. /\ e.item \in GoodItem /\ e.rt.runs \in Nat /\ e.rt.next \in Int
        /\ e.item.max_runs \in Nat
    BY DEF GoodEntry, GoodItem, Item, Runtime
  <1>2. PICK next : next = ComputeNextFire(e.item, now, e.rt.runs)
    OBVIOUS
  <1>3. /\ next \in Int
        /\ next = Never \/ (next = Fails /\ e.item.kind = "cron" /\ e.item.cron = 0) \/ next > now
        /\ UsedUp(e.item, e.rt.runs) => next = Never
    BY <1>1, <1>2, NextFireIs
  <1>4. {"scheduled", "paused", "completed", "error", "disabled"} \subseteq Statuses
        /\ Never \in Int /\ ~ (Never > 0) /\ Never <= 0
    BY DEF Statuses, Never
  <1>5. ASSUME NEW status \in Statuses, NEW n \in Int, NEW p, p = Put(e, status, n)
        PROVE  /\ p \in GoodEntry /\ p.item = e.item /\ p.rt.runs = e.rt.runs
               /\ p.rt.last = e.rt.last /\ p.rt.status = status /\ p.rt.next = n
    <2>1. /\ p \in GoodEntry /\ p.item = e.item
          /\ p.rt = [status |-> status, next |-> n, last |-> e.rt.last, runs |-> e.rt.runs]
      BY <1>5, PutIs
    <2> QED BY <2>1
  <1>6. PICK p : p = Refresh(e, now, known)
    OBVIOUS
  <1>7. CASE ~ e.item.enabled
    <2>1. p = Put(e, "disabled", Never)
      BY <1>6, <1>7 DEF Refresh
    <2>2. p \in GoodEntry /\ p.item = e.item /\ p.rt.runs = e.rt.runs /\ p.rt.last = e.rt.last
          /\ p.rt.status = "disabled" /\ p.rt.next = Never
      BY <1>4, <1>5, <2>1
    <2> QED BY <1>4, <1>6, <1>7, <2>2 DEF Room, Unarmed, Due
  <1>8. CASE e.item.enabled /\ e.rt.status = "paused"
    <2>1. p = e
      BY <1>6, <1>8 DEF Refresh
    <2> QED BY <1>6, <1>8, <2>1 DEF Unarmed
  <1>9. CASE e.item.enabled /\ e.rt.status # "paused" /\ ~known /\ RequiresValidTime(e.item)
    <2>1. p = Put(e, "scheduled", Never)
      BY <1>6, <1>9 DEF Refresh
    <2>2. p \in GoodEntry /\ p.item = e.item /\ p.rt.runs = e.rt.runs /\ p.rt.last = e.rt.last
          /\ p.rt.status = "scheduled" /\ p.rt.next = Never
      BY <1>4, <1>5, <2>1
    <2> QED BY <1>4, <1>6, <1>9, <2>2 DEF Room, Unarmed, Due, Watched
  <1>10. CASE /\ e.item.enabled /\ e.rt.status # "paused"
              /\ ~ (~known /\ RequiresValidTime(e.item))
    <2>1. CASE next = Fails
      <3>1. p = Put(e, "error", e.rt.next)
        BY <1>2, <1>6, <1>10, <2>1 DEF Refresh
      <3>2. p \in GoodEntry /\ p.item = e.item /\ p.rt.runs = e.rt.runs
            /\ p.rt.last = e.rt.last /\ p.rt.status = "error"
        BY <1>1, <1>4, <1>5, <3>1
      <3>3. ~ UsedUp(e.item, e.rt.runs) /\ e.item.kind = "cron" /\ e.item.cron = 0
        BY <1>3, <2>1 DEF Fails, Never
      <3>4. Room(e.item, p.rt)
        BY <1>1, <3>2, <3>3 DEF Room, UsedUp
      <3> QED BY <1>6, <1>10, <3>2, <3>3, <3>4 DEF Unarmed
    <2>2. CASE next = Never
      <3>1. p = Put(e, "completed", Never)
        BY <1>2, <1>6, <1>10, <2>2 DEF Refresh, Never, Fails
      <3>2. p \in GoodEntry /\ p.item = e.item /\ p.rt.runs = e.rt.runs
            /\ p.rt.last = e.rt.last /\ p.rt.status = "completed" /\ p.rt.next = Never
        BY <1>4, <1>5, <3>1
      <3> QED BY <1>4, <1>6, <3>2 DEF Room, Unarmed, Due, Watched
    <2>3. CASE next # Fails /\ next # Never
      <3>1. p = Put(e, "scheduled", next)
        BY <1>2, <1>6, <1>10, <2>3 DEF Refresh
      <3>2. p \in GoodEntry /\ p.item = e.item /\ p.rt.runs = e.rt.runs
            /\ p.rt.last = e.rt.last /\ p.rt.status = "scheduled" /\ p.rt.next = next
        BY <1>3, <1>4, <1>5, <3>1
      <3>3. ~ UsedUp(e.item, e.rt.runs) /\ ~ (next <= now)
        BY <1>3, <2>3
      <3>4. Room(e.item, p.rt)
        BY <1>1, <3>2, <3>3 DEF Room, UsedUp
      <3> QED BY <1>6, <1>10, <3>2, <3>3, <3>4 DEF Unarmed, Due
    <2> QED BY <2>1, <2>2, <2>3
  <1> QED BY <1>7, <1>8, <1>9, <1>10

\* A cron expression that matches no minute puts the entry in error, or leaves
\* it without a fire time.
LEMMA NeverFires ==
    ASSUME NEW e \in GoodEntry, NEW now \in Nat, NEW known \in BOOLEAN,
           e.rt.status # "paused", NeverMatches(e.item),
           NEW p, p = Refresh(e, now, known), Due(p, now)
    PROVE  p.rt.status = "error"
  <1>1. /\ e.item \in GoodItem /\ e.rt.runs \in Nat /\ Never \in Int
        /\ {"scheduled", "completed", "disabled"} \subseteq Statuses
    BY DEF GoodEntry, Runtime, Never, Statuses
  <1>2. PICK next : next = ComputeNextFire(e.item, now, e.rt.runs)
    OBVIOUS
  <1>3. next = Never \/ next = Fails
    BY <1>2 DEF ComputeNextFire, NeverMatches
  <1>4. ASSUME NEW status \in Statuses, p = Put(e, status, Never)
        PROVE  FALSE
    <2>1. p.rt = [status |-> status, next |-> Never, last |-> e.rt.last, runs |-> e.rt.runs]
      BY <1>1, <1>4, PutIs
    <2> QED BY <2>1 DEF Due, Never
  <1>5. CASE p = Put(e, "error", e.rt.next)
    <2>1. e.rt.next \in Int /\ "error" \in Statuses
      BY DEF GoodEntry, Runtime, Statuses
    <2>2. p.rt = [status |-> "error", next |-> e.rt.next, last |-> e.rt.last,
                  runs |-> e.rt.runs]
      BY <1>5, <2>1, PutIs
    <2> QED BY <2>2
  <1>6. \/ \E status \in Statuses : p = Put(e, status, Never)
        \/ p = Put(e, "error", e.rt.next)
    BY <1>1, <1>2, <1>3 DEF Refresh
  <1> QED BY <1>4, <1>5, <1>6

\* An event the router took counts as a run.
Taken(ok) == IF ok THEN 1 ELSE 0

LEMMA PublishedIs ==
    ASSUME NEW e \in GoodEntry, NEW ok \in BOOLEAN, NEW planned \in Nat, NEW now \in Nat,
           valid \in BOOLEAN, NEW p, p = Published(e, ok, planned, now)
    PROVE  /\ p \in GoodEntry /\ p.item = e.item
           /\ p.rt.runs = e.rt.runs + Taken(ok)
           /\ p.rt.status # "paused"
           /\ \/ Room(e.item, p.rt)
              \/ p.rt.status = "error" /\ p.rt.next = e.rt.next /\ p.rt.runs = e.rt.runs
           /\ Unarmed(p, valid)
  <1>1. /\ e = [item |-> e.item, rt |-> e.rt] /\ e.item \in GoodItem
        /\ e.rt = [status |-> e.rt.status, next |-> e.rt.next, last |-> e.rt.last,
                   runs |-> e.rt.runs]
        /\ e.rt.next \in Int /\ e.rt.last \in Nat /\ e.rt.runs \in Nat
    BY DEF GoodEntry, Runtime
  <1>2. {"scheduled", "paused", "completed", "error", "disabled"} \subseteq Statuses
    BY DEF Statuses
  <1>3. CASE ok = FALSE
    <2>1. p = [item |-> e.item, rt |-> [status |-> "error", next |-> e.rt.next, last |-> now,
                                        runs |-> e.rt.runs]]
      BY <1>1, <1>3 DEF Published
    <2>2. Taken(ok) = 0
      BY <1>3 DEF Taken
    <2>3. p \in GoodEntry /\ p.item = e.item /\ p.rt.runs = e.rt.runs /\ p.rt.next = e.rt.next
          /\ p.rt.status = "error"
      BY <1>1, <1>2, <2>1 DEF GoodEntry, Runtime
    <2> QED BY <1>1, <2>2, <2>3 DEF Room, Unarmed
  <1>4. CASE ok = TRUE
    <2>6. Taken(ok) = 1
      BY <1>4 DEF Taken
    <2>1. PICK done : done = [e EXCEPT !.rt.status = "scheduled", !.rt.last = now,
                                       !.rt.runs = @ + 1]
      OBVIOUS
    <2>2. done = [item |-> e.item, rt |-> [status |-> "scheduled", next |-> e.rt.next,
                                           last |-> now, runs |-> e.rt.runs + 1]]
      BY <1>1, <2>1
    <2>3. done \in GoodEntry /\ done.item = e.item /\ done.rt.runs = e.rt.runs + 1
          /\ done.rt.status = "scheduled"
      BY <1>1, <1>2, <2>2 DEF GoodEntry, Runtime
    <2>4. CASE e.item.kind = "once"
      <3>1. p = Put(done, "completed", Never)
        BY <1>4, <2>1, <2>4 DEF Published
      <3>2. p \in GoodEntry /\ p.item = done.item
            /\ p.rt = [status |-> "completed", next |-> Never, last |-> done.rt.last,
                       runs |-> done.rt.runs]
        BY <1>2, <2>3, <3>1, PutIs DEF Never
      <3>3. p.rt.status = "completed" /\ p.rt.next = Never /\ p.rt.runs = e.rt.runs + 1
        BY <2>3, <3>2
      <3>4. ~ (p.rt.next > 0) /\ p.rt.next <= 0
        BY <3>3 DEF Never
      <3> QED BY <2>3, <2>6, <3>2, <3>3, <3>4 DEF Room, Unarmed
    <2>5. CASE e.item.kind # "once"
      <3>1. p = Refresh(done, planned, valid)
        BY <1>4, <2>1, <2>5 DEF Published
      <3>2. /\ p \in GoodEntry /\ p.item = done.item /\ p.rt.runs = done.rt.runs
            /\ p.rt.status = "paused" => p = done
            /\ p.rt.status # "paused" => Room(done.item, p.rt)
            /\ Unarmed(p, valid)
        BY <2>3, <3>1, RefreshIs, Z3
      <3> QED BY <2>3, <2>6, <3>2
    <2> QED BY <2>4, <2>5
  <1> QED BY <1>3, <1>4

LEMMA FreshIs ==
    ASSUME NEW item \in GoodItem
    PROVE  /\ Fresh(item) \in GoodEntry /\ Fresh(item).item = item
           /\ Fresh(item).rt.runs = 0 /\ Fresh(item).rt.status # "paused"
           /\ Fresh(item).rt.status \in Statuses
  BY DEF Fresh, GoodEntry, Runtime, Statuses

\* The calls: what each makes of an entry, None for one that is removed.
LEMMA ChangedIs ==
    ASSUME NEW e \in GoodEntry, call.op \in Ops \ {"add", "remove"}, call.now \in Nat,
           call.op = "update" => call.item \in GoodItem,
           valid \in BOOLEAN, NEW p, p = Changed(e)
    PROVE  /\ p \in GoodEntry /\ p.rt.runs = e.rt.runs
           /\ IF call.op = "update" THEN p.item = call.item
              ELSE \E on \in BOOLEAN : p.item = [e.item EXCEPT !.enabled = on]
           /\ call.op = "pause" \/ (call.op = "update" /\ e.rt.status = "paused")
                => p.rt.status = "paused"
           /\ p.rt.status = "paused" => p.rt.next = e.rt.next
           /\ p.rt.status # "paused" => Room(p.item, p.rt)
           /\ Unarmed(p, valid)
  <1>1. /\ e = [item |-> e.item, rt |-> e.rt] /\ e.item \in GoodItem
        /\ e.rt = [status |-> e.rt.status, next |-> e.rt.next, last |-> e.rt.last,
                   runs |-> e.rt.runs]
        /\ e.rt.status \in Statuses /\ e.rt.next \in Int /\ e.rt.last \in Nat
        /\ e.rt.runs \in Nat
    BY DEF GoodEntry, Runtime
  <1>2. {"scheduled", "paused", "completed", "error", "disabled"} \subseteq Statuses
    BY DEF Statuses
  <1>3. ASSUME NEW d \in GoodEntry, p = Refresh(d, call.now, valid), d.rt.runs = e.rt.runs,
               d.rt.next = e.rt.next
        PROVE  /\ p \in GoodEntry /\ p.rt.runs = e.rt.runs /\ p.item = d.item
               /\ p.rt.status = "paused" => p.rt.next = e.rt.next
               /\ p.rt.status # "paused" => Room(p.item, p.rt)
               /\ Unarmed(p, valid)
    <2>1. /\ p \in GoodEntry /\ p.item = d.item /\ p.rt.runs = d.rt.runs
          /\ p.rt.status = "paused" => p = d
          /\ p.rt.status # "paused" => Room(d.item, p.rt)
          /\ Unarmed(p, valid)
      BY <1>3, RefreshIs
    <2> QED BY <1>3, <2>1
  <1>8. e.item.enabled \in BOOLEAN /\ e.item = [e.item EXCEPT !.enabled = e.item.enabled]
    BY <1>1 DEF GoodItem, Item
  <1>4. CASE call.op = "update"
    <2>1. PICK d : d = [e EXCEPT !.item = call.item]
      OBVIOUS
    <2>2. d = [item |-> call.item, rt |-> e.rt]
      BY <1>1, <2>1
    <2>3. d \in GoodEntry /\ d.item = call.item /\ d.rt = e.rt
      BY <1>4, <2>2 DEF GoodEntry
    <2>4. CASE e.rt.status = "paused"
      <3>1. p = d
        BY <1>4, <2>1, <2>4 DEF Changed
      <3> QED BY <1>4, <2>3, <2>4, <3>1 DEF Unarmed
    <2>5. CASE e.rt.status # "paused"
      <3>1. p = Refresh(d, call.now, valid)
        BY <1>4, <2>1, <2>5 DEF Changed
      <3> QED BY <1>3, <1>4, <2>3, <2>5, <3>1
    <2> QED BY <2>4, <2>5
  <1>5. ASSUME NEW on \in BOOLEAN, call.op = IF on THEN "enable" ELSE "disable"
        PROVE  /\ p \in GoodEntry /\ p.rt.runs = e.rt.runs
               /\ \E b \in BOOLEAN : p.item = [e.item EXCEPT !.enabled = b]
               /\ p.rt.status = "paused" => p.rt.next = e.rt.next
               /\ p.rt.status # "paused" => Room(p.item, p.rt)
               /\ Unarmed(p, valid)
    <2>1. PICK item : item = [e.item EXCEPT !.enabled = on]
      OBVIOUS
    <2>2. item \in GoodItem /\ item = [e.item EXCEPT !.enabled = on]
      BY <1>1, <2>1 DEF GoodItem, Item
    <2>3. PICK status : status = IF on THEN "scheduled" ELSE "disabled"
      OBVIOUS
    <2>4. PICK d : d = Enabled(e, on)
      OBVIOUS
    <2>5. d = [item |-> item, rt |-> [status |-> status, next |-> e.rt.next,
                                      last |-> e.rt.last, runs |-> e.rt.runs]]
      <3>1. d = [e EXCEPT !.item = item, !.rt = [e.rt EXCEPT !.status = status]]
        BY <1>1, <2>1, <2>3, <2>4 DEF Enabled
      <3> QED BY <1>1, <3>1
    <2>6. d \in GoodEntry /\ d.item = item /\ d.rt.runs = e.rt.runs /\ d.rt.next = e.rt.next
      BY <1>1, <1>2, <2>2, <2>3, <2>5 DEF GoodEntry, Runtime
    <2>7. p = Refresh(d, call.now, valid)
      BY <1>5, <2>4 DEF Changed
    <2> QED BY <1>3, <2>2, <2>6, <2>7
  <1>6. CASE call.op = "pause"
    <2>1. p = [item |-> e.item, rt |-> [status |-> "paused", next |-> e.rt.next,
                                        last |-> e.rt.last, runs |-> e.rt.runs]]
      BY <1>1, <1>6 DEF Changed
    <2> QED BY <1>1, <1>2, <1>6, <1>8, <2>1 DEF GoodEntry, Runtime, Unarmed
  <1>7. CASE call.op = "resume"
    <2>1. p = Refresh(e, call.now, valid)
      BY <1>7 DEF Changed
    <2> QED BY <1>3, <1>7, <1>8, <2>1
  <1> QED BY <1>4, <1>5, <1>6, <1>7 DEF Ops

LEMMA AddedIs ==
    ASSUME call.op = "add", call.now \in Nat, call.item \in GoodItem, valid \in BOOLEAN,
           NEW e, NEW p, p = Changed(e)
    PROVE  /\ p \in GoodEntry /\ p.item = call.item /\ p.rt.runs = 0
           /\ Room(p.item, p.rt) /\ Unarmed(p, valid)
  <1>1. p = Refresh(Fresh(call.item), call.now, valid)
    BY DEF Changed
  <1>2. PICK f : f = Fresh(call.item)
    OBVIOUS
  <1>3. f \in GoodEntry /\ f.item = call.item /\ f.rt.runs = 0 /\ f.rt.status # "paused"
    BY <1>2, FreshIs
  <1>4. /\ p \in GoodEntry /\ p.item = f.item /\ p.rt.runs = f.rt.runs
        /\ p.rt.status = "paused" => p = f
        /\ p.rt.status # "paused" => Room(f.item, p.rt)
        /\ Unarmed(p, valid)
    BY <1>1, <1>2, <1>3, RefreshIs
  <1> QED BY <1>3, <1>4

LEMMA RebasedIs ==
    ASSUME NEW e \in GoodEntry, clock \in Nat, NEW p, p = Rebased(e)
    PROVE  /\ p \in GoodEntry /\ p.item = e.item /\ p.rt.runs = e.rt.runs
           /\ p.rt.status = "paused" <=> e.rt.status = "paused"
           /\ p.rt.status = "paused" => p.rt.next = e.rt.next \/ p.rt.next = Never
           /\ p.rt.status # "paused" => Room(p.item, p.rt)
  <1>1. /\ e = [item |-> e.item, rt |-> e.rt] /\ e.item \in GoodItem
        /\ e.rt = [status |-> e.rt.status, next |-> e.rt.next, last |-> e.rt.last,
                   runs |-> e.rt.runs]
        /\ e.rt.status \in Statuses /\ e.rt.next \in Int /\ e.rt.last \in Nat
        /\ e.rt.runs \in Nat
    BY DEF GoodEntry, Runtime
  <1>2. PICK bare : bare = IF ~valid /\ ~RequiresValidTime(e.item)
                           THEN [e EXCEPT !.rt.last = 0, !.rt.next = Never] ELSE e
    OBVIOUS
  <1>3. /\ bare \in GoodEntry /\ bare.item = e.item /\ bare.rt.runs = e.rt.runs
        /\ bare.rt.status = e.rt.status
        /\ bare.rt.next = e.rt.next \/ bare.rt.next = Never
    <2>1. \/ bare = e
          \/ bare = [item |-> e.item, rt |-> [status |-> e.rt.status, next |-> Never,
                                              last |-> 0, runs |-> e.rt.runs]]
      BY <1>1, <1>2
    <2> QED BY <1>1, <2>1 DEF GoodEntry, Runtime, Never
  <1>4. CASE e.rt.status = "paused"
    <2>1. p = bare
      BY <1>2, <1>4 DEF Rebased
    <2> QED BY <1>3, <1>4, <2>1
  <1>5. CASE e.rt.status # "paused"
    <2>1. PICK known \in BOOLEAN : p = Refresh(bare, clock, known)
      BY <1>2, <1>5 DEF Rebased
    <2>2. /\ p \in GoodEntry /\ p.item = bare.item /\ p.rt.runs = bare.rt.runs
          /\ p.rt.status = "paused" => p = bare
          /\ p.rt.status # "paused" => Room(bare.item, p.rt)
      BY <1>3, <2>1, RefreshIs
    <2> QED BY <1>3, <1>5, <2>2
  <1> QED BY <1>4, <1>5

RunsInBlob(saved) == IF saved = None THEN 0 ELSE saved.runs

LEMMA RestoredIs ==
    ASSUME NEW item \in GoodItem, NEW saved \in Runtime \cup {None}, NEW p,
           p = Restored(item, saved)
    PROVE  /\ p \in GoodEntry /\ p.item = item /\ p.rt.runs = RunsInBlob(saved)
           /\ p.rt.status = "paused" <=> saved # None /\ saved.status = "paused"
           /\ saved # None => p.rt = saved
  <1>1. CASE saved = None
    <2>1. PICK f : f = Fresh(item)
      OBVIOUS
    <2>2. /\ f \in GoodEntry /\ f.item = item /\ f.rt.runs = 0 /\ f.rt.status # "paused"
          /\ f.rt.status \in Statuses
      BY <2>1, FreshIs
    <2>3. p = Put(f, f.rt.status, Never)
      BY <1>1, <2>1 DEF Restored
    <2>4. p \in GoodEntry /\ p.item = f.item
          /\ p.rt = [status |-> f.rt.status, next |-> Never, last |-> f.rt.last,
                     runs |-> f.rt.runs]
      BY <2>2, <2>3, PutIs DEF Never
    <2> QED BY <1>1, <2>2, <2>4 DEF RunsInBlob
  <1>2. CASE saved # None
    <2>1. p = [item |-> item, rt |-> saved]
      BY <1>2 DEF Restored
    <2> QED BY <1>2, <2>1 DEF GoodEntry, RunsInBlob
  <1> QED BY <1>1, <1>2

\* A start or a reload puts an entry together from its two records.
LEMMA LoadedIs ==
    ASSUME NEW now \in Nat, NEW known \in BOOLEAN, NEW id \in Ids,
           file[id] \in GoodItem, blob[id] \in Runtime \cup {None}, file[id] # None,
           NEW p, p = Loaded(now, known)[id]
    PROVE  /\ p \in GoodEntry /\ p.item = file[id] /\ p.rt.runs = RunsInBlob(blob[id])
           /\ p.rt.status = "paused" <=> blob[id] # None /\ blob[id].status = "paused"
           /\ p.rt.status = "paused" => p.rt = blob[id]
           /\ p.rt.status # "paused" => Room(p.item, p.rt)
           /\ Unarmed(p, known)
  <1>1. PICK f : f = Restored(file[id], blob[id])
    OBVIOUS
  <1>2. /\ f \in GoodEntry /\ f.item = file[id] /\ f.rt.runs = RunsInBlob(blob[id])
        /\ f.rt.status = "paused" <=> blob[id] # None /\ blob[id].status = "paused"
        /\ blob[id] # None => f.rt = blob[id]
    BY <1>1, RestoredIs
  <1>3. p = IF f.rt.status = "paused" THEN f
            ELSE Refresh(f, IF f.rt.last > 0 THEN f.rt.last ELSE now, known)
    BY <1>1 DEF Loaded
  <1>4. CASE f.rt.status = "paused"
    BY <1>2, <1>3, <1>4 DEF Unarmed
  <1>5. CASE f.rt.status # "paused"
    <2>1. PICK anchor \in Nat : anchor = IF f.rt.last > 0 THEN f.rt.last ELSE now
      BY <1>2 DEF GoodEntry, Runtime
    <2>2. /\ p \in GoodEntry /\ p.item = f.item /\ p.rt.runs = f.rt.runs
          /\ p.rt.status = "paused" => p = f
          /\ p.rt.status # "paused" => Room(f.item, p.rt)
          /\ Unarmed(p, known)
      BY <1>2, <1>3, <1>5, <2>1, RefreshIs
    <2> QED BY <1>2, <1>5, <2>2
  <1> QED BY <1>4, <1>5
-----------------------------------------------------------------------------
(* Tables, and what the steps make of them.                                  *)

Table == [Ids -> GoodEntry \cup {None}]
Items == [Ids -> GoodItem \cup {None}]
Blobs == [Ids -> Runtime \cup {None}]
Calls == [op : Ops, id : Ids, item : GoodItem \cup {None}, now : Nat]

TypeInv ==
    /\ entries \in Table
    /\ valid \in BOOLEAN /\ phase \in {"off", "up", "failed"}
    /\ sample \in Nat \cup {None} /\ delay \in Nat /\ clock \in Nat /\ real \in Nat
    /\ call # None => /\ call \in Calls
                      /\ call.op \in {"add", "update"} => call.item \in Definitions[call.id]
    /\ file = Torn \/ file \in Items
    /\ blob \in Blobs
    /\ calls \in Nat /\ cuts \in Nat /\ slips \in Nat
    /\ sent \in [Ids -> Nat] /\ acked \subseteq Ids /\ held \subseteq Ids
    /\ wiped \in BOOLEAN /\ limits \in [Ids -> SUBSET Nat]

LEMMA DefinitionsAreGood == \A id \in Ids : Definitions[id] \subseteq GoodItem
  BY SchedulerAssumption DEF GoodItem

LEMMA Apart ==
    /\ \A i \in GoodItem : i # None
    /\ \A e \in GoodEntry : e # None /\ e.item \in GoodItem /\ e.rt \in Runtime
    /\ \A r \in Runtime : r # None
    /\ \A f \in Items : f # Torn
  <1>1. \A i \in GoodItem : i \in Item
    BY DEF GoodItem
  <1>2. \A e \in GoodEntry : e \in Entry
    BY <1>1 DEF GoodEntry, Entry
  <1>3. \A f \in Items : f \in [Ids -> Item \cup {None}]
    BY <1>1 DEF Items
  <1> QED BY <1>1, <1>2, <1>3, MarksAreNoRecords DEF GoodEntry

NoRecords == [id \in Ids |-> None]

\* The flash keeps what it had, takes the table new over, or is erased.
Keeps(new) ==
    \/ blob' = blob /\ wiped' = wiped
    \/ blob' = RuntimesOf(new) /\ wiped' = FALSE
    \/ blob' = NoRecords /\ wiped' = TRUE

\* A step of the table new: memory, file and flash each take it over or do not.
Saves(new) ==
    /\ entries' \in {entries, new}
    /\ Keeps(new)
    /\ file' \in {file} \cup {Written(w, new) : w \in WriteResults}

LEMMA SaveIs ==
    ASSUME TypeInv, NEW new, NEW s \in SaveResults, Save(s, new)
    PROVE  Keeps(new) /\ (s = "ok" => blob' = RuntimesOf(new))
  <1>1. s \in {"ok", "kept", "erased"} /\ wiped \in BOOLEAN
    BY SchedulerAssumption DEF TypeInv
  <1>2. CASE s = "ok"
    <2>1. blob' = RuntimesOf(new) /\ wiped' = FALSE
      BY <1>2 DEF Save, Saved
    <2> QED BY <2>1 DEF Keeps
  <1>3. CASE s = "kept"
    <2>1. blob' = blob /\ wiped' = wiped
      BY <1>1, <1>3 DEF Save, Saved
    <2> QED BY <1>3, <2>1 DEF Keeps
  <1>4. CASE s = "erased"
    <2>1. blob' = NoRecords /\ wiped' = TRUE
      BY <1>4 DEF Save, Saved, NoRecords
    <2> QED BY <1>4, <2>1 DEF Keeps
  <1> QED BY <1>1, <1>2, <1>3, <1>4

LEMMA WrittenIs ==
    ASSUME NEW new, NEW w \in WriteResults
    PROVE  \/ Written(w, new) = file \/ Written(w, new) = ItemsOf(new)
           \/ w = "torn" /\ Written(w, new) = Torn
  BY SchedulerAssumption DEF Written

LEMMA RecordsOf ==
    ASSUME NEW new \in Table
    PROVE  /\ ItemsOf(new) \in Items /\ RuntimesOf(new) \in Blobs
           /\ \A id \in Ids : /\ new[id] = None => /\ ItemsOf(new)[id] = None
                                                   /\ RuntimesOf(new)[id] = None
                              /\ new[id] # None => /\ new[id] \in GoodEntry
                                                   /\ ItemsOf(new)[id] = new[id].item
                                                   /\ RuntimesOf(new)[id] = new[id].rt
  <1>1. \A id \in Ids : new[id] # None => new[id] \in GoodEntry
    BY DEF Table
  <1>2. ItemsOf(new) = [id \in Ids |-> IF new[id] = None THEN None ELSE new[id].item]
    BY DEF ItemsOf
  <1>3. RuntimesOf(new) = [id \in Ids |-> IF new[id] = None THEN None ELSE new[id].rt]
    BY DEF RuntimesOf
  <1> QED BY <1>1, <1>2, <1>3, Apart DEF Items, Blobs

LEMMA SavesType ==
    ASSUME TypeInv, NEW new \in Table, Saves(new)
    PROVE  /\ entries' \in Table /\ (file' = Torn \/ file' \in Items)
           /\ blob' \in Blobs /\ wiped' \in BOOLEAN
  <1>1. NoRecords \in Blobs
    BY DEF NoRecords, Blobs
  <1>2. blob' \in Blobs /\ wiped' \in BOOLEAN
    BY <1>1, RecordsOf DEF Saves, Keeps, TypeInv
  <1>3. file' = Torn \/ file' \in Items
    BY WrittenIs, RecordsOf DEF Saves, TypeInv
  <1> QED BY <1>2, <1>3 DEF Saves, TypeInv

\* The call at work, when it is let through.
LEMMA AfterIs ==
    ASSUME TypeInv, call # None, Accepted
    PROVE  /\ call.id \in Ids /\ call.op \in Ops /\ call.now \in Nat
           /\ After \in Table
           /\ \A id \in Ids \ {call.id} : After[id] = entries[id]
           /\ After[call.id] = Changed(entries[call.id])
           /\ IF call.op = "add"
              THEN entries[call.id] = None /\ After[call.id] \in GoodEntry
              ELSE /\ entries[call.id] \in GoodEntry
                   /\ IF call.op = "remove" THEN After[call.id] = None
                      ELSE After[call.id] \in GoodEntry
  <1>1. /\ call \in Calls /\ entries \in Table /\ valid \in BOOLEAN
        /\ call.op \in {"add", "update"} => call.item \in Definitions[call.id]
    BY DEF TypeInv
  <1>2. call.id \in Ids /\ call.op \in Ops /\ call.now \in Nat
    BY <1>1 DEF Calls
  <1>3. call.op \in {"add", "update"} => call.item \in GoodItem
    BY <1>1, <1>2, DefinitionsAreGood
  <1>4. IF call.op = "add" THEN entries[call.id] = None ELSE entries[call.id] \in GoodEntry
    BY <1>1, <1>2 DEF Accepted, Table
  <1>5. CASE call.op = "add"
    <2>1. Changed(entries[call.id]) \in GoodEntry
      BY <1>1, <1>2, <1>3, <1>5, AddedIs
    <2> QED BY <1>1, <1>2, <1>4, <1>5, <2>1 DEF After, Table
  <1>6. CASE call.op = "remove"
    <2>1. Changed(entries[call.id]) = None
      BY <1>6 DEF Changed
    <2> QED BY <1>1, <1>2, <1>4, <1>6, <2>1 DEF After, Table
  <1>7. CASE call.op \notin {"add", "remove"}
    <2>1. Changed(entries[call.id]) \in GoodEntry
      BY <1>1, <1>2, <1>3, <1>4, <1>7, ChangedIs
    <2> QED BY <1>1, <1>2, <1>4, <1>7, <2>1 DEF After, Table
  <1> QED BY <1>5, <1>6, <1>7

\* The limits an id was given, with the call's.
LEMMA LimitedIs ==
    ASSUME TypeInv, call # None, Accepted
    PROVE  /\ Limited \in [Ids -> SUBSET Nat]
           /\ \A id \in Ids : limits[id] \subseteq Limited[id]
           /\ call.op \in {"add", "update"} => call.item.max_runs \in Limited[call.id]
  <1>1. limits \in [Ids -> SUBSET Nat] /\ call.id \in Ids
    BY AfterIs DEF TypeInv
  <1>2. CASE call.op \in {"add", "update"}
    <2>1. call.item \in GoodItem
      BY <1>1, <1>2, DefinitionsAreGood DEF TypeInv
    <2>2. call.item.max_runs \in Nat
      BY <2>1 DEF GoodItem, Item
    <2>3. Limited = [limits EXCEPT ![call.id] = @ \cup {call.item.max_runs}]
      BY <1>2 DEF Limited
    <2> QED BY <1>1, <2>2, <2>3
  <1>3. CASE call.op \notin {"add", "update"}
    BY <1>1, <1>3 DEF Limited
  <1> QED BY <1>2, <1>3

\* A pass: an entry is moved on, published, or left as it is.
LEMMA PassIs ==
    ASSUME TypeInv, Pass
    PROVE  /\ entries' \in Table /\ Saves(entries') /\ sample \in Nat
           /\ \A id \in Ids : (entries[id] = None) <=> (entries'[id] = None)
           /\ \A id \in Ids : entries[id] # None =>
                \/ entries'[id] = entries[id] /\ ~ Due(entries[id], sample) /\ sent'[id] = sent[id]
                \/ /\ Late(entries[id], sample) /\ sent'[id] = sent[id]
                   /\ entries'[id] = Missed(entries[id], sample)
                \/ /\ Due(entries[id], sample) /\ ~ Late(entries[id], sample)
                   /\ \E ok \in BOOLEAN :
                        /\ entries'[id] = Published(entries[id], ok, entries[id].rt.next, sample)
                        /\ sent'[id] = sent[id] + Taken(ok)
           /\ \A id \in Ids : entries[id] = None => sent'[id] = sent[id]
           /\ \/ blob' = RuntimesOf(entries') /\ slips' = slips
              \/ slips' = slips + 1
              \/ UNCHANGED <<blob, wiped, slips, sent, entries>>
           /\ UNCHANGED <<acked, held, limits>>
  <1> DEFINE late == {id \in Ids : Late(entries[id], sample)}
  <1> DEFINE due  == {id \in Ids : Due(entries[id], sample)} \ late
  <1> DEFINE New(taken) ==
        [id \in Ids |-> IF id \in late THEN Missed(entries[id], sample)
                        ELSE IF id \in due
                        THEN Published(entries[id], id \in taken, entries[id].rt.next, sample)
                        ELSE entries[id]]
  <1>1. PICK taken \in SUBSET due, s \in SaveResults :
          /\ entries' = New(taken)
          /\ sent' = [id \in Ids |-> sent[id] + IF id \in taken THEN 1 ELSE 0]
          /\ IF late \cup due = {} THEN UNCHANGED <<blob, wiped, slips>>
             ELSE /\ Save(s, New(taken))
                  /\ slips' = IF s = "ok" THEN slips ELSE slips + 1
    BY DEF Pass
  <1>2. /\ entries \in Table /\ sample \in Nat /\ valid \in BOOLEAN /\ sent \in [Ids -> Nat]
        /\ UNCHANGED file
    BY DEF Pass, TypeInv
  <1>3. \A id \in Ids : Due(entries[id], sample) =>
          entries[id] # None /\ entries[id] \in GoodEntry /\ entries[id].rt.next \in Nat
    BY <1>2 DEF Due, Watched, Table, GoodEntry, Runtime
  <1>4. \A id \in Ids : Late(entries[id], sample) => Due(entries[id], sample)
    BY DEF Late
  <1>5. \A id \in Ids :
          /\ id \in late => entries'[id] = Missed(entries[id], sample)
          /\ id \in due => entries'[id] = Published(entries[id], id \in taken,
                                                    entries[id].rt.next, sample)
          /\ id \notin late \cup due => entries'[id] = entries[id]
    BY <1>1
  <1>6. \A id \in Ids : sent'[id] = sent[id] + IF id \in taken THEN 1 ELSE 0
    BY <1>1
  <1>14. ASSUME NEW id \in due
         PROVE  \E ok \in BOOLEAN :
                   /\ entries'[id] = Published(entries[id], ok, entries[id].rt.next, sample)
                   /\ sent'[id] = sent[id] + Taken(ok)
    <2>1. CASE id \in taken
      <3>1. entries'[id] = Published(entries[id], TRUE, entries[id].rt.next, sample)
        BY <1>5, <2>1 DEF Published
      <3>2. sent'[id] = sent[id] + 1
        BY <1>6, <2>1
      <3>3. Taken(TRUE) = 1
        BY DEF Taken
      <3> QED BY <3>1, <3>2, <3>3
    <2>2. CASE id \notin taken
      <3>1. entries'[id] = Published(entries[id], FALSE, entries[id].rt.next, sample)
        BY <1>5, <2>2 DEF Published
      <3>2. sent'[id] = sent[id] + 0
        BY <1>6, <2>2
      <3>3. Taken(FALSE) = 0
        BY DEF Taken
      <3> QED BY <3>1, <3>2, <3>3
    <2> QED BY <2>1, <2>2
  <1>7. \A id \in late \cup due : entries'[id] \in GoodEntry
    <2>1. \A id \in late : entries'[id] \in GoodEntry
      BY <1>2, <1>3, <1>4, <1>5, RefreshIs DEF Missed
    <2>2. \A id \in due : entries'[id] \in GoodEntry
      <3> SUFFICES ASSUME NEW id \in due PROVE entries'[id] \in GoodEntry
        OBVIOUS
      <3>1. PICK ok \in BOOLEAN :
              entries'[id] = Published(entries[id], ok, entries[id].rt.next, sample)
        BY <1>14
      <3>2. entries[id] \in GoodEntry /\ entries[id].rt.next \in Nat
        BY <1>3
      <3>3. PICK e, p : e = entries[id] /\ p = entries'[id]
        OBVIOUS
      <3>4. p = Published(e, ok, e.rt.next, sample)
        BY <3>1, <3>3
      <3>5. p \in GoodEntry
        <4>1. e \in GoodEntry /\ e.rt.next \in Nat
          BY <3>2, <3>3
        <4>2. sample \in Nat /\ valid \in BOOLEAN
          BY <1>2
        <4> HIDE DEF due, late, New
        <4> QED BY <3>4, <4>1, <4>2, PublishedIs
      <3> QED BY <3>3, <3>5
    <2> QED BY <2>1, <2>2
  <1>8. entries' \in Table
    <2>1. \A id \in Ids : entries'[id] \in GoodEntry \cup {None}
      BY <1>2, <1>5, <1>7 DEF Table
    <2>2. entries' = [id \in Ids |-> entries'[id]]
      BY <1>1
    <2> QED BY <2>1, <2>2 DEF Table
  <1>9. Saves(entries')
    <2>1. Keeps(New(taken))
      <3> HIDE DEF New
      <3> QED BY <1>1, SaveIs DEF Keeps
    <2> QED BY <1>1, <1>2, <2>1 DEF Saves
  <1>10. \A id \in Ids : (entries[id] = None) <=> (entries'[id] = None)
    BY <1>3, <1>4, <1>5, <1>7, Apart
  <1>11. ASSUME NEW id \in Ids, entries[id] # None
         PROVE  \/ entries'[id] = entries[id] /\ ~ Due(entries[id], sample) /\ sent'[id] = sent[id]
                \/ /\ Late(entries[id], sample) /\ sent'[id] = sent[id]
                   /\ entries'[id] = Missed(entries[id], sample)
                \/ /\ Due(entries[id], sample) /\ ~ Late(entries[id], sample)
                   /\ \E ok \in BOOLEAN :
                        /\ entries'[id] = Published(entries[id], ok, entries[id].rt.next, sample)
                        /\ sent'[id] = sent[id] + Taken(ok)
    <2>1. CASE id \in late
      BY <1>2, <1>5, <1>6, <2>1
    <2>2. CASE id \in due
      BY <1>14, <2>2
    <2>3. CASE id \notin late \cup due
      BY <1>2, <1>5, <1>6, <2>3
    <2> QED BY <2>1, <2>2, <2>3
  <1>12. \A id \in Ids : entries[id] = None => sent'[id] = sent[id]
    BY <1>2, <1>3, <1>6
  <1>13. \/ blob' = RuntimesOf(entries') /\ slips' = slips
         \/ slips' = slips + 1
         \/ UNCHANGED <<blob, wiped, slips, sent, entries>>
    <2>1. CASE late \cup due = {}
      <3>1. \A id \in Ids : entries'[id] = entries[id] /\ sent'[id] = sent[id]
        BY <1>2, <1>5, <1>6, <2>1
      <3>2. entries' = entries /\ sent' = sent
        BY <1>1, <1>2, <3>1 DEF Table
      <3> QED BY <1>1, <2>1, <3>2
    <2>2. CASE late \cup due # {}
      BY <1>1, <2>2, SaveIs
    <2> QED BY <2>1, <2>2
  <1>15. UNCHANGED <<acked, held, limits>>
    BY DEF Pass
  <1> QED BY <1>2, <1>8, <1>9, <1>10, <1>11, <1>12, <1>13, <1>15

\* A start or a reload of an intact file.
LEMMA LoadIs ==
    ASSUME TypeInv, file # Torn, Boot \/ Reload
    PROVE  /\ entries' \in Table /\ Saves(entries') /\ phase' = "up"
           /\ UNCHANGED valid /\ Forget
           /\ \A id \in Ids : file[id] = None => entries'[id] = None
           /\ \A id \in Ids : file[id] # None =>
                /\ file[id] \in GoodItem /\ entries'[id] \in GoodEntry
                /\ entries'[id].item = file[id]
                /\ entries'[id].rt.runs = RunsInBlob(blob[id])
                /\ entries'[id].rt.status = "paused"
                     <=> blob[id] # None /\ blob[id].status = "paused"
                /\ entries'[id].rt.status = "paused" => entries'[id].rt = blob[id]
                /\ entries'[id].rt.status # "paused"
                     => Room(entries'[id].item, entries'[id].rt)
                /\ Unarmed(entries'[id], valid)
  <1>1. PICK now \in Nat, known \in BOOLEAN, w \in WriteResults, s \in SaveResults :
          /\ entries' = Loaded(now, known) /\ Save(s, entries')
          /\ file' = Written(w, entries')
          /\ known \in {FALSE, valid} /\ phase' = "up" /\ UNCHANGED valid /\ Forget
    <2>1. CASE Boot
      <3>1. 1 \in Nat /\ FALSE \in BOOLEAN
        OBVIOUS
      <3> QED BY <2>1, <3>1 DEF Boot
    <2>2. CASE Reload
      <3>1. clock \in Nat /\ valid \in BOOLEAN
        BY DEF TypeInv
      <3> QED BY <2>2, <3>1 DEF Reload
    <2> QED BY <2>1, <2>2
  <1>2. file \in Items /\ blob \in Blobs /\ valid \in BOOLEAN
    BY DEF TypeInv
  <1>3. \A id \in Ids : file[id] = None => entries'[id] = None
    BY <1>1 DEF Loaded
  <1>4. ASSUME NEW id \in Ids, file[id] # None
        PROVE  /\ file[id] \in GoodItem /\ entries'[id] \in GoodEntry
               /\ entries'[id].item = file[id]
               /\ entries'[id].rt.runs = RunsInBlob(blob[id])
               /\ entries'[id].rt.status = "paused"
                    <=> blob[id] # None /\ blob[id].status = "paused"
               /\ entries'[id].rt.status = "paused" => entries'[id].rt = blob[id]
               /\ entries'[id].rt.status # "paused"
                    => Room(entries'[id].item, entries'[id].rt)
               /\ Unarmed(entries'[id], valid)
    <2>1. file[id] \in GoodItem /\ blob[id] \in Runtime \cup {None}
      BY <1>2, <1>4 DEF Items, Blobs
    <2>2. PICK p : p = entries'[id]
      OBVIOUS
    <2>3. p = Loaded(now, known)[id]
      BY <1>1, <2>2
    <2>4. /\ p \in GoodEntry /\ p.item = file[id] /\ p.rt.runs = RunsInBlob(blob[id])
          /\ p.rt.status = "paused" <=> blob[id] # None /\ blob[id].status = "paused"
          /\ p.rt.status = "paused" => p.rt = blob[id]
          /\ p.rt.status # "paused" => Room(p.item, p.rt)
          /\ Unarmed(p, known)
      BY <1>4, <2>1, <2>3, LoadedIs
    <2>5. Unarmed(p, valid)
      BY <1>1, <2>4 DEF Unarmed
    <2> QED BY <2>1, <2>2, <2>4, <2>5
  <1>5. entries' \in Table
    <2>1. entries' = [id \in Ids |-> entries'[id]]
      BY <1>1 DEF Loaded
    <2> QED BY <1>3, <1>4, <2>1 DEF Table
  <1>6. Saves(entries')
    BY <1>1, SaveIs DEF Saves
  <1> QED BY <1>1, <1>3, <1>4, <1>5, <1>6

\* The clock is set: every entry is put on the new time.
LEMMA SyncIs ==
    ASSUME TypeInv, HandleTimeSync
    PROVE  /\ \E new \in Table :
                /\ entries' = new /\ Saves(new)
                /\ \A id \in Ids : IF entries[id] = None THEN new[id] = None
                                    ELSE /\ entries[id] \in GoodEntry
                                         /\ new[id] = Rebased(entries[id])
                                         /\ new[id] \in GoodEntry
           /\ valid' = TRUE /\ UNCHANGED <<phase, file, hist>>
  <1>1. PICK new : new = [id \in Ids |-> IF entries[id] = None THEN None
                                         ELSE Rebased(entries[id])]
    OBVIOUS
  <1>2. PICK s \in SaveResults : entries' = new /\ Save(s, new)
    BY <1>1 DEF HandleTimeSync
  <1>3. valid' = TRUE /\ UNCHANGED <<phase, file, hist>>
    BY DEF HandleTimeSync, hist
  <1>4. \A id \in Ids : entries[id] # None => entries[id] \in GoodEntry
    BY DEF TypeInv, Table
  <1>5. \A id \in Ids : entries[id] # None => new[id] = Rebased(entries[id])
                                             /\ new[id] \in GoodEntry
    BY <1>1, <1>4, RebasedIs DEF TypeInv
  <1>6. new \in Table
    BY <1>1, <1>5 DEF Table
  <1>7. Saves(new)
    BY <1>2, <1>3, SaveIs DEF Saves
  <1> QED BY <1>1, <1>2, <1>3, <1>4, <1>5, <1>6, <1>7

LEMMA TriggerIs ==
    ASSUME TypeInv, NEW id \in Ids, Trigger(id)
    PROVE  /\ entries' \in Table /\ Saves(entries')
           /\ \A i \in Ids \ {id} : entries'[i] = entries[i]
           /\ entries[id] \in GoodEntry /\ entries'[id] \in GoodEntry
           /\ entries'[id].item = entries[id].item
           /\ entries'[id].rt.runs >= entries[id].rt.runs
           /\ \/ Room(entries[id].item, entries'[id].rt)
              \/ /\ entries'[id].rt.status = "error"
                 /\ entries'[id].rt.next = entries[id].rt.next
                 /\ entries'[id].rt.runs = entries[id].rt.runs
           /\ Unarmed(entries'[id], valid)
           /\ "trigger" \in Asked /\ held' = held \ {id} /\ calls' = calls + 1
           /\ UNCHANGED <<valid, phase, file, sent, slips, acked, limits>>
  <1>1. /\ entries \in Table /\ clock \in Nat /\ valid \in BOOLEAN
        /\ entries[id] \in GoodEntry
    BY DEF Trigger, TypeInv, Table
  <1>2. PICK ok \in BOOLEAN, s \in SaveResults :
          /\ entries' = [entries EXCEPT ![id] = Published(entries[id], ok, clock, clock)]
          /\ Save(s, entries')
    BY DEF Trigger
  <1>3. PICK e, p : e = entries[id] /\ p = Published(e, ok, clock, clock)
    OBVIOUS
  <1>4. /\ p \in GoodEntry /\ p.item = e.item
        /\ p.rt.runs = e.rt.runs + Taken(ok)
        /\ \/ Room(e.item, p.rt)
           \/ p.rt.status = "error" /\ p.rt.next = e.rt.next /\ p.rt.runs = e.rt.runs
        /\ Unarmed(p, valid)
    <2>1. e \in GoodEntry
      BY <1>1, <1>3
    <2>2. clock \in Nat /\ valid \in BOOLEAN /\ p = Published(e, ok, clock, clock)
      BY <1>1, <1>3
    <2> QED BY <2>1, <2>2, PublishedIs
  <1>5. e.rt.runs \in Nat /\ p.rt.runs >= e.rt.runs
    <2>1. Taken(ok) \in {0, 1}
      BY DEF Taken
    <2> QED BY <1>1, <1>3, <1>4, <2>1 DEF GoodEntry, Runtime
  <1>6. entries'[id] = p /\ \A i \in Ids \ {id} : entries'[i] = entries[i]
    BY <1>1, <1>2, <1>3 DEF Table
  <1>7. entries' \in Table
    BY <1>1, <1>2, <1>3, <1>4 DEF Table
  <1>8. Saves(entries')
    BY <1>2, SaveIs DEF Saves, Trigger
  <1> QED BY <1>1, <1>3, <1>4, <1>5, <1>6, <1>7, <1>8 DEF Trigger

\* The steps that touch neither the table nor what is kept of it.
LEMMA QuietIs ==
    ASSUME BeginPass \/ BeginCall \/ Refuse \/ TimePasses \/ ClockIsSet \/ UNCHANGED vars
    PROVE  UNCHANGED <<entries, valid, phase, file, blob, wiped, cuts, hist>>
  BY DEF BeginPass, BeginCall, Refuse, TimePasses, ClockIsSet, vars, hist

\* What the calls and the power cuts leave of the tables.
LEMMA CommitIs ==
    ASSUME TypeInv, ChangeDefinition
    PROVE  /\ call # None /\ Accepted /\ call.op \notin {"pause", "resume"} /\ phase = "up"
           /\ Saves(After) /\ sent' = Counted /\ limits' = Limited
           /\ UNCHANGED <<valid, phase, slips>>
           /\ \/ entries' = After /\ file' = ItemsOf(After)
              \/ entries' = entries /\ (UNCHANGED <<blob, wiped>> \/ wiped')
           /\ held' = IF call.op = "update" THEN held ELSE held \ {call.id}
           /\ IF call.op = "add" /\ entries' = After /\ file' = ItemsOf(After)
              THEN acked' \subseteq acked \cup {call.id}
              ELSE acked' = IF call.op = "remove" THEN acked \ {call.id} ELSE acked
  <1>1. PICK w \in WriteResults, s \in SaveResults :
          /\ file' = Written(w, After)
          /\ IF w = "ok" THEN Save(s, After) ELSE UNCHANGED <<blob, wiped>>
          /\ entries' = IF w = "ok" /\ s = "ok" THEN After ELSE entries
          /\ acked' = CASE call.op = "remove" -> acked \ {call.id}
                        [] call.op = "add" /\ w = "ok" /\ s = "ok" -> acked \cup {call.id}
                        [] OTHER -> acked
          /\ held' = IF call.op = "update" THEN held ELSE held \ {call.id}
    BY DEF ChangeDefinition, Commit
  <1>2. /\ call # None /\ Accepted /\ call.op \notin {"pause", "resume"} /\ phase = "up"
        /\ sent' = Counted /\ limits' = Limited /\ UNCHANGED <<valid, phase, slips>>
    BY DEF ChangeDefinition
  <1>3. Saves(After)
    <2>1. Keeps(After)
      BY <1>1, SaveIs DEF Keeps
    <2> QED BY <1>1, <2>1 DEF Saves
  <1>4. CASE w = "ok" /\ s = "ok"
    <2>1. entries' = After /\ file' = ItemsOf(After)
      BY <1>1, <1>4 DEF Written
    <2>2. call.op = "add" => acked' = acked \cup {call.id}
      BY <1>1, <1>4
    <2>3. call.op # "add" => acked' = IF call.op = "remove" THEN acked \ {call.id} ELSE acked
      BY <1>1, <1>4
    <2> QED BY <1>1, <1>2, <1>3, <2>1, <2>2, <2>3
  <1>5. CASE ~ (w = "ok" /\ s = "ok")
    <2>1. entries' = entries /\ (UNCHANGED <<blob, wiped>> \/ wiped')
      <3>1. CASE w = "ok"
        <4>1. s \in {"kept", "erased"} /\ wiped \in BOOLEAN
          BY <1>5, <3>1, SchedulerAssumption DEF TypeInv
        <4> QED BY <1>1, <1>5, <3>1, <4>1 DEF Save, Saved
      <3>2. CASE w # "ok"
        BY <1>1, <3>2
      <3> QED BY <3>1, <3>2
    <2>2. acked' = IF call.op = "remove" THEN acked \ {call.id} ELSE acked
      BY <1>1, <1>5
    <2>3. IF call.op = "add" /\ entries' = After /\ file' = ItemsOf(After)
          THEN acked' \subseteq acked \cup {call.id}
          ELSE acked' = IF call.op = "remove" THEN acked \ {call.id} ELSE acked
      BY <2>2
    <2> QED BY <1>1, <1>2, <1>3, <2>1, <2>3
  <1> QED BY <1>4, <1>5

LEMMA StatusIs ==
    ASSUME TypeInv, ChangeStatus
    PROVE  /\ call # None /\ Accepted /\ call.op \in {"pause", "resume"} /\ phase = "up"
           /\ Saves(After) /\ UNCHANGED <<valid, phase, file, sent, slips, acked, limits>>
           /\ \/ /\ entries' = After /\ blob' = RuntimesOf(After)
                 /\ call.op = "pause" /\ held' = held \cup {call.id}
              \/ held' = held \ {call.id}
  <1>1. PICK s \in SaveResults :
          /\ Save(s, After)
          /\ entries' = IF s = "ok" THEN After ELSE entries
          /\ held' = IF call.op = "pause" /\ s = "ok" THEN held \cup {call.id}
                     ELSE held \ {call.id}
    BY DEF ChangeStatus
  <1>2. /\ call # None /\ Accepted /\ call.op \in {"pause", "resume"} /\ phase = "up"
        /\ UNCHANGED <<valid, phase, file, sent, slips, acked, limits>>
    BY DEF ChangeStatus
  <1>3. Saves(After) /\ (s = "ok" => blob' = RuntimesOf(After))
    BY <1>1, <1>2, SaveIs DEF Saves
  <1> QED BY <1>1, <1>2, <1>3

LEMMA CutIs ==
    ASSUME Cut \/ CutInCommit \/ CutInBoot
    PROVE  /\ phase' = "off" /\ cuts' = cuts + 1
           /\ UNCHANGED <<blob, wiped, slips>>
           /\ IF CutInBoot THEN phase = "off" /\ UNCHANGED <<entries, valid>>
              ELSE valid' = FALSE /\ entries' = [id \in Ids |-> None] /\ phase # "off"
           /\ \/ file' = file /\ UNCHANGED <<sent, acked, held, limits>>
              \/ CanTear /\ file' = Torn
              \/ CutInCommit /\ file' = ItemsOf(After)
           /\ IF CutInCommit
              THEN /\ phase = "up" /\ call # None /\ Accepted
                   /\ call.op \notin {"pause", "resume"} /\ sent' = Counted
                   /\ limits' = Limited
                   /\ acked' = IF call.op = "remove" THEN acked \ {call.id} ELSE acked
                   /\ held' = IF call.op = "update" THEN held ELSE held \ {call.id}
              ELSE UNCHANGED <<sent, acked, held, limits>>
  <1>1. CASE Cut
    <2>1. phase # "off"
      BY <1>1 DEF Cut, PowerOff
    <2>2. ~ CutInBoot
      BY <2>1 DEF CutInBoot
    <2>3. /\ phase' = "off" /\ cuts' = cuts + 1 /\ valid' = FALSE
          /\ entries' = [id \in Ids |-> None]
          /\ UNCHANGED <<blob, wiped, slips, file, sent, acked, held, limits>>
      BY <1>1 DEF Cut, PowerOff
    <2>4. CASE ~ CutInCommit
      BY <2>1, <2>2, <2>3, <2>4
    <2>5. CASE CutInCommit
      <3>1. /\ phase = "up" /\ call # None /\ Accepted
            /\ call.op \notin {"pause", "resume"} /\ sent' = Counted /\ limits' = Limited
            /\ acked' = IF call.op = "remove" THEN acked \ {call.id} ELSE acked
            /\ held' = IF call.op = "update" THEN held ELSE held \ {call.id}
        BY <2>5 DEF CutInCommit
      <3> QED BY <2>1, <2>2, <2>3, <2>5, <3>1
    <2> QED BY <2>4, <2>5
  <1>2. CASE CutInCommit
    <2>1. /\ phase = "up" /\ call # None /\ Accepted
          /\ call.op \notin {"pause", "resume"} /\ sent' = Counted /\ limits' = Limited
          /\ acked' = IF call.op = "remove" THEN acked \ {call.id} ELSE acked
          /\ held' = IF call.op = "update" THEN held ELSE held \ {call.id}
          /\ file' = ItemsOf(After) \/ (CanTear /\ file' = Torn)
      BY <1>2 DEF CutInCommit
    <2>2. /\ phase' = "off" /\ cuts' = cuts + 1 /\ valid' = FALSE
          /\ entries' = [id \in Ids |-> None] /\ UNCHANGED <<blob, wiped, slips>>
      BY <1>2 DEF CutInCommit, PowerOff
    <2>3. ~ CutInBoot
      BY <2>1 DEF CutInBoot
    <2> QED BY <1>2, <2>1, <2>2, <2>3
  <1>3. CASE CutInBoot
    <2>1. /\ phase = "off" /\ CanTear /\ file' = Torn /\ cuts' = cuts + 1
          /\ UNCHANGED <<entries, valid, phase, blob, wiped, sent, slips, acked, held, limits>>
      BY <1>3 DEF CutInBoot, hist
    <2>2. ~ CutInCommit
      BY <2>1 DEF CutInCommit
    <2> QED BY <1>3, <2>1, <2>2
  <1> QED BY <1>1, <1>2, <1>3

\* A start that finds the file torn.
LEMMA FailedIs ==
    ASSUME Boot, file = Torn
    PROVE  phase' = "failed" /\ UNCHANGED <<entries, valid, blob, wiped, file, hist>>
  BY DEF Boot

\* Every step: one of those above, or one that leaves all of this alone.
LEMMA NextIs ==
    ASSUME [Next]_vars
    PROVE  \/ Pass \/ ChangeDefinition \/ ChangeStatus
           \/ \E id \in Ids : Trigger(id)
           \/ (Boot \/ Reload) /\ file # Torn
           \/ Boot /\ file = Torn
           \/ HandleTimeSync
           \/ Cut \/ CutInCommit \/ CutInBoot
           \/ UNCHANGED <<entries, valid, phase, file, blob, wiped, hist>>
  <1>1. Reload /\ file = Torn => UNCHANGED <<entries, valid, phase, file, blob, wiped, hist>>
    BY DEF Reload
  <1> QED BY <1>1, QuietIs DEF Next, hist

-----------------------------------------------------------------------------
(* Types.                                                                    *)

LEMMA TypeInit == Init => TypeInv
  <1> SUFFICES ASSUME Init PROVE TypeInv
    OBVIOUS
  <1>1. /\ entries \in Table /\ file \in Items /\ blob \in Blobs /\ sent \in [Ids -> Nat]
        /\ limits \in [Ids -> SUBSET Nat]
    BY DEF Init, Table, Items, Blobs
  <1>2. Epoch \in Nat
    BY SchedulerAssumption
  <1> QED BY <1>1, <1>2 DEF Init, TypeInv

\* The tables, and the history, in every step.
LEMMA TablesKeep ==
    ASSUME TypeInv, [Next]_vars
    PROVE  /\ entries' \in Table /\ blob' \in Blobs /\ (file' = Torn \/ file' \in Items)
           /\ valid' \in BOOLEAN /\ phase' \in {"off", "up", "failed"}
           /\ slips' \in Nat /\ sent' \in [Ids -> Nat]
           /\ acked' \subseteq Ids /\ held' \subseteq Ids
           /\ wiped' \in BOOLEAN /\ limits' \in [Ids -> SUBSET Nat]
  <1>1. /\ entries \in Table /\ blob \in Blobs /\ (file = Torn \/ file \in Items)
        /\ valid \in BOOLEAN /\ phase \in {"off", "up", "failed"}
        /\ slips \in Nat /\ sent \in [Ids -> Nat] /\ acked \subseteq Ids /\ held \subseteq Ids
        /\ wiped \in BOOLEAN /\ limits \in [Ids -> SUBSET Nat]
    BY DEF TypeInv
  <1>2. Counted \in [Ids -> Nat]
    BY <1>1 DEF Counted
  <1>3. CASE Pass
    <2>1. /\ slips' \in Nat /\ sent' \in [Ids -> Nat]
          /\ UNCHANGED <<valid, phase, acked, held, limits>>
      <3>1. PICK taken : sent' = [id \in Ids |-> sent[id] + IF id \in taken THEN 1 ELSE 0]
        BY <1>3 DEF Pass
      <3>2. slips' = slips \/ slips' = slips + 1
        BY <1>3 DEF Pass
      <3>3. UNCHANGED <<valid, phase, acked, held, limits>>
        BY <1>3 DEF Pass
      <3> QED BY <1>1, <3>1, <3>2, <3>3
    <2> QED BY <1>1, <1>3, <2>1, PassIs, SavesType
  <1>4. CASE ChangeDefinition
    <2>1. Saves(After) /\ After \in Table /\ call.id \in Ids
      BY <1>4, CommitIs, AfterIs
    <2>2. /\ sent' \in [Ids -> Nat] /\ limits' \in [Ids -> SUBSET Nat]
          /\ UNCHANGED <<valid, phase, slips>>
      <3>1. call # None /\ Accepted /\ limits' = Limited
        BY <1>4, CommitIs
      <3> QED BY <1>2, <1>4, <3>1, CommitIs, LimitedIs
    <2>3. acked' \subseteq Ids /\ held' \subseteq Ids
      BY <1>1, <1>4, <2>1, CommitIs
    <2> QED BY <1>1, <2>1, <2>2, <2>3, SavesType
  <1>5. CASE ChangeStatus
    <2>1. Saves(After) /\ After \in Table /\ call.id \in Ids
      BY <1>5, StatusIs, AfterIs
    <2>2. UNCHANGED <<valid, phase, sent, slips, acked, limits>>
      BY <1>5, StatusIs
    <2>3. held' \subseteq Ids
      BY <1>1, <1>5, <2>1, StatusIs
    <2> QED BY <1>1, <2>1, <2>2, <2>3, SavesType
  <1>6. CASE \E id \in Ids : Trigger(id)
    <2>1. PICK id \in Ids : Trigger(id)
      BY <1>6
    <2>2. entries' \in Table /\ Saves(entries') /\ held' = held \ {id}
          /\ UNCHANGED <<valid, phase, sent, slips, acked, limits>>
      BY <2>1, TriggerIs
    <2> QED BY <1>1, <2>2, SavesType
  <1>7. CASE (Boot \/ Reload) /\ file # Torn
    <2>1. /\ entries' \in Table /\ Saves(entries') /\ phase' = "up"
          /\ UNCHANGED valid /\ Forget
      BY <1>7, LoadIs
    <2>2. /\ sent' \in [Ids -> Nat] /\ held' \subseteq Ids
          /\ UNCHANGED <<slips, acked, limits>>
      BY <1>1, <2>1 DEF Forget
    <2> QED BY <1>1, <2>1, <2>2, SavesType
  <1>8. CASE Boot /\ file = Torn
    BY <1>1, <1>8, FailedIs DEF hist
  <1>9. CASE HandleTimeSync
    BY <1>1, <1>9, SyncIs, SavesType DEF hist
  <1>10. CASE Cut \/ CutInCommit \/ CutInBoot
    <2>1. /\ phase' = "off" /\ UNCHANGED <<blob, wiped, slips>>
          /\ IF CutInBoot THEN UNCHANGED <<entries, valid>>
             ELSE valid' = FALSE /\ entries' = [id \in Ids |-> None]
      BY <1>10, CutIs
    <2>2. [id \in Ids |-> None] \in Table
      BY DEF Table
    <2>3. CASE CutInCommit
      <3>1. /\ call # None /\ Accepted /\ sent' = Counted /\ limits' = Limited
            /\ acked' = IF call.op = "remove" THEN acked \ {call.id} ELSE acked
            /\ held' = IF call.op = "update" THEN held ELSE held \ {call.id}
            /\ file' = file \/ file' = Torn \/ file' = ItemsOf(After)
        BY <2>3, CutIs
      <3>2. ItemsOf(After) \in Items
        BY <3>1, AfterIs, RecordsOf
      <3>3. limits' \in [Ids -> SUBSET Nat]
        BY <3>1, LimitedIs
      <3> QED BY <1>1, <1>2, <2>1, <2>2, <3>1, <3>2, <3>3
    <2>4. CASE ~ CutInCommit
      <3>1. (file' = file \/ file' = Torn) /\ UNCHANGED <<sent, acked, held, limits>>
        BY <1>10, <2>4, CutIs
      <3> QED BY <1>1, <2>1, <2>2, <3>1
    <2> QED BY <2>3, <2>4
  <1>11. CASE UNCHANGED <<entries, valid, phase, file, blob, wiped, hist>>
    BY <1>1, <1>11 DEF hist
  <1> QED BY <1>3, <1>4, <1>5, <1>6, <1>7, <1>8, <1>9, <1>10, <1>11, NextIs

\* The task, the clocks, and the call that waits.
LEMMA RestKeeps ==
    ASSUME TypeInv, [Next]_vars
    PROVE  /\ sample' \in Nat \cup {None} /\ delay' \in Nat /\ clock' \in Nat /\ real' \in Nat
           /\ calls' \in Nat /\ cuts' \in Nat
           /\ call' # None => /\ call' \in Calls
                              /\ call'.op \in {"add", "update"} => call'.item \in Definitions[call'.id]
  <1>1. /\ sample \in Nat \cup {None} /\ delay \in Nat /\ clock \in Nat /\ real \in Nat
        /\ calls \in Nat /\ cuts \in Nat
        /\ call # None => /\ call \in Calls
                          /\ call.op \in {"add", "update"} => call.item \in Definitions[call.id]
    BY DEF TypeInv
  <1>2. TickMs \in Nat
    BY SchedulerAssumption
  <1>3. CASE BeginPass
    BY <1>1, <1>3 DEF BeginPass, env
  <1>4. CASE Pass
    BY <1>1, <1>2, <1>4 DEF Pass, env
  <1>5. CASE BeginCall
    <2>1. PICK op \in Ops, id \in Ids :
            \E item \in IF op \in {"add", "update"} THEN Definitions[id] ELSE {None} :
               call' = [op |-> op, id |-> id, item |-> item, now |-> clock]
      BY <1>5 DEF BeginCall
    <2>2. PICK item \in IF op \in {"add", "update"} THEN Definitions[id] ELSE {None} :
            call' = [op |-> op, id |-> id, item |-> item, now |-> clock]
      BY <2>1
    <2>3. item \in GoodItem \cup {None}
      BY <2>2, DefinitionsAreGood
    <2>4. call' \in Calls /\ call'.op = op /\ call'.id = id /\ call'.item = item
      BY <1>1, <2>2, <2>3 DEF Calls
    <2> QED BY <1>1, <1>5, <2>2, <2>4 DEF BeginCall, env, task
  <1>6. CASE Refuse \/ ChangeDefinition \/ ChangeStatus
    BY <1>1, <1>6 DEF Refuse, ChangeDefinition, ChangeStatus, env, task
  <1>7. CASE \E id \in Ids : Trigger(id)
    BY <1>1, <1>7 DEF Trigger, env, task
  <1>8. CASE Reload
    BY <1>1, <1>8 DEF Reload, env, task
  <1>9. CASE TimePasses
    BY <1>1, <1>9 DEF TimePasses
  <1>10. CASE ClockIsSet
    BY <1>1, <1>10 DEF ClockIsSet, task
  <1>11. CASE HandleTimeSync
    BY <1>1, <1>11 DEF HandleTimeSync, env, task
  <1>12. CASE Boot
    BY <1>1, <1>12 DEF Boot, task
  <1>13. CASE CutInBoot
    BY <1>1, <1>13 DEF CutInBoot, env, task
  <1>14. CASE PowerOff
    BY <1>1, <1>14 DEF PowerOff
  <1>15. CASE UNCHANGED vars
    BY <1>1, <1>15 DEF vars, env, task
  <1>16. Cut \/ CutInCommit => PowerOff
    BY DEF Cut, CutInCommit
  <1> QED BY <1>3, <1>4, <1>5, <1>6, <1>7, <1>8, <1>9, <1>10, <1>11, <1>12, <1>13, <1>14,
             <1>15, <1>16 DEF Next

LEMMA TypeStep == TypeInv /\ [Next]_vars => TypeInv'
  <1> SUFFICES ASSUME TypeInv, [Next]_vars PROVE TypeInv'
    OBVIOUS
  <1> QED BY TablesKeep, RestKeeps DEF TypeInv

LEMMA TypeHolds == Spec => []TypeInv
  BY TypeInit, TypeStep, PTL DEF Spec

\* Memory, file and blob hold what they are meant to hold, in every state: in
\* particular no call and no restart puts an interval entry together that has
\* no interval to count in.
THEOREM TypeCorrect == Spec => []TypeOK
  <1>1. TypeInv => TypeOK
    <2> SUFFICES ASSUME TypeInv PROVE TypeOK
      OBVIOUS
    <2>1. GoodItem \subseteq Item /\ GoodEntry \subseteq Entry
      BY DEF GoodItem, GoodEntry, Entry
    <2>2. call # None => call \in [op : Ops, id : Ids, item : Item \cup {None}, now : Nat]
      BY <2>1 DEF TypeInv, Calls
    <2>3. entries \in [Ids -> Entry \cup {None}]
      BY <2>1 DEF TypeInv, Table
    <2>4. file = Torn \/ file \in [Ids -> Item \cup {None}]
      BY <2>1 DEF TypeInv, Items
    <2> QED BY <2>2, <2>3, <2>4 DEF TypeInv, TypeOK, Blobs
  <1> QED BY <1>1, TypeHolds, PTL

-----------------------------------------------------------------------------
(* Held entries stay paused.  A pause that succeeded has reached the blob; a *)
(* restart takes the entry's status from there.  So as long as it holds, the *)
(* blob says "paused" too, also while the entry is not in memory, or the     *)
(* flash was erased since, and then the next load ends it; and an entry that *)
(* is not in the running table is not in the file, or a reload would bring   *)
(* it back.                                                                  *)

InFile(id)       == file # Torn /\ file[id] # None
PausedInBlob(id) == blob[id] # None /\ blob[id].status = "paused"

HeldAt(id) ==
    /\ entries[id] # None => entries[id].rt.status = "paused" /\ (wiped \/ PausedInBlob(id))
    /\ InFile(id) => wiped \/ PausedInBlob(id)
    /\ phase = "up" /\ entries[id] = None => ~ InFile(id)

HeldInv == \A id \in held : HeldAt(id)

\* A step that keeps an entry in the table, and paused, if it is there.
LEMMA StaysHeld ==
    ASSUME TypeInv, NEW new \in Table, Saves(new), NEW id \in Ids, HeldAt(id),
           phase = "up", phase' = "up",
           IF entries[id] = None THEN new[id] = None
           ELSE new[id] # None /\ new[id].rt.status = "paused"
    PROVE  HeldAt(id)'
  <1>1. /\ entries' = entries \/ entries' = new
        /\ Keeps(new)
        /\ file' = file \/ file' = ItemsOf(new) \/ file' = Torn
    BY WrittenIs DEF Saves
  <1>2. CASE entries[id] = None
    <2>1. entries'[id] = None /\ (file' # Torn => file'[id] = None)
      BY <1>1, <1>2, RecordsOf DEF HeldAt, InFile
    <2> QED BY <2>1 DEF HeldAt, InFile, PausedInBlob
  <1>3. CASE entries[id] # None
    <2>1. entries'[id] # None /\ entries'[id].rt.status = "paused"
      BY <1>1, <1>3 DEF HeldAt
    <2>2. wiped' \/ (blob'[id] # None /\ blob'[id].status = "paused")
      <3>1. new[id] \in GoodEntry /\ RuntimesOf(new)[id] = new[id].rt
        BY <1>3, RecordsOf
      <3> QED BY <1>1, <1>3, <3>1, Apart DEF HeldAt, PausedInBlob, Keeps
    <2> QED BY <2>1, <2>2 DEF HeldAt, InFile, PausedInBlob
  <1> QED BY <1>2, <1>3

LEMMA HeldStep ==
    ASSUME TypeInv, HeldInv, [Next]_vars
    PROVE  HeldInv'
  <1> SUFFICES ASSUME NEW id \in held' PROVE HeldAt(id)'
    BY DEF HeldInv
  <1>1. id \in Ids
    BY TablesKeep
  <1>2. \A i \in held : HeldAt(i)
    BY DEF HeldInv
  <1>3. entries[id] # None => entries[id] \in GoodEntry
    BY <1>1 DEF TypeInv, Table
  <1>4. CASE Pass
    <2>1. HeldAt(id) /\ phase = "up" /\ phase' = "up"
      BY <1>2, <1>4 DEF Pass
    <2>2. entries[id] # None => ~ Due(entries[id], sample) /\ ~ Late(entries[id], sample)
      BY <2>1 DEF HeldAt, Due, Late, Watched
    <2>3. IF entries[id] = None THEN entries'[id] = None ELSE entries'[id] = entries[id]
      BY <1>1, <1>4, <2>2, PassIs
    <2> QED BY <1>1, <1>4, <2>1, <2>3, PassIs, StaysHeld DEF HeldAt
  <1>5. CASE ChangeDefinition
    <2>1. /\ call # None /\ Accepted /\ call.op \notin {"pause", "resume"}
          /\ phase = "up" /\ phase' = "up" /\ Saves(After)
          /\ held' = IF call.op = "update" THEN held ELSE held \ {call.id}
      BY <1>5, CommitIs
    <2>2. HeldAt(id) /\ (id = call.id => call.op = "update")
      BY <1>2, <2>1
    <2>3. /\ After \in Table /\ (id # call.id => After[id] = entries[id])
          /\ call.op = "update" => /\ After[call.id] = Changed(entries[call.id])
                                  /\ entries[call.id] \in GoodEntry
                                  /\ After[call.id] \in GoodEntry
      BY <1>1, <2>1, AfterIs
    <2>4. IF entries[id] = None THEN After[id] = None
          ELSE After[id] # None /\ After[id].rt.status = "paused"
      <3>1. CASE id # call.id
        BY <2>2, <2>3, <3>1 DEF HeldAt
      <3>2. CASE id = call.id
        <4>1. entries[id] \in GoodEntry /\ After[id] = Changed(entries[id]) /\ After[id] # None
              /\ entries[id] # None
          BY <2>2, <2>3, <3>2, Apart
        <4>2. entries[id].rt.status = "paused"
          BY <2>2, <4>1 DEF HeldAt
        <4>3. After[id] = [entries[id] EXCEPT !.item = call.item]
          BY <2>2, <3>2, <4>1, <4>2 DEF Changed
        <4>4. After[id].rt = entries[id].rt
          BY <4>1, <4>3 DEF GoodEntry
        <4> QED BY <4>1, <4>2, <4>4
      <3> QED BY <3>1, <3>2
    <2> QED BY <1>1, <2>1, <2>2, <2>3, <2>4, StaysHeld
  <1>6. CASE ChangeStatus
    <2>1. /\ call # None /\ Accepted /\ call.op \in {"pause", "resume"}
          /\ phase = "up" /\ phase' = "up" /\ Saves(After) /\ file' = file
      BY <1>6, StatusIs
    <2>2. /\ After \in Table /\ call.id \in Ids /\ (id # call.id => After[id] = entries[id])
          /\ After[call.id] = Changed(entries[call.id])
          /\ entries[call.id] \in GoodEntry /\ After[call.id] \in GoodEntry
      BY <1>1, <2>1, AfterIs
    <2>3. CASE id # call.id
      <3>1. HeldAt(id)
        BY <1>2, <1>6, <2>3, StatusIs
      <3> QED BY <1>1, <2>1, <2>2, <2>3, <3>1, StaysHeld DEF HeldAt
    <2>4. CASE id = call.id
      <3>1. entries' = After /\ blob' = RuntimesOf(After) /\ call.op = "pause"
        BY <1>6, <2>4, StatusIs
      <3>2. PICK e : e = entries[id]
        OBVIOUS
      <3>3. After[id] = [e EXCEPT !.rt.status = "paused"] /\ e \in GoodEntry
        BY <2>2, <2>4, <3>1, <3>2 DEF Changed
      <3>4. After[id].rt.status = "paused"
        BY <3>3 DEF GoodEntry, Runtime
      <3>5. entries'[id] # None /\ blob'[id] = After[id].rt /\ blob'[id] # None
        BY <2>2, <2>4, <3>1, RecordsOf, Apart
      <3>6. entries'[id] = After[id]
        BY <3>1
      <3> QED BY <3>4, <3>5, <3>6 DEF HeldAt, PausedInBlob
    <2> QED BY <2>3, <2>4
  <1>7. CASE \E i \in Ids : Trigger(i)
    <2>1. PICK i \in Ids : Trigger(i)
      BY <1>7
    <2>2. id # i /\ HeldAt(id) /\ phase = "up" /\ phase' = "up" /\ entries'[id] = entries[id]
          /\ Saves(entries') /\ entries' \in Table
      BY <1>1, <1>2, <2>1, TriggerIs DEF Trigger
    <2> QED BY <1>1, <2>2, StaysHeld DEF HeldAt
  <1>8. CASE (Boot \/ Reload) /\ file # Torn
    <2>1. ~ wiped /\ HeldAt(id) /\ Saves(entries') /\ entries' \in Table
      BY <1>2, <1>8, LoadIs DEF Forget
    <2>2. /\ Keeps(entries')
          /\ file' = file \/ file' = ItemsOf(entries') \/ file' = Torn
      BY <2>1, WrittenIs DEF Saves
    <2>3. CASE file[id] = None
      <3>1. entries'[id] = None
        BY <1>1, <1>8, <2>3, LoadIs
      <3>2. file' # Torn => file'[id] = None
        BY <1>1, <2>1, <2>2, <2>3, <3>1, RecordsOf
      <3> QED BY <3>1, <3>2 DEF HeldAt, InFile
    <2>4. CASE file[id] # None
      <3>1. PausedInBlob(id)
        BY <1>8, <2>1, <2>4 DEF HeldAt, InFile
      <3>2. entries'[id] \in GoodEntry /\ entries'[id].rt.status = "paused"
        BY <1>1, <1>8, <2>4, <3>1, LoadIs DEF PausedInBlob
      <3>3. entries'[id] # None /\ RuntimesOf(entries')[id] = entries'[id].rt
            /\ entries'[id].rt # None
        BY <1>1, <2>1, <3>2, RecordsOf, Apart
      <3>4. wiped' \/ (blob'[id] # None /\ blob'[id].status = "paused")
        BY <2>2, <3>1, <3>2, <3>3 DEF PausedInBlob, Keeps
      <3> QED BY <3>2, <3>3, <3>4 DEF HeldAt, PausedInBlob
    <2> QED BY <2>3, <2>4
  <1>9. CASE Boot /\ file = Torn
    BY <1>2, <1>9, FailedIs DEF HeldAt, InFile, PausedInBlob, hist
  <1>10. CASE HandleTimeSync
    <2>1. HeldAt(id) /\ phase = "up" /\ phase' = "up"
      BY <1>2, <1>10, SyncIs DEF HandleTimeSync, hist
    <2>2. PICK new \in Table :
            /\ Saves(new)
            /\ IF entries[id] = None THEN new[id] = None
               ELSE new[id] = Rebased(entries[id]) /\ new[id] \in GoodEntry
      BY <1>1, <1>10, SyncIs
    <2>3. entries[id] # None => new[id].rt.status = "paused"
      <3>1. clock \in Nat
        BY DEF TypeInv
      <3> QED BY <1>3, <2>1, <2>2, <3>1, RebasedIs DEF HeldAt
    <2> QED BY <1>1, <2>1, <2>2, <2>3, StaysHeld, Apart
  <1>11. CASE Cut \/ CutInCommit \/ CutInBoot
    <2>1. phase' = "off" /\ UNCHANGED <<blob, wiped>>
      BY <1>11, CutIs
    <2>2. CASE CutInCommit
      <3>1. /\ phase = "up" /\ call # None /\ Accepted /\ ~ CutInBoot
            /\ file' = file \/ file' = Torn \/ file' = ItemsOf(After)
            /\ held' = IF call.op = "update" THEN held ELSE held \ {call.id}
            /\ entries' = [i \in Ids |-> None]
        BY <2>2, CutIs DEF CutInBoot
      <3>2. HeldAt(id) /\ (id = call.id => call.op = "update")
        BY <1>2, <3>1
      <3>3. /\ After \in Table /\ (id # call.id => After[id] = entries[id])
            /\ id = call.id => entries[id] # None
        BY <1>1, <3>1, <3>2, AfterIs, Apart
      <3>4. entries[id] = None => After[id] = None
        BY <3>3
      <3>5. InFile(id)' => wiped \/ PausedInBlob(id)
        BY <1>1, <3>1, <3>2, <3>3, <3>4, RecordsOf DEF HeldAt, InFile
      <3> QED BY <1>1, <2>1, <3>1, <3>5 DEF HeldAt, PausedInBlob
    <2>3. CASE ~ CutInCommit
      <3>1. HeldAt(id) /\ (file' = file \/ file' = Torn)
            /\ (entries' = entries \/ entries' = [i \in Ids |-> None])
        BY <1>2, <1>11, <2>3, CutIs
      <3> QED BY <1>1, <2>1, <3>1 DEF HeldAt, InFile, PausedInBlob
    <2> QED BY <2>2, <2>3
  <1>12. CASE UNCHANGED <<entries, valid, phase, file, blob, wiped, hist>>
    BY <1>2, <1>12 DEF HeldAt, InFile, PausedInBlob, hist
  <1> QED BY <1>4, <1>5, <1>6, <1>7, <1>8, <1>9, <1>10, <1>11, <1>12, NextIs

\* A pause that was acknowledged holds over passes, updates, time syncs,
\* reloads, failed writes and power cuts, until a caller enables, disables,
\* removes or triggers the entry, or it is loaded from an erased flash.
THEOREM PausedStaysPaused == Spec => []HeldStaysPaused
  <1>1. Init => HeldInv
    BY DEF Init, HeldInv
  <1>2. TypeInv /\ HeldInv /\ [Next]_vars => HeldInv'
    BY HeldStep
  <1>3. HeldInv => HeldStaysPaused
    BY DEF HeldInv, HeldAt, HeldStaysPaused
  <1> QED BY <1>1, <1>2, <1>3, TypeHolds, PTL DEF Spec

-----------------------------------------------------------------------------
(* The run counts.  What the task published is counted in memory and in the  *)
(* blob, up to the passes whose state was not saved (slips), or the flash    *)
(* was erased since, and then the next load counts anew; an id whose record  *)
(* is only in the file was never published.                                  *)

CountAt(id) ==
    /\ entries[id] # None => sent[id] <= entries[id].rt.runs + slips
    /\ entries[id] # None \/ InFile(id) => wiped \/ sent[id] <= RunsInBlob(blob[id]) + slips
    /\ phase = "up" /\ entries[id] = None /\ InFile(id) => sent[id] = 0

CountInv == \A id \in Ids : CountAt(id)

LEMMA RunsInBlobIs ==
    ASSUME NEW bs \in Blobs, NEW id \in Ids
    PROVE  RunsInBlob(bs[id]) \in Nat /\ (bs[id] # None => RunsInBlob(bs[id]) = bs[id].runs)
  BY DEF Blobs, Runtime, RunsInBlob

\* A step that publishes nothing and takes no run from an entry.
LEMMA StaysCounted ==
    ASSUME TypeInv, NEW new \in Table, Saves(new), NEW id \in Ids, CountAt(id),
           phase = "up", UNCHANGED <<phase, slips>>, sent'[id] = sent[id],
           IF entries[id] = None THEN new[id] = None
           ELSE new[id] # None /\ new[id].rt.runs >= entries[id].rt.runs
    PROVE  CountAt(id)'
  <1>1. /\ entries' = entries \/ entries' = new
        /\ Keeps(new)
        /\ file' = file \/ file' = ItemsOf(new) \/ file' = Torn
    BY WrittenIs DEF Saves
  <1>2. /\ blob \in Blobs /\ blob' \in Blobs /\ sent[id] \in Nat /\ slips \in Nat
        /\ entries \in Table
    BY SavesType DEF TypeInv
  <1>3. RunsInBlob(blob[id]) \in Nat /\ RunsInBlob(blob'[id]) \in Nat
    BY <1>2, RunsInBlobIs
  <1>4. CASE entries[id] = None
    <2>1. entries'[id] = None
      BY <1>1, <1>4
    <2>2. file' # Torn /\ file'[id] # None => InFile(id)
      BY <1>1, <1>4, RecordsOf DEF InFile
    <2>3. InFile(id)' => sent'[id] = 0
      BY <1>4, <2>2 DEF CountAt, InFile
    <2> QED BY <1>2, <1>3, <2>1, <2>3 DEF CountAt
  <1>5. CASE entries[id] # None
    <2>1. /\ new[id] \in GoodEntry /\ new[id] # None /\ entries[id] \in GoodEntry
          /\ RuntimesOf(new)[id] = new[id].rt /\ new[id].rt # None
      BY <1>2, <1>5, RecordsOf, Apart DEF Table
    <2>2. /\ new[id].rt.runs \in Nat /\ entries[id].rt.runs \in Nat
          /\ sent[id] <= entries[id].rt.runs + slips
          /\ wiped \/ sent[id] <= RunsInBlob(blob[id]) + slips
      BY <1>5, <2>1 DEF GoodEntry, Runtime, CountAt
    <2>3. sent[id] <= new[id].rt.runs + slips
      BY <1>2, <1>5, <2>2
    <2>4. entries'[id] # None /\ sent[id] <= entries'[id].rt.runs + slips
      BY <1>1, <1>5, <2>2, <2>3
    <2>5. wiped' \/ sent[id] <= RunsInBlob(blob'[id]) + slips
      <3>1. RunsInBlob(RuntimesOf(new)[id]) = new[id].rt.runs
        BY <2>1 DEF RunsInBlob
      <3> QED BY <1>1, <2>2, <2>3, <3>1 DEF Keeps
    <2> QED BY <2>4, <2>5 DEF CountAt
  <1> QED BY <1>4, <1>5

\* A pass counts what it publishes, or slips.
LEMMA PassCounts ==
    ASSUME TypeInv, Pass, NEW id \in Ids, CountAt(id)
    PROVE  CountAt(id)'
  <1>1. /\ entries' \in Table /\ Saves(entries') /\ sample \in Nat
        /\ phase = "up" /\ UNCHANGED <<phase, file>>
    BY PassIs DEF Pass
  <1>2. /\ blob \in Blobs /\ blob' \in Blobs /\ sent[id] \in Nat /\ slips \in Nat
        /\ entries \in Table /\ valid \in BOOLEAN
    BY <1>1, SavesType DEF TypeInv
  <1>3. RunsInBlob(blob[id]) \in Nat /\ RunsInBlob(blob'[id]) \in Nat
    BY <1>2, RunsInBlobIs
  <1>4. CASE entries[id] = None
    <2>1. entries'[id] = None /\ sent'[id] = sent[id]
      BY <1>4, PassIs
    <2>2. blob'[id] = blob[id] \/ blob'[id] = None \/ RunsInBlob(blob'[id]) \in Nat
      BY <1>3
    <2>3. InFile(id) => sent[id] = 0
      BY <1>1, <1>4 DEF CountAt
    <2>4. slips' \in Nat
      BY <1>2, PassIs
    <2> QED BY <1>1, <1>3, <2>1, <2>3, <2>4 DEF CountAt, InFile
  <1>5. CASE entries[id] # None
    <2>1. entries[id] \in GoodEntry
      BY <1>2, <1>5 DEF Table
    <2>2. PICK n \in {0, 1} : /\ sent'[id] = sent[id] + n
                              /\ entries'[id] \in GoodEntry
                              /\ entries'[id].rt.runs = entries[id].rt.runs + n
      <3>1. CASE entries'[id] = entries[id] /\ sent'[id] = sent[id]
        <4>1. entries[id].rt.runs \in Nat
          BY <2>1 DEF GoodEntry, Runtime
        <4>2. /\ sent'[id] = sent[id] + 0 /\ entries'[id] \in GoodEntry
              /\ entries'[id].rt.runs = entries[id].rt.runs + 0
          BY <1>2, <2>1, <3>1, <4>1
        <4> QED BY <4>2
      <3>2. CASE entries'[id] = Missed(entries[id], sample) /\ sent'[id] = sent[id]
        <4>1. entries[id].rt.runs \in Nat
          BY <2>1 DEF GoodEntry, Runtime
        <4>2. entries'[id] \in GoodEntry /\ entries'[id].rt.runs = entries[id].rt.runs
          BY <1>1, <1>2, <2>1, <3>2, RefreshIs DEF Missed
        <4> QED BY <1>2, <3>2, <4>1, <4>2
      <3>3. ASSUME NEW ok \in BOOLEAN, Due(entries[id], sample),
                   entries'[id] = Published(entries[id], ok, entries[id].rt.next, sample),
                   sent'[id] = sent[id] + Taken(ok)
            PROVE  /\ Taken(ok) \in {0, 1} /\ sent'[id] = sent[id] + Taken(ok)
                   /\ entries'[id] \in GoodEntry
                   /\ entries'[id].rt.runs = entries[id].rt.runs + Taken(ok)
        <4>1. Taken(ok) \in {0, 1}
          BY DEF Taken
        <4>2. entries[id].rt.next \in Nat
          BY <2>1, <3>3 DEF Due, GoodEntry, Runtime
        <4>3. PICK e, p : e = entries[id] /\ p = entries'[id]
          OBVIOUS
        <4>4. e \in GoodEntry /\ e.rt.next \in Nat /\ p = Published(e, ok, e.rt.next, sample)
          BY <2>1, <3>3, <4>2, <4>3
        <4>5. sample \in Nat /\ valid \in BOOLEAN
          BY <1>1, <1>2
        <4>6. PICK planned, now : planned = e.rt.next /\ now = sample
          OBVIOUS
        <4>7. planned \in Nat /\ now \in Nat /\ p = Published(e, ok, planned, now)
          BY <4>4, <4>5, <4>6
        <4>8. p \in GoodEntry /\ p.rt.runs = e.rt.runs + Taken(ok)
          <5>1. e \in GoodEntry /\ valid \in BOOLEAN
            BY <4>4, <4>5
          <5> QED BY <4>7, <5>1, PublishedIs, Z3
        <4> QED BY <3>3, <4>1, <4>3, <4>8
      <3> QED BY <1>5, <3>1, <3>2, <3>3, PassIs
    <2>3. /\ entries[id].rt.runs \in Nat /\ entries'[id] # None /\ entries'[id].rt.runs \in Nat
          /\ sent[id] <= entries[id].rt.runs + slips
          /\ wiped \/ sent[id] <= RunsInBlob(blob[id]) + slips
      BY <1>5, <2>1, <2>2, Apart DEF GoodEntry, Runtime, CountAt
    <2>4. CASE blob' = RuntimesOf(entries') /\ slips' = slips
      <3>1. sent'[id] <= entries'[id].rt.runs + slips
        BY <1>2, <2>2, <2>3
      <3>2. RuntimesOf(entries')[id] = entries'[id].rt /\ entries'[id].rt # None
        BY <1>1, <2>2, <2>3, RecordsOf, Apart
      <3>3. RunsInBlob(blob'[id]) = entries'[id].rt.runs
        BY <2>4, <3>2 DEF RunsInBlob
      <3> QED BY <2>3, <2>4, <3>1, <3>3 DEF CountAt
    <2>5. CASE slips' = slips + 1
      <3>1. sent'[id] <= entries'[id].rt.runs + slips'
        BY <1>2, <2>2, <2>3, <2>5
      <3>2. Keeps(entries')
        BY <1>1 DEF Saves
      <3>3. RuntimesOf(entries')[id] = entries'[id].rt /\ entries'[id].rt # None
        BY <1>1, <2>2, <2>3, RecordsOf, Apart
      <3>4. blob' = RuntimesOf(entries') => RunsInBlob(blob'[id]) = entries'[id].rt.runs
        BY <3>3 DEF RunsInBlob
      <3>5. wiped' \/ sent'[id] <= RunsInBlob(blob'[id]) + slips'
        BY <1>2, <1>3, <2>2, <2>3, <2>5, <3>1, <3>2, <3>4 DEF Keeps
      <3> QED BY <2>3, <3>1, <3>5 DEF CountAt
    <2>6. CASE UNCHANGED <<blob, wiped, slips, sent, entries>>
      BY <1>1, <1>5, <2>6 DEF CountAt, InFile
    <2> QED BY <2>4, <2>5, <2>6, PassIs
  <1> QED BY <1>4, <1>5

LEMMA CountStep ==
    ASSUME TypeInv, CountInv, [Next]_vars
    PROVE  CountInv'
  <1> SUFFICES ASSUME NEW id \in Ids PROVE CountAt(id)'
    BY DEF CountInv
  <1>1. CountAt(id)
    BY DEF CountInv
  <1>2. /\ entries \in Table /\ blob \in Blobs /\ sent[id] \in Nat /\ slips \in Nat
        /\ entries[id] # None => entries[id] \in GoodEntry /\ entries[id].rt.runs \in Nat
    BY DEF TypeInv, Table, GoodEntry, Runtime
  <1>3. RunsInBlob(blob[id]) \in Nat
    BY <1>2, RunsInBlobIs
  <1>4. CASE Pass
    BY <1>1, <1>4, PassCounts
  <1>5. CASE ChangeDefinition
    <2>1. /\ call # None /\ Accepted /\ call.op \notin {"pause", "resume"}
          /\ phase = "up" /\ UNCHANGED <<phase, slips>> /\ Saves(After) /\ sent' = Counted
      BY <1>5, CommitIs
    <2>2. /\ After \in Table /\ call.id \in Ids /\ call.op \in Ops
          /\ id # call.id => After[id] = entries[id]
          /\ After[call.id] = Changed(entries[call.id])
          /\ call.op = "add" => entries[call.id] = None /\ After[call.id] \in GoodEntry
          /\ call.op = "remove" => After[call.id] = None
          /\ call.op \notin {"add", "remove"} => After[call.id] \in GoodEntry
      BY <1>1, <2>1, AfterIs
    <2>3. CASE id # call.id
      <3>1. sent'[id] = sent[id]
        BY <2>1, <2>3 DEF Counted, TypeInv
      <3> QED BY <1>1, <1>2, <2>1, <2>2, <2>3, <3>1, StaysCounted
    <2>4. CASE id = call.id /\ call.op = "add"
      <3>1. sent'[id] = 0 /\ slips' \in Nat
        BY <1>2, <2>1, <2>4 DEF Counted, TypeInv
      <3>2. blob' \in Blobs /\ entries' \in Table
        BY <2>1, <2>2, SavesType
      <3>3. RunsInBlob(blob'[id]) \in Nat
        BY <3>2, RunsInBlobIs
      <3>4. entries'[id] # None => entries'[id].rt.runs \in Nat
        BY <3>2 DEF Table, GoodEntry, Runtime
      <3> QED BY <3>1, <3>3, <3>4 DEF CountAt
    <2>5. CASE id = call.id /\ call.op = "remove"
      <3>1. sent'[id] = sent[id] /\ After[id] = None
        BY <2>1, <2>2, <2>5 DEF Counted
      <3>2. CASE entries' = After /\ file' = ItemsOf(After)
        <4>1. entries'[id] = None /\ file'[id] = None
          BY <2>2, <3>1, <3>2, RecordsOf
        <4> QED BY <4>1 DEF CountAt, InFile
      <3>3. CASE entries' = entries /\ (UNCHANGED <<blob, wiped>> \/ wiped')
        <4>1. entries[id] # None
          BY <2>1, <2>5 DEF Accepted
        <4> QED BY <1>1, <2>1, <3>1, <3>3, <4>1 DEF CountAt
      <3> QED BY <1>5, <3>2, <3>3, CommitIs
    <2>6. CASE id = call.id /\ call.op \notin {"add", "remove"}
      <3>1. sent'[id] = sent[id] /\ entries[id] # None /\ After[id] \in GoodEntry
        BY <2>1, <2>2, <2>6 DEF Counted, Accepted
      <3>2. PICK e, q : e = entries[id] /\ q = After[id]
        OBVIOUS
      <3>3. e \in GoodEntry /\ q = Changed(e) /\ call.op \in Ops \ {"add", "remove"}
        BY <1>2, <2>2, <2>6, <3>1, <3>2
      <3>4. call.now \in Nat /\ valid \in BOOLEAN
        BY <2>1, AfterIs DEF TypeInv
      <3>5. call.op = "update" => call.item \in GoodItem
        BY <2>1, DefinitionsAreGood DEF TypeInv, Calls
      <3>6. q.rt.runs = e.rt.runs
        BY <3>3, <3>4, <3>5, ChangedIs
      <3>7. After[id] # None /\ After[id].rt.runs >= entries[id].rt.runs
        BY <1>2, <3>1, <3>2, <3>6, Apart
      <3> QED BY <1>1, <2>1, <2>2, <3>1, <3>7, StaysCounted
    <2> QED BY <2>3, <2>4, <2>5, <2>6
  <1>6. CASE ChangeStatus
    <2>1. /\ call # None /\ Accepted /\ call.op \in {"pause", "resume"}
          /\ phase = "up" /\ UNCHANGED <<phase, sent, slips>> /\ Saves(After)
      BY <1>6, StatusIs
    <2>2. /\ After \in Table /\ call.id \in Ids
          /\ id # call.id => After[id] = entries[id]
          /\ After[call.id] = Changed(entries[call.id])
          /\ entries[call.id] \in GoodEntry /\ After[call.id] \in GoodEntry
      BY <1>1, <2>1, AfterIs
    <2>3. CASE id # call.id
      BY <1>1, <1>2, <2>1, <2>2, <2>3, StaysCounted
    <2>4. CASE id = call.id
      <3>1. PICK e, q : e = entries[id] /\ q = After[id]
        OBVIOUS
      <3>2. e \in GoodEntry /\ q = Changed(e) /\ call.op \in Ops \ {"add", "remove"}
            /\ call.op # "update"
        BY <2>1, <2>2, <2>4, <3>1 DEF Ops
      <3>3. call.now \in Nat /\ valid \in BOOLEAN
        BY <2>1, AfterIs DEF TypeInv
      <3>4. q.rt.runs = e.rt.runs
        BY <3>2, <3>3, ChangedIs
      <3>5. entries[id] # None /\ After[id] # None /\ After[id].rt.runs >= entries[id].rt.runs
        BY <1>2, <2>2, <2>4, <3>1, <3>4, Apart
      <3> QED BY <1>1, <2>1, <2>2, <3>5, StaysCounted
    <2> QED BY <2>3, <2>4
  <1>7. CASE \E i \in Ids : Trigger(i)
    <2>1. PICK i \in Ids : Trigger(i)
      BY <1>7
    <2>2. /\ Saves(entries') /\ entries' \in Table /\ UNCHANGED <<phase, sent, slips>>
          /\ phase = "up" /\ (id # i => entries'[id] = entries[id])
          /\ id = i => /\ entries[id] # None /\ entries'[id] # None
                      /\ entries'[id].rt.runs >= entries[id].rt.runs
      BY <2>1, TriggerIs, Apart DEF Trigger
    <2> QED BY <1>1, <1>2, <2>2, StaysCounted
  <1>8. CASE (Boot \/ Reload) /\ file # Torn
    <2>1. Saves(entries') /\ entries' \in Table /\ Forget /\ phase' = "up"
      BY <1>8, LoadIs
    <2>2. /\ Keeps(entries')
          /\ file' = file \/ file' = ItemsOf(entries') \/ file' = Torn
      BY <2>1, WrittenIs DEF Saves
    <2>3. CASE file[id] = None
      <3>1. entries'[id] = None
        BY <1>8, <2>3, LoadIs
      <3>2. file' # Torn => file'[id] = None
        BY <2>1, <2>2, <2>3, <3>1, RecordsOf
      <3> QED BY <3>1, <3>2 DEF CountAt, InFile
    <2>4. CASE file[id] # None
      <3>1. PICK n \in Nat : n = RunsInBlob(blob[id])
        BY <1>3
      <3>2. sent'[id] \in Nat /\ slips' = slips /\ sent'[id] <= n + slips
        <4>1. CASE wiped
          <5>1. sent'[id] = 0 /\ slips' = slips
            BY <2>1, <4>1 DEF Forget
          <5> QED BY <1>2, <5>1
        <4>2. CASE ~ wiped
          <5>1. sent' = sent /\ slips' = slips
            BY <2>1, <4>2 DEF Forget
          <5> QED BY <1>1, <1>2, <1>8, <2>4, <3>1, <4>2, <5>1 DEF CountAt, InFile
        <4> QED BY <4>1, <4>2
      <3>3. entries'[id] \in GoodEntry /\ entries'[id].rt.runs = n
        BY <1>8, <2>4, <3>1, LoadIs
      <3>4. entries'[id] # None /\ RuntimesOf(entries')[id] = entries'[id].rt
            /\ entries'[id].rt # None
        BY <2>1, <3>3, RecordsOf, Apart
      <3>5. wiped' \/ RunsInBlob(blob'[id]) = n
        BY <2>2, <3>1, <3>3, <3>4 DEF RunsInBlob, Keeps
      <3> QED BY <2>1, <3>2, <3>3, <3>4, <3>5 DEF CountAt
    <2> QED BY <2>3, <2>4
  <1>9. CASE Boot /\ file = Torn
    BY <1>1, <1>9, FailedIs DEF CountAt, InFile, hist
  <1>10. CASE HandleTimeSync
    <2>1. UNCHANGED <<phase, sent, slips>> /\ phase = "up"
      BY <1>10, SyncIs DEF HandleTimeSync, hist
    <2>2. PICK new \in Table :
            /\ Saves(new)
            /\ IF entries[id] = None THEN new[id] = None
               ELSE new[id] = Rebased(entries[id]) /\ new[id] \in GoodEntry
      BY <1>10, SyncIs
    <2>3. entries[id] # None => new[id] # None /\ new[id].rt.runs >= entries[id].rt.runs
      <3>1. clock \in Nat
        BY DEF TypeInv
      <3> QED BY <1>2, <2>2, <3>1, RebasedIs, Apart
    <2> QED BY <1>1, <2>1, <2>2, <2>3, StaysCounted
  <1>11. CASE Cut \/ CutInCommit \/ CutInBoot
    <2>1. phase' = "off" /\ UNCHANGED <<blob, wiped, slips>>
      BY <1>11, CutIs
    <2>2. CASE CutInCommit
      <3>1. /\ phase = "up" /\ call # None /\ Accepted /\ ~ CutInBoot
            /\ call.op \notin {"pause", "resume"} /\ sent' = Counted
            /\ file' = file \/ file' = Torn \/ file' = ItemsOf(After)
            /\ entries' = [i \in Ids |-> None]
        BY <2>2, CutIs DEF CutInBoot
      <3>2. CASE id = call.id /\ call.op = "add"
        <4>1. sent'[id] = 0
          BY <3>1, <3>2 DEF Counted, TypeInv
        <4> QED BY <1>2, <1>3, <2>1, <3>1, <4>1 DEF CountAt
      <3>3. CASE ~ (id = call.id /\ call.op = "add")
        <4>1. sent'[id] = sent[id]
          BY <3>1, <3>3 DEF Counted, TypeInv
        <4>2. /\ After \in Table
              /\ id = call.id => entries[id] # None
              /\ id # call.id => After[id] = entries[id]
          BY <3>1, <3>3, AfterIs, Apart
        <4>3. InFile(id)' => entries[id] # None \/ InFile(id)
          BY <3>1, <4>2, RecordsOf DEF InFile
        <4> QED BY <1>1, <2>1, <3>1, <4>1, <4>3 DEF CountAt
      <3> QED BY <3>2, <3>3
    <2>3. CASE ~ CutInCommit
      <3>1. (file' = file \/ file' = Torn) /\ sent' = sent
            /\ (entries' = entries \/ entries' = [i \in Ids |-> None])
        BY <1>11, <2>3, CutIs
      <3> QED BY <1>1, <2>1, <3>1 DEF CountAt, InFile
    <2> QED BY <2>2, <2>3
  <1>12. CASE UNCHANGED <<entries, valid, phase, file, blob, wiped, hist>>
    BY <1>1, <1>12 DEF CountAt, InFile, hist
  <1> QED BY <1>4, <1>5, <1>6, <1>7, <1>8, <1>9, <1>10, <1>11, <1>12, NextIs

-----------------------------------------------------------------------------
(* What is armed.  Every item is one of the definitions of its id, but for   *)
(* the enabled flag, and its limit one the id was given.  An entry that is   *)
(* armed has a run left: within the limit of its item, but for a paused one, *)
(* whose item an update may have changed, and one in error, which            *)
(* trigger_now may have armed so; those have one left within a limit the id  *)
(* was given.  And none needs the time while that is unknown (Unarmed).      *)

Defined(id) == {[d EXCEPT !.enabled = on] : d \in Definitions[id], on \in BOOLEAN}
RoomIn(given, rt) == rt.next > 0 => \E max \in given : max = 0 \/ rt.runs < max

Fit(e, id, known, given) ==
    /\ e.item \in Defined(id) /\ e.item.max_runs \in given
    /\ e.rt.status \notin {"paused", "error"} => Room(e.item, e.rt)
    /\ RoomIn(given, e.rt)
    /\ Unarmed(e, known)

FitAt(id) ==
    /\ entries[id] # None => Fit(entries[id], id, valid, limits[id])
    /\ InFile(id) => file[id] \in Defined(id) /\ file[id].max_runs \in limits[id]
    /\ blob[id] # None => RoomIn(limits[id], blob[id])

FitInv == \A id \in Ids : FitAt(id)

\* More limits leave more room.
LEMMA FitGrows ==
    ASSUME NEW id, NEW e, NEW known, NEW given, NEW more, given \subseteq more
    PROVE  /\ Fit(e, id, known, given) => Fit(e, id, known, more)
           /\ \A rt : RoomIn(given, rt) => RoomIn(more, rt)
  BY DEF Fit, RoomIn

LEMMA RoomMeansRoomIn ==
    ASSUME NEW item, NEW rt, NEW given, item.max_runs \in given, Room(item, rt)
    PROVE  RoomIn(given, rt)
  BY DEF Room, RoomIn

LEMMA DefinedIs ==
    ASSUME NEW id \in Ids, NEW item \in Defined(id)
    PROVE  /\ item \in GoodItem
           /\ \A on \in BOOLEAN : [item EXCEPT !.enabled = on] \in Defined(id)
           /\ \E d \in Definitions[id] : d \in Item /\ item.max_runs = d.max_runs
                                        /\ item.kind = d.kind /\ item.cron = d.cron
  <1>1. \A d \in Definitions[id] : d \in GoodItem /\ d \in Item
    BY DefinitionsAreGood DEF GoodItem
  <1>2. ASSUME NEW d \in Definitions[id], NEW b \in BOOLEAN, NEW x, x = [d EXCEPT !.enabled = b]
        PROVE  /\ x \in GoodItem /\ x.max_runs = d.max_runs /\ x.kind = d.kind /\ x.cron = d.cron
               /\ \A on \in BOOLEAN : [x EXCEPT !.enabled = on] = [d EXCEPT !.enabled = on]
    BY <1>1, <1>2 DEF GoodItem, Item
  <1>3. PICK d \in Definitions[id], b \in BOOLEAN : item = [d EXCEPT !.enabled = b]
    BY DEF Defined
  <1>4. /\ item \in GoodItem /\ item.max_runs = d.max_runs /\ item.kind = d.kind
        /\ item.cron = d.cron
        /\ \A on \in BOOLEAN : [item EXCEPT !.enabled = on] = [d EXCEPT !.enabled = on]
    BY <1>2, <1>3
  <1>5. \A on \in BOOLEAN : [item EXCEPT !.enabled = on] \in Defined(id)
    BY <1>4 DEF Defined
  <1> QED BY <1>1, <1>4, <1>5

\* What a refresh makes of an entry that is not paused.
LEMMA FitRefresh ==
    ASSUME NEW id \in Ids, NEW e \in GoodEntry, e.item \in Defined(id), e.rt.status # "paused",
           NEW given, e.item.max_runs \in given,
           NEW now \in Nat, NEW known \in BOOLEAN, NEW p, p = Refresh(e, now, known)
    PROVE  Fit(p, id, known, given)
  <1>1. /\ p.item = e.item /\ Unarmed(p, known)
        /\ p.rt.status = "paused" => p = e
        /\ p.rt.status # "paused" => Room(e.item, p.rt)
    BY RefreshIs
  <1>2. Room(e.item, p.rt)
    BY <1>1
  <1>3. RoomIn(given, p.rt)
    BY <1>2, RoomMeansRoomIn
  <1> QED BY <1>1, <1>2, <1>3 DEF Fit

LEMMA FitPublished ==
    ASSUME NEW id \in Ids, NEW e \in GoodEntry, NEW given, Fit(e, id, valid, given),
           NEW p, p.item = e.item, Unarmed(p, valid),
           \/ Room(e.item, p.rt)
           \/ p.rt.status = "error" /\ p.rt.next = e.rt.next /\ p.rt.runs = e.rt.runs
    PROVE  Fit(p, id, valid, given)
  <1>1. e.item.max_runs \in given /\ RoomIn(given, e.rt)
    BY DEF Fit
  <1>2. RoomIn(given, p.rt)
    <2>1. CASE Room(e.item, p.rt)
      BY <1>1, <2>1, RoomMeansRoomIn
    <2>2. CASE p.rt.next = e.rt.next /\ p.rt.runs = e.rt.runs
      BY <1>1, <2>2 DEF RoomIn
    <2> QED BY <2>1, <2>2
  <1> QED BY <1>2 DEF Fit

\* What a call makes of its entry.
LEMMA FitChanged ==
    ASSUME TypeInv, FitInv, call # None, Accepted, NEW id \in Ids, After[id] # None
    PROVE  Fit(After[id], id, valid, Limited[id])
  <1>1. /\ After \in Table /\ call.id \in Ids /\ call.op \in Ops /\ call.now \in Nat
        /\ id # call.id => After[id] = entries[id]
        /\ After[call.id] = Changed(entries[call.id])
        /\ call.op = "remove" => After[call.id] = None
        /\ call.op # "add" => entries[call.id] \in GoodEntry
    BY AfterIs
  <1>2. valid \in BOOLEAN
    BY DEF TypeInv
  <1>3. call.op \in {"add", "update"} =>
          /\ call.item \in Definitions[call.id] /\ call.item \in GoodItem
          /\ call.item \in Defined(call.id)
    <2> SUFFICES ASSUME call.op \in {"add", "update"}
                 PROVE  /\ call.item \in Definitions[call.id] /\ call.item \in GoodItem
                        /\ call.item \in Defined(call.id)
      OBVIOUS
    <2>1. call.item \in Definitions[call.id] /\ call.item \in GoodItem
      BY <1>1, DefinitionsAreGood DEF TypeInv
    <2>2. PICK d : d = call.item
      OBVIOUS
    <2>3. d.enabled \in BOOLEAN /\ d = [d EXCEPT !.enabled = d.enabled]
      BY <2>1, <2>2 DEF GoodItem, Item
    <2>4. d \in Defined(call.id)
      BY <2>1, <2>2, <2>3 DEF Defined
    <2> QED BY <2>1, <2>2, <2>4
  <1>7. /\ limits[id] \subseteq Limited[id]
        /\ call.op \in {"add", "update"} => call.item.max_runs \in Limited[call.id]
    BY LimitedIs
  <1>4. CASE id # call.id
    <2>1. Fit(After[id], id, valid, limits[id])
      BY <1>1, <1>4 DEF FitInv, FitAt
    <2> QED BY <1>7, <2>1, FitGrows
  <1>5. CASE id = call.id /\ call.op = "add"
    <2>1. PICK p : p = After[id]
      OBVIOUS
    <2>2. p = Changed(entries[id])
      BY <1>1, <1>5, <2>1
    <2>3. /\ p.item = call.item /\ Room(p.item, p.rt) /\ Unarmed(p, valid)
      BY <1>1, <1>2, <1>3, <1>5, <2>2, AddedIs
    <2>4. p.item.max_runs \in Limited[id]
      BY <1>5, <1>7, <2>3
    <2>5. RoomIn(Limited[id], p.rt)
      BY <2>3, <2>4, RoomMeansRoomIn
    <2> QED BY <1>3, <1>5, <2>1, <2>3, <2>4, <2>5 DEF Fit
  <1>6. CASE id = call.id /\ call.op # "add"
    <2>1. PICK e, p : e = entries[id] /\ p = After[id]
      OBVIOUS
    <2>2. e \in GoodEntry /\ p = Changed(e) /\ call.op \in Ops \ {"add", "remove"}
      BY <1>1, <1>6, <2>1
    <2>3. Fit(e, id, valid, Limited[id])
      <3>1. Fit(e, id, valid, limits[id])
        BY <1>1, <1>6, <2>1, Apart DEF FitInv, FitAt
      <3> QED BY <1>7, <3>1, FitGrows
    <2>4. /\ p.rt.runs = e.rt.runs
          /\ IF call.op = "update" THEN p.item = call.item
             ELSE \E on \in BOOLEAN : p.item = [e.item EXCEPT !.enabled = on]
          /\ p.rt.status = "paused" => p.rt.next = e.rt.next
          /\ p.rt.status # "paused" => Room(p.item, p.rt)
          /\ Unarmed(p, valid)
      BY <1>1, <1>2, <1>3, <2>2, ChangedIs
    <2>5. p.item \in Defined(id) /\ p.item.max_runs \in Limited[id]
      <3>1. CASE call.op = "update"
        BY <1>3, <1>6, <1>7, <2>4, <3>1
      <3>2. CASE call.op # "update"
        <4>1. PICK on \in BOOLEAN : p.item = [e.item EXCEPT !.enabled = on]
          BY <2>4, <3>2
        <4>2. e.item \in Defined(id) /\ e.item.max_runs \in Limited[id]
          BY <2>3 DEF Fit
        <4>3. p.item.max_runs = e.item.max_runs
          BY <2>2, <4>1 DEF GoodEntry, GoodItem, Item
        <4> QED BY <4>1, <4>2, <4>3, DefinedIs
      <3> QED BY <3>1, <3>2
    <2>6. RoomIn(Limited[id], p.rt)
      <3>1. CASE p.rt.status # "paused"
        BY <2>4, <2>5, <3>1, RoomMeansRoomIn
      <3>2. CASE p.rt.status = "paused"
        <4>1. RoomIn(Limited[id], e.rt)
          BY <2>3 DEF Fit
        <4> QED BY <2>4, <3>2, <4>1 DEF RoomIn
      <3> QED BY <3>1, <3>2
    <2> QED BY <2>1, <2>4, <2>5, <2>6 DEF Fit
  <1> QED BY <1>4, <1>5, <1>6

\* A step to a table that fits.
LEMMA FitSaved ==
    ASSUME TypeInv, FitInv, NEW new \in Table, Saves(new), NEW id \in Ids,
           limits[id] \subseteq limits'[id],
           new[id] # None => Fit(new[id], id, valid', limits'[id]),
           entries' = new \/ valid' = valid
    PROVE  FitAt(id)'
  <1>1. FitAt(id)
    BY DEF FitInv
  <1>2. entries'[id] # None => Fit(entries'[id], id, valid', limits'[id])
    <2>1. CASE entries' = new
      BY <2>1
    <2>2. CASE entries' = entries /\ valid' = valid
      BY <1>1, <2>2, FitGrows DEF FitAt
    <2> QED BY <2>1, <2>2 DEF Saves
  <1>3. new[id] # None => /\ new[id] \in GoodEntry /\ ItemsOf(new)[id] = new[id].item
                         /\ RuntimesOf(new)[id] = new[id].rt
                         /\ new[id].item \in Defined(id)
                         /\ new[id].item.max_runs \in limits'[id]
                         /\ RoomIn(limits'[id], new[id].rt)
    BY RecordsOf DEF Fit
  <1>4. new[id] = None => ItemsOf(new)[id] = None /\ RuntimesOf(new)[id] = None
    BY RecordsOf
  <1>5. file' # Torn /\ file'[id] # None
          => file'[id] \in Defined(id) /\ file'[id].max_runs \in limits'[id]
    <2>1. file' = file \/ file' = ItemsOf(new) \/ file' = Torn
      BY WrittenIs DEF Saves
    <2> QED BY <1>1, <1>3, <1>4, <2>1 DEF FitAt, InFile
  <1>6. blob'[id] # None => RoomIn(limits'[id], blob'[id])
    <2>1. blob' = blob \/ blob' = RuntimesOf(new) \/ blob' = NoRecords
      BY DEF Saves, Keeps
    <2>2. blob[id] # None => RoomIn(limits'[id], blob[id])
      BY <1>1, FitGrows DEF FitAt
    <2> QED BY <1>3, <1>4, <2>1, <2>2 DEF NoRecords
  <1> QED BY <1>2, <1>5, <1>6 DEF FitAt, InFile

LEMMA FitPass ==
    ASSUME TypeInv, FitInv, Pass, NEW id \in Ids, entries'[id] # None
    PROVE  Fit(entries'[id], id, valid, limits[id])
  <1>1. entries[id] # None /\ sample \in Nat /\ valid \in BOOLEAN
    BY PassIs DEF TypeInv
  <1>2. PICK e : e = entries[id]
    OBVIOUS
  <1>3. /\ e \in GoodEntry /\ Fit(e, id, valid, limits[id])
        /\ e.item \in Defined(id) /\ e.item.max_runs \in limits[id]
    BY <1>1, <1>2 DEF TypeInv, Table, FitInv, FitAt, Fit
  <1>4. Late(e, sample) => Due(e, sample)
    BY DEF Late
  <1>5. Due(e, sample) => e.rt.status # "paused" /\ e.rt.next \in Nat
    BY <1>3 DEF Due, Watched, GoodEntry, Runtime
  <1>6. CASE Late(e, sample) /\ entries'[id] = Missed(e, sample)
    <2>1. entries'[id] = Refresh(e, sample, valid)
      BY <1>6 DEF Missed
    <2> QED BY <1>1, <1>3, <1>4, <1>5, <1>6, <2>1, FitRefresh
  <1>7. ASSUME NEW ok \in BOOLEAN, Due(e, sample),
               entries'[id] = Published(e, ok, e.rt.next, sample)
        PROVE  Fit(entries'[id], id, valid, limits[id])
    <2>1. PICK p : p = entries'[id]
      OBVIOUS
    <2>2. PICK planned, now : planned = e.rt.next /\ now = sample
      OBVIOUS
    <2>3. planned \in Nat /\ now \in Nat /\ p = Published(e, ok, planned, now)
      BY <1>1, <1>5, <1>7, <2>1, <2>2
    <2>4. /\ p.item = e.item /\ Unarmed(p, valid)
          /\ \/ Room(e.item, p.rt)
             \/ p.rt.status = "error" /\ p.rt.next = e.rt.next /\ p.rt.runs = e.rt.runs
      <3>1. e \in GoodEntry /\ valid \in BOOLEAN
        BY <1>1, <1>3
      <3> QED BY <2>3, <3>1, PublishedIs, Z3
    <2>5. Fit(p, id, valid, limits[id])
      BY <1>3, <2>4, FitPublished
    <2> QED BY <2>1, <2>5
  <1> QED BY <1>1, <1>2, <1>3, <1>6, <1>7, PassIs

LEMMA FitStep ==
    ASSUME TypeInv, FitInv, [Next]_vars
    PROVE  FitInv'
  <1> SUFFICES ASSUME NEW id \in Ids PROVE FitAt(id)'
    BY DEF FitInv
  <1>1. FitAt(id)
    BY DEF FitInv
  <1>2. clock \in Nat /\ valid \in BOOLEAN /\ (entries[id] # None => entries[id] \in GoodEntry)
    BY DEF TypeInv, Table
  <1>3. CASE Pass
    <2>1. entries' \in Table /\ Saves(entries') /\ valid' = valid /\ limits' = limits
      BY <1>3, PassIs DEF Pass
    <2>2. entries'[id] # None => Fit(entries'[id], id, valid', limits'[id])
      BY <1>3, <2>1, FitPass
    <2> QED BY <2>1, <2>2, FitSaved
  <1>4. CASE ChangeDefinition
    <2>1. call # None /\ Accepted /\ Saves(After) /\ valid' = valid /\ limits' = Limited
      BY <1>4, CommitIs
    <2>2. After \in Table /\ (After[id] # None => Fit(After[id], id, valid', limits'[id]))
      BY <2>1, AfterIs, FitChanged
    <2>3. limits[id] \subseteq limits'[id]
      BY <2>1, LimitedIs
    <2> QED BY <2>1, <2>2, <2>3, FitSaved
  <1>5. CASE ChangeStatus
    <2>1. call # None /\ Accepted /\ Saves(After) /\ valid' = valid /\ limits' = limits
          /\ Limited = limits
      BY <1>5, StatusIs DEF Limited
    <2>2. After \in Table /\ (After[id] # None => Fit(After[id], id, valid', limits'[id]))
      BY <2>1, AfterIs, FitChanged
    <2> QED BY <2>1, <2>2, FitSaved
  <1>6. CASE \E i \in Ids : Trigger(i)
    <2>1. PICK i \in Ids : Trigger(i)
      BY <1>6
    <2>2. /\ entries' \in Table /\ Saves(entries') /\ valid' = valid /\ limits' = limits
          /\ id # i => entries'[id] = entries[id]
      BY <2>1, TriggerIs
    <2>3. id = i => Fit(entries'[id], id, valid, limits[id])
      <3> SUFFICES ASSUME id = i PROVE Fit(entries'[id], id, valid, limits[id])
        OBVIOUS
      <3>1. /\ entries[id] \in GoodEntry /\ entries'[id].item = entries[id].item
            /\ \/ Room(entries[id].item, entries'[id].rt)
               \/ /\ entries'[id].rt.status = "error"
                  /\ entries'[id].rt.next = entries[id].rt.next
                  /\ entries'[id].rt.runs = entries[id].rt.runs
            /\ Unarmed(entries'[id], valid)
        BY <2>1, TriggerIs
      <3>2. Fit(entries[id], id, valid, limits[id])
        BY <1>1, <3>1, Apart DEF FitAt
      <3>3. PICK p : p = entries'[id]
        OBVIOUS
      <3>4. Fit(p, id, valid, limits[id])
        BY <3>1, <3>2, <3>3, FitPublished
      <3> QED BY <3>3, <3>4
    <2>4. entries'[id] # None => Fit(entries'[id], id, valid', limits'[id])
      BY <1>1, <2>2, <2>3 DEF FitAt
    <2> QED BY <2>2, <2>4, FitSaved
  <1>7. CASE (Boot \/ Reload) /\ file # Torn
    <2>1. entries' \in Table /\ Saves(entries') /\ valid' = valid /\ limits' = limits
      BY <1>7, LoadIs DEF Forget
    <2>2. ASSUME entries'[id] # None
          PROVE  Fit(entries'[id], id, valid, limits[id])
      <3>1. PICK p : p = entries'[id]
        OBVIOUS
      <3>2. /\ file[id] # None /\ p.item \in Defined(id) /\ p.item.max_runs \in limits[id]
            /\ p.rt.status = "paused" => blob[id] # None /\ p.rt = blob[id]
            /\ p.rt.status # "paused" => Room(p.item, p.rt)
            /\ Unarmed(p, valid)
        BY <1>1, <1>7, <2>2, <3>1, LoadIs DEF FitAt, InFile
      <3>3. Fit(p, id, valid, limits[id])
        <4>1. CASE p.rt.status = "paused"
          BY <1>1, <3>2, <4>1 DEF FitAt, Fit
        <4>2. CASE p.rt.status # "paused"
          <5>1. RoomIn(limits[id], p.rt)
            BY <3>2, <4>2, RoomMeansRoomIn
          <5> QED BY <3>2, <4>2, <5>1 DEF Fit
        <4> QED BY <4>1, <4>2
      <3> QED BY <3>1, <3>3
    <2> QED BY <2>1, <2>2, FitSaved
  <1>8. CASE Boot /\ file = Torn
    BY <1>1, <1>8, FailedIs DEF FitAt, InFile, hist
  <1>9. CASE HandleTimeSync
    <2>1. PICK new \in Table :
            /\ entries' = new /\ Saves(new)
            /\ IF entries[id] = None THEN new[id] = None
               ELSE new[id] = Rebased(entries[id]) /\ new[id] \in GoodEntry
      BY <1>9, SyncIs
    <2>2. valid' = TRUE /\ limits' = limits
      BY <1>9, SyncIs DEF hist
    <2>3. ASSUME new[id] # None
          PROVE  Fit(new[id], id, valid', limits'[id])
      <3>1. PICK e, p, given : e = entries[id] /\ p = new[id] /\ given = limits[id]
        OBVIOUS
      <3>2. e \in GoodEntry /\ Fit(e, id, valid, given) /\ p = Rebased(e)
        BY <1>1, <1>2, <2>1, <2>3, <3>1 DEF FitAt
      <3>3. /\ p.item = e.item /\ p.rt.runs = e.rt.runs
            /\ p.rt.status = "paused" => p.rt.next = e.rt.next \/ p.rt.next = Never
            /\ p.rt.status # "paused" => Room(p.item, p.rt)
        BY <1>2, <3>2, RebasedIs
      <3>4. RoomIn(given, p.rt)
        <4>1. CASE p.rt.status # "paused"
          BY <3>2, <3>3, <4>1, RoomMeansRoomIn DEF Fit
        <4>2. CASE p.rt.status = "paused"
          BY <3>2, <3>3, <4>2 DEF Fit, RoomIn, Never
        <4> QED BY <4>1, <4>2
      <3>5. Unarmed(p, TRUE)
        BY DEF Unarmed
      <3>6. Fit(p, id, TRUE, given)
        BY <3>2, <3>3, <3>4, <3>5 DEF Fit
      <3> QED BY <2>2, <3>1, <3>6
    <2> QED BY <2>1, <2>2, <2>3, FitSaved
  <1>10. CASE Cut \/ CutInCommit \/ CutInBoot
    <2>1. blob' = blob
      BY <1>10, CutIs
    <2>2. limits[id] \subseteq limits'[id]
      BY <1>10, CutIs, LimitedIs
    <2>3. entries'[id] # None => Fit(entries'[id], id, valid', limits'[id])
      <3>1. entries'[id] # None => UNCHANGED <<entries, valid>>
        BY <1>10, CutIs
      <3>2. entries[id] # None => Fit(entries[id], id, valid, limits'[id])
        BY <1>1, <2>2, FitGrows DEF FitAt
      <3> QED BY <3>1, <3>2
    <2>4. blob'[id] # None => RoomIn(limits'[id], blob'[id])
      BY <1>1, <2>1, <2>2, FitGrows DEF FitAt
    <2>5. CASE CutInCommit
      <3>1. /\ call # None /\ Accepted /\ limits' = Limited
            /\ file' = file \/ file' = Torn \/ file' = ItemsOf(After)
        BY <2>5, CutIs
      <3>2. After \in Table /\ (After[id] # None => Fit(After[id], id, valid, Limited[id]))
        BY <3>1, AfterIs, FitChanged
      <3>3. InFile(id)' => file'[id] \in Defined(id) /\ file'[id].max_runs \in limits'[id]
        BY <1>1, <2>2, <3>1, <3>2, RecordsOf DEF InFile, FitAt, Fit
      <3> QED BY <2>3, <2>4, <3>3 DEF FitAt
    <2>6. CASE ~ CutInCommit
      <3>1. file' = file \/ file' = Torn
        BY <1>10, <2>6, CutIs
      <3>2. InFile(id)' => file'[id] \in Defined(id) /\ file'[id].max_runs \in limits'[id]
        BY <1>1, <2>2, <3>1 DEF InFile, FitAt
      <3> QED BY <2>3, <2>4, <3>2 DEF FitAt
    <2> QED BY <2>5, <2>6
  <1>11. CASE UNCHANGED <<entries, valid, phase, file, blob, wiped, hist>>
    BY <1>1, <1>11 DEF FitAt, InFile, hist
  <1> QED BY <1>3, <1>4, <1>5, <1>6, <1>7, <1>8, <1>9, <1>10, <1>11, NextIs

LEMMA FitHolds == Spec => []FitInv
  <1>1. Init => FitInv
    BY DEF Init, FitInv, FitAt, InFile
  <1>2. TypeInv /\ FitInv /\ [Next]_vars => FitInv'
    BY FitStep
  <1> QED BY <1>1, <1>2, TypeHolds, PTL DEF Spec

\* Before the first time sync of a power cycle no entry that needs the real
\* time has a fire time, whatever was saved before the restart and whatever
\* callers ask for; paused entries and failed triggers apart.
THEOREM NeverArmed == Spec => []NeverArmedUnsynced
  <1>1. TypeInv /\ FitInv => NeverArmedUnsynced
    BY DEF FitInv, FitAt, Fit, Unarmed, NeverArmedUnsynced
  <1> QED BY <1>1, FitHolds, TypeHolds, PTL

\* The task publishes an entry at most max_runs times, and once more for each
\* pass whose counts did not reach the flash, over restarts, reloads, updates and
\* erased flashes, however many calls and power cuts there are.
THEOREM RunsAreBounded == Spec => RunsBounded
  <1>1. Init => CountInv
    BY DEF Init, CountInv, CountAt, InFile
  <1>2. TypeInv /\ CountInv /\ [Next]_vars => CountInv'
    BY CountStep
  <1>3. ASSUME TypeInv, CountInv, FitInv, [Next]_vars, NEW id \in Ids, Fires(id)
        PROVE  WithinLimit(id)
    <2>1. sent[id] \in Nat /\ slips \in Nat /\ sent'[id] = sent[id] + 1 /\ sent \in [Ids -> Nat]
      BY <1>3 DEF TypeInv, Fires
    <2>2. Pass
      <3>1. /\ ~ (UNCHANGED sent)
            /\ sent' # Counted
        BY <2>1 DEF Counted
      <3>2. ~ ChangeDefinition /\ ~ ChangeStatus /\ ~ HandleTimeSync
        BY <3>1, CommitIs, StatusIs, SyncIs, <1>3 DEF hist
      <3>3. ~ Forget
        BY <2>1 DEF Forget
      <3>4. ~ (\E i \in Ids : Trigger(i)) /\ ~ Boot /\ ~ Reload
        <4>1. ~ (\E i \in Ids : Trigger(i))
          BY <3>1 DEF Trigger
        <4>2. ~ Boot
          BY <3>1, <3>3 DEF Boot, hist
        <4>3. ~ Reload
          BY <3>1, <3>3 DEF Reload, hist
        <4> QED BY <4>1, <4>2, <4>3
      <3>5. ~ Cut /\ ~ CutInCommit /\ ~ CutInBoot
        BY <3>1 DEF Cut, CutInCommit, CutInBoot, hist
      <3> QED BY <1>3, <3>1, <3>2, <3>4, <3>5, NextIs DEF hist
    <2>3. entries[id] # None /\ Due(entries[id], sample)
      BY <2>1, <2>2, <1>3, PassIs DEF Late
    <2>4. /\ entries[id] \in GoodEntry /\ Fit(entries[id], id, valid, limits[id])
          /\ sent[id] <= entries[id].rt.runs + slips
      BY <1>3, <2>3 DEF TypeInv, Table, FitInv, FitAt, CountInv, CountAt
    <2>5. /\ entries[id].rt.next > 0 /\ entries[id].rt.status # "paused"
          /\ entries[id].rt.runs \in Nat /\ entries[id].item.max_runs \in Nat
          /\ limits[id] \subseteq Nat
      BY <1>3, <2>3, <2>4 DEF Due, Watched, GoodEntry, GoodItem, Item, Runtime, TypeInv
    <2>6. \A max \in Nat : max = 0 \/ entries[id].rt.runs < max => Within(id, max)
      BY <2>1, <2>4, <2>5 DEF Within
    <2>7. CASE entries[id].rt.status = "error"
      <3>1. RoomIn(limits[id], entries[id].rt)
        BY <2>4 DEF Fit
      <3> QED BY <2>5, <2>6, <2>7, <3>1 DEF RoomIn, WithinLimit
    <2>8. CASE entries[id].rt.status # "error"
      <3>1. Room(entries[id].item, entries[id].rt)
        BY <2>4, <2>5, <2>8 DEF Fit
      <3> QED BY <2>5, <2>6, <2>8, <3>1 DEF Room, WithinLimit
    <2> QED BY <2>7, <2>8
  <1>4. TypeInv /\ CountInv /\ FitInv /\ [Next]_vars
          => [\A id \in Ids : Fires(id) => WithinLimit(id)]_vars
    BY <1>3
  <1> QED BY <1>1, <1>2, <1>4, TypeHolds, FitHolds, PTL DEF Spec, RunsBounded

\* A pass leaves nothing due that it found late by more than a tick: a run
\* that was missed is moved on, once, or the entry is in error, as its cron
\* expression matches no minute.
THEOREM MissedRunsMoveOn == Spec => MissedMovesOn
  <1> DEFINE MovesOn(id) ==
        \/ ~ Due(entries'[id], sample)
        \/ NeverMatches(entries[id].item) /\ entries'[id].rt.status = "error"
  <1>1. ASSUME TypeInv, FitInv, [Next]_vars, NEW id \in Ids, FoundLate(id)
        PROVE  MovesOn(id)
    <2>1. phase = "up" /\ phase' = "up" /\ sample # None /\ sample' = None
          /\ Late(entries[id], sample) /\ Due(entries[id], sample)
      BY <1>1 DEF FoundLate, Late
    <2>2. Pass
      BY <1>1, <2>1 DEF Next, BeginPass, BeginCall, Refuse, ChangeDefinition, ChangeStatus,
         Trigger, Reload, TimePasses, ClockIsSet, HandleTimeSync, Boot, CutInBoot, Cut,
         CutInCommit, PowerOff, task, vars
    <2>3. entries[id] # None /\ entries[id].rt.status # "paused"
      BY <2>1 DEF Due, Watched
    <2>4. entries'[id] = Missed(entries[id], sample) /\ sample \in Nat
      BY <1>1, <2>1, <2>2, <2>3, PassIs
    <2>5. /\ entries[id] \in GoodEntry /\ entries[id].item \in Defined(id)
          /\ valid \in BOOLEAN
      BY <1>1, <2>3 DEF TypeInv, Table, FitInv, FitAt, Fit
    <2>6. PICK e, p : e = entries[id] /\ p = entries'[id]
      OBVIOUS
    <2>7. e \in GoodEntry /\ p = Refresh(e, sample, valid) /\ e.rt.status # "paused"
      BY <2>3, <2>4, <2>5, <2>6 DEF Missed
    <2>8. CASE ~ NeverMatches(e.item)
      <3>1. e.item.kind = "cron" => e.item.cron > 0
        BY <2>7, <2>8 DEF NeverMatches, GoodEntry, GoodItem, Item
      <3>2. ~ Due(p, sample)
        BY <2>4, <2>5, <2>7, <3>1, RefreshIs
      <3> QED BY <2>6, <3>2
    <2>9. CASE NeverMatches(e.item)
      <3>1. Due(p, sample) => p.rt.status = "error"
        BY <2>4, <2>5, <2>7, <2>9, NeverFires
      <3> QED BY <2>6, <2>9, <3>1
    <2> QED BY <2>8, <2>9
  <1>2. TypeInv /\ FitInv /\ [Next]_vars => [\A id \in Ids : FoundLate(id) => MovesOn(id)]_vars
    BY <1>1
  <1> QED BY <1>2, TypeHolds, FitHolds, PTL DEF Spec, MissedMovesOn

-----------------------------------------------------------------------------
(* Acknowledged adds.  An entry whose add succeeded is in the table while    *)
(* the scheduler runs, and in the file, unless that is torn: a removal alone *)
(* takes it out of either, and with a torn file the scheduler does not       *)
(* start.                                                                    *)

AckAt(id) == (phase = "up" => entries[id] # None) /\ (file = Torn \/ file[id] # None)
AckInv == \A id \in acked : AckAt(id)

LEMMA StaysAcked ==
    ASSUME TypeInv, NEW new \in Table, Saves(new), NEW id \in Ids,
           file = Torn \/ file[id] # None,
           new[id] # None, entries[id] # None \/ entries' = new
    PROVE  AckAt(id)'
  <1>1. entries'[id] # None
    BY DEF Saves
  <1>2. file' = file \/ file' = ItemsOf(new) \/ file' = Torn
    BY WrittenIs DEF Saves
  <1>3. ItemsOf(new)[id] # None
    BY RecordsOf, Apart
  <1> QED BY <1>1, <1>2, <1>3 DEF AckAt

LEMMA AckStep ==
    ASSUME TypeInv, AckInv, [Next]_vars
    PROVE  AckInv'
  <1> SUFFICES ASSUME NEW id \in acked' PROVE AckAt(id)'
    BY DEF AckInv
  <1>1. id \in Ids
    BY TablesKeep
  <1>2. \A i \in acked : AckAt(i)
    BY DEF AckInv
  <1>3. CASE Pass
    <2>1. AckAt(id) /\ phase = "up" /\ Saves(entries') /\ entries' \in Table
      BY <1>2, <1>3, PassIs DEF Pass
    <2> QED BY <1>1, <1>3, <2>1, PassIs, StaysAcked DEF AckAt
  <1>4. CASE ChangeDefinition
    <2>1. call # None /\ Accepted /\ phase = "up" /\ Saves(After)
      BY <1>4, CommitIs
    <2>2. /\ After \in Table /\ (id # call.id => After[id] = entries[id])
          /\ call.op = "add" => entries[call.id] = None /\ After[call.id] # None
          /\ call.op \notin {"add", "remove"} => After[call.id] # None
      BY <1>1, <2>1, AfterIs, Apart
    <2>3. CASE id \in acked
      <3>1. AckAt(id) /\ entries[id] # None
        BY <1>2, <2>1, <2>3 DEF AckAt
      <3>2. id = call.id => call.op \notin {"add", "remove"}
        <4>1. call.op = "remove" => acked' = acked \ {call.id}
          BY <1>4, CommitIs
        <4> QED BY <2>2, <3>1, <4>1
      <3> QED BY <1>1, <2>1, <2>2, <3>1, <3>2, StaysAcked DEF AckAt
    <2>4. CASE id \notin acked
      <3>1. id = call.id /\ call.op = "add" /\ entries' = After /\ file' = ItemsOf(After)
        BY <1>4, <2>4, CommitIs
      <3>2. entries'[id] # None /\ file'[id] # None
        BY <1>1, <2>2, <3>1, RecordsOf, Apart
      <3> QED BY <3>2 DEF AckAt
    <2> QED BY <2>3, <2>4
  <1>5. CASE ChangeStatus
    <2>1. call # None /\ Accepted /\ phase = "up" /\ Saves(After)
          /\ call.op \in {"pause", "resume"} /\ acked' = acked
      BY <1>5, StatusIs
    <2>2. AckAt(id) /\ entries[id] # None
      BY <1>2, <2>1 DEF AckAt
    <2>3. After \in Table /\ After[id] # None
      BY <1>1, <2>1, <2>2, AfterIs, Apart
    <2> QED BY <1>1, <2>1, <2>2, <2>3, StaysAcked DEF AckAt
  <1>6. CASE \E i \in Ids : Trigger(i)
    <2>1. PICK i \in Ids : Trigger(i)
      BY <1>6
    <2>2. /\ entries' \in Table /\ Saves(entries') /\ acked' = acked /\ phase = "up"
          /\ id # i => entries'[id] = entries[id]
          /\ id = i => entries'[id] # None
      BY <1>1, <2>1, TriggerIs, Apart DEF Trigger
    <2>3. AckAt(id) /\ entries[id] # None /\ entries'[id] # None
      BY <1>2, <2>2 DEF AckAt
    <2> QED BY <1>1, <2>2, <2>3, StaysAcked DEF AckAt
  <1>7. CASE (Boot \/ Reload) /\ file # Torn
    <2>1. entries' \in Table /\ Saves(entries') /\ acked' = acked
      BY <1>7, LoadIs DEF Forget
    <2>2. file[id] # None
      BY <1>2, <1>7, <2>1 DEF AckAt
    <2>3. entries'[id] # None
      BY <1>1, <1>7, <2>2, LoadIs, Apart
    <2> QED BY <1>1, <2>1, <2>2, <2>3, StaysAcked
  <1>8. CASE Boot /\ file = Torn
    BY <1>2, <1>8, FailedIs DEF AckAt, hist
  <1>9. CASE HandleTimeSync
    <2>1. AckAt(id) /\ phase = "up"
      BY <1>2, <1>9, SyncIs DEF HandleTimeSync, hist
    <2>2. PICK new \in Table :
            /\ entries' = new /\ Saves(new)
            /\ entries[id] # None => new[id] \in GoodEntry
      BY <1>1, <1>9, SyncIs
    <2> QED BY <1>1, <2>1, <2>2, StaysAcked, Apart DEF AckAt
  <1>10. CASE Cut \/ CutInCommit \/ CutInBoot
    <2>1. phase' = "off"
      BY <1>10, CutIs
    <2>2. CASE CutInCommit
      <3>1. /\ phase = "up" /\ call # None /\ Accepted
            /\ call.op \notin {"pause", "resume"}
            /\ file' = file \/ file' = ItemsOf(After) \/ file' = Torn
            /\ acked' = IF call.op = "remove" THEN acked \ {call.id} ELSE acked
        BY <2>2, CutIs
      <3>2. AckAt(id) /\ entries[id] # None
        BY <1>2, <3>1 DEF AckAt
      <3>3. After \in Table /\ After[id] # None
        BY <1>1, <3>1, <3>2, AfterIs, Apart
      <3>4. ItemsOf(After)[id] # None
        BY <1>1, <3>3, RecordsOf, Apart
      <3> QED BY <2>1, <3>1, <3>2, <3>4 DEF AckAt
    <2>3. CASE ~ CutInCommit
      <3>1. (file' = file \/ file' = Torn) /\ acked' = acked
        BY <1>10, <2>3, CutIs
      <3> QED BY <1>2, <2>1, <3>1 DEF AckAt
    <2> QED BY <2>2, <2>3
  <1>11. CASE UNCHANGED <<entries, valid, phase, file, blob, wiped, hist>>
    BY <1>2, <1>11 DEF AckAt, hist
  <1> QED BY <1>3, <1>4, <1>5, <1>6, <1>7, <1>8, <1>9, <1>10, <1>11, NextIs

\* An entry whose add succeeded is there whenever the scheduler runs, after any
\* failed call, failed or torn write and power cut, until somebody asks for its
\* removal.
THEOREM AddedIsKept == Spec => []AckedSurvives
  <1>1. Init => AckInv
    BY DEF Init, AckInv
  <1>2. TypeInv /\ AckInv /\ [Next]_vars => AckInv'
    BY AckStep
  <1>3. AckInv => AckedSurvives
    BY DEF AckInv, AckAt, AckedSurvives
  <1> QED BY <1>1, <1>2, <1>3, TypeHolds, PTL DEF Spec
=============================================================================
