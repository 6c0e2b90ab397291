------------------------------ MODULE WechatLogin ------------------------------
(* The WeChat login by QR code (cap_im_wechat.c): the HTTP thread starts and  *)
(* cancels a login, a task polls WeChat for what became of the code and asks  *)
(* for a new one when it is stale.  The lock covers the task's decisions but  *)
(* neither its requests nor the writing down of their answers, and a start    *)
(* holds it for up to 5 s while the task waits for it for 1 s.  The gateway's *)
(* stop, which frees all of it, is left out.                                  *)
EXTENDS Naturals, FiniteSets

CONSTANTS
    MaxRefresh,   \* codes a login may go through (CAP_IM_WECHAT_QR_MAX_REFRESH, 3)
    MaxStarts, MaxFaults

Tasks    == 1..2          \* login tasks that may live at a time
Codes    == 1..(MaxRefresh * MaxStarts)
AtWechat == {"none", "wait", "scanned", "confirmed", "expired"}

VARIABLES
    qr,           \* s_wechat.qr: the login, code and token being 0 when empty
    old,          \* the code is older than CAP_IM_WECHAT_QR_TTL_MS
    handle,       \* qr_task is set
    at, asked, answer,  \* each task: where it is, its request, what came of it
    http,         \* the HTTP thread: "idle", or in "start" with the lock
    issued, codes, \* codes WeChat has issued and what became of each
    starts, faults

task  == <<at, asked, answer>>
lvars == <<qr, old, handle, task, http, issued, codes, starts, faults>>

Fault  == faults < MaxFaults /\ faults' = faults + 1
Unlocked == http = "idle"
Empty  == [active |-> FALSE, completed |-> FALSE, stop |-> FALSE, status |-> "idle",
           code |-> 0, token |-> 0, tries |-> 0]

\* cap_im_wechat_qr_fetch_code_locked, answered: it has the lock in a start only.
CodeArrives ==
    /\ issued < MaxRefresh * MaxStarts /\ issued' = issued + 1
    /\ codes' = [codes EXCEPT ![issued'] = "wait"] /\ old' = FALSE
    /\ qr' = [qr EXCEPT !.code = issued', !.status = "waiting_scan"]

-----------------------------------------------------------------------------
(* The HTTP thread, and the people at both ends.                              *)

\* A start without force leaves an active login alone; the web page forces it.
StartBegin ==
    /\ Unlocked /\ starts < MaxStarts /\ starts' = starts + 1
    /\ qr' = [Empty EXCEPT !.active = TRUE] /\ http' = "start"
    /\ UNCHANGED <<old, handle, task, issued, codes, faults>>

\* The code is there: a task is created unless there seems to be one.
StartFetched ==
    /\ http = "start" /\ http' = "idle" /\ CodeArrives /\ handle' = TRUE
    /\ IF handle THEN UNCHANGED at
       ELSE \E k \in Tasks : at[k] = "off" /\ at' = [at EXCEPT ![k] = "top"]
    /\ UNCHANGED <<asked, answer, starts, faults>>

\* There is no memory for the task.
StartTaskless ==
    /\ http = "start" /\ http' = "idle" /\ ~handle /\ Fault
    /\ issued < MaxRefresh * MaxStarts /\ issued' = issued + 1
    /\ codes' = [codes EXCEPT ![issued'] = "wait"] /\ old' = FALSE
    /\ qr' = [qr EXCEPT !.code = issued', !.status = "waiting_scan", !.active = FALSE]
    /\ UNCHANGED <<handle, task, starts>>

StartFails ==
    /\ http = "start" /\ http' = "idle" /\ Fault
    /\ qr' = [qr EXCEPT !.active = FALSE, !.status = "error"]
    /\ UNCHANGED <<old, handle, task, issued, codes, starts>>

Cancel ==
    /\ Unlocked
    /\ qr' = [qr EXCEPT !.stop = TRUE, !.active = FALSE, !.status = "cancelled"]
    /\ UNCHANGED <<old, handle, task, http, issued, codes, starts, faults>>

TimePasses ==
    /\ Unlocked /\ qr.active /\ ~old /\ old' = TRUE
    /\ UNCHANGED <<qr, handle, task, http, issued, codes, starts, faults>>

\* The user scans the code that is shown and confirms it, or WeChat drops it; what
\* becomes of codes that are neither shown nor asked about makes no difference.
CodeMoves ==
    /\ \E c \in {qr.code} \cup {asked[k] : k \in Tasks} : \E s \in AtWechat :
        /\ c \in Codes
        /\ \/ codes[c] = "wait" /\ c = qr.code /\ s = "scanned"
           \/ codes[c] = "scanned" /\ s = "confirmed"
           \/ codes[c] \in {"wait", "scanned"} /\ s = "expired"
        /\ codes' = [codes EXCEPT ![c] = s]
    /\ UNCHANGED <<qr, old, handle, task, http, issued, starts, faults>>

-----------------------------------------------------------------------------
(* cap_im_wechat_qr_task, in the order of its loop.                           *)

Goto(k, pc) ==
    /\ at' = [at EXCEPT ![k] = pc] /\ asked' = [asked EXCEPT ![k] = 0]
    /\ answer' = [answer EXCEPT ![k] = "ok"]

\* mutant: a code is never too old.
OldNever == FALSE

\* The check of started_at_ms.
TooOld == old

\* CAP_IM_WECHAT_QR_MAX_REFRESH codes have been tried.
LastTry == qr.tries + 1 >= MaxRefresh

Top(k) ==
    /\ at[k] = "top" /\ Unlocked
    /\ \/ /\ qr.stop \/ ~qr.active
          /\ handle' = FALSE /\ Goto(k, "off") /\ UNCHANGED qr
       \/ /\ ~qr.stop /\ qr.active /\ TooOld /\ LastTry
          /\ qr' = [qr EXCEPT !.status = "expired", !.active = FALSE]
          /\ handle' = FALSE /\ Goto(k, "off")
       \/ /\ ~qr.stop /\ qr.active /\ TooOld /\ ~LastTry
          /\ qr' = [qr EXCEPT !.tries = @ + 1]
          /\ Goto(k, "fetch") /\ UNCHANGED handle
       \/ /\ ~qr.stop /\ qr.active /\ ~TooOld
          /\ Goto(k, "ask") /\ UNCHANGED <<qr, handle>>
    /\ UNCHANGED <<old, http, issued, codes, starts, faults>>

\* cap_im_wechat_qr_poll_once_locked, which has no lock: what to ask for.
Ask(k) ==
    /\ at[k] = "ask"
    /\ IF qr.active /\ qr.code # 0
       THEN /\ at' = [at EXCEPT ![k] = "asked"] /\ asked' = [asked EXCEPT ![k] = qr.code]
            /\ UNCHANGED answer
       ELSE /\ at' = [at EXCEPT ![k] = "judge"] /\ answer' = [answer EXCEPT ![k] = "error"]
            /\ UNCHANGED asked
    /\ UNCHANGED <<qr, old, handle, http, issued, codes, starts, faults>>

\* The answer is written into the login, whichever login that is by now.
Written(c) ==
    CASE codes[c] = "wait"    -> [qr EXCEPT !.status = "waiting_scan"]
      [] codes[c] = "scanned" -> [qr EXCEPT !.status = "scanned"]
      [] codes[c] = "expired" -> [qr EXCEPT !.status = "expired"]
      [] OTHER -> [qr EXCEPT !.status = "confirmed", !.token = c, !.completed = TRUE,
                             !.active = FALSE]

Answer(k) ==
    /\ at[k] = "asked" /\ at' = [at EXCEPT ![k] = "judge"]
    /\ asked' = [asked EXCEPT ![k] = 0]
    /\ \/ /\ qr' = Written(asked[k]) /\ UNCHANGED faults
          /\ answer' = [answer EXCEPT ![k] = IF codes[asked[k]] = "expired" THEN "timeout"
                                             ELSE "ok"]
       \/ Fault /\ answer' = [answer EXCEPT ![k] = "error"] /\ UNCHANGED qr
    /\ UNCHANGED <<old, handle, http, issued, codes, starts>>

\* mutant: the handle is cleared with the decision to end.
ReleasedAtOnce == FALSE

\* What becomes of the handle when the loop is to be left.
Released == handle

Judge(k) ==
    /\ at[k] = "judge" /\ Unlocked
    /\ CASE answer[k] = "timeout" /\ LastTry ->
              /\ qr' = [qr EXCEPT !.active = FALSE] /\ handle' = FALSE /\ Goto(k, "off")
         [] answer[k] = "timeout" /\ ~LastTry ->
              /\ qr' = [qr EXCEPT !.tries = @ + 1] /\ Goto(k, "fetch") /\ UNCHANGED handle
         [] answer[k] = "error" ->
              /\ qr' = [qr EXCEPT !.status = "error", !.active = FALSE]
              /\ handle' = Released /\ Goto(k, "leave")
         [] answer[k] = "ok" /\ ~qr.active ->
              /\ handle' = Released /\ Goto(k, "leave") /\ UNCHANGED qr
         [] OTHER -> Goto(k, "top") /\ UNCHANGED <<qr, handle>>
    /\ UNCHANGED <<old, http, issued, codes, starts, faults>>

\* A new code for the login, without the lock.
Fetch(k) ==
    /\ at[k] = "fetch"
    /\ \/ CodeArrives /\ Goto(k, "top") /\ UNCHANGED faults
       \/ Fault /\ Goto(k, "fail") /\ UNCHANGED <<qr, old, issued, codes>>
    /\ UNCHANGED <<handle, http, starts>>

\* The last lock of the task, taken for the handle's sake.
Fail(k) ==
    /\ at[k] = "fail" /\ Unlocked /\ Goto(k, "off")
    /\ qr' = [qr EXCEPT !.status = "error", !.active = FALSE] /\ handle' = FALSE
    /\ UNCHANGED <<old, http, issued, codes, starts, faults>>

Leave(k) ==
    /\ at[k] = "leave" /\ Unlocked /\ Goto(k, "off") /\ handle' = FALSE
    /\ UNCHANGED <<qr, old, http, issued, codes, starts, faults>>

\* A second passes without the lock: the answer is dropped, or the task ends and
\* leaves its handle behind.
MissLock(k) ==
    /\ ~Unlocked /\ at[k] \in {"judge", "fail", "leave"}
    /\ Goto(k, IF at[k] = "judge" THEN "top" ELSE "off")
    /\ UNCHANGED <<qr, old, handle, http, issued, codes, starts, faults>>

-----------------------------------------------------------------------------
Init ==
    /\ qr = Empty /\ old = FALSE /\ handle = FALSE /\ http = "idle"
    /\ at = [k \in Tasks |-> "off"] /\ asked = [k \in Tasks |-> 0]
    /\ answer = [k \in Tasks |-> "ok"]
    /\ issued = 0 /\ codes = [c \in Codes |-> "none"] /\ starts = 0 /\ faults = 0

StartEnds == StartFetched \/ StartTaskless \/ StartFails
Step(k) ==
    \/ Top(k) \/ Ask(k) \/ Answer(k) \/ Judge(k) \/ Fetch(k) \/ Fail(k) \/ Leave(k)
    \/ MissLock(k)

Next ==
    \/ StartBegin \/ StartEnds \/ Cancel \/ TimePasses \/ CodeMoves
    \/ \E k \in Tasks : Step(k)

\* Requests are answered or time out, the tasks run, and codes grow old.
FairSpec ==
    /\ Init /\ [][Next]_lvars
    /\ WF_lvars(StartEnds) /\ WF_lvars(TimePasses) /\ \A k \in Tasks : WF_lvars(Step(k))

-----------------------------------------------------------------------------
TypeOK ==
    /\ qr \in [active : BOOLEAN, completed : BOOLEAN, stop : BOOLEAN,
               status : {"idle", "waiting_scan", "scanned", "expired", "confirmed", "error",
                         "cancelled"},
               code : {0} \cup Codes, token : {0} \cup Codes, tries : 0..(MaxRefresh - 1)]
    /\ at \in [Tasks -> {"off", "top", "ask", "asked", "judge", "fetch", "fail", "leave"}]
    /\ asked \in [Tasks -> {0} \cup Codes] /\ answer \in [Tasks -> {"ok", "timeout", "error"}]
    /\ http \in {"idle", "start"} /\ issued \in 0..(MaxRefresh * MaxStarts)
    /\ codes \in [Codes -> AtWechat]

\* Only one task polls for logins, however starts, missed locks and the ends of
\* tasks fall together: two would overwrite the login that neither has locked.
OnePoller == \A j, k \in Tasks : at[j] # "off" /\ at[k] # "off" => j = k

\* A login that a task polls for ends: it completes, expires, fails or is
\* cancelled, or the task has given it up.
Polled    == \E k \in Tasks : at[k] \notin {"off", "leave", "fail"}
LoginsEnd == (qr.active /\ Polled) ~> (~qr.active \/ ~Polled)

\* A login is polled for from the answer of its start on.  It is not when the
\* start met the handle of a task about to leave, or one that was left behind.
ActiveIsPolled == qr.active /\ Unlocked => Polled

\* "Never include the token while the session is still active (QR not yet
\* scanned)" (http_server_wechat_api.c): not so when the last login's answer
\* arrives during the start of the next.
NoTokenUnscanned == qr.completed => qr.status # "waiting_scan"

\* A cancelled login stays cancelled; a late answer or code writes over it.
CancelStays == [][qr.stop /\ qr'.stop => qr'.status = "cancelled"]_lvars
=============================================================================
