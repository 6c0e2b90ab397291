------------------------------ MODULE ChatSend ------------------------------
(* How the chat platforms send (cap_im_tg.c, cap_im_qq.c, cap_im_wechat.c,    *)
(* cap_im_feishu.c): a text goes out in pieces of bounded length, each with a *)
(* request of its own; a picture or file is uploaded first, or with its       *)
(* message, and has a caption.  A request may fail before or after it did its *)
(* work, and one that fails on a connection of the pool is sent once more, so *)
(* what it shows can be shown twice.  Feishu looks at the code in the answer; *)
(* the others throw the answer's body away and go by the HTTP status, and are *)
(* told of success when the body says that the message was refused.           *)
(*                                                                            *)
(* Telegram, QQ and WeChat go on after a piece that failed and answer with an *)
(* error at the end; Feishu stops at it, and tries a card before any text.    *)
(*                                                                            *)
(* Several callers may send to one chat at a time.  Tokens, the contents of   *)
(* requests and WeChat's limit of stage messages are left out.                *)
EXTENDS Naturals, Sequences, FiniteSets

LOCAL INSTANCE SequencesExt

CONSTANTS
    Callers,
    Texts,       \* texts, as sequences of the lengths of their characters
    ChunkLen,    \* bytes in a piece
    CardLen,     \* bytes a card holds
    MaxFaults, None

VARIABLES platform, \* the platform of the chat
          call,     \* per caller: what is sent, and how far it got
          chat,     \* what was shown or answered as sent, in order: who sent it, what,
                    \* its bytes, and how many times the users see it
          faults

svars == <<platform, call, chat, faults>>

Fault == faults < MaxFaults /\ faults' = faults + 1

\* The bytes before a character, and of a text.
Before(t, i) == FoldSeq(LAMBDA a, b : a + b, 0, SubSeq(t, 1, i))
Bytes(t) == Before(t, Len(t))

NoCall == [kind |-> None, text |-> <<>>, at |-> "idle", offset |-> 0, failed |-> FALSE]

Moved(c, at) == [call EXCEPT ![c].at = at]
Done(c, failed) == [call EXCEPT ![c].at = "done", ![c].failed = failed]

\* What the first request is for.
First(kind, t) ==
    IF kind = "text" THEN IF platform = "feishu" /\ Bytes(t) <= CardLen THEN "card" ELSE "text"
    ELSE CASE platform = "telegram" -> "media"
           [] platform = "wechat" /\ t # <<>> -> "text"
           [] OTHER -> "upload"

Begin(c) ==
    /\ call[c] = NoCall
    /\ \E kind \in {"text", "picture"}, t \in Texts :
          /\ kind = "text" => t # <<>>
          /\ call' = [call EXCEPT ![c] = [NoCall EXCEPT !.kind = kind, !.text = t,
                                                        !.at = First(kind, t)]]
    /\ UNCHANGED <<platform, chat, faults>>

Puts(c, what, from, to, times) ==
    chat' = Append(chat, [of |-> c, what |-> what, from |-> from, to |-> to, times |-> times])

\* A request with what is sent.  It fails before its work or after it, it is done twice,
\* or it is refused and answered as done.  esp_http_client_perform sends it again, if
\* the connection was used before; Telegram's pictures are written without it.
Posts(c, what, from, to, ok) ==
    /\ \E times \in 0..2 :
          /\ times = 2 => ~(platform = "telegram" /\ what = "picture")
          /\ times = 0 /\ ok => platform # "feishu"
          /\ IF ok /\ times = 1 THEN UNCHANGED faults ELSE Fault
          /\ IF ok \/ times > 0 THEN Puts(c, what, from, to, times) ELSE UNCHANGED chat
    /\ UNCHANGED platform

\* cap_im_feishu_send_message_execute: what fails as a card is sent as a text.
SendCard(c) ==
    /\ call[c].at = "card"
    /\ \E ok \in BOOLEAN :
          /\ Posts(c, "card", 0, Bytes(call[c].text), ok)
          /\ call' = IF ok THEN Done(c, FALSE) ELSE Moved(c, "text")

Upload(c) ==
    /\ call[c].at = "upload" /\ UNCHANGED <<platform, chat>>
    /\ \/ call' = Moved(c, "media") /\ UNCHANGED faults
       \/ call' = Done(c, TRUE) /\ Fault

\* Telegram and QQ put the caption into the message, Feishu sends it afterwards.
SendMedia(c) ==
    /\ call[c].at = "media"
    /\ \E ok \in BOOLEAN :
          /\ Posts(c, "picture", 0, 0, ok)
          /\ call' = IF ok /\ platform = "feishu" /\ call[c].text # <<>> THEN Moved(c, "text")
                     ELSE Done(c, ~ok)

Least(a, b) == IF a < b THEN a ELSE b

\* What follows the last piece: WeChat's picture follows its caption.
AfterText(c, failed) ==
    IF call[c].kind = "picture" /\ platform = "wechat" /\ ~failed
    THEN [call EXCEPT ![c].at = "upload", ![c].offset = Bytes(call[c].text)]
    ELSE Done(c, failed)

\* mutant: the answer is the last piece's
FailedLast(c, ok) == ~ok

\* last_err: an error is answered at the end.
Failed(c, ok) == call[c].failed \/ ~ok

AfterPiece(c, to, ok) ==
    IF ~ok /\ platform = "feishu" THEN Done(c, TRUE)
    ELSE IF to = Bytes(call[c].text) THEN AfterText(c, Failed(c, ok))
    ELSE [call EXCEPT ![c].offset = to, ![c].failed = Failed(c, ok)]

\* cap_im_tg_send_text and its like, a piece at a time.
SendPiece(c) ==
    LET from == call[c].offset
        to   == Least(from + ChunkLen, Bytes(call[c].text))
    IN  /\ call[c].at = "text"
        /\ \E ok \in BOOLEAN :
              Posts(c, "text", from, to, ok) /\ call' = AfterPiece(c, to, ok)

\* There is no memory for a piece.
GivesUp(c) ==
    /\ call[c].at = "text" /\ Fault /\ call' = Done(c, TRUE)
    /\ UNCHANGED <<platform, chat>>

Step(c) == SendCard(c) \/ Upload(c) \/ SendMedia(c) \/ SendPiece(c) \/ GivesUp(c)

Init ==
    /\ platform \in {"telegram", "qq", "wechat", "feishu"}
    /\ call = [c \in Callers |-> NoCall] /\ chat = <<>> /\ faults = 0

Next == \E c \in Callers : Begin(c) \/ Step(c)

Spec == Init /\ [][Next]_svars

-----------------------------------------------------------------------------
TypeOK ==
    /\ \A c \in Callers :
          /\ call[c].at \in {"idle", "card", "upload", "media", "text", "done"}
          /\ call[c].offset <= Bytes(call[c].text)
    /\ faults <= MaxFaults

\* Where in the chat that is which a caller sent.
Of(c, what) == {i \in DOMAIN chat : chat[i].of = c /\ chat[i].what = what}

LastOf(pieces, i) == i \in pieces /\ \A j \in pieces : j <= i

\* Each piece begins where the one before it ended, the first at the beginning.
Gapless(pieces) ==
    \A i \in pieces :
        LET earlier == {j \in pieces : j < i}
        IN  IF earlier = {} THEN chat[i].from = 0
            ELSE \E j \in earlier : LastOf(earlier, j) /\ chat[j].to = chat[i].from

\* The pieces are all of the bytes, in order, once each.
Whole(pieces, bytes) ==
    Gapless(pieces) /\ \E i \in pieces : LastOf(pieces, i) /\ chat[i].to = bytes

\* On Feishu what is answered as sent is seen.
Seen(c) == platform = "feishu" => \A i \in DOMAIN chat : chat[i].of = c => chat[i].times > 0

\* What a call that answers that the message was sent has sent.
SentAll(c) ==
    LET captions == platform \in {"wechat", "feishu"} /\ call[c].text # <<>>
        whole    == Whole(Of(c, "text"), Bytes(call[c].text))
    IN  /\ call[c].kind = "text" => Of(c, "card") # {} \/ whole
        /\ call[c].kind = "picture" =>
              (\E i \in DOMAIN chat : Of(c, "picture") = {i}) /\ (captions => whole)

\* A call that answers that the message was sent has sent all of it, in order, whatever
\* failed on the way: as a card or in pieces, the picture in its place.  On Feishu all
\* of it is seen; on the others what is not was refused by the platform, in an answer
\* that nobody reads.
SentIsThere ==
    \A c \in Callers : call[c].at = "done" /\ ~call[c].failed => SentAll(c) /\ Seen(c)

\* On Feishu what is shown of a text is its beginning, without gaps.
NoGaps == platform = "feishu" => \A c \in Callers : Gapless(Of(c, "text"))

\* What is answered as sent is seen, ...
SentIsSeen ==
    \A i \in DOMAIN chat :
        call[chat[i].of].at = "done" /\ ~call[chat[i].of].failed => chat[i].times > 0

\* ... and nothing is seen twice: no piece, nor a text as a card too.
SeenOnce ==
    /\ \A i \in DOMAIN chat : chat[i].times < 2
    /\ \A c \in Callers : Of(c, "card") = {} \/ Of(c, "text") = {}

\* A piece begins with a character.
PiecesAreWhole ==
    \A i \in DOMAIN chat :
        chat[i].what = "text" =>
            LET t == call[chat[i].of].text
            IN  \E k \in 0..Len(t) : Before(t, k) = chat[i].from

\* The pieces of a message stand together.
MessagesStandTogether ==
    \A i, j, k \in DOMAIN chat :
        i < j /\ j < k /\ chat[i].of = chat[k].of => chat[j].of = chat[i].of
=============================================================================
