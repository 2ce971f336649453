----------------------------- MODULE HttpMessage -----------------------------
(***************************************************************************)
(* melon::HttpMessage (src/melon/rpc/http/http_message.cc): the callbacks  *)
(* http_parser calls while it parses one message, and the progressive      *)
(* reading of its body.                                                    *)
(*                                                                         *)
(* Two threads share the message.  The parse fiber runs the callbacks; in  *)
(* OnBody it buffers body parts in _body until a ProgressiveReader is set, *)
(* sleeping while _body is over socket_max_unwritten_bytes, and otherwise  *)
(* flushes _body and hands the part to the reader.  The user thread calls  *)
(* SetBodyReader, which drains _body into the reader itself (at most       *)
(* MAX_TRY times while the body is still arriving) before installing it.   *)
(* A reader that fails is replaced by FailAllRead.  ~HttpMessage ends a    *)
(* reader still installed.                                                 *)
(*                                                                         *)
(* Body parts are numbered 1..NParts in parsing order; one part is one     *)
(* IOBuf block and one unit of size.  Header names, values and the URL are *)
(* abstracted away: a header callback changes _stage only.  The user's     *)
(* reader may fail any OnReadOnePart.                                      *)
(***************************************************************************)
EXTENDS Integers, Sequences

CONSTANTS
    NParts,          \* body parts of the message
    Limit,           \* FLAGS_socket_max_unwritten_bytes, in parts
    MaxHeaderCalls   \* header-field and header-value callbacks at most

(* The HttpParserStage values, in declaration order (http_message.h).      *)
HTTP_ON_MESSAGE_BEGIN == 1
HTTP_ON_URL == 2
HTTP_ON_STATUS == 3
HTTP_ON_HEADER_FIELD == 4
HTTP_ON_HEADER_VALUE == 5
HTTP_ON_HEADERS_COMPLETE == 6
HTTP_ON_BODY == 7
HTTP_ON_MESSAGE_COMPLETE == 8

MAX_TRY == 3

(* Readers: the user's, and the FailAllRead singleton; None is nullptr.    *)
User == "user"
FailAll == "failall"
None == "none"

VARIABLES
    progressive,     \* _read_body_progressively
    kind,            \* parser->type: "request" or "response"
    head,            \* a response to a HEAD request (request_method)
    nobody,          \* on_headers_complete returned 1: no body follows
    stage,           \* _stage
    hcalls,          \* header callbacks so far
    body,            \* _body, a sequence of part numbers
    breader,         \* _body_reader
    parsed,          \* body parts handed to OnBody so far
    ppc,             \* the parse fiber's place
    pr,              \* the parse fiber's local reader r
    pseen,           \* the parse fiber's body_seen
    pat,             \* the part OnBody was called with
    upc,             \* the user thread's place in SetBodyReader
    ur,              \* SetBodyReader's r
    useen,           \* SetBodyReader's body_seen
    ntry,            \* SetBodyReader's ntry
    got,             \* the parts the user's reader received, in order
    ends,            \* OnEndOfMessage calls the user's reader received
    est,             \* the status of the first of them
    destroyed        \* ~HttpMessage ran

vars == <<progressive, kind, head, nobody, stage, hcalls, body, breader,
          parsed, ppc, pr, pseen, pat, upc, ur, useen, ntry, got, ends, est,
          destroyed>>
msg == <<progressive, kind, head>>
user == <<upc, ur, useen, ntry>>
parser == <<ppc, pr, pseen, pat>>

(* The constructor: http_parser_init(HTTP_BOTH), _stage at MESSAGE_BEGIN,  *)
(* no reader.  on_message_begin sets the same stage again.                 *)
Init ==
    /\ progressive \in BOOLEAN
    /\ kind \in {"request", "response"}
    /\ head \in BOOLEAN /\ (head => kind = "response")
    /\ nobody = FALSE
    /\ stage = HTTP_ON_MESSAGE_BEGIN /\ hcalls = 0
    /\ body = <<>> /\ breader = None /\ parsed = 0
    /\ ppc = "parse" /\ pr = None /\ pseen = <<>> /\ pat = 0
    /\ upc = "before" /\ ur = None /\ useen = <<>> /\ ntry = 0
    /\ got = <<>> /\ ends = 0 /\ est = "none"
    /\ destroyed = FALSE

(* r->OnReadOnePart(part) and r->OnEndOfMessage(status): only the user's  *)
(* reader records them; FailAllRead's OnEndOfMessage does nothing.         *)
Read(r, k) == got' = IF r = User THEN Append(got, k) ELSE got
End(r, s) ==
    /\ ends' = IF r = User THEN ends + 1 ELSE ends
    /\ est' = IF r = User /\ ends = 0 THEN s ELSE est
NoEnd == UNCHANGED <<ends, est>>

(* FailAllRead fails every part; the user's reader may fail any.           *)
ReadOk(r) == IF r = FailAll THEN {FALSE} ELSE BOOLEAN

-----------------------------------------------------------------------------
(* The parser callbacks before the body.                                   *)
Callback == ppc = "parse" /\ ~destroyed

on_url ==
    /\ Callback /\ kind = "request" /\ stage = HTTP_ON_MESSAGE_BEGIN
    /\ stage' = HTTP_ON_URL
    /\ UNCHANGED <<msg, nobody, hcalls, body, breader, parsed, parser, user,
                   got, ends, est, destroyed>>

on_status ==
    /\ Callback /\ kind = "response" /\ stage = HTTP_ON_MESSAGE_BEGIN
    /\ stage' = HTTP_ON_STATUS
    /\ UNCHANGED <<msg, nobody, hcalls, body, breader, parsed, parser, user,
                   got, ends, est, destroyed>>

(* A field fragment; a new field (stage not FIELD) clears _cur_header.     *)
on_header_field ==
    /\ Callback /\ hcalls < MaxHeaderCalls
    /\ stage \in {HTTP_ON_URL, HTTP_ON_STATUS, HTTP_ON_HEADER_FIELD, HTTP_ON_HEADER_VALUE}
    /\ stage' = HTTP_ON_HEADER_FIELD /\ hcalls' = hcalls + 1
    /\ UNCHANGED <<msg, nobody, body, breader, parsed, parser, user, got,
                   ends, est, destroyed>>

(* A value fragment after a field, so _cur_header is never empty here.     *)
on_header_value ==
    /\ Callback /\ hcalls < MaxHeaderCalls
    /\ stage \in {HTTP_ON_HEADER_FIELD, HTTP_ON_HEADER_VALUE}
    /\ stage' = HTTP_ON_HEADER_VALUE /\ hcalls' = hcalls + 1
    /\ UNCHANGED <<msg, nobody, body, breader, parsed, parser, user, got,
                   ends, est, destroyed>>

(* A request whose URL fails SetHttpURL returns -1 and the parse fails; a  *)
(* response to HEAD returns 1, so no body follows.                         *)
on_headers_complete ==
    /\ Callback
    /\ stage \in {HTTP_ON_URL, HTTP_ON_STATUS, HTTP_ON_HEADER_VALUE}
    /\ stage' = HTTP_ON_HEADERS_COMPLETE
    /\ \/ kind = "request" /\ ppc' = "dead" /\ UNCHANGED nobody
       \/ ppc' = "parse" /\ nobody' = (kind = "response" /\ head)
    /\ UNCHANGED <<msg, hcalls, body, breader, parsed, pr, pseen, pat, user,
                   got, ends, est, destroyed>>

-----------------------------------------------------------------------------
(***************************************************************************)
(* OnBody's progressive path from the moment it holds _body_mutex and has *)
(* read r = _body_reader: with no reader, buffer the part unless _body is  *)
(* over the limit, else unlock and fiber_usleep; with a reader,            *)
(* UnlockAndFlushToBodyReader, then hand over the part.                    *)
(***************************************************************************)
BodyLocked(k) ==
    \/ /\ breader = None /\ Len(body) <= Limit
       /\ body' = Append(body, k)
       /\ ppc' = "parse" /\ pr' = None /\ pseen' = <<>> /\ pat' = 0
    \/ /\ breader = None /\ Len(body) > Limit
       /\ ppc' = "wait" /\ pat' = k
       /\ UNCHANGED <<body, pr, pseen>>
    \/ /\ breader # None /\ body = <<>>
       /\ ppc' = "deliver" /\ pr' = breader /\ pat' = k
       /\ UNCHANGED <<body, pseen>>
    \/ /\ breader # None /\ body # <<>>
       /\ ppc' = "flush" /\ pr' = breader /\ pat' = k
       /\ pseen' = body /\ body' = <<>>

(* http_parser calls on_body_cb with the next part.                        *)
OnBody ==
    /\ Callback /\ ~nobody
    /\ stage \in {HTTP_ON_HEADERS_COMPLETE, HTTP_ON_BODY} /\ parsed < NParts
    /\ parsed' = parsed + 1 /\ stage' = HTTP_ON_BODY
    /\ \/ /\ ~progressive
          /\ body' = Append(body, parsed + 1)
          /\ UNCHANGED parser
       \/ progressive /\ BodyLocked(parsed + 1)
    /\ UNCHANGED <<msg, nobody, hcalls, breader, user, got, ends, est, destroyed>>

(* OnBody wakes from fiber_usleep, locks and reads _body_reader again.     *)
OnBody_wake ==
    /\ ppc = "wait"
    /\ BodyLocked(pat)
    /\ UNCHANGED <<msg, nobody, stage, hcalls, breader, parsed, user, got,
                   ends, est, destroyed>>

(* Mutant of OnBody_flush: the flushed block is handed over before the     *)
(* earlier ones are.                                                       *)
OnBody_flush_last ==
    /\ ppc \in {"flush", "cflush"}
    /\ \E ok \in ReadOk(pr) :
         /\ Read(pr, pseen[Len(pseen)])
         /\ IF ok
            THEN /\ pseen' = SubSeq(pseen, 1, Len(pseen) - 1)
                 /\ ppc' = IF Len(pseen) > 1 THEN ppc
                           ELSE IF ppc = "flush" THEN "deliver" ELSE "cend"
                 /\ NoEnd /\ UNCHANGED breader
            ELSE /\ breader' = None /\ End(pr, "err")
                 /\ ppc' = "dead" /\ pseen' = <<>>
    /\ UNCHANGED <<msg, nobody, stage, hcalls, body, parsed, pr, pat, user,
                   destroyed>>

(***************************************************************************)
(* UnlockAndFlushToBodyReader, one block of body_seen per step, from       *)
(* OnBody ("flush") or OnMessageComplete ("cflush").  On a failed block:   *)
(* lock, _body_reader = nullptr, unlock, r->OnEndOfMessage(st), and the    *)
(* callback returns -1, failing the parse.                                 *)
(***************************************************************************)
OnBody_flush ==
    /\ ppc \in {"flush", "cflush"}
    /\ \E ok \in ReadOk(pr) :
         /\ Read(pr, Head(pseen))
         /\ IF ok
            THEN /\ pseen' = Tail(pseen)
                 /\ ppc' = IF Len(pseen) > 1 THEN ppc
                           ELSE IF ppc = "flush" THEN "deliver" ELSE "cend"
                 /\ NoEnd /\ UNCHANGED breader
            ELSE /\ breader' = None /\ End(pr, "err")
                 /\ ppc' = "dead" /\ pseen' = <<>>
    /\ UNCHANGED <<msg, nobody, stage, hcalls, body, parsed, pr, pat, user,
                   destroyed>>

(* OnBody hands its own part to r outside the lock; a failure ends r.      *)
OnBody_deliver ==
    /\ ppc = "deliver"
    /\ \E ok \in ReadOk(pr) :
         /\ Read(pr, pat)
         /\ IF ok
            THEN ppc' = "parse" /\ NoEnd /\ UNCHANGED breader
            ELSE ppc' = "dead" /\ breader' = None /\ End(pr, "err")
    /\ pr' = None /\ pat' = 0
    /\ UNCHANGED <<msg, nobody, stage, hcalls, body, parsed, pseen, user,
                   destroyed>>

(* Mutant of OnMessageComplete: the buffered _body is not flushed before   *)
(* the reader is ended.                                                    *)
OnMessageComplete_no_flush ==
    /\ Callback /\ stage \in {HTTP_ON_HEADERS_COMPLETE, HTTP_ON_BODY}
    /\ parsed = NParts \/ nobody
    /\ stage' = HTTP_ON_MESSAGE_COMPLETE
    /\ \/ /\ ~progressive \/ breader = None
          /\ ppc' = "done" /\ UNCHANGED pr
       \/ /\ progressive /\ breader # None
          /\ ppc' = "cend" /\ pr' = breader
    /\ UNCHANGED <<msg, nobody, hcalls, body, breader, parsed, pseen, pat,
                   user, got, ends, est, destroyed>>

(***************************************************************************)
(* on_message_complete_cb: _stage = MESSAGE_COMPLETE (under _body_mutex    *)
(* when progressive); with a reader installed, flush _body into it, then   *)
(* end it.                                                                 *)
(***************************************************************************)
OnMessageComplete ==
    /\ Callback /\ stage \in {HTTP_ON_HEADERS_COMPLETE, HTTP_ON_BODY}
    /\ parsed = NParts \/ nobody
    /\ stage' = HTTP_ON_MESSAGE_COMPLETE
    /\ \/ /\ ~progressive \/ breader = None
          /\ ppc' = "done"
          /\ UNCHANGED <<body, pr, pseen>>
       \/ /\ progressive /\ breader # None /\ body = <<>>
          /\ ppc' = "cend" /\ pr' = breader
          /\ UNCHANGED <<body, pseen>>
       \/ /\ progressive /\ breader # None /\ body # <<>>
          /\ ppc' = "cflush" /\ pr' = breader
          /\ pseen' = body /\ body' = <<>>
    /\ UNCHANGED <<msg, nobody, hcalls, breader, parsed, pat, user, got,
                   ends, est, destroyed>>

(* Mutant of OnMessageComplete_end: _body_reader is left set.              *)
OnMessageComplete_end_keeps ==
    /\ ppc = "cend"
    /\ End(breader, "ok")
    /\ ppc' = "done" /\ pr' = None
    /\ UNCHANGED <<msg, nobody, stage, hcalls, body, breader, parsed, pseen,
                   pat, user, got, destroyed>>

(* Lock, take _body_reader and clear it, unlock, OnEndOfMessage(OK).       *)
OnMessageComplete_end ==
    /\ ppc = "cend"
    /\ End(breader, "ok")
    /\ breader' = None
    /\ ppc' = "done" /\ pr' = None
    /\ UNCHANGED <<msg, nobody, stage, hcalls, body, parsed, pseen, pat,
                   user, got, destroyed>>

(* The connection breaks between two callbacks: parsing stops.             *)
broken ==
    /\ Callback /\ stage < HTTP_ON_MESSAGE_COMPLETE
    /\ ppc' = "dead"
    /\ UNCHANGED <<msg, nobody, stage, hcalls, body, breader, parsed, pr,
                   pseen, pat, user, got, ends, est, destroyed>>

-----------------------------------------------------------------------------
(***************************************************************************)
(* SetBodyReader(user reader), once, after the user got the message (its   *)
(* headers are complete).  Without progressive reading: EPERM.             *)
(***************************************************************************)
SetBodyReader ==
    /\ upc = "before" /\ ~destroyed /\ stage >= HTTP_ON_HEADERS_COMPLETE
    /\ \/ /\ ~progressive
          /\ End(User, "eperm") /\ upc' = "done"
          /\ UNCHANGED <<ur, ntry>>
       \/ /\ progressive
          /\ upc' = "loop" /\ ur' = User /\ ntry' = 0 /\ NoEnd
    /\ UNCHANGED <<msg, nobody, stage, hcalls, body, breader, parsed, parser,
                   useen, got, destroyed>>

(* Mutant of SetBodyReader_loop: the reader is installed before _body is   *)
(* drained.                                                                *)
SetBodyReader_loop_early ==
    /\ upc = "loop"
    /\ breader = None
    /\ \/ /\ body = <<>> /\ stage <= HTTP_ON_BODY
          /\ breader' = ur /\ upc' = "done" /\ NoEnd
          /\ UNCHANGED <<body, useen, ntry>>
       \/ /\ body = <<>> /\ stage > HTTP_ON_BODY
          /\ End(ur, "ok") /\ upc' = "done"
          /\ UNCHANGED <<body, breader, useen, ntry>>
       \/ /\ body # <<>>
          /\ breader' = IF stage <= HTTP_ON_BODY THEN ur ELSE breader
          /\ ntry' = IF stage <= HTTP_ON_BODY THEN ntry + 1 ELSE ntry
          /\ useen' = body /\ body' = <<>>
          /\ upc' = "deliver" /\ NoEnd
    /\ UNCHANGED <<msg, nobody, stage, hcalls, parsed, parser, ur, got,
                   destroyed>>

(* Mutant of SetBodyReader_loop: the MAX_TRY branch returns without        *)
(* setting _body_reader.                                                   *)
SetBodyReader_loop_give_up_drops ==
    /\ upc = "loop"
    /\ breader = None
    /\ \/ /\ body = <<>> /\ stage <= HTTP_ON_BODY
          /\ breader' = ur /\ upc' = "done" /\ NoEnd
          /\ UNCHANGED <<body, useen, ntry>>
       \/ /\ body = <<>> /\ stage > HTTP_ON_BODY
          /\ End(ur, "ok") /\ upc' = "done"
          /\ UNCHANGED <<body, breader, useen, ntry>>
       \/ /\ body # <<>> /\ stage <= HTTP_ON_BODY /\ ntry + 1 >= MAX_TRY
          /\ ntry' = ntry + 1
          /\ upc' = "done" /\ NoEnd
          /\ UNCHANGED <<body, useen, breader>>
       \/ /\ body # <<>> /\ ~(stage <= HTTP_ON_BODY /\ ntry + 1 >= MAX_TRY)
          /\ ntry' = IF stage <= HTTP_ON_BODY THEN ntry + 1 ELSE ntry
          /\ useen' = body /\ body' = <<>>
          /\ upc' = "deliver" /\ NoEnd
          /\ UNCHANGED breader
    /\ UNCHANGED <<msg, nobody, stage, hcalls, parsed, parser, ur, got,
                   destroyed>>

(***************************************************************************)
(* One turn of SetBodyReader's loop under _body_mutex (a second reader,    *)
(* which gets EPERM, is not modelled, so _body_reader is null here): with  *)
(* _body empty, install the reader if the body may still come, else end   *)
(* it with OK; after MAX_TRY turns with the body still arriving, install   *)
(* it over a non-empty _body; otherwise take _body and unlock.             *)
(***************************************************************************)
SetBodyReader_loop ==
    /\ upc = "loop"
    /\ breader = None
    /\ \/ /\ body = <<>> /\ stage <= HTTP_ON_BODY
          /\ breader' = ur /\ upc' = "done" /\ NoEnd
          /\ UNCHANGED <<body, useen, ntry>>
       \/ /\ body = <<>> /\ stage > HTTP_ON_BODY
          /\ End(ur, "ok") /\ upc' = "done"
          /\ UNCHANGED <<body, breader, useen, ntry>>
       \/ /\ body # <<>> /\ stage <= HTTP_ON_BODY /\ ntry + 1 >= MAX_TRY
          /\ ntry' = ntry + 1
          /\ breader' = ur /\ upc' = "done" /\ NoEnd
          /\ UNCHANGED <<body, useen>>
       \/ /\ body # <<>> /\ ~(stage <= HTTP_ON_BODY /\ ntry + 1 >= MAX_TRY)
          /\ ntry' = IF stage <= HTTP_ON_BODY THEN ntry + 1 ELSE ntry
          /\ useen' = body /\ body' = <<>>
          /\ upc' = "deliver" /\ NoEnd
          /\ UNCHANGED breader
    /\ UNCHANGED <<msg, nobody, stage, hcalls, parsed, parser, ur, got,
                   destroyed>>

(* One block of body_seen to r; on failure end r, switch to FailAllRead,   *)
(* ntry = MAX_TRY, and go round the loop again.                            *)
SetBodyReader_deliver ==
    /\ upc = "deliver"
    /\ \E ok \in ReadOk(ur) :
         /\ Read(ur, Head(useen))
         /\ IF ok
            THEN /\ useen' = Tail(useen)
                 /\ upc' = IF Len(useen) > 1 THEN "deliver" ELSE "loop"
                 /\ NoEnd /\ UNCHANGED <<ur, ntry>>
            ELSE /\ End(ur, "err")
                 /\ ur' = FailAll /\ ntry' = MAX_TRY
                 /\ useen' = <<>> /\ upc' = "loop"
    /\ UNCHANGED <<msg, nobody, stage, hcalls, body, breader, parsed, parser,
                   destroyed>>

(* Mutant of destroy: the installed reader is dropped without an end.     *)
destroy_silent ==
    /\ ~destroyed
    /\ ppc \in {"done", "dead"} /\ upc \in {"before", "done"}
    /\ destroyed' = TRUE
    /\ breader' = None
    /\ NoEnd
    /\ UNCHANGED <<msg, nobody, stage, hcalls, body, parsed, parser, user, got>>

(***************************************************************************)
(* ~HttpMessage, once neither thread is inside the message: a reader still *)
(* installed gets OnEndOfMessage(ECONNRESET).                              *)
(***************************************************************************)
destroy ==
    /\ ~destroyed
    /\ ppc \in {"done", "dead"} /\ upc \in {"before", "done"}
    /\ destroyed' = TRUE
    /\ breader' = None
    /\ IF breader # None THEN End(breader, "reset") ELSE NoEnd
    /\ UNCHANGED <<msg, nobody, stage, hcalls, body, parsed, parser, user, got>>

ParseFiber ==
    \/ on_url \/ on_status \/ on_header_field \/ on_header_value
    \/ on_headers_complete \/ OnBody \/ OnBody_wake \/ OnBody_flush
    \/ OnBody_deliver \/ OnMessageComplete \/ OnMessageComplete_end

UserThread == SetBodyReader_loop \/ SetBodyReader_deliver

Next == ParseFiber \/ broken \/ SetBodyReader \/ UserThread \/ destroy

Spec == Init /\ [][Next]_vars

(***************************************************************************)
(* OnBody's sleep loop wakes every 10ms, and a user thread inside          *)
(* SetBodyReader runs it to the end: neither blocks on anything but        *)
(* _body_mutex.  Whether the user calls SetBodyReader at all, and whether  *)
(* more of the message arrives, is not assumed.                            *)
(***************************************************************************)
FairSpec == Spec /\ WF_vars(OnBody_wake) /\ WF_vars(UserThread)

-----------------------------------------------------------------------------

(***************************************************************************)
(* The user's reader receives the body from its first part, in parsing     *)
(* order, with no part lost or repeated, although SetBodyReader, OnBody's  *)
(* flush and OnMessageComplete's flush all hand parts to it.               *)
(***************************************************************************)
PartsInOrder == got = [i \in 1..Len(got) |-> i]

(***************************************************************************)
(* A reader told that the message ended successfully has received the      *)
(* whole body: the parts SetBodyReader left in _body when it gave up after *)
(* MAX_TRY are flushed by OnMessageComplete first.                         *)
(***************************************************************************)
WholeBodyOnOk ==
    est = "ok" => stage = HTTP_ON_MESSAGE_COMPLETE /\ got = [i \in 1..parsed |-> i]

(***************************************************************************)
(* A reader SetBodyReader accepted is ended by the time the message is     *)
(* complete or destroyed: it is never left installed and forgotten.        *)
(***************************************************************************)
NoOrphanReader == (destroyed \/ ppc = "done") /\ upc = "done" => ends = 1

(***************************************************************************)
(* Once the user has called SetBodyReader, OnBody does not sleep for good: *)
(* the call drains _body or installs the reader, which is what ends        *)
(* OnBody's wait for a full _body.                                         *)
(***************************************************************************)
WaitEnds == [](ppc = "wait" /\ upc # "before" => <>(ppc # "wait"))

(***************************************************************************)
(* The user thread and the parse fiber never call the reader at the same   *)
(* time: SetBodyReader installs it only after its own deliveries.          *)
(***************************************************************************)
NoConcurrentReads ==
    ~(ppc \in {"flush", "cflush", "deliver"} /\ pr = User
      /\ upc = "deliver" /\ ur = User)
=============================================================================
