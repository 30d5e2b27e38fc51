----------------------------- MODULE OtaDownload -----------------------------
(***************************************************************************)
(* The download of an ESP32 image (ota_task in fw_ota.c) over the HTTPS    *)
(* OTA component (esp_https_ota.c): attempts that resume where the last    *)
(* one stopped, what a server may answer to them, what is accepted of it   *)
(* (fw_ota_http_policy.c), the time cap, and the check of what was written *)
(* before it is selected.  Bytes come in units; a byte in flash knows      *)
(* which object it was read from and at which offset.                      *)
(***************************************************************************)
EXTENDS Integers, Sequences

CONSTANTS Len_,          \* s_image_len
          Header,        \* IMAGE_HEADER_SIZE
          ResumeMin,     \* FW_OTA_RESUME_MIN
          MaxAttempts,   \* FW_OTA_MAX_ATTEMPTS
          TimeCap,       \* FW_OTA_TIMEOUT_S
          StallLimit,    \* 90 s without progress
          Buffer,        \* what one read can take
          MaxHops        \* redirects in a behaviour

OtaDownloadConstants ==
    /\ {Len_, Header, ResumeMin, MaxAttempts, TimeCap, StallLimit, Buffer} \subseteq Nat \ {0}
    /\ MaxHops \in Nat

Commanded == 1           \* the object whose digest was commanded
Offsets == 0..(Len_ - 1)
NoBody == [ver |-> 0, from |-> 0, left |-> 0]

VARIABLES pc, attempt, checkpoint, offset, \* of ota_task; offset is diag.requested_offset
          lib,       \* the OTA handle: [resumption, pos, state]
          fallback,  \* diag.range_fallback
          body,      \* what the connection still has to deliver
          now, idle, \* time, and how long nothing was written
          flash, boot, \* the update partition, and whether it is selected
          object,    \* what the server has under the URL
          hops,
          dropped    \* history: progress was given up although the server took the range
vars == <<pc, attempt, checkpoint, offset, lib, fallback, body, now, idle, flash, boot, object, hops, dropped>>

Handle(resumption, pos, state) == [resumption |-> resumption, pos |-> pos, state |-> state]
NoHandle == Handle(FALSE, 0, "none")

Init == /\ pc = "attempt" /\ attempt = 1 /\ checkpoint = 0 /\ offset = 0 /\ lib = NoHandle /\ fallback = FALSE
        /\ body = NoBody /\ now = 0 /\ idle = 0 /\ flash = [i \in Offsets |-> <<0, i>>] /\ boot = FALSE
        /\ object = Commanded /\ hops = 0 /\ dropped = FALSE

-----------------------------------------------------------------------------
\* The headers of a response, one after the other; two at most say anything.
NoResponse(status) == [status |-> status, invalid |-> FALSE, lengths |-> 0, ranges |-> 0,
                       length |-> 0, first |-> 0, last |-> 0, total |-> 0]
LengthIs(n) == [key |-> "length", n |-> n]
RangeIs(f, l, t) == [key |-> "range", first |-> f, last |-> l, total |-> t]
Other(key) == [key |-> key]    \* "encoding": not identity; "transfer": chunked; "garbled": a value that does not parse
Plain == Other("plain")        \* any header of no concern

fw_ota_http_header(r, h) ==
    CASE h.key = "length" -> IF r.lengths = 0 THEN [r EXCEPT !.lengths = 1, !.length = h.n] ELSE [r EXCEPT !.invalid = TRUE]
      [] h.key = "range" -> IF r.ranges = 0 THEN [r EXCEPT !.ranges = 1, !.first = h.first, !.last = h.last, !.total = h.total]
                                            ELSE [r EXCEPT !.invalid = TRUE]
      [] h.key \in {"encoding", "transfer", "garbled"} -> [r EXCEPT !.invalid = TRUE]
      [] OTHER -> r
Response(a) == fw_ota_http_header(fw_ota_http_header(NoResponse(a.status), a.headers[1]), a.headers[2])

ResponseValidAnywhere(r, off) ==
    /\ ~r.invalid /\ off < Len_ /\ r.lengths = 1 /\ r.length = Len_ - off
    /\ IF off = 0 THEN r.status = 200 /\ r.ranges = 0
                  ELSE off >= ResumeMin /\ r.status = 206 /\ r.ranges = 1 /\ r.total = Len_
fw_ota_http_response_valid(r, off) ==
    /\ ~r.invalid /\ off < Len_ /\ r.lengths = 1 /\ r.length = Len_ - off
    /\ IF off = 0 THEN r.status = 200 /\ r.ranges = 0
                  ELSE /\ off >= ResumeMin /\ r.status = 206 /\ r.ranges = 1
                       /\ r.first = off /\ r.last = Len_ - 1 /\ r.total = Len_
fw_ota_http_status_retryable(status) == status \in {408, 429, 500, 502, 503, 504}

\* What a server may answer: the rest of an object, all of it, another part
\* of it, an object of another size, and all that is not an image.
Answer(status, from, count, headers) == [status |-> status, from |-> from, count |-> count, headers |-> headers]
Full(n) == Answer(200, 0, n, <<LengthIs(n), Plain>>)
Empty(status) == Answer(status, 0, 0, <<Plain, Plain>>)
Part(f, n, t) == Answer(206, f, n, <<LengthIs(n), RangeIs(f, f + n - 1, t)>>)
Answers(ranged, from) ==
    {Full(Len_), Full(Len_ + 1), Answer(200, 0, Len_, <<LengthIs(Len_), LengthIs(Len_)>>),
     Answer(200, 0, Len_, <<Other("transfer"), Plain>>), Answer(200, 0, Len_, <<LengthIs(Len_), Other("encoding")>>),
     Empty(404), Empty(503)}
    \cup (IF ranged THEN {Part(from, Len_ - from, Len_), Part(from, Len_ - from - 1, Len_), Part(0, Len_ - from, Len_),
                          Part(from, Len_ - from, Len_ + 1), Answer(206, from, Len_ - from, <<LengthIs(Len_ - from), Other("garbled")>>),
                          Empty(416)}
                    ELSE {})

-----------------------------------------------------------------------------
Due(t) == t >= TimeCap
Later(t) == t \in {now, IF now < TimeCap THEN now + 1 ELSE now}

esp_https_ota_abort == lib' = NoHandle /\ body' = NoBody
\* The task gives up: the handle is aborted, the slot is free again.
Fails == /\ pc' = "failed" /\ esp_https_ota_abort
         /\ UNCHANGED <<attempt, offset, fallback, idle, flash, boot, object, hops, dropped>>
NextAttempt == attempt' = attempt + 1
\* attempt_failed: the next attempt after a pause, if it may be retried and
\* there is time for it.
AttemptFails(retry, kept) ==
    /\ checkpoint' = kept
    /\ \/ (~retry \/ attempt = MaxAttempts \/ kept >= Len_ \/ Due(now')) /\ Fails
       \/ /\ retry /\ attempt < MaxAttempts /\ kept < Len_ /\ ~Due(now')
          /\ pc' = "attempt" /\ NextAttempt /\ esp_https_ota_abort
          /\ UNCHANGED <<offset, fallback, idle, flash, boot, object, hops>>
          /\ dropped' = (dropped \/ (kept < checkpoint /\ ~fallback))

\* The head of the loop and esp_https_ota_begin up to the connection.
Attempt ==
    /\ pc = "attempt"
    /\ \/ Due(now) /\ Fails /\ UNCHANGED <<checkpoint, now>>
       \/ /\ ~Due(now) /\ pc' = "connect" /\ fallback' = FALSE
          /\ checkpoint' = (IF checkpoint < ResumeMin THEN 0 ELSE checkpoint) /\ offset' = checkpoint'
          /\ lib' = Handle(offset' # 0, IF offset' >= Header THEN offset' ELSE 0, "none")
          /\ UNCHANGED <<attempt, body, now, idle, flash, boot, object, hops, dropped>>

\* _http_connect: no connection, a certificate that does not hold, a
\* redirect, or an answer.
NoConnection ==
    /\ pc = "connect" /\ Later(now')
    /\ \E retryable \in BOOLEAN : AttemptFails(retryable, checkpoint)
Redirected == /\ pc = "connect" /\ hops < MaxHops /\ hops' = hops + 1 /\ Later(now')
              /\ UNCHANGED <<pc, attempt, checkpoint, offset, lib, fallback, body, idle, flash, boot, object, dropped>>
\* _http_handle_response_code
RangeRefused(status) == status = 416 \/ (status < 400 /\ lib.resumption /\ status # 206)
\* ota_http_event on the status line
FallsBack(status) == fallback \/ (offset # 0 /\ status \in {200, 416})

RefusedOnce(a) ==     \* the component asks again without a range, from the start
    /\ RangeRefused(a.status) /\ lib.resumption /\ fallback' = FallsBack(a.status)
    /\ lib' = Handle(FALSE, 0, "none") /\ Later(now')
    /\ UNCHANGED <<pc, attempt, checkpoint, offset, body, idle, flash, boot, object, hops, dropped>>
Rejected(a) ==        \* begin() fails
    /\ ~(RangeRefused(a.status) /\ lib.resumption) /\ a.status >= 400 /\ Later(now')
    /\ AttemptFails(fw_ota_http_status_retryable(a.status), checkpoint)
Accepts(a) ==         \* begin() succeeds: is it what was asked for?
    /\ ~RangeRefused(a.status) /\ a.status < 400 /\ Later(now')
    /\ \/ Due(now') /\ AttemptFails(FALSE, checkpoint)
       \/ ~Due(now') /\ FallsBack(a.status) /\ AttemptFails(a.status \in {200, 206}, 0)
       \/ /\ ~Due(now') /\ ~FallsBack(a.status) /\ ~fw_ota_http_response_valid(Response(a), offset)
          /\ AttemptFails(FALSE, checkpoint)
       \/ /\ ~Due(now') /\ ~FallsBack(a.status) /\ fw_ota_http_response_valid(Response(a), offset)
          /\ pc' = "perform" /\ lib' = [lib EXCEPT !.state = IF lib.pos = 0 THEN "begin" ELSE "resume"]
          /\ body' = [ver |-> object, from |-> a.from, left |-> a.count] /\ idle' = 0
          /\ UNCHANGED <<attempt, checkpoint, offset, fallback, flash, boot, object, hops, dropped>>
Answered == pc = "connect" /\ \E a \in Answers(lib.resumption, lib.pos) : RefusedOnce(a) \/ Rejected(a) \/ Accepts(a)

-----------------------------------------------------------------------------
\* esp_https_ota_perform, in the loop of ota_task.
Performs == pc = "perform" /\ ~Due(now) /\ Later(now')
OutOfTime == pc = "perform" /\ Due(now) /\ UNCHANGED now /\ AttemptFails(FALSE, checkpoint)
_ota_write(at, n) ==
    /\ flash' = [i \in Offsets |-> IF i \in at..(at + n - 1) THEN <<body.ver, body.from + i - at>> ELSE flash[i]]
    /\ body' = [body EXCEPT !.from = @ + n, !.left = @ - n]
    /\ lib' = [lib EXCEPT !.pos = at + n, !.state = "progress"]

\* esp_ota_begin and read_header: the header is read whole or not at all.
read_header == lib.state = "begin" /\ body.left >= Header
Writes(at, n) ==
    /\ n <= body.left
    /\ \/ /\ _ota_write(at, n) /\ ~Due(now') /\ at + n \in checkpoint..Len_ /\ checkpoint' = at + n /\ idle' = 0
          /\ UNCHANGED <<pc, attempt, offset, fallback, boot, object, hops, dropped>>
       \/ /\ ~(~Due(now') /\ at + n \in checkpoint..Len_)    \* too late, or a count that cannot be
          /\ flash' = [i \in Offsets |-> IF i \in at..(at + n - 1) THEN <<body.ver, body.from + i - at>> ELSE flash[i]]
          /\ pc' = "failed" /\ esp_https_ota_abort
          /\ UNCHANGED <<attempt, checkpoint, offset, fallback, idle, boot, object, hops, dropped>>
HeaderComes == Performs /\ read_header /\ Writes(0, Header)
DataComes == Performs /\ lib.state \in {"resume", "progress"} /\ \E n \in 1..Buffer : Writes(lib.pos, n)

\* The connection breaks, or the header does not come in time: retried.
\* A failing flash operation is not.
Breaks == Performs /\ body.left > 0 /\ AttemptFails(TRUE, checkpoint)
FlashFails == Performs /\ AttemptFails(FALSE, checkpoint)
\* A read times out: nothing happens until it has gone on for too long.
Stalls ==
    /\ pc = "perform" /\ ~Due(now) /\ body.left > 0 /\ now' = now + 1 /\ lib.state # "begin"
    /\ \/ Due(now') /\ AttemptFails(FALSE, checkpoint)
       \/ ~Due(now') /\ idle + 1 >= StallLimit /\ AttemptFails(TRUE, checkpoint)
       \/ /\ ~Due(now') /\ idle + 1 < StallLimit /\ idle' = idle + 1 /\ lib' = [lib EXCEPT !.state = "progress"]
          /\ UNCHANGED <<pc, attempt, checkpoint, offset, fallback, body, flash, boot, object, hops, dropped>>
\* All of the body is read.
Completes ==
    /\ Performs /\ body.left = 0
    /\ \/ (Due(now') \/ checkpoint # Len_) /\ AttemptFails(~Due(now') /\ checkpoint < Len_, checkpoint)
       \/ /\ ~Due(now') /\ checkpoint = Len_ /\ pc' = "verify" /\ lib' = [lib EXCEPT !.state = "success"]
          /\ UNCHANGED <<attempt, checkpoint, offset, fallback, body, idle, flash, boot, object, hops, dropped>>

-----------------------------------------------------------------------------
\* The digest of what is in flash, and esp_https_ota_finish.
Matches == \A i \in Offsets : flash[i] = <<Commanded, i>>
verify_written_image ==
    /\ pc = "verify" /\ Later(now')
    /\ \/ (Due(now) \/ ~Matches \/ Due(now')) /\ Fails /\ UNCHANGED checkpoint
       \/ /\ ~Due(now) /\ Matches /\ ~Due(now') /\ pc' = "finish"
          /\ UNCHANGED <<attempt, checkpoint, offset, lib, fallback, body, idle, flash, boot, object, hops, dropped>>
esp_https_ota_finish ==
    /\ pc = "finish" /\ UNCHANGED <<checkpoint, now>>
    /\ \/ Fails
       \/ /\ boot' = TRUE /\ pc' = "restart" /\ lib' = NoHandle /\ body' = NoBody
          /\ UNCHANGED <<attempt, offset, fallback, idle, flash, object, hops, dropped>>

\* Somebody puts another image of the same size under the URL.
Replaced == /\ object = Commanded /\ pc = "connect" /\ object' = Commanded + 1
            /\ UNCHANGED <<pc, attempt, checkpoint, offset, lib, fallback, body, now, idle, flash, boot, hops, dropped>>

Task == \/ Attempt \/ NoConnection \/ Redirected \/ Answered \/ OutOfTime \/ HeaderComes \/ DataComes \/ Breaks
        \/ FlashFails \/ Stalls \/ Completes \/ verify_written_image \/ esp_https_ota_finish
Next == Task \/ Replaced
Spec == Init /\ [][Next]_vars /\ WF_vars(Task)

-----------------------------------------------------------------------------
TypeOK == /\ pc \in {"attempt", "connect", "perform", "verify", "finish", "restart", "failed"}
          /\ attempt \in 1..MaxAttempts /\ {checkpoint, offset} \subseteq 0..Len_ /\ now \in 0..TimeCap /\ idle \in 0..StallLimit
          /\ hops \in 0..MaxHops /\ {fallback, boot, dropped} \subseteq BOOLEAN

\* Everything up to the checkpoint stands where it belongs, whatever attempts
\* and servers it came from: ranges that were ignored, shifted or shortened
\* leave no trace.
PrefixRight == \A i \in 0..(checkpoint - 1) : flash[i][1] # 0 /\ flash[i][2] = i

\* What is selected for booting is the commanded image, though the object may
\* have been replaced between two attempts.
BootsExact == boot => Matches

\* An attempt goes on where the last one stopped unless the server refused.
KeepsProgress == ~dropped

DownloadSound == TypeOK /\ PrefixRight /\ BootsExact /\ KeepsProgress

\* The download ends, with a restart or with a failure that frees the slot.
DownloadEnds == <>(pc \in {"restart", "failed"})
=============================================================================
