------------------------------ MODULE FwRelay ------------------------------
(***************************************************************************)
(* The ESP32 relays an image it downloads to the RP2040: relay_task and    *)
(* xfer_send_req of fw_ota.c, fw_ota_xfer_on_resp on the receiver task,    *)
(* the UART between them, and the receiver of FwUpdate.  The UART keeps    *)
(* order but loses frames (the RP2040 is deaf while it writes flash); an   *)
(* answer may come after its waiter gave up, and the receiver task may be  *)
(* preempted between checking an answer and handing it over.               *)
(***************************************************************************)
EXTENDS FwUpdate

CONSTANTS
    Update,        \* the image relayed
    MaxRelays,     \* bound: update commands
    MaxWire        \* bound: frames buffered in one direction

FwRelayConstants == Update \in Images /\ MaxRelays \in Nat /\ MaxWire \in Nat

VARIABLES
    relay,      \* where relay_task is
    attempt,    \* attempt of xfer_send_req
    sent,       \* chunks acknowledged
    seq,        \* the last SEQ used
    armed, respOp, respResult, sig,   \* s_resp_*, the semaphore s_resp_sig
    handing,    \* the answer the receiver task has checked and is about to hand over
    helloSeen,  \* s_rp2040_hello_count # hello0
    outcome,    \* the last status emitted
    down, up,   \* frames on the UART, to and from the RP2040
    answering,  \* the END the RP2040 is working on
    relays,
    armedFor    \* history: the relay during which the RP2040 last armed an image

task == <<relay, attempt, sent, seq, outcome, relays>>
waiter == <<armed, respOp, respResult, sig>>
relayvars == <<task, waiter, handing, helloSeen>>
wire == <<down, up>>
vars == <<fwvars, relayvars, wire, answering, armedFor>>

Nobody == [op |-> "none", offset |-> 0, seq |-> 0]
NoAnswer == [seq |-> 0, result |-> "none"]
Hello == [op |-> "hello", seq |-> 0, result |-> "ok"]

RelayInit ==
    /\ Init
    /\ relay = "idle" /\ attempt = 1 /\ sent = 0 /\ seq = 0 /\ outcome = "none" /\ relays = 0
    /\ armed = FALSE /\ respOp = "none" /\ respResult = "none" /\ sig = FALSE
    /\ handing = NoAnswer /\ helloSeen = FALSE
    /\ down = <<>> /\ up = <<>>
    /\ answering = Nobody /\ armedFor = 0

\* A frame sent arrives behind those on the way, or not at all.
Sends(channel, frame) ==
    IF Len(channel) < MaxWire THEN {channel, Append(channel, frame)} ELSE {channel}

\* The operation code on the wire: END commits or aborts.
WireOp(op) == IF op \in {"commit", "abort"} THEN "end" ELSE op

(***************************************************************************)
(* xfer_send_req: drain the semaphore, arm, send.                          *)
(***************************************************************************)
SendReq(op, offset) ==
    /\ seq' = seq + 1
    /\ armed' = TRUE /\ respOp' = WireOp(op) /\ respResult' = "timeout" /\ sig' = FALSE
    /\ down' \in Sends(down, [op |-> op, offset |-> offset, seq |-> seq'])

Request(op, offset) ==
    /\ relay' = op
    /\ attempt' = 1
    /\ SendReq(op, offset)

(***************************************************************************)
(* relay_task                                                              *)
(***************************************************************************)
RelayStart ==
    /\ relay = "idle" /\ relays < MaxRelays
    /\ relays' = relays + 1
    /\ outcome' = "started"
    /\ sent' = 0
    /\ Request("begin", 0)
    /\ UNCHANGED <<fwvars, handing, helloSeen, up, answering, armedFor>>

\* The request is over: its waiter is disarmed, its signal consumed.
Proceed(next) ==
    /\ relay' = next
    /\ armed' = FALSE /\ sig' = FALSE
    /\ UNCHANGED <<attempt, seq, respOp, respResult, down>>

\* What the result of a request leads to; "timeout": neither attempt was
\* answered.  Once the session is open a failure aborts it; a failed commit
\* leaves no session to abort.
Concludes(result) ==
    \/ relay = "begin" /\ result = "ok" /\ Proceed("fetch") /\ UNCHANGED <<sent, outcome>>
    \/ relay = "data" /\ result = "ok" /\ Proceed("fetch") /\ sent' = sent + 1 /\ UNCHANGED outcome
    \/ relay = "commit" /\ result = "ok" /\ Proceed("hello") /\ UNCHANGED <<sent, outcome>>
    \/ relay = "data" /\ result # "ok" /\ Request("abort", 0) /\ UNCHANGED <<sent, outcome>>
    \/ /\ relay = "abort" \/ (relay \in {"begin", "commit"} /\ result # "ok")
       /\ Proceed("idle") /\ outcome' = "failed" /\ UNCHANGED sent

Waiting == relay \in {"begin", "data", "commit", "abort"}

RelayTakes ==
    /\ Waiting /\ sig
    /\ Concludes(respResult)
    /\ UNCHANGED <<fwvars, handing, helloSeen, up, answering, relays, armedFor>>

\* A time-out is seconds long and a hand-over microseconds: it may begin before
\* the one and end after it, but a request sent meanwhile does not time out too.
TimedOut == Waiting /\ ~sig /\ handing.seq \in {NoAnswer.seq, seq}

RelayRetries ==
    /\ TimedOut /\ attempt = 1
    /\ attempt' = 2
    /\ SendReq(relay, sent)
    /\ UNCHANGED <<fwvars, relay, sent, outcome, relays, handing, helloSeen, up, answering, armedFor>>

RelayTimesOut ==
    /\ TimedOut /\ attempt = 2
    /\ Concludes("timeout")
    /\ UNCHANGED <<fwvars, handing, helloSeen, up, answering, relays, armedFor>>

\* The next chunk was downloaded, or all were and their digest matches; the
\* hello counter is read before the commit.
RelaySends ==
    /\ relay = "fetch"
    /\ \/ sent < Chunks /\ Request("data", sent) /\ UNCHANGED helloSeen
       \/ sent = Chunks /\ Request("commit", sent) /\ helloSeen' = FALSE
    /\ UNCHANGED <<fwvars, sent, outcome, relays, handing, up, answering, armedFor>>

\* The download fails, its digest is wrong, or the time is up.
RelayGivesUp ==
    /\ relay = "fetch"
    /\ Request("abort", 0)
    /\ UNCHANGED <<fwvars, sent, outcome, relays, handing, helloSeen, up, answering, armedFor>>

RelayHello ==
    /\ relay = "hello"
    /\ \/ helloSeen /\ outcome' = "done"
       \/ ~helloSeen /\ outcome' = "failed"     \* FW_RELAY_HELLO_TIMEOUT_MS
    /\ relay' = "idle"
    /\ UNCHANGED <<fwvars, attempt, sent, seq, relays, waiter, handing, helloSeen, wire,
                   answering, armedFor>>

(***************************************************************************)
(* The ESP32's receiver task: fw_ota_xfer_on_resp checks, then hands over; *)
(* a hello bumps its counter.                                              *)
(***************************************************************************)
RxFrame ==
    /\ handing = NoAnswer /\ up # <<>>
    /\ LET f == Head(up) IN
         /\ helloSeen' = (helloSeen \/ f.op = "hello")
         /\ handing' = IF armed /\ f.op = respOp /\ f.seq = seq
                       THEN [seq |-> f.seq, result |-> f.result] ELSE NoAnswer
    /\ up' = Tail(up)
    /\ UNCHANGED <<fwvars, task, waiter, down, answering, armedFor>>

RxHandsOver ==
    /\ handing # NoAnswer
    /\ respResult' = handing.result
    /\ armed' = FALSE
    /\ sig' = TRUE
    /\ handing' = NoAnswer
    /\ UNCHANGED <<fwvars, task, respOp, helloSeen, wire, answering, armedFor>>

(***************************************************************************)
(* The RP2040: its dispatcher takes a frame, answers it, and answers END   *)
(* once the image is armed or was refused.                                 *)
(***************************************************************************)
Reply(f, result) == up' \in Sends(up, [op |-> WireOp(f.op), seq |-> f.seq, result |-> result])

RpHandles ==
    /\ down # <<>>
    /\ down' = Tail(down)
    /\ LET f == Head(down) IN
         \/ /\ \/ f.op = "begin" /\ BeginOk(Update)
               \/ f.op = "data" /\ DataOk(Update, f.offset)
               \/ f.op = "abort" /\ EndAborts
            /\ Reply(f, "ok")
            /\ UNCHANGED answering
         \/ /\ \/ f.op = "begin" /\ BeginFails
               \/ f.op = "data" /\ (DataRefused(f.offset) \/ DataFails(f.offset))
               \/ f.op = "abort" /\ EndRefused
               \/ f.op = "commit" /\ (EndRefused \/ EndFails)
            /\ Reply(f, "refused")
            /\ UNCHANGED answering
         \/ /\ f.op = "commit" /\ EndFlushes
            /\ answering' = f
            /\ UNCHANGED up
    /\ UNCHANGED <<relayvars, armedFor>>

\* Mutant: END is answered OK although the bootloader could not be armed.
RpAnswersAlike ==
    /\ \/ Arm /\ Reply(answering, "ok") /\ armedFor' = relays
       \/ VerifyFails /\ Reply(answering, "refused") /\ UNCHANGED armedFor
       \/ /\ CleanupFiles /\ answering # Nobody
          /\ Reply(answering, "ok") /\ UNCHANGED armedFor
    /\ answering' = Nobody
    /\ UNCHANGED <<relayvars, down>>

RpAnswers ==
    /\ \/ Arm /\ Reply(answering, "ok") /\ armedFor' = relays
       \/ VerifyFails /\ Reply(answering, "refused") /\ UNCHANGED armedFor
       \/ /\ CleanupFiles /\ answering # Nobody     \* after ArmFails
          /\ Reply(answering, "refused") /\ UNCHANGED armedFor
    /\ answering' = Nobody
    /\ UNCHANGED <<relayvars, down>>

\* setup() says hello, then calls fw_update_boot_init.
RpBoots ==
    /\ Applied \/ BootNormal
    /\ up' \in Sends(up, Hello)
    /\ UNCHANGED <<relayvars, down, answering, armedFor>>

RpRestarts ==
    /\ Reboot \/ RestageReboots \/ PowerCut \/ Crash
    /\ answering' = Nobody
    /\ UNCHANGED <<relayvars, wire, armedFor>>

RpWorks ==
    /\ \/ Apply \/ MountFails \/ BootPending \/ BootClean
       \/ RestageArms \/ RestageReturns \/ CleanupMarker
       \/ CleanupFiles /\ answering = Nobody
       \/ SnapshotBegins \/ Snapshot \/ WriteMarker \/ ArmFails
       \/ TickIdle \/ TickWindow \/ NoteFrameOk \/ OtherFrame
    /\ UNCHANGED <<relayvars, wire, answering, armedFor>>

RelayStep == RelayTakes \/ RelayRetries \/ RelayTimesOut \/ RelaySends \/ RelayGivesUp \/ RelayHello

Next ==
    \/ RelayStart \/ RelayStep
    \/ RxFrame \/ RxHandsOver
    \/ RpHandles \/ RpAnswers \/ RpBoots \/ RpRestarts \/ RpWorks

RelaySpec == RelayInit /\ [][Next]_vars

\* Every wait of relay_task has a time-out; nothing is assumed of the RP2040,
\* of the link or of further commands.
RelayFairSpec == RelaySpec /\ WF_vars(RelayStep) /\ WF_vars(RxHandsOver)

(***************************************************************************)
(* Properties                                                              *)
(***************************************************************************)

\* The types, and: an answer is expected only while a request is under way.
RelayTypeOK ==
    /\ TypeOK
    /\ relay \in {"idle", "begin", "fetch", "data", "commit", "abort", "hello"}
    /\ attempt \in 1..2 /\ sent \in 0..Chunks /\ seq \in Nat /\ relays \in 0..MaxRelays
    /\ armed \in BOOLEAN /\ sig \in BOOLEAN /\ helloSeen \in BOOLEAN
    /\ armed => Waiting
    /\ respOp \in {"none", "begin", "data", "end"}
    /\ {respResult, handing.result} \subseteq {"none", "timeout", "ok", "refused"}
    /\ outcome \in {"none", "started", "failed", "done"}
    /\ Len(down) <= MaxWire /\ Len(up) <= MaxWire
    /\ armedFor \in 0..MaxRelays

\* Lost frames, late answers, retries and an answer handed over after its
\* waiter gave up never get sender and receiver out of step: what is staged is
\* the image from its start, in order, and the relay counts a chunk only if
\* the receiver of this session has it.
SenderInStep ==
    open =>
        /\ stage \o buf = SubSeq(Full(Update), 1, received)
        /\ relay = "data" => received \in {sent, sent + 1}
        /\ relay \in {"fetch", "commit"} => received = sent

\* "rebooting" and "done" are reported only if the RP2040 armed an image
\* during this relay; an old answer, an old hello or a rejected image is not
\* taken for success.
SuccessIsReal == relay = "hello" \/ outcome = "done" => armedFor = relays

\* The relay ends, and with it the hold on the modem watchdog, whatever the
\* RP2040 does or fails to answer.
RelayEnds == (relay # "idle") ~> (relay = "idle")

\* fw_ota.c:73 on the relay's time-outs: "END (commit=1) gets a single, longer
\* wait".
SingleCommitRequest == relay = "commit" => attempt = 1
=============================================================================
