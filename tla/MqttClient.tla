----------------------------- MODULE MqttClient -----------------------------
(***************************************************************************)
(* The SDK's service task in the bounded mode of this project's patch      *)
(* (espressif__mqtt): one slice at a time under the API lock, an outbox of *)
(* packets, a staged queue of frames, partial and suspended TLS writes,    *)
(* PING with its bounded grace, and a deadline on every operation.  The    *)
(* device publishes with QoS 0 and 1 and reconnects by itself (mqtt.c).    *)
(* Deadlines are kept as the time that is left.                            *)
(***************************************************************************)
EXTENDS Integers, Sequences, SequencesExt, FiniteSets

CONSTANTS
    Messages,       \* uplinks, 1..n, in the order the application makes them
    Qos0,           \* those of QoS 0 (packet id 0)
    NETWORK_TIMEOUT, HALF_KEEPALIVE, RETRANSMIT, EXPIRED,
    GRACE,                      \* MQTT_SERVICE_PING_GRACE_MS, in slices
    GRACE_PACKETS, RX_PACKETS,  \* MQTT_SERVICE_*
    NORMAL_TX_FRAMES,
    MaxInbound, MaxUnsent,      \* bounds: packets under way to the device and from it
    MaxConnects                 \* bound: connections

MqttClientConstants == Messages \subseteq Nat \ {0} /\ NETWORK_TIMEOUT \in Nat

VARIABLES
    conn,       \* state, connect_phase and the deadline of the phase
    service,    \* staged frames
    ping,       \* wait_for_ping_resp, ping_queued, its deadline and grace
    idle,       \* time until last_tx_ms is half a keepalive ago
    rxdl,       \* rx_deadline_ms
    suspended,  \* the transport's write_want
    outbox,
    bits,       \* status_bits
    pc, reads,  \* where the slice is; packets it may still read
    ran,        \* the task has had a slice in this unit of time
    inb, up,    \* packets under way from and to the broker
    peer,       \* "up", or "gone": the path is dead and nobody says so
    got,        \* messages the broker has
    app         \* next message; those written in full, expired, purged; connections made
vars == <<conn, service, ping, idle, rxdl, suspended, outbox, bits, pc, reads, ran,
          inb, up, peer, got, app>>

TX_FRAMES == GRACE_PACKETS + 4
Off == -1
NoPing == [wait |-> FALSE, queued |-> FALSE, dl |-> Off, grace |-> Off, packets |-> 0,
           had |-> FALSE,    \* history: PINGRESP was among the packets the grace is for
           slow |-> FALSE]   \* history: the grace lost time: a slice ran out, or none came

Init ==
    /\ conn = [state |-> "init", phase |-> 0, dl |-> Off]
    /\ service = <<>> /\ ping = NoPing /\ idle = Off /\ rxdl = Off /\ suspended = FALSE
    /\ outbox = <<>> /\ bits = {} /\ pc = "idle" /\ reads = 0 /\ ran = FALSE
    /\ inb = <<>> /\ up = <<>> /\ peer = "up" /\ got = {}
    /\ app = [next |-> 1, written |-> {}, expired |-> {}, purged |-> {}, conns |-> 0]

----------------------------------------------------------------------------
\* The outbox (mqtt_outbox.c)

PacketId(m) == IF m \in Qos0 THEN 0 ELSE m
outbox_enqueue(m) == Append(outbox, [m |-> m, id |-> PacketId(m), pending |-> "QUEUED", age |-> 0])
First(P(_)) == SelectInSeq(outbox, P)     \* 0: there is none
outbox_get(id) == First(LAMBDA i : i.id = id)
outbox_dequeue(pending) == First(LAMBDA i : i.pending = pending)
outbox_delete_item(k) == RemoveAt(outbox, k)
\* What is not too old, in its order: the n-th that stays is the one with n of
\* those that stay up to it.
Young == {k \in DOMAIN outbox : outbox[k].age <= EXPIRED}
YoungUpTo(k) == Cardinality({i \in Young : i <= k})
outbox_delete_expired ==
    [n \in 1..Cardinality(Young) |-> outbox[CHOOSE k \in Young : YoungUpTo(k) = n]]
Held(box) == {box[k].m : k \in DOMAIN box}
Sent(k) == [outbox EXCEPT ![k].age = 0, ![k].pending = "TRANSMITTED"]

----------------------------------------------------------------------------
\* Staged frames (mqtt_service.c)

Frame(kind, m, len) ==
    [kind |-> kind, m |-> m, len |-> len, dl |-> NETWORK_TIMEOUT]
FromOutbox(f) == f.kind = "PUBLISH"
mqtt_service_push(f) == Append(service, f)
Staged == \E k \in DOMAIN service : FromOutbox(service[k])
can_read == ~suspended

----------------------------------------------------------------------------
\* One slice of esp_mqtt_task.  The lock is held while pc # "idle".

Unlock == pc' = "idle" /\ ran' = TRUE /\ reads' = 0

\* esp_mqtt_abort_connection: what was written may or may not have arrived.
Abort ==
    /\ conn' = [state |-> "wait", phase |-> 0, dl |-> Off]
    /\ service' = <<>> /\ ping' = NoPing /\ rxdl' = Off /\ suspended' = FALSE /\ idle' = Off
    /\ inb' = <<>> /\ up' = <<>> /\ Unlock
    /\ \E k \in 0..Len(up) :
         got' = got \cup (IF peer = "up" THEN {up[j].m : j \in {i \in 1..k : up[i].kind = "PUBLISH"}}
                          ELSE {})
Link == <<inb, up, got>>

\* mqtt_delete_expired_messages: not while a frame of the outbox is staged.
DeleteExpired ==
    /\ outbox' = IF Staged THEN outbox ELSE outbox_delete_expired
    /\ app' = [app EXCEPT !.expired = @ \cup (Held(outbox) \ Held(outbox'))]

Begin ==
    /\ pc = "idle" /\ conn.state # "stopped" /\ DeleteExpired
    /\ pc' = conn.state
    /\ UNCHANGED <<conn, service, ping, idle, rxdl, suspended, bits, reads, ran, peer>> /\ UNCHANGED Link

StartConnect ==
    /\ pc = "init" /\ app.conns < MaxConnects
    /\ bits' = {} /\ service' = <<>> /\ suspended' = FALSE
    /\ conn' = [state |-> "connect", phase |-> 0, dl |-> NETWORK_TIMEOUT]
    /\ app' = [app EXCEPT !.conns = @ + 1]
    /\ Unlock /\ UNCHANGED <<ping, idle, rxdl, outbox, peer>> /\ UNCHANGED Link

\* No transport: the task ends, and the outbox with it.
InitFails ==
    /\ pc = "init"
    /\ conn' = [conn EXCEPT !.state = "stopped"]
    /\ app' = [app EXCEPT !.purged = @ \cup Held(outbox)]
    /\ outbox' = <<>> /\ service' = <<>> /\ bits' = {}
    /\ Unlock /\ UNCHANGED <<ping, idle, rxdl, suspended, peer>> /\ UNCHANGED Link

\* esp_mqtt_client_start, on a client whose task has ended.
Start ==
    /\ conn.state = "stopped" /\ conn' = [conn EXCEPT !.state = "init"]
    /\ UNCHANGED <<service, ping, idle, rxdl, suspended, outbox, bits, pc, reads, ran, peer, app>> /\ UNCHANGED Link

\* A suspended or new write of at most one chunk (mqtt_transport_nb_write).
WriteOutcomes == {"sent", "late", "want", "unready", "failed"}

\* mqtt_bounded_tx_step: the head frame's deadline, the write, what a frame
\* that is out in full means for PING and for its outbox item.
Completed(f) ==
    /\ service' = Tail(service) /\ idle' = HALF_KEEPALIVE
    /\ ping' = IF f.kind = "PINGREQ"
               THEN [NoPing EXCEPT !.wait = TRUE, !.dl = HALF_KEEPALIVE]
               ELSE IF ping.wait /\ ping.dl = 0
               THEN [ping EXCEPT !.grace = GRACE, !.packets = GRACE_PACKETS, !.slow = FALSE,
                                 !.had = "PINGRESP" \in {inb[k].kind : k \in 1..GRACE_PACKETS \cap DOMAIN inb}]
               ELSE ping
    /\ LET k == outbox_get(PacketId(f.m))
       IN outbox' = IF ~FromOutbox(f) \/ k = 0 THEN outbox
                    ELSE IF f.m \in Qos0 THEN outbox_delete_item(k) ELSE Sent(k)
    /\ up' = IF f.kind = "PUBACK" THEN up ELSE Append(up, [kind |-> f.kind, m |-> f.m])
    /\ app' = IF FromOutbox(f) THEN [app EXCEPT !.written = @ \cup {f.m}] ELSE app

Waits == /\ Unlock /\ UNCHANGED <<conn, service, ping, idle, outbox, app>> /\ UNCHANGED Link

TxHead(w) ==
    LET f == Head(service)
    IN /\ service # <<>> /\ f.dl > 0
       /\ \/ /\ w \in {"want", "unready"} /\ suspended' = (suspended \/ w = "want") /\ Waits
             /\ UNCHANGED rxdl
          \/ /\ w = "sent" /\ f.len > 1 /\ suspended' = FALSE
             /\ service' = [service EXCEPT ![1].len = 1]
             /\ Unlock /\ UNCHANGED <<conn, ping, idle, outbox, app, rxdl>> /\ UNCHANGED Link
          \/ /\ w = "sent" /\ f.len = 1 /\ Len(up) < MaxUnsent /\ suspended' = FALSE /\ Completed(f)
             /\ Unlock /\ UNCHANGED <<conn, inb, got, rxdl>>
          \/ /\ w = "late" /\ f.dl = 1   \* the whole of it went out, but too late
             /\ Abort /\ UNCHANGED <<outbox, app>>
          \/ w = "failed" /\ Abort /\ UNCHANGED <<outbox, app>>
TxNothing == service = <<>> /\ Waits /\ UNCHANGED <<rxdl, suspended>>
TxExpired == service # <<>> /\ Head(service).dl = 0 /\ Abort /\ UNCHANGED <<outbox, app>>

----------------------------------------------------------------------------
\* mqtt_bounded_connect: DNS, TCP and TLS; then CONNECT; then CONNACK

ConnectCut ==
    /\ pc = "connect" /\ ("DISCONNECT" \in bits \/ conn.dl = 0)
    /\ bits' = bits \ {"DISCONNECT"} /\ Abort /\ UNCHANGED <<outbox, app, peer>>

Connecting == pc = "connect" /\ "DISCONNECT" \notin bits /\ conn.dl > 0

\* mqtt_transport_nb_connect: a name to resolve, a socket, a handshake.
Dial ==
    /\ Connecting /\ conn.phase = 0 /\ UNCHANGED <<bits, peer, outbox, app>>
    /\ \/ Waits /\ UNCHANGED <<rxdl, suspended>>
       \/ Abort
       \/ /\ peer = "up"
          /\ conn' = [conn EXCEPT !.phase = 1, !.dl = NETWORK_TIMEOUT]
          /\ service' = <<Frame("CONNECT", 0, 1)>>
          /\ Unlock /\ UNCHANGED <<ping, idle, rxdl, suspended>> /\ UNCHANGED Link

SendConnect ==
    /\ Connecting /\ conn.phase = 1 /\ UNCHANGED <<bits, peer>>
    /\ IF service # <<>> THEN \E w \in WriteOutcomes : TxHead(w)
       ELSE /\ conn' = [conn EXCEPT !.phase = 2, !.dl = NETWORK_TIMEOUT]
            /\ Unlock /\ UNCHANGED <<service, ping, idle, rxdl, suspended, outbox, app>> /\ UNCHANGED Link

ConnAck ==
    /\ Connecting /\ conn.phase = 2 /\ UNCHANGED <<bits, peer, outbox>>
    /\ IF inb = <<>> THEN Waits /\ UNCHANGED <<rxdl, suspended>>
       ELSE IF Head(inb).kind = "CONNACK"
       THEN /\ conn' = [state |-> "connected", phase |-> 0, dl |-> Off]
            /\ inb' = Tail(inb) /\ rxdl' = Off /\ idle' = HALF_KEEPALIVE
            /\ Unlock /\ UNCHANGED <<service, ping, suspended, up, got, app>>
       ELSE Abort /\ UNCHANGED app

----------------------------------------------------------------------------
\* mqtt_bounded_service

Expired == service # <<>> /\ Head(service).dl = 0
GraceDue == ping.wait /\ can_read /\ ping.dl = 0 /\ ping.grace = Off
\* One bounded chance for what is already in the socket.
Armed == IF GraceDue
         THEN [ping EXCEPT !.grace = GRACE, !.packets = GRACE_PACKETS, !.slow = FALSE,
                           !.had = "PINGRESP" \in {inb[k].kind : k \in 1..GRACE_PACKETS \cap DOMAIN inb}]
         ELSE ping
GraceOver == can_read /\ ping.wait /\ ping.grace # Off /\ (ping.grace = 0 \/ ping.packets = 0)

ServiceCut ==
    /\ pc = "connected"
    /\ Expired \/ "DISCONNECT" \in bits \/ (~GraceDue /\ GraceOver) \/ rxdl = 0
    /\ bits' = IF Expired THEN bits ELSE bits \ {"DISCONNECT"}
    /\ Abort /\ UNCHANGED <<outbox, app, peer>>

ServiceBegin ==
    /\ pc = "connected" /\ ~Expired /\ "DISCONNECT" \notin bits /\ rxdl # 0
    /\ GraceDue \/ ~GraceOver
    /\ ping' = Armed /\ pc' = "rx" /\ reads' = RX_PACKETS
    /\ UNCHANGED <<conn, service, idle, rxdl, suspended, outbox, bits, ran, peer, app>> /\ UNCHANGED Link

\* Mutant: the grace has no room of its own.
RxRoomNormal == Len(service) < NORMAL_TX_FRAMES

RxRoom == Len(service) < (IF ping.grace # Off THEN TX_FRAMES - 2 ELSE NORMAL_TX_FRAMES)

MayRead == can_read /\ reads > 0 /\ RxRoom /\ inb # <<>>

\* A downlink goes to the application and its PUBACK is staged.
Delivered(p) == IF p.kind = "PUBLISH" THEN mqtt_service_push(Frame("PUBACK", 0, 1)) ELSE service
\* remove_initiator_message: an answer to nothing that waits is ignored.
Acknowledged(p) ==
    LET k == IF p.kind = "PUBACK" THEN outbox_get(p.m) ELSE 0
    IN IF k = 0 THEN outbox ELSE outbox_delete_item(k)

\* mqtt_process_receive, for a complete packet.
Receive ==
    LET p == Head(inb)
        spent == IF ping.wait /\ ping.grace # Off /\ ping.packets > 0
                 THEN [ping EXCEPT !.packets = @ - 1] ELSE ping
    IN /\ pc = "rx" /\ MayRead /\ p.whole
       /\ inb' = Tail(inb) /\ reads' = reads - 1 /\ rxdl' = Off
       /\ ping' = IF p.kind = "PINGRESP" THEN [NoPing EXCEPT !.queued = ping.queued] ELSE spent
       /\ service' = Delivered(p) /\ outbox' = Acknowledged(p)
       /\ UNCHANGED <<conn, idle, suspended, bits, pc, ran, peer, up, got, app>>

\* The beginning of a packet: its deadline starts, and is never renewed.
ReceivePart ==
    /\ pc = "rx" /\ MayRead /\ ~Head(inb).whole
    /\ rxdl' = IF rxdl = Off THEN NETWORK_TIMEOUT ELSE rxdl
    /\ pc' = "out"
    /\ UNCHANGED <<conn, service, ping, idle, suspended, outbox, bits, reads, ran, peer, app>> /\ UNCHANGED Link

\* The peer closes, or TLS wants to write while reading.
ReadFails ==
    /\ pc = "rx" /\ can_read /\ reads > 0 /\ RxRoom
    /\ Abort /\ UNCHANGED <<outbox, bits, peer, app>>

RxDone ==
    /\ pc = "rx" /\ ~MayRead /\ pc' = "out"
    /\ UNCHANGED <<conn, service, ping, idle, rxdl, suspended, outbox, bits, reads, ran, peer, app>> /\ UNCHANGED Link

\* The loop's time is over (slice_end), with or without more to read.
RxLate ==
    /\ pc = "rx" /\ pc' = "late"
    /\ ping' = [ping EXCEPT !.slow = @ \/ (ping.grace # Off /\ MayRead)]
    /\ UNCHANGED <<conn, service, idle, rxdl, suspended, outbox, bits, reads, ran, peer, app>> /\ UNCHANGED Link

\* mqtt_bounded_keepalive.  The grace may also start here.  A slice whose time
\* is over by then ends.
PingLost == ping.wait /\ ping.dl = 0 /\ can_read /\ ping.grace # Off /\ (ping.grace = 0 \/ ping.packets = 0)
PingDue == ~ping.wait /\ ~ping.queued /\ idle = 0
KeepaliveFails == /\ pc \in {"out", "late"} /\ PingLost /\ Abort /\ UNCHANGED <<outbox, bits, peer, app>>
Keepalive ==
    /\ pc \in {"out", "late"} /\ ~PingLost
    /\ ping' = IF PingDue THEN [ping EXCEPT !.queued = TRUE] ELSE Armed
    /\ service' = IF PingDue THEN mqtt_service_push(Frame("PINGREQ", 0, 1)) ELSE service
    /\ \/ pc = "out" /\ pc' = "schedule" /\ UNCHANGED <<reads, ran>>
       \/ Unlock
    /\ UNCHANGED <<conn, idle, rxdl, suspended, outbox, bits, peer, app>> /\ UNCHANGED Link

\* mqtt_bounded_schedule_outbox: one packet of the outbox at a time.
Due(pending) == LET k == outbox_dequeue(pending)
                IN IF k # 0 /\ outbox[k].age >= RETRANSMIT THEN k ELSE 0
NextItem == IF outbox_dequeue("QUEUED") # 0 THEN outbox_dequeue("QUEUED") ELSE Due("TRANSMITTED")
Length(m) == IF m \in Qos0 THEN 2 ELSE 1
ScheduleOutbox ==
    /\ pc = "schedule" /\ pc' = "tx"
    /\ service' = IF ping.grace # Off \/ Staged \/ Len(service) >= NORMAL_TX_FRAMES \/ NextItem = 0
                  THEN service
                  ELSE mqtt_service_push(Frame("PUBLISH", outbox[NextItem].m, Length(outbox[NextItem].m)))
    /\ UNCHANGED <<conn, ping, idle, rxdl, suspended, outbox, bits, reads, ran, peer, app>> /\ UNCHANGED Link

\* No new write while the grace is on: it could suspend the input again.
Tx ==
    /\ pc = "tx" /\ UNCHANGED <<bits, peer>>
    /\ IF ping.grace # Off /\ can_read THEN Waits /\ UNCHANGED <<rxdl, suspended>>
       ELSE (\E w \in WriteOutcomes : TxHead(w)) \/ TxNothing \/ TxExpired

WaitReconnect ==
    /\ pc = "wait" /\ Unlock
    /\ IF "RECONNECT" \in bits
       THEN conn' = [conn EXCEPT !.state = "init"] /\ bits' = bits \ {"RECONNECT"}
       ELSE UNCHANGED <<conn, bits>>
    /\ UNCHANGED <<service, ping, idle, rxdl, suspended, outbox, peer, app>> /\ UNCHANGED Link

Slice == \/ Begin \/ StartConnect \/ ConnectCut \/ Dial \/ SendConnect \/ ConnAck
         \/ ServiceCut \/ ServiceBegin \/ Receive \/ ReceivePart \/ RxDone \/ RxLate
         \/ KeepaliveFails \/ Keepalive \/ ScheduleOutbox \/ Tx \/ WaitReconnect

----------------------------------------------------------------------------
\* The application (mqtt.c), the broker, the path and the clock.  A slice looks
\* at the bits once and an arrival during a slice is one before or after it:
\* they act between slices.

\* esp_mqtt_client_enqueue: owned memory, under the lock.
Enqueue ==
    /\ pc = "idle" /\ app.next \in Messages
    /\ app' = [app EXCEPT !.next = @ + 1] /\ outbox' = outbox_enqueue(app.next)
    /\ UNCHANGED <<conn, service, ping, idle, rxdl, suspended, bits, pc, reads, ran, peer>> /\ UNCHANGED Link

\* esp_mqtt_client_disconnect, esp_mqtt_client_reconnect: event bits, no lock.
AskDisconnect ==
    /\ pc = "idle" /\ "DISCONNECT" \notin bits /\ bits' = bits \cup {"DISCONNECT"}
    /\ UNCHANGED <<conn, service, ping, idle, rxdl, suspended, outbox, pc, reads, ran, peer, app>> /\ UNCHANGED Link
AskReconnect ==
    /\ pc = "idle" /\ conn.state = "wait" /\ "RECONNECT" \notin bits /\ bits' = bits \cup {"RECONNECT"}
    /\ UNCHANGED <<conn, service, ping, idle, rxdl, suspended, outbox, pc, reads, ran, peer, app>> /\ UNCHANGED Link

Packet(kind, m) == [kind |-> kind, m |-> m, whole |-> TRUE]
Answer(f) == CASE f.kind = "CONNECT" -> <<Packet("CONNACK", 0)>>
               [] f.kind = "PINGREQ" -> <<Packet("PINGRESP", 0)>>
               [] f.kind = "PUBLISH" /\ f.m \notin Qos0 -> <<Packet("PUBACK", f.m)>>
               [] OTHER -> <<>>
Broker ==
    /\ pc = "idle" /\ peer = "up" /\ up # <<>> /\ Len(inb) < MaxInbound
    /\ inb # <<>> => Last(inb).whole
    /\ up' = Tail(up) /\ inb' = inb \o Answer(Head(up))
    /\ got' = IF Head(up).kind = "PUBLISH" THEN got \cup {Head(up).m} ELSE got
    /\ UNCHANGED <<conn, service, ping, idle, rxdl, suspended, outbox, bits, pc, reads, ran, peer, app>>

\* A downlink, whole or so far only its beginning.
Downlink ==
    /\ pc = "idle" /\ peer = "up" /\ conn.state = "connected" /\ Len(inb) < MaxInbound
    /\ inb # <<>> => Last(inb).whole
    /\ \E w \in BOOLEAN : inb' = Append(inb, [kind |-> "PUBLISH", m |-> 0, whole |-> w])
    /\ UNCHANGED <<conn, service, ping, idle, rxdl, suspended, outbox, bits, pc, reads, ran, peer, up, got, app>>
RestArrives ==
    /\ pc = "idle" /\ inb # <<>> /\ ~Last(inb).whole /\ inb' = [inb EXCEPT ![Len(inb)].whole = TRUE]
    /\ UNCHANGED <<conn, service, ping, idle, rxdl, suspended, outbox, bits, pc, reads, ran, peer, up, got, app>>

PathDies ==
    /\ pc = "idle" /\ peer = "up" /\ peer' = "gone"
    /\ UNCHANGED <<conn, service, ping, idle, rxdl, suspended, outbox, bits, pc, reads, ran, app>> /\ UNCHANGED Link
PathReturns ==
    /\ pc = "idle" /\ peer = "gone" /\ conn.state # "connected" /\ peer' = "up"
    /\ UNCHANGED <<conn, service, ping, idle, rxdl, suspended, outbox, bits, pc, reads, ran, app>> /\ UNCHANGED Link

\* A unit of time; a busy processor may leave the task without a slice in it.
Less(d) == IF d > 0 THEN d - 1 ELSE d
Tick ==
    /\ pc = "idle" /\ ran' = FALSE
    /\ conn' = [conn EXCEPT !.dl = Less(@)]
    /\ service' = [k \in DOMAIN service |-> [service[k] EXCEPT !.dl = Less(@)]]
    /\ ping' = [ping EXCEPT !.dl = Less(@), !.grace = Less(@), !.slow = @ \/ (~ran /\ ping.grace # Off)]
    /\ idle' = Less(idle) /\ rxdl' = Less(rxdl)
    /\ outbox' = [k \in DOMAIN outbox |->
                    [outbox[k] EXCEPT !.age = IF @ <= EXPIRED THEN @ + 1 ELSE @]]
    /\ UNCHANGED <<suspended, bits, pc, reads, peer, app>> /\ UNCHANGED Link

Next ==
    \/ Slice \/ ReadFails \/ InitFails \/ Start \/ Enqueue \/ AskDisconnect \/ AskReconnect
    \/ Broker \/ Downlink \/ RestArrives \/ PathDies \/ PathReturns \/ Tick

\* The task is scheduled, and time passes.
Fairness == WF_vars(Slice) /\ SF_vars(Tick)
Spec == Init /\ [][Next]_vars /\ Fairness

----------------------------------------------------------------------------
\* No uplink the client has taken disappears: it is in the outbox, or the
\* broker has it (QoS 1) or it went out in full (QoS 0), or it expired, or the
\* task ended.  Across aborts, reconnects, expiry during a write, late acks.
NothingLost ==
    \A m \in 1..app.next - 1 :
        \/ m \in Held(outbox)
        \/ m \in app.expired \cup app.purged
        \/ m \in IF m \in Qos0 THEN app.written ELSE got

\* A connection is not given up for a missing PINGRESP that was among the
\* packets the grace is meant for, however many acknowledgements those needed
\* and however little room is left for them; the one excuse is time, when a
\* slice of the grace ran out before its packets (mqtt_client.c:1909) or the
\* task had none.
PingRespSeen ==
    [][(GraceOver \/ PingLost) /\ conn.state = "connected" /\ conn'.state = "wait"
         => ~ping.had \/ ping.slow \/ Expired \/ "DISCONNECT" \in bits \/ rxdl = 0]_vars

\* A path that dies silently does not hold a connection for ever.
SilenceEnds == (conn.state = "connected" /\ peer = "gone") ~> conn.state # "connected"
=============================================================================
