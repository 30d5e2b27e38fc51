--------------------------------- MODULE Hub --------------------------------
(***************************************************************************)
(* The WUPS bus: the RP2040 as the hub of three serial links               *)
(* (wups_router.cpp and the dispatcher of main.cpp), the CH32X and the     *)
(* ESP32 as its leaves, the host on USB and, behind the ESP32, the cloud.  *)
(* What a frame carries is reduced to what the dispatchers look at; a      *)
(* frame inside a frame (net.downlink, net.publish) is kept.  Losing and   *)
(* mangling bytes is in Deframer.                                          *)
(***************************************************************************)
EXTENDS Integers, Sequences, FiniteSets, Bags

CONSTANTS FromCh32x, FromRpi, FromEsp32,   \* frames the nodes send by themselves
          FromCloud,                       \* commands the panel sends
          MaxSent,                         \* how many of all these in a behaviour
          MaxLost                          \* frames lost on the way

\* WUPS_ADDR_*, WUPS_CLASS_* and the operations of each class.
Ports == {"rpi", "ch32x", "esp32"}
Addresses == Ports \cup {"rp2040", "internal", "broadcast"}
Classes == {"system", "power", "net", "host", "ui"}
SystemOps == {"ping", "hello", "status_query", "log", "reset"}
PowerOps == {"status", "enable", "disable", "cycle", "pwr_reset", "event"}
NetOps == {"publish", "downlink", "config", "fw_update", "fw_xfer"}
HostOps == {"status", "shutdown", "service", "event"}
UiOps == {"button", "set_screen", "beep", "display_msg", "trust_prompt", "trust_result", "local_reset"}

\* The commands the nodes carry out for the panel.
PowerCommands == {"enable", "disable", "cycle", "pwr_reset"}
HostCommands == {"shutdown", "service"}

VARIABLES up,      \* the frames on their way from each node to the hub
          dn,      \* the frames on their way from the hub to each node
          cached,  \* the RP2040 holds a power.status
          sent,    \* history: what was sent, by whom
          log,     \* history: a bag of what the nodes and the cloud got
          lost     \* history: ids of frames of which a copy was lost
vars == <<up, dn, cached, sent, log, lost>>

Init == /\ up = [n \in Ports |-> <<>>] /\ dn = [n \in Ports |-> <<>>]
        /\ cached \in BOOLEAN /\ sent = <<>> /\ log = EmptyBag /\ lost = <<>>

-----------------------------------------------------------------------------
\* Frames.  `id' stands for the sequence number and the payload, `arg' for
\* what the header of the payload says, `inner' is a frame or nothing.
Frame(dst, src, cls, op, flag, arg, id, inner) ==
    [dst |-> dst, src |-> src, cls |-> cls, op |-> op, flag |-> flag, arg |-> arg, id |-> id, inner |-> inner]
Is(f, cls, op, flag) == f.cls = cls /\ f.op = op /\ f.flag = flag
Got(n, f) == [at |-> n, cls |-> f.cls, op |-> f.op, flag |-> f.flag, from |-> f.src, id |-> f.id]

\* What a node does with a frame: what it sends, in order.
Send(port, f) == <<[port |-> port, f |-> f]>>
Nothing == <<>>

\* wups_send_seq back to the sender of a request, wherever it lives.
Answer(f) == IF f.src \in Ports
             THEN Send(f.src, Frame(f.src, "rp2040", f.cls, f.op, "resp", "", f.id, <<>>)) ELSE Nothing

\* wupsRequestPublish: a frame for the cloud, handed to the ESP32.
wupsRequestPublish(topic, f) ==
    Send("esp32", Frame("esp32", "rp2040", "net", "publish", "req", topic, f.id, <<f>>))
wupsPublishCmdResponse(f) ==
    wupsRequestPublish("cmd/response", Frame("rpi", "rp2040", f.cls, f.op, "resp", "", f.id, <<>>))
wupsPublishTelemetryStatus(f) ==
    wupsRequestPublish("telemetry", Frame("broadcast", "ch32x", "power", "status", "event", "", f.id, <<>>))
wupsPublishHostStatus(f) ==
    wupsRequestPublish("telemetry", Frame("broadcast", "rpi", "host", "status", "event", "", f.id, <<>>))
wupsPublishEventFrame(f) == wupsRequestPublish("event", f)
wupsPublishCmdResponseFrame(f) == wupsRequestPublish("cmd/response", f)

-----------------------------------------------------------------------------
\* wups_on_local_frame, case by case.
IsHostResponse(port, f) == port = "rpi" /\ f.flag = "resp" /\ f.cls = "host"
IsEvent(port, f) == /\ port # "esp32"
                    /\ (Is(f, "power", "event", "event") \/ Is(f, "host", "event", "event"))

\* A power.status of the CH32X: cached, given to the host and, when it is
\* time, to the cloud; a version that is not known is dropped.
IsStatus(f) == f.cls = "power" /\ f.op = "status" /\ f.src = "ch32x"
OnStatus(f) == IF f.arg = "unknown" THEN Nothing
               ELSE Send("rpi", Frame("rpi", "ch32x", "power", "status", "event", "", f.id, <<>>))
                    \o (IF f.arg = "due" THEN wupsPublishTelemetryStatus(f) ELSE Nothing)

OnStatusRequest(f) == (IF cached THEN wupsPublishTelemetryStatus(f) ELSE Nothing) \o wupsPublishCmdResponse(f)
OnPowerCommand(f) == wupsPublishCmdResponse(f)
OnFwXfer(f) == IF f.dst = "rp2040" THEN Answer(f) ELSE Nothing
OnBeep(f) == Answer(f) \o wupsPublishCmdResponse(f)
OnPing(f) == Answer(f)
OnHostStatus(f) == IF f.src = "rpi" THEN wupsPublishHostStatus(f) ELSE Nothing

\* The others change the panel only (see Panel and Alarms).
Local(port, f) ==
    IF IsHostResponse(port, f) THEN wupsPublishCmdResponseFrame(f)
    ELSE IF IsEvent(port, f) THEN wupsPublishEventFrame(f)
    ELSE IF IsStatus(f) THEN OnStatus(f)
    ELSE IF Is(f, "net", "fw_xfer", "req") THEN OnFwXfer(f)
    ELSE IF Is(f, "power", "status", "req") THEN OnStatusRequest(f)
    ELSE IF f.cls = "power" /\ f.flag = "req" /\ f.op \in PowerCommands THEN OnPowerCommand(f)
    ELSE IF Is(f, "ui", "beep", "req") THEN OnBeep(f)
    ELSE IF Is(f, "system", "ping", "req") THEN OnPing(f)
    ELSE IF f.cls = "host" /\ f.op = "status" THEN OnHostStatus(f)
    ELSE Nothing

\* wups_route_frame: who gets a frame that came in at a port.
ForUs(f) == f.dst \in {"rp2040", "broadcast", "internal"}
Forwards(port, f) == CASE f.dst = "broadcast" -> Ports \ {port}
                       [] f.dst = "internal" -> Ports \ {port, "rpi"}
                       [] f.dst \in Ports -> {f.dst} \ {port}
                       [] OTHER -> {}
emit_forward(ports, f) ==
    LET to(n) == IF n \in ports THEN Send(n, f) ELSE Nothing IN to("rpi") \o to("ch32x") \o to("esp32")

\* Without the bridge a response of the host goes where it came from: nowhere.
RouteUnbridged(port, f) == (IF ForUs(f) THEN Local(port, f) ELSE Nothing) \o emit_forward(Forwards(port, f), f)
RouteFrame(port, f) ==
    IF ForUs(f) THEN Local(port, f) \o emit_forward(Forwards(port, f), f)
    ELSE IF IsHostResponse(port, f) THEN Local(port, f)
    ELSE emit_forward(Forwards(port, f), f)

\* net.downlink: the frame inside goes through the router as if it had come
\* in at the same port.
OnDownlink(port, f) == RouteFrame(port, f.inner[1])
Receives(port, f) ==
    IF Is(f, "net", "downlink", "event") /\ ForUs(f) THEN OnDownlink(port, f) ELSE RouteFrame(port, f)
HubSees(port, f) ==
    LET g == IF Is(f, "net", "downlink", "event") THEN f.inner[1] ELSE f IN
    IF ForUs(g) \/ IsHostResponse(port, g) THEN SetToBag({Got("rp2040", g)}) ELSE EmptyBag

-----------------------------------------------------------------------------
\* The CH32X: wups_handle_frame.
Ch32xHandles(f) ==
    LET back == Frame(f.src, "ch32x", f.cls, f.op, "resp", "", f.id, <<>>) IN
    IF f.dst \notin {"ch32x", "broadcast", "internal"} THEN Nothing
    ELSE IF Is(f, "system", "ping", "req") THEN <<back>>
    ELSE IF Is(f, "system", "status_query", "req")
         THEN <<Frame(f.src, "ch32x", "power", "status", "resp", "current", f.id, <<>>)>>
    ELSE Nothing

\* The ESP32: deliver_frame and on_local_frame.
Esp32Handles(f) ==
    LET back == Frame(f.src, "esp32", f.cls, f.op, "resp", "", f.id, <<>>) IN
    IF Is(f, "system", "ping", "req") \/ Is(f, "net", "config", "req") \/ Is(f, "net", "fw_xfer", "req")
    THEN <<back>> ELSE Nothing

\* handle_net_publish, mqtt_wups_snapshot_key, mqtt_wups_critical_event: how
\* the queue of the ESP32 treats what is published.
SnapshotKey(f) == /\ f.flag = "event" /\ f.src \in Ports \cup {"rp2040"}
                  /\ f.op = "status" /\ f.cls \in {"power", "host", "net"}
CriticalEvent(f) == (Is(f, "power", "event", "event") /\ f.arg # "full") \/ Is(f, "host", "event", "event")
Policy(topic, f) == IF topic = "telemetry" /\ SnapshotKey(f) THEN "snapshot"
                    ELSE IF topic = "cmd/response" \/ (topic = "event" /\ CriticalEvent(f)) THEN "critical"
                    ELSE "opaque"
Published(topic, f) == [at |-> "cloud", cls |-> f.cls, op |-> topic, flag |-> Policy(topic, f),
                        from |-> f.src, id |-> f.id]

\* on_mqtt_data: the ESP32 keeps its own commands and answers them, and
\* hands the others to the hub.
OwnCommand(f) == Is(f, "net", "fw_update", "req") \/
                 (Is(f, "system", "reset", "req") /\ f.dst \in {"esp32", "broadcast"})
Downlink(f) == Frame("rp2040", "esp32", "net", "downlink", "event", "", f.id, <<f>>)

\* The host's agent (external) carries out the commands of its class and
\* answers to the address in the request.
RpiHandles(f) == IF f.cls = "host" /\ f.op \in HostCommands /\ f.flag = "req"
                 THEN <<Frame(f.src, "rpi", "host", f.op, "resp", "", f.id, <<>>)>> ELSE Nothing

Accepts(n, f) == f.dst \in {n, "broadcast"} \/ (f.dst = "internal" /\ n # "rpi")
Handles(n, f) == CASE n = "rpi" -> RpiHandles(f) [] n = "ch32x" -> Ch32xHandles(f) [] n = "esp32" -> Esp32Handles(f)

-----------------------------------------------------------------------------
\* A node sends a frame of its own; the cloud sends a command.
Number(f) == [f EXCEPT !.id = Len(sent) + 1]
NodeSends(n, frames) ==
    /\ Len(sent) < MaxSent
    /\ \E f \in frames : /\ up' = [up EXCEPT ![n] = Append(@, Number(f))]
                         /\ sent' = Append(sent, [by |-> n, f |-> Number(f)])
    /\ UNCHANGED <<dn, cached, log, lost>>
CloudSends ==
    /\ Len(sent) < MaxSent
    /\ \E f \in FromCloud :
          /\ sent' = Append(sent, [by |-> "cloud", f |-> Number(f)])
          /\ IF OwnCommand(f)
             THEN /\ log' = log (+) SetToBag({Got("esp32", Number(f)),
                                Published("cmd/response", Frame(f.src, "esp32", f.cls, f.op, "resp", "", Len(sent) + 1, <<>>))})
                  /\ UNCHANGED up
             ELSE up' = [up EXCEPT !.esp32 = Append(@, Downlink(Number(f)))] /\ UNCHANGED log
    /\ UNCHANGED <<dn, cached, lost>>

\* wups_router_drain, and the handler of whatever the frame is.
HubReceives(n) ==
    /\ up[n] # <<>>
    /\ LET f == Head(up[n])
           out == Receives(n, f)
           for(p) == SelectSeq(out, LAMBDA o : o.port = p) IN
       /\ up' = [up EXCEPT ![n] = Tail(@)]
       /\ dn' = [p \in Ports |-> dn[p] \o [i \in 1..Len(for(p)) |-> for(p)[i].f]]
       /\ cached' = (cached \/ (ForUs(f) /\ IsStatus(f) /\ f.arg # "unknown"))
       /\ log' = log (+) HubSees(n, f)
    /\ UNCHANGED <<sent, lost>>

NodeReceives(n) ==
    /\ dn[n] # <<>>
    /\ LET f == Head(dn[n]) IN
       /\ dn' = [dn EXCEPT ![n] = Tail(@)]
       /\ IF ~Accepts(n, f) THEN UNCHANGED <<up, log>>
          ELSE /\ up' = [up EXCEPT ![n] = @ \o Handles(n, f)]
               /\ log' = log (+) SetToBag({IF n = "esp32" /\ Is(f, "net", "publish", "req")
                                           THEN Published(f.arg, f.inner[1]) ELSE Got(n, f)})
    /\ UNCHANGED <<cached, sent, lost>>

\* A frame is lost on a line (external).
Loses(n) == /\ Len(lost) < MaxLost
            /\ \/ /\ up[n] # <<>> /\ up' = [up EXCEPT ![n] = Tail(@)] /\ UNCHANGED dn
                  /\ lost' = Append(lost, Head(up[n]).id)
               \/ /\ dn[n] # <<>> /\ dn' = [dn EXCEPT ![n] = Tail(@)] /\ UNCHANGED up
                  /\ lost' = Append(lost, Head(dn[n]).id)
            /\ UNCHANGED <<cached, sent, log>>

Next == \/ NodeSends("ch32x", FromCh32x) \/ NodeSends("rpi", FromRpi) \/ NodeSends("esp32", FromEsp32)
        \/ CloudSends
        \/ \E n \in Ports : HubReceives(n) \/ NodeReceives(n) \/ Loses(n)
Spec == Init /\ [][Next]_vars

-----------------------------------------------------------------------------
Times(e) == CopiesIn(e, log)
Quiet == \A n \in Ports : up[n] = <<>> /\ dn[n] = <<>>
Intact(s) == \A i \in 1..Len(lost) : lost[i] # s.f.id

\* Who a frame is for, by its address alone (but the host gets the readings of
\* the CH32X too); the ESP32 stands for the cloud.
Addressed(f) == CASE IsStatus(f) /\ f.arg # "unknown" -> {"rp2040", "rpi"}
                  [] f.dst = "broadcast" -> Ports \cup {"rp2040"}
                  [] f.dst = "internal" -> (Ports \cup {"rp2040"}) \ {"rpi"}
                  [] OTHER -> {f.dst}
Sender(s) == IF s.by = "cloud" THEN "esp32" ELSE s.by
Reaches(s) == IF s.by = "cloud" /\ OwnCommand(s.f) THEN {"esp32"} ELSE Addressed(s.f) \ {Sender(s)}
Answered(s) == Cardinality({e \in DOMAIN log : e.at = "cloud" /\ e.op = "cmd/response" /\ e.id = s.f.id})
IsCommand(f) == \/ f.flag = "req" /\ f.cls \in {"power", "host", "net"}
                \/ Is(f, "ui", "beep", "req") \/ Is(f, "system", "reset", "req")

\* Everybody a frame is addressed to gets it once and nobody else does, also
\* when it comes from the cloud inside another one; a host never sees what is
\* for the microcontrollers.  Only loss takes a copy away, nothing makes one.
DeliveredOnce ==
    \A i \in 1..Len(sent) : LET s == sent[i] IN \A n \in Ports \cup {"rp2040"} :
        LET times == Times(Got(n, s.f)) IN
        /\ times <= (IF n \in Reaches(s) THEN 1 ELSE 0)
        /\ Quiet /\ Intact(s) => times = (IF n \in Reaches(s) THEN 1 ELSE 0)

\* A command of the panel is answered in the cloud exactly once, whichever
\* node carries it out, and an alert of a node becomes exactly one event there
\* although the hub also forwards the frame as it is; answers and alerts take
\* the reserved path of the ESP32's queue.
CloudHearsOnce ==
    \A i \in 1..Len(sent) :
        LET s == sent[i]
            answers == {e \in DOMAIN log : e.at = "cloud" /\ e.id = s.f.id /\ e.op = "cmd/response"}
            events == {e \in DOMAIN log : e.at = "cloud" /\ e.id = s.f.id /\ e.op = "event"} IN
        /\ \A e \in answers \cup events : log[e] = 1
        /\ Cardinality(answers) <= 1 /\ Cardinality(events) <= 1
        /\ \A e \in answers : e.flag = "critical"
        /\ s.by = "cloud" => events = {}
        /\ Quiet /\ Intact(s) /\ s.by = "cloud" /\ IsCommand(s.f) => answers # {}
        /\ Quiet /\ Intact(s) /\ s.by \in {"ch32x", "rpi"} /\ s.f.op = "event" =>
              \E e \in events : e.flag = IF s.f.arg = "full" THEN "opaque" ELSE "critical"

\* A question of a node is answered by everybody it was put to, once.
AnswersReturn ==
    \A i \in 1..Len(sent) : LET s == sent[i] IN
        Quiet /\ Intact(s) /\ s.by # "cloud" /\ Is(s.f, "system", "ping", "req") =>
            \A n \in Reaches(s) \ {"rpi"} :
                Times(Got(s.by, Frame(s.by, n, "system", "ping", "resp", "", s.f.id, <<>>))) = 1

\* What the three links and the hub between them owe to every frame: it
\* reaches whom it is addressed to exactly once, commands and alerts are known
\* in the cloud exactly once, and questions are answered.
HubSound == DeliveredOnce /\ CloudHearsOnce /\ AnswersReturn

\* The cloud gets answers to its own commands only.  It does not hold: a beep
\* or a broadcast power command of the host is answered in the cloud too, under
\* the host's sequence number.
AnswersAsked == \A e \in DOMAIN log : e.at = "cloud" /\ e.op = "cmd/response" => sent[e.id].by = "cloud"
=============================================================================
