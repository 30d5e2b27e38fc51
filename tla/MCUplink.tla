------------------------------ MODULE MCUplink ------------------------------
\* What carries data to the outside, one part per behaviour: the Arkiv writer,
\* its sealing, the telemetry task, and the MQTT client (its outbox under
\* aborts and expiry; its PING under a flood of downlinks and a dying path;
\* its making, with any three allocations failing).
EXTENDS ArkivWriter

CONSTANTS
    SealTasks, SEQ_RESERVE_WINDOW, SEQ_MAX_48, MaxBinds, MaxRestarts, MaxPersistFails,
    MaxReadFails,
    Messages, Qos0, NETWORK_TIMEOUT, HALF_KEEPALIVE, RETRANSMIT, EXPIRED, GRACE, GRACE_PACKETS,
    RX_PACKETS, NORMAL_TX_FRAMES, MaxInbound, MaxUnsent, MaxConnects,
    Failing, MaxFailures, RejectsMax

VARIABLES part,
    stored, seq, owner, enc, binding_gen, binding, cache, seal, used, reused, faults,
    conn, service, ping, idle, rxdl, suspended, outbox, bits, pc, reads, ran, inb, up, peer, got, app,
    at, ptr, live, s_client, s_started, rejects, tasks, state, stopped, reconnect, failures, fault
sealvars == <<stored, seq, owner, enc, binding_gen, binding, cache, seal, used, reused, faults>>
mqttvars == <<conn, service, ping, idle, rxdl, suspended, outbox, bits, pc, reads, ran,
              inb, up, peer, got, app>>
setupvars == <<at, ptr, live, s_client, s_started, rejects, tasks, state, stopped, reconnect,
               failures, fault>>

Seal == INSTANCE ArkivSeal WITH Tasks <- SealTasks
Mqtt == INSTANCE MqttClient
Setup == INSTANCE MqttSetup

\* What the code's constants are like, for the instances as well.
ASSUME SealConstants == Seal!ArkivSealConstants
ASSUME ClientConstants == Mqtt!MqttClientConstants

MCInit == /\ part \in {"writer", "seal", "tlm", "outbox", "ping", "setup"}
          /\ Init /\ Seal!Init /\ TlmInit /\ Mqtt!Init /\ Setup!Init

\* The outbox without downlinks and PING; PING without uplinks.
OutboxOnly == ping' = Mqtt!NoPing /\ peer' = "up"
              /\ \A k \in DOMAIN inb' : inb'[k].kind # "PUBLISH"
PingOnly == outbox' = <<>> /\ app'.conns <= 1 /\ app'.next = 1

MCNext ==
    /\ UNCHANGED part
    /\ \/ part = "writer" /\ Next /\ UNCHANGED <<sealvars, tlmvars, mqttvars, setupvars>>
       \/ part = "seal" /\ Seal!Next /\ UNCHANGED <<vars, tlmvars, mqttvars, setupvars>>
       \/ part = "tlm" /\ TlmNext /\ UNCHANGED <<vars, sealvars, mqttvars, setupvars>>
       \/ part = "outbox" /\ Mqtt!Next /\ OutboxOnly /\ UNCHANGED <<vars, sealvars, tlmvars, setupvars>>
       \/ part = "ping" /\ Mqtt!Next /\ PingOnly /\ UNCHANGED <<vars, sealvars, tlmvars, setupvars>>
       \/ part = "setup" /\ Setup!Next /\ UNCHANGED <<vars, sealvars, tlmvars, mqttvars>>

\* The fairness of ArkivWriter, MqttClient and MqttSetup, in their behaviours.
MCFairness ==
    /\ WF_vars(part = "writer" /\ (TakeJob \/ Gate \/ Probe \/ Failed))
    /\ WF_vars(part = "writer" /\ (GetNonce("writer") \/ Sign("writer") \/ Sent("writer")))
    /\ SF_vars(part = "writer" /\ TakeLock("writer"))
    /\ WF_vars(part = "writer" /\ Step("tlm"))
    /\ WF_mqttvars(part = "ping" /\ Mqtt!Slice) /\ SF_mqttvars(part = "ping" /\ Mqtt!Tick)
    /\ WF_setupvars(part = "setup" /\ fault # "null" /\ Setup!OwnerStep)
    /\ WF_setupvars(part = "setup" /\ fault # "null" /\ Setup!TaskStep)
    /\ WF_setupvars(part = "setup" /\ Setup!Panic)
MCSpec == MCInit /\ [][MCNext]_<<vars, part, sealvars, tlmvars, mqttvars, setupvars>> /\ MCFairness

\* Nothing that goes out is lost, doubled or sealed wrongly: entities reach the
\* chain once and in order (OnceInOrder), no key seals twice under one number
\* and none but the binding's is used (ArkivSeal), a balance request is not
\* forgotten (ArkivWriter), and an uplink leaves the MQTT outbox only delivered,
\* written or expired (MqttClient).
UplinkSound == /\ OnceInOrder
               /\ Seal!NonceUnique /\ Seal!KeyCacheCurrent
               /\ RequestKept
               /\ Mqtt!NothingLost

\* A PINGRESP among the packets the grace is for saves the connection, unless
\* reading them takes longer than the slices of the grace (MqttClient).
PingRespSeen == Mqtt!PingRespSeen

\* A client is made whole or leaves nothing behind (MqttSetup).
SetupSound == Setup!SetupSound

\* The writer comes back to its queue whatever the node does, a path that dies
\* silently does not hold a connection for ever, and a client whose
\* allocations stop failing connects (ArkivWriter, MqttClient, MqttSetup).
UplinkReturns == /\ []<>(part = "writer" => sub["writer"].st = "idle")
                 /\ (part = "ping" /\ conn.state = "connected" /\ peer = "gone") ~> conn.state # "connected"
                 /\ []<>(part = "setup" => Setup!Connected)
=============================================================================
