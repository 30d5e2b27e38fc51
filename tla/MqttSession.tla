---------------------------- MODULE MqttSession ----------------------------
(***************************************************************************)
(* The MQTT session of the ESP32: the owner task, the SDK's event handler, *)
(* the monitor task and the OTA notifications of mqtt.c, around the packet *)
(* guard and the health state machine.  One action is one critical section *)
(* under s_lock; the SDK call runs between two of them, so events arrive   *)
(* before it returns.  The SDK and the broker are external: identifiers    *)
(* count up and wrap, an entry stays in the outbox across reconnects until *)
(* it is acknowledged, a failed call may have used an identifier.          *)
(*                                                                         *)
(* When the owner retries (back-off, PPP gating) is left open here, and so *)
(* is which application message it sends: DispatchQueue models that.       *)
(***************************************************************************)
EXTENDS Integers, Sequences, FiniteSets

----------------------------------------------------------------------------
(***************************************************************************)
(* Whether the broker is known to take publications.                       *)
(*                                                                         *)
(* mqtt_packet_guard.c: which PUBACK may count as proof that the broker    *)
(* took the health probe.  MQTT packet identifiers are 16 bit and wrap;    *)
(* the guard allows fewer than one lap of them per epoch, and starts a new *)
(* epoch only after the outbox was seen empty and the socket was replaced. *)
(*                                                                         *)
(* mqtt_health.c: probes are due once per window; a window without an      *)
(* acknowledged probe withdraws the proof.  The worker-stall clock, which  *)
(* only feeds diagnostics, is left out.                                    *)
(*                                                                         *)
(* The functions are operators on the guard's record g and the health's    *)
(* record h; one whose Boolean result the callers use has a predicate for  *)
(* that result.                                                            *)
(***************************************************************************)
CONSTANTS
    LastId,      \* UINT16_MAX: identifiers are 1..LastId
    Budget,      \* MQTT_PACKET_GUARD_BUDGET
    EarlyAcks,   \* MQTT_PACKET_GUARD_EARLY_ACKS
    MaxCounter   \* UINT64_MAX: where the serial, generation and sequence stop

\* The _Static_asserts of mqtt_packet_guard.c.
ASSUME GuardConstants ==
    /\ LastId \in Nat /\ Budget \in Nat \ {0} /\ Budget < LastId
    /\ EarlyAcks \in Nat
    /\ MaxCounter \in Nat \ {0}

ProbeStates == {"idle", "arming", "pending", "acked", "failed", "expired", "retired"}

Ids == 1..LastId

\* early holds the acknowledgements that arrived before the enqueue call
\* returned; the serial in each names the packet the broker acknowledged,
\* which the code cannot see: it is there for the properties.
GuardInit ==
    [connected |-> FALSE, generation |-> 0, attempts |-> 0, sinceId |-> 0,
     serial |-> 0, opPending |-> FALSE, doneSerial |-> 0, doneId |-> -1,
     haveLast |-> FALSE, lastId |-> 0, unsafe |-> FALSE, resetArmed |-> FALSE,
     boundarySeen |-> FALSE, probe |-> "idle", token |-> 0, probeGen |-> 0,
     probeSerial |-> 0, started |-> 0, timeout |-> 0, probeId |-> 0,
     early |-> << >>]

ProbeActive(g) == g.probe \in {"arming", "pending"}

WithinDeadline(g, t) == t >= g.started /\ t - g.started < g.timeout

ProbeEnds(g, state) == [g EXCEPT !.probe = state, !.early = << >>]

MarkUnsafe(g) == [ProbeEnds(g, "failed") EXCEPT !.unsafe = TRUE]

ProbeRetire(g) == ProbeEnds(g, "retired")

(***************************************************************************)
(* Packets: every QoS 1 call that may take an identifier is bracketed.     *)
(***************************************************************************)
PacketBeginOk(g) ==
    /\ ~g.opPending
    /\ g.serial < MaxCounter
    /\ ~g.unsafe
    /\ ~g.resetArmed
    /\ g.attempts < Budget

PacketBegin(g) ==
    IF g.opPending \/ g.serial = MaxCounter THEN MarkUnsafe(g)
    ELSE IF ~PacketBeginOk(g) THEN g
    ELSE [g EXCEPT !.attempts = @ + 1, !.sinceId = @ + 1, !.serial = @ + 1,
                   !.opPending = TRUE]

\* How far the identifier moved; zero is skipped when it wraps.
Distance(from, to) == IF to >= from THEN to - from ELSE LastId - from + to

Plausible(g, id) ==
    g.haveLast => Distance(g.lastId, id) \in 1..g.sinceId

PacketResultOk(g, id) ==
    /\ g.opPending
    /\ ~g.unsafe
    /\ id < 0 \/ (id \in Ids /\ Plausible(g, id))

PacketResult(g, id) ==
    LET done == [g EXCEPT !.opPending = FALSE, !.doneSerial = g.serial, !.doneId = id]
    IN IF ~g.opPending THEN MarkUnsafe(g)
       ELSE IF g.unsafe \/ id < 0 THEN done
       ELSE IF ~PacketResultOk(g, id) THEN MarkUnsafe(done)
       ELSE [done EXCEPT !.lastId = id, !.haveLast = TRUE, !.sinceId = 0]

(***************************************************************************)
(* Epochs.                                                                 *)
(***************************************************************************)
ArmResetOk(g, outboxEmpty) == outboxEmpty /\ ~g.opPending

ArmReset(g, outboxEmpty) ==
    IF ~ArmResetOk(g, outboxEmpty) THEN g
    ELSE ProbeRetire([g EXCEPT !.resetArmed = TRUE,
                               !.boundarySeen = IF g.resetArmed THEN @ ELSE ~g.connected])

GuardDisconnected(g) ==
    ProbeRetire([g EXCEPT !.connected = FALSE, !.boundarySeen = @ \/ g.resetArmed])

NewEpoch(g) == g.resetArmed /\ g.boundarySeen /\ ~g.opPending

GuardConnected(g) ==
    IF g.connected \/ g.generation = MaxCounter THEN MarkUnsafe(g)
    ELSE LET up == ProbeRetire([g EXCEPT !.connected = TRUE, !.generation = @ + 1])
         IN IF ~NewEpoch(g) THEN up
            ELSE [up EXCEPT !.attempts = 0, !.sinceId = 0, !.haveLast = FALSE,
                            !.unsafe = FALSE, !.resetArmed = FALSE,
                            !.boundarySeen = FALSE, !.doneId = -1]

(***************************************************************************)
(* Probes.                                                                 *)
(***************************************************************************)
ProbeBeginOk(g, token, timeout) ==
    /\ g.connected /\ g.opPending /\ ~g.unsafe /\ ~g.resetArmed
    /\ ~ProbeActive(g)
    /\ token # 0 /\ token # g.token /\ timeout # 0

ProbeBegin(g, token, started, timeout) ==
    IF ~ProbeBeginOk(g, token, timeout) THEN g
    ELSE [ProbeEnds(g, "arming") EXCEPT !.token = token, !.probeGen = g.generation,
              !.probeSerial = g.serial, !.started = started, !.timeout = timeout,
              !.probeId = 0]

\* accept_ack: the state it leaves, and the answer.
AcceptOk(g, t) == WithinDeadline(g, t)
Accept(g, t) == IF AcceptOk(g, t) THEN ProbeEnds(g, "acked")
                ELSE [g EXCEPT !.probe = "expired"]

\* The early acknowledgement of the identifier the call returned, if any; no
\* identifier is recorded twice.
EarlyOf(g, id) == {k \in 1..Len(g.early) : g.early[k].id = id}

ProbeResultValid(g, id) ==
    /\ ~g.unsafe /\ g.connected /\ g.probeGen = g.generation /\ ~g.opPending
    /\ g.doneSerial = g.probeSerial /\ g.doneId = id /\ id \in Ids

ProbeResultTakes(g, token, id, t) ==
    /\ g.probe = "arming" /\ token = g.token
    /\ ProbeResultValid(g, id)
    /\ WithinDeadline(g, t)

\* The acknowledgement taken as proof by probe_result: its index in early.
ProbeResultProof(g, token, id, t) ==
    {k \in EarlyOf(g, id) :
        ProbeResultTakes(g, token, id, t) /\ AcceptOk(g, g.early[k].at)}

ProbeResult(g, token, id, t) ==
    IF ~(g.probe = "arming" /\ token = g.token) THEN g
    ELSE IF ~ProbeResultValid(g, id) THEN ProbeEnds(g, "failed")
    ELSE IF ~WithinDeadline(g, t) THEN ProbeEnds(g, "expired")
    ELSE LET got == [g EXCEPT !.probeId = id, !.probe = "pending"]
         IN IF EarlyOf(g, id) = {} THEN [got EXCEPT !.early = << >>]
            ELSE Accept(got, g.early[CHOOSE k \in EarlyOf(g, id) : TRUE].at)

PubackCounts(g, t) ==
    /\ g.connected /\ ~g.unsafe /\ ProbeActive(g)
    /\ g.generation = g.probeGen
    /\ t >= g.started

\* Mutant: any acknowledgement proves the pending probe.
PubackProofAnyId(g, id, t) ==
    /\ PubackCounts(g, t)
    /\ g.probe = "pending"
    /\ AcceptOk(g, t)

PubackProof(g, id, t) ==
    /\ PubackCounts(g, t)
    /\ g.probe = "pending"
    /\ id = g.probeId
    /\ AcceptOk(g, t)

OnPuback(g, id, serial, t) ==
    IF ~PubackCounts(g, t) THEN g
    ELSE IF ~WithinDeadline(g, t) THEN ProbeEnds(g, "expired")
    ELSE IF g.probe = "pending" THEN (IF id = g.probeId THEN Accept(g, t) ELSE g)
    ELSE IF EarlyOf(g, id) # {} THEN g
    ELSE IF Len(g.early) = EarlyAcks THEN ProbeEnds(g, "failed")
    ELSE [g EXCEPT !.early = Append(@, [id |-> id, at |-> t, serial |-> serial])]

ProbeExpire(g, t) ==
    IF ProbeActive(g) /\ t >= g.started /\ ~WithinDeadline(g, t)
    THEN ProbeEnds(g, "expired") ELSE g

-----------------------------------------------------------------------------
CONSTANTS
    Interval,       \* config.probe_interval_ms
    Deadline,       \* config.probe_deadline_ms
    MaxSequence     \* UINT64_MAX: where the generation and the sequence stop

\* What mqtt_health_init demands.
ASSUME HealthConstants ==
    /\ Deadline \in Nat \ {0}
    /\ Interval \in Nat /\ Interval >= Deadline
    /\ MaxSequence \in Nat \ {0}

NoToken == [generation |-> 0, sequence |-> 0]

HealthInit ==
    [now |-> 0, connected |-> FALSE, ota |-> FALSE, generation |-> 0, sequence |-> 0,
     pending |-> FALSE, admitted |-> FALSE, token |-> NoToken, proof |-> FALSE,
     failure |-> "none", due |-> 0, deadline |-> 0, lastAck |-> 0]

Observed(h, t) == [h EXCEPT !.now = IF t > h.now THEN t ELSE @]

ClearPending(h) == [h EXCEPT !.pending = FALSE, !.admitted = FALSE, !.token = NoToken]

Schedule(h, due) == [h EXCEPT !.due = due, !.deadline = due + Deadline]

\* The next window follows the last one, unless that is already past.
ScheduleNext(h) ==
    Schedule(h, IF h.due + Interval < h.now THEN h.now ELSE h.due + Interval)

FailWindow(h, reason) ==
    ScheduleNext(ClearPending([h EXCEPT !.proof = FALSE, !.failure = reason]))

\* advance: time passes for the window.
Advance(h, t) ==
    LET o == Observed(h, t)
    IN IF o.connected /\ ~o.ota /\ o.now >= o.deadline
       THEN FailWindow(o, IF o.admitted THEN "ack_timeout" ELSE "admission_timeout")
       ELSE o

Matches(h, token) == h.connected /\ ~h.ota /\ h.pending /\ token = h.token

HealthConnected(h, t) ==
    LET o == Observed(h, t)
    IN Schedule(ClearPending([o EXCEPT
            !.generation = IF @ = MaxSequence THEN @ ELSE @ + 1,
            !.connected = TRUE, !.proof = FALSE, !.failure = "none"]), o.now)

HealthDisconnected(h, t) ==
    ClearPending([Observed(h, t) EXCEPT !.connected = FALSE, !.proof = FALSE,
                      !.failure = "none", !.due = 0, !.deadline = 0])

\* What mqtt_health_poll reports, of an h it has advanced to now.
ProbeDue(h) == h.connected /\ ~h.ota /\ ~h.pending /\ h.now >= h.due /\ h.now < h.deadline
ProofFresh(h) == h.connected /\ ~h.ota /\ h.proof
Degraded(h) == h.failure # "none"

\* begin_probe, of an h advanced to now.
BeginProbeOk(h) == ProbeDue(h) /\ h.sequence < MaxSequence

BeginProbe(h) ==
    [h EXCEPT !.sequence = @ + 1, !.pending = TRUE, !.admitted = FALSE,
              !.token = [generation |-> h.generation, sequence |-> h.sequence + 1]]

ProbeAdmitted(h, token, t) ==
    LET a == Advance(h, t)
    IN IF Matches(a, token) THEN [a EXCEPT !.admitted = TRUE] ELSE a

ProbeAckOk(h, token, t) ==
    LET a == Advance(h, t) IN Matches(a, token) /\ a.admitted

ProbeAck(h, token, t) ==
    LET a == Advance(h, t)
    IN IF ProbeAckOk(h, token, t)
       THEN ScheduleNext(ClearPending([a EXCEPT !.lastAck = a.now, !.proof = TRUE,
                                                !.failure = "none"]))
       ELSE a

ProbeFailed(h, token, t) ==
    LET a == Advance(h, t)
    IN IF Matches(a, token) THEN FailWindow(a, "probe_failed") ELSE a

EventLoss(h, t) ==
    LET o == ClearPending([Observed(h, t) EXCEPT !.proof = FALSE])
    IN IF o.connected /\ ~o.ota
       THEN ScheduleNext([o EXCEPT !.failure = "event_loss"]) ELSE o

SetOta(h, t, active) ==
    LET o == Observed(h, t)
        s == ClearPending([o EXCEPT !.ota = active, !.proof = FALSE, !.failure = "none"])
    IN IF o.ota = active THEN o
       ELSE IF s.connected /\ ~active THEN Schedule(s, s.now) ELSE s

----------------------------------------------------------------------------
\* The session.
CONSTANTS
    BootstrapSteps,   \* 3: subscribe, status, identify
    RefreshInterval,  \* MQTT_REFRESH_INTERVAL_MS
    RejectsMax,       \* MQTT_RECONN_REJECTS_MAX
    MaxSkips,         \* bound on identifiers the SDK takes for itself
    MaxPackets,       \* bound on packets, below the counter's limit
    MaxConnects,      \* bound on CONNECTED events, below the counter's limit
    MaxTime           \* bound on the clock

ASSUME SessionConstants ==
    /\ BootstrapSteps \in Nat \ {0}
    /\ RefreshInterval \in Nat \ {0}
    /\ RejectsMax \in Nat \ {0}
    /\ MaxSkips \in Nat
    /\ MaxPackets \in 0..(MaxCounter - 1)
    /\ MaxConnects \in 0..(MaxCounter - 1)
    /\ MaxConnects \in 0..(MaxSequence - 1)
    /\ MaxTime \in Nat

VARIABLES
    guard,        \* s_guard
    health,       \* s_health
    probeToken,   \* s_probe_token
    connected,    \* s_connected
    owner,        \* the owner's control point and locals
    lastRefresh,  \* s_last_refresh_ms
    link,         \* SDK: the socket and the SDK task
    nextId,       \* SDK: the identifier it hands out next
    outbox,       \* SDK: messages not yet acknowledged
    wire,         \* messages sent on this socket: the broker may acknowledge each, even twice
    skips,        \* SDK: identifiers it took for itself
    now,          \* esp_timer
    evidence,     \* history: the packet whose PUBACK was taken as proof, and the probe's
    disturbed     \* history: connect, disconnect or OTA transition since the last probe began

ownerVars == <<owner, lastRefresh>>
sdkVars == <<link, nextId, outbox, wire, skips>>
vars == <<guard, health, probeToken, connected, ownerVars, sdkVars, now, evidence,
          disturbed>>

Idle == [at |-> "top", op |-> "none", due |-> 0, rc |-> 0, bootGen |-> 0, bootStep |-> 0,
         rejects |-> 0]

Init ==
    /\ guard = GuardInit
    /\ health = HealthInit
    /\ probeToken = NoToken
    /\ connected = FALSE
    /\ owner = Idle
    /\ lastRefresh = 0
    /\ link = "off"
    /\ nextId = 1
    /\ outbox = {}
    /\ wire = {}
    /\ skips = 0
    /\ now = 0
    /\ evidence = [acked |-> 0, probe |-> 0]
    /\ disturbed = FALSE

\* An event handler reads the clock before it takes the lock.
Captured == {t \in {now - 1, now} : t >= 0}

(***************************************************************************)
(* SDK events (mqtt_event_handler) and the environment that raises them.   *)
(***************************************************************************)
OnConnected(t) ==
    LET g == GuardConnected(guard)
        h == HealthConnected(health, t)
    IN /\ health.generation < MaxConnects
       /\ guard' = g
       /\ health' = IF g.unsafe THEN EventLoss(h, t) ELSE h
       /\ connected' = TRUE
       /\ disturbed' = TRUE
       /\ UNCHANGED <<probeToken, ownerVars, nextId, outbox, skips, now, evidence>>

\* What is left in the outbox is sent again on the new socket.
Connect ==
    /\ link = "connecting"
    /\ link' = "up"
    /\ wire' = outbox
    /\ \E t \in Captured : OnConnected(t)

\* A second CONNECTED without the socket having been replaced.
DuplicateConnected ==
    /\ link = "up"
    /\ UNCHANGED <<link, wire>>
    /\ \E t \in Captured : OnConnected(t)

\* The attempt fails: the owner only learns that it is still not connected.
ConnectFails ==
    /\ link = "connecting"
    /\ link' = "idle"
    /\ UNCHANGED <<guard, health, probeToken, connected, ownerVars, nextId, outbox, wire,
                   skips, now, evidence, disturbed>>

Disconnect ==
    /\ link \in {"up", "closing"}
    /\ link' = "idle"
    /\ wire' = {}
    /\ \E t \in Captured :
        /\ guard' = GuardDisconnected(guard)
        /\ health' = HealthDisconnected(health, t)
    /\ connected' = FALSE
    /\ disturbed' = TRUE
    /\ UNCHANGED <<probeToken, ownerVars, nextId, outbox, skips, now, evidence>>

\* The SDK task ends on a connection attempt, having emptied the outbox; from
\* then on reconnect() is refused.
SdkStops ==
    /\ link = "connecting"
    /\ link' = "stopped"
    /\ outbox' = {}
    /\ UNCHANGED <<guard, health, probeToken, connected, ownerVars, nextId, wire, skips,
                   now, evidence, disturbed>>

\* An entry grows too old for the outbox.
OutboxExpires(p) ==
    /\ outbox' = outbox \ {p}
    /\ UNCHANGED <<guard, health, probeToken, connected, ownerVars, link, nextId, wire, skips,
                   now, evidence, disturbed>>

\* The broker acknowledges w.  The SDK raises MQTT_EVENT_PUBLISHED only if the
\* outbox holds a publication with that identifier; the answer to a SUBSCRIBE
\* raises no event.
Entries(id) == {p \in outbox : p.id = id}

Acknowledge(w) ==
    /\ link \in {"up", "closing"}
    /\ Entries(w.id) # {}
    /\ outbox' = outbox \ Entries(w.id)
    /\ IF w.op = "sub" THEN UNCHANGED <<guard, health, evidence>>
       ELSE \E t \in Captured :
            /\ guard' = OnPuback(guard, w.id, w.serial, t)
            /\ health' = IF PubackProof(guard, w.id, t) THEN ProbeAck(health, probeToken, t)
                         ELSE IF guard'.probe = "failed" THEN ProbeFailed(health, probeToken, t)
                         ELSE health
            /\ evidence' = IF PubackProof(guard, w.id, t) /\ ProbeAckOk(health, probeToken, t)
                           THEN [acked |-> w.serial, probe |-> guard.probeSerial]
                           ELSE evidence
    /\ UNCHANGED <<probeToken, connected, ownerVars, link, nextId, wire, skips, now, disturbed>>

\* Identifiers are handed out in turn; zero is none.
Following(id) == IF id = LastId THEN 1 ELSE id + 1

\* The SDK uses an identifier the guard did not reserve.
SdkSkips ==
    /\ skips < MaxSkips
    /\ skips' = skips + 1
    /\ nextId' = Following(nextId)
    /\ UNCHANGED <<guard, health, probeToken, connected, ownerVars, link, outbox, wire,
                   now, evidence, disturbed>>

(***************************************************************************)
(* The owner task.                                                         *)
(***************************************************************************)
At(point) == owner.at = point
Goto(point) == owner' = [owner EXCEPT !.at = point]

\* Back to the top of the loop; the locals of the iteration are dead.
Again(o) == [o EXCEPT !.at = "top", !.op = "none", !.due = 0, !.rc = 0]

EpochNeeded == guard.unsafe \/ guard.attempts >= Budget \/ guard.resetArmed

\* service_packet_epoch, with the outbox seen empty.
ArmEpoch ==
    /\ At("top")
    /\ EpochNeeded
    /\ ~guard.resetArmed
    /\ ArmResetOk(guard, outbox = {})
    /\ guard' = ArmReset(guard, outbox = {})
    /\ health' = EventLoss(health, now)
    /\ UNCHANGED <<probeToken, connected, ownerVars, sdkVars, now, evidence, disturbed>>

\* The bounded refresh: ask the SDK task to close the socket.
Refresh ==
    /\ At("top")
    /\ connected
    /\ LET h == Advance(health, now)
       IN /\ guard.resetArmed \/ Degraded(h)
          /\ h.connected /\ ~h.ota
          /\ lastRefresh = 0 \/ now - lastRefresh >= RefreshInterval
          /\ health' = h
    /\ lastRefresh' = now
    /\ link' = IF link = "up" THEN "closing" ELSE link
    /\ UNCHANGED <<guard, probeToken, connected, owner, nextId, outbox, wire, skips,
                   now, evidence, disturbed>>

\* sdk_start, or reconnect() accepted.
Reconnect ==
    /\ At("top")
    /\ ~connected
    /\ link \in {"off", "idle"}
    /\ link' = "connecting"
    /\ owner' = [owner EXCEPT !.rejects = 0]
    /\ UNCHANGED <<guard, health, probeToken, connected, lastRefresh, nextId, outbox, wire,
                   skips, now, evidence, disturbed>>

\* reconnect() refused; after enough refusals a stopped SDK is started again,
\* on_sdk_stopped first.
ReconnectRejected ==
    /\ At("top")
    /\ ~connected
    /\ link \in {"stopped", "connecting"}
    /\ IF owner.rejects + 1 < RejectsMax
       THEN /\ owner' = [owner EXCEPT !.rejects = @ + 1]
            /\ UNCHANGED <<guard, health, link, disturbed>>
       ELSE /\ owner' = [owner EXCEPT !.rejects = 0]
            /\ IF link = "stopped"
               THEN /\ guard' = ArmReset(GuardDisconnected(guard), TRUE)
                    /\ health' = HealthDisconnected(health, now)
                    /\ link' \in {"connecting", "stopped"}   \* the start may lack memory
                    /\ disturbed' = TRUE
               ELSE UNCHANGED <<guard, health, link, disturbed>>
    /\ UNCHANGED <<probeToken, connected, lastRefresh, nextId, outbox, wire, skips, now,
                   evidence>>

\* The connected branch while a new epoch is awaited.
AwaitEpoch ==
    /\ At("top")
    /\ connected
    /\ EpochNeeded
    /\ owner' = [owner EXCEPT !.rejects = 0]
    /\ UNCHANGED <<guard, health, probeToken, connected, lastRefresh, sdkVars, now, evidence,
                   disturbed>>

\* The connected branch up to the choice of what to send: a snapshot of the
\* health is taken, and the probe that follows uses its due time.
Choose ==
    /\ At("top")
    /\ connected
    /\ ~EpochNeeded
    /\ LET h == Advance(health, now)
           step == IF owner.bootGen = h.generation THEN owner.bootStep ELSE 0
       IN /\ health' = h
          /\ \E op \in {"sub", "pub", "probe"} :
                /\ \/ step = 0 /\ op = "sub"
                   \/ step \in 1..(BootstrapSteps - 1) /\ op = "pub"
                   \/ step = BootstrapSteps /\ op = "probe" /\ ProbeDue(h) /\ ~h.ota
                   \/ step = BootstrapSteps /\ op = "pub"
                /\ owner' = [owner EXCEPT !.at = "reserve", !.op = op, !.due = h.due,
                                          !.bootGen = h.generation, !.bootStep = step,
                                          !.rejects = 0]
    /\ UNCHANGED <<guard, probeToken, connected, lastRefresh, sdkVars, now, evidence, disturbed>>

\* reserve_packet
Reserve ==
    /\ At("reserve")
    /\ guard.serial < MaxPackets
    /\ guard' = PacketBegin(guard)
    /\ IF ~PacketBeginOk(guard) THEN owner' = Again(owner)
       ELSE Goto(IF owner.op = "probe" THEN "arm" ELSE "call")
    /\ UNCHANGED <<health, probeToken, connected, lastRefresh, sdkVars, now, evidence, disturbed>>

\* Arm health and guard for the probe, or give the packet back.
Arm ==
    /\ At("arm")
    /\ LET h == Advance(health, now)
           token == BeginProbe(h).token
           armed == BeginProbeOk(h) /\ ProbeBeginOk(guard, token.sequence, Deadline)
       IN /\ probeToken' = IF BeginProbeOk(h) THEN token ELSE probeToken
          /\ IF armed
             THEN /\ health' = BeginProbe(h)
                  /\ guard' = ProbeBegin(guard, token.sequence, owner.due, Deadline)
                  /\ Goto("call")
                  /\ disturbed' = FALSE
             ELSE /\ health' = ProbeFailed(IF BeginProbeOk(h) THEN BeginProbe(h) ELSE h,
                                           probeToken', now)
                  /\ guard' = PacketResult(guard, -1)
                  /\ owner' = Again(owner)
                  /\ UNCHANGED disturbed
    /\ UNCHANGED <<connected, lastRefresh, sdkVars, now, evidence>>

\* The SDK call: it takes the next identifier, or fails with or without it.
SdkCall ==
    /\ At("call")
    /\ LET p == [id |-> nextId, serial |-> guard.serial, op |-> owner.op]
       IN \/ /\ nextId' = Following(nextId)
             /\ outbox' = outbox \cup {p}
             /\ wire' = IF link = "up" THEN wire \cup {p} ELSE wire
             /\ owner' = [owner EXCEPT !.at = "complete", !.rc = nextId]
          \/ /\ nextId' \in {nextId, Following(nextId)}
             /\ owner' = [owner EXCEPT !.at = "complete", !.rc = -1]
             /\ UNCHANGED <<outbox, wire>>
    /\ UNCHANGED <<guard, health, probeToken, connected, lastRefresh, link, skips, now,
                   evidence, disturbed>>

\* complete_packet, and the bootstrap's progress.
Complete ==
    /\ At("complete")
    /\ guard' = PacketResult(guard, owner.rc)
    /\ health' = IF PacketResultOk(guard, owner.rc) THEN health ELSE EventLoss(health, now)
    /\ LET step == IF owner.rc >= 0 /\ owner.bootStep < BootstrapSteps
                   THEN owner.bootStep + 1 ELSE owner.bootStep
       IN owner' = IF owner.op = "probe" THEN [owner EXCEPT !.at = "settle"]
                   ELSE [Again(owner) EXCEPT !.bootStep = step]
    /\ UNCHANGED <<probeToken, connected, lastRefresh, sdkVars, now, evidence, disturbed>>

\* The last critical section of sdk_enqueue for a probe.
Settle ==
    /\ At("settle")
    /\ LET rc == owner.rc
           seq == probeToken.sequence
           h == IF rc >= 0 THEN ProbeAdmitted(health, probeToken, now) ELSE health
           proof == ProbeResultProof(guard, seq, rc, now)
       IN /\ guard' = ProbeResult(guard, seq, rc, now)
          /\ health' = IF proof # {} THEN ProbeAck(h, probeToken, now)
                       ELSE IF rc < 0 \/ guard'.probe = "failed"
                       THEN ProbeFailed(h, probeToken, now)
                       ELSE h
          /\ evidence' = IF proof # {} /\ ProbeAckOk(h, probeToken, now)
                         THEN [acked |-> guard.early[CHOOSE k \in proof : TRUE].serial,
                               probe |-> guard.probeSerial]
                         ELSE evidence
    /\ owner' = Again(owner)
    /\ UNCHANGED <<probeToken, connected, lastRefresh, sdkVars, now, disturbed>>

(***************************************************************************)
(* The monitor task, the OTA notifications and the clock.                  *)
(***************************************************************************)
Monitor ==
    /\ guard' = ProbeExpire(guard, now)
    /\ health' = Advance(health, now)
    /\ UNCHANGED <<probeToken, connected, ownerVars, sdkVars, now, evidence, disturbed>>

\* mqtt_ota_state_changed: fw_ota's claim and release alternate.
OtaChange(active) ==
    /\ health.ota # active
    /\ health' = SetOta(health, now, active)
    /\ guard' = ProbeRetire(guard)
    /\ disturbed' = TRUE
    /\ UNCHANGED <<probeToken, connected, ownerVars, sdkVars, now, evidence>>

Tick ==
    /\ now < MaxTime
    /\ now' = now + 1
    /\ UNCHANGED <<guard, health, probeToken, connected, ownerVars, sdkVars, evidence,
                   disturbed>>

Next ==
    \/ Connect \/ DuplicateConnected \/ ConnectFails \/ Disconnect \/ SdkStops
    \/ \E p \in outbox : OutboxExpires(p)
    \/ \E w \in wire : Acknowledge(w)
    \/ SdkSkips
    \/ ArmEpoch \/ Refresh \/ Reconnect \/ ReconnectRejected
    \/ AwaitEpoch \/ Choose \/ Reserve \/ Arm \/ SdkCall \/ Complete \/ Settle
    \/ Monitor
    \/ \E active \in BOOLEAN : OtaChange(active)
    \/ Tick

Spec == Init /\ [][Next]_vars

(***************************************************************************)
(* Properties.                                                             *)
(***************************************************************************)

\* The type of every variable of the session.
TypeOK ==
    /\ guard.generation \in 0..MaxCounter
    /\ guard.serial \in 0..MaxCounter
    /\ guard.attempts \in 0..Budget
    /\ guard.probe \in ProbeStates
    /\ Len(guard.early) <= EarlyAcks
    /\ health.generation \in 0..MaxSequence
    /\ health.failure \in {"none", "ack_timeout", "admission_timeout", "probe_failed",
                           "event_loss"}
    /\ connected \in BOOLEAN
    /\ owner.at \in {"top", "reserve", "arm", "call", "complete", "settle"}
    /\ link \in {"off", "idle", "connecting", "up", "closing", "stopped"}
    /\ nextId \in Ids
    /\ outbox \subseteq [id : Ids, serial : 1..MaxCounter, op : {"sub", "pub", "probe"}]

\* Broker publication is never claimed on a foreign acknowledgement: whatever
\* wrapped, was retransmitted or arrived early, the PUBACK accepted as proof is
\* that of the probe packet itself.
ProofIsReal == health.proof => evidence.acked = evidence.probe /\ evidence.acked # 0

\* A standing proof belongs to this connection and this side of every OTA
\* transition: its probe began after the last of them.
ProofCurrent == health.proof => ~disturbed

\* In an epoch the guard considers safe, an identifier names one message.
IdsUnambiguous ==
    ~guard.unsafe /\ ~guard.opPending
        => \A p, q \in outbox \cup wire : p.id = q.id => p = q

\* Whoever polls the health, at whatever moment, is told of a fresh proof only
\* if the acknowledgement is younger than two windows.
FreshIsRecent ==
    ProofFresh(Advance(health, now)) => now - health.lastAck < Interval + Deadline

\* Broker publication is claimed on this connection's own, recent evidence.
ProofSound == ProofIsReal /\ ProofCurrent /\ IdsUnambiguous /\ FreshIsRecent

\* The guard counts a probe's timeout from its planned time, that of the window
\* in which the health waits for it.
PlannedStart ==
    health.pending /\ ProbeActive(guard) => guard.started = health.due

=============================================================================
