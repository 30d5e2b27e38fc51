-------------------------- MODULE MqttSessionProofs -------------------------
(***************************************************************************)
(* What MqttSession claims of broker proof holds for every identifier      *)
(* range, budget, clock and number of packets, connections and transfers.  *)
(***************************************************************************)
EXTENDS MqttSession, SequenceTheorems, TLAPS

\* One lap of identifiers is enough for what the guard admits in an epoch and
\* what the SDK takes for itself: 65535 against 60000 and a few.
LapSuffices == Budget + MaxSkips <= LastId

GuardFields == {"connected", "generation", "attempts", "sinceId", "serial", "opPending",
    "doneSerial", "doneId", "haveLast", "lastId", "unsafe", "resetArmed", "boundarySeen", "probe",
    "token", "probeGen", "probeSerial", "started", "timeout", "probeId", "early"}
HealthFields == {"now", "connected", "ota", "generation", "sequence", "pending", "admitted",
    "token", "proof", "failure", "due", "deadline", "lastAck"}
OwnerFields == {"at", "op", "due", "rc", "bootGen", "bootStep", "rejects"}

Live == outbox \cup wire

\* How many identifiers before n id was handed out, if it was.
Age(n, id) == IF n > id THEN n - id ELSE LastId + n - id

\* Identifiers that may have been used in this epoch.
Called == owner.at \notin {"arm", "call"}
Used == guard.attempts + skips - (IF Called THEN 0 ELSE 1)

Packet(p) == p.id \in Ids /\ p.serial \in Nat \ {0}

Early == [id : Ids, at : Int, serial : Nat \ {0}]
GuardOK(g) == DOMAIN g = GuardFields /\ g.early \in Seq(Early)
SessionOK ==
    /\ GuardOK(guard)
    /\ guard.attempts \in 0..Budget /\ guard.serial \in Nat /\ guard.generation \in Nat
    /\ DOMAIN owner = OwnerFields /\ owner.rc \in Int
    /\ nextId \in Ids /\ skips \in 0..MaxSkips /\ now \in Nat
    /\ \A p \in Live : Packet(p)

\* The health's books: its clock is not ahead, a probe that is pending was due,
\* and a proof expires at most two windows after its acknowledgement.
HealthOK(h, t) ==
    /\ DOMAIN h = HealthFields
    /\ h.now \in Nat /\ h.due \in Nat /\ h.deadline \in Nat /\ h.lastAck \in Nat /\ h.generation \in Nat
    /\ h.now <= t
    /\ h.pending => h.due <= h.now
    /\ h.proof => h.deadline <= h.lastAck + Interval + Deadline

\* Where the owner is, what the guard knows of the link, and what is left of
\* an epoch that ends.
ControlInv ==
    /\ guard.opPending <=> owner.at \in {"arm", "call", "complete"}
    /\ guard.opPending => guard.attempts > 0 /\ guard.serial > 0
    /\ owner.at = "arm" => owner.op = "probe"
    /\ guard.connected <=> link \in {"up", "closing"}
    /\ connected => link \in {"up", "closing"}
    /\ link \in {"off", "connecting", "stopped"} => owner.at = "top"
    /\ link = "stopped" => outbox = {}
    /\ guard.resetArmed => owner.at = "top" /\ outbox = {}
    /\ guard.generation <= health.generation
    /\ guard.probe = "arming" =>
         /\ owner.at \in {"call", "complete", "settle"} /\ owner.op = "probe"
         /\ guard.token = probeToken.sequence /\ guard.probeSerial = guard.serial

\* Identifiers in use are of this lap, and name one packet each.
WindowOK(live, n, used) ==
    /\ \A p \in live : Age(n, p.id) <= used
    /\ \A p, q \in live : p.id = q.id => p = q

\* The identifier the current probe has, once it has one.
ProbeIdIs(g, o, id) ==
    \/ g.probe = "pending" /\ id = g.probeId
    \/ g.probe = "arming" /\ o.at \in {"complete", "settle"} /\ o.rc >= 0 /\ id = o.rc

\* It is the probe's own: whoever is acknowledged under it is the probe.
ProbeOK(g, o, live, n, used) ==
    /\ ProbeActive(g) => g.probeSerial \in Nat \ {0}
    /\ g.probe = "arming" => \A k \in 1..Len(g.early) : Age(n, g.early[k].id) <= used
    /\ \A id \in Int : ProbeIdIs(g, o, id) =>
         /\ id \in Ids /\ Age(n, id) <= used
         /\ \A p \in live : p.id = id => p.serial = g.probeSerial
         /\ g.probe = "arming" =>
              \A k \in 1..Len(g.early) : g.early[k].id = id => g.early[k].serial = g.probeSerial

\* A probe or a proof is of this connection, and a proof is the probe's.
EvidenceInv ==
    /\ health.pending \/ health.proof => ~disturbed
    /\ ProofIsReal

HealthInv == HealthOK(health, now)
WindowInv == WindowOK(Live, nextId, Used)
ProbeInv == ProbeOK(guard, owner, Live, nextId, Used)
SessionInv == SessionOK /\ HealthInv /\ ControlInv /\ WindowInv /\ ProbeInv /\ EvidenceInv

----------------------------------------------------------------------------
(* The health, operation by operation. *)

LEMMA HealthConst == /\ Interval \in Nat /\ Deadline \in Nat /\ Deadline > 0 /\ Interval >= Deadline
                     /\ MaxSequence \in Nat /\ MaxSequence > 0
  BY HealthConstants

\* The clock moves on; nothing else does.
LEMMA ObservedFields ==
  ASSUME NEW h, DOMAIN h = HealthFields, h.now \in Nat, NEW t \in Nat
  PROVE  LET o == Observed(h, t)
         IN /\ DOMAIN o = HealthFields
            /\ o.now = (IF t > h.now THEN t ELSE h.now)
            /\ o.connected = h.connected /\ o.ota = h.ota /\ o.generation = h.generation
            /\ o.sequence = h.sequence /\ o.pending = h.pending /\ o.admitted = h.admitted
            /\ o.token = h.token /\ o.proof = h.proof /\ o.due = h.due /\ o.deadline = h.deadline
            /\ o.lastAck = h.lastAck
  BY DEF Observed, HealthFields

LEMMA ClearFields ==
  ASSUME NEW h, DOMAIN h = HealthFields
  PROVE  LET o == ClearPending(h)
         IN /\ DOMAIN o = HealthFields /\ ~o.pending
            /\ o.now = h.now /\ o.connected = h.connected /\ o.ota = h.ota /\ o.generation = h.generation
            /\ o.proof = h.proof /\ o.due = h.due /\ o.deadline = h.deadline /\ o.lastAck = h.lastAck
  BY DEF ClearPending, HealthFields

LEMMA ScheduleFields ==
  ASSUME NEW h, DOMAIN h = HealthFields, NEW d
  PROVE  LET o == Schedule(h, d)
         IN /\ DOMAIN o = HealthFields /\ o.due = d /\ o.deadline = d + Deadline
            /\ o.now = h.now /\ o.connected = h.connected /\ o.ota = h.ota /\ o.generation = h.generation
            /\ o.pending = h.pending /\ o.proof = h.proof /\ o.lastAck = h.lastAck
  BY DEF Schedule, HealthFields

LEMMA ScheduleNextFields ==
  ASSUME NEW h, DOMAIN h = HealthFields, h.due \in Nat, h.now \in Nat
  PROVE  LET o == ScheduleNext(h)
         IN /\ DOMAIN o = HealthFields
            /\ o.due \in Nat /\ o.deadline = o.due + Deadline /\ o.deadline \in Nat
            /\ h.due <= h.now => o.due <= h.now + Interval
            /\ o.now = h.now /\ o.connected = h.connected /\ o.ota = h.ota /\ o.generation = h.generation
            /\ o.pending = h.pending /\ o.proof = h.proof /\ o.lastAck = h.lastAck
<1> DEFINE d == IF h.due + Interval < h.now THEN h.now ELSE h.due + Interval
<1>1. d \in Nat /\ (h.due <= h.now => d <= h.now + Interval)
  BY HealthConst
<1>2. ScheduleNext(h) = Schedule(h, d)
  BY DEF ScheduleNext
<1> HIDE DEF d
<1> QED
  BY <1>1, <1>2, ScheduleFields, HealthConst

\* A window that fails withdraws what it was waiting for, and the proof.
LEMMA FailWindowFields ==
  ASSUME NEW h, DOMAIN h = HealthFields, h.due \in Nat, h.now \in Nat, NEW reason
  PROVE  LET o == FailWindow(h, reason)
         IN /\ DOMAIN o = HealthFields /\ o.due \in Nat /\ o.deadline \in Nat
            /\ ~o.pending /\ ~o.proof
            /\ o.now = h.now /\ o.connected = h.connected /\ o.ota = h.ota /\ o.generation = h.generation
            /\ o.lastAck = h.lastAck
<1> DEFINE a == [h EXCEPT !.proof = FALSE, !.failure = reason]
<1>1. /\ DOMAIN a = HealthFields /\ ~a.proof /\ a.due = h.due /\ a.now = h.now
      /\ a.connected = h.connected /\ a.ota = h.ota /\ a.generation = h.generation /\ a.lastAck = h.lastAck
  BY DEF HealthFields
<1>2. FailWindow(h, reason) = ScheduleNext(ClearPending(a))
  BY DEF FailWindow
<1> HIDE DEF a
<1> DEFINE b == ClearPending(a)
<1>3. /\ DOMAIN b = HealthFields /\ ~b.pending /\ ~b.proof /\ b.due = h.due /\ b.now = h.now
      /\ b.connected = h.connected /\ b.ota = h.ota /\ b.generation = h.generation /\ b.lastAck = h.lastAck
  BY <1>1, ClearFields
<1>4. FailWindow(h, reason) = ScheduleNext(b)
  BY <1>2
<1> HIDE DEF b
<1> QED
  BY <1>3, <1>4, ScheduleNextFields

\* What any operation may do to the health without beginning a probe.
Quieter(h, k) == (k.pending => h.pending) /\ (k.proof => h.proof) /\ k.generation = h.generation

LEMMA ObservedOK ==
  ASSUME NEW h, NEW T \in Nat, HealthOK(h, T), NEW t \in Nat, t <= T
  PROVE  HealthOK(Observed(h, t), T) /\ Quieter(h, Observed(h, t))
<1> DEFINE o == Observed(h, t)
<1>1. /\ DOMAIN o = HealthFields
      /\ o.now = (IF t > h.now THEN t ELSE h.now) /\ o.generation = h.generation
      /\ o.pending = h.pending /\ o.proof = h.proof /\ o.due = h.due /\ o.deadline = h.deadline
      /\ o.lastAck = h.lastAck
  BY ObservedFields DEF HealthOK
<1> HIDE DEF o
<1>2. HealthOK(o, T) /\ Quieter(h, o)
  BY <1>1 DEF HealthOK, Quieter
<1> QED
  BY <1>2 DEF o

LEMMA FailWindowOK ==
  ASSUME NEW h, NEW T \in Nat, HealthOK(h, T), NEW reason
  PROVE  HealthOK(FailWindow(h, reason), T) /\ Quieter(h, FailWindow(h, reason))
<1> DEFINE o == FailWindow(h, reason)
<1>1. /\ DOMAIN o = HealthFields /\ o.due \in Nat /\ o.deadline \in Nat /\ ~o.pending /\ ~o.proof
      /\ o.now = h.now /\ o.generation = h.generation /\ o.lastAck = h.lastAck
  BY FailWindowFields DEF HealthOK
<1> HIDE DEF o
<1>2. HealthOK(o, T) /\ Quieter(h, o)
  BY <1>1 DEF HealthOK, Quieter
<1> QED
  BY <1>2 DEF o

\* Time passes: whatever is reported as fresh afterwards was proved before, and
\* the window has not ended.
LEMMA AdvanceOK ==
  ASSUME NEW h, NEW T \in Nat, HealthOK(h, T), NEW t \in Nat, t <= T
  PROVE  LET a == Advance(h, t)
         IN /\ HealthOK(a, T) /\ Quieter(h, a) /\ a.now >= t
            /\ a.connected = h.connected /\ a.ota = h.ota
            /\ a.now \in Nat /\ (h.now >= t => a.now = h.now)
            /\ h.connected /\ ~h.ota /\ a.proof => a.now < h.deadline
            /\ h.now >= t /\ h.now < h.deadline => a.pending = h.pending /\ a.token = h.token
<1> DEFINE o == Observed(h, t)
           reason == IF o.admitted THEN "ack_timeout" ELSE "admission_timeout"
           f == FailWindow(o, reason)
<1>1. HealthOK(o, T) /\ Quieter(h, o)
  BY ObservedOK
<1>2. /\ o.now = (IF t > h.now THEN t ELSE h.now) /\ o.connected = h.connected /\ o.ota = h.ota
      /\ o.deadline = h.deadline /\ o.pending = h.pending /\ o.token = h.token /\ h.now \in Nat
  BY ObservedFields DEF HealthOK
<1>3. Advance(h, t) = IF o.connected /\ ~o.ota /\ o.now >= o.deadline THEN f ELSE o
  BY DEF Advance
<1> HIDE DEF reason, o
<1>4. HealthOK(f, T) /\ Quieter(o, f)
  BY <1>1, FailWindowOK
<1>5. f.now = o.now /\ f.connected = o.connected /\ f.ota = o.ota /\ ~f.proof
  BY <1>1, FailWindowFields DEF HealthOK
<1>6. o.now \in Nat /\ h.deadline \in Nat /\ o.now >= t
  BY <1>1, <1>2 DEF HealthOK
<1> HIDE DEF f
<1>7. CASE o.connected /\ ~o.ota /\ o.now >= o.deadline
  <2>1. Advance(h, t) = f
    BY <1>3, <1>7
  <2>2. Quieter(h, f)
    BY <1>1, <1>4 DEF Quieter
  <2>3. ~(h.now >= t /\ h.now < h.deadline)
    BY <1>2, <1>6, <1>7
  <2>4. f.now >= t /\ f.now \in Nat /\ (h.now >= t => f.now = h.now)
    BY <1>2, <1>5, <1>6
  <2>5. f.connected = h.connected /\ f.ota = h.ota
    BY <1>2, <1>5
  <2> QED
    BY <1>4, <1>5, <2>1, <2>2, <2>3, <2>4, <2>5
<1>8. CASE ~(o.connected /\ ~o.ota /\ o.now >= o.deadline)
  <2>1. Advance(h, t) = o
    BY <1>3, <1>8
  <2> QED
    BY <1>1, <1>2, <1>6, <1>8, <2>1
<1> QED
  BY <1>7, <1>8

\* Nothing pending and nothing proved.
Blank(h, T) == HealthOK(h, T) /\ ~h.pending /\ ~h.proof

LEMMA HealthConnectedOK ==
  ASSUME NEW h, NEW T \in Nat, HealthOK(h, T), NEW t \in Nat, t <= T
  PROVE  LET k == HealthConnected(h, t)
         IN /\ Blank(k, T)
            /\ k.generation = (IF h.generation = MaxSequence THEN h.generation ELSE h.generation + 1)
<1> DEFINE o == Observed(h, t)
           a == [o EXCEPT !.generation = IF @ = MaxSequence THEN @ ELSE @ + 1,
                          !.connected = TRUE, !.proof = FALSE, !.failure = "none"]
           b == ClearPending(a)
           k == Schedule(b, o.now)
<1>1. HealthOK(o, T) /\ o.generation = h.generation
  BY ObservedOK DEF Quieter
<1>2. HealthConnected(h, t) = k
  BY DEF HealthConnected
<1> HIDE DEF o
<1>3. /\ DOMAIN a = HealthFields /\ a.now = o.now /\ ~a.proof /\ a.lastAck = o.lastAck
      /\ a.generation = (IF o.generation = MaxSequence THEN o.generation ELSE o.generation + 1)
  BY <1>1 DEF HealthFields, HealthOK
<1> HIDE DEF a
<1>4. /\ DOMAIN b = HealthFields /\ b.now = o.now /\ ~b.proof /\ ~b.pending /\ b.lastAck = o.lastAck
      /\ b.generation = a.generation
  BY <1>3, ClearFields
<1> HIDE DEF b
<1>5. /\ DOMAIN k = HealthFields /\ k.due = o.now /\ k.deadline = o.now + Deadline /\ k.now = o.now
      /\ ~k.proof /\ ~k.pending /\ k.lastAck = o.lastAck /\ k.generation = a.generation
  BY <1>4, ScheduleFields
<1> HIDE DEF k
<1>6. Blank(k, T)
  BY <1>1, <1>3, <1>5, HealthConst DEF HealthOK, Blank
<1> QED
  BY <1>1, <1>2, <1>3, <1>5, <1>6

LEMMA HealthDisconnectedOK ==
  ASSUME NEW h, NEW T \in Nat, HealthOK(h, T), NEW t \in Nat, t <= T
  PROVE  Blank(HealthDisconnected(h, t), T) /\ HealthDisconnected(h, t).generation = h.generation
<1> DEFINE o == Observed(h, t)
           a == [o EXCEPT !.connected = FALSE, !.proof = FALSE,
                      !.failure = "none", !.due = 0, !.deadline = 0]
           k == ClearPending(a)
<1>1. HealthOK(o, T) /\ o.generation = h.generation
  BY ObservedOK DEF Quieter
<1>2. HealthDisconnected(h, t) = k
  BY DEF HealthDisconnected
<1> HIDE DEF o
<1>3. /\ DOMAIN a = HealthFields /\ a.now = o.now /\ ~a.proof /\ a.lastAck = o.lastAck
      /\ a.generation = o.generation /\ a.due = 0 /\ a.deadline = 0
  BY <1>1 DEF HealthFields, HealthOK
<1> HIDE DEF a
<1>4. /\ DOMAIN k = HealthFields /\ k.now = o.now /\ ~k.proof /\ ~k.pending /\ k.lastAck = o.lastAck
      /\ k.generation = o.generation /\ k.due = 0 /\ k.deadline = 0
  BY <1>3, ClearFields
<1> HIDE DEF k
<1>5. Blank(k, T)
  BY <1>1, <1>4 DEF HealthOK, Blank
<1> QED
  BY <1>1, <1>2, <1>4, <1>5

LEMMA EventLossOK ==
  ASSUME NEW h, NEW T \in Nat, HealthOK(h, T), NEW t \in Nat, t <= T
  PROVE  Blank(EventLoss(h, t), T) /\ EventLoss(h, t).generation = h.generation
<1> DEFINE o == Observed(h, t)
           a == [o EXCEPT !.proof = FALSE]
           b == ClearPending(a)
           c == [b EXCEPT !.failure = "event_loss"]
           k == ScheduleNext(c)
<1>1. HealthOK(o, T) /\ o.generation = h.generation
  BY ObservedOK DEF Quieter
<1>2. EventLoss(h, t) = IF b.connected /\ ~b.ota THEN k ELSE b
  BY DEF EventLoss
<1> HIDE DEF o
<1>3. /\ DOMAIN a = HealthFields /\ a.now = o.now /\ ~a.proof /\ a.lastAck = o.lastAck
      /\ a.generation = o.generation /\ a.due = o.due /\ a.deadline = o.deadline
  BY <1>1 DEF HealthFields, HealthOK
<1> HIDE DEF a
<1>4. /\ DOMAIN b = HealthFields /\ b.now = o.now /\ ~b.proof /\ ~b.pending /\ b.lastAck = o.lastAck
      /\ b.generation = o.generation /\ b.due = o.due /\ b.deadline = o.deadline
  BY <1>3, ClearFields
<1> HIDE DEF b
<1>5. /\ DOMAIN c = HealthFields /\ c.now = o.now /\ ~c.proof /\ ~c.pending /\ c.lastAck = o.lastAck
      /\ c.generation = o.generation /\ c.due = o.due
  BY <1>4 DEF HealthFields
<1> HIDE DEF c
<1>6. /\ DOMAIN k = HealthFields /\ k.now = o.now /\ ~k.proof /\ ~k.pending /\ k.lastAck = o.lastAck
      /\ k.generation = o.generation /\ k.due \in Nat /\ k.deadline \in Nat
  BY <1>1, <1>5, ScheduleNextFields DEF HealthOK
<1> HIDE DEF k
<1>7. Blank(k, T) /\ Blank(b, T)
  BY <1>1, <1>4, <1>6 DEF HealthOK, Blank
<1>8. CASE b.connected /\ ~b.ota
  BY <1>1, <1>2, <1>6, <1>7, <1>8
<1>9. CASE ~(b.connected /\ ~b.ota)
  BY <1>1, <1>2, <1>4, <1>7, <1>9
<1> QED
  BY <1>8, <1>9

LEMMA SetOtaOK ==
  ASSUME NEW h, NEW T \in Nat, HealthOK(h, T), NEW t \in Nat, t <= T,
         NEW active, h.ota # active
  PROVE  Blank(SetOta(h, t, active), T) /\ SetOta(h, t, active).generation = h.generation
<1> DEFINE o == Observed(h, t)
           a == [o EXCEPT !.ota = active, !.proof = FALSE, !.failure = "none"]
           b == ClearPending(a)
           k == Schedule(b, b.now)
<1>1. HealthOK(o, T) /\ o.generation = h.generation /\ o.ota = h.ota
  BY ObservedOK, ObservedFields DEF Quieter, HealthOK
<1>2. SetOta(h, t, active) = IF o.ota = active THEN o ELSE IF b.connected /\ ~active THEN k ELSE b
  BY DEF SetOta
<1> HIDE DEF o
<1>3. /\ DOMAIN a = HealthFields /\ a.now = o.now /\ ~a.proof /\ a.lastAck = o.lastAck
      /\ a.generation = o.generation /\ a.due = o.due /\ a.deadline = o.deadline
  BY <1>1 DEF HealthFields, HealthOK
<1> HIDE DEF a
<1>4. /\ DOMAIN b = HealthFields /\ b.now = o.now /\ ~b.proof /\ ~b.pending /\ b.lastAck = o.lastAck
      /\ b.generation = o.generation /\ b.due = o.due /\ b.deadline = o.deadline
  BY <1>3, ClearFields
<1> HIDE DEF b
<1>5. /\ DOMAIN k = HealthFields /\ k.now = o.now /\ ~k.proof /\ ~k.pending /\ k.lastAck = o.lastAck
      /\ k.generation = o.generation /\ k.due = o.now /\ k.deadline = o.now + Deadline
  BY <1>4, ScheduleFields
<1> HIDE DEF k
<1>6. Blank(k, T) /\ Blank(b, T)
  BY <1>1, <1>4, <1>5, HealthConst DEF HealthOK, Blank
<1>7. CASE b.connected /\ ~active
  BY <1>1, <1>2, <1>5, <1>6, <1>7
<1>8. CASE ~(b.connected /\ ~active)
  BY <1>1, <1>2, <1>4, <1>6, <1>8
<1> QED
  BY <1>7, <1>8

\* A failed probe ends nothing but itself.
LEMMA ProbeFailedOK ==
  ASSUME NEW h, NEW T \in Nat, HealthOK(h, T), NEW t \in Nat, t <= T, NEW token
  PROVE  /\ HealthOK(ProbeFailed(h, token, t), T) /\ Quieter(h, ProbeFailed(h, token, t))
         /\ Matches(Advance(h, t), token) => ~ProbeFailed(h, token, t).pending
<1> DEFINE a == Advance(h, t)
           f == FailWindow(a, "probe_failed")
<1>1. HealthOK(a, T) /\ Quieter(h, a)
  BY AdvanceOK
<1>2. ProbeFailed(h, token, t) = IF Matches(a, token) THEN f ELSE a
  BY DEF ProbeFailed
<1> HIDE DEF a
<1>3. HealthOK(f, T) /\ Quieter(a, f) /\ ~f.pending
  BY <1>1, FailWindowOK, FailWindowFields DEF HealthOK
<1> HIDE DEF f
<1>4. Quieter(h, f)
  BY <1>1, <1>3 DEF Quieter
<1>5. CASE Matches(a, token)
  BY <1>2, <1>3, <1>4, <1>5
<1>6. CASE ~Matches(a, token)
  BY <1>1, <1>2, <1>6 DEF a
<1> QED
  BY <1>5, <1>6

LEMMA ProbeAdmittedOK ==
  ASSUME NEW h, NEW T \in Nat, HealthOK(h, T), NEW t \in Nat, t <= T, NEW token
  PROVE  HealthOK(ProbeAdmitted(h, token, t), T) /\ Quieter(h, ProbeAdmitted(h, token, t))
<1> DEFINE a == Advance(h, t)
           b == [a EXCEPT !.admitted = TRUE]
<1>1. HealthOK(a, T) /\ Quieter(h, a)
  BY AdvanceOK
<1>2. ProbeAdmitted(h, token, t) = IF Matches(a, token) THEN b ELSE a
  BY DEF ProbeAdmitted
<1> HIDE DEF a
<1>3. /\ DOMAIN b = HealthFields /\ b.now = a.now /\ b.proof = a.proof /\ b.pending = a.pending
      /\ b.lastAck = a.lastAck /\ b.generation = a.generation /\ b.due = a.due /\ b.deadline = a.deadline
  BY <1>1 DEF HealthFields, HealthOK
<1> HIDE DEF b
<1>4. HealthOK(b, T) /\ Quieter(h, b)
  BY <1>1, <1>3 DEF Quieter, HealthOK
<1> QED
  BY <1>1, <1>2, <1>4

\* An acknowledgement proves only what was pending.
LEMMA ProbeAckOK ==
  ASSUME NEW h, NEW T \in Nat, HealthOK(h, T), NEW t \in Nat, t <= T, NEW token
  PROVE  LET k == ProbeAck(h, token, t)
         IN /\ HealthOK(k, T) /\ (k.pending => h.pending) /\ k.generation = h.generation
            /\ k.proof => h.proof \/ ProbeAckOk(h, token, t)
            /\ ProbeAckOk(h, token, t) => h.pending
<1> DEFINE a == Advance(h, t)
           b == [a EXCEPT !.lastAck = a.now, !.proof = TRUE, !.failure = "none"]
           c == ClearPending(b)
           k == ScheduleNext(c)
<1>1. HealthOK(a, T) /\ Quieter(h, a)
  BY AdvanceOK
<1>2. /\ ProbeAck(h, token, t) = IF ProbeAckOk(h, token, t) THEN k ELSE a
      /\ ProbeAckOk(h, token, t) <=> Matches(a, token) /\ a.admitted
  BY DEF ProbeAck, ProbeAckOk
<1> HIDE DEF a
<1>3. CASE ProbeAckOk(h, token, t)
  <2>1. a.pending /\ h.pending /\ a.due <= a.now
    BY <1>1, <1>2, <1>3 DEF Matches, Quieter, HealthOK
  <2>2. /\ DOMAIN b = HealthFields /\ b.now = a.now /\ b.due = a.due /\ b.deadline = a.deadline
        /\ b.lastAck = a.now /\ b.generation = a.generation
    BY <1>1 DEF HealthFields, HealthOK
  <2> HIDE DEF b
  <2>3. /\ DOMAIN c = HealthFields /\ c.now = a.now /\ c.due = a.due /\ c.lastAck = a.now
        /\ c.generation = a.generation /\ ~c.pending
    BY <2>2, ClearFields
  <2> HIDE DEF c
  <2>4. /\ DOMAIN k = HealthFields /\ k.now = a.now /\ k.lastAck = a.now /\ k.generation = a.generation
        /\ ~k.pending /\ k.due \in Nat /\ k.deadline \in Nat /\ k.deadline = k.due + Deadline
        /\ k.due <= a.now + Interval
    BY <1>1, <2>1, <2>3, ScheduleNextFields DEF HealthOK
  <2> HIDE DEF k
  <2>5. HealthOK(k, T)
    BY <1>1, <2>4, HealthConst DEF HealthOK
  <2>6. k.generation = h.generation
    BY <1>1, <2>4 DEF Quieter
  <2> QED
    BY <1>2, <1>3, <2>1, <2>4, <2>5, <2>6
<1>4. CASE ~ProbeAckOk(h, token, t)
  BY <1>1, <1>2, <1>4 DEF Quieter
<1> QED
  BY <1>3, <1>4

\* A probe begins within its window.
LEMMA BeginProbeOK ==
  ASSUME NEW h, NEW T \in Nat, HealthOK(h, T), BeginProbeOk(h)
  PROVE  LET k == BeginProbe(h)
         IN /\ HealthOK(k, T) /\ k.generation = h.generation /\ k.pending
            /\ k.proof = h.proof /\ k.now = h.now /\ k.deadline = h.deadline
            /\ k.connected /\ ~k.ota /\ h.now < h.deadline
            /\ k.token = [generation |-> h.generation, sequence |-> h.sequence + 1]
<1> DEFINE k == BeginProbe(h)
<1>1. h.connected /\ ~h.ota /\ h.now >= h.due /\ h.now < h.deadline
  BY DEF BeginProbeOk, ProbeDue
<1>2. /\ DOMAIN k = HealthFields /\ k.generation = h.generation /\ k.pending /\ k.due = h.due
      /\ k.proof = h.proof /\ k.now = h.now /\ k.deadline = h.deadline /\ k.lastAck = h.lastAck
      /\ k.connected = h.connected /\ k.ota = h.ota
      /\ k.token = [generation |-> h.generation, sequence |-> h.sequence + 1]
  BY DEF BeginProbe, HealthFields, HealthOK
<1> HIDE DEF k
<1>3. HealthOK(k, T)
  BY <1>1, <1>2 DEF HealthOK
<1> QED
  BY <1>1, <1>2, <1>3 DEF k

----------------------------------------------------------------------------
(* The guard, operation by operation. *)

LEMMA GuardConst == /\ LastId \in Nat /\ Budget \in Nat /\ Budget > 0 /\ Budget < LastId /\ EarlyAcks \in Nat
                    /\ MaxCounter \in Nat /\ MaxCounter > 0 /\ Ids = 1..LastId
                    /\ MaxSkips \in Nat /\ MaxPackets \in Nat /\ MaxPackets < MaxCounter
                    /\ MaxConnects \in Nat /\ MaxConnects < MaxCounter /\ MaxConnects < MaxSequence
  BY GuardConstants, SessionConstants, HealthConstants DEF Ids

\* The same epoch, packet and probe; the probe may have ended.
SameEpoch(g, k) ==
    /\ k.connected = g.connected /\ k.generation = g.generation /\ k.attempts = g.attempts
    /\ k.serial = g.serial /\ k.resetArmed = g.resetArmed
SameProbe(g, k) ==
    /\ k.token = g.token /\ k.probeSerial = g.probeSerial /\ k.probeId = g.probeId
    /\ ProbeActive(k) => k.probe = g.probe /\ k.early = g.early
Ends(g, k) == GuardOK(k) /\ SameEpoch(g, k) /\ SameProbe(g, k) /\ k.opPending = g.opPending

LEMMA ProbeEndsOK ==
  ASSUME NEW g, GuardOK(g), NEW s
  PROVE  LET k == ProbeEnds(g, s)
         IN /\ GuardOK(k) /\ SameEpoch(g, k) /\ k.opPending = g.opPending
            /\ k.probe = s /\ k.early = << >> /\ k.unsafe = g.unsafe /\ k.probeGen = g.probeGen
            /\ k.token = g.token /\ k.probeSerial = g.probeSerial /\ k.probeId = g.probeId
            /\ s \notin {"arming", "pending"} => Ends(g, k) /\ ~ProbeActive(k)
<1> DEFINE k == ProbeEnds(g, s)
<1>1. /\ DOMAIN k = GuardFields /\ k.probe = s /\ k.early = << >>
      /\ k.opPending = g.opPending /\ k.unsafe = g.unsafe /\ k.probeGen = g.probeGen
      /\ k.token = g.token /\ k.probeSerial = g.probeSerial /\ k.probeId = g.probeId
      /\ k.connected = g.connected /\ k.generation = g.generation /\ k.attempts = g.attempts
      /\ k.serial = g.serial /\ k.resetArmed = g.resetArmed
  BY DEF ProbeEnds, GuardOK, GuardFields
<1> HIDE DEF k
<1>2. << >> \in Seq(Early)
  OBVIOUS
<1> QED
  BY <1>1, <1>2 DEF GuardOK, SameEpoch, SameProbe, Ends, ProbeActive, k

LEMMA EndsRefl ==
  ASSUME NEW g, GuardOK(g)
  PROVE  Ends(g, g)
  BY DEF Ends, SameEpoch, SameProbe

LEMMA MarkUnsafeOK ==
  ASSUME NEW g, GuardOK(g)
  PROVE  Ends(g, MarkUnsafe(g)) /\ ~ProbeActive(MarkUnsafe(g)) /\ MarkUnsafe(g).unsafe
<1> DEFINE e == ProbeEnds(g, "failed")
           k == [e EXCEPT !.unsafe = TRUE]
<1>1. /\ GuardOK(e) /\ SameEpoch(g, e) /\ e.opPending = g.opPending /\ e.probe = "failed" /\ e.early = << >>
      /\ e.token = g.token /\ e.probeSerial = g.probeSerial /\ e.probeId = g.probeId
  BY ProbeEndsOK
<1>2. MarkUnsafe(g) = k
  BY DEF MarkUnsafe
<1> HIDE DEF e
<1>3. /\ DOMAIN k = GuardFields /\ k.probe = e.probe /\ k.early = e.early /\ k.unsafe
      /\ k.opPending = e.opPending
      /\ k.token = e.token /\ k.probeSerial = e.probeSerial /\ k.probeId = e.probeId
      /\ k.connected = e.connected /\ k.generation = e.generation /\ k.attempts = e.attempts
      /\ k.serial = e.serial /\ k.resetArmed = e.resetArmed
  BY <1>1 DEF GuardOK, GuardFields
<1> HIDE DEF k
<1> QED
  BY <1>1, <1>2, <1>3 DEF GuardOK, SameEpoch, SameProbe, Ends, ProbeActive

\* A packet is reserved: the guard is otherwise as it was.
LEMMA PacketBeginOK ==
  ASSUME NEW g, GuardOK(g), PacketBeginOk(g)
  PROVE  LET k == PacketBegin(g)
         IN /\ GuardOK(k) /\ k.opPending /\ k.attempts = g.attempts + 1 /\ k.serial = g.serial + 1
            /\ k.connected = g.connected /\ k.generation = g.generation /\ k.resetArmed = g.resetArmed
            /\ SameProbe(g, k)
<1> DEFINE k == [g EXCEPT !.attempts = @ + 1, !.sinceId = @ + 1, !.serial = @ + 1, !.opPending = TRUE]
<1>1. PacketBegin(g) = k
  <2>1. ~g.opPending /\ g.serial < MaxCounter
    BY DEF PacketBeginOk
  <2>2. g.serial # MaxCounter
    BY <2>1, GuardConst
  <2> QED
    BY <2>1, <2>2 DEF PacketBegin
<1>2. /\ DOMAIN k = GuardFields /\ k.opPending /\ k.attempts = g.attempts + 1 /\ k.serial = g.serial + 1
      /\ k.connected = g.connected /\ k.generation = g.generation /\ k.resetArmed = g.resetArmed
      /\ k.token = g.token /\ k.probeSerial = g.probeSerial /\ k.probeId = g.probeId
      /\ k.probe = g.probe /\ k.early = g.early
  BY DEF GuardOK, GuardFields
<1> HIDE DEF k
<1> QED
  BY <1>1, <1>2 DEF GuardOK, SameProbe

\* The packet is complete, whatever its result.
LEMMA PacketResultOK ==
  ASSUME NEW g, GuardOK(g), g.opPending, NEW id
  PROVE  LET k == PacketResult(g, id)
         IN GuardOK(k) /\ SameEpoch(g, k) /\ SameProbe(g, k) /\ ~k.opPending
<1> DEFINE d == [g EXCEPT !.opPending = FALSE, !.doneSerial = g.serial, !.doneId = id]
           u == MarkUnsafe(d)
           k == [d EXCEPT !.lastId = id, !.haveLast = TRUE, !.sinceId = 0]
<1>1. /\ DOMAIN d = GuardFields /\ ~d.opPending /\ d.attempts = g.attempts /\ d.serial = g.serial
      /\ d.connected = g.connected /\ d.generation = g.generation /\ d.resetArmed = g.resetArmed
      /\ d.token = g.token /\ d.probeSerial = g.probeSerial /\ d.probeId = g.probeId
      /\ d.probe = g.probe /\ d.early = g.early
  BY DEF GuardOK, GuardFields
<1>2. PacketResult(g, id) \in {d, u, k}
  BY DEF PacketResult
<1> HIDE DEF d
<1>3. GuardOK(d) /\ SameEpoch(g, d) /\ SameProbe(g, d) /\ ~d.opPending
  BY <1>1 DEF GuardOK, SameEpoch, SameProbe
<1>4. Ends(d, u)
  BY <1>3, MarkUnsafeOK
<1> HIDE DEF u
<1>5. GuardOK(u) /\ SameEpoch(g, u) /\ SameProbe(g, u) /\ ~u.opPending
  BY <1>1, <1>3, <1>4 DEF Ends, SameEpoch, SameProbe
<1>6. /\ DOMAIN k = GuardFields /\ k.opPending = d.opPending /\ k.attempts = d.attempts /\ k.serial = d.serial
      /\ k.connected = d.connected /\ k.generation = d.generation /\ k.resetArmed = d.resetArmed
      /\ k.token = d.token /\ k.probeSerial = d.probeSerial /\ k.probeId = d.probeId
      /\ k.probe = d.probe /\ k.early = d.early
  BY <1>1 DEF GuardOK, GuardFields
<1> HIDE DEF k
<1>7. GuardOK(k) /\ SameEpoch(g, k) /\ SameProbe(g, k) /\ ~k.opPending
  BY <1>3, <1>6 DEF GuardOK, SameEpoch, SameProbe, ProbeActive
<1> QED
  BY <1>2, <1>3, <1>5, <1>7

LEMMA ProbeRetireOK ==
  ASSUME NEW g, GuardOK(g)
  PROVE  Ends(g, ProbeRetire(g)) /\ ~ProbeActive(ProbeRetire(g))
  BY ProbeEndsOK DEF ProbeRetire

\* An epoch may end: no probe outlives it.
LEMMA ArmResetOK ==
  ASSUME NEW g, GuardOK(g), NEW empty
  PROVE  LET k == ArmReset(g, empty)
         IN /\ GuardOK(k) /\ k.opPending = g.opPending /\ k.attempts = g.attempts /\ k.serial = g.serial
            /\ k.connected = g.connected /\ k.generation = g.generation
            /\ k.resetArmed => g.resetArmed \/ ArmResetOk(g, empty)
            /\ SameProbe(g, k)
<1> DEFINE a == [g EXCEPT !.resetArmed = TRUE,
                          !.boundarySeen = IF g.resetArmed THEN @ ELSE ~g.connected]
           k == ProbeRetire(a)
<1>1. /\ DOMAIN a = GuardFields /\ a.opPending = g.opPending /\ a.attempts = g.attempts /\ a.serial = g.serial
      /\ a.connected = g.connected /\ a.generation = g.generation /\ a.early = g.early
      /\ a.token = g.token /\ a.probeSerial = g.probeSerial /\ a.probeId = g.probeId
  BY DEF GuardOK, GuardFields
<1>2. ArmReset(g, empty) = IF ~ArmResetOk(g, empty) THEN g ELSE k
  BY DEF ArmReset
<1> HIDE DEF a
<1>3. Ends(a, k) /\ ~ProbeActive(k)
  BY <1>1, ProbeRetireOK DEF GuardOK
<1> HIDE DEF k
<1>4. CASE ArmResetOk(g, empty)
  BY <1>1, <1>2, <1>3, <1>4 DEF Ends, SameEpoch, SameProbe
<1>5. CASE ~ArmResetOk(g, empty)
  BY <1>2, <1>5, EndsRefl DEF Ends, SameProbe
<1> QED
  BY <1>4, <1>5

LEMMA GuardDisconnectedOK ==
  ASSUME NEW g, GuardOK(g)
  PROVE  LET k == GuardDisconnected(g)
         IN /\ GuardOK(k) /\ k.opPending = g.opPending /\ k.attempts = g.attempts /\ k.serial = g.serial
            /\ ~k.connected /\ k.generation = g.generation /\ k.resetArmed = g.resetArmed
            /\ SameProbe(g, k)
<1> DEFINE a == [g EXCEPT !.connected = FALSE, !.boundarySeen = @ \/ g.resetArmed]
           k == ProbeRetire(a)
<1>1. /\ DOMAIN a = GuardFields /\ a.opPending = g.opPending /\ a.attempts = g.attempts /\ a.serial = g.serial
      /\ ~a.connected /\ a.generation = g.generation /\ a.early = g.early /\ a.resetArmed = g.resetArmed
      /\ a.token = g.token /\ a.probeSerial = g.probeSerial /\ a.probeId = g.probeId
  BY DEF GuardOK, GuardFields
<1>2. GuardDisconnected(g) = k
  BY DEF GuardDisconnected
<1> HIDE DEF a
<1>3. Ends(a, k) /\ ~ProbeActive(k)
  BY <1>1, ProbeRetireOK DEF GuardOK
<1> HIDE DEF k
<1> QED
  BY <1>1, <1>2, <1>3 DEF Ends, SameEpoch, SameProbe

\* A CONNECTED event starts a new epoch only over an armed reset, and is not
\* believed if the link was not seen to go down.
LEMMA GuardConnectedOK ==
  ASSUME NEW g, GuardOK(g), g.generation # MaxCounter
  PROVE  LET k == GuardConnected(g)
         IN /\ GuardOK(k) /\ k.opPending = g.opPending /\ k.serial = g.serial /\ k.connected
            /\ ~ProbeActive(k) /\ k.probeSerial = g.probeSerial
            /\ g.connected => k.generation = g.generation /\ k.attempts = g.attempts /\ k.resetArmed = g.resetArmed
            /\ ~g.connected => /\ k.generation = g.generation + 1
                               /\ \/ k.attempts = g.attempts /\ k.resetArmed = g.resetArmed
                                  \/ k.attempts = 0 /\ ~k.resetArmed /\ g.resetArmed
<1>1. CASE g.connected
  <2>1. GuardConnected(g) = MarkUnsafe(g)
    BY <1>1 DEF GuardConnected
  <2> QED
    BY <1>1, <2>1, MarkUnsafeOK DEF Ends, SameEpoch, SameProbe
<1>2. CASE ~g.connected
  <2> DEFINE a == [g EXCEPT !.connected = TRUE, !.generation = @ + 1]
             u == ProbeRetire(a)
             k == [u EXCEPT !.attempts = 0, !.sinceId = 0, !.haveLast = FALSE,
                            !.unsafe = FALSE, !.resetArmed = FALSE,
                            !.boundarySeen = FALSE, !.doneId = -1]
  <2>1. /\ DOMAIN a = GuardFields /\ a.opPending = g.opPending /\ a.attempts = g.attempts /\ a.serial = g.serial
        /\ a.connected /\ a.generation = g.generation + 1 /\ a.early = g.early /\ a.resetArmed = g.resetArmed
        /\ a.token = g.token /\ a.probeSerial = g.probeSerial /\ a.probeId = g.probeId
    BY DEF GuardOK, GuardFields
  <2>2. GuardConnected(g) = IF ~NewEpoch(g) THEN u ELSE k
    BY <1>2 DEF GuardConnected
  <2> HIDE DEF a
  <2>3. Ends(a, u) /\ ~ProbeActive(u)
    BY <2>1, ProbeRetireOK DEF GuardOK
  <2> HIDE DEF u
  <2>4. /\ DOMAIN k = GuardFields /\ k.opPending = u.opPending /\ k.attempts = 0 /\ k.serial = u.serial
        /\ k.connected = u.connected /\ k.generation = u.generation /\ ~k.resetArmed
        /\ k.probe = u.probe /\ k.early = u.early /\ k.probeSerial = u.probeSerial
    BY <2>3 DEF GuardFields, GuardOK, Ends
  <2> HIDE DEF k
  <2>5. CASE NewEpoch(g)
    BY <1>2, <2>1, <2>2, <2>3, <2>4, <2>5 DEF NewEpoch, Ends, SameEpoch, SameProbe, GuardOK, ProbeActive
  <2>6. CASE ~NewEpoch(g)
    BY <1>2, <2>1, <2>2, <2>3, <2>6 DEF Ends, SameEpoch, SameProbe
  <2> QED
    BY <2>5, <2>6
<1> QED
  BY <1>1, <1>2

\* A probe is armed for the packet that was reserved.
LEMMA ProbeBeginOK ==
  ASSUME NEW g, GuardOK(g), NEW token, NEW started, NEW timeout, ProbeBeginOk(g, token, timeout)
  PROVE  LET k == ProbeBegin(g, token, started, timeout)
         IN /\ GuardOK(k) /\ SameEpoch(g, k) /\ k.opPending = g.opPending
            /\ k.probe = "arming" /\ k.early = << >> /\ k.token = token /\ k.probeSerial = g.serial
<1> DEFINE e == ProbeEnds(g, "arming")
           k == [e EXCEPT !.token = token, !.probeGen = g.generation, !.probeSerial = g.serial,
                          !.started = started, !.timeout = timeout, !.probeId = 0]
<1>1. GuardOK(e) /\ SameEpoch(g, e) /\ e.opPending = g.opPending /\ e.probe = "arming" /\ e.early = << >>
  BY ProbeEndsOK
<1>2. ProbeBegin(g, token, started, timeout) = k
  BY DEF ProbeBegin
<1> HIDE DEF e
<1>3. /\ DOMAIN k = GuardFields /\ k.opPending = e.opPending /\ k.attempts = e.attempts /\ k.serial = e.serial
      /\ k.connected = e.connected /\ k.generation = e.generation /\ k.resetArmed = e.resetArmed
      /\ k.probe = e.probe /\ k.early = e.early /\ k.token = token /\ k.probeSerial = g.serial
  BY <1>1 DEF GuardFields, GuardOK
<1> HIDE DEF k
<1> QED
  BY <1>1, <1>2, <1>3 DEF GuardOK, SameEpoch

LEMMA ProbeExpireOK ==
  ASSUME NEW g, GuardOK(g), NEW t
  PROVE  Ends(g, ProbeExpire(g, t))
<1>1. ProbeExpire(g, t) \in {g, ProbeEnds(g, "expired")}
  BY DEF ProbeExpire
<1>2. Ends(g, g) /\ Ends(g, ProbeEnds(g, "expired"))
  BY EndsRefl, ProbeEndsOK
<1> QED
  BY <1>1, <1>2

\* An answer to the probe is final, one way or the other.
LEMMA AcceptOK ==
  ASSUME NEW g, GuardOK(g), NEW t
  PROVE  /\ GuardOK(Accept(g, t)) /\ SameEpoch(g, Accept(g, t)) /\ Accept(g, t).opPending = g.opPending
         /\ Accept(g, t).probe \in {"acked", "expired"}
         /\ Accept(g, t).token = g.token /\ Accept(g, t).probeSerial = g.probeSerial
         /\ Accept(g, t).probeId = g.probeId
<1> DEFINE e == ProbeEnds(g, "acked")
           x == [g EXCEPT !.probe = "expired"]
<1>1. GuardOK(e) /\ SameEpoch(g, e) /\ e.opPending = g.opPending /\ e.probe = "acked"
      /\ e.token = g.token /\ e.probeSerial = g.probeSerial /\ e.probeId = g.probeId
  BY ProbeEndsOK
<1>2. Accept(g, t) = IF AcceptOk(g, t) THEN e ELSE x
  BY DEF Accept
<1> HIDE DEF e
<1>3. /\ DOMAIN x = GuardFields /\ x.opPending = g.opPending /\ x.attempts = g.attempts /\ x.serial = g.serial
      /\ x.connected = g.connected /\ x.generation = g.generation /\ x.resetArmed = g.resetArmed
      /\ x.probe = "expired" /\ x.early = g.early /\ x.token = g.token /\ x.probeSerial = g.probeSerial
      /\ x.probeId = g.probeId
  BY DEF GuardFields, GuardOK
<1> HIDE DEF x
<1>4. GuardOK(x) /\ SameEpoch(g, x)
  BY <1>3 DEF GuardOK, SameEpoch
<1> QED
  BY <1>1, <1>2, <1>3, <1>4

\* An acknowledgement ends the probe, is kept for it, or is nothing to it.
LEMMA OnPubackOK ==
  ASSUME NEW g, GuardOK(g), NEW id \in Ids, NEW serial \in Nat \ {0}, NEW t \in Int
  PROVE  LET k == OnPuback(g, id, serial, t)
         IN /\ GuardOK(k) /\ SameEpoch(g, k) /\ k.opPending = g.opPending
            /\ k.token = g.token /\ k.probeSerial = g.probeSerial /\ k.probeId = g.probeId
            /\ ProbeActive(k) =>
                 /\ k.probe = g.probe
                 /\ \/ k.early = g.early
                    \/ k.early = Append(g.early, [id |-> id, at |-> t, serial |-> serial])
<1> DEFINE e == [id |-> id, at |-> t, serial |-> serial]
           x == [g EXCEPT !.early = Append(@, e)]
<1>1. e \in Early
  BY DEF Early
<1>2. OnPuback(g, id, serial, t) \in {g, ProbeEnds(g, "expired"), Accept(g, t), ProbeEnds(g, "failed"), x}
  BY DEF OnPuback
<1> HIDE DEF e
<1>3. /\ DOMAIN x = GuardFields /\ x.opPending = g.opPending /\ x.attempts = g.attempts /\ x.serial = g.serial
      /\ x.connected = g.connected /\ x.generation = g.generation /\ x.resetArmed = g.resetArmed
      /\ x.probe = g.probe /\ x.early = Append(g.early, e) /\ x.token = g.token
      /\ x.probeSerial = g.probeSerial /\ x.probeId = g.probeId
  BY DEF GuardFields, GuardOK
<1>4. x.early \in Seq(Early)
  BY <1>1, <1>3 DEF GuardOK
<1> HIDE DEF x
<1>5. CASE OnPuback(g, id, serial, t) = x
  BY <1>3, <1>4, <1>5 DEF GuardOK, SameEpoch, e
<1>6. CASE OnPuback(g, id, serial, t) \in {g, ProbeEnds(g, "expired"), ProbeEnds(g, "failed")}
  BY <1>6, EndsRefl, ProbeEndsOK DEF Ends, SameProbe
<1>7. CASE OnPuback(g, id, serial, t) = Accept(g, t)
  BY <1>7, AcceptOK DEF ProbeActive
<1> QED
  BY <1>2, <1>5, <1>6, <1>7

\* The call's result: the probe is over, or waits under the identifier the call
\* returned.
LEMMA ProbeResultOK ==
  ASSUME NEW g, GuardOK(g), NEW token, NEW id, NEW t
  PROVE  LET k == ProbeResult(g, token, id, t)
         IN /\ GuardOK(k) /\ SameEpoch(g, k) /\ k.opPending = g.opPending
            /\ k.token = g.token /\ k.probeSerial = g.probeSerial
            /\ ~(g.probe = "arming" /\ token = g.token) => k = g
            /\ g.probe = "arming" /\ token = g.token /\ ProbeActive(k) =>
                 k.probe = "pending" /\ k.probeId = id /\ id \in Ids
<1> DEFINE k == ProbeResult(g, token, id, t)
<1>1. CASE ~(g.probe = "arming" /\ token = g.token)
  BY <1>1, EndsRefl DEF ProbeResult, Ends, SameProbe
<1>2. CASE g.probe = "arming" /\ token = g.token
  <2> DEFINE got == [g EXCEPT !.probeId = id, !.probe = "pending"]
             x == [got EXCEPT !.early = << >>]
             y(a) == Accept(got, a)
  <2>1. /\ DOMAIN got = GuardFields /\ got.opPending = g.opPending /\ got.attempts = g.attempts
        /\ got.serial = g.serial /\ got.connected = g.connected /\ got.generation = g.generation
        /\ got.resetArmed = g.resetArmed /\ got.probe = "pending" /\ got.early = g.early
        /\ got.token = g.token /\ got.probeSerial = g.probeSerial /\ got.probeId = id
    BY DEF GuardFields, GuardOK
  <2>2. \/ k \in {ProbeEnds(g, "failed"), ProbeEnds(g, "expired")}
        \/ ProbeResultValid(g, id) /\ (k = x \/ \E a : k = Accept(got, a))
    BY <1>2 DEF ProbeResult
  <2> HIDE DEF got
  <2>3. GuardOK(got) /\ SameEpoch(g, got)
    BY <2>1 DEF GuardOK, SameEpoch
  <2>4. /\ DOMAIN x = GuardFields /\ x.opPending = got.opPending /\ x.attempts = got.attempts
        /\ x.serial = got.serial /\ x.connected = got.connected /\ x.generation = got.generation
        /\ x.resetArmed = got.resetArmed /\ x.probe = got.probe /\ x.early = << >>
        /\ x.token = got.token /\ x.probeSerial = got.probeSerial /\ x.probeId = got.probeId
    BY <2>1 DEF GuardFields
  <2> HIDE DEF x, k
  <2>5. CASE k \in {ProbeEnds(g, "failed"), ProbeEnds(g, "expired")}
    BY <1>2, <2>5, ProbeEndsOK DEF Ends, SameProbe, k
  <2>6. CASE ProbeResultValid(g, id) /\ k = x
    <3>1. << >> \in Seq(Early)
      OBVIOUS
    <3> QED
      BY <1>2, <2>1, <2>3, <2>4, <2>6, <3>1 DEF GuardOK, SameEpoch, ProbeResultValid, k
  <2>7. CASE \E a : k = Accept(got, a)
    <3>1. PICK a : k = Accept(got, a)
      BY <2>7
    <3>2. /\ GuardOK(k) /\ SameEpoch(got, k) /\ k.opPending = got.opPending /\ k.probe \in {"acked", "expired"}
          /\ k.token = got.token /\ k.probeSerial = got.probeSerial
      BY <2>3, <3>1, AcceptOK
    <3> QED
      BY <1>2, <2>1, <2>3, <3>2 DEF SameEpoch, ProbeActive, k
  <2> QED
    BY <2>2, <2>5, <2>6, <2>7
<1> QED
  BY <1>1, <1>2

----------------------------------------------------------------------------
(* The steps.  First what most of them have in common. *)

\* The SDK's next identifier, and how it ages the others.
LEMMA AgeStep ==
  ASSUME NEW n \in Ids, NEW id \in Ids
  PROVE  /\ Following(n) \in Ids
         /\ Age(Following(n), id) = IF id = n THEN 1 ELSE Age(n, id) + 1
  BY GuardConst DEF Age, Following

LEMMA AgeFresh ==
  ASSUME NEW n \in Ids, NEW id \in Ids
  PROVE  /\ Age(n, id) \in 1..LastId
         /\ Age(n, id) < LastId => id # n
  BY GuardConst DEF Age

LEMMA UsedType ==
  ASSUME SessionOK
  PROVE  Used \in Int /\ Used <= Budget + MaxSkips
  BY GuardConst DEF SessionOK, Used

LEMMA EarlyIds ==
  ASSUME NEW g, GuardOK(g), NEW k \in 1..Len(g.early)
  PROVE  g.early[k].id \in Ids
<1>1. g.early[k] \in Early
  BY ElementOfSeq DEF GuardOK
<1> QED
  BY <1>1 DEF Early

\* A probe that is over makes no claims.
LEMMA NoProbe ==
  ASSUME NEW g, ~ProbeActive(g), NEW o, NEW live, NEW n, NEW u
  PROVE  ProbeOK(g, o, live, n, u)
  BY DEF ProbeOK, ProbeIdIs, ProbeActive

\* Nothing new is under way and no identifier is taken.
LEMMA WindowFewer ==
  ASSUME NEW live, NEW less \in SUBSET live, \A p \in live : Packet(p), NEW n \in Ids,
         NEW u \in Int, NEW v \in Int, u <= v, WindowOK(live, n, u)
  PROVE  WindowOK(less, n, v)
<1>1. ASSUME NEW p \in less
      PROVE  Age(n, p.id) <= v
  <2>1. Age(n, p.id) <= u /\ p.id \in Ids
    BY DEF WindowOK, Packet
  <2>2. Age(n, p.id) \in Int
    BY <2>1, AgeFresh
  <2> QED
    BY <2>1, <2>2
<1> QED
  BY <1>1 DEF WindowOK

LEMMA ProbeFewer ==
  ASSUME NEW g, NEW k, GuardOK(g), SameProbe(g, k), NEW o, NEW q,
         NEW live, NEW less \in SUBSET live, NEW n \in Ids,
         NEW u \in Int, NEW v \in Int, u <= v, ProbeOK(g, o, live, n, u),
         k.probe = "arming" /\ q.at \in {"complete", "settle"} =>
             o.at \in {"complete", "settle"} /\ q.rc = o.rc
  PROVE  ProbeOK(k, q, less, n, v)
<1>1. CASE ~ProbeActive(k)
  BY <1>1, NoProbe
<1>2. CASE ProbeActive(k)
  <2>1. /\ k.probe = g.probe /\ k.early = g.early /\ k.probeSerial = g.probeSerial
        /\ k.probeId = g.probeId /\ ProbeActive(g)
    BY <1>2 DEF SameProbe, ProbeActive
  <2>2. ASSUME NEW id \in Ids, Age(n, id) <= u
        PROVE  Age(n, id) <= v
    <3>1. Age(n, id) \in Int
      BY AgeFresh
    <3> QED
      BY <2>2, <3>1
  <2>3. ASSUME NEW id \in Int, ProbeIdIs(k, q, id)
        PROVE  ProbeIdIs(g, o, id)
    BY <2>1, <2>3 DEF ProbeIdIs
  <2>4. ASSUME k.probe = "arming", NEW i \in 1..Len(k.early)
        PROVE  Age(n, k.early[i].id) <= v
    BY <2>1, <2>2, <2>4, EarlyIds DEF ProbeOK
  <2>5. ASSUME NEW id \in Int, ProbeIdIs(k, q, id)
        PROVE  /\ id \in Ids /\ Age(n, id) <= v
               /\ \A p \in less : p.id = id => p.serial = k.probeSerial
               /\ k.probe = "arming" =>
                    \A i \in 1..Len(k.early) : k.early[i].id = id => k.early[i].serial = k.probeSerial
    BY <2>1, <2>2, <2>3, <2>5 DEF ProbeOK
  <2> QED
    BY <2>1, <2>4, <2>5 DEF ProbeOK
<1> QED
  BY <1>1, <1>2

LEMMA WindowKept ==
  ASSUME SessionOK, WindowInv, ProbeInv, SessionOK', SameProbe(guard, guard'),
         Live' \subseteq Live, UNCHANGED nextId, Used <= Used',
         guard'.probe = "arming" /\ owner'.at \in {"complete", "settle"} =>
             owner.at \in {"complete", "settle"} /\ owner'.rc = owner.rc
  PROVE  WindowInv' /\ ProbeInv'
<1>1. Used \in Int /\ nextId \in Ids /\ GuardOK(guard) /\ \A p \in Live : Packet(p)
  BY UsedType DEF SessionOK
<1>2. Used' \in Int
  <2>1. guard'.attempts \in 0..Budget /\ skips' \in 0..MaxSkips
    BY DEF SessionOK
  <2> QED
    BY <2>1, GuardConst DEF Used
<1>3. WindowOK(Live', nextId, Used')
  BY <1>1, <1>2, WindowFewer DEF WindowInv
<1>4. ProbeOK(guard', owner', Live', nextId, Used')
  BY <1>1, <1>2, ProbeFewer DEF ProbeInv
<1> QED
  BY <1>3, <1>4 DEF WindowInv, ProbeInv

LEMMA EvidenceKept ==
  ASSUME EvidenceInv, Quieter(health, health'), UNCHANGED <<disturbed, evidence>>
  PROVE  EvidenceInv'
  BY DEF EvidenceInv, Quieter, ProofIsReal

LEMMA EvidenceBlank ==
  ASSUME NEW T, Blank(health', T)
  PROVE  EvidenceInv'
  BY DEF EvidenceInv, Blank, ProofIsReal

LEMMA HealthBlank ==
  ASSUME Blank(health', now')
  PROVE  HealthInv' /\ EvidenceInv'
  BY EvidenceBlank DEF Blank, HealthInv

\* No packet is begun or completed: the identifiers stand as they did.
LEMMA QuietStep ==
  ASSUME SessionInv, GuardOK(guard'), SameProbe(guard, guard'),
         guard'.attempts = guard.attempts, guard'.serial = guard.serial, guard'.generation = guard.generation,
         UNCHANGED <<nextId, skips>>, now' \in Nat, Live' \subseteq Live,
         DOMAIN owner' = OwnerFields, owner'.at = owner.at, owner'.rc = owner.rc
  PROVE  SessionOK' /\ WindowInv' /\ ProbeInv'
<1>1. SessionOK /\ WindowInv /\ ProbeInv
  BY DEF SessionInv
<1>2. SessionOK'
  BY <1>1 DEF SessionOK, GuardOK
<1>3. Used' = Used
  BY DEF Used, Called
<1>4. Used <= Used'
  BY <1>1, <1>3, UsedType
<1> QED
  BY <1>1, <1>2, <1>4, WindowKept

LEMMA NothingChanges ==
  ASSUME SessionInv, UNCHANGED <<guard, owner, nextId, skips>>, now' \in Nat, Live' \subseteq Live
  PROVE  SessionOK' /\ WindowInv' /\ ProbeInv'
<1>1. GuardOK(guard) /\ DOMAIN owner = OwnerFields
  BY DEF SessionInv, SessionOK
<1>2. Ends(guard, guard)
  BY <1>1, EndsRefl
<1>3. GuardOK(guard') /\ SameProbe(guard, guard')
  BY <1>1, <1>2 DEF Ends
<1> QED
  BY <1>1, <1>3, QuietStep

LEMMA SameHealth ==
  ASSUME SessionInv, UNCHANGED <<health, now, evidence, disturbed>>
  PROVE  HealthInv' /\ EvidenceInv'
  BY DEF SessionInv, HealthInv, EvidenceInv, ProofIsReal

LEMMA QuieterHealth ==
  ASSUME SessionInv, HealthOK(health', now), Quieter(health, health'), UNCHANGED <<now, evidence, disturbed>>
  PROVE  HealthInv' /\ EvidenceInv'
  BY EvidenceKept DEF SessionInv, HealthInv

LEMMA TickStep ==
  ASSUME SessionInv, Tick
  PROVE  SessionInv'
<1>1. now \in Nat
  BY DEF SessionInv, SessionOK
<1>2. SessionOK' /\ WindowInv' /\ ProbeInv'
  BY <1>1, NothingChanges DEF Tick, ownerVars, sdkVars, Live
<1>3. HealthOK(health, now) => HealthOK(health, now + 1)
  BY <1>1 DEF HealthOK
<1>4. HealthInv'
  BY <1>3 DEF SessionInv, HealthInv, Tick
<1>5. ControlInv'
  BY DEF SessionInv, ControlInv, Tick, ownerVars, sdkVars
<1>6. EvidenceInv'
  BY DEF SessionInv, EvidenceInv, ProofIsReal, Tick
<1> QED
  BY <1>2, <1>4, <1>5, <1>6 DEF SessionInv

LEMMA ConnectFailsStep ==
  ASSUME SessionInv, ConnectFails
  PROVE  SessionInv'
<1>1. now' \in Nat
  BY DEF SessionInv, SessionOK, ConnectFails
<1>2. SessionOK' /\ WindowInv' /\ ProbeInv'
  BY <1>1, NothingChanges DEF ConnectFails, ownerVars, Live
<1>3. ControlInv'
  BY DEF SessionInv, ControlInv, ConnectFails, ownerVars
<1> QED
  BY <1>2, <1>3, SameHealth DEF SessionInv, ConnectFails

LEMMA SdkStopsStep ==
  ASSUME SessionInv, SdkStops
  PROVE  SessionInv'
<1>1. now' \in Nat
  BY DEF SessionInv, SessionOK, SdkStops
<1>2. SessionOK' /\ WindowInv' /\ ProbeInv'
  BY <1>1, NothingChanges DEF SdkStops, ownerVars, Live
<1>3. ControlInv'
  BY DEF SessionInv, ControlInv, SdkStops, ownerVars
<1> QED
  BY <1>2, <1>3, SameHealth DEF SessionInv, SdkStops

LEMMA OutboxExpiresStep ==
  ASSUME SessionInv, NEW p \in outbox, OutboxExpires(p)
  PROVE  SessionInv'
<1>1. now' \in Nat
  BY DEF SessionInv, SessionOK, OutboxExpires
<1>2. SessionOK' /\ WindowInv' /\ ProbeInv'
  BY <1>1, NothingChanges DEF OutboxExpires, ownerVars, Live
<1>3. ControlInv'
  BY DEF SessionInv, ControlInv, OutboxExpires, ownerVars
<1> QED
  BY <1>2, <1>3, SameHealth DEF SessionInv, OutboxExpires

\* The monitor may end the probe, or the window.
LEMMA MonitorStep ==
  ASSUME SessionInv, Monitor
  PROVE  SessionInv'
<1>1. now \in Nat /\ GuardOK(guard) /\ HealthOK(health, now) /\ DOMAIN owner = OwnerFields
  BY DEF SessionInv, SessionOK, HealthInv
<1>2. Ends(guard, guard')
  BY <1>1, ProbeExpireOK DEF Monitor
<1>3. HealthOK(health', now) /\ Quieter(health, health')
  BY <1>1, AdvanceOK DEF Monitor
<1>4. SessionOK' /\ WindowInv' /\ ProbeInv'
  BY <1>1, <1>2, QuietStep DEF Monitor, ownerVars, sdkVars, Live, Ends, SameEpoch
<1>5. ControlInv'
  BY <1>2, <1>3 DEF SessionInv, ControlInv, Monitor, ownerVars, sdkVars, Ends, SameEpoch, SameProbe,
     ProbeActive, Quieter
<1> QED
  BY <1>3, <1>4, <1>5, QuieterHealth DEF SessionInv, Monitor

LEMMA OtaChangeStep ==
  ASSUME SessionInv, NEW active \in BOOLEAN, OtaChange(active)
  PROVE  SessionInv'
<1>1. now \in Nat /\ GuardOK(guard) /\ HealthOK(health, now) /\ DOMAIN owner = OwnerFields
  BY DEF SessionInv, SessionOK, HealthInv
<1>2. Ends(guard, guard')
  BY <1>1, ProbeRetireOK DEF OtaChange
<1>3. Blank(health', now) /\ health'.generation = health.generation
  BY <1>1, SetOtaOK DEF OtaChange
<1>4. SessionOK' /\ WindowInv' /\ ProbeInv'
  BY <1>1, <1>2, QuietStep DEF OtaChange, ownerVars, sdkVars, Live, Ends, SameEpoch
<1>5. ControlInv'
  BY <1>2, <1>3 DEF SessionInv, ControlInv, OtaChange, ownerVars, sdkVars, Ends, SameEpoch, SameProbe,
     ProbeActive
<1> QED
  BY <1>3, <1>4, <1>5, HealthBlank DEF SessionInv, OtaChange

LEMMA ArmEpochStep ==
  ASSUME SessionInv, ArmEpoch
  PROVE  SessionInv'
<1>1. now \in Nat /\ GuardOK(guard) /\ HealthOK(health, now) /\ DOMAIN owner = OwnerFields
  BY DEF SessionInv, SessionOK, HealthInv
<1>2. /\ GuardOK(guard') /\ guard'.opPending = guard.opPending /\ guard'.attempts = guard.attempts
      /\ guard'.serial = guard.serial /\ guard'.connected = guard.connected
      /\ guard'.generation = guard.generation /\ SameProbe(guard, guard')
  BY <1>1, ArmResetOK DEF ArmEpoch
<1>3. Blank(health', now) /\ health'.generation = health.generation
  BY <1>1, EventLossOK DEF ArmEpoch
<1>4. SessionOK' /\ WindowInv' /\ ProbeInv'
  BY <1>1, <1>2, QuietStep DEF ArmEpoch, ownerVars, sdkVars, Live
<1>5. owner.at = "top" /\ outbox = {}
  BY DEF ArmEpoch, At, ArmResetOk
<1>6. ControlInv'
  BY <1>2, <1>3, <1>5 DEF SessionInv, ControlInv, ArmEpoch, ownerVars, sdkVars, SameProbe, ProbeActive
<1> QED
  BY <1>3, <1>4, <1>6, HealthBlank DEF SessionInv, ArmEpoch

LEMMA RefreshStep ==
  ASSUME SessionInv, Refresh
  PROVE  SessionInv'
<1>1. now \in Nat /\ HealthOK(health, now)
  BY DEF SessionInv, SessionOK, HealthInv
<1>2. HealthOK(health', now) /\ Quieter(health, health')
  BY <1>1, AdvanceOK DEF Refresh
<1>3. SessionOK' /\ WindowInv' /\ ProbeInv'
  BY <1>1, NothingChanges DEF Refresh, Live
<1>4. ControlInv'
  BY <1>2 DEF SessionInv, ControlInv, Refresh, Quieter
<1> QED
  BY <1>2, <1>3, <1>4, QuieterHealth DEF SessionInv, Refresh

LEMMA ReconnectStep ==
  ASSUME SessionInv, Reconnect
  PROVE  SessionInv'
<1>1. now \in Nat /\ GuardOK(guard) /\ DOMAIN owner = OwnerFields
  BY DEF SessionInv, SessionOK
<1>2. /\ DOMAIN owner' = OwnerFields /\ owner'.at = owner.at /\ owner'.rc = owner.rc /\ owner'.op = owner.op
  BY <1>1 DEF Reconnect, OwnerFields
<1>3. Ends(guard, guard)
  BY <1>1, EndsRefl
<1>4. SessionOK' /\ WindowInv' /\ ProbeInv'
  BY <1>1, <1>2, <1>3, QuietStep DEF Reconnect, Live, Ends, SameEpoch
<1>5. ControlInv'
  BY <1>2 DEF SessionInv, ControlInv, Reconnect, At
<1> QED
  BY <1>4, <1>5, SameHealth DEF SessionInv, Reconnect

LEMMA AwaitEpochStep ==
  ASSUME SessionInv, AwaitEpoch
  PROVE  SessionInv'
<1>1. now \in Nat /\ GuardOK(guard) /\ DOMAIN owner = OwnerFields
  BY DEF SessionInv, SessionOK
<1>2. /\ DOMAIN owner' = OwnerFields /\ owner'.at = owner.at /\ owner'.rc = owner.rc /\ owner'.op = owner.op
  BY <1>1 DEF AwaitEpoch, OwnerFields
<1>3. Ends(guard, guard)
  BY <1>1, EndsRefl
<1>4. SessionOK' /\ WindowInv' /\ ProbeInv'
  BY <1>1, <1>2, <1>3, QuietStep DEF AwaitEpoch, sdkVars, Live, Ends, SameEpoch
<1>5. ControlInv'
  BY <1>2 DEF SessionInv, ControlInv, AwaitEpoch, sdkVars
<1> QED
  BY <1>4, <1>5, SameHealth DEF SessionInv, AwaitEpoch

\* A stopped SDK has emptied its outbox, so the reset it arms may be believed.
LEMMA ReconnectRejectedStep ==
  ASSUME SessionInv, ReconnectRejected
  PROVE  SessionInv'
<1>1. now \in Nat /\ GuardOK(guard) /\ HealthOK(health, now) /\ DOMAIN owner = OwnerFields
  BY DEF SessionInv, SessionOK, HealthInv
<1>2. /\ DOMAIN owner' = OwnerFields /\ owner'.at = owner.at /\ owner'.rc = owner.rc /\ owner'.op = owner.op
  BY <1>1 DEF ReconnectRejected, OwnerFields
<1>3. Ends(guard, guard)
  BY <1>1, EndsRefl
<1>4. CASE UNCHANGED <<guard, health, link, disturbed>>
  <2>1. SessionOK' /\ WindowInv' /\ ProbeInv'
    BY <1>1, <1>2, <1>3, <1>4, QuietStep DEF ReconnectRejected, Live, Ends, SameEpoch
  <2>2. ControlInv'
    BY <1>2, <1>4 DEF SessionInv, ControlInv, ReconnectRejected
  <2> QED
    BY <1>4, <2>1, <2>2, SameHealth DEF SessionInv, ReconnectRejected
<1>5. CASE /\ link = "stopped" /\ guard' = ArmReset(GuardDisconnected(guard), TRUE)
           /\ health' = HealthDisconnected(health, now) /\ link' \in {"connecting", "stopped"}
           /\ disturbed' = TRUE
  <2> DEFINE d == GuardDisconnected(guard)
  <2>1. /\ GuardOK(d) /\ d.opPending = guard.opPending /\ d.attempts = guard.attempts
        /\ d.serial = guard.serial /\ ~d.connected /\ d.generation = guard.generation
        /\ d.resetArmed = guard.resetArmed /\ SameProbe(guard, d)
    BY <1>1, GuardDisconnectedOK
  <2>2. guard' = ArmReset(d, TRUE)
    BY <1>5
  <2> HIDE DEF d
  <2>3. /\ GuardOK(guard') /\ guard'.opPending = guard.opPending /\ guard'.attempts = guard.attempts
        /\ guard'.serial = guard.serial /\ ~guard'.connected /\ guard'.generation = guard.generation
        /\ SameProbe(guard, guard')
    <3>0. PICK empty : guard' = ArmReset(d, empty)
      BY <2>2
    <3>1. /\ GuardOK(guard') /\ guard'.opPending = d.opPending /\ guard'.attempts = d.attempts
          /\ guard'.serial = d.serial /\ guard'.connected = d.connected /\ guard'.generation = d.generation
          /\ SameProbe(d, guard')
      BY <2>1, <3>0, ArmResetOK
    <3>2. SameProbe(guard, guard')
      BY <2>1, <3>1 DEF SameProbe, ProbeActive
    <3> QED
      BY <2>1, <3>1, <3>2
  <2>4. Blank(health', now) /\ health'.generation = health.generation
    BY <1>1, <1>5, HealthDisconnectedOK
  <2>5. SessionOK' /\ WindowInv' /\ ProbeInv'
    BY <1>1, <1>2, <2>3, QuietStep DEF ReconnectRejected, Live
  <2>6. owner.at = "top" /\ outbox' = {} /\ guard.probe # "arming" /\ ~connected'
    BY <1>5 DEF ReconnectRejected, At, SessionInv, ControlInv
  <2>7. ControlInv'
    BY <1>2, <1>5, <2>3, <2>4, <2>6 DEF SessionInv, ControlInv, SameProbe, ProbeActive
  <2> QED
    BY <2>4, <2>5, <2>7, HealthBlank DEF SessionInv, ReconnectRejected
<1> QED
  BY <1>4, <1>5 DEF ReconnectRejected

LEMMA ChooseStep ==
  ASSUME SessionInv, Choose
  PROVE  SessionInv'
<1>1. now \in Nat /\ GuardOK(guard) /\ HealthOK(health, now) /\ DOMAIN owner = OwnerFields /\ owner.rc \in Int
  BY DEF SessionInv, SessionOK, HealthInv
<1>2. HealthOK(health', now) /\ Quieter(health, health')
  BY <1>1, AdvanceOK DEF Choose
<1> DEFINE h == Advance(health, now)
           step == IF owner.bootGen = h.generation THEN owner.bootStep ELSE 0
<1>3. PICK op \in {"sub", "pub", "probe"} :
          owner' = [owner EXCEPT !.at = "reserve", !.op = op, !.due = h.due,
                                 !.bootGen = h.generation, !.bootStep = step, !.rejects = 0]
  BY DEF Choose
<1> HIDE DEF h, step
<1>4. /\ DOMAIN owner' = OwnerFields /\ owner'.at = "reserve" /\ owner'.rc = owner.rc
  BY <1>1, <1>3 DEF OwnerFields
<1>5. owner.at = "top" /\ guard' = guard /\ ~guard.resetArmed
  BY DEF Choose, At, EpochNeeded
<1>6. SessionOK'
  BY <1>1, <1>4 DEF SessionInv, SessionOK, GuardOK, Choose, sdkVars, Live
<1>7. Ends(guard, guard)
  BY <1>1, EndsRefl
<1>8. Used' = Used
  BY <1>4, <1>5 DEF Used, Called, Choose, sdkVars
<1>9. Used <= Used'
  BY <1>8, UsedType DEF SessionInv
<1>10. WindowInv' /\ ProbeInv'
  BY <1>4, <1>5, <1>6, <1>7, <1>9, WindowKept DEF SessionInv, Choose, sdkVars, Live, Ends
<1>11. ControlInv'
  BY <1>2, <1>4, <1>5 DEF SessionInv, ControlInv, Choose, sdkVars, Quieter
<1> QED
  BY <1>2, <1>6, <1>10, <1>11, QuieterHealth DEF SessionInv, Choose

\* A packet is counted before it can take an identifier.
LEMMA ReserveStep ==
  ASSUME SessionInv, Reserve
  PROVE  SessionInv'
<1>1. now \in Nat /\ GuardOK(guard) /\ DOMAIN owner = OwnerFields /\ owner.rc \in Int
      /\ guard.attempts \in 0..Budget /\ guard.serial \in Nat
  BY DEF SessionInv, SessionOK
<1>2. owner.at = "reserve" /\ guard.serial < MaxPackets /\ ~guard.opPending
  BY DEF SessionInv, ControlInv, Reserve, At
<1>3. CASE ~PacketBeginOk(guard)
  <2>1. guard.serial # MaxCounter
    BY <1>1, <1>2, GuardConst
  <2>2. guard' = guard
    BY <1>2, <1>3, <2>1 DEF Reserve, PacketBegin
  <2>3. DOMAIN owner' = OwnerFields /\ owner'.at = "top" /\ owner'.rc = 0
    BY <1>1, <1>3 DEF Reserve, Again, OwnerFields
  <2>4. SessionOK'
    BY <1>1, <2>2, <2>3 DEF SessionInv, SessionOK, GuardOK, Reserve, sdkVars, Live
  <2>5. Ends(guard, guard)
    BY <1>1, EndsRefl
  <2>6. Used' = Used
    BY <1>2, <2>2, <2>3 DEF Used, Called, Reserve, sdkVars
  <2>7. Used <= Used'
    BY <2>6, UsedType DEF SessionInv
  <2>8. WindowInv' /\ ProbeInv'
    BY <2>2, <2>3, <2>4, <2>5, <2>7, WindowKept DEF SessionInv, Reserve, sdkVars, Live, Ends
  <2>9. ControlInv'
    BY <1>2, <2>2, <2>3 DEF SessionInv, ControlInv, Reserve, sdkVars
  <2> QED
    BY <2>4, <2>8, <2>9, SameHealth DEF SessionInv, Reserve
<1>4. CASE PacketBeginOk(guard)
  <2>1. /\ GuardOK(guard') /\ guard'.opPending /\ guard'.attempts = guard.attempts + 1
        /\ guard'.serial = guard.serial + 1 /\ guard'.connected = guard.connected
        /\ guard'.generation = guard.generation /\ guard'.resetArmed = guard.resetArmed
        /\ SameProbe(guard, guard')
    BY <1>1, <1>4, PacketBeginOK DEF Reserve
  <2>2. guard.attempts < Budget /\ ~guard.resetArmed
    BY <1>4 DEF PacketBeginOk
  <2>3. DOMAIN owner' = OwnerFields /\ owner'.at \in {"arm", "call"} /\ owner'.rc = owner.rc
        /\ (owner'.at = "arm" => owner'.op = "probe")
    BY <1>1, <1>4 DEF Reserve, Goto, OwnerFields
  <2>4. guard'.attempts \in 0..Budget /\ guard'.serial \in Nat /\ guard'.attempts > 0 /\ guard'.serial > 0
    BY <1>1, <2>1, <2>2, GuardConst
  <2>5. SessionOK'
    BY <1>1, <2>1, <2>3, <2>4 DEF SessionInv, SessionOK, GuardOK, Reserve, sdkVars, Live
  <2>6. Used <= Used'
    <3>1. skips' = skips /\ skips \in Int
      BY GuardConst DEF SessionInv, SessionOK, Reserve, sdkVars
    <3> QED
      BY <1>1, <1>2, <2>1, <2>3, <3>1 DEF Used, Called
  <2>7. WindowInv' /\ ProbeInv'
    BY <2>1, <2>3, <2>5, <2>6, WindowKept DEF SessionInv, Reserve, sdkVars, Live
  <2>8. guard.probe # "arming" /\ guard'.probe # "arming"
    BY <1>2, <2>1 DEF SessionInv, ControlInv, SameProbe, ProbeActive
  <2>9. ControlInv'
    BY <1>2, <2>1, <2>2, <2>3, <2>4, <2>8 DEF SessionInv, ControlInv, Reserve, sdkVars
  <2> QED
    BY <2>5, <2>7, <2>9, SameHealth DEF SessionInv, Reserve
<1> QED
  BY <1>3, <1>4

LEMMA CapturedOK ==
  ASSUME SessionInv, NEW t \in Captured
  PROVE  t \in Nat /\ t <= now /\ now \in Nat
<1>1. now \in Nat
  BY DEF SessionInv, SessionOK
<1> QED
  BY <1>1 DEF Captured

LEMMA DisconnectStep ==
  ASSUME SessionInv, Disconnect
  PROVE  SessionInv'
<1>1. now \in Nat /\ GuardOK(guard) /\ HealthOK(health, now) /\ DOMAIN owner = OwnerFields
  BY DEF SessionInv, SessionOK, HealthInv
<1>2. PICK t \in Captured : health' = HealthDisconnected(health, t)
  BY DEF Disconnect
<1>3. guard' = GuardDisconnected(guard)
  BY DEF Disconnect
<1>4. /\ GuardOK(guard') /\ guard'.opPending = guard.opPending /\ guard'.attempts = guard.attempts
      /\ guard'.serial = guard.serial /\ ~guard'.connected
      /\ guard'.generation = guard.generation /\ guard'.resetArmed = guard.resetArmed
      /\ SameProbe(guard, guard')
  BY <1>1, <1>3, GuardDisconnectedOK
<1>5. Blank(health', now) /\ health'.generation = health.generation
  BY <1>1, <1>2, CapturedOK, HealthDisconnectedOK
<1>6. SessionOK' /\ WindowInv' /\ ProbeInv'
  BY <1>1, <1>4, QuietStep DEF Disconnect, ownerVars, Live
<1>7. ControlInv'
  BY <1>4, <1>5 DEF SessionInv, ControlInv, Disconnect, ownerVars, SameProbe, ProbeActive
<1> QED
  BY <1>5, <1>6, <1>7, HealthBlank DEF SessionInv, Disconnect

\* A new epoch begins with nothing in the outbox, so every identifier is free.
LEMMA OnConnectedStep ==
  ASSUME SessionInv, NEW t \in Captured, OnConnected(t),
         \/ link = "connecting" /\ link' = "up" /\ wire' = outbox
         \/ link = "up" /\ UNCHANGED <<link, wire>>
  PROVE  SessionInv'
<1>1. /\ now \in Nat /\ GuardOK(guard) /\ HealthOK(health, now) /\ guard.generation \in Nat
      /\ health.generation \in Nat /\ guard.generation <= health.generation /\ health.generation < MaxConnects
      /\ guard.attempts \in 0..Budget /\ guard.serial \in Nat
  BY DEF SessionInv, SessionOK, HealthInv, HealthOK, ControlInv, OnConnected
<1>2. guard.generation # MaxCounter /\ health.generation # MaxSequence
  BY <1>1, GuardConst, HealthConst
<1>3. /\ GuardOK(guard') /\ guard'.opPending = guard.opPending /\ guard'.serial = guard.serial
      /\ guard'.connected /\ ~ProbeActive(guard')
      /\ guard.connected => /\ guard'.generation = guard.generation /\ guard'.attempts = guard.attempts
                            /\ guard'.resetArmed = guard.resetArmed
      /\ ~guard.connected =>
           /\ guard'.generation = guard.generation + 1
           /\ \/ guard'.attempts = guard.attempts /\ guard'.resetArmed = guard.resetArmed
              \/ guard'.attempts = 0 /\ ~guard'.resetArmed /\ guard.resetArmed
  BY <1>1, <1>2, GuardConnectedOK DEF OnConnected
<1>4. Blank(health', now) /\ health'.generation = health.generation + 1
  <2> DEFINE h == HealthConnected(health, t)
  <2>1. Blank(h, now) /\ h.generation = health.generation + 1
    BY <1>1, <1>2, CapturedOK, HealthConnectedOK
  <2>2. health' = EventLoss(h, t) \/ health' = h
    BY DEF OnConnected
  <2> HIDE DEF h
  <2>3. Blank(EventLoss(h, t), now) /\ EventLoss(h, t).generation = h.generation
    BY <2>1, CapturedOK, EventLossOK DEF Blank
  <2> QED
    BY <2>1, <2>2, <2>3
<1>5. Live' \subseteq Live /\ outbox' = outbox /\ owner' = owner /\ nextId' = nextId /\ skips' = skips /\ now' = now
  BY DEF Live, OnConnected, ownerVars
<1>6. guard'.attempts \in 0..Budget /\ guard'.generation \in Nat
  BY <1>1, <1>3, GuardConst
<1>7. SessionOK'
  BY <1>1, <1>3, <1>5, <1>6 DEF SessionInv, SessionOK, GuardOK
<1>8. ProbeInv'
  BY <1>3, NoProbe DEF ProbeInv
<1>9. WindowInv'
  <2>1. CASE guard'.attempts = guard.attempts
    <3>1. Used' = Used
      BY <1>5, <2>1 DEF Used, Called
    <3>2. Used \in Int /\ nextId \in Ids /\ (\A p \in Live : Packet(p)) /\ Used <= Used
      BY UsedType DEF SessionInv, SessionOK
    <3>3. WindowOK(Live', nextId, Used)
      BY <1>5, <3>2, WindowFewer DEF SessionInv, WindowInv
    <3> QED
      BY <1>5, <3>1, <3>3 DEF WindowInv
  <2>2. CASE ~guard.connected /\ guard.resetArmed
    <3>1. Live' = {}
      BY <2>2 DEF SessionInv, ControlInv, Live, OnConnected
    <3> QED
      BY <3>1 DEF WindowInv, WindowOK
  <2> QED
    BY <1>3, <2>1, <2>2
<1>10. ControlInv'
  <2>1. guard'.generation <= health'.generation
    BY <1>1, <1>3, <1>4
  <2>2. guard'.probe # "arming"
    BY <1>3 DEF ProbeActive
  <2>3. guard.opPending => guard'.attempts > 0 /\ guard'.serial > 0
    BY <1>3 DEF SessionInv, ControlInv
  <2>4. link' = "up" /\ (guard'.resetArmed => guard.resetArmed)
    BY <1>3
  <2> QED
    BY <1>3, <1>5, <2>1, <2>2, <2>3, <2>4 DEF SessionInv, ControlInv, OnConnected
<1> QED
  BY <1>4, <1>5, <1>7, <1>8, <1>9, <1>10, HealthBlank DEF SessionInv

\* Identifiers grow older by one, and what is within the lap stays distinct.
LEMMA WindowAges ==
  ASSUME NEW live, \A p \in live : Packet(p), NEW n \in Ids, NEW u \in Int, u < LastId, WindowOK(live, n, u)
  PROVE  WindowOK(live, Following(n), u + 1) /\ \A p \in live : p.id # n
<1>1. ASSUME NEW p \in live
      PROVE  Age(Following(n), p.id) <= u + 1 /\ p.id # n
  <2>1. Age(n, p.id) <= u /\ p.id \in Ids
    BY DEF WindowOK, Packet
  <2>2. Age(n, p.id) \in Int /\ p.id # n
    BY <2>1, AgeFresh, GuardConst
  <2>3. Age(Following(n), p.id) = Age(n, p.id) + 1
    BY <2>1, <2>2, AgeStep
  <2> QED
    BY <2>1, <2>2, <2>3
<1> QED
  BY <1>1 DEF WindowOK

LEMMA ProbeAges ==
  ASSUME NEW g, GuardOK(g), NEW o, NEW live, NEW n \in Ids, NEW u \in Int, u < LastId, ProbeOK(g, o, live, n, u)
  PROVE  /\ ProbeOK(g, o, live, Following(n), u + 1)
         /\ \A id \in Int : ProbeIdIs(g, o, id) => id # n
         /\ g.probe = "arming" => \A k \in 1..Len(g.early) : g.early[k].id # n
<1>1. ASSUME NEW id \in Ids, Age(n, id) <= u
      PROVE  Age(Following(n), id) <= u + 1 /\ id # n
  <2>1. Age(n, id) \in Int /\ id # n
    BY <1>1, AgeFresh, GuardConst
  <2>2. Age(Following(n), id) = Age(n, id) + 1
    BY <2>1, AgeStep
  <2> QED
    BY <1>1, <2>1, <2>2
<1>2. ASSUME g.probe = "arming", NEW k \in 1..Len(g.early)
      PROVE  Age(Following(n), g.early[k].id) <= u + 1 /\ g.early[k].id # n
  BY <1>1, <1>2, EarlyIds DEF ProbeOK
<1>3. ASSUME NEW id \in Int, ProbeIdIs(g, o, id)
      PROVE  id \in Ids /\ Age(Following(n), id) <= u + 1 /\ id # n
  BY <1>1, <1>3 DEF ProbeOK
<1> QED
  BY <1>2, <1>3 DEF ProbeOK

LEMMA SdkSkipsStep ==
  ASSUME LapSuffices, SessionInv, SdkSkips
  PROVE  SessionInv'
<1>1. /\ now \in Nat /\ GuardOK(guard) /\ nextId \in Ids /\ skips \in 0..MaxSkips /\ skips < MaxSkips
      /\ (\A p \in Live : Packet(p)) /\ guard.attempts \in 0..Budget
  BY DEF SessionInv, SessionOK, SdkSkips
<1>2. Used \in Int /\ Used < LastId /\ Used' = Used + 1 /\ skips' \in 0..MaxSkips
  BY <1>1, GuardConst, SMTT(60) DEF Used, Called, SdkSkips, ownerVars, LapSuffices
<1>3. Following(nextId) \in Ids
  BY <1>1, AgeStep
<1>4. SessionOK'
  BY <1>1, <1>2, <1>3 DEF SessionInv, SessionOK, GuardOK, SdkSkips, ownerVars, Live
<1>5. WindowOK(Live, Following(nextId), Used + 1)
  BY <1>1, <1>2, WindowAges DEF SessionInv, WindowInv
<1>6. ProbeOK(guard, owner, Live, Following(nextId), Used + 1)
  BY <1>1, <1>2, ProbeAges DEF SessionInv, ProbeInv
<1>7. Live' = Live /\ guard' = guard /\ owner' = owner /\ nextId' = Following(nextId)
  BY DEF Live, SdkSkips, ownerVars
<1>8. WindowInv' /\ ProbeInv'
  BY <1>2, <1>5, <1>6, <1>7 DEF WindowInv, ProbeInv
<1>9. ControlInv'
  BY DEF SessionInv, ControlInv, SdkSkips, ownerVars
<1> QED
  BY <1>4, <1>8, <1>9, SameHealth DEF SessionInv, SdkSkips

\* The call takes the next identifier, which is older than no other in use.
LEMMA SdkCallStep ==
  ASSUME LapSuffices, SessionInv, SdkCall
  PROVE  SessionInv'
<1>1. /\ now \in Nat /\ GuardOK(guard) /\ nextId \in Ids /\ skips \in 0..MaxSkips /\ DOMAIN owner = OwnerFields
      /\ (\A p \in Live : Packet(p)) /\ guard.attempts \in 0..Budget /\ guard.serial \in Nat
  BY DEF SessionInv, SessionOK
<1>2. /\ owner.at = "call" /\ guard.opPending /\ guard.attempts > 0 /\ guard.serial > 0 /\ ~guard.resetArmed
      /\ link \notin {"off", "connecting", "stopped"}
  BY DEF SessionInv, ControlInv, SdkCall, At
<1>3. Used \in Int /\ Used < LastId /\ Used + 1 >= 1
  BY <1>1, <1>2, GuardConst DEF Used, Called, LapSuffices
<1>4. UNCHANGED <<guard, health, probeToken, connected, link, skips, now, evidence, disturbed>>
  BY DEF SdkCall
<1>5. /\ DOMAIN owner' = OwnerFields /\ owner'.at = "complete" /\ owner'.op = owner.op
      /\ owner'.rc \in {nextId, -1} /\ owner'.rc \in Int
  <2>1. PICK rc \in {nextId, -1} : owner' = [owner EXCEPT !.at = "complete", !.rc = rc]
    BY DEF SdkCall
  <2>2. rc \in Int
    BY <1>1, <2>1, GuardConst
  <2> QED
    BY <1>1, <2>1, <2>2 DEF OwnerFields
<1>6. Used' = Used + 1
  BY <1>1, <1>2, <1>4, <1>5, GuardConst DEF Used, Called
<1>7. Following(nextId) \in Ids /\ Age(Following(nextId), nextId) = 1
  BY <1>1, AgeStep
<1>8. nextId' \in {nextId, Following(nextId)}
  BY DEF SdkCall
<1>9. /\ WindowOK(Live, Following(nextId), Used + 1) /\ \A p \in Live : p.id # nextId
  BY <1>1, <1>3, WindowAges DEF SessionInv, WindowInv
<1>10. /\ ProbeOK(guard, owner, Live, Following(nextId), Used + 1)
       /\ \A id \in Int : ProbeIdIs(guard, owner, id) => id # nextId
       /\ guard.probe = "arming" => \A k \in 1..Len(guard.early) : guard.early[k].id # nextId
  BY <1>1, <1>3, ProbeAges DEF SessionInv, ProbeInv
<1>11. HealthInv' /\ EvidenceInv'
  BY <1>4, SameHealth
<1>12. CASE UNCHANGED <<outbox, wire>> /\ owner'.rc = -1
  <2>1. Live' = Live
    BY <1>12 DEF Live
  <2>2. SessionOK'
    BY <1>1, <1>4, <1>5, <1>7, <1>8, <2>1 DEF SessionInv, SessionOK, GuardOK
  <2>3. WindowOK(Live, nextId', Used')
    <3>1. WindowOK(Live, nextId, Used + 1)
      <4>1. Used + 1 \in Int /\ Used <= Used + 1
        BY <1>3
      <4> QED
        BY <1>1, <1>3, <4>1, WindowFewer DEF SessionInv, WindowInv
    <3> QED
      BY <1>6, <1>8, <1>9, <3>1
  <2>4. ProbeOK(guard, owner', Live, nextId', Used')
    <3>1. /\ Ends(guard, guard) /\ Used + 1 \in Int /\ Used <= Used + 1 /\ Used + 1 <= Used + 1
      BY <1>1, <1>3, EndsRefl
    <3>2. SameProbe(guard, guard)
      BY <3>1 DEF Ends
    <3>3. ASSUME NEW n \in Ids, NEW u \in Int, u <= Used + 1, ProbeOK(guard, owner, Live, n, u)
          PROVE  ProbeOK(guard, owner', Live, n, Used + 1)
      <4>1. \A k \in 1..Len(guard.early) : guard.probe = "arming" => Age(n, guard.early[k].id) <= Used + 1
        <5>1. ASSUME NEW k \in 1..Len(guard.early), guard.probe = "arming"
              PROVE  Age(n, guard.early[k].id) <= Used + 1
          <6>1. guard.early[k].id \in Ids /\ Age(n, guard.early[k].id) <= u
            BY <1>1, <3>3, <5>1, EarlyIds DEF ProbeOK
          <6>2. Age(n, guard.early[k].id) \in Int
            BY <6>1, AgeFresh
          <6> QED
            BY <1>3, <3>3, <6>1, <6>2
        <5> QED
          BY <5>1
      <4>2. \A id \in Int : ProbeIdIs(guard, owner', id) => guard.probe = "pending" /\ ProbeIdIs(guard, owner, id)
        BY <1>12 DEF ProbeIdIs
      <4>3. ASSUME NEW id \in Int, ProbeIdIs(guard, owner', id)
            PROVE  /\ id \in Ids /\ Age(n, id) <= Used + 1
                   /\ \A p \in Live : p.id = id => p.serial = guard.probeSerial
                   /\ guard.probe # "arming"
        <5>1. /\ id \in Ids /\ Age(n, id) <= u
              /\ \A p \in Live : p.id = id => p.serial = guard.probeSerial
              /\ guard.probe # "arming"
          BY <3>3, <4>2, <4>3 DEF ProbeOK
        <5>2. Age(n, id) \in Int
          BY <5>1, AgeFresh
        <5> QED
          BY <1>3, <3>3, <5>1, <5>2
      <4>4. ProbeActive(guard) => guard.probeSerial \in Nat \ {0}
        BY <3>3 DEF ProbeOK
      <4> QED
        BY <4>1, <4>3, <4>4 DEF ProbeOK
    <3>4. ProbeOK(guard, owner, Live, nextId, Used)
      BY DEF SessionInv, ProbeInv
    <3>5. ProbeOK(guard, owner', Live, nextId, Used + 1)
      BY <1>1, <1>3, <3>1, <3>3, <3>4
    <3>6. ProbeOK(guard, owner', Live, Following(nextId), Used + 1)
      BY <1>3, <1>7, <1>10, <3>1, <3>3
    <3> QED
      BY <1>6, <1>8, <3>5, <3>6
  <2>5. WindowInv' /\ ProbeInv'
    BY <1>4, <2>1, <2>3, <2>4 DEF WindowInv, ProbeInv
  <2>6. ControlInv'
    BY <1>2, <1>4, <1>5, <1>12 DEF SessionInv, ControlInv
  <2> QED
    BY <1>11, <2>2, <2>5, <2>6 DEF SessionInv
<1>13. CASE /\ nextId' = Following(nextId)
            /\ outbox' = outbox \cup {[id |-> nextId, serial |-> guard.serial, op |-> owner.op]}
            /\ wire' \subseteq wire \cup {[id |-> nextId, serial |-> guard.serial, op |-> owner.op]}
            /\ owner'.rc = nextId
  <2> DEFINE p == [id |-> nextId, serial |-> guard.serial, op |-> owner.op]
  <2>1. p.id = nextId /\ p.serial = guard.serial /\ Live' \subseteq Live \cup {p}
    BY <1>13 DEF Live
  <2> HIDE DEF p
  <2>2. Packet(p)
    BY <1>1, <1>2, <2>1 DEF Packet
  <2>3. SessionOK'
    BY <1>1, <1>4, <1>5, <1>7, <1>13, <2>1, <2>2 DEF SessionInv, SessionOK, GuardOK
  <2>4. WindowOK(Live', nextId', Used')
    <3>1. ASSUME NEW q \in Live'
          PROVE  Age(Following(nextId), q.id) <= Used + 1
      <4>1. CASE q \in Live
        BY <1>9, <4>1 DEF WindowOK
      <4>2. CASE q = p
        BY <1>3, <1>7, <2>1, <4>2
      <4> QED
        BY <2>1, <4>1, <4>2
    <3>2. ASSUME NEW q \in Live', NEW r \in Live', q.id = r.id
          PROVE  q = r
      BY <1>9, <2>1, <3>2 DEF WindowOK
    <3> QED
      BY <1>6, <1>13, <3>1, <3>2 DEF WindowOK
  <2>5. ProbeOK(guard, owner', Live', nextId', Used')
    <3>1. guard.probe = "arming" => guard.probeSerial = guard.serial
      BY DEF SessionInv, ControlInv
    <3>2. ASSUME NEW id \in Int, ProbeIdIs(guard, owner', id), guard.probe = "pending"
          PROVE  /\ id \in Ids /\ Age(Following(nextId), id) <= Used + 1
                 /\ \A q \in Live' : q.id = id => q.serial = guard.probeSerial
      <4>1. ProbeIdIs(guard, owner, id)
        BY <3>2 DEF ProbeIdIs
      <4> QED
        BY <1>10, <2>1, <4>1 DEF ProbeOK
    <3>3. ASSUME NEW id \in Int, ProbeIdIs(guard, owner', id), guard.probe = "arming"
          PROVE  /\ id \in Ids /\ Age(Following(nextId), id) <= Used + 1
                 /\ \A q \in Live' : q.id = id => q.serial = guard.probeSerial
                 /\ \A k \in 1..Len(guard.early) : guard.early[k].id # id
      <4>1. id = nextId
        BY <1>13, <3>3 DEF ProbeIdIs
      <4> QED
        BY <1>1, <1>3, <1>7, <1>9, <1>10, <2>1, <3>1, <3>3, <4>1
    <3>4. \A id \in Int : ProbeIdIs(guard, owner', id) => guard.probe \in {"arming", "pending"}
      BY DEF ProbeIdIs
    <3>5. /\ ProbeActive(guard) => guard.probeSerial \in Nat \ {0}
          /\ guard.probe = "arming" => \A k \in 1..Len(guard.early) : Age(Following(nextId), guard.early[k].id) <= Used + 1
      BY <1>10 DEF ProbeOK
    <3> QED
      BY <1>6, <1>13, <3>2, <3>3, <3>4, <3>5 DEF ProbeOK
  <2>6. WindowInv' /\ ProbeInv'
    BY <1>4, <2>4, <2>5 DEF WindowInv, ProbeInv
  <2>7. ControlInv'
    BY <1>2, <1>4, <1>5 DEF SessionInv, ControlInv
  <2> QED
    BY <1>11, <2>3, <2>6, <2>7 DEF SessionInv
<1>14. \/ UNCHANGED <<outbox, wire>> /\ owner'.rc = -1
       \/ /\ nextId' = Following(nextId)
          /\ outbox' = outbox \cup {[id |-> nextId, serial |-> guard.serial, op |-> owner.op]}
          /\ wire' \subseteq wire \cup {[id |-> nextId, serial |-> guard.serial, op |-> owner.op]}
          /\ owner'.rc = nextId
  BY <1>1 DEF SdkCall, OwnerFields
<1> QED
  BY <1>12, <1>13, <1>14

\* The packet's result is recorded; a probe's is settled next.
LEMMA CompleteStep ==
  ASSUME SessionInv, Complete
  PROVE  SessionInv'
<1>1. /\ now \in Nat /\ GuardOK(guard) /\ HealthOK(health, now) /\ DOMAIN owner = OwnerFields /\ owner.rc \in Int
      /\ guard.attempts \in 0..Budget /\ skips \in 0..MaxSkips
  BY DEF SessionInv, SessionOK, HealthInv
<1>2. owner.at = "complete" /\ guard.opPending /\ ~guard.resetArmed /\ link \notin {"off", "connecting", "stopped"}
  BY DEF SessionInv, ControlInv, Complete, At
<1>3. GuardOK(guard') /\ SameEpoch(guard, guard') /\ SameProbe(guard, guard') /\ ~guard'.opPending
  BY <1>1, <1>2, PacketResultOK DEF Complete
<1>4. /\ DOMAIN owner' = OwnerFields /\ owner'.rc \in Int /\ owner'.at \in {"settle", "top"}
      /\ owner.op = "probe" => owner'.at = "settle" /\ owner'.rc = owner.rc /\ owner'.op = owner.op
      /\ owner.op # "probe" => owner'.at = "top"
  <2> DEFINE step == IF owner.rc >= 0 /\ owner.bootStep < BootstrapSteps
                     THEN owner.bootStep + 1 ELSE owner.bootStep
             a == Again(owner)
  <2>1. owner' = IF owner.op = "probe" THEN [owner EXCEPT !.at = "settle"] ELSE [a EXCEPT !.bootStep = step]
    BY DEF Complete
  <2> HIDE DEF step
  <2>2. DOMAIN a = OwnerFields /\ a.at = "top" /\ a.rc = 0
    BY <1>1 DEF Again, OwnerFields
  <2> HIDE DEF a
  <2> QED
    BY <1>1, <2>1, <2>2 DEF OwnerFields
<1>5. SessionOK'
  BY <1>1, <1>3, <1>4 DEF SessionInv, SessionOK, GuardOK, SameEpoch, Complete, sdkVars, Live
<1>6. Used <= Used'
  <2>1. guard'.attempts = guard.attempts /\ skips' = skips
    BY <1>3 DEF SameEpoch, Complete, sdkVars
  <2> QED
    BY <1>1, <1>2, <1>4, <2>1, GuardConst DEF Used, Called
<1>7. guard'.probe = "arming" => guard.probe = "arming" /\ owner.op = "probe" /\ guard'.token = guard.token
                                 /\ guard'.probeSerial = guard.probeSerial
  BY <1>3 DEF SessionInv, ControlInv, SameProbe, ProbeActive
<1>8. WindowInv' /\ ProbeInv'
  BY <1>2, <1>3, <1>4, <1>5, <1>6, <1>7, WindowKept DEF SessionInv, Complete, sdkVars, Live
<1>9. HealthInv' /\ EvidenceInv' /\ health'.generation = health.generation
  <2>1. CASE health' = health
    BY <2>1, SameHealth DEF Complete
  <2>2. CASE health' = EventLoss(health, now)
    <3>1. Blank(health', now) /\ health'.generation = health.generation
      BY <1>1, <2>2, EventLossOK
    <3> QED
      BY <3>1, HealthBlank DEF Complete
  <2> QED
    BY <2>1, <2>2 DEF Complete
<1>10. ControlInv'
  BY <1>2, <1>3, <1>4, <1>7, <1>9 DEF SessionInv, ControlInv, Complete, sdkVars, SameEpoch
<1> QED
  BY <1>5, <1>8, <1>9, <1>10 DEF SessionInv

\* Arming makes this packet the probe; it has no identifier yet.
LEMMA ArmStep ==
  ASSUME SessionInv, Arm
  PROVE  SessionInv'
<1> DEFINE h == Advance(health, now)
           b == BeginProbe(h)
<1>1. /\ now \in Nat /\ GuardOK(guard) /\ HealthOK(health, now) /\ DOMAIN owner = OwnerFields /\ owner.rc \in Int
      /\ guard.attempts \in 0..Budget /\ skips \in 0..MaxSkips /\ nextId \in Ids /\ guard.serial \in Nat
  BY DEF SessionInv, SessionOK, HealthInv
<1>2. /\ owner.at = "arm" /\ guard.opPending /\ ~guard.resetArmed /\ link \notin {"off", "connecting", "stopped"}
      /\ owner.op = "probe" /\ guard.serial > 0 /\ guard.probe # "arming"
  BY DEF SessionInv, ControlInv, Arm, At
<1>3. HealthOK(h, now) /\ Quieter(health, h) /\ h.now \in Nat /\ h.now >= now
  BY <1>1, AdvanceOK
<1>4. BeginProbeOk(h) =>
        /\ HealthOK(b, now) /\ b.generation = h.generation /\ b.pending /\ b.proof = h.proof /\ b.now = h.now
        /\ b.deadline = h.deadline /\ b.connected /\ ~b.ota /\ h.now < h.deadline
  BY <1>1, <1>3, BeginProbeOK
<1>5. Live' = Live /\ nextId' = nextId /\ skips' = skips /\ now' = now /\ connected' = connected /\ link' = link
      /\ outbox' = outbox /\ evidence' = evidence
  BY DEF Arm, sdkVars, Live
<1>6. CASE BeginProbeOk(h) /\ ProbeBeginOk(guard, b.token.sequence, Deadline)
  <2>1. /\ health' = b /\ guard' = ProbeBegin(guard, b.token.sequence, owner.due, Deadline)
        /\ owner' = [owner EXCEPT !.at = "call"] /\ disturbed' = FALSE /\ probeToken' = b.token
    BY <1>6 DEF Arm, Goto
  <2> HIDE DEF h, b
  <2>2. /\ GuardOK(guard') /\ SameEpoch(guard, guard') /\ guard'.opPending = guard.opPending
        /\ guard'.probe = "arming" /\ guard'.early = << >> /\ guard'.token = probeToken'.sequence
        /\ guard'.probeSerial = guard.serial
    BY <1>1, <1>6, <2>1, ProbeBeginOK
  <2>3. DOMAIN owner' = OwnerFields /\ owner'.at = "call" /\ owner'.rc = owner.rc /\ owner'.op = owner.op
    BY <1>1, <2>1 DEF OwnerFields
  <2>4. SessionOK'
    BY <1>1, <1>5, <2>2, <2>3 DEF SessionInv, SessionOK, GuardOK, SameEpoch
  <2>5. Used' = Used
    BY <1>2, <1>5, <2>2, <2>3 DEF Used, Called, SameEpoch
  <2>6. WindowInv'
    BY <1>5, <2>5 DEF SessionInv, WindowInv
  <2>7. ProbeOK(guard', owner', Live', nextId', Used')
    BY <1>1, <1>2, <2>2, <2>3 DEF ProbeOK, ProbeIdIs
  <2>8. HealthInv'
    BY <1>4, <1>5, <1>6, <2>1 DEF HealthInv
  <2>9. EvidenceInv'
    BY <1>3, <1>4, <1>5, <1>6, <2>1 DEF SessionInv, EvidenceInv, ProofIsReal, Quieter
  <2>10. health'.generation = health.generation
    BY <1>3, <1>4, <1>6, <2>1 DEF Quieter
  <2>11. ControlInv'
    BY <1>2, <1>5, <2>2, <2>3, <2>10 DEF SessionInv, ControlInv, SameEpoch
  <2> QED
    BY <2>4, <2>6, <2>7, <2>8, <2>9, <2>11 DEF SessionInv, ProbeInv
<1>7. CASE ~(BeginProbeOk(h) /\ ProbeBeginOk(guard, b.token.sequence, Deadline))
  <2> DEFINE x == IF BeginProbeOk(h) THEN b ELSE h
  <2>1. /\ health' = ProbeFailed(x, probeToken', now) /\ guard' = PacketResult(guard, -1)
        /\ owner' = Again(owner) /\ disturbed' = disturbed
        /\ BeginProbeOk(h) => probeToken' = b.token
    BY <1>7 DEF Arm
  <2> HIDE DEF h, b
  <2>2. HealthOK(x, now) /\ x.generation = health.generation /\ (x.proof => health.proof)
    BY <1>3, <1>4 DEF Quieter
  <2>3. HealthOK(health', now) /\ Quieter(x, health')
    BY <1>1, <2>1, <2>2, ProbeFailedOK
  <2>4. health'.pending => health.pending
    <3>1. CASE BeginProbeOk(h)
      <4>1. x = b /\ b.now \in Nat /\ b.now >= now
        BY <1>3, <1>4, <3>1
      <4>2. Advance(b, now).pending = b.pending /\ Advance(b, now).token = b.token
            /\ Advance(b, now).connected = b.connected /\ Advance(b, now).ota = b.ota
        BY <1>1, <1>4, <3>1, <4>1, AdvanceOK
      <4>3. Matches(Advance(b, now), b.token)
        BY <1>4, <3>1, <4>2 DEF Matches
      <4> QED
        BY <1>1, <1>4, <2>1, <3>1, <4>1, <4>3, ProbeFailedOK
    <3>2. CASE ~BeginProbeOk(h)
      BY <1>3, <2>3, <3>2 DEF Quieter
    <3> QED
      BY <3>1, <3>2
  <2>5. Quieter(health, health')
    BY <2>2, <2>3, <2>4 DEF Quieter
  <2>6. GuardOK(guard') /\ SameEpoch(guard, guard') /\ SameProbe(guard, guard') /\ ~guard'.opPending
    BY <1>1, <1>2, <2>1, PacketResultOK
  <2>7. DOMAIN owner' = OwnerFields /\ owner'.at = "top" /\ owner'.rc = 0
    BY <1>1, <2>1 DEF Again, OwnerFields
  <2>8. SessionOK'
    BY <1>1, <1>5, <2>6, <2>7 DEF SessionInv, SessionOK, GuardOK, SameEpoch
  <2>9. Used <= Used'
    BY <1>1, <1>2, <1>5, <2>6, <2>7, GuardConst DEF Used, Called, SameEpoch
  <2>10. WindowInv' /\ ProbeInv'
    BY <1>5, <2>6, <2>7, <2>8, <2>9, WindowKept DEF SessionInv
  <2>11. HealthInv' /\ EvidenceInv'
    BY <1>5, <2>1, <2>3, <2>5, QuieterHealth
  <2>12. guard'.probe # "arming"
    BY <1>2, <2>6 DEF SameProbe, ProbeActive
  <2>13. ControlInv'
    BY <1>2, <1>5, <2>5, <2>6, <2>7, <2>12 DEF SessionInv, ControlInv, SameEpoch, Quieter
  <2> QED
    BY <2>8, <2>10, <2>11, <2>13 DEF SessionInv
<1> QED
  BY <1>6, <1>7

\* The probe waits under the identifier its call returned, or is decided by an
\* acknowledgement that came first: of that identifier, hence of the probe.
LEMMA SettleStep ==
  ASSUME SessionInv, Settle
  PROVE  SessionInv'
<1> DEFINE rc == owner.rc
           seq == probeToken.sequence
           h == IF rc >= 0 THEN ProbeAdmitted(health, probeToken, now) ELSE health
           proof == ProbeResultProof(guard, seq, rc, now)
<1>1. /\ now \in Nat /\ GuardOK(guard) /\ HealthOK(health, now) /\ DOMAIN owner = OwnerFields /\ rc \in Int
      /\ guard.attempts \in 0..Budget /\ skips \in 0..MaxSkips /\ nextId \in Ids
  BY DEF SessionInv, SessionOK, HealthInv
<1>2. /\ owner.at = "settle" /\ ~guard.opPending /\ ~guard.resetArmed /\ link \notin {"off", "connecting", "stopped"}
      /\ guard.probe = "arming" => guard.token = seq
  BY DEF SessionInv, ControlInv, Settle, At
<1>3. /\ guard' = ProbeResult(guard, seq, rc, now) /\ owner' = Again(owner)
      /\ UNCHANGED <<probeToken, connected, link, nextId, outbox, wire, skips, now, disturbed>>
  BY DEF Settle, sdkVars
<1>4. /\ \/ health' = ProbeAck(h, probeToken, now) /\ proof # {}
         \/ health' \in {ProbeFailed(h, probeToken, now), h}
      /\ \/ /\ proof # {} /\ ProbeAckOk(h, probeToken, now)
            /\ evidence' = [acked |-> guard.early[CHOOSE k \in proof : TRUE].serial, probe |-> guard.probeSerial]
         \/ ~(proof # {} /\ ProbeAckOk(h, probeToken, now)) /\ evidence' = evidence
  BY DEF Settle
<1>5. HealthOK(h, now) /\ Quieter(health, h)
  <2>1. Quieter(health, health)
    BY DEF Quieter
  <2> QED
    BY <1>1, <2>1, ProbeAdmittedOK
<1>6. /\ GuardOK(guard') /\ SameEpoch(guard, guard') /\ guard'.opPending = guard.opPending
      /\ guard'.token = guard.token /\ guard'.probeSerial = guard.probeSerial
      /\ guard.probe # "arming" => guard' = guard
      /\ guard.probe = "arming" /\ ProbeActive(guard') =>
           guard'.probe = "pending" /\ guard'.probeId = rc /\ rc \in Ids
  BY <1>1, <1>2, <1>3, ProbeResultOK
<1>7. DOMAIN owner' = OwnerFields /\ owner'.at = "top" /\ owner'.rc = 0
  BY <1>1, <1>3 DEF Again, OwnerFields
<1>8. SessionOK'
  BY <1>1, <1>3, <1>6, <1>7 DEF SessionInv, SessionOK, GuardOK, SameEpoch, Live
<1>9. Used' = Used /\ Live' = Live /\ Used \in Int
  BY <1>2, <1>3, <1>6, <1>7, UsedType DEF Used, Called, SameEpoch, Live, SessionInv
<1>10. WindowInv'
  BY <1>3, <1>9 DEF SessionInv, WindowInv
<1>11. ProbeOK(guard, owner, Live, nextId, Used)
  BY DEF SessionInv, ProbeInv
<1>12. ProbeOK(guard', owner', Live, nextId, Used)
  <2>1. CASE ~ProbeActive(guard')
    BY <2>1, NoProbe
  <2>2. CASE ProbeActive(guard') /\ guard.probe # "arming"
    <3>1. guard' = guard /\ guard.probe = "pending"
      BY <1>6, <2>2 DEF ProbeActive
    <3>2. \A id \in Int : ProbeIdIs(guard', owner', id) => ProbeIdIs(guard, owner, id)
      BY <3>1 DEF ProbeIdIs
    <3> QED
      BY <1>11, <3>1, <3>2 DEF ProbeOK
  <2>3. CASE ProbeActive(guard') /\ guard.probe = "arming"
    <3>1. guard'.probe = "pending" /\ guard'.probeId = rc /\ rc \in Ids /\ rc >= 0 /\ ProbeActive(guard)
      BY <1>6, <2>3, GuardConst DEF ProbeActive
    <3>2. \A id \in Int : ProbeIdIs(guard', owner', id) => ProbeIdIs(guard, owner, id)
      BY <1>2, <2>3, <3>1 DEF ProbeIdIs
    <3> QED
      BY <1>6, <1>11, <3>1, <3>2 DEF ProbeOK
  <2> QED
    BY <2>1, <2>2, <2>3
<1>13. ProbeInv'
  BY <1>3, <1>9, <1>12 DEF ProbeInv
<1>14. proof # {} => LET s == guard.early[CHOOSE k \in proof : TRUE].serial
                     IN s = guard.probeSerial /\ s # 0
  <2>1. SUFFICES ASSUME proof # {}
                 PROVE  LET s == guard.early[CHOOSE k \in proof : TRUE].serial
                        IN s = guard.probeSerial /\ s # 0
    OBVIOUS
  <2>2. PICK k : k = (CHOOSE j \in proof : TRUE) /\ k \in proof
    BY <2>1
  <2>3. k \in 1..Len(guard.early) /\ guard.early[k].id = rc /\ guard.probe = "arming" /\ rc \in Ids
    BY <2>2 DEF ProbeResultProof, EarlyOf, ProbeResultTakes, ProbeResultValid
  <2>4. ProbeIdIs(guard, owner, rc) /\ ProbeActive(guard)
    BY <1>2, <2>3, GuardConst DEF ProbeIdIs, ProbeActive
  <2>5. guard.early[k].serial = guard.probeSerial /\ guard.probeSerial # 0
    BY <1>1, <1>11, <2>3, <2>4 DEF ProbeOK
  <2> QED
    BY <2>2, <2>5
<1> HIDE DEF h, proof
<1>15. HealthOK(health', now) /\ (health'.pending => health.pending) /\ health'.generation = health.generation
       /\ (health'.proof => health.proof \/ (proof # {} /\ ProbeAckOk(h, probeToken, now)))
       /\ (ProbeAckOk(h, probeToken, now) => health.pending)
  <2> DEFINE a == ProbeAck(h, probeToken, now)
             f == ProbeFailed(h, probeToken, now)
  <2>1. /\ HealthOK(a, now) /\ (a.pending => h.pending) /\ a.generation = h.generation
        /\ a.proof => h.proof \/ ProbeAckOk(h, probeToken, now)
        /\ ProbeAckOk(h, probeToken, now) => h.pending
    BY <1>1, <1>5, ProbeAckOK
  <2>2. HealthOK(f, now) /\ Quieter(h, f)
    BY <1>1, <1>5, ProbeFailedOK
  <2>3. \/ health' = a /\ proof # {}
        \/ health' \in {f, h}
    BY <1>4
  <2> HIDE DEF a, f
  <2> QED
    BY <1>5, <2>1, <2>2, <2>3 DEF Quieter
<1>16. HealthInv'
  BY <1>3, <1>15 DEF HealthInv
<1>17. EvidenceInv'
  <2>1. CASE proof # {} /\ ProbeAckOk(h, probeToken, now)
    <3>1. ~disturbed'
      BY <1>3, <1>15, <2>1 DEF SessionInv, EvidenceInv
    <3>2. evidence'.acked = evidence'.probe /\ evidence'.acked # 0
      BY <1>4, <1>14, <2>1
    <3> QED
      BY <3>1, <3>2 DEF EvidenceInv, ProofIsReal
  <2>2. CASE ~(proof # {} /\ ProbeAckOk(h, probeToken, now))
    <3>1. evidence' = evidence
      BY <1>4, <2>2
    <3> QED
      BY <1>3, <1>15, <2>2, <3>1 DEF SessionInv, EvidenceInv, ProofIsReal
  <2> QED
    BY <2>1, <2>2
<1>18. guard'.probe # "arming"
  BY <1>6 DEF ProbeActive
<1>19. ControlInv'
  BY <1>2, <1>3, <1>6, <1>7, <1>15, <1>18 DEF SessionInv, ControlInv, SameEpoch
<1> QED
  BY <1>8, <1>10, <1>13, <1>16, <1>17, <1>19 DEF SessionInv

\* Whatever the broker acknowledges was sent under that identifier in this lap.
LEMMA AcknowledgeStep ==
  ASSUME SessionInv, NEW w \in wire, Acknowledge(w)
  PROVE  SessionInv'
<1>1. /\ now \in Nat /\ GuardOK(guard) /\ HealthOK(health, now) /\ DOMAIN owner = OwnerFields
      /\ w \in Live /\ Packet(w) /\ nextId \in Ids /\ Used \in Int
  BY UsedType DEF SessionInv, SessionOK, HealthInv, Live
<1>2. /\ UNCHANGED <<probeToken, connected, owner, link, nextId, wire, skips, now, disturbed>>
      /\ outbox' \subseteq outbox
  BY DEF Acknowledge, ownerVars
<1>3. Live' \subseteq Live
  BY <1>2 DEF Live
<1>4. CASE UNCHANGED <<guard, health, evidence>>
  <2>1. SessionOK' /\ WindowInv' /\ ProbeInv'
    BY <1>1, <1>2, <1>3, <1>4, NothingChanges
  <2>2. ControlInv'
    BY <1>2, <1>4 DEF SessionInv, ControlInv
  <2> QED
    BY <1>2, <1>4, <2>1, <2>2, SameHealth DEF SessionInv
<1>5. ASSUME NEW t \in Captured, guard' = OnPuback(guard, w.id, w.serial, t),
             health' = (IF PubackProof(guard, w.id, t) THEN ProbeAck(health, probeToken, t)
                        ELSE IF guard'.probe = "failed" THEN ProbeFailed(health, probeToken, t)
                        ELSE health),
             evidence' = (IF PubackProof(guard, w.id, t) /\ ProbeAckOk(health, probeToken, t)
                          THEN [acked |-> w.serial, probe |-> guard.probeSerial]
                          ELSE evidence)
      PROVE  SessionInv'
  <2>1. t \in Nat /\ t <= now /\ t \in Int
    BY CapturedOK
  <2>2. w.id \in Ids /\ w.serial \in Nat \ {0} /\ w.id \in Int
    BY <1>1, GuardConst DEF Packet
  <2> DEFINE e == [id |-> w.id, at |-> t, serial |-> w.serial]
  <2>3. /\ GuardOK(guard') /\ SameEpoch(guard, guard') /\ guard'.opPending = guard.opPending
        /\ guard'.token = guard.token /\ guard'.probeSerial = guard.probeSerial /\ guard'.probeId = guard.probeId
        /\ ProbeActive(guard') => /\ guard'.probe = guard.probe
                                  /\ guard'.early = guard.early \/ guard'.early = Append(guard.early, e)
    BY <1>1, <1>5, <2>1, <2>2, OnPubackOK
  <2>4. SessionOK'
    BY <1>1, <1>2, <1>3, <2>3 DEF SessionInv, SessionOK, GuardOK, SameEpoch
  <2>5. Used' = Used
    BY <1>2, <2>3 DEF Used, Called, SameEpoch
  <2>6. WindowInv'
    <3>1. WindowOK(Live', nextId, Used)
      BY <1>1, <1>3, WindowFewer DEF SessionInv, SessionOK, WindowInv
    <3> QED
      BY <1>2, <2>5, <3>1 DEF WindowInv
  <2>7. ProbeOK(guard, owner, Live, nextId, Used) /\ Age(nextId, w.id) <= Used
    BY <1>1 DEF SessionInv, ProbeInv, WindowInv, WindowOK
  <2>8. ProbeOK(guard', owner, Live', nextId, Used)
    <3>1. CASE ~ProbeActive(guard')
      BY <3>1, NoProbe
    <3>2. CASE ProbeActive(guard')
      <4>1. \A id \in Int : ProbeIdIs(guard', owner, id) => ProbeIdIs(guard, owner, id)
        BY <2>3, <3>2 DEF ProbeIdIs
      <4>2. ProbeActive(guard) /\ guard'.probe = guard.probe
        BY <2>3, <3>2 DEF ProbeActive
      <4>3. ASSUME NEW k \in 1..Len(guard'.early)
            PROVE  \/ k \in 1..Len(guard.early) /\ guard'.early[k] = guard.early[k]
                   \/ guard'.early[k].id = w.id /\ guard'.early[k].serial = w.serial
        <5>1. CASE guard'.early = guard.early
          BY <5>1
        <5>2. CASE guard'.early = Append(guard.early, e)
          <6>1. e.id = w.id /\ e.serial = w.serial
            OBVIOUS
          <6>2. guard.early \in Seq(Early) /\ e \in Early
            BY <1>1, <2>1, <2>2 DEF GuardOK, Early
          <6> HIDE DEF e
          <6>3. /\ Len(guard'.early) = Len(guard.early) + 1
                /\ \A i \in 1..Len(guard.early) : guard'.early[i] = guard.early[i]
                /\ guard'.early[Len(guard.early) + 1] = e
            BY <5>2, <6>2, AppendProperties
          <6>4. Len(guard.early) \in Nat
            BY <6>2, LenProperties
          <6> QED
            BY <6>1, <6>3, <6>4
        <5> QED
          BY <2>3, <3>2, <5>1, <5>2
      <4>4. ASSUME guard'.probe = "arming", NEW k \in 1..Len(guard'.early)
            PROVE  Age(nextId, guard'.early[k].id) <= Used
        BY <2>7, <4>2, <4>3, <4>4 DEF ProbeOK
      <4>5. ASSUME NEW id \in Int, ProbeIdIs(guard', owner, id)
            PROVE  /\ id \in Ids /\ Age(nextId, id) <= Used
                   /\ \A p \in Live : p.id = id => p.serial = guard'.probeSerial
                   /\ guard'.probe = "arming" =>
                        \A k \in 1..Len(guard.early) : guard.early[k].id = id => guard.early[k].serial = guard'.probeSerial
        BY <2>3, <2>7, <4>1, <4>2, <4>5 DEF ProbeOK
      <4>6. ASSUME NEW id \in Int, ProbeIdIs(guard', owner, id), guard'.probe = "arming",
                   NEW k \in 1..Len(guard'.early), guard'.early[k].id = id
            PROVE  guard'.early[k].serial = guard'.probeSerial
        BY <1>1, <4>3, <4>5, <4>6
      <4>7. guard'.probeSerial \in Nat \ {0}
        BY <2>3, <2>7, <4>2 DEF ProbeOK
      <4> QED
        BY <1>3, <4>4, <4>5, <4>6, <4>7 DEF ProbeOK
    <3> QED
      BY <3>1, <3>2
  <2>9. ProbeInv'
    BY <1>2, <2>5, <2>8 DEF ProbeInv
  <2>10. PubackProof(guard, w.id, t) => w.serial = guard.probeSerial /\ w.serial # 0
    <3>1. SUFFICES ASSUME PubackProof(guard, w.id, t)
                   PROVE  w.serial = guard.probeSerial /\ w.serial # 0
      OBVIOUS
    <3>2. ProbeIdIs(guard, owner, w.id)
      BY <3>1 DEF PubackProof, ProbeIdIs
    <3> QED
      BY <1>1, <2>2, <2>7, <3>2 DEF ProbeOK
  <2>11. /\ HealthOK(health', now) /\ (health'.pending => health.pending) /\ health'.generation = health.generation
         /\ health'.proof => health.proof \/ (PubackProof(guard, w.id, t) /\ ProbeAckOk(health, probeToken, t))
         /\ ProbeAckOk(health, probeToken, t) => health.pending
    <3> DEFINE a == ProbeAck(health, probeToken, t)
               f == ProbeFailed(health, probeToken, t)
    <3>1. /\ HealthOK(a, now) /\ (a.pending => health.pending) /\ a.generation = health.generation
          /\ a.proof => health.proof \/ ProbeAckOk(health, probeToken, t)
          /\ ProbeAckOk(health, probeToken, t) => health.pending
      BY <1>1, <2>1, ProbeAckOK
    <3>2. HealthOK(f, now) /\ Quieter(health, f)
      BY <1>1, <2>1, ProbeFailedOK
    <3>3. \/ health' = a /\ PubackProof(guard, w.id, t)
          \/ health' \in {f, health}
      BY <1>5
    <3> HIDE DEF a, f
    <3> QED
      BY <1>1, <3>1, <3>2, <3>3 DEF Quieter
  <2>12. HealthInv'
    BY <1>2, <2>11 DEF HealthInv
  <2>13. EvidenceInv'
    <3>1. CASE PubackProof(guard, w.id, t) /\ ProbeAckOk(health, probeToken, t)
      <4>1. ~disturbed'
        BY <1>2, <2>11, <3>1 DEF SessionInv, EvidenceInv
      <4>2. evidence'.acked = evidence'.probe /\ evidence'.acked # 0
        BY <1>5, <2>10, <3>1
      <4> QED
        BY <4>1, <4>2 DEF EvidenceInv, ProofIsReal
    <3>2. CASE ~(PubackProof(guard, w.id, t) /\ ProbeAckOk(health, probeToken, t))
      <4>1. evidence' = evidence
        BY <1>5, <3>2
      <4> QED
        BY <1>2, <2>11, <3>2, <4>1 DEF SessionInv, EvidenceInv, ProofIsReal
    <3> QED
      BY <3>1, <3>2
  <2>14. guard'.probe = "arming" => guard.probe = "arming"
    BY <2>3 DEF ProbeActive
  <2>15. ControlInv'
    BY <1>2, <2>3, <2>11, <2>14 DEF SessionInv, ControlInv, SameEpoch
  <2> QED
    BY <2>4, <2>6, <2>9, <2>12, <2>13, <2>15 DEF SessionInv
<1> QED
  BY <1>4, <1>5 DEF Acknowledge

----------------------------------------------------------------------------
(* The theorem. *)

LEMMA SessionStarts ==
  ASSUME Init
  PROVE  SessionInv
<1>1. GuardOK(guard)
  <2>1. << >> \in Seq(Early)
    OBVIOUS
  <2> QED
    BY <2>1 DEF Init, GuardInit, GuardOK, GuardFields
<1>2. SessionOK
  BY <1>1, GuardConst DEF Init, GuardInit, SessionOK, Idle, OwnerFields, Live
<1>3. HealthInv
  BY HealthConst DEF Init, HealthInit, HealthInv, HealthOK, HealthFields
<1>4. ControlInv
  BY DEF Init, GuardInit, HealthInit, ControlInv, Idle
<1>5. WindowInv
  BY DEF Init, WindowInv, WindowOK, Live
<1>6. ProbeInv
  BY NoProbe DEF Init, GuardInit, ProbeInv, ProbeActive
<1>7. EvidenceInv
  BY DEF Init, HealthInit, EvidenceInv, ProofIsReal
<1> QED
  BY <1>2, <1>3, <1>4, <1>5, <1>6, <1>7 DEF SessionInv

LEMMA SessionStep ==
  ASSUME LapSuffices, SessionInv, [Next]_vars
  PROVE  SessionInv'
<1>1. CASE Connect
  BY <1>1, OnConnectedStep DEF Connect
<1>2. CASE DuplicateConnected
  BY <1>2, OnConnectedStep DEF DuplicateConnected
<1>3. CASE UNCHANGED vars
  <2>1. now' \in Nat
    BY <1>3 DEF SessionInv, SessionOK, vars
  <2>2. SessionOK' /\ WindowInv' /\ ProbeInv'
    BY <1>3, <2>1, NothingChanges DEF vars, ownerVars, sdkVars, Live
  <2>3. ControlInv'
    BY <1>3 DEF SessionInv, ControlInv, vars, ownerVars, sdkVars
  <2> QED
    BY <1>3, <2>2, <2>3, SameHealth DEF SessionInv, vars
<1> QED
  BY <1>1, <1>2, <1>3, ConnectFailsStep, DisconnectStep, SdkStopsStep, OutboxExpiresStep, AcknowledgeStep,
     SdkSkipsStep, ArmEpochStep, RefreshStep, ReconnectStep, ReconnectRejectedStep, AwaitEpochStep,
     ChooseStep, ReserveStep, ArmStep, SdkCallStep, CompleteStep, SettleStep, MonitorStep, OtaChangeStep,
     TickStep DEF Next

LEMMA SessionInvSound ==
  ASSUME SessionInv
  PROVE  ProofSound
<1>1. ProofIsReal /\ ProofCurrent
  BY DEF SessionInv, EvidenceInv, ProofCurrent
<1>2. IdsUnambiguous
  BY DEF SessionInv, WindowInv, WindowOK, IdsUnambiguous, Live
<1>3. FreshIsRecent
  <2> DEFINE a == Advance(health, now)
  <2>1. now \in Nat /\ HealthOK(health, now)
    BY DEF SessionInv, SessionOK, HealthInv
  <2>2. /\ Quieter(health, a) /\ a.now >= now /\ a.now \in Nat /\ a.connected = health.connected /\ a.ota = health.ota
        /\ health.connected /\ ~health.ota /\ a.proof => a.now < health.deadline
    BY <2>1, AdvanceOK
  <2> HIDE DEF a
  <2>3. ASSUME ProofFresh(a)
        PROVE  now - health.lastAck < Interval + Deadline
    <3>1. health.proof /\ a.now < health.deadline
      BY <2>2, <2>3 DEF ProofFresh, Quieter
    <3> QED
      BY <2>1, <2>2, <3>1, HealthConst DEF HealthOK
  <2> QED
    BY <2>3 DEF FreshIsRecent, a
<1> QED
  BY <1>1, <1>2, <1>3 DEF ProofSound

\* Broker publication is only ever claimed on this connection's own, recent
\* evidence, however identifiers wrap, calls fail and acknowledgements race the
\* calls they answer, as long as a lap outlasts an epoch.
THEOREM SessionAlwaysSound ==
  ASSUME LapSuffices
  PROVE  Spec => []ProofSound
<1>1. Init => SessionInv
  BY SessionStarts
<1>2. SessionInv /\ [Next]_vars => SessionInv'
  BY SessionStep
<1>3. SessionInv => ProofSound
  BY SessionInvSound
<1> QED
  BY <1>1, <1>2, <1>3, PTL DEF Spec
=============================================================================
