---------------------------- MODULE ModemUplink -----------------------------
(***************************************************************************)
(* PPP as the event callbacks and the supervisor see it, and the watchdog  *)
(* over the uplink (modem.c: ppp_events_*, supervise_uplink,               *)
(* ppp_supervisor_task; modem_recovery.c; the guards fw_ota.c and mqtt.c   *)
(* put around a recovery).  How the modem is brought up and torn down is   *)
(* module ModemBringup's; here a dial works or fails.  Time passes in      *)
(* ticks of the supervision loop, and every clock is kept as an age.       *)
(***************************************************************************)
EXTENDS Integers

CONSTANTS
    Modes,      \* the backends a behaviour may run: "MQTT", "HTTP", "ARKIV"
    Dead,       \* UPLINK_DEAD_SECS in ticks
    Hold,       \* UPLINK_HOLD_ALERT_S in ticks
    Cache,      \* INET_PROBE_CACHE_S in ticks
    Grace,      \* MODEM_RECOVERY_REG_GRACE_S in ticks
    AlertFails, \* MODEM_FAILS_BEFORE_ALERT
    IllMax      \* the cap of the ghost clock

VARIABLES
    ppp,     \* [phase, had]: s_ppp_state without its counters
    snap,    \* [ppp, mqtt]: the snapshot taken is still what it shows
    pc,      \* where ppp_supervisor_task is
    mode,    \* backend_mode_get()
    svc,     \* the backend: "ok", "idle" (none expected), "stale" (MQTT holds a
             \* session or a stalled worker), "dead", "missing" (no client)
    ota,     \* "idle", "transfer", "validate"
    busy,    \* s_modem_recovery_busy
    age,     \* [sess, out, probe, grace]: ages, each up to its limit
    rec,     \* [known, reg, used]: modem_recovery_t
    trips,   \* s_uplink_trips, up to two
    ok,      \* s_fails_since_ok, up to AlertFails
    alert,   \* s_alert_active
    stage,   \* s_fail_stage
    armed,   \* s_uplink_last_healthy_s # 0
    calm,    \* nothing but the outage happens in this behaviour: no transfer, no loss,
             \* no failing dial, no reconnection
    ill,     \* ghost: ticks of an outage in a calm behaviour
    ticked   \* ghost: this dial has taken its tick

vars == <<ppp, snap, pc, mode, svc, ota, busy, age, rec, trips, ok, alert, stage,
          armed, calm, ill, ticked>>
env == <<mode, svc, ota, calm>>
book == <<age, rec, trips, ok, alert, stage, armed>>

Least(a, b) == IF a < b THEN a ELSE b

NoRec == [known |-> FALSE, reg |-> FALSE, used |-> FALSE]

Init == /\ ppp = [phase |-> "STOPPING", had |-> FALSE]
        /\ snap = [ppp |-> FALSE, mqtt |-> FALSE]
        /\ pc = "begin" /\ mode \in Modes /\ ota = "idle"
        /\ svc \in IF mode = "MQTT" THEN {"dead", "stale", "missing"} ELSE {"dead"}
        /\ busy = FALSE /\ age = [sess |-> 0, out |-> 0, probe |-> Cache, grace |-> Grace]
        /\ rec = NoRec /\ trips = 0 /\ ok = 0 /\ alert = FALSE /\ stage = "NONE"
        /\ armed = FALSE /\ calm \in BOOLEAN /\ ill = 0 /\ ticked = FALSE

\* uplink_health: a healthy uplink, or none to expect.
WdOk == svc \in {"ok", "idle"}

-----------------------------------------------------------------------------
(* The PPP lifecycle.  Every transition counts up `sequence', so that a      *)
(* snapshot of it is old.                                                    *)

Enter(ph, had) == ppp' = [phase |-> ph, had |-> had] /\ snap' = [snap EXCEPT !.ppp = FALSE]

BeginAttempt == /\ pc = "begin" /\ pc' = "bringup" /\ Enter("PREPARING", FALSE)
                /\ ticked' = FALSE /\ UNCHANGED <<env, busy, book, ill>>

\* ppp_bringup_dce failed before it dialled (the stages it names are one here).
BringupFails ==
    /\ pc = "bringup" /\ pc' = "teardown" /\ ~calm
    /\ stage' = "NET" /\ ok' = Least(ok + 1, AlertFails)
    /\ UNCHANGED <<ppp, snap, env, busy, age, rec, trips, alert, armed, ill, ticked>>

StartDial == /\ pc = "bringup" /\ pc' = "wait" /\ Enter("STARTING", FALSE)
             /\ UNCHANGED <<env, busy, book, ill, ticked>>

\* ppp_events_observe.
Observe(obs) ==
    /\ obs = "GOT" => ppp.phase # "PREPARING"
    /\ calm => obs = "GOT" /\ ppp.phase = "STARTING"
    /\ LET accepted == ppp.phase \notin {"STOPPING", "PREPARING"}
           down == accepted /\ (obs = "ERROR" \/ (obs = "LOST" /\ ppp.had))
       IN Enter(IF ~accepted THEN ppp.phase ELSE IF obs = "GOT" THEN "UP"
                ELSE IF down THEN "DOWN" ELSE ppp.phase,
                ppp.had \/ (accepted /\ obs = "GOT"))
    /\ UNCHANGED <<pc, env, busy, book, ill, ticked>>

OnIpEvent == Observe("GOT") \/ Observe("LOST")
OnPppStatus == Observe("ERROR")

\* ppp_events_take_loss: the check and the decision under one lock.
LossSeen == ppp.phase = "DOWN"
TakeLoss == LossSeen /\ Enter("STOPPING", ppp.had) /\ pc' = "teardown"
            /\ UNCHANGED <<env, busy, book, ill, ticked>>

\* PPP has an address: outside an escalation that ends every failure count.
PppUp == IF trips = 0 /\ stage # "UPLINK"
            THEN ok' = 0 /\ stage' = "NONE" /\ alert' = FALSE
            ELSE UNCHANGED <<ok, stage, alert>>

\* ppp_events_wait_for_link, and what ppp_supervisor_task makes of its result.
WaitForLink ==
    /\ pc = "wait" /\ UNCHANGED <<env, busy, age, rec, trips, armed, ill, ticked>>
    /\ \/ /\ ppp.phase = "UP" /\ pc' = "up" /\ UNCHANGED <<ppp, snap>>
          /\ PppUp
       \/ /\ ppp.phase # "UP" /\ ~calm /\ pc' = "teardown" /\ Enter("STOPPING", ppp.had)
          /\ stage' = "NET" /\ ok' = Least(ok + 1, AlertFails) /\ UNCHANGED alert

-----------------------------------------------------------------------------
(* supervise_uplink *)

\* The session starts: its own timer is new; the outage clock only if no
\* escalation is pending.
FreshClock == ~armed \/ (trips = 0 /\ stage # "UPLINK")
StartSession ==
    /\ pc = "up" /\ ~LossSeen /\ pc' = "loop" /\ rec' = NoRec /\ armed' = TRUE
    /\ age' = [sess |-> 0, out |-> IF FreshClock THEN 0 ELSE age.out,
               probe |-> Cache, grace |-> Grace]
    /\ UNCHANGED <<ppp, snap, env, busy, trips, ok, alert, stage, ill, ticked>>

\* An OTA transfer freezes the timers.
Freeze(both) == /\ age' = [age EXCEPT !.sess = 0, !.out = IF both THEN 0 ELSE @]
                /\ pc' = "loop"
                /\ UNCHANGED <<ppp, snap, env, busy, rec, trips, ok, alert, stage, armed,
                               ill, ticked>>

\* A tick, or an early wake: the loop starts over with the health of now.
Health ==
    /\ pc' = "diag" /\ snap' = [ppp |-> FALSE, mqtt |-> FALSE]
    /\ UNCHANGED <<ppp, env, busy, armed, ill, ticked>>
    /\ IF WdOk
          THEN /\ age' = [age EXCEPT !.sess = 0, !.out = 0]
               /\ rec' = [rec EXCEPT !.used = FALSE]
               /\ IF trips # 0 \/ alert
                     THEN trips' = 0 /\ ok' = 0 /\ stage' = "NONE" /\ alert' = FALSE
                     ELSE UNCHANGED <<trips, ok, stage, alert>>
          ELSE UNCHANGED <<age, rec, trips, ok, stage, alert>>

Wake == /\ pc = "wake"
        /\ \/ TakeLoss
           \/ ~LossSeen /\ ota = "transfer" /\ Freeze(TRUE)
           \/ ~LossSeen /\ ota # "transfer" /\ Health

EarlyWake == /\ pc = "loop" /\ pc' = "wake"
             /\ UNCHANGED <<ppp, snap, env, busy, book, ill, ticked>>

\* modem_recovery_observe_registration: the first return gives a grace.
Returned(reg) == rec.known /\ ~rec.reg /\ reg /\ ~rec.used

\* modem_registration_snapshot on a CMUX session: an answer, or none at all.
Registration ==
    \/ UNCHANGED <<rec, age>>
    \/ \E reg \in BOOLEAN :
         LET returned == Returned(reg)
         IN /\ rec' = [known |-> TRUE, reg |-> reg, used |-> rec.used \/ returned]
            /\ age' = [age EXCEPT !.grace = IF returned THEN 0 ELSE @]

GraceActive == rec.used /\ age.grace < Grace

\* The optional diagnostics, after which loss and OTA are looked at again;
\* then the timer, and a snapshot of what a recovery will be decided on.
ReadRadio == /\ pc = "diag" /\ pc' = "judge" /\ Registration
             /\ UNCHANGED <<ppp, snap, env, busy, trips, ok, alert, stage, armed, ill, ticked>>

Judge == /\ pc = "judge"
         /\ \/ TakeLoss
            \/ ~LossSeen /\ ota = "transfer" /\ Freeze(FALSE)
            \/ /\ ~LossSeen /\ ota # "transfer"
               /\ pc' = IF age.sess >= Dead THEN "probe" ELSE "loop"
               /\ snap' = IF age.sess >= Dead THEN [ppp |-> TRUE, mqtt |-> TRUE] ELSE snap
               /\ UNCHANGED <<ppp, env, busy, book, ill, ticked>>

\* Whose fault is it?  A fault MQTT owns, or an internet that answers, holds
\* the recovery, and shows the outage when it is long.
OwnedByMqtt == mode = "MQTT" /\ svc = "stale"
ClientMissing == mode = "MQTT" /\ svc = "missing"

\* inet_probe: either of two resolvers answers, unless a recent answer counts.
InetOk(answers) == age.probe < Cache \/ (~OwnedByMqtt /\ ~ClientMissing /\ answers)

Probe ==
    /\ pc = "probe" /\ UNCHANGED <<ppp, snap, env, busy, rec, trips, ok, armed, ill, ticked>>
    /\ \E answers \in BOOLEAN :
         /\ age' = [age EXCEPT !.probe = IF @ >= Cache /\ InetOk(answers) THEN 0 ELSE @]
         /\ IF OwnedByMqtt \/ (InetOk(answers) /\ ~ClientMissing)
               THEN /\ pc' = "loop"
                    /\ IF age.out >= Hold THEN stage' = "UPLINK" /\ alert' = TRUE
                                          ELSE UNCHANGED <<stage, alert>>
               ELSE pc' = "recheck" /\ UNCHANGED <<stage, alert>>

\* The probe took seconds, and so does the last snapshot: look again at the
\* loss, the transfer, the backend and the grace, before and after it.
LookAgain(here, next) ==
    /\ pc = here
    /\ \/ TakeLoss
       \/ ~LossSeen /\ ota = "transfer" /\ Freeze(TRUE)
       \/ /\ ~LossSeen /\ ota # "transfer"
          /\ pc' = IF WdOk \/ GraceActive THEN "loop" ELSE next
          /\ UNCHANGED <<ppp, snap, env, busy, book, ill, ticked>>

Recheck == LookAgain("recheck", "snapshot")

Snapshot == /\ pc = "snapshot" /\ pc' = "final" /\ Registration
            /\ UNCHANGED <<ppp, snap, env, busy, trips, ok, alert, stage, armed, ill, ticked>>

Final == LookAgain("final", "commit")

\* fw_ota_try_modem_recovery -> modem_recovery_commit_backend ->
\* mqtt_recovery_try_commit -> modem_recovery_commit_ppp, under their locks.
OtaPermits == ota = "idle" /\ ~busy
MqttPermits == mode = "MQTT" => snap.mqtt /\ svc \in {"dead", "missing"}
PppPermitsAny == ppp.phase = "UP"

PppPermits == ppp.phase = "UP" /\ snap.ppp
Commit ==
    /\ pc = "commit"
    /\ IF OtaPermits /\ MqttPermits /\ PppPermits
          THEN /\ Enter("STOPPING", ppp.had) /\ busy' = TRUE /\ pc' = "teardown"
               /\ trips' = Least(trips + 1, 2) /\ ok' = Least(ok + 1, AlertFails)
               /\ stage' = IF stage # "UPLINK" THEN "NET" ELSE stage
               /\ UNCHANGED <<age, rec, alert, armed>>
          ELSE pc' = "loop" /\ UNCHANGED <<ppp, snap, busy, book>>
    /\ UNCHANGED <<env, ill, ticked>>

-----------------------------------------------------------------------------
\* ppp_teardown_dce and the rest of the round: the guard is given back and
\* the alert raised.
Teardown ==
    /\ pc = "teardown" /\ pc' = "begin" /\ Enter("STOPPING", ppp.had) /\ busy' = FALSE
    /\ alert' = (alert \/ ok >= AlertFails)
    /\ UNCHANGED <<env, age, rec, trips, ok, stage, armed, ill, ticked>>

\* A loss seen between GOT_IP and the first wait of the loop.
EarlyLoss == pc = "up" /\ TakeLoss

\* Time: the loop's wait runs out, or the dial takes its while.
Older == /\ age' = [sess |-> Least(age.sess + 1, Dead), out |-> Least(age.out + 1, Hold),
                    probe |-> Least(age.probe + 1, Cache), grace |-> Least(age.grace + 1, Grace)]
         /\ ill' = IF calm THEN Least(ill + 1, IllMax) ELSE 0

Tick == /\ \/ pc = "loop" /\ pc' = "wake" /\ UNCHANGED ticked
           \/ pc \in {"bringup", "wait"} /\ calm /\ ~ticked /\ ticked' = TRUE /\ UNCHANGED pc
        /\ Older
        /\ UNCHANGED <<ppp, snap, env, busy, rec, trips, ok, alert, stage, armed>>

\* The environment, where the supervisor may notice: elsewhere a change is as
\* good as one at its next wait.  MQTT's generation moves with a connection.
Watching == pc \in {"loop", "judge", "probe", "recheck", "final", "commit"}

SvcChanges ==
    /\ Watching /\ ~calm
    /\ \E s \in IF mode = "MQTT" THEN {"ok", "idle", "stale", "dead", "missing"}
                                 ELSE {"ok", "idle", "dead"} :
         /\ s # svc /\ svc' = s
         /\ snap' = IF s \in {"ok", "stale"} THEN [snap EXCEPT !.mqtt = FALSE] ELSE snap
    /\ UNCHANGED <<ppp, pc, mode, ota, calm, busy, book, ill, ticked>>

\* Only a transfer asks whether a recovery runs (claim_in_progress); a
\* confirmation and a rollback begin whether or not (EspOta's MayConfirm).
OtaMoves ==
    /\ ~calm /\ (Watching \/ pc = "teardown")
    /\ \/ ota = "idle" /\ ~busy /\ ota' = "transfer"
       \/ ota = "idle" /\ ota' = "validate"
       \/ ota # "idle" /\ ota' = "idle"
    /\ UNCHANGED <<ppp, snap, pc, mode, svc, calm, busy, book, ill, ticked>>

Supervise == \/ BeginAttempt \/ BringupFails \/ StartDial \/ WaitForLink \/ StartSession
             \/ EarlyLoss \/ Wake \/ ReadRadio \/ Judge \/ Probe \/ Recheck \/ Snapshot
             \/ Final \/ Commit \/ Teardown

Next == \/ Supervise \/ EarlyWake \/ Tick \/ SvcChanges \/ OtaMoves
        \/ OnIpEvent \/ OnPppStatus

Spec == Init /\ [][Next]_vars /\ WF_vars(Supervise) /\ WF_vars(Tick)

-----------------------------------------------------------------------------
\* The watchdog takes PPP down only after Dead ticks of this session without a
\* healthy backend, outside the registration's grace, while no transfer or
\* validation runs, on the very PPP observation it judged, and, on MQTT, with no
\* session since.  And while it recovers, no transfer starts.
WatchdogJustified ==
    [][/\ ~busy /\ busy' => /\ age.sess >= Dead /\ ~GraceActive
                            /\ ota = "idle" /\ snap.ppp /\ ppp.phase = "UP"
                            /\ mode = "MQTT" => snap.mqtt /\ ~WdOk
       /\ busy => ota' # "transfer"]_vars

\* An outage that nothing interrupts but the watchdog's own resets is on the
\* panel within IllMax ticks, whatever the internet probes say meanwhile: the
\* outage clock survives the resets (issue #20).
OutageShown == ill = IllMax => alert

\* What modem_recovery.h says of the registration grace: it is renewed only by
\* a healthy backend.
GraceOncePerOutage == [][rec.used /\ ~rec'.used => WdOk]_vars

\* What the comment at the trip says of the classification: only a healthy
\* backend takes NO UPLINK back.
ClassificationKept == [][stage = "UPLINK" /\ stage' # "UPLINK" => WdOk]_vars

\* A link that is down is torn down or comes up again: no loss is forgotten.
LossHandled == ppp.phase = "DOWN" ~> ppp.phase # "DOWN"
=============================================================================
