---------------------------- MODULE ModemBringup ----------------------------
(***************************************************************************)
(* The LTE modem and the part of ppp_supervisor_task that brings it up and *)
(* tears it down (modem.c, modem_uart_baud.c, modem_radio_policy.c,        *)
(* modem_awake_policy.c).  The modem is powered apart from the ESP32: it   *)
(* keeps its state over an ESP32 restart, its power key is a blind toggle, *)
(* and in CMUX framing it is alive and silent.  A failing AT exchange, a   *)
(* refused dial, a modem that loses power or resets and an ESP32 restart   *)
(* are faults, of which a behaviour has at most MaxFaults.                 *)
(***************************************************************************)
EXTENDS Integers, Sequences, FiniteSets

CONSTANTS
    Rates,        \* the rates detect_rate scans: 115200, 230400, 921600
    Valid,        \* MODEM_BAUD, used by a boot of a VALID image
    Cautious,     \* 115200, used by every other boot
    CardApn,      \* the APN the inserted card needs
    MaxFaults

ASSUME BringupConstants == Valid \in Rates /\ Cautious \in Rates /\ MaxFaults \in Nat

DefaultApn == "sensor.net"
Settings == {"CNMP", "CMNB", "CBANDCFG"}       \* the radio policy's settings
Sleeps == {"CSCLK", "CPSMS", "CEDRX"}          \* what the awake policy turns off
PwrcycleFails == 5      \* PPP_FAILS_BEFORE_PWRCYCLE, REG_TIMEOUT_PWRCYCLE_EVERY
DegradedFails == 2      \* the threshold while the alert shows
AlertFails == 4         \* MODEM_FAILS_BEFORE_ALERT
EntryFailsMax == 2      \* CMUX_ENTRY_FAILS_MAX

VARIABLES
    m,        \* the modem: power state, settings, rates, APN of context 1
    pc,       \* where ppp_supervisor_task is
    target,   \* s_modem_boot_baud
    cmux,     \* [active, dirty, fails]: s_cmux_active, s_cmux_dirty, s_cmux_entry_fails
    apn,      \* [iccid, own, dce]: s_iccid_known, s_apn, the DCE's copy
    dce,      \* s_dce # NULL
    count,    \* [fails, ok, reg, trips]: consecutive_fails, s_fails_since_ok, ...
    alert,    \* s_alert_active
    stage,    \* s_fail_stage
    act,      \* the teardown action
    faults    \* faults left

vars == <<m, pc, target, cmux, apn, dce, count, alert, stage, act, faults>>

-----------------------------------------------------------------------------
(* The modem.  `mux' holds from the first CMUX session until the next boot. *)

Booting(d) == [d EXCEPT !.pw = "boot", !.mux = FALSE, !.fun = 1, !.uart = d.ipr]
Ready(d) == [d EXCEPT !.pw = "at"]

\* One PWRKEY pulse: it boots a modem that is off and turns off any other.
Pulse(d) == IF d.pw = "off" THEN Booting(d) ELSE [d EXCEPT !.pw = "off"]

\* A patient probe (MODEM_BOOT_PROBE_MS) outlasts a boot, and the escape
\* sequence it sends ends a data call.
ProbeLongImpatient(d) == IF d.pw \in {"at", "data"} THEN Ready(d) ELSE d
ProbeLong(d) == IF d.pw \in {"boot", "at", "data"} THEN Ready(d) ELSE d

\* The blind half of modem_power_cycle: pulse, probe, and pulse again when
\* the modem stays silent.
CycleSilent(d) ==
    LET a == ProbeLong(Pulse(d)) IN IF a.pw = "at" THEN a ELSE ProbeLong(Pulse(a))

\* modem_power_cycle: what the modem may be afterwards.  A short probe may
\* or may not catch a modem that is just booting.
PowerCycle(d, known) ==
    (IF known \/ d.pw \in {"at", "data", "boot"}
        THEN {Pulse(Pulse(IF known THEN d ELSE ProbeLong(d)))} ELSE {})
    \cup (IF known \/ d.pw \in {"at", "data"} THEN {} ELSE {CycleSilent(d)})

\* The DCE's AT channel answers: command mode, at the rate the DCE uses.
Answers == m.pw = "at" /\ m.uart = target

\* An exchange that fails costs a fault only if the modem would have answered.
Lost == IF Answers THEN faults > 0 /\ faults' = faults - 1 ELSE UNCHANGED faults
Got == Answers /\ UNCHANGED faults

Boots == /\ m.pw = "boot" /\ m' = Ready(m)
         /\ UNCHANGED <<pc, target, cmux, apn, dce, count, alert, stage, act, faults>>

\* A brown-out: the modem is off, or has reset itself.
ModemFails == /\ faults > 0 /\ faults' = faults - 1 /\ m.pw # "off"
              /\ m' \in {[m EXCEPT !.pw = "off"], Booting(m)}
              /\ UNCHANGED <<pc, target, cmux, apn, dce, count, alert, stage, act>>

-----------------------------------------------------------------------------
Init == /\ m \in [pw: {"off", "at"}, mux: {FALSE}, set: {{}, Settings},
                  sleep: {{}, {"CSCLK"}, Sleeps}, fun: {1}, ipr: {Cautious, 921600},
                  uart: {Cautious, 921600}, apn: {"stale"}]
        /\ m.uart = m.ipr
        /\ pc = "ensure" /\ target \in {Valid, Cautious}
        /\ cmux = [active |-> FALSE, dirty |-> FALSE, fails |-> 0]
        /\ apn = [iccid |-> FALSE, own |-> DefaultApn, dce |-> "none"]
        /\ dce = FALSE /\ count = [fails |-> 0, ok |-> 0, reg |-> 0, trips |-> 0]
        /\ alert = FALSE /\ stage = "NONE" /\ act = "NORMAL" /\ faults = MaxFaults

\* The ESP32 restarts: its memory is fresh, the modem is as it was.
EspRestarts ==
    /\ faults > 0 /\ faults' = faults - 1
    /\ pc' = "ensure" /\ target' \in {Valid, Cautious}
    /\ cmux' = [active |-> FALSE, dirty |-> FALSE, fails |-> 0]
    /\ apn' = [iccid |-> FALSE, own |-> DefaultApn, dce |-> "none"]
    /\ dce' = FALSE /\ count' = [fails |-> 0, ok |-> 0, reg |-> 0, trips |-> 0]
    /\ alert' = FALSE /\ stage' = "NONE" /\ act' = "NORMAL" /\ UNCHANGED m

\* modem_ensure_on: only a silent modem is pulsed.
EnsureOn ==
    /\ pc = "ensure" /\ pc' = "baud"
    /\ m' \in (IF m.pw \in {"at", "data", "boot"} THEN {ProbeLong(m)} ELSE {})
              \cup (IF m.pw \in {"at", "data"} THEN {} ELSE PowerCycle(m, FALSE))
    /\ UNCHANGED <<target, cmux, apn, dce, count, alert, stage, act, faults>>

\* ppp_bringup_dce returns an error after naming the stage (or none: st = stage).
Fails(st) ==
    /\ pc' = "teardown" /\ act' = "NORMAL" /\ stage' = st
    /\ count' = [count EXCEPT !.fails = @ + 1, !.ok = IF @ < AlertFails THEN @ + 1 ELSE @]
    /\ UNCHANGED <<target, alert>>

\* Both policies ask for RF off when they fail; the request may be lost too.
FailClosed(d, st) == Fails(st) /\ m' \in {d} \cup (IF Answers THEN {[d EXCEPT !.fun = 4]} ELSE {})

Proceed(next) == pc' = next /\ UNCHANGED <<target, count, alert, stage, act>>

-----------------------------------------------------------------------------
(* modem_uart_baud_prepare *)

\* change_rate: the write may be lost, and whatever its answer the host
\* switches and asks again at the new rate.
VerifyRate(d, to) == d.uart = to /\ d.ipr = to

ChangeRate(d, to) == {d, [d EXCEPT !.uart = to, !.ipr = to]}

\* restore_rate: back to the rate found first, if the modem can be found.
RestoreRate(d, previous) == IF d.uart = previous THEN {d} ELSE ChangeRate(d, previous)

\* detect_rate: every rate in turn, each after an escape from a data call.
Scanned(d) == d.pw \in {"at", "data"}

\* The raw exchange on the temporary driver: an answer may be lost.
ScanLost == IF Scanned(m) THEN faults > 0 /\ faults' = faults - 1 ELSE UNCHANGED faults

BaudPrepare ==
    /\ pc = "baud" /\ UNCHANGED <<cmux, apn, dce>>
    /\ LET found == ProbeLong(m)
           there == Scanned(m)
       IN \/ /\ ScanLost
             /\ m' \in (IF there THEN {m, found} ELSE {m})
             /\ Fails("AT")                  \* nothing found, or a query failed
          \/ /\ there /\ VerifyRate(found, target)
             /\ m' = found /\ Proceed("sync") /\ UNCHANGED faults
          \/ /\ there /\ found.ipr # target
             /\ \E d \in ChangeRate(found, target) :
                  IF VerifyRate(d, target)
                     THEN m' = d /\ Proceed("sync") /\ UNCHANGED faults
                     ELSE /\ faults > 0 /\ faults' = faults - 1
                          /\ m' \in RestoreRate(d, found.uart)
                          /\ Fails("AT")
          \/ /\ there /\ faults > 0 /\ faults' = faults - 1   \* the verification is lost
             /\ \E d \in IF found.ipr = target THEN {found} ELSE ChangeRate(found, target) :
                  m' \in RestoreRate(d, found.uart)
             /\ Fails("AT")

\* The DCE is created with the APN known so far, if there is memory for it (no
\* stage is named if not), and must answer AT in 20 tries.
Sync == /\ pc = "sync" /\ UNCHANGED <<m, cmux>>
        /\ \/ /\ dce' = TRUE /\ apn' = [apn EXCEPT !.dce = apn.own]
              /\ (Got /\ Proceed("radio")) \/ (Lost /\ Fails("AT"))
           \/ faults > 0 /\ faults' = faults - 1 /\ Fails(stage) /\ UNCHANGED <<dce, apn>>

-----------------------------------------------------------------------------
(* modem_radio_prepare and modem_awake_prepare: read, and on a mismatch turn *)
(* RF off, write, and read back.  An acknowledged write may not have stored.  *)

Written(script, k) == {script[i] : i \in 1..k}

RadioScript == <<"CFUN=4", "CFUN?", "CNMP", "CMNB", "CBANDCFG", "read">>

\* The modem after k commands of the script, of which `lost' stored nothing.
AfterRadio(k, lost) ==
    [m EXCEPT !.fun = IF k > 0 THEN 4 ELSE @,
              !.set = @ \cup ((Written(RadioScript, k) \cap Settings) \ lost)]

\* read_settings: all three match.
RadioReadBack(d) == d.set = Settings

RadioPrepare ==
    /\ pc = "radio" /\ UNCHANGED <<cmux, apn, dce>>
    /\ \/ Got /\ RadioReadBack(m) /\ Proceed("awake") /\ UNCHANGED m
       \/ Lost /\ FailClosed(m, "RADIO")
       \/ /\ Answers /\ ~RadioReadBack(m)
          /\ \E k \in 0..6, lost \in {{}} \cup {{s} : s \in Settings} :
               LET d == AfterRadio(k, lost)
                   clean == k = 6 /\ lost = {}
               IN /\ IF clean THEN UNCHANGED faults ELSE faults > 0 /\ faults' = faults - 1
                  /\ IF k = 6 /\ RadioReadBack(d) THEN m' = d /\ Proceed("awake")
                     ELSE FailClosed(d, "RADIO")

\* Which switches the awake policy writes, in its order.
AwakeScript == (IF m.sleep \cap {"CPSMS", "CEDRX"} # {} THEN <<"CFUN=4", "CFUN?">> ELSE <<>>)
               \o (IF "CSCLK" \in m.sleep THEN <<"CSCLK">> ELSE <<>>)
               \o (IF "CPSMS" \in m.sleep THEN <<"CPSMS">> ELSE <<>>)
               \o (IF "CEDRX" \in m.sleep THEN <<"CEDRX">> ELSE <<>>) \o <<"read">>

AfterAwake(k, lost) ==
    [m EXCEPT !.fun = IF k > 0 /\ AwakeScript[1] = "CFUN=4" THEN 4 ELSE @,
              !.sleep = @ \ (Written(AwakeScript, k) \ lost)]

\* read_config, all_off.
AllOff(d) == d.sleep = {}

AwakePrepare ==
    /\ pc = "awake" /\ UNCHANGED <<cmux, apn, dce>>
    /\ \/ Got /\ AllOff(m) /\ Proceed("sim") /\ UNCHANGED m
       \/ Lost /\ FailClosed(m, "AWAKE")
       \/ /\ Answers /\ ~AllOff(m)
          /\ \E k \in 0..Len(AwakeScript), lost \in {{}} \cup {{s} : s \in m.sleep} :
               LET d == AfterAwake(k, lost)
                   whole == k = Len(AwakeScript)
               IN /\ IF whole /\ lost = {} THEN UNCHANGED faults
                                           ELSE faults > 0 /\ faults' = faults - 1
                  /\ IF whole /\ AllOff(d) THEN m' = d /\ Proceed("sim")
                     ELSE FailClosed(d, "AWAKE")

-----------------------------------------------------------------------------
(* SIM, APN, registration and the dial *)

\* The ICCID is read once per boot of the ESP32 and names the APN.
ReadSim ==
    /\ pc = "sim" /\ UNCHANGED <<m, cmux, dce>>
    /\ \/ apn.iccid /\ Proceed("apn") /\ UNCHANGED <<apn, faults>>
       \/ /\ ~apn.iccid /\ Got
          /\ apn' = [apn EXCEPT !.iccid = TRUE, !.own = CardApn] /\ Proceed("apn")
       \/ ~apn.iccid /\ Lost /\ Fails("SIM") /\ UNCHANGED apn

\* esp_modem_set_apn corrects the copy the DCE took before the ICCID was
\* known; the context is written for the attach.  A write that is lost ends the
\* attempt in a build with a fixed APN and is ignored in the others.
SetApnStale == /\ pc = "apn" /\ UNCHANGED <<cmux, dce, apn>> /\ Proceed("resume")
               /\ m' = [m EXCEPT !.apn = apn.own] /\ UNCHANGED faults
SetApn ==
    /\ pc = "apn" /\ UNCHANGED <<cmux, dce>>
    /\ \/ /\ apn' = [apn EXCEPT !.dce = apn.own]
          /\ \/ Got /\ m' = [m EXCEPT !.apn = apn.own] /\ Proceed("resume")
             \/ Lost /\ UNCHANGED m /\ (Proceed("resume") \/ Fails("NET"))
       \/ faults > 0 /\ faults' = faults - 1 /\ Fails("NET") /\ UNCHANGED <<m, apn>>

\* modem_radio_resume: read the policy again, and RF on.
RadioResume ==
    /\ pc = "resume" /\ UNCHANGED <<cmux, apn, dce>>
    /\ \/ Got /\ RadioReadBack(m) /\ m' = [m EXCEPT !.fun = 1] /\ Proceed("register")
       \/ Got /\ ~RadioReadBack(m) /\ FailClosed(m, "RADIO")
       \/ Lost /\ FailClosed(m, "RADIO")

\* Registration, with its own streak; the fallback to DATA ends after a day.
Register ==
    /\ pc = "register" /\ UNCHANGED <<m, apn, dce>>
    /\ cmux' \in {cmux} \cup (IF cmux.fails >= EntryFailsMax
                               THEN {[cmux EXCEPT !.fails = EntryFailsMax - 1]} ELSE {})
    /\ \/ /\ Got /\ pc' = "check" /\ count' = [count EXCEPT !.reg = 0]
          /\ UNCHANGED <<target, alert, stage, act>>
       \/ /\ Lost /\ pc' = "teardown" /\ act' = "NORMAL" /\ stage' = "NET"
          /\ count' = [count EXCEPT !.fails = @ + 1, !.reg = 1,
                                    !.ok = IF @ < AlertFails THEN @ + 1 ELSE @]
          /\ UNCHANGED <<target, alert>>

\* modem_awake_check_before_ppp, three tries.
VerifyActive == Got /\ AllOff(m)

AwakeCheck ==
    /\ pc = "check" /\ UNCHANGED <<cmux, apn, dce>>
    /\ \/ VerifyActive /\ Proceed("dial") /\ UNCHANGED m
       \/ Lost /\ FailClosed(m, "AWAKE")

\* The mode switch: setup_data_mode writes the DCE's APN, then CMUX, or plain
\* DATA after two failed entries.
Dial ==
    /\ pc = "dial" /\ UNCHANGED <<apn, dce>>
    /\ IF cmux.fails < EntryFailsMax
          THEN \/ /\ Got /\ Proceed("wait")
                  /\ m' = [m EXCEPT !.pw = IF m.mux THEN "at" ELSE "cmux", !.mux = TRUE,
                                    !.apn = apn.dce]
                  /\ cmux' = [cmux EXCEPT !.active = TRUE, !.fails = 0]
               \/ /\ Lost /\ Fails(stage)
                  /\ m' \in {m} \cup (IF Answers THEN {[m EXCEPT !.pw = "cmux", !.mux = TRUE]}
                                                 ELSE {})
                  /\ cmux' = [cmux EXCEPT !.fails = @ + 1, !.dirty = TRUE]
          ELSE /\ UNCHANGED cmux
               /\ \/ Got /\ Proceed("wait") /\ m' = [m EXCEPT !.pw = "data", !.apn = apn.dce]
                  \/ Lost /\ Fails(stage) /\ m' \in {m} \cup (IF Answers THEN {[m EXCEPT !.pw = "data"]} ELSE {})

-----------------------------------------------------------------------------
(* The session and its end *)

InSession == m.pw \in {"cmux", "data"}

\* ppp_events_wait_for_link: an address, or 60 s without one.
Escalating == count.trips > 0 \/ stage = "UPLINK"

GotIp == /\ pc = "wait" /\ InSession /\ pc' = "up"
         /\ count' = [count EXCEPT !.fails = 0, !.ok = IF Escalating THEN @ ELSE 0]
         /\ stage' = IF Escalating THEN stage ELSE "NONE"
         /\ alert' = (alert /\ Escalating)
         /\ UNCHANGED <<m, target, cmux, apn, dce, act, faults>>

NoIp == /\ pc = "wait" /\ Fails("NET") /\ UNCHANGED <<m, cmux, apn, dce>>
        /\ IF InSession THEN faults > 0 /\ faults' = faults - 1 ELSE UNCHANGED faults

\* supervise_uplink (module ModemUplink) returns: the link is lost, or the
\* watchdog trips; in between a long outage may show on the panel, and a
\* healthy uplink ends the escalation.
SessionEnds ==
    /\ pc = "up" /\ pc' = "teardown"
    /\ \/ act' = "NORMAL" /\ UNCHANGED <<count, stage>>
       \/ /\ act' = IF count.trips >= 1 THEN "PWRCYCLE" ELSE "RESET"
          /\ count' = [count EXCEPT !.trips = 1, !.ok = IF @ < AlertFails THEN @ + 1 ELSE @]
          /\ stage' = IF stage = "UPLINK" THEN stage ELSE "NET"
    /\ UNCHANGED <<m, target, cmux, apn, dce, alert, faults>>

HoldAlert ==
    /\ pc = "up" /\ ~alert /\ stage' = "UPLINK" /\ alert' = TRUE
    /\ UNCHANGED <<m, pc, target, cmux, apn, dce, count, act, faults>>

UplinkHealthy ==
    /\ pc = "up" /\ InSession /\ (count.trips > 0 \/ alert)
    /\ count' = [count EXCEPT !.trips = 0, !.ok = 0] /\ stage' = "NONE" /\ alert' = FALSE
    /\ UNCHANGED <<m, pc, target, cmux, apn, dce, act, faults>>

\* The AT part of ppp_teardown_dce: [d, cycle] for each way it can go.
CmuxReset == {[d |-> m, cycle |-> TRUE]}
             \cup (IF m.pw = "cmux" THEN {[d |-> Booting(m), cycle |-> c] : c \in BOOLEAN} ELSE {})

DataExit == LET back == IF m.pw \in {"data", "at"} THEN Ready(m) ELSE m
            IN {[d |-> m, cycle |-> act = "RESET"]}
               \cup (IF m.pw \notin {"data", "at"} THEN {}
                     ELSE IF act # "RESET" THEN {[d |-> back, cycle |-> FALSE]}
                     ELSE {[d |-> back, cycle |-> TRUE]}
                          \cup {[d |-> Booting(m), cycle |-> c] : c \in BOOLEAN})

\* A session left by a switch to command mode.
LeaveAsData == {[d |-> IF m.pw \in {"data", "at", "cmux"} THEN Ready(m) ELSE m, cycle |-> FALSE]}

TeardownAt ==
    IF ~dce \/ act = "PWRCYCLE" \/ (~cmux.active /\ cmux.dirty)
       THEN {[d |-> m, cycle |-> act = "PWRCYCLE"]}
    ELSE IF cmux.active THEN CmuxReset ELSE DataExit

Teardown ==
    /\ pc = "teardown" /\ pc' = "after"
    /\ \E r \in TeardownAt :
         m' \in IF r.cycle \/ cmux.dirty
                   THEN PowerCycle(r.d, cmux.active /\ ~cmux.dirty) ELSE {r.d}
    /\ dce' = FALSE /\ cmux' = [cmux EXCEPT !.active = FALSE, !.dirty = FALSE]
    /\ UNCHANGED <<target, apn, count, alert, stage, act, faults>>

\* The rest of the supervisor's round: power cycle, alert, back-off.  The next
\* attempt may begin while the modem still boots.
Threshold == IF count.reg > 0 THEN PwrcycleFails
             ELSE IF alert THEN DegradedFails ELSE PwrcycleFails

CycleDue == stage \notin {"RADIO", "AWAKE"} /\ count.fails >= Threshold

AfterRound ==
    /\ pc = "after" /\ pc' = "baud"
    /\ IF CycleDue
          THEN /\ m' \in PowerCycle(m, FALSE)
               /\ count' = [count EXCEPT !.fails = 0, !.reg = 0]
          ELSE UNCHANGED <<m, count>>
    /\ alert' = (alert \/ count.ok >= AlertFails)
    /\ UNCHANGED <<target, cmux, apn, dce, stage, act, faults>>

-----------------------------------------------------------------------------
Supervise == \/ EnsureOn \/ BaudPrepare \/ Sync \/ RadioPrepare \/ AwakePrepare
             \/ ReadSim \/ SetApn \/ RadioResume \/ Register \/ AwakeCheck \/ Dial
             \/ GotIp \/ NoIp \/ Teardown \/ AfterRound

Next == Supervise \/ SessionEnds \/ HoldAlert \/ UplinkHealthy \/ Boots \/ ModemFails \/ EspRestarts

\* The task runs, and a boot ends, in the end during a scan of the rates: a
\* scan takes 9 s, and two or more attempts go by before a power cycle.  A
\* session may end or not, faults may come or not.
BootSeen == pc = "baud" /\ Boots
Fairness == WF_vars(Supervise) /\ SF_vars(BootSeen)

Spec == Init /\ [][Next]_vars /\ Fairness

-----------------------------------------------------------------------------
\* While PPP runs, the modem is at the rate the ESP32 uses and saved it, the
\* radio policy is stored, RF is on, every sleep mode is off and the context
\* carries the card's APN, whatever exchange was lost on the way.
DialVerified ==
    pc \in {"wait", "up"} /\ InSession =>
        /\ m.uart = target /\ m.ipr = target
        /\ m.set = Settings /\ m.sleep = {} /\ m.fun = 1 /\ m.apn = CardApn

\* CMUX is entered only on a modem that has not been in CMUX since it booted:
\* the SIM7080 answers a second entry with NO CARRIER.
FreshCmux == [][pc = "dial" /\ cmux'.active => ~m.mux]_vars

\* Whatever went wrong, PPP comes up again and again: no state of the modem,
\* of the ladder or of the two policies is a dead end.
Recovers == []<>(pc = "up")

-----------------------------------------------------------------------------
(***************************************************************************)
(* What the ESP32 reads out of an AT reply (modem_radio_policy.c,          *)
(* modem_awake_policy.c, modem_uart_baud.c, modem_recovery.c).  A reply is *)
(* a sequence of complete lines; a line is OK, an error, some other text   *)
(* (a URC), or the fields after the key that was asked for.  A reader      *)
(* walks the lines with what it has found so far; a reply it cannot trust  *)
(* in full is no reply.                                                    *)
(***************************************************************************)
Named(l) == l.t = "KEY"
None == [r |-> "none", v |-> 0]
Bad == [r |-> "bad", v |-> 0]
Skip == [r |-> "skip", v |-> 0]
Val(v) == [r |-> "value", v |-> v]

\* modem_radio_response_status: an error line, or a second OK, spoils a reply.
ResponseStatus(s) ==
    LET walk[i \in 0..Len(s)] ==
            IF i = 0 THEN "WAIT"
            ELSE IF \/ walk[i - 1] = "ERROR" \/ s[i].t = "ERROR"
                    \/ s[i].t = "OK" /\ walk[i - 1] = "OK" THEN "ERROR"
            ELSE IF s[i].t = "OK" THEN "OK" ELSE walk[i - 1]
    IN walk[Len(s)]

\* The walk of every reader: `take' passes over a line's fields, refuses
\* them or gives their value; a value counts once, and before the OK.
Walk(s, take(_)) ==
    LET walk[i \in 0..Len(s)] ==
            IF i = 0 THEN [end |-> FALSE, got |-> None]
            ELSE LET w == walk[i - 1]
                     t == take(s[i].f) IN
                 IF s[i].t = "OK" THEN [w EXCEPT !.end = TRUE]
                 ELSE IF ~Named(s[i]) \/ t = Skip THEN w
                 ELSE [w EXCEPT !.got = IF w.end \/ @ # None THEN Bad ELSE t]
    IN walk[Len(s)].got

Accepted(s, got) == IF ResponseStatus(s) = "OK" /\ got # Bad THEN got ELSE None

\* read_scalar, modem_uart_baud_parse_ipr: one number and no more.
OneNumber(f) == IF Len(f) = 1 THEN Val(f[1]) ELSE Bad
ReadScalar(s) == Accepted(s, Walk(s, OneNumber))

\* read_mode: one number, and as many bit strings as the kind allows
\* (optional_tail).  A string of bits is here the number it stands for.
Bits == 0..15
OptionalTail(f, limit) == Len(f) <= limit + 1 /\ \A i \in 2..Len(f) : f[i] \in Bits
PsmRequest(f) == IF f # <<>> /\ OptionalTail(f, 4) THEN Val(f[1]) ELSE Bad
ReadPsm(s) == Accepted(s, Walk(s, PsmRequest))

\* read_bands: the NB-IoT line (0) does not matter, the CAT-M line (1) lists
\* each band once; the value says whether they are the policy's.
Bands(f) == IF f = <<>> THEN Bad ELSE IF f[1] = 0 THEN Skip
            ELSE IF f[1] # 1 \/ Len(f) < 2 \/ \E i, j \in 2..Len(f) : i # j /\ f[i] = f[j] THEN Bad
            ELSE Val(IF {f[i] : i \in 2..Len(f)} = {3, 20} THEN 1 ELSE 0)
ReadBands(s) == Accepted(s, Walk(s, Bands))

\* read_edrx: the CAT-M entry (3) has all four fields; the NB-IoT one (2) is
\* passed over.
Edrx(f) == IF f = <<>> THEN Bad ELSE IF f[1] = 2 THEN Skip
           ELSE IF f[1] # 3 \/ Len(f) # 4 \/ f[2] > 1 \/ f[3] > 15 \/ f[4] > 15 THEN Bad
           ELSE Val(f[2])
ReadEdrx(s) == Accepted(s, Walk(s, Edrx))

\* modem_recovery_parse_cereg: one line with the mode and the status; further
\* fields do not matter, and here a line behind the OK counts too.
ParseCereg(s) ==
    LET named == {i \in 1..Len(s) : Named(s[i])}
    IN IF /\ ResponseStatus(s) = "OK" /\ Cardinality(named) = 1
          /\ \A i \in named : Len(s[i].f) >= 2 /\ s[i].f[1] <= 5 /\ s[i].f[2] <= 10
       THEN Val(IF s[CHOOSE i \in named : TRUE].f[2] \in {1, 5} THEN 1 ELSE 0) ELSE None

Having(reply, x) == {i \in 1..Len(reply) : reply[i].t = x}
Clean(reply) == Having(reply, "ERROR") = {} /\ Cardinality(Having(reply, "OK")) = 1
Before(reply) == {i \in Having(reply, "KEY") : \A o \in Having(reply, "OK") : i < o}

\* The other lines with the key are all of the technology not in use.
OthersOf(reply, i, rat) == \A j \in Having(reply, "KEY") \ {i} : reply[j].f # <<>> /\ reply[j].f[1] = rat

\* A value is taken only from a reply with one OK and no error, from the one
\* line that carries the key (of the radio technology in use), and never from
\* a line behind the OK, a repeated or a cut one: a late answer or an
\* unsolicited line cannot pass a policy check.
ReplyStrict(reply) ==
    /\ ReadScalar(reply) # None =>
          /\ Clean(reply) /\ Cardinality(Having(reply, "KEY")) = 1 /\ Having(reply, "KEY") = Before(reply)
          /\ \A i \in Before(reply) : reply[i].f = <<ReadScalar(reply).v>>
    /\ ReadPsm(reply) = Val(0) =>
          /\ Clean(reply) /\ Cardinality(Having(reply, "KEY")) = 1 /\ Having(reply, "KEY") = Before(reply)
          /\ \A i \in Before(reply) : reply[i].f[1] = 0 /\ Len(reply[i].f) <= 5
    /\ ReadBands(reply) = Val(1) =>
          Clean(reply) /\ \E i \in Before(reply) : reply[i].f \in {<<1, 3, 20>>, <<1, 20, 3>>} /\ OthersOf(reply, i, 0)
    /\ ReadEdrx(reply) = Val(0) =>
          Clean(reply) /\ \E i \in Before(reply) : reply[i].f[1] = 3 /\ reply[i].f[2] = 0 /\ OthersOf(reply, i, 2)
    /\ ParseCereg(reply) # None => Clean(reply) /\ Cardinality(Having(reply, "KEY")) = 1
=============================================================================
