----------------------------- MODULE RxWatchdog -----------------------------
(***************************************************************************)
(* wups_link.c, rx_task: the ESP32's watchdog over its UART from the       *)
(* RP2040.  Without a frame addressed to it the task probes twice, then    *)
(* reinstalls the UART driver, and from the sixth round on restarts the    *)
(* chip if there is evidence of a sender.  A tick is the spacing of the    *)
(* probes (WUPS_RX_PING_RETRY_MS); the task runs every 50 ms, so it acts   *)
(* on what is due before the next tick.                                    *)
(***************************************************************************)
EXTENDS Integers

CONSTANTS
    Idle,          \* WUPS_RX_IDLE_PING_MS, in ticks
    RebootCycle,   \* WUPS_RX_REBOOT_CYCLE
    MaxTransfers   \* bound: firmware transfers

RxWatchdogConstants ==
    /\ Idle \in Nat \ {0} /\ RebootCycle \in Nat \ {0} /\ MaxTransfers \in Nat

VARIABLES
    peer,       \* the RP2040: "alive", or silent (halted, flashed, detached)
    line,       \* what becomes of its bytes: see Lines
    ota,        \* fw_ota_in_progress()
    sinceRef,   \* ticks since wd_ref_ms, up to Idle
    sincePing,  \* ticks since last_ping_us, up to 1
    pings,      \* pings_sent
    cycles,     \* recovery_cycles, up to RebootCycle
    garbage,    \* s_bytes_rx - bytes_at_last_frame >= WUPS_RX_REBOOT_GARBAGE_MIN
    worked,     \* s_frames_rx > 0
    pongDue,    \* a probe has reached an RP2040 whose answer will be heard
    silence,    \* history: ticks since a frame for us or the restart
    reinstalls, \* history: driver reinstalls since then
    transfers

ladder == <<sinceRef, sincePing, pings, cycles>>
evidence == <<garbage, worked>>
history == <<silence, reinstalls>>
vars == <<peer, line, ota, ladder, evidence, pongDue, history, transfers>>

\* dead: the receive interrupt is off; corrupt: nothing deframes; behind: the
\* deframer is a frame late and delivers only inner, broadcast frames.
Lines == {"ok", "dead", "corrupt", "behind"}

Heard == peer = "alive" /\ line = "ok"
LongEnough == RebootCycle * (Idle + 2)
AtMost(n, bound) == IF n > bound THEN bound ELSE n

Init ==
    /\ peer \in {"alive", "silent"} /\ line \in Lines
    /\ ota = FALSE
    /\ sinceRef = 0 /\ sincePing = 0 /\ pings = 0 /\ cycles = 0
    /\ garbage = FALSE /\ worked = FALSE
    /\ pongDue = FALSE
    /\ silence = 0 /\ reinstalls = 0
    /\ transfers = 0

(***************************************************************************)
(* The environment                                                         *)
(***************************************************************************)
PeerChanges ==
    /\ peer' = IF peer = "alive" THEN "silent" ELSE "alive"
    /\ pongDue' = FALSE
    /\ UNCHANGED <<line, ota, ladder, evidence, history, transfers>>

LineBreaks ==
    /\ line = "ok"
    /\ line' \in Lines \ {"ok"}
    /\ pongDue' = FALSE
    /\ UNCHANGED <<peer, ota, ladder, evidence, history, transfers>>

\* A transfer restarts the window and takes the probes back, not the rounds.
TransferBegins ==
    /\ ~ota /\ transfers < MaxTransfers
    /\ ota' = TRUE
    /\ transfers' = transfers + 1
    /\ sinceRef' = 0 /\ pings' = 0
    /\ UNCHANGED <<peer, line, sincePing, cycles, evidence, pongDue, history>>

TransferEnds ==
    /\ ota /\ ota' = FALSE
    /\ UNCHANGED <<peer, line, ladder, evidence, pongDue, history, transfers>>

(***************************************************************************)
(* rx_task                                                                 *)
(***************************************************************************)
\* Mutant: the rounds already gone through are not forgotten.
FrameForUsKeepsCycles ==
    /\ Heard
    /\ worked' = TRUE /\ garbage' = FALSE
    /\ sinceRef' = 0 /\ pings' = 0
    /\ pongDue' = FALSE
    /\ silence' = 0 /\ reinstalls' = 0
    /\ UNCHANGED <<peer, line, ota, sincePing, cycles, transfers>>

\* Telemetry or a pong, addressed to us.
FrameForUs ==
    /\ Heard
    /\ worked' = TRUE /\ garbage' = FALSE
    /\ sinceRef' = 0 /\ pings' = 0 /\ cycles' = 0
    /\ pongDue' = FALSE
    /\ silence' = 0 /\ reinstalls' = 0
    /\ UNCHANGED <<peer, line, ota, sincePing, transfers>>

\* Bytes that do not deframe, or that deframe to broadcast frames.
OtherBytes ==
    /\ peer = "alive" /\ line # "dead"
    /\ garbage' = TRUE
    /\ worked' = (worked \/ line # "corrupt")
    /\ UNCHANGED <<peer, line, ota, ladder, pongDue, history, transfers>>

MayPing == ~ota /\ sinceRef = Idle /\ pings < 2 /\ (pings = 0 \/ sincePing = 1)

Ping ==
    /\ MayPing
    /\ pings' = pings + 1
    /\ sincePing' = 0
    /\ pongDue' = Heard
    /\ UNCHANGED <<peer, line, ota, sinceRef, cycles, evidence, history, transfers>>

MayRecover == ~ota /\ sinceRef = Idle /\ pings = 2 /\ sincePing = 1

Escalates == cycles + 1 >= RebootCycle /\ (worked \/ garbage)

Restart ==
    /\ line' = "ok"
    /\ ota' = FALSE
    /\ sinceRef' = 0 /\ sincePing' = 0 /\ pings' = 0 /\ cycles' = 0
    /\ garbage' = FALSE /\ worked' = FALSE /\ pongDue' = FALSE
    /\ silence' = 0 /\ reinstalls' = 0
    /\ UNCHANGED <<peer, transfers>>

LastResort == MayRecover /\ Escalates /\ Restart

\* rx_link_recover: the new driver hears, or is as deaf as the old one.
Reinstall ==
    /\ MayRecover /\ ~Escalates
    /\ cycles' = AtMost(cycles + 1, RebootCycle)
    /\ reinstalls' = AtMost(reinstalls + 1, RebootCycle)
    /\ line' \in {line, "ok"}
    /\ sinceRef' = 0 /\ pings' = 0
    /\ UNCHANGED <<peer, ota, sincePing, evidence, pongDue, silence, transfers>>

ReinstallFails == MayRecover /\ ~Escalates /\ Restart

Tick ==
    /\ ~MayPing /\ ~MayRecover /\ ~pongDue
    /\ sinceRef' = IF ota THEN 0 ELSE AtMost(sinceRef + 1, Idle)
    /\ sincePing' = 1
    /\ silence' = AtMost(silence + 1, LongEnough)
    /\ UNCHANGED <<peer, line, ota, pings, cycles, evidence, pongDue, reinstalls, transfers>>

Recover == LastResort \/ Reinstall \/ ReinstallFails

Next ==
    \/ PeerChanges \/ LineBreaks \/ TransferBegins \/ TransferEnds
    \/ FrameForUs \/ OtherBytes
    \/ Ping \/ Recover \/ Tick

Spec == Init /\ [][Next]_vars

\* Time passes, the task runs, a sender sends, and transfers end (EspOta).
FairSpec ==
    /\ Spec
    /\ WF_vars(Tick) /\ WF_vars(Ping) /\ WF_vars(Recover)
    /\ WF_vars(FrameForUs) /\ WF_vars(OtherBytes) /\ WF_vars(TransferEnds)

(***************************************************************************)
(* Properties                                                              *)
(***************************************************************************)

\* The types; two probes at most per window.
TypeOK ==
    /\ peer \in {"alive", "silent"} /\ line \in Lines /\ ota \in BOOLEAN
    /\ sinceRef \in 0..Idle /\ sincePing \in 0..1 /\ pings \in 0..2
    /\ cycles \in 0..RebootCycle /\ reinstalls \in 0..RebootCycle
    /\ garbage \in BOOLEAN /\ worked \in BOOLEAN /\ pongDue \in BOOLEAN
    /\ silence \in 0..LongEnough /\ transfers \in 0..MaxTransfers

\* wups_link.c:92: a restart comes after about nine minutes without a frame
\* for us and after every cheaper remedy: RebootCycle windows, each with two
\* probes, and a reinstall after all but the last.  A transfer in between does
\* not shorten them, and a frame starts them anew.
RestartIsLastResort ==
    [][LastResort => silence >= LongEnough /\ reinstalls >= RebootCycle - 1]_vars

\* The driver is not torn down under an RP2040 that is there and can be heard,
\* however quiet it is: only after a probe it did not answer.
QuietPeerSpared == [][Recover /\ Heard => ~pongDue /\ silence >= Idle + 2]_vars

\* A receive path that has died, is corrupt or has fallen a frame behind is
\* healed while the RP2040 sends, by a reinstall or else by a restart.
LinkHealed == (line # "ok" /\ (worked \/ line # "dead")) ~> (line = "ok" \/ peer # "alive")
=============================================================================
