------------------------------- MODULE EspOta -------------------------------
(***************************************************************************)
(* fw_ota.c: the ESP32's update slot.  The command worker (fw_ota_request),*)
(* the UART receiver (fw_ota_xfer_on_req), the download or relay task, the *)
(* modem supervisor (confirmation, watchdog teardown) and the heartbeat    *)
(* (rollback, idle guard) share two flash slots under three claims:        *)
(* s_in_progress, s_validation_busy and s_modem_recovery_busy.  Flash work *)
(* runs outside the lock, so every claim is a step of its own; power may   *)
(* fail, or the reset timer of wups_link.c fire, between any two steps.    *)
(***************************************************************************)
EXTENDS Integers

CONSTANTS
    Mqtt,          \* backend_mode_get() = WUPS_BACKEND_MODE_MQTT
    Chunks,        \* DATA frames in one pushed image
    MaxRequests,   \* bound: update commands and pushes begun
    MaxRestarts,   \* bound: power cuts and other restarts
    MaxFaults      \* bound: flash, network and allocation failures

ASSUME EspOtaConstants ==
    /\ Mqtt \in BOOLEAN
    /\ Chunks \in Nat \ {0}
    /\ MaxRequests \in Nat /\ MaxRestarts \in Nat /\ MaxFaults \in Nat

VARIABLES
    content,        \* what each slot holds
    otadata,        \* the bootloader's state of each slot
    boot,           \* the slot otadata selects
    running,        \* the slot this boot runs from
    inProgress,     \* s_in_progress
    validationBusy, \* s_validation_busy
    modemBusy,      \* s_modem_recovery_busy
    pendingVerify,  \* s_pending_verify
    markedValid,    \* s_marked_valid
    late,           \* FW_OTA_VERIFY_WINDOW_S have passed since boot
    proof,          \* mqtt_publication_proof_fresh()
    cmd,            \* where the command worker is in fw_ota_request
    task,           \* where the download or relay task is
    push,           \* where wups_rx is in fw_ota_xfer_on_req
    xferOpen,       \* s_xfer_open
    received,       \* s_xfer_received, in frames
    supervisor,     \* where the modem task is
    heartbeat,      \* where the main task is
    resetArmed,     \* the one-shot timer of system.reset runs
    requests, restarts, faults

flash == <<content, otadata, boot>>
claims == <<inProgress, validationBusy, modemBusy>>
verdict == <<pendingVerify, markedValid>>
tasks == <<cmd, task, push, supervisor, heartbeat>>
session == <<xferOpen, received>>
bounds == <<requests, restarts, faults>>
vars == <<flash, running, claims, verdict, late, proof, tasks, session, resetArmed, bounds>>

Slots == {0, 1}
Other(s) == 1 - s
Passive == Other(running)     \* esp_ota_get_next_update_partition

Contents == {"blank", "torn", "bad", "good"}   \* good: it has the digest commanded
States == {"undefined", "new", "pending", "valid", "invalid"}

\* Flashed at the factory: one image, nothing to confirm.
Init ==
    /\ content = [s \in Slots |-> IF s = 0 THEN "good" ELSE "blank"]
    /\ otadata = [s \in Slots |-> "undefined"]
    /\ boot = 0 /\ running = 0
    /\ inProgress = FALSE /\ validationBusy = FALSE /\ modemBusy = FALSE
    /\ pendingVerify = FALSE /\ markedValid = FALSE
    /\ late = FALSE /\ proof = FALSE
    /\ cmd = "idle" /\ task = "none" /\ push = "idle"
    /\ supervisor = "idle" /\ heartbeat = "idle"
    /\ xferOpen = FALSE /\ received = 0
    /\ resetArmed = FALSE
    /\ requests = 0 /\ restarts = 0 /\ faults = 0

(***************************************************************************)
(* The claims, each under s_claim_mux.  Taking or returning the update     *)
(* slot tells MQTT, which drops its publication proof.                     *)
(***************************************************************************)
SlotFree == ~inProgress /\ ~validationBusy /\ ~modemBusy

ClaimInProgress ==
    /\ inProgress' = TRUE
    /\ proof' = FALSE
    /\ UNCHANGED <<validationBusy, modemBusy>>

ReleaseInProgress ==
    /\ inProgress' = FALSE
    /\ proof' = FALSE
    /\ UNCHANGED <<validationBusy, modemBusy>>

Fault ==
    /\ faults < MaxFaults
    /\ faults' = faults + 1
    /\ UNCHANGED <<requests, restarts>>

Request ==
    /\ requests < MaxRequests
    /\ requests' = requests + 1
    /\ UNCHANGED <<restarts, faults>>

(***************************************************************************)
(* confirm_running_image: take the validation claim, write otadata, then   *)
(* latch the result and return the claim.                                  *)
(***************************************************************************)
NothingToConfirm == ~validationBusy /\ ~pendingVerify

MayConfirm == ~validationBusy /\ pendingVerify /\ ~markedValid /\ ~inProgress

MayConfirmAutomatically == MayConfirm /\ ~late /\ (Mqtt => proof)

ClaimValidation ==
    /\ validationBusy' = TRUE
    /\ UNCHANGED <<inProgress, modemBusy>>

MarkValid ==
    /\ otadata' = [otadata EXCEPT ![running] = "valid"]
    /\ markedValid' = TRUE
    /\ pendingVerify' = FALSE
    /\ validationBusy' = FALSE
    /\ UNCHANGED <<content, boot, inProgress, modemBusy, bounds>>

MarkValidFails ==
    /\ Fault
    /\ validationBusy' = FALSE
    /\ UNCHANGED <<flash, verdict, inProgress, modemBusy>>

(***************************************************************************)
(* The command worker: fw_ota_request, for this MCU or for the RP2040.     *)
(***************************************************************************)
\* Mutant: the running image is not confirmed before its fallback is replaced.
CmdSelfUnguarded ==
    /\ cmd = "idle" /\ ~inProgress
    /\ Request
    /\ cmd' = "claim_self"
    /\ UNCHANGED <<flash, running, claims, verdict, late, proof, task, push, supervisor,
                   heartbeat, session, resetArmed>>

CmdSelf ==
    /\ cmd = "idle" /\ ~inProgress
    /\ Request
    /\ \/ /\ NothingToConfirm
          /\ cmd' = "claim_self"
          /\ UNCHANGED claims
       \/ /\ MayConfirm
          /\ cmd' = "confirm"
          /\ ClaimValidation
    /\ UNCHANGED <<flash, running, verdict, late, proof, task, push, supervisor, heartbeat,
                   session, resetArmed>>

CmdConfirmed ==
    /\ cmd = "confirm"
    /\ \/ MarkValid /\ cmd' = "claim_self"
       \/ MarkValidFails /\ cmd' = "idle"
    /\ UNCHANGED <<running, late, proof, task, push, supervisor, heartbeat, session, resetArmed>>

CmdRelay ==
    /\ cmd = "idle" /\ ~inProgress
    /\ Request
    /\ cmd' = "claim_relay"
    /\ UNCHANGED <<flash, running, claims, verdict, late, proof, task, push, supervisor,
                   heartbeat, session, resetArmed>>

CmdClaim ==
    /\ cmd \in {"claim_self", "claim_relay"}
    /\ SlotFree
    /\ \/ /\ ClaimInProgress
          /\ task' = IF cmd = "claim_self" THEN "download" ELSE "relay"
          /\ UNCHANGED bounds
       \/ \* xTaskCreate fails: the claim is returned at once
          /\ Fault
          /\ ReleaseInProgress
          /\ UNCHANGED task
    /\ cmd' = "idle"
    /\ UNCHANGED <<flash, running, verdict, late, push, supervisor, heartbeat, session, resetArmed>>

CmdRefused ==
    /\ cmd \in {"claim_self", "claim_relay"}
    /\ ~SlotFree
    /\ cmd' = "idle"
    /\ UNCHANGED <<flash, running, claims, verdict, late, proof, task, push, supervisor,
                   heartbeat, session, resetArmed, bounds>>

(***************************************************************************)
(* ota_task.  Its attempts keep the claim over every back-off; what they   *)
(* leave in flash is the image, other bytes of its length, or a part.      *)
(***************************************************************************)
Downloads ==
    /\ task = "download"
    /\ content' = [content EXCEPT ![Passive] = "torn"]
    /\ task' = "writing"
    /\ UNCHANGED <<otadata, boot, running, claims, verdict, late, proof, cmd, push, supervisor,
                   heartbeat, session, resetArmed, bounds>>

Downloaded ==
    /\ task = "writing"
    /\ \E bytes \in {"bad", "good"} : content' = [content EXCEPT ![Passive] = bytes]
    /\ task' = "verify"
    /\ UNCHANGED <<otadata, boot, running, claims, verdict, late, proof, cmd, push, supervisor,
                   heartbeat, session, resetArmed, bounds>>

VerifyWritten(s) == content[s] = "good"

Verified ==
    /\ task = "verify"
    /\ VerifyWritten(Passive)
    /\ task' = "finish"
    /\ UNCHANGED <<flash, running, claims, verdict, late, proof, cmd, push, supervisor,
                   heartbeat, session, resetArmed, bounds>>

SetBootPartition(s) ==
    /\ boot' = s
    /\ otadata' = [otadata EXCEPT ![s] = "new"]
    /\ UNCHANGED content

Finished ==
    /\ task = "finish"
    /\ SetBootPartition(Passive)
    /\ task' = "reboot"
    /\ UNCHANGED <<running, claims, verdict, late, proof, cmd, push, supervisor, heartbeat,
                   session, resetArmed, bounds>>

\* Any stage fails, or the digest does not match.
TaskFails ==
    /\ \/ task \in {"download", "writing", "verify", "finish", "relay"} /\ Fault
       \/ task = "verify" /\ ~VerifyWritten(Passive) /\ UNCHANGED bounds
    /\ task' = "none"
    /\ ReleaseInProgress
    /\ UNCHANGED <<flash, running, verdict, late, cmd, push, supervisor, heartbeat, session,
                   resetArmed>>

\* relay_task reports done: this MCU's slots were not touched.
RelayDone ==
    /\ task = "relay"
    /\ task' = "none"
    /\ ReleaseInProgress
    /\ UNCHANGED <<flash, running, verdict, late, cmd, push, supervisor, heartbeat, session,
                   resetArmed, bounds>>

(***************************************************************************)
(* The receiver of a pushed image, on wups_rx.                             *)
(***************************************************************************)
\* Mutant: the session is dropped and its claim forgotten.
XferAbortKeepsClaim ==
    /\ xferOpen' = FALSE
    /\ UNCHANGED <<received, claims, proof>>

XferAbort ==
    /\ xferOpen' = FALSE
    /\ ReleaseInProgress
    /\ UNCHANGED received

\* BEGIN implicitly ends a session, but never another owner's claim.
PushBegin ==
    /\ push = "idle"
    /\ Request
    /\ IF xferOpen THEN XferAbort ELSE UNCHANGED <<session, claims, proof>>
    /\ push' = IF xferOpen \/ ~inProgress THEN "begin" ELSE "idle"
    /\ UNCHANGED <<flash, running, verdict, late, cmd, task, supervisor, heartbeat, resetArmed>>

PushConfirm ==
    /\ push = "begin"
    /\ \/ /\ NothingToConfirm
          /\ push' = "claim"
          /\ UNCHANGED claims
       \/ /\ MayConfirm
          /\ push' = "confirm"
          /\ ClaimValidation
       \/ /\ ~NothingToConfirm /\ ~MayConfirm
          /\ push' = "idle"
          /\ UNCHANGED claims
    /\ UNCHANGED <<flash, running, verdict, late, proof, cmd, task, supervisor, heartbeat,
                   session, resetArmed, bounds>>

PushConfirmed ==
    /\ push = "confirm"
    /\ \/ MarkValid /\ push' = "claim"
       \/ MarkValidFails /\ push' = "idle"
    /\ UNCHANGED <<running, late, proof, cmd, task, supervisor, heartbeat, session, resetArmed>>

PushClaim ==
    /\ push = "claim"
    /\ push' = "idle"
    /\ \/ /\ SlotFree
          /\ ClaimInProgress
          /\ xferOpen' = TRUE
          /\ received' = 0
          /\ UNCHANGED bounds
       \/ \* esp_ota_begin fails: the claim is returned at once
          /\ SlotFree
          /\ Fault
          /\ ReleaseInProgress
          /\ UNCHANGED session
       \/ /\ ~SlotFree
          /\ UNCHANGED <<claims, proof, session, bounds>>
    /\ UNCHANGED <<flash, running, verdict, late, cmd, task, supervisor, heartbeat, resetArmed>>

\* A frame at the offset expected is written to the slot; a frame at any other
\* offset, or past the image, ends the session, and so does a failed write.
PushData(offset) ==
    /\ push = "idle" /\ xferOpen
    /\ \/ /\ offset = received /\ offset < Chunks
          /\ content' = [content EXCEPT ![Passive] = "torn"]
          /\ received' = received + 1
          /\ UNCHANGED <<xferOpen, claims, proof, bounds>>
       \/ /\ offset # received \/ offset >= Chunks
          /\ XferAbort
          /\ UNCHANGED <<content, bounds>>
       \/ /\ Fault
          /\ XferAbort
          /\ UNCHANGED content
    /\ UNCHANGED <<otadata, boot, running, verdict, late, tasks, resetArmed>>

PushAbort ==
    /\ push = "idle" /\ xferOpen
    /\ XferAbort
    /\ UNCHANGED <<flash, running, verdict, late, tasks, resetArmed, bounds>>

PushCommit ==
    /\ push = "idle" /\ xferOpen
    /\ \/ /\ received = Chunks
          /\ xferOpen' = FALSE
          /\ \E bytes \in {"bad", "good"} : content' = [content EXCEPT ![Passive] = bytes]
          /\ push' = "verify"
          /\ UNCHANGED <<received, claims, proof>>
       \/ /\ received # Chunks
          /\ XferAbort
          /\ UNCHANGED <<content, push>>
    /\ UNCHANGED <<otadata, boot, running, verdict, late, cmd, task, supervisor, heartbeat,
                   resetArmed, bounds>>

PushVerified ==
    /\ push = "verify"
    /\ \/ /\ VerifyWritten(Passive)
          /\ SetBootPartition(Passive)
          /\ push' = "reboot"
          /\ UNCHANGED <<claims, proof, bounds>>
       \/ /\ ~VerifyWritten(Passive)
          /\ push' = "idle"
          /\ ReleaseInProgress
          /\ UNCHANGED <<flash, bounds>>
       \/ /\ Fault
          /\ push' = "idle"
          /\ ReleaseInProgress
          /\ UNCHANGED flash
    /\ UNCHANGED <<running, verdict, late, cmd, task, supervisor, heartbeat, session, resetArmed>>

(***************************************************************************)
(* The modem supervisor.                                                   *)
(***************************************************************************)
MarkUplinkHealthy ==
    /\ supervisor = "idle"
    /\ MayConfirmAutomatically
    /\ ClaimValidation
    /\ supervisor' = "confirm"
    /\ UNCHANGED <<flash, running, verdict, late, proof, cmd, task, push, heartbeat, session,
                   resetArmed, bounds>>

UplinkConfirmed ==
    /\ supervisor = "confirm"
    /\ MarkValid \/ MarkValidFails
    /\ supervisor' = "idle"
    /\ UNCHANGED <<running, late, proof, cmd, task, push, heartbeat, session, resetArmed>>

TryModemRecovery ==
    /\ supervisor = "idle"
    /\ SlotFree
    /\ modemBusy' = TRUE
    /\ supervisor' = "teardown"
    /\ UNCHANGED <<flash, running, inProgress, validationBusy, verdict, late, proof, cmd, task,
                   push, heartbeat, session, resetArmed, bounds>>

FinishModemRecovery ==
    /\ supervisor = "teardown"
    /\ modemBusy' = FALSE
    /\ supervisor' = "idle"
    /\ UNCHANGED <<flash, running, inProgress, validationBusy, verdict, late, proof, cmd, task,
                   push, heartbeat, session, resetArmed, bounds>>

(***************************************************************************)
(* The heartbeat: fw_ota_rollback_tick and fw_ota_xfer_tick.               *)
(***************************************************************************)
RollbackTick ==
    /\ heartbeat = "idle"
    /\ pendingVerify /\ ~markedValid /\ ~validationBusy /\ ~inProgress /\ late
    /\ ClaimValidation
    /\ heartbeat' = "rollback"
    /\ UNCHANGED <<flash, running, verdict, late, proof, cmd, task, push, supervisor, session,
                   resetArmed, bounds>>

RollbackFails ==
    /\ heartbeat = "rollback"
    /\ Fault
    /\ markedValid' = TRUE
    /\ validationBusy' = FALSE
    /\ heartbeat' = "idle"
    /\ UNCHANGED <<flash, running, inProgress, modemBusy, pendingVerify, late, proof, cmd, task,
                   push, supervisor, session, resetArmed>>

XferTick ==
    /\ heartbeat = "idle"
    /\ push = "idle" /\ xferOpen
    /\ XferAbort
    /\ UNCHANGED <<flash, running, verdict, late, tasks, resetArmed, bounds>>

(***************************************************************************)
(* Restarts.  The bootloader tries an image once: one still pending when   *)
(* the chip restarts is given up for the other slot.                       *)
(***************************************************************************)
BootChoice == IF otadata[boot] \in {"pending", "invalid"} THEN Other(boot) ELSE boot

Booted(data, slot) ==
    /\ otadata' = [data EXCEPT ![slot] = IF @ = "new" THEN "pending" ELSE @]
    /\ boot' = slot /\ running' = slot
    /\ pendingVerify' = (data[slot] = "new")
    /\ markedValid' = FALSE
    /\ inProgress' = FALSE /\ validationBusy' = FALSE /\ modemBusy' = FALSE
    /\ late' = FALSE /\ proof' = FALSE
    /\ cmd' = "idle" /\ task' = "none" /\ push' = "idle"
    /\ supervisor' = "idle" /\ heartbeat' = "idle"
    /\ xferOpen' = FALSE /\ received' = 0
    /\ resetArmed' = FALSE
    /\ UNCHANGED content

Bootloader ==
    Booted([otadata EXCEPT ![boot] = IF @ = "pending" THEN "invalid" ELSE @], BootChoice)

\* esp_ota_mark_app_invalid_rollback_and_reboot
RollbackAndReboot ==
    /\ heartbeat = "rollback"
    /\ Booted([otadata EXCEPT ![running] = "invalid"], Other(running))
    /\ UNCHANGED bounds

RebootIntoUpdate ==
    /\ task = "reboot" \/ push = "reboot"
    /\ Bootloader
    /\ UNCHANGED bounds

PowerCut ==
    /\ restarts < MaxRestarts
    /\ restarts' = restarts + 1
    /\ Bootloader
    /\ UNCHANGED <<requests, faults>>

\* system.reset: refused while a transfer runs, else the timer is started.
SysReset ==
    /\ cmd = "idle" /\ ~inProgress
    /\ restarts < MaxRestarts
    /\ resetArmed' = TRUE
    /\ restarts' = restarts + 1
    /\ UNCHANGED <<flash, running, claims, verdict, late, proof, tasks, session, requests, faults>>

ResetTimer ==
    /\ resetArmed
    /\ Bootloader
    /\ UNCHANGED bounds

(***************************************************************************)
(* Time and the backend.                                                   *)
(***************************************************************************)
WindowCloses ==
    /\ ~late /\ late' = TRUE
    /\ UNCHANGED <<flash, running, claims, verdict, proof, tasks, session, resetArmed, bounds>>

\* MQTT establishes proof only outside a transfer, and may lose it any time.
ProofChanges ==
    /\ proof' = ~proof
    /\ inProgress => proof
    /\ UNCHANGED <<flash, running, claims, verdict, late, tasks, session, resetArmed, bounds>>

TaskStep == Downloads \/ Downloaded \/ Verified \/ Finished \/ TaskFails \/ RelayDone

PushStep == PushConfirm \/ PushConfirmed \/ PushClaim \/ PushVerified

Next ==
    \/ CmdSelf \/ CmdConfirmed \/ CmdRelay \/ CmdClaim \/ CmdRefused
    \/ TaskStep
    \/ PushBegin \/ PushStep \/ PushAbort \/ PushCommit
    \/ \E offset \in 0..Chunks : PushData(offset)
    \/ MarkUplinkHealthy \/ UplinkConfirmed \/ TryModemRecovery \/ FinishModemRecovery
    \/ RollbackTick \/ RollbackFails \/ XferTick
    \/ RollbackAndReboot \/ RebootIntoUpdate \/ PowerCut \/ SysReset \/ ResetTimer
    \/ WindowCloses \/ ProofChanges

Spec == Init /\ [][Next]_vars

(***************************************************************************)
(* The download, the push and every wait of the handlers end: each network *)
(* and flash call has a time-out, the heartbeat runs every few seconds and *)
(* the window is a clock.  Nothing is assumed of requests, of proof, or of *)
(* power.                                                                  *)
(***************************************************************************)
FairSpec ==
    /\ Spec
    /\ WF_vars(CmdConfirmed) /\ WF_vars(CmdClaim \/ CmdRefused)
    /\ WF_vars(TaskStep) /\ WF_vars(PushStep) /\ WF_vars(RebootIntoUpdate)
    /\ WF_vars(UplinkConfirmed) /\ WF_vars(FinishModemRecovery)
    /\ WF_vars(XferTick) /\ WF_vars(RollbackTick)
    /\ WF_vars(RollbackAndReboot \/ RollbackFails)
    /\ WF_vars(WindowCloses)

(***************************************************************************)
(* Properties                                                              *)
(***************************************************************************)

FlashTypes ==
    /\ content \in [Slots -> Contents] /\ otadata \in [Slots -> States]
    /\ boot \in Slots /\ running \in Slots

FlagTypes ==
    /\ inProgress \in BOOLEAN /\ validationBusy \in BOOLEAN /\ modemBusy \in BOOLEAN
    /\ pendingVerify \in BOOLEAN /\ markedValid \in BOOLEAN
    /\ late \in BOOLEAN /\ proof \in BOOLEAN
    /\ xferOpen \in BOOLEAN /\ resetArmed \in BOOLEAN

PlaceTypes ==
    /\ cmd \in {"idle", "confirm", "claim_self", "claim_relay"}
    /\ task \in {"none", "download", "writing", "verify", "finish", "reboot", "relay"}
    /\ push \in {"idle", "begin", "confirm", "claim", "verify", "reboot"}
    /\ supervisor \in {"idle", "confirm", "teardown"}
    /\ heartbeat \in {"idle", "rollback"}

CountTypes ==
    /\ received \in 0..Chunks
    /\ requests \in 0..MaxRequests /\ restarts \in 0..MaxRestarts /\ faults \in 0..MaxFaults

\* Every variable keeps its type; in particular a push never counts more
\* frames than its image has.
TypeOK == FlashTypes /\ FlagTypes /\ PlaceTypes /\ CountTypes

\* Who works on flash: the task or a push writes a slot, a confirmation or a
\* rollback decides about one.
Writers ==
    (IF task # "none" THEN {"task"} ELSE {})
      \cup (IF xferOpen \/ push \in {"verify", "reboot"} THEN {"push"} ELSE {})

Deciders ==
    (IF cmd = "confirm" THEN {"cmd"} ELSE {})
      \cup (IF push = "confirm" THEN {"rx"} ELSE {})
      \cup (IF supervisor = "confirm" THEN {"supervisor"} ELSE {})
      \cup (IF heartbeat = "rollback" THEN {"heartbeat"} ELSE {})

\* s_claim_mux arbitrates five tasks: at any time at most one of them writes
\* a slot or decides about one, a modem teardown excludes writers, and a claim
\* is held exactly while somebody owns it (none is taken twice or leaked).
ClaimsOwned ==
    /\ \A a, b \in Writers \cup Deciders : a = b
    /\ inProgress <=> Writers # {}
    /\ validationBusy <=> Deciders # {}
    /\ modemBusy <=> supervisor = "teardown"
    /\ ~(modemBusy /\ inProgress)

\* Whenever the chip restarts, by command, watchdog, power cut or rollback,
\* the slot the bootloader goes for holds a complete verified image: the brick
\* guards of fw_ota_request and xfer_begin never let the slot that a pending
\* image would fall back to be overwritten.
Bootable ==
    /\ content[BootChoice] = "good"
    /\ heartbeat = "rollback" => content[Other(running)] = "good"

\* Both: whoever holds the slot, and whenever the chip restarts.
SlotSound == ClaimsOwned /\ Bootable

\* An image that awaits its verdict gets one: it is confirmed, or rolled back,
\* or the rollback itself failed (fw_ota_rollback_tick cannot be starved by
\* transfers, confirmations or teardowns that come and go).
VerdictReached == (pendingVerify /\ ~markedValid) ~> (~pendingVerify \/ markedValid)

\* No transfer keeps the update slot, and with it the frozen modem watchdog,
\* for ever: the task ends, and a push whose sender vanished is dropped by the
\* idle guard.
SlotReturned == inProgress ~> ~inProgress

\* wups_link.c:1075 of try_handle_sys_reset: "An OTA download / RP2040 relay /
\* fw_xfer session must not be cut mid-flash".
ResetSparesTransfer == [][ResetTimer => ~inProgress]_vars
=============================================================================
