---------------------------- MODULE BackendMode ----------------------------
(***************************************************************************)
(* backend_mode.c: which backend the device talks to (MQTT, Arkiv or a     *)
(* server of the user's), changed from the menu by writing NVS and         *)
(* restarting.  The panel learns of a change twice: a hint over the old    *)
(* backend before the restart, and a confirmation over the new one, sent   *)
(* by the main task's heartbeat for as long as the marker prev_mode is in  *)
(* NVS.  Menu and heartbeat are different tasks and share the namespace    *)
(* without a lock; power may fail between any two writes.                  *)
(***************************************************************************)
EXTENDS Naturals

CONSTANTS
    MaxBoots,   \* bound: restarts
    MaxErrors   \* bound: NVS operations that fail

BackendModeConstants == MaxBoots \in Nat /\ MaxErrors \in Nat

VARIABLES
    nvs,      \* cur_mode and prev_mode, or "absent"
    mode,     \* s_cur_mode
    sw,       \* the menu's task: where in request_switch, and the target
    hb,       \* the heartbeat: where in emit_post_switch_confirm, what it read
    receipt,  \* s_confirm_receipt and the mode its message names
    accepted, \* s_confirm_sdk_accepted
    done,     \* s_confirm_done
    boots, errors,
    was,      \* history: the mode in effect before the last change
    told,     \* history: the modes named in messages admitted in this boot
    sent      \* history: how many those were
vars == <<nvs, mode, sw, hb, receipt, accepted, done, boots, errors, was, told, sent>>
history == <<was, told, sent>>
confirming == <<receipt, accepted, done>>
bounds == <<boots, errors>>

Modes == {"mqtt", "arkiv", "http"}
Marks == Modes \cup {"absent"}
Error == errors < MaxErrors /\ errors' = errors + 1
NoSwitch == [pc |-> "idle", to |-> "mqtt"]
NoReceipt == [state |-> "none", names |-> "absent"]
NoBeat == [pc |-> "idle", prev |-> "absent"]

Init ==
    /\ nvs = [cur |-> "absent", prev |-> "absent"]
    /\ mode = "mqtt" /\ sw = NoSwitch /\ hb = NoBeat
    /\ receipt = NoReceipt /\ accepted = FALSE /\ done = FALSE
    /\ boots = 0 /\ errors = 0
    /\ was = "absent" /\ told = {} /\ sent = 0

\* backend_mode_init after a restart; a namespace that cannot be read counts
\* as the default.
Boot(store) ==
    /\ boots < MaxBoots /\ boots' = boots + 1
    /\ \/ mode' = (IF store.cur \in Modes THEN store.cur ELSE "mqtt") /\ UNCHANGED errors
       \/ mode' = "mqtt" /\ Error
    /\ nvs' = store
    /\ sw' = NoSwitch /\ hb' = NoBeat
    /\ receipt' = NoReceipt /\ accepted' = FALSE /\ done' = FALSE
    /\ was' = (IF mode' = mode THEN was ELSE mode)
    /\ told' = {} /\ sent' = 0

(***************************************************************************)
(* The menu's task                                                         *)
(***************************************************************************)
\* The hint goes out over the current backend; whether it does changes nothing.
RequestSwitch ==
    /\ sw.pc = "idle"
    /\ \E m \in Modes \ {mode} : sw' = [pc |-> "cur", to |-> m]
    /\ UNCHANGED <<nvs, mode, hb, confirming, bounds, history>>

\* Choosing the mode that is active restarts in place.
Reselect == sw.pc = "idle" /\ Boot(nvs)

WriteCur ==
    /\ sw.pc = "cur" /\ sw' = [sw EXCEPT !.pc = "prev"]
    /\ \/ nvs' = [nvs EXCEPT !.cur = sw.to] /\ UNCHANGED errors
       \/ UNCHANGED nvs /\ Error
    /\ UNCHANGED <<mode, hb, confirming, boots, history>>

WritePrev ==
    /\ sw.pc = "prev" /\ sw' = [sw EXCEPT !.pc = "restart"]
    /\ \/ nvs' = [nvs EXCEPT !.prev = mode] /\ UNCHANGED errors
       \/ UNCHANGED nvs /\ Error
    /\ UNCHANGED <<mode, hb, confirming, boots, history>>

SwitchRestarts == sw.pc = "restart" /\ Boot(nvs)

\* The writable partition is erased; on an error it is left as it is.
FactoryReset ==
    /\ sw.pc = "idle"
    /\ Boot([cur |-> "absent", prev |-> "absent"]) \/ Boot(nvs)

PowerFails == Boot(nvs)

(***************************************************************************)
(* The heartbeat's confirmation                                            *)
(***************************************************************************)
\* A read that fails ends the heartbeat's turn and changes nothing.
ReadMarker ==
    /\ hb.pc = "idle" /\ ~done
    /\ hb' = IF accepted THEN [pc |-> "clear", prev |-> "absent"]
                         ELSE [pc |-> "read", prev |-> nvs.prev]
    /\ UNCHANGED <<nvs, mode, sw, confirming, bounds, history>>

NoMarker ==
    /\ hb.pc = "read" /\ hb.prev = "absent"
    /\ hb' = NoBeat
    /\ done' = TRUE /\ receipt' = NoReceipt
    /\ UNCHANGED <<nvs, mode, sw, accepted, bounds, history>>

StaleMarker ==
    /\ hb.pc = "read" /\ hb.prev = mode
    /\ hb' = [hb EXCEPT !.pc = "clear"]
    /\ receipt' = NoReceipt
    /\ UNCHANGED <<nvs, mode, sw, accepted, done, bounds, history>>

Pending == hb.pc = "read" /\ hb.prev \in Modes \ {mode}

\* MQTT: submit once, then look at the receipt at every heartbeat.
Submit ==
    /\ Pending /\ mode = "mqtt" /\ receipt = NoReceipt
    /\ receipt' \in {NoReceipt, [state |-> "pending", names |-> hb.prev]}
    /\ hb' = NoBeat
    /\ UNCHANGED <<nvs, mode, sw, accepted, done, bounds, history>>

\* The dispatch queue hands the message to the SDK, or drops it.
Admitted ==
    /\ receipt.state = "pending"
    /\ receipt' = [receipt EXCEPT !.state = "accepted"]
    /\ told' = told \cup {receipt.names} /\ sent' = sent + 1
    /\ UNCHANGED <<nvs, mode, sw, hb, accepted, done, bounds, was>>

Dropped ==
    /\ receipt.state = "pending"
    /\ receipt' = [receipt EXCEPT !.state = "dropped"]
    /\ UNCHANGED <<nvs, mode, sw, hb, accepted, done, bounds, history>>

StillPending ==
    /\ Pending /\ mode = "mqtt" /\ receipt.state = "pending"
    /\ hb' = NoBeat
    /\ UNCHANGED <<nvs, mode, sw, confirming, bounds, history>>

TakeReceipt ==
    /\ Pending /\ mode = "mqtt" /\ receipt.state \in {"accepted", "dropped"}
    /\ receipt' = NoReceipt
    /\ accepted' = (receipt.state = "accepted")
    /\ hb' = IF accepted' THEN [hb EXCEPT !.pc = "clear"] ELSE NoBeat
    /\ UNCHANGED <<nvs, mode, sw, done, bounds, history>>

\* Arkiv: queued for the writer, or refused while unclaimed or not ready;
\* HTTP: there is no channel.
Emit ==
    /\ Pending /\ mode # "mqtt"
    /\ \/ mode = "arkiv" /\ hb' = [hb EXCEPT !.pc = "clear"]
       \/ hb' = NoBeat
    /\ UNCHANGED <<nvs, mode, sw, confirming, bounds, history>>

ClearMarker ==
    /\ hb.pc = "clear" /\ hb' = NoBeat
    /\ \/ nvs' = [nvs EXCEPT !.prev = "absent"] /\ done' = TRUE /\ UNCHANGED errors
       \/ UNCHANGED <<nvs, done>> /\ Error
    /\ UNCHANGED <<mode, sw, receipt, accepted, boots, history>>

Heartbeat ==
    \/ ReadMarker \/ NoMarker \/ StaleMarker \/ Submit \/ StillPending
    \/ TakeReceipt \/ Emit \/ ClearMarker

Next ==
    \/ RequestSwitch \/ Reselect \/ WriteCur \/ WritePrev \/ SwitchRestarts
    \/ FactoryReset \/ PowerFails
    \/ Heartbeat \/ Admitted \/ Dropped

Spec == Init /\ [][Next]_vars
FairSpec == Spec /\ WF_vars(Heartbeat) /\ SF_vars(Admitted) /\ WF_vars(Dropped)
                 /\ SF_vars(Pending /\ Submit /\ receipt' # receipt)

(***************************************************************************)
(* Properties                                                              *)
(***************************************************************************)
\* The types; the switch in progress is to another mode.
TypeOK ==
    /\ nvs \in [cur : Marks, prev : Marks] /\ mode \in Modes
    /\ sw \in [pc : {"idle", "cur", "prev", "restart"}, to : Modes]
    /\ hb \in [pc : {"idle", "read", "clear"}, prev : Marks]
    /\ receipt \in [state : {"none", "pending", "accepted", "dropped"}, names : Marks]
    /\ accepted \in BOOLEAN /\ done \in BOOLEAN
    /\ boots \in 0..MaxBoots /\ errors \in 0..MaxErrors
    /\ was \in Marks /\ told \subseteq Modes /\ sent \in Nat
    /\ sw.pc # "idle" => sw.to # mode

\* backend_mode.c:47 "retrying persistence cannot re-submit it": over MQTT the
\* SDK gets the confirmation once in a boot, whatever NVS does.
AdmittedOnce == sent <= 1

\* The heartbeat stops looking only when no marker is left for this boot.
DoneMeansCleared == done /\ sw.pc # "restart" => nvs.prev = "absent"

\* A boot of the new mode that found the marker goes on until the SDK has the
\* confirmation, unless the device restarts or the mode is switched again.
SwitchConfirmed ==
    \A b \in 0..MaxBoots :
        (mode = "mqtt" /\ boots = b /\ nvs.prev \in Modes \ {mode})
            ~> (boots # b \/ sw.pc # "idle" \/ sent > 0)

\* backend_mode.c:384-385 "we only clear the MQTT marker AFTER SDK admission": a
\* marker goes from NVS only when a message that names it was admitted.
ClearedAfterAdmission ==
    [][mode = "mqtt" /\ boots' = boots /\ nvs.prev # "absent" /\ nvs'.prev = "absent"
       => nvs.prev \in told]_vars

\* backend_mode.c:7 prev_mode is the "mode in effect BEFORE the switch we just
\* performed": what the confirmation will name is the mode that was left.
MarkerTruthful == nvs.prev # "absent" /\ sw.pc = "idle" => nvs.prev = was
=============================================================================
