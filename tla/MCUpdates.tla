------------------------------ MODULE MCUpdates -------------------------------
\* The updates of both processors, one part per behaviour: the ESP32's slot and
\* its tasks (EspOta), the download that fills it (OtaDownload), the RP2040's
\* staging, trial and rollback with any two senders (FwUpdate), and with the
\* ESP32's relay over a lossy link as the sender (FwRelay).
EXTENDS EspOta

CONSTANTS ImageLen, Header, ResumeMin, MaxAttempts, TimeCap, StallLimit, Buffer, MaxHops,    \* OtaDownload
          Images, Factory, Sane, Update, Frames, Block, MaxBoots, MaxBegins, MaxCuts, MaxWears, \* FwUpdate
          MaxRelays, MaxWire,                                                               \* FwRelay
          RelayBegins,        \* bound: sessions of one behaviour of the relay
          RelayUpsets         \* bound: its power cuts and failed flash operations

VARIABLES part,
    pc, attempt, checkpoint, offset, lib, fallback, body, now, idle, update, selected, object, hops,
    dropped,                                                            \* OtaDownload
    app, stage, prev, marker, command, phase, fsOk, pending, open, target, staged, buf, proven, prevProven,
    begins, cuts, wears,                                                \* FwUpdate, FwRelay
    relay, tries, sent, seq, armed, respOp, respResult, sig, handing, helloSeen, outcome, down, up, answering,
    relays, armedFor                                                    \* FwRelay
getvars == <<pc, attempt, checkpoint, offset, lib, fallback, body, now, idle, update, selected, object, hops, dropped>>
fwvars == <<app, stage, prev, marker, command, phase, fsOk, pending, open, target, staged, buf, proven,
            prevProven, begins, cuts, wears>>
relayvars == <<relay, tries, sent, seq, armed, respOp, respResult, sig, handing, helloSeen, outcome, down, up,
               answering, relays, armedFor>>

Get == INSTANCE OtaDownload WITH Len_ <- ImageLen, flash <- update, boot <- selected
Rel == INSTANCE FwRelay WITH Chunks <- Frames, MaxFaults <- MaxWears, attempt <- tries,
    received <- staged, faults <- wears
ASSUME GetConstants == Get!OtaDownloadConstants
ASSUME RelConstants == Rel!FwUpdateConstants /\ Rel!FwRelayConstants

MCInit == /\ part \in {"slot", "download", "rp2040", "relay"}
          /\ Init /\ Get!Init /\ Rel!RelayInit
MCNext ==
    /\ UNCHANGED part
    /\ \/ part = "slot" /\ Next /\ UNCHANGED <<getvars, fwvars, relayvars>>
       \/ part = "download" /\ Get!Next /\ UNCHANGED <<vars, fwvars, relayvars>>
       \/ part = "rp2040" /\ Rel!FwNext /\ UNCHANGED <<vars, getvars, relayvars>>
       \/ part = "relay" /\ Rel!Next /\ begins' <= RelayBegins /\ cuts' + wears' <= RelayUpsets
          /\ UNCHANGED <<vars, getvars>>

\* The fairness of the four modules, in their behaviours.
SlotFair ==
    /\ WF_vars(part = "slot" /\ CmdConfirmed) /\ WF_vars(part = "slot" /\ (CmdClaim \/ CmdRefused))
    /\ WF_vars(part = "slot" /\ TaskStep) /\ WF_vars(part = "slot" /\ PushStep)
    /\ WF_vars(part = "slot" /\ RebootIntoUpdate)
    /\ WF_vars(part = "slot" /\ UplinkConfirmed) /\ WF_vars(part = "slot" /\ FinishModemRecovery)
    /\ WF_vars(part = "slot" /\ XferTick) /\ WF_vars(part = "slot" /\ RollbackTick)
    /\ WF_vars(part = "slot" /\ (RollbackAndReboot \/ RollbackFails))
    /\ WF_vars(part = "slot" /\ WindowCloses)
DownloadFair == WF_getvars(part = "download" /\ Get!Task)
TrialFair == /\ WF_fwvars(part = "rp2040" /\ Rel!BootStep) /\ WF_fwvars(part = "rp2040" /\ Rel!RestageStep)
             /\ WF_fwvars(part = "rp2040" /\ Rel!CommitStep) /\ WF_fwvars(part = "rp2040" /\ Rel!TickWindow)
RelayFair == /\ WF_<<relayvars, fwvars>>(part = "relay" /\ Rel!RelayStep)
             /\ WF_<<relayvars, fwvars>>(part = "relay" /\ Rel!RxHandsOver)
MCSpec == MCInit /\ [][MCNext]_<<part, vars, getvars, fwvars, relayvars>>
          /\ SlotFair /\ DownloadFair /\ TrialFair /\ RelayFair

\* Only complete images are ever applied on the RP2040 and one on trial is
\* covered by a snapshot (FwUpdate); the relay and the receiver stay in step
\* and a success it reports is one (FwRelay).
ImageSafe == /\ Rel!OnlyCompleteApplied /\ Rel!TrialCovered
             /\ part = "relay" => Rel!SenderInStep /\ Rel!SuccessIsReal

\* An image that was confirmed is not rolled back (FwUpdate).
ConfirmedStays == Rel!ConfirmedStays

\* What is booted is what was commanded (OtaDownload).
DownloadSound == Get!DownloadSound

\* Every update ends: the slot is given back and a new image gets its verdict
\* (EspOta), the download ends (OtaDownload), so do a trial (FwUpdate) and a
\* relay (FwRelay).
UpdatesEnd == /\ []<>(~pendingVerify \/ markedValid)
              /\ []<>(~inProgress)
              /\ []<>(part = "download" => pc \in {"restart", "failed"})
              /\ []<>(part = "rp2040" => marker = Rel!NoMarker \/ (phase = "run" /\ ~fsOk))
              /\ []<>(relay = "idle")
=============================================================================
