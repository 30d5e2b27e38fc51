---------------------------- MODULE EspOtaProofs ----------------------------
(***************************************************************************)
(* The updates of both processors, for constants of any size.             *)
(*                                                                         *)
(* The ESP32's slot: the claims of EspOta have at most one owner and are   *)
(* never leaked, and every restart finds a complete verified image.        *)
(* ClaimsOwned is inductive once its sets are written out (Exclusive).     *)
(* Bootable is not: that the fallback of a pending image is intact rests   *)
(* on no writer having passed the brick guard, which is a fact about where *)
(* the command worker, the task and the receiver are (Guarded), and that   *)
(* the slot selected can be booted rests on what was verified before it    *)
(* was selected (Selected).                                                *)
(*                                                                         *)
(* The download (GetInv): what a connection delivers belongs where the     *)
(* library writes next.  The RP2040 (FwInv): what its files and the        *)
(* command of the bootloader mean at every place power can fail.  The      *)
(* relay (LinkInv): requests are numbered, so that a success on its way to *)
(* the relay, however late, is about the request it is taken for.          *)
(***************************************************************************)
EXTENDS MCUpdates, SequenceTheorems, TLAPS

TaskWrites == task # "none"
PushWrites == xferOpen \/ push \in {"verify", "reboot"}

\* The claims and their owners, without sets.
Exclusive ==
    /\ inProgress <=> (TaskWrites \/ PushWrites)
    /\ ~(TaskWrites /\ PushWrites)
    /\ validationBusy <=> (cmd = "confirm" \/ push = "confirm" \/ supervisor = "confirm"
                              \/ heartbeat = "rollback")
    /\ cmd = "confirm" => push # "confirm" /\ supervisor # "confirm" /\ heartbeat # "rollback"
    /\ push = "confirm" => supervisor # "confirm" /\ heartbeat # "rollback"
    /\ supervisor = "confirm" => heartbeat # "rollback"
    /\ ~(inProgress /\ validationBusy)
    /\ modemBusy <=> supervisor = "teardown"
    /\ ~(modemBusy /\ inProgress)
    /\ xferOpen => push = "idle"

\* While the running image awaits its verdict nobody is past the brick guard,
\* and the slot it would fall back to is intact.
Guarded ==
    /\ pendingVerify <=> otadata[running] = "pending"
    /\ pendingVerify =>
          /\ task \in {"none", "relay"}
          /\ ~PushWrites
          /\ cmd # "claim_self" /\ push # "claim"
          /\ content[Other(running)] = "good"
          /\ otadata[Other(running)] \in {"undefined", "valid"}
    /\ heartbeat = "rollback" => pendingVerify

\* The running image is intact, and another slot is selected only once its
\* image was verified, by the owner about to restart into it.
Selected ==
    /\ content[running] = "good"
    /\ otadata[running] \in {"undefined", "pending", "valid"}
    /\ task = "finish" => content[Other(running)] = "good"
    /\ boot # running => task = "reboot" \/ push = "reboot"
    /\ task = "reboot" \/ push = "reboot" =>
          /\ boot = Other(running)
          /\ otadata[boot] = "new"
          /\ content[boot] = "good"

IInv == TypeOK /\ Exclusive /\ Guarded /\ Selected

USE DEF Slots, Other

LEMMA FlashStep ==
    ASSUME IInv, [Next]_vars
    PROVE  FlashTypes'
<1> USE EspOtaConstants DEF IInv, TypeOK, FlashTypes, FlagTypes, Contents, States, flash, claims, verdict, tasks,
      session, bounds
<1>1. CASE CmdSelf
  BY <1>1 DEF CmdSelf, Request, NothingToConfirm, MayConfirm, ClaimValidation
<1>2. CASE CmdConfirmed
  BY <1>2 DEF CmdConfirmed, MarkValid, MarkValidFails, Fault
<1>3. CASE CmdRelay
  BY <1>3 DEF CmdRelay, Request
<1>4. CASE CmdClaim
  BY <1>4 DEF CmdClaim, SlotFree, ClaimInProgress, ReleaseInProgress, Fault
<1>5. CASE CmdRefused
  BY <1>5 DEF CmdRefused, SlotFree
<1>6. CASE Downloads
  BY <1>6 DEF Downloads, Passive
<1>7. CASE Downloaded
  BY <1>7 DEF Downloaded, Passive
<1>8. CASE Verified
  BY <1>8 DEF Verified, VerifyWritten, Passive
<1>9. CASE Finished
  BY <1>9 DEF Finished, SetBootPartition, Passive
<1>10. CASE TaskFails
  BY <1>10 DEF TaskFails, ReleaseInProgress, Fault, VerifyWritten, Passive
<1>11. CASE RelayDone
  BY <1>11 DEF RelayDone, ReleaseInProgress
<1>12. CASE PushBegin
  BY <1>12 DEF PushBegin, Request, XferAbort, ReleaseInProgress
<1>13. CASE PushConfirm
  BY <1>13 DEF PushConfirm, NothingToConfirm, MayConfirm, ClaimValidation
<1>14. CASE PushConfirmed
  BY <1>14 DEF PushConfirmed, MarkValid, MarkValidFails, Fault
<1>15. CASE PushClaim
  BY <1>15 DEF PushClaim, SlotFree, ClaimInProgress, ReleaseInProgress, Fault
<1>16. CASE PushVerified
  BY <1>16 DEF PushVerified, VerifyWritten, SetBootPartition, ReleaseInProgress, Fault, Passive
<1>17. CASE PushAbort
  BY <1>17 DEF PushAbort, XferAbort, ReleaseInProgress
<1>18. CASE PushCommit
  BY <1>18 DEF PushCommit, XferAbort, ReleaseInProgress, Passive
<1>19. CASE MarkUplinkHealthy
  BY <1>19 DEF MarkUplinkHealthy, MayConfirmAutomatically, MayConfirm, ClaimValidation
<1>20. CASE UplinkConfirmed
  BY <1>20 DEF UplinkConfirmed, MarkValid, MarkValidFails, Fault
<1>21. CASE TryModemRecovery
  BY <1>21 DEF TryModemRecovery, SlotFree
<1>22. CASE FinishModemRecovery
  BY <1>22 DEF FinishModemRecovery
<1>23. CASE RollbackTick
  BY <1>23 DEF RollbackTick, ClaimValidation
<1>24. CASE RollbackFails
  BY <1>24 DEF RollbackFails, Fault
<1>25. CASE XferTick
  BY <1>25 DEF XferTick, XferAbort, ReleaseInProgress
<1>26. CASE RollbackAndReboot
  BY <1>26 DEF RollbackAndReboot, Booted
<1>27. CASE RebootIntoUpdate
  BY <1>27 DEF RebootIntoUpdate, Bootloader, Booted, BootChoice
<1>28. CASE PowerCut
  BY <1>28 DEF PowerCut, Bootloader, Booted, BootChoice
<1>29. CASE SysReset
  BY <1>29 DEF SysReset
<1>30. CASE ResetTimer
  BY <1>30 DEF ResetTimer, Bootloader, Booted, BootChoice
<1>31. CASE WindowCloses
  BY <1>31 DEF WindowCloses
<1>32. CASE ProofChanges
  BY <1>32 DEF ProofChanges
<1>33. ASSUME NEW at \in 0..Chunks, PushData(at) PROVE FlashTypes'
  BY <1>33 DEF PushData, XferAbort, ReleaseInProgress, Fault, Passive
<1>34. CASE UNCHANGED vars
  BY <1>34 DEF vars
<1> QED
  BY <1>1, <1>2, <1>3, <1>4, <1>5, <1>6, <1>7, <1>8, <1>9, <1>10, <1>11, <1>12, <1>13, <1>14, <1>15, <1>16, <1>17,
     <1>18, <1>19, <1>20, <1>21, <1>22, <1>23, <1>24, <1>25, <1>26, <1>27, <1>28, <1>29, <1>30, <1>31, <1>32,
     <1>33, <1>34 DEF Next, TaskStep, PushStep

LEMMA FlagStep ==
    ASSUME IInv, [Next]_vars
    PROVE  FlagTypes'
<1> USE EspOtaConstants DEF IInv, TypeOK, FlagTypes, flash, claims, verdict, tasks, session, bounds
<1>1. CASE CmdSelf
  BY <1>1 DEF CmdSelf, Request, NothingToConfirm, MayConfirm, ClaimValidation
<1>2. CASE CmdConfirmed
  BY <1>2 DEF CmdConfirmed, MarkValid, MarkValidFails, Fault
<1>3. CASE CmdRelay
  BY <1>3 DEF CmdRelay, Request
<1>4. CASE CmdClaim
  BY <1>4 DEF CmdClaim, SlotFree, ClaimInProgress, ReleaseInProgress, Fault
<1>5. CASE CmdRefused
  BY <1>5 DEF CmdRefused, SlotFree
<1>6. CASE Downloads
  BY <1>6 DEF Downloads, Passive
<1>7. CASE Downloaded
  BY <1>7 DEF Downloaded, Passive
<1>8. CASE Verified
  BY <1>8 DEF Verified, VerifyWritten, Passive
<1>9. CASE Finished
  BY <1>9 DEF Finished, SetBootPartition, Passive
<1>10. CASE TaskFails
  BY <1>10 DEF TaskFails, ReleaseInProgress, Fault, VerifyWritten, Passive
<1>11. CASE RelayDone
  BY <1>11 DEF RelayDone, ReleaseInProgress
<1>12. CASE PushBegin
  BY <1>12 DEF PushBegin, Request, XferAbort, ReleaseInProgress
<1>13. CASE PushConfirm
  BY <1>13 DEF PushConfirm, NothingToConfirm, MayConfirm, ClaimValidation
<1>14. CASE PushConfirmed
  BY <1>14 DEF PushConfirmed, MarkValid, MarkValidFails, Fault
<1>15. CASE PushClaim
  BY <1>15 DEF PushClaim, SlotFree, ClaimInProgress, ReleaseInProgress, Fault
<1>16. CASE PushVerified
  BY <1>16 DEF PushVerified, VerifyWritten, SetBootPartition, ReleaseInProgress, Fault, Passive
<1>17. CASE PushAbort
  BY <1>17 DEF PushAbort, XferAbort, ReleaseInProgress
<1>18. CASE PushCommit
  BY <1>18 DEF PushCommit, XferAbort, ReleaseInProgress, Passive
<1>19. CASE MarkUplinkHealthy
  BY <1>19 DEF MarkUplinkHealthy, MayConfirmAutomatically, MayConfirm, ClaimValidation
<1>20. CASE UplinkConfirmed
  BY <1>20 DEF UplinkConfirmed, MarkValid, MarkValidFails, Fault
<1>21. CASE TryModemRecovery
  BY <1>21 DEF TryModemRecovery, SlotFree
<1>22. CASE FinishModemRecovery
  BY <1>22 DEF FinishModemRecovery
<1>23. CASE RollbackTick
  BY <1>23 DEF RollbackTick, ClaimValidation
<1>24. CASE RollbackFails
  BY <1>24 DEF RollbackFails, Fault
<1>25. CASE XferTick
  BY <1>25 DEF XferTick, XferAbort, ReleaseInProgress
<1>26. CASE RollbackAndReboot
  BY <1>26 DEF RollbackAndReboot, Booted
<1>27. CASE RebootIntoUpdate
  BY <1>27 DEF RebootIntoUpdate, Bootloader, Booted, BootChoice
<1>28. CASE PowerCut
  BY <1>28 DEF PowerCut, Bootloader, Booted, BootChoice
<1>29. CASE SysReset
  BY <1>29 DEF SysReset
<1>30. CASE ResetTimer
  BY <1>30 DEF ResetTimer, Bootloader, Booted, BootChoice
<1>31. CASE WindowCloses
  BY <1>31 DEF WindowCloses
<1>32. CASE ProofChanges
  BY <1>32 DEF ProofChanges
<1>33. ASSUME NEW at \in 0..Chunks, PushData(at) PROVE FlagTypes'
  BY <1>33 DEF PushData, XferAbort, ReleaseInProgress, Fault, Passive
<1>34. CASE UNCHANGED vars
  BY <1>34 DEF vars
<1> QED
  BY <1>1, <1>2, <1>3, <1>4, <1>5, <1>6, <1>7, <1>8, <1>9, <1>10, <1>11, <1>12, <1>13, <1>14, <1>15, <1>16, <1>17,
     <1>18, <1>19, <1>20, <1>21, <1>22, <1>23, <1>24, <1>25, <1>26, <1>27, <1>28, <1>29, <1>30, <1>31, <1>32,
     <1>33, <1>34 DEF Next, TaskStep, PushStep

LEMMA PlaceStep ==
    ASSUME IInv, [Next]_vars
    PROVE  PlaceTypes'
<1> USE EspOtaConstants DEF IInv, TypeOK, PlaceTypes, flash, claims, verdict, tasks, session, bounds
<1>1. CASE CmdSelf
  BY <1>1 DEF CmdSelf, Request, NothingToConfirm, MayConfirm, ClaimValidation
<1>2. CASE CmdConfirmed
  BY <1>2 DEF CmdConfirmed, MarkValid, MarkValidFails, Fault
<1>3. CASE CmdRelay
  BY <1>3 DEF CmdRelay, Request
<1>4. CASE CmdClaim
  BY <1>4 DEF CmdClaim, SlotFree, ClaimInProgress, ReleaseInProgress, Fault
<1>5. CASE CmdRefused
  BY <1>5 DEF CmdRefused, SlotFree
<1>6. CASE Downloads
  BY <1>6 DEF Downloads, Passive
<1>7. CASE Downloaded
  BY <1>7 DEF Downloaded, Passive
<1>8. CASE Verified
  BY <1>8 DEF Verified, VerifyWritten, Passive
<1>9. CASE Finished
  BY <1>9 DEF Finished, SetBootPartition, Passive
<1>10. CASE TaskFails
  BY <1>10 DEF TaskFails, ReleaseInProgress, Fault, VerifyWritten, Passive
<1>11. CASE RelayDone
  BY <1>11 DEF RelayDone, ReleaseInProgress
<1>12. CASE PushBegin
  BY <1>12 DEF PushBegin, Request, XferAbort, ReleaseInProgress
<1>13. CASE PushConfirm
  BY <1>13 DEF PushConfirm, NothingToConfirm, MayConfirm, ClaimValidation
<1>14. CASE PushConfirmed
  BY <1>14 DEF PushConfirmed, MarkValid, MarkValidFails, Fault
<1>15. CASE PushClaim
  BY <1>15 DEF PushClaim, SlotFree, ClaimInProgress, ReleaseInProgress, Fault
<1>16. CASE PushVerified
  BY <1>16 DEF PushVerified, VerifyWritten, SetBootPartition, ReleaseInProgress, Fault, Passive
<1>17. CASE PushAbort
  BY <1>17 DEF PushAbort, XferAbort, ReleaseInProgress
<1>18. CASE PushCommit
  BY <1>18 DEF PushCommit, XferAbort, ReleaseInProgress, Passive
<1>19. CASE MarkUplinkHealthy
  BY <1>19 DEF MarkUplinkHealthy, MayConfirmAutomatically, MayConfirm, ClaimValidation
<1>20. CASE UplinkConfirmed
  BY <1>20 DEF UplinkConfirmed, MarkValid, MarkValidFails, Fault
<1>21. CASE TryModemRecovery
  BY <1>21 DEF TryModemRecovery, SlotFree
<1>22. CASE FinishModemRecovery
  BY <1>22 DEF FinishModemRecovery
<1>23. CASE RollbackTick
  BY <1>23 DEF RollbackTick, ClaimValidation
<1>24. CASE RollbackFails
  BY <1>24 DEF RollbackFails, Fault
<1>25. CASE XferTick
  BY <1>25 DEF XferTick, XferAbort, ReleaseInProgress
<1>26. CASE RollbackAndReboot
  BY <1>26 DEF RollbackAndReboot, Booted
<1>27. CASE RebootIntoUpdate
  BY <1>27 DEF RebootIntoUpdate, Bootloader, Booted, BootChoice
<1>28. CASE PowerCut
  BY <1>28 DEF PowerCut, Bootloader, Booted, BootChoice
<1>29. CASE SysReset
  BY <1>29 DEF SysReset
<1>30. CASE ResetTimer
  BY <1>30 DEF ResetTimer, Bootloader, Booted, BootChoice
<1>31. CASE WindowCloses
  BY <1>31 DEF WindowCloses
<1>32. CASE ProofChanges
  BY <1>32 DEF ProofChanges
<1>33. ASSUME NEW at \in 0..Chunks, PushData(at) PROVE PlaceTypes'
  BY <1>33 DEF PushData, XferAbort, ReleaseInProgress, Fault, Passive
<1>34. CASE UNCHANGED vars
  BY <1>34 DEF vars
<1> QED
  BY <1>1, <1>2, <1>3, <1>4, <1>5, <1>6, <1>7, <1>8, <1>9, <1>10, <1>11, <1>12, <1>13, <1>14, <1>15, <1>16, <1>17,
     <1>18, <1>19, <1>20, <1>21, <1>22, <1>23, <1>24, <1>25, <1>26, <1>27, <1>28, <1>29, <1>30, <1>31, <1>32,
     <1>33, <1>34 DEF Next, TaskStep, PushStep

LEMMA CountStep ==
    ASSUME IInv, [Next]_vars
    PROVE  CountTypes'
<1> USE EspOtaConstants DEF IInv, TypeOK, CountTypes, flash, claims, verdict, tasks, session, bounds
<1>1. CASE CmdSelf
  BY <1>1 DEF CmdSelf, Request, NothingToConfirm, MayConfirm, ClaimValidation
<1>2. CASE CmdConfirmed
  BY <1>2 DEF CmdConfirmed, MarkValid, MarkValidFails, Fault
<1>3. CASE CmdRelay
  BY <1>3 DEF CmdRelay, Request
<1>4. CASE CmdClaim
  BY <1>4 DEF CmdClaim, SlotFree, ClaimInProgress, ReleaseInProgress, Fault
<1>5. CASE CmdRefused
  BY <1>5 DEF CmdRefused, SlotFree
<1>6. CASE Downloads
  BY <1>6 DEF Downloads, Passive
<1>7. CASE Downloaded
  BY <1>7 DEF Downloaded, Passive
<1>8. CASE Verified
  BY <1>8 DEF Verified, VerifyWritten, Passive
<1>9. CASE Finished
  BY <1>9 DEF Finished, SetBootPartition, Passive
<1>10. CASE TaskFails
  BY <1>10 DEF TaskFails, ReleaseInProgress, Fault, VerifyWritten, Passive
<1>11. CASE RelayDone
  BY <1>11 DEF RelayDone, ReleaseInProgress
<1>12. CASE PushBegin
  BY <1>12 DEF PushBegin, Request, XferAbort, ReleaseInProgress
<1>13. CASE PushConfirm
  BY <1>13 DEF PushConfirm, NothingToConfirm, MayConfirm, ClaimValidation
<1>14. CASE PushConfirmed
  BY <1>14 DEF PushConfirmed, MarkValid, MarkValidFails, Fault
<1>15. CASE PushClaim
  BY <1>15 DEF PushClaim, SlotFree, ClaimInProgress, ReleaseInProgress, Fault
<1>16. CASE PushVerified
  BY <1>16 DEF PushVerified, VerifyWritten, SetBootPartition, ReleaseInProgress, Fault, Passive
<1>17. CASE PushAbort
  BY <1>17 DEF PushAbort, XferAbort, ReleaseInProgress
<1>18. CASE PushCommit
  BY <1>18 DEF PushCommit, XferAbort, ReleaseInProgress, Passive
<1>19. CASE MarkUplinkHealthy
  BY <1>19 DEF MarkUplinkHealthy, MayConfirmAutomatically, MayConfirm, ClaimValidation
<1>20. CASE UplinkConfirmed
  BY <1>20 DEF UplinkConfirmed, MarkValid, MarkValidFails, Fault
<1>21. CASE TryModemRecovery
  BY <1>21 DEF TryModemRecovery, SlotFree
<1>22. CASE FinishModemRecovery
  BY <1>22 DEF FinishModemRecovery
<1>23. CASE RollbackTick
  BY <1>23 DEF RollbackTick, ClaimValidation
<1>24. CASE RollbackFails
  BY <1>24 DEF RollbackFails, Fault
<1>25. CASE XferTick
  BY <1>25 DEF XferTick, XferAbort, ReleaseInProgress
<1>26. CASE RollbackAndReboot
  BY <1>26 DEF RollbackAndReboot, Booted
<1>27. CASE RebootIntoUpdate
  BY <1>27 DEF RebootIntoUpdate, Bootloader, Booted, BootChoice
<1>28. CASE PowerCut
  BY <1>28 DEF PowerCut, Bootloader, Booted, BootChoice
<1>29. CASE SysReset
  BY <1>29 DEF SysReset
<1>30. CASE ResetTimer
  BY <1>30 DEF ResetTimer, Bootloader, Booted, BootChoice
<1>31. CASE WindowCloses
  BY <1>31 DEF WindowCloses
<1>32. CASE ProofChanges
  BY <1>32 DEF ProofChanges
<1>33. ASSUME NEW at \in 0..Chunks, PushData(at) PROVE CountTypes'
  <2>1. \/ received' = received
        \/ received = at /\ at < Chunks /\ received' = received + 1
    BY <1>33 DEF PushData, XferAbort
  <2>2. received' \in 0..Chunks
    BY <2>1
  <2>3. requests' = requests /\ restarts' = restarts
    BY <1>33 DEF PushData, Fault
  <2>4. UNCHANGED bounds \/ Fault
    BY <1>33, Zenon DEF PushData
  <2>5. faults' \in 0..MaxFaults
    BY <2>4 DEF Fault
  <2> QED
    BY <2>2, <2>3, <2>5
<1>34. CASE UNCHANGED vars
  BY <1>34 DEF vars
<1> QED
  BY <1>1, <1>2, <1>3, <1>4, <1>5, <1>6, <1>7, <1>8, <1>9, <1>10, <1>11, <1>12, <1>13, <1>14, <1>15, <1>16, <1>17,
     <1>18, <1>19, <1>20, <1>21, <1>22, <1>23, <1>24, <1>25, <1>26, <1>27, <1>28, <1>29, <1>30, <1>31, <1>32,
     <1>33, <1>34 DEF Next, TaskStep, PushStep

LEMMA ExclusiveStep ==
    ASSUME IInv, [Next]_vars
    PROVE  Exclusive'
<1> USE EspOtaConstants DEF IInv, TypeOK, Exclusive, FlagTypes, PlaceTypes, TaskWrites, PushWrites, flash, claims,
      verdict, tasks, session, bounds
<1>1. CASE CmdSelf
  BY <1>1 DEF CmdSelf, Request, NothingToConfirm, MayConfirm, ClaimValidation
<1>2. CASE CmdConfirmed
  BY <1>2 DEF CmdConfirmed, MarkValid, MarkValidFails, Fault
<1>3. CASE CmdRelay
  BY <1>3 DEF CmdRelay, Request
<1>4. CASE CmdClaim
  BY <1>4 DEF CmdClaim, SlotFree, ClaimInProgress, ReleaseInProgress, Fault
<1>5. CASE CmdRefused
  BY <1>5 DEF CmdRefused, SlotFree
<1>6. CASE Downloads
  BY <1>6 DEF Downloads, Passive
<1>7. CASE Downloaded
  BY <1>7 DEF Downloaded, Passive
<1>8. CASE Verified
  BY <1>8 DEF Verified, VerifyWritten, Passive
<1>9. CASE Finished
  BY <1>9 DEF Finished, SetBootPartition, Passive
<1>10. CASE TaskFails
  BY <1>10 DEF TaskFails, ReleaseInProgress, Fault, VerifyWritten, Passive
<1>11. CASE RelayDone
  BY <1>11 DEF RelayDone, ReleaseInProgress
<1>12. CASE PushBegin
  BY <1>12 DEF PushBegin, Request, XferAbort, ReleaseInProgress
<1>13. CASE PushConfirm
  BY <1>13 DEF PushConfirm, NothingToConfirm, MayConfirm, ClaimValidation
<1>14. CASE PushConfirmed
  BY <1>14 DEF PushConfirmed, MarkValid, MarkValidFails, Fault
<1>15. CASE PushClaim
  BY <1>15 DEF PushClaim, SlotFree, ClaimInProgress, ReleaseInProgress, Fault
<1>16. CASE PushVerified
  <2>1. push = "verify"
        /\ UNCHANGED <<cmd, task, supervisor, heartbeat, xferOpen, validationBusy, modemBusy>>
    BY <1>16 DEF PushVerified, ReleaseInProgress
  <2>2. \/ push' = "reboot" /\ inProgress' = inProgress
        \/ push' = "idle" /\ inProgress' = FALSE
    BY <1>16 DEF PushVerified, ReleaseInProgress
  <2> QED
    BY <2>1, <2>2
<1>17. CASE PushAbort
  BY <1>17 DEF PushAbort, XferAbort, ReleaseInProgress
<1>18. CASE PushCommit
  <2>1. push = "idle" /\ xferOpen /\ xferOpen' = FALSE
    BY <1>18 DEF PushCommit, XferAbort
  <2>2. UNCHANGED <<cmd, task, supervisor, heartbeat, validationBusy, modemBusy>>
    BY <1>18 DEF PushCommit, XferAbort, ReleaseInProgress
  <2>3. \/ push' = "verify" /\ inProgress' = inProgress
        \/ push' = push /\ inProgress' = FALSE
    BY <1>18 DEF PushCommit, XferAbort, ReleaseInProgress
  <2> QED
    BY <2>1, <2>2, <2>3
<1>19. CASE MarkUplinkHealthy
  BY <1>19 DEF MarkUplinkHealthy, MayConfirmAutomatically, MayConfirm, ClaimValidation
<1>20. CASE UplinkConfirmed
  BY <1>20 DEF UplinkConfirmed, MarkValid, MarkValidFails, Fault
<1>21. CASE TryModemRecovery
  BY <1>21 DEF TryModemRecovery, SlotFree
<1>22. CASE FinishModemRecovery
  BY <1>22 DEF FinishModemRecovery
<1>23. CASE RollbackTick
  BY <1>23 DEF RollbackTick, ClaimValidation
<1>24. CASE RollbackFails
  BY <1>24 DEF RollbackFails, Fault
<1>25. CASE XferTick
  BY <1>25 DEF XferTick, XferAbort, ReleaseInProgress
<1>26. CASE RollbackAndReboot
  BY <1>26 DEF RollbackAndReboot, Booted
<1>27. CASE RebootIntoUpdate
  BY <1>27 DEF RebootIntoUpdate, Bootloader, Booted, BootChoice
<1>28. CASE PowerCut
  BY <1>28 DEF PowerCut, Bootloader, Booted, BootChoice
<1>29. CASE SysReset
  BY <1>29 DEF SysReset
<1>30. CASE ResetTimer
  BY <1>30 DEF ResetTimer, Bootloader, Booted, BootChoice
<1>31. CASE WindowCloses
  BY <1>31 DEF WindowCloses
<1>32. CASE ProofChanges
  BY <1>32 DEF ProofChanges
<1>33. ASSUME NEW at \in 0..Chunks, PushData(at) PROVE Exclusive'
  <2>1. push = "idle" /\ xferOpen /\ UNCHANGED <<tasks, validationBusy, modemBusy>>
    BY <1>33 DEF PushData, XferAbort, ReleaseInProgress
  <2>2. \/ xferOpen' = xferOpen /\ inProgress' = inProgress
        \/ xferOpen' = FALSE /\ inProgress' = FALSE
    BY <1>33 DEF PushData, XferAbort, ReleaseInProgress
  <2> QED
    BY <2>1, <2>2
<1>34. CASE UNCHANGED vars
  BY <1>34 DEF vars
<1> QED
  BY <1>1, <1>2, <1>3, <1>4, <1>5, <1>6, <1>7, <1>8, <1>9, <1>10, <1>11, <1>12, <1>13, <1>14, <1>15, <1>16, <1>17,
     <1>18, <1>19, <1>20, <1>21, <1>22, <1>23, <1>24, <1>25, <1>26, <1>27, <1>28, <1>29, <1>30, <1>31, <1>32,
     <1>33, <1>34 DEF Next, TaskStep, PushStep

\* What a restart leaves: an intact image runs, and if it is on trial the
\* other slot is intact and was confirmed.
LEMMA Restarted ==
    ASSUME IInv, NEW data \in [Slots -> States], NEW slot \in Slots, Booted(data, slot),
           content[slot] = "good", data[slot] \in {"undefined", "new", "valid"},
           data[slot] = "new" => /\ content[Other(slot)] = "good"
                                 /\ data[Other(slot)] \in {"undefined", "valid"}
    PROVE  Guarded' /\ Selected'
<1> USE DEF IInv, TypeOK, FlashTypes, Booted
<1>1. /\ otadata' = [data EXCEPT ![slot] = IF @ = "new" THEN "pending" ELSE @]
      /\ content' = content /\ running' = slot /\ boot' = slot
      /\ task' = "none" /\ push' = "idle" /\ cmd' = "idle" /\ heartbeat' = "idle"
      /\ xferOpen' = FALSE
  OBVIOUS
<1>2. pendingVerify' <=> data[slot] = "new"
  OBVIOUS
<1>3. otadata'[slot] = IF data[slot] = "new" THEN "pending" ELSE data[slot]
  BY <1>1
<1>4. otadata'[Other(slot)] = data[Other(slot)]
  BY <1>1
<1>5. Guarded'
  BY <1>1, <1>2, <1>3, <1>4 DEF Guarded, TaskWrites, PushWrites
<1>6. Selected'
  BY <1>1, <1>3 DEF Selected
<1> QED
  BY <1>5, <1>6

\* The bootloader's choice meets what Restarted asks for.
LEMMA BootloaderRestarts ==
    ASSUME IInv, Bootloader
    PROVE  Guarded' /\ Selected'
<1> DEFINE data == [otadata EXCEPT ![boot] = IF @ = "pending" THEN "invalid" ELSE @]
<1> USE DEF IInv, TypeOK, FlashTypes, States
<1>1. data \in [Slots -> States] /\ BootChoice \in Slots
  BY DEF BootChoice
<1>2. Booted(data, BootChoice)
  BY DEF Bootloader
<1>3. CASE boot # running
  <2>1. /\ otadata[boot] = "new" /\ content[boot] = "good" /\ running = Other(boot)
        /\ content[running] = "good" /\ otadata[running] \in {"undefined", "valid"}
    BY <1>3 DEF Selected, Guarded, PushWrites
  <2>2. BootChoice = boot /\ data[boot] = "new" /\ data[Other(boot)] = otadata[running]
    BY <2>1 DEF BootChoice
  <2> QED
    BY <1>1, <1>2, <2>1, <2>2, Restarted
<1>4. CASE boot = running /\ pendingVerify
  <2>1. /\ otadata[boot] = "pending" /\ content[Other(boot)] = "good"
        /\ otadata[Other(boot)] \in {"undefined", "valid"}
    BY <1>4 DEF Guarded
  <2>2. BootChoice = Other(boot) /\ data[Other(boot)] = otadata[Other(boot)]
    BY <2>1 DEF BootChoice
  <2> QED
    BY <1>1, <1>2, <2>1, <2>2, Restarted
<1>5. CASE boot = running /\ ~pendingVerify
  <2>1. content[boot] = "good" /\ otadata[boot] \in {"undefined", "valid"}
    BY <1>5 DEF Selected, Guarded
  <2>2. BootChoice = boot /\ data[boot] = otadata[boot]
    BY <2>1 DEF BootChoice
  <2> QED
    BY <1>1, <1>2, <2>1, <2>2, Restarted
<1> QED
  BY <1>3, <1>4, <1>5

LEMMA RollbackRestarts ==
    ASSUME IInv, RollbackAndReboot
    PROVE  Guarded' /\ Selected'
<1> DEFINE data == [otadata EXCEPT ![running] = "invalid"]
<1> USE DEF IInv, TypeOK, FlashTypes, States
<1>1. data \in [Slots -> States] /\ Other(running) \in Slots
  OBVIOUS
<1>2. Booted(data, Other(running))
  BY DEF RollbackAndReboot
<1>3. /\ content[Other(running)] = "good"
      /\ data[Other(running)] \in {"undefined", "valid"}
  BY DEF RollbackAndReboot, Guarded
<1> QED
  BY <1>1, <1>2, <1>3, Restarted

LEMMA GuardedStep ==
    ASSUME IInv, [Next]_vars
    PROVE  Guarded'
<1> USE EspOtaConstants DEF IInv, TypeOK, Exclusive, Guarded, Selected, TypeOK, FlashTypes, FlagTypes, PlaceTypes,
      Contents, States, TaskWrites, PushWrites, flash, claims, verdict, tasks, session, bounds
<1>1. CASE CmdSelf
  BY <1>1 DEF CmdSelf, Request, NothingToConfirm, MayConfirm, ClaimValidation
<1>2. CASE CmdConfirmed
  BY <1>2 DEF CmdConfirmed, MarkValid, MarkValidFails, Fault
<1>3. CASE CmdRelay
  BY <1>3 DEF CmdRelay, Request
<1>4. CASE CmdClaim
  BY <1>4 DEF CmdClaim, SlotFree, ClaimInProgress, ReleaseInProgress, Fault
<1>5. CASE CmdRefused
  BY <1>5 DEF CmdRefused, SlotFree
<1>6. CASE Downloads
  BY <1>6 DEF Downloads, Passive
<1>7. CASE Downloaded
  BY <1>7 DEF Downloaded, Passive
<1>8. CASE Verified
  BY <1>8 DEF Verified, VerifyWritten, Passive
<1>9. CASE Finished
  BY <1>9 DEF Finished, SetBootPartition, Passive
<1>10. CASE TaskFails
  BY <1>10 DEF TaskFails, ReleaseInProgress, Fault, VerifyWritten, Passive
<1>11. CASE RelayDone
  BY <1>11 DEF RelayDone, ReleaseInProgress
<1>12. CASE PushBegin
  BY <1>12 DEF PushBegin, Request, XferAbort, ReleaseInProgress
<1>13. CASE PushConfirm
  BY <1>13 DEF PushConfirm, NothingToConfirm, MayConfirm, ClaimValidation
<1>14. CASE PushConfirmed
  BY <1>14 DEF PushConfirmed, MarkValid, MarkValidFails, Fault
<1>15. CASE PushClaim
  BY <1>15 DEF PushClaim, SlotFree, ClaimInProgress, ReleaseInProgress, Fault
<1>16. CASE PushVerified
  BY <1>16 DEF PushVerified, VerifyWritten, SetBootPartition, ReleaseInProgress, Fault, Passive
<1>17. CASE PushAbort
  BY <1>17 DEF PushAbort, XferAbort, ReleaseInProgress
<1>18. CASE PushCommit
  BY <1>18 DEF PushCommit, XferAbort, ReleaseInProgress, Passive
<1>19. CASE MarkUplinkHealthy
  BY <1>19 DEF MarkUplinkHealthy, MayConfirmAutomatically, MayConfirm, ClaimValidation
<1>20. CASE UplinkConfirmed
  BY <1>20 DEF UplinkConfirmed, MarkValid, MarkValidFails, Fault
<1>21. CASE TryModemRecovery
  BY <1>21 DEF TryModemRecovery, SlotFree
<1>22. CASE FinishModemRecovery
  BY <1>22 DEF FinishModemRecovery
<1>23. CASE RollbackTick
  BY <1>23 DEF RollbackTick, ClaimValidation
<1>24. CASE RollbackFails
  BY <1>24 DEF RollbackFails, Fault
<1>25. CASE XferTick
  BY <1>25 DEF XferTick, XferAbort, ReleaseInProgress
<1>26. CASE RollbackAndReboot
  BY <1>26, RollbackRestarts
<1>27. CASE RebootIntoUpdate
  BY <1>27, BootloaderRestarts DEF RebootIntoUpdate
<1>28. CASE PowerCut
  BY <1>28, BootloaderRestarts DEF PowerCut
<1>29. CASE SysReset
  BY <1>29 DEF SysReset
<1>30. CASE ResetTimer
  BY <1>30, BootloaderRestarts DEF ResetTimer
<1>31. CASE WindowCloses
  BY <1>31 DEF WindowCloses
<1>32. CASE ProofChanges
  BY <1>32 DEF ProofChanges
<1>33. ASSUME NEW at \in 0..Chunks, PushData(at) PROVE Guarded'
  BY <1>33 DEF PushData, XferAbort, ReleaseInProgress, Fault, Passive
<1>34. CASE UNCHANGED vars
  BY <1>34 DEF vars
<1> QED
  BY <1>1, <1>2, <1>3, <1>4, <1>5, <1>6, <1>7, <1>8, <1>9, <1>10, <1>11, <1>12, <1>13, <1>14, <1>15, <1>16, <1>17,
     <1>18, <1>19, <1>20, <1>21, <1>22, <1>23, <1>24, <1>25, <1>26, <1>27, <1>28, <1>29, <1>30, <1>31, <1>32,
     <1>33, <1>34 DEF Next, TaskStep, PushStep

LEMMA SelectedStep ==
    ASSUME IInv, [Next]_vars
    PROVE  Selected'
<1> USE EspOtaConstants DEF IInv, TypeOK, Exclusive, Guarded, Selected, FlashTypes, FlagTypes, PlaceTypes, Contents,
      States, TaskWrites, PushWrites, flash, claims, verdict, tasks, session, bounds
<1>1. CASE CmdSelf
  BY <1>1 DEF CmdSelf, Request, NothingToConfirm, MayConfirm, ClaimValidation
<1>2. CASE CmdConfirmed
  BY <1>2 DEF CmdConfirmed, MarkValid, MarkValidFails, Fault
<1>3. CASE CmdRelay
  BY <1>3 DEF CmdRelay, Request
<1>4. CASE CmdClaim
  BY <1>4 DEF CmdClaim, SlotFree, ClaimInProgress, ReleaseInProgress, Fault
<1>5. CASE CmdRefused
  BY <1>5 DEF CmdRefused, SlotFree
<1>6. CASE Downloads
  BY <1>6 DEF Downloads, Passive
<1>7. CASE Downloaded
  BY <1>7 DEF Downloaded, Passive
<1>8. CASE Verified
  BY <1>8 DEF Verified, VerifyWritten, Passive
<1>9. CASE Finished
  BY <1>9 DEF Finished, SetBootPartition, Passive
<1>10. CASE TaskFails
  BY <1>10 DEF TaskFails, ReleaseInProgress, Fault, VerifyWritten, Passive
<1>11. CASE RelayDone
  BY <1>11 DEF RelayDone, ReleaseInProgress
<1>12. CASE PushBegin
  BY <1>12 DEF PushBegin, Request, XferAbort, ReleaseInProgress
<1>13. CASE PushConfirm
  BY <1>13 DEF PushConfirm, NothingToConfirm, MayConfirm, ClaimValidation
<1>14. CASE PushConfirmed
  BY <1>14 DEF PushConfirmed, MarkValid, MarkValidFails, Fault
<1>15. CASE PushClaim
  BY <1>15 DEF PushClaim, SlotFree, ClaimInProgress, ReleaseInProgress, Fault
<1>16. CASE PushVerified
  <2>1. push = "verify" /\ task = "none" /\ UNCHANGED <<content, running, task>>
    BY <1>16 DEF PushVerified, SetBootPartition
  <2>2. \/ /\ push' = "reboot" /\ content[Passive] = "good" /\ boot' = Passive
           /\ otadata' = [otadata EXCEPT ![Passive] = "new"]
        \/ push' = "idle" /\ UNCHANGED <<boot, otadata>>
    BY <1>16 DEF PushVerified, SetBootPartition, VerifyWritten
  <2>3. otadata'[running] = otadata[running] /\ (push' = "reboot" => otadata'[Passive] = "new")
    BY <2>1, <2>2 DEF Passive
  <2> QED
    BY <2>1, <2>2, <2>3 DEF Passive
<1>17. CASE PushAbort
  BY <1>17 DEF PushAbort, XferAbort, ReleaseInProgress
<1>18. CASE PushCommit
  <2>1. xferOpen /\ push = "idle" /\ push' \in {"idle", "verify"}
        /\ UNCHANGED <<otadata, boot, running, task>>
    BY <1>18 DEF PushCommit
  <2>2. content' = content \/ \E bytes \in Contents : content' = [content EXCEPT ![Passive] = bytes]
    BY <1>18 DEF PushCommit
  <2>3. content'[running] = content[running]
    BY <2>2 DEF Passive
  <2> QED
    BY <2>1, <2>3
<1>19. CASE MarkUplinkHealthy
  BY <1>19 DEF MarkUplinkHealthy, MayConfirmAutomatically, MayConfirm, ClaimValidation
<1>20. CASE UplinkConfirmed
  BY <1>20 DEF UplinkConfirmed, MarkValid, MarkValidFails, Fault
<1>21. CASE TryModemRecovery
  BY <1>21 DEF TryModemRecovery, SlotFree
<1>22. CASE FinishModemRecovery
  BY <1>22 DEF FinishModemRecovery
<1>23. CASE RollbackTick
  BY <1>23 DEF RollbackTick, ClaimValidation
<1>24. CASE RollbackFails
  BY <1>24 DEF RollbackFails, Fault
<1>25. CASE XferTick
  BY <1>25 DEF XferTick, XferAbort, ReleaseInProgress
<1>26. CASE RollbackAndReboot
  BY <1>26, RollbackRestarts
<1>27. CASE RebootIntoUpdate
  BY <1>27, BootloaderRestarts DEF RebootIntoUpdate
<1>28. CASE PowerCut
  BY <1>28, BootloaderRestarts DEF PowerCut
<1>29. CASE SysReset
  BY <1>29 DEF SysReset
<1>30. CASE ResetTimer
  BY <1>30, BootloaderRestarts DEF ResetTimer
<1>31. CASE WindowCloses
  BY <1>31 DEF WindowCloses
<1>32. CASE ProofChanges
  BY <1>32 DEF ProofChanges
<1>33. ASSUME NEW at \in 0..Chunks, PushData(at) PROVE Selected'
  <2>1. xferOpen /\ push = "idle" /\ UNCHANGED <<otadata, boot, running, tasks>>
    BY <1>33 DEF PushData
  <2>2. content' = content \/ content' = [content EXCEPT ![Passive] = "torn"]
    BY <1>33 DEF PushData
  <2>3. content'[running] = content[running]
    BY <2>2 DEF Passive
  <2> QED
    BY <2>1, <2>3
<1>34. CASE UNCHANGED vars
  BY <1>34 DEF vars
<1> QED
  BY <1>1, <1>2, <1>3, <1>4, <1>5, <1>6, <1>7, <1>8, <1>9, <1>10, <1>11, <1>12, <1>13, <1>14, <1>15, <1>16, <1>17,
     <1>18, <1>19, <1>20, <1>21, <1>22, <1>23, <1>24, <1>25, <1>26, <1>27, <1>28, <1>29, <1>30, <1>31, <1>32,
     <1>33, <1>34 DEF Next, TaskStep, PushStep

LEMMA InitIInv == Init => IInv
<1> SUFFICES ASSUME Init PROVE IInv
  OBVIOUS
<1> USE EspOtaConstants DEF Init, TaskWrites, PushWrites
<1>1. FlashTypes
  BY DEF FlashTypes, Contents, States
<1>2. FlagTypes /\ PlaceTypes
  BY DEF FlagTypes, PlaceTypes
<1>3. CountTypes
  BY DEF CountTypes
<1>4. Exclusive
  BY DEF Exclusive
<1>5. Guarded /\ Selected
  BY DEF Guarded, Selected
<1> QED
  BY <1>1, <1>2, <1>3, <1>4, <1>5 DEF IInv, TypeOK

LEMMA StepIInv == IInv /\ [Next]_vars => IInv'
<1> SUFFICES ASSUME IInv, [Next]_vars PROVE IInv'
  OBVIOUS
<1>1. TypeOK'
  BY FlashStep, FlagStep, PlaceStep, CountStep DEF TypeOK
<1> QED
  BY <1>1, ExclusiveStep, GuardedStep, SelectedStep DEF IInv

LEMMA Inductive == Spec => []IInv
  BY InitIInv, StepIInv, PTL DEF Spec

\* Every variable of the update slot keeps its type for any number of requests,
\* restarts and faults: fw_ota_xfer_on_req never counts past its image.
THEOREM TypeCorrect == Spec => []TypeOK
<1>1. IInv => TypeOK
  BY DEF IInv
<1> QED
  BY <1>1, Inductive, PTL

\* The claims under s_claim_mux have at most one owner among the five tasks,
\* and are held exactly as long as they are owned.
THEOREM ClaimsAlwaysOwned == Spec => []ClaimsOwned
<1>1. IInv => ClaimsOwned
  <2> SUFFICES ASSUME IInv PROVE ClaimsOwned
    OBVIOUS
  <2> USE DEF IInv, TypeOK, FlagTypes, Exclusive, TaskWrites, PushWrites
  <2>1. Writers # {} <=> TaskWrites \/ PushWrites
    BY DEF Writers
  <2>2. Deciders # {} <=> validationBusy
    BY DEF Deciders
  <2>3. \A a, b \in Writers : a = b
    BY DEF Writers
  <2>4. \A a, b \in Deciders : a = b
    BY DEF Deciders
  <2>5. \A a, b \in Writers \cup Deciders : a = b
    BY <2>1, <2>2, <2>3, <2>4
  <2> QED
    BY <2>1, <2>2, <2>5 DEF ClaimsOwned
<1> QED
  BY <1>1, Inductive, PTL

\* Whenever the chip restarts the bootloader finds a complete verified image,
\* and a rollback goes to one: the brick guards of fw_ota_request and xfer_begin
\* protect the slot a pending image falls back to.
THEOREM AlwaysBootable == Spec => []Bootable
<1>1. IInv => Bootable
  <2> SUFFICES ASSUME IInv PROVE Bootable
    OBVIOUS
  <2> USE DEF IInv, TypeOK, FlashTypes
  <2>1. CASE boot # running
    <3>1. otadata[boot] = "new" /\ content[boot] = "good" /\ ~pendingVerify
      BY <2>1 DEF Selected, Guarded, PushWrites
    <3> QED
      BY <3>1 DEF Bootable, BootChoice, Guarded
  <2>2. CASE boot = running
    BY <2>2 DEF Bootable, BootChoice, Guarded, Selected
  <2> QED
    BY <2>1, <2>2
<1> QED
  BY <1>1, Inductive, PTL

\* The update slot is never written by two, and the chip always restarts into a
\* whole image, for any number of updates, restarts and flash faults.
THEOREM SlotAlwaysSound == Spec => []SlotSound
<1>1. ClaimsOwned /\ Bootable => SlotSound
  BY DEF SlotSound
<1> QED
  BY <1>1, ClaimsAlwaysOwned, AlwaysBootable, PTL

-----------------------------------------------------------------------------
(* The download (OtaDownload)                                              *)

GetTypes ==
    /\ Get!TypeOK /\ fallback \in BOOLEAN /\ selected \in BOOLEAN /\ dropped \in BOOLEAN
    /\ checkpoint \in 0..ImageLen /\ offset \in 0..ImageLen /\ object \in 1..2
    /\ DOMAIN lib = {"resumption", "pos", "state"} /\ lib.resumption \in BOOLEAN /\ lib.pos \in Nat
    /\ DOMAIN body = {"ver", "from", "left"} /\ body.ver \in 0..2 /\ body.from \in Nat /\ body.left \in Nat
    /\ DOMAIN update = 0..(ImageLen - 1)

\* A connection is asked for what comes after the checkpoint, or for everything
\* once the server has refused that; what it delivers belongs where the library
\* writes it next; what was verified is not written any more.
GetInv ==
    /\ GetTypes
    /\ pc = "connect" =>
          /\ offset = checkpoint /\ (lib.pos = offset \/ lib.pos = 0)
          /\ offset # 0 /\ ~lib.resumption => fallback
          /\ offset = 0 => lib.pos = 0
    /\ pc = "perform" =>
          /\ lib.state \in {"begin", "resume", "progress"} /\ lib.pos = checkpoint /\ body.from = checkpoint
          /\ lib.state = "begin" => checkpoint = 0
          /\ body.ver # 0
    /\ pc = "finish" => Get!Matches
    /\ selected => pc = "restart"
    /\ Get!PrefixRight /\ Get!BootsExact /\ Get!KeepsProgress

LEMMA Sizes == /\ ImageLen \in Nat \ {0} /\ Header \in Nat \ {0} /\ ResumeMin \in Nat \ {0} /\ MaxAttempts \in Nat \ {0}
               /\ TimeCap \in Nat \ {0} /\ StallLimit \in Nat \ {0} /\ Buffer \in Nat \ {0} /\ MaxHops \in Nat
  BY GetConstants DEF Get!OtaDownloadConstants

\* What a header makes of what is known of a response.
LEMMA HeaderStep ==
  ASSUME NEW r, DOMAIN r = {"status", "invalid", "lengths", "ranges", "length", "first", "last", "total"}, NEW h
  PROVE  LET s == Get!fw_ota_http_header(r, h) IN
         /\ DOMAIN s = DOMAIN r /\ s.status = r.status
         /\ h.key \in {"encoding", "transfer", "garbled"} => s.invalid = TRUE
         /\ h.key = "length" => s.ranges = r.ranges /\ s.first = r.first
         /\ h.key = "range" /\ r.ranges = 0 => s.ranges = 1 /\ s.first = h.first
         /\ h.key = "plain" => s = r
<1> PICK s : s = Get!fw_ota_http_header(r, h)
  OBVIOUS
<1>1. CASE h.key = "length"
  BY <1>1 DEF Get!fw_ota_http_header
<1>2. CASE h.key = "range"
  BY <1>2 DEF Get!fw_ota_http_header
<1>3. CASE h.key \in {"encoding", "transfer", "garbled"}
  BY <1>3 DEF Get!fw_ota_http_header
<1>4. CASE h.key \notin {"length", "range", "encoding", "transfer", "garbled"}
  BY <1>4 DEF Get!fw_ota_http_header
<1> QED
  BY <1>1, <1>2, <1>3, <1>4

\* The response of an answer with these two headers.
LEMMA ResponseIs ==
  ASSUME NEW a
  PROVE  /\ Get!Response(a).status = a.status
         /\ a.headers[2].key = "garbled" => Get!Response(a).invalid = TRUE
         /\ a.headers[1].key = "length" /\ a.headers[2].key = "range"
               => Get!Response(a).ranges = 1 /\ Get!Response(a).first = a.headers[2].first
<1>0. PICK g, h : g = a.headers[1] /\ h = a.headers[2]
  OBVIOUS
<1>1. PICK z : z = Get!NoResponse(a.status)
  OBVIOUS
<1>2. /\ DOMAIN z = {"status", "invalid", "lengths", "ranges", "length", "first", "last", "total"}
      /\ z.status = a.status /\ z.ranges = 0
  BY <1>1 DEF Get!NoResponse
<1>3. PICK y : y = Get!fw_ota_http_header(z, g)
  OBVIOUS
<1>4. /\ DOMAIN y = {"status", "invalid", "lengths", "ranges", "length", "first", "last", "total"} /\ y.status = z.status
      /\ g.key = "length" => y.ranges = z.ranges
  BY <1>2, <1>3, HeaderStep
<1>5. PICK x : x = Get!fw_ota_http_header(y, h)
  OBVIOUS
<1>6. /\ x.status = y.status
      /\ h.key \in {"encoding", "transfer", "garbled"} => x.invalid = TRUE
      /\ h.key = "range" /\ y.ranges = 0 => x.ranges = 1 /\ x.first = h.first
  BY ONLY <1>4, <1>5, HeaderStep, ZenonT(60)
<1>7. Get!Response(a) = x
  BY <1>0, <1>1, <1>3, <1>5 DEF Get!Response
<1> QED
  BY <1>0, <1>2, <1>4, <1>6, <1>7

\* What is accepted of an answer delivers the bytes that were asked for.
LEMMA AcceptedFits ==
  ASSUME GetInv, pc = "connect", NEW a \in Get!Answers(lib.resumption, lib.pos),
         Get!fw_ota_http_response_valid(Get!Response(a), offset)
  PROVE  a.from = offset /\ lib.pos = offset /\ a.count \in Nat
<1> USE GetConstants DEF Get!OtaDownloadConstants
<1>1. offset \in 0..ImageLen /\ lib.pos \in Nat /\ (lib.pos = offset \/ lib.pos = 0) /\ (offset = 0 => lib.pos = 0)
      /\ offset < ImageLen /\ ImageLen \in Nat
  BY DEF GetInv, GetTypes, Get!fw_ota_http_response_valid
<1>2. PICK r : r = Get!Response(a) /\ ~r.invalid
        /\ (IF offset = 0 THEN r.status = 200 /\ r.ranges = 0 ELSE r.status = 206 /\ r.ranges = 1 /\ r.first = offset)
  BY DEF Get!fw_ota_http_response_valid
<1>3. CASE a \in {Get!Full(ImageLen), Get!Full(ImageLen + 1)}
  <2>1. a.status = 200 /\ a.from = 0 /\ a.count \in Nat
    BY <1>1, <1>3 DEF Get!Full, Get!Answer, Get!LengthIs, Get!Plain, Get!Other
  <2>3. r.status = 200
    BY <1>2, <2>1, ResponseIs
  <2> QED
    BY <1>1, <1>2, <2>1, <2>3
<1>4. CASE a \in {Get!Answer(200, 0, ImageLen, <<Get!LengthIs(ImageLen), Get!LengthIs(ImageLen)>>),
                  Get!Answer(200, 0, ImageLen, <<Get!Other("transfer"), Get!Plain>>),
                  Get!Answer(200, 0, ImageLen, <<Get!LengthIs(ImageLen), Get!Other("encoding")>>)}
  <2>1. a.status = 200 /\ a.from = 0 /\ a.count \in Nat
    BY <1>1, <1>4 DEF Get!Answer
  <2>3. r.status = 200
    BY <1>2, <2>1, ResponseIs
  <2> QED
    BY <1>1, <1>2, <2>1, <2>3
<1>5. CASE a \in {Get!Empty(404), Get!Empty(503), Get!Empty(416)}
  <2>1. a.status \in {404, 503, 416}
    BY <1>5 DEF Get!Empty, Get!Answer
  <2>3. r.status \in {404, 503, 416}
    BY <1>2, <2>1, ResponseIs, ZenonT(60)
  <2> QED
    BY <1>2, <2>3
<1>6. ASSUME NEW f \in Nat, NEW n \in Int, NEW t, a = Get!Part(f, n, t), f = 0 \/ f = lib.pos
      PROVE  a.from = offset /\ lib.pos = offset /\ a.count = n
  <2>1. a.status = 206 /\ a.from = f /\ a.count = n
        /\ \E l : a.headers = <<[key |-> "length", n |-> n], [key |-> "range", first |-> f, last |-> l, total |-> t]>>
    BY <1>6 DEF Get!Part, Get!Answer, Get!LengthIs, Get!RangeIs
  <2>2. a.headers[1].key = "length" /\ a.headers[2].key = "range" /\ a.headers[2].first = f
    BY <2>1
  <2>3. r.status = 206 /\ r.ranges = 1 /\ r.first = f
    BY <1>2, <2>1, <2>2, ResponseIs
  <2> QED
    BY <1>1, <1>2, <1>6, <2>1, <2>3
<1>7. CASE a \in {Get!Part(lib.pos, ImageLen - lib.pos, ImageLen), Get!Part(lib.pos, ImageLen - lib.pos - 1, ImageLen),
                  Get!Part(0, ImageLen - lib.pos, ImageLen), Get!Part(lib.pos, ImageLen - lib.pos, ImageLen + 1)}
  <2>1. ImageLen - lib.pos \in Nat /\ ImageLen - lib.pos - 1 \in Nat
    BY <1>1
  <2>2. CASE a = Get!Part(lib.pos, ImageLen - lib.pos, ImageLen)
    BY <1>1, <1>6, <2>1, <2>2
  <2>3. CASE a = Get!Part(lib.pos, ImageLen - lib.pos - 1, ImageLen)
    BY <1>1, <1>6, <2>1, <2>3
  <2>4. CASE a = Get!Part(0, ImageLen - lib.pos, ImageLen)
    BY <1>1, <1>6, <2>1, <2>4
  <2>5. CASE a = Get!Part(lib.pos, ImageLen - lib.pos, ImageLen + 1)
    BY <1>1, <1>6, <2>1, <2>5
  <2> QED
    BY <1>7, <2>2, <2>3, <2>4, <2>5
<1>8. CASE a = Get!Answer(206, lib.pos, ImageLen - lib.pos, <<Get!LengthIs(ImageLen - lib.pos), Get!Other("garbled")>>)
  <2>1. a.headers[2].key = "garbled"
    BY <1>8 DEF Get!Answer, Get!Other
  <2>2. r.invalid = TRUE
    BY <1>2, <2>1, ResponseIs
  <2> QED
    BY <1>2, <2>2
<1>9. \/ a \in {Get!Full(ImageLen), Get!Full(ImageLen + 1)}
      \/ a \in {Get!Answer(200, 0, ImageLen, <<Get!LengthIs(ImageLen), Get!LengthIs(ImageLen)>>),
                Get!Answer(200, 0, ImageLen, <<Get!Other("transfer"), Get!Plain>>),
                Get!Answer(200, 0, ImageLen, <<Get!LengthIs(ImageLen), Get!Other("encoding")>>)}
      \/ a \in {Get!Empty(404), Get!Empty(503), Get!Empty(416)}
      \/ a \in {Get!Part(lib.pos, ImageLen - lib.pos, ImageLen), Get!Part(lib.pos, ImageLen - lib.pos - 1, ImageLen),
                Get!Part(0, ImageLen - lib.pos, ImageLen), Get!Part(lib.pos, ImageLen - lib.pos, ImageLen + 1)}
      \/ a = Get!Answer(206, lib.pos, ImageLen - lib.pos, <<Get!LengthIs(ImageLen - lib.pos), Get!Other("garbled")>>)
  BY DEF Get!Answers
<1> QED
  BY <1>3, <1>4, <1>5, <1>7, <1>8, <1>9

\* The statuses there are.
LEMMA Statuses == ASSUME NEW b \in BOOLEAN, NEW p, NEW a \in Get!Answers(b, p) PROVE a.status \in {200, 206, 404, 416, 503}
  BY DEF Get!Answers, Get!Full, Get!Part, Get!Empty, Get!Answer

LEMMA LaterIn == ASSUME GetInv, Get!Later(now') PROVE now' \in 0..TimeCap
  BY GetConstants, SMTT(60) DEF Get!Later, GetInv, GetTypes, Get!TypeOK, Get!OtaDownloadConstants

\* An attempt that ends keeps the checkpoint, unless the server refused to go on
\* from there.
LEMMA FailsStep ==
  ASSUME GetInv, pc \in {"connect", "perform"}, now' \in 0..TimeCap, NEW retry, NEW kept,
         kept = checkpoint \/ (kept = 0 /\ (fallback \/ checkpoint = 0)), Get!AttemptFails(retry, kept)
  PROVE  GetInv'
<1>1. /\ checkpoint' = kept /\ lib' = Get!NoHandle /\ body' = Get!NoBody /\ pc' \in {"failed", "attempt"}
      /\ UNCHANGED <<offset, fallback, idle, update, selected, object, hops>>
      /\ (pc' = "attempt" => attempt < MaxAttempts) /\ attempt' \in {attempt, attempt + 1}
      /\ attempt' # attempt => attempt < MaxAttempts
  BY DEF Get!AttemptFails, Get!Fails, Get!esp_https_ota_abort, Get!NextAttempt
<1>2. dropped' = FALSE
  BY DEF Get!AttemptFails, Get!Fails, GetInv, GetTypes, Get!KeepsProgress
<1>3. checkpoint' \in 0..checkpoint /\ checkpoint' \in 0..ImageLen
  BY <1>1, Sizes DEF GetInv, GetTypes
<1>4. GetTypes'
  <2>1. attempt' \in 1..MaxAttempts
    BY <1>1, GetConstants, SMTT(60) DEF GetInv, GetTypes, Get!TypeOK, Get!OtaDownloadConstants
  <2>2. /\ DOMAIN lib' = {"resumption", "pos", "state"} /\ lib'.resumption \in BOOLEAN /\ lib'.pos \in Nat
        /\ DOMAIN body' = {"ver", "from", "left"} /\ body'.ver \in 0..2 /\ body'.from \in Nat /\ body'.left \in Nat
    BY <1>1 DEF Get!NoHandle, Get!Handle, Get!NoBody
  <2> QED
    BY <1>1, <1>2, <1>3, <2>1, <2>2 DEF GetInv, GetTypes, Get!TypeOK
<1>5. Get!PrefixRight'
  BY <1>1, <1>3 DEF GetInv, GetTypes, Get!PrefixRight
<1>6. ~selected' /\ pc' \notin {"connect", "perform", "finish"}
  BY <1>1 DEF GetInv
<1> QED
  BY <1>2, <1>4, <1>5, <1>6 DEF GetInv, Get!BootsExact, Get!KeepsProgress

LEMMA ConnectStep == ASSUME GetInv, Get!Attempt \/ Get!NoConnection \/ Get!Redirected \/ Get!Answered PROVE GetInv'
<1>1. CASE Get!Attempt
  <2>1. CASE Get!Fails /\ UNCHANGED <<checkpoint, now>>
    BY <1>1, <2>1 DEF Get!Attempt, Get!Fails, Get!esp_https_ota_abort, Get!NoHandle, Get!Handle, Get!NoBody,
       GetInv, GetTypes,
       Get!TypeOK, Get!PrefixRight, Get!BootsExact, Get!KeepsProgress
  <2>2. CASE ~(Get!Fails /\ UNCHANGED <<checkpoint, now>>)
    <3>1. /\ pc = "attempt" /\ pc' = "connect" /\ fallback' = FALSE
          /\ checkpoint' = (IF checkpoint < ResumeMin THEN 0 ELSE checkpoint) /\ offset' = checkpoint'
          /\ lib' = Get!Handle(offset' # 0, IF offset' >= Header THEN offset' ELSE 0, "none")
          /\ UNCHANGED <<attempt, body, now, idle, update, selected, object, hops, dropped>>
      BY <1>1, <2>2 DEF Get!Attempt
    <3>2. checkpoint' \in 0..checkpoint /\ checkpoint' \in 0..ImageLen
      BY <3>1, Sizes DEF GetInv, GetTypes
    <3>3. /\ DOMAIN lib' = {"resumption", "pos", "state"} /\ lib'.resumption = (offset' # 0)
          /\ lib'.pos = (IF offset' >= Header THEN offset' ELSE 0)
      BY <3>1 DEF Get!Handle
    <3>4. lib'.resumption \in BOOLEAN /\ (lib'.pos = offset' \/ lib'.pos = 0) /\ lib'.pos \in Nat /\ (offset' = 0 => lib'.pos = 0)
      <4>1. lib'.resumption \in BOOLEAN
        BY ONLY <3>3
      <4>2. (lib'.pos = offset' \/ lib'.pos = 0) /\ lib'.pos \in Nat /\ (offset' = 0 => lib'.pos = 0)
        BY <3>1, <3>2, <3>3, Sizes DEF GetInv, GetTypes
      <4> QED
        BY <4>1, <4>2
    <3>5. GetTypes'
      BY <3>1, <3>2, <3>3, <3>4 DEF GetInv, GetTypes, Get!TypeOK
    <3>6. Get!PrefixRight'
      BY <3>1, <3>2 DEF GetInv, GetTypes, Get!PrefixRight
    <3>7. offset' # 0 => lib'.resumption
      BY <3>3
    <3> QED
      BY <3>1, <3>4, <3>5, <3>6, <3>7 DEF GetInv, Get!BootsExact, Get!KeepsProgress
  <2> QED
    BY <2>1, <2>2
<1>2. CASE Get!NoConnection
  <2>1. PICK retry \in BOOLEAN : Get!AttemptFails(retry, checkpoint)
    BY <1>2 DEF Get!NoConnection
  <2>2. now' \in 0..TimeCap /\ pc = "connect"
    BY <1>2, LaterIn DEF Get!NoConnection
  <2> QED
    BY <2>1, <2>2, FailsStep
<1>3. CASE Get!Redirected
  <2>1. now' \in 0..TimeCap
    BY <1>3, LaterIn DEF Get!Redirected
  <2> QED
    BY <1>3, <2>1, GetConstants DEF Get!Redirected, GetInv, GetTypes, Get!TypeOK, Get!PrefixRight, Get!BootsExact,
       Get!KeepsProgress, Get!OtaDownloadConstants
<1>4. CASE Get!Answered
  <2>1. PICK a \in Get!Answers(lib.resumption, lib.pos) : Get!RefusedOnce(a) \/ Get!Rejected(a) \/ Get!Accepts(a)
    BY <1>4 DEF Get!Answered
  <2>2. pc = "connect" /\ now' \in 0..TimeCap
    BY <1>4, <2>1, LaterIn DEF Get!Answered, Get!RefusedOnce, Get!Rejected, Get!Accepts
  <2>3. a.status \in {200, 206, 404, 416, 503}
    BY <2>1, Statuses DEF GetInv, GetTypes
  <2>4. CASE Get!RefusedOnce(a)
    <3>1. /\ Get!RangeRefused(a.status) /\ lib.resumption /\ fallback' = Get!FallsBack(a.status)
          /\ lib' = Get!Handle(FALSE, 0, "none")
          /\ UNCHANGED <<pc, attempt, checkpoint, offset, body, idle, update, selected, object, hops, dropped>>
      BY <2>4 DEF Get!RefusedOnce
    <3>2. a.status \in {200, 416}
      BY <2>3, <3>1 DEF Get!RangeRefused
    <3>3. fallback' \in BOOLEAN /\ (offset # 0 => fallback')
      BY <3>1, <3>2 DEF Get!FallsBack, GetInv, GetTypes
    <3>4. DOMAIN lib' = {"resumption", "pos", "state"} /\ lib'.resumption \in BOOLEAN /\ lib'.pos = 0
      BY <3>1 DEF Get!Handle
    <3>5. GetTypes'
      <4>1. {fallback', selected', dropped'} \subseteq BOOLEAN
        BY <3>1, <3>3 DEF GetInv, GetTypes
      <4>2. Get!TypeOK'
        BY <2>2, <3>1, <4>1 DEF GetInv, GetTypes, Get!TypeOK
      <4>3. /\ checkpoint' \in 0..ImageLen /\ offset' \in 0..ImageLen /\ object' \in 1..2 /\ lib'.pos \in Nat
            /\ DOMAIN body' = {"ver", "from", "left"} /\ body'.ver \in 0..2 /\ body'.from \in Nat /\ body'.left \in Nat
            /\ DOMAIN update' = 0..(ImageLen - 1)
        <5>1. /\ checkpoint' = checkpoint /\ offset' = offset /\ object' = object /\ body' = body /\ update' = update
              /\ lib'.pos = 0
          BY ONLY <3>1, <3>4
        <5>2. GetTypes
          BY DEF GetInv
        <5> QED
          BY ONLY <5>1, <5>2 DEF GetTypes
      <4> QED
        BY ONLY <3>4, <4>1, <4>2, <4>3 DEF GetTypes
    <3> QED
      BY <2>2, <3>1, <3>3, <3>4, <3>5 DEF GetInv, Get!BootsExact, Get!KeepsProgress, Get!PrefixRight
  <2>5. CASE Get!Rejected(a)
    <3>1. Get!AttemptFails(Get!fw_ota_http_status_retryable(a.status), checkpoint)
      BY <2>5 DEF Get!Rejected
    <3> QED
      BY <2>2, <3>1, FailsStep
  <2>6. CASE Get!Accepts(a)
    <3>1. CASE Get!AttemptFails(FALSE, checkpoint)
      BY <2>2, <3>1, FailsStep
    <3>2. CASE Get!FallsBack(a.status) /\ Get!AttemptFails(a.status \in {200, 206}, 0)
      <4>1. fallback \/ checkpoint = 0
        <5>1. ~Get!RangeRefused(a.status) /\ a.status < 400
          BY <2>6 DEF Get!Accepts
        <5>2. CASE offset # 0 /\ a.status \in {200, 416} /\ ~fallback
          <6>1. ~lib.resumption
            BY <2>3, <5>1, <5>2 DEF Get!RangeRefused
          <6> QED
            BY <2>2, <5>2, <6>1 DEF GetInv
        <5> QED
          BY <2>2, <3>2, <5>2 DEF Get!FallsBack, GetInv
      <4> QED
        BY <2>2, <3>2, <4>1, FailsStep
    <3>3. CASE /\ Get!fw_ota_http_response_valid(Get!Response(a), offset)
               /\ pc' = "perform" /\ lib' = [lib EXCEPT !.state = IF lib.pos = 0 THEN "begin" ELSE "resume"]
               /\ body' = [ver |-> object, from |-> a.from, left |-> a.count] /\ idle' = 0
               /\ UNCHANGED <<attempt, checkpoint, offset, fallback, update, selected, object, hops, dropped>>
      <4>1. a.from = offset /\ lib.pos = offset /\ a.count \in Nat /\ offset = checkpoint
        BY <2>1, <2>2, <3>3, AcceptedFits DEF GetInv
      <4>2. /\ DOMAIN lib' = {"resumption", "pos", "state"} /\ lib'.resumption = lib.resumption /\ lib'.pos = lib.pos
            /\ lib'.state = (IF lib.pos = 0 THEN "begin" ELSE "resume")
        BY <3>3 DEF GetInv, GetTypes
      <4>3. /\ DOMAIN body' = {"ver", "from", "left"} /\ body'.ver = object /\ body'.from = offset /\ body'.left = a.count
        BY <3>3, <4>1
      <4>4. GetTypes'
        BY <2>2, <3>3, <4>1, <4>2, <4>3, GetConstants DEF GetInv, GetTypes, Get!TypeOK, Get!OtaDownloadConstants
      <4>5. lib'.state = "begin" => checkpoint' = 0
        BY <3>3, <4>1, <4>2
      <4>6. body'.ver # 0
        BY <4>3 DEF GetInv, GetTypes
      <4>7. lib'.state \in {"begin", "resume", "progress"}
        BY <4>2
      <4> QED
        BY <2>2, <3>3, <4>1, <4>2, <4>3, <4>4, <4>5, <4>6, <4>7 DEF GetInv, Get!BootsExact,
           Get!KeepsProgress, Get!PrefixRight
    <3> QED
      BY <2>6, <3>1, <3>2, <3>3 DEF Get!Accepts
  <2> QED
    BY <2>1, <2>4, <2>5, <2>6
<1> QED
  BY <1>1, <1>2, <1>3, <1>4

\* What is written stands where it belongs.
LEMMA WrittenRight ==
  ASSUME GetInv, pc = "perform", NEW n \in Nat,
         update' = [i \in Get!Offsets |-> IF i \in checkpoint..(checkpoint + n - 1)
                                          THEN <<body.ver, body.from + i - checkpoint>> ELSE update[i]]
  PROVE  /\ DOMAIN update' = 0..(ImageLen - 1)
         /\ \A i \in 0..(checkpoint + n - 1) : i < ImageLen => update'[i][1] # 0 /\ update'[i][2] = i
<1>1. DOMAIN update' = 0..(ImageLen - 1)
  BY DEF Get!Offsets
<1>2. body.from = checkpoint /\ body.ver # 0 /\ checkpoint \in Nat /\ ImageLen \in Nat
  BY GetConstants DEF GetInv, GetTypes, Get!OtaDownloadConstants
<1>3. ASSUME NEW i \in 0..(checkpoint + n - 1), i < ImageLen PROVE update'[i][1] # 0 /\ update'[i][2] = i
  <2>1. i \in Get!Offsets
    BY <1>2, <1>3 DEF Get!Offsets
  <2>2. CASE i >= checkpoint
    <3>1. update'[i] = <<body.ver, body.from + i - checkpoint>>
      BY <1>2, <2>1, <2>2
    <3>2. body.from + i - checkpoint = i
      BY <1>2
    <3> QED
      BY <1>2, <3>1, <3>2
  <2>3. CASE i < checkpoint
    <3>1. update'[i] = update[i]
      BY <1>2, <2>1, <2>3
    <3>2. i \in 0..(checkpoint - 1)
      BY <1>2, <2>3
    <3> QED
      BY <3>1, <3>2 DEF GetInv, Get!PrefixRight
  <2> QED
    BY <1>2, <2>2, <2>3
<1> QED
  BY <1>1, <1>3

LEMMA WritesStep == ASSUME GetInv, Get!Performs, NEW n \in Nat, Get!Writes(checkpoint, n) PROVE GetInv'
<1>1. pc = "perform" /\ now' \in 0..TimeCap /\ n <= body.left
  BY LaterIn DEF Get!Performs, Get!Writes
<1>2. /\ update' = [i \in Get!Offsets |-> IF i \in checkpoint..(checkpoint + n - 1)
                                          THEN <<body.ver, body.from + i - checkpoint>> ELSE update[i]]
      /\ UNCHANGED <<attempt, offset, fallback, selected, object, hops, dropped>>
  BY DEF Get!Writes, Get!_ota_write
<1>3. /\ DOMAIN update' = 0..(ImageLen - 1)
      /\ \A i \in 0..(checkpoint + n - 1) : i < ImageLen => update'[i][1] # 0 /\ update'[i][2] = i
  BY <1>1, <1>2, WrittenRight
<1>4. CASE /\ Get!_ota_write(checkpoint, n) /\ checkpoint + n \in checkpoint..ImageLen /\ checkpoint' = checkpoint + n
           /\ idle' = 0 /\ UNCHANGED pc
  <2>1. body' = [body EXCEPT !.from = @ + n, !.left = @ - n] /\ lib' = [lib EXCEPT !.pos = checkpoint + n, !.state = "progress"]
    BY <1>4 DEF Get!_ota_write
  <2>2. /\ DOMAIN body' = {"ver", "from", "left"} /\ body'.ver = body.ver /\ body'.from = checkpoint + n
        /\ body'.left = body.left - n
    BY <1>1, <2>1 DEF GetInv, GetTypes
  <2>3. /\ DOMAIN lib' = {"resumption", "pos", "state"} /\ lib'.resumption = lib.resumption /\ lib'.pos = checkpoint + n
        /\ lib'.state = "progress"
    BY <2>1 DEF GetInv, GetTypes
  <2>4. checkpoint' \in 0..ImageLen /\ body'.left \in Nat /\ checkpoint' \in Nat
    BY <1>1, <1>4, <2>2, GetConstants, SMTT(60) DEF GetInv, GetTypes, Get!OtaDownloadConstants
  <2>5. GetTypes'
    BY <1>1, <1>2, <1>3, <1>4, <2>2, <2>3, <2>4, GetConstants DEF GetInv, GetTypes, Get!TypeOK,
       Get!OtaDownloadConstants
  <2>6. Get!PrefixRight'
    <3>1. \A i \in 0..(checkpoint' - 1) : i \in 0..(checkpoint + n - 1) /\ i < ImageLen
      BY <1>4, <2>4, Sizes DEF GetInv, GetTypes
    <3> QED
      BY <1>3, <3>1 DEF Get!PrefixRight
  <2> QED
    BY <1>1, <1>2, <1>4, <2>2, <2>3, <2>5, <2>6 DEF GetInv, Get!BootsExact, Get!KeepsProgress
<1>5. CASE pc' = "failed" /\ Get!esp_https_ota_abort /\ UNCHANGED <<checkpoint, idle>>
  <2>1. /\ DOMAIN lib' = {"resumption", "pos", "state"} /\ lib'.resumption \in BOOLEAN /\ lib'.pos \in Nat
        /\ DOMAIN body' = {"ver", "from", "left"} /\ body'.ver \in 0..2 /\ body'.from \in Nat /\ body'.left \in Nat
    BY <1>5 DEF Get!esp_https_ota_abort, Get!NoHandle, Get!Handle, Get!NoBody
  <2>2. GetTypes'
    BY <1>1, <1>2, <1>3, <1>5, <2>1 DEF GetInv, GetTypes, Get!TypeOK
  <2>3. Get!PrefixRight'
    <3>1. \A i \in 0..(checkpoint - 1) : i \in 0..(checkpoint + n - 1) /\ i < ImageLen
      BY GetConstants DEF GetInv, GetTypes, Get!OtaDownloadConstants
    <3> QED
      BY <1>3, <1>5, <3>1 DEF Get!PrefixRight
  <2> QED
    BY <1>1, <1>2, <1>5, <2>2, <2>3 DEF GetInv, Get!BootsExact, Get!KeepsProgress
<1> QED
  BY <1>4, <1>5 DEF Get!Writes

LEMMA PerformStep ==
  ASSUME GetInv, \/ Get!OutOfTime \/ Get!HeaderComes \/ Get!DataComes \/ Get!Breaks \/ Get!FlashFails
                 \/ Get!Stalls \/ Get!Completes
  PROVE  GetInv'
<1> USE GetConstants DEF Get!OtaDownloadConstants
<1>1. CASE Get!OutOfTime
  <2>1. pc = "perform" /\ now' \in 0..TimeCap /\ Get!AttemptFails(FALSE, checkpoint)
    BY <1>1 DEF Get!OutOfTime, GetInv, GetTypes, Get!TypeOK
  <2> QED
    BY <2>1, FailsStep
<1>2. CASE Get!HeaderComes
  <2>1. Get!Performs /\ Get!Writes(0, Header) /\ lib.state = "begin" /\ pc = "perform"
    BY <1>2 DEF Get!HeaderComes, Get!read_header, Get!Performs
  <2>2. checkpoint = 0 /\ Header \in Nat
    BY <2>1 DEF GetInv
  <2> QED
    BY <2>1, <2>2, WritesStep
<1>3. CASE Get!DataComes
  <2>1. PICK n \in 1..Buffer : Get!Writes(lib.pos, n)
    BY <1>3 DEF Get!DataComes
  <2>2. Get!Performs /\ pc = "perform" /\ lib.pos = checkpoint /\ n \in Nat
    BY <1>3, <2>1 DEF Get!DataComes, Get!Performs, GetInv
  <2> QED
    BY <2>1, <2>2, WritesStep
<1>4. CASE Get!Breaks \/ Get!FlashFails
  <2>1. pc = "perform" /\ now' \in 0..TimeCap /\ \E retry : Get!AttemptFails(retry, checkpoint)
    BY <1>4, LaterIn DEF Get!Breaks, Get!FlashFails, Get!Performs
  <2> QED
    BY <2>1, FailsStep
<1>5. CASE Get!Stalls
  <2>1. pc = "perform" /\ now' \in 0..TimeCap
    BY <1>5, SMTT(60) DEF Get!Stalls, Get!Due, GetInv, GetTypes, Get!TypeOK
  <2>2. CASE \E retry : Get!AttemptFails(retry, checkpoint)
    BY <2>1, <2>2, FailsStep
  <2>3. CASE /\ idle + 1 < StallLimit /\ idle' = idle + 1 /\ lib' = [lib EXCEPT !.state = "progress"] /\ lib.state # "begin"
             /\ UNCHANGED <<pc, attempt, checkpoint, offset, fallback, body, update, selected, object, hops, dropped>>
    <3>1. /\ DOMAIN lib' = {"resumption", "pos", "state"} /\ lib'.resumption = lib.resumption /\ lib'.pos = lib.pos
          /\ lib'.state = "progress"
      BY <2>3 DEF GetInv, GetTypes
    <3>2. idle' \in 0..StallLimit
      BY <2>3, Sizes, SMTT(60) DEF GetInv, GetTypes, Get!TypeOK
    <3>3. GetTypes'
      BY <2>1, <2>3, <3>1, <3>2 DEF GetInv, GetTypes, Get!TypeOK
    <3> QED
      BY <2>1, <2>3, <3>1, <3>3 DEF GetInv, Get!BootsExact, Get!KeepsProgress, Get!PrefixRight
  <2> QED
    BY <1>5, <2>2, <2>3 DEF Get!Stalls
<1>6. CASE Get!Completes
  <2>1. pc = "perform" /\ now' \in 0..TimeCap
    BY <1>6, LaterIn DEF Get!Completes, Get!Performs
  <2>2. CASE \E retry : Get!AttemptFails(retry, checkpoint)
    BY <2>1, <2>2, FailsStep
  <2>3. CASE /\ pc' = "verify" /\ lib' = [lib EXCEPT !.state = "success"]
             /\ UNCHANGED <<attempt, checkpoint, offset, fallback, body, idle, update, selected, object, hops, dropped>>
    <3>1. DOMAIN lib' = {"resumption", "pos", "state"} /\ lib'.resumption = lib.resumption /\ lib'.pos = lib.pos
      BY <2>3 DEF GetInv, GetTypes
    <3>2. GetTypes'
      BY <2>1, <2>3, <3>1 DEF GetInv, GetTypes, Get!TypeOK
    <3> QED
      BY <2>1, <2>3, <3>2 DEF GetInv, Get!BootsExact, Get!KeepsProgress, Get!PrefixRight
  <2> QED
    BY <1>6, <2>2, <2>3 DEF Get!Completes
<1> QED
  BY <1>1, <1>2, <1>3, <1>4, <1>5, <1>6

LEMMA GetStep == ASSUME GetInv, Get!Next PROVE GetInv'
<1>1. CASE Get!verify_written_image
  <2>1. pc = "verify" /\ now' \in 0..TimeCap
    BY <1>1, LaterIn DEF Get!verify_written_image
  <2>2. CASE Get!Fails /\ UNCHANGED checkpoint
    BY <2>1, <2>2 DEF Get!Fails, Get!esp_https_ota_abort, Get!NoHandle, Get!Handle, Get!NoBody, GetInv, GetTypes,
       Get!TypeOK, Get!PrefixRight, Get!BootsExact, Get!KeepsProgress
  <2>3. CASE Get!Matches /\ pc' = "finish"
             /\ UNCHANGED <<attempt, checkpoint, offset, lib, fallback, body, idle, update, selected, object,
                            hops, dropped>>
    BY <2>1, <2>3 DEF GetInv, GetTypes, Get!TypeOK, Get!PrefixRight, Get!BootsExact, Get!KeepsProgress, Get!Matches
  <2> QED
    BY <1>1, <2>2, <2>3 DEF Get!verify_written_image
<1>2. CASE Get!esp_https_ota_finish
  <2>1. CASE Get!Fails
    BY <1>2, <2>1 DEF Get!esp_https_ota_finish, Get!Fails, Get!esp_https_ota_abort, Get!NoHandle, Get!Handle,
       Get!NoBody,
       GetInv, GetTypes, Get!TypeOK, Get!PrefixRight, Get!BootsExact, Get!KeepsProgress
  <2>2. CASE ~Get!Fails
    <3>1. /\ pc = "finish" /\ selected' = TRUE /\ pc' = "restart" /\ lib' = Get!NoHandle /\ body' = Get!NoBody
          /\ UNCHANGED <<checkpoint, now, attempt, offset, fallback, idle, update, object, hops, dropped>>
      BY <1>2, <2>2 DEF Get!esp_https_ota_finish
    <3>2. /\ DOMAIN lib' = {"resumption", "pos", "state"} /\ lib'.resumption \in BOOLEAN /\ lib'.pos \in Nat
          /\ DOMAIN body' = {"ver", "from", "left"} /\ body'.ver \in 0..2 /\ body'.from \in Nat /\ body'.left \in Nat
      BY <3>1 DEF Get!NoHandle, Get!Handle, Get!NoBody
    <3> QED
      BY <3>1, <3>2 DEF GetInv, GetTypes, Get!TypeOK, Get!PrefixRight, Get!BootsExact, Get!KeepsProgress, Get!Matches
  <2> QED
    BY <2>1, <2>2
<1>3. CASE Get!Replaced
  BY <1>3 DEF Get!Replaced, Get!Commanded, GetInv, GetTypes, Get!TypeOK, Get!PrefixRight, Get!BootsExact,
     Get!KeepsProgress, Get!Matches
<1> QED
  BY <1>1, <1>2, <1>3, ConnectStep, PerformStep DEF Get!Next, Get!Task

\* What is booted is what was commanded (ota_task, fw_ota_http_policy.c,
\* verify_written_image), for images and buffers of any size, any number of
\* attempts and redirects, and any answers of the server.
THEOREM DownloadAlwaysSound == MCSpec => []DownloadSound
<1>1. MCInit => GetInv
  <2> SUFFICES ASSUME MCInit PROVE GetInv
    OBVIOUS
  <2> USE GetConstants DEF MCInit, Get!Init, Get!OtaDownloadConstants, Get!NoHandle, Get!Handle, Get!NoBody, Get!Commanded
  <2>1. Get!TypeOK
    <3>1. fallback \in BOOLEAN /\ selected \in BOOLEAN /\ dropped \in BOOLEAN
      OBVIOUS
    <3>2. {fallback, selected, dropped} \subseteq BOOLEAN
      BY ONLY <3>1
    <3>3. attempt \in 1..MaxAttempts /\ {checkpoint, offset} \subseteq 0..ImageLen /\ now \in 0..TimeCap /\ idle \in 0..StallLimit
          /\ hops \in 0..MaxHops
      BY Sizes
    <3> QED
      BY <3>2, <3>3 DEF Get!TypeOK
  <2>2. DOMAIN update = 0..(ImageLen - 1)
    BY DEF Get!Offsets
  <2>3. GetTypes
    <3>1. fallback \in BOOLEAN /\ selected \in BOOLEAN /\ dropped \in BOOLEAN
      OBVIOUS
    <3>2. lib.resumption \in BOOLEAN /\ DOMAIN lib = {"resumption", "pos", "state"} /\ lib.pos \in Nat
      OBVIOUS
    <3>3. checkpoint \in 0..ImageLen /\ offset \in 0..ImageLen /\ object \in 1..2
      BY Sizes
    <3>4. DOMAIN body = {"ver", "from", "left"} /\ body.ver \in 0..2 /\ body.from \in Nat /\ body.left \in Nat
      OBVIOUS
    <3> QED
      BY ONLY <2>1, <2>2, <3>1, <3>2, <3>3, <3>4 DEF GetTypes
  <2> QED
    BY <2>3 DEF GetInv, Get!PrefixRight, Get!BootsExact, Get!KeepsProgress
<1>2. GetInv /\ [MCNext]_<<part, vars, getvars, fwvars, relayvars>> => GetInv'
  <2>1. ASSUME GetInv, UNCHANGED getvars PROVE GetInv'
    BY <2>1 DEF getvars, GetInv, GetTypes, Get!TypeOK, Get!PrefixRight, Get!BootsExact, Get!KeepsProgress, Get!Matches
  <2> QED
    BY <2>1, GetStep DEF MCNext
<1>3. GetInv => DownloadSound
  BY DEF GetInv, GetTypes, DownloadSound, Get!DownloadSound
<1> QED
  BY <1>1, <1>2, <1>3, PTL DEF MCSpec

-----------------------------------------------------------------------------
(* The update of the RP2040 (FwUpdate)                                     *)

FwTypes ==
    /\ app \in Images \cup {"torn"} /\ marker \in Int /\ marker >= Rel!NoMarker
    /\ command \in {"none", "stage", "prev"}
    /\ phase \in {"boot", "apply", "init", "run", "restage", "unmark", "confirm", "cleanup", "drop", "verify",
                  "snapshot", "mark", "arm", "reboot"}
    /\ wears \in Nat

FwFlags == /\ fsOk \in BOOLEAN /\ pending \in BOOLEAN /\ open \in BOOLEAN
           /\ proven \in BOOLEAN /\ prevProven \in BOOLEAN

\* What the application, the files and the command hold, by where the thread is.
ThreadKnows ==
    /\ fsOk => phase \notin {"boot", "apply", "init"}
    /\ ~fsOk => phase \in {"boot", "apply", "init", "run"}
    /\ open => fsOk /\ phase = "run"
    /\ pending => fsOk /\ ~open /\ phase \in {"run", "restage", "unmark"} /\ marker # Rel!NoMarker
    /\ fsOk /\ phase = "run" /\ ~pending => marker = Rel!NoMarker
    /\ phase \in {"drop", "verify", "snapshot", "mark"} => marker = Rel!NoMarker
    /\ phase \in {"restage", "unmark"} => marker # Rel!NoMarker
    /\ phase \in {"verify", "snapshot", "mark", "arm", "reboot"} => proven
    /\ phase \in {"snapshot", "mark", "arm"} => Rel!StageVerified
    /\ phase = "mark" => prev = app /\ prevProven
    /\ fsOk => command = (IF phase = "unmark" THEN "prev" ELSE IF phase = "reboot" THEN "stage" ELSE "none")
    /\ phase = "apply" => command # "none"

\* What a command and a marker mean wherever power failed.
FilesMean ==
    /\ app = "torn" => phase \in {"boot", "apply"} /\ command # "none"
    /\ command = "stage" => \E image \in Sane : stage = Rel!Full(image)
    /\ command = "prev" => prev \in Images /\ prevProven
    /\ marker # Rel!NoMarker => prev \in Images /\ prevProven /\ (proven => prev = app \/ app = "torn")

\* What holds besides as long as the flash has not failed.
SoundFlash ==
    wears = 0 =>
       /\ command = "stage" \/ phase = "arm" \/ (~proven /\ command # "prev") => marker # Rel!NoMarker
       /\ phase = "init" => command = "none"
       /\ phase = "run" => fsOk
       /\ phase # "cleanup"
       /\ phase = "drop" => proven

FwInv == FwTypes /\ FwFlags /\ ThreadKnows /\ FilesMean /\ SoundFlash

-----------------------------------------------------------------------------
\* A frame is handled.
LEMMA Handled == ASSUME FwInv, Rel!HandlesFrame
                 PROVE  /\ phase = "run" /\ ~pending /\ proven' \in BOOLEAN /\ prevProven' = prevProven
                        /\ (proven' <=> proven \/ marker = Rel!NoMarker)
<1>1. proven' = (proven \/ marker = Rel!NoMarker)
  BY DEF Rel!HandlesFrame
<1>2. proven' \in BOOLEAN /\ (proven' <=> proven \/ marker = Rel!NoMarker)
  BY ONLY <1>1
<1> QED
  BY <1>2 DEF Rel!HandlesFrame

LEMMA FwApply == ASSUME FwInv, Rel!Apply PROVE FwInv'
  BY RelConstants DEF FwInv, FwTypes, FwFlags, ThreadKnows, FilesMean, SoundFlash, Rel!NoMarker,
     Rel!StageVerified, Rel!Apply, Rel!files, Rel!sess, Rel!history, Rel!limits, Rel!FwUpdateConstants

LEMMA FwApplied == ASSUME FwInv, Rel!Applied PROVE FwInv'
  BY RelConstants DEF FwInv, FwTypes, FwFlags, ThreadKnows, FilesMean, SoundFlash, Rel!NoMarker,
     Rel!StageVerified, Rel!Applied, Rel!files, Rel!sess, Rel!history, Rel!limits, Rel!FwUpdateConstants

LEMMA FwBootNormal == ASSUME FwInv, Rel!BootNormal PROVE FwInv'
  BY RelConstants DEF FwInv, FwTypes, FwFlags, ThreadKnows, FilesMean, SoundFlash, Rel!NoMarker,
     Rel!StageVerified, Rel!BootNormal, Rel!files, Rel!sess, Rel!history, Rel!limits, Rel!Fault,
     Rel!FwUpdateConstants

LEMMA FwMountFails == ASSUME FwInv, Rel!MountFails PROVE FwInv'
  BY RelConstants DEF FwInv, FwTypes, FwFlags, ThreadKnows, FilesMean, SoundFlash, Rel!NoMarker,
     Rel!StageVerified, Rel!MountFails, Rel!files, Rel!sess, Rel!history, Rel!limits, Rel!Fault,
     Rel!FwUpdateConstants

LEMMA FwBootPending == ASSUME FwInv, Rel!BootPending PROVE FwInv'
<1>1. FwTypes'
  BY RelConstants DEF FwInv, FwTypes, FwFlags, ThreadKnows, FilesMean, SoundFlash, Rel!NoMarker,
     Rel!StageVerified, Rel!BootPending, Rel!files, Rel!sess, Rel!history, Rel!limits, Rel!FwUpdateConstants
<1>2. ThreadKnows'
  BY RelConstants DEF FwInv, FwTypes, FwFlags, ThreadKnows, FilesMean, SoundFlash, Rel!NoMarker,
     Rel!StageVerified, Rel!BootPending, Rel!files, Rel!sess, Rel!history, Rel!limits, Rel!FwUpdateConstants
<1>3. FilesMean'
  BY RelConstants DEF FwInv, FwTypes, FwFlags, ThreadKnows, FilesMean, SoundFlash, Rel!NoMarker,
     Rel!StageVerified, Rel!BootPending, Rel!files, Rel!sess, Rel!history, Rel!limits, Rel!FwUpdateConstants
<1>4. SoundFlash'
  BY RelConstants DEF FwInv, FwTypes, FwFlags, ThreadKnows, FilesMean, SoundFlash, Rel!NoMarker,
     Rel!StageVerified, Rel!BootPending, Rel!files, Rel!sess, Rel!history, Rel!limits, Rel!FwUpdateConstants
<1>5. FwFlags'
  BY DEF FwInv, FwFlags, Rel!BootPending, Rel!files, Rel!sess, Rel!history, Rel!limits
<1> QED
  BY <1>1, <1>2, <1>3, <1>4, <1>5 DEF FwInv

LEMMA FwBootClean == ASSUME FwInv, Rel!BootClean PROVE FwInv'
  BY RelConstants DEF FwInv, FwTypes, FwFlags, ThreadKnows, FilesMean, SoundFlash, Rel!NoMarker,
     Rel!StageVerified, Rel!BootClean, Rel!files, Rel!sess, Rel!history, Rel!limits, Rel!FwUpdateConstants

LEMMA FwRestageArms == ASSUME FwInv, Rel!RestageArms PROVE FwInv'
  BY RelConstants DEF FwInv, FwTypes, FwFlags, ThreadKnows, FilesMean, SoundFlash, Rel!NoMarker,
     Rel!StageVerified, Rel!RestageArms, Rel!files, Rel!sess, Rel!history, Rel!limits, Rel!FwUpdateConstants

LEMMA FwRestageReturns == ASSUME FwInv, Rel!RestageReturns PROVE FwInv'
<1>1. FwTypes'
  BY RelConstants DEF FwInv, FwTypes, FwFlags, ThreadKnows, FilesMean, SoundFlash, Rel!NoMarker,
     Rel!StageVerified, Rel!RestageReturns, Rel!files, Rel!sess, Rel!history, Rel!limits, Rel!Fault,
     Rel!FwUpdateConstants
<1>2. ThreadKnows'
  BY RelConstants DEF FwInv, FwTypes, FwFlags, ThreadKnows, FilesMean, SoundFlash, Rel!NoMarker,
     Rel!StageVerified, Rel!RestageReturns, Rel!files, Rel!sess, Rel!history, Rel!limits, Rel!Fault,
     Rel!FwUpdateConstants
<1>3. FilesMean'
  BY RelConstants DEF FwInv, FwTypes, FwFlags, ThreadKnows, FilesMean, SoundFlash, Rel!NoMarker,
     Rel!StageVerified, Rel!RestageReturns, Rel!files, Rel!sess, Rel!history, Rel!limits, Rel!Fault,
     Rel!FwUpdateConstants
<1>4. SoundFlash'
  BY RelConstants DEF FwInv, FwTypes, FwFlags, ThreadKnows, FilesMean, SoundFlash, Rel!NoMarker,
     Rel!StageVerified, Rel!RestageReturns, Rel!files, Rel!sess, Rel!history, Rel!limits, Rel!Fault,
     Rel!FwUpdateConstants
<1>5. FwFlags'
  BY DEF FwInv, FwFlags, Rel!RestageReturns, Rel!files, Rel!sess, Rel!history, Rel!limits, Rel!Fault
<1> QED
  BY <1>1, <1>2, <1>3, <1>4, <1>5 DEF FwInv

LEMMA FwRestageReboots == ASSUME FwInv, Rel!RestageReboots PROVE FwInv'
<1>1. FwTypes'
  BY RelConstants DEF FwInv, FwTypes, FwFlags, ThreadKnows, FilesMean, SoundFlash, Rel!NoMarker,
     Rel!StageVerified, Rel!RestageReboots, Rel!files, Rel!sess, Rel!history, Rel!limits, Rel!Restart,
     Rel!FwUpdateConstants
<1>2. ThreadKnows'
  BY RelConstants DEF FwInv, FwTypes, FwFlags, ThreadKnows, FilesMean, SoundFlash, Rel!NoMarker,
     Rel!StageVerified, Rel!RestageReboots, Rel!files, Rel!sess, Rel!history, Rel!limits, Rel!Restart,
     Rel!FwUpdateConstants
<1>3. FilesMean'
  BY RelConstants DEF FwInv, FwTypes, FwFlags, ThreadKnows, FilesMean, SoundFlash, Rel!NoMarker,
     Rel!StageVerified, Rel!RestageReboots, Rel!files, Rel!sess, Rel!history, Rel!limits, Rel!Restart,
     Rel!FwUpdateConstants
<1>4. SoundFlash'
  BY RelConstants DEF FwInv, FwTypes, FwFlags, ThreadKnows, FilesMean, SoundFlash, Rel!NoMarker,
     Rel!StageVerified, Rel!RestageReboots, Rel!files, Rel!sess, Rel!history, Rel!limits, Rel!Restart,
     Rel!FwUpdateConstants
<1>5. FwFlags'
  BY DEF FwInv, FwFlags, Rel!RestageReboots, Rel!files, Rel!sess, Rel!history, Rel!limits, Rel!Restart
<1> QED
  BY <1>1, <1>2, <1>3, <1>4, <1>5 DEF FwInv

LEMMA FwCleanupMarker == ASSUME FwInv, Rel!CleanupMarker PROVE FwInv'
  BY RelConstants DEF FwInv, FwTypes, FwFlags, ThreadKnows, FilesMean, SoundFlash, Rel!NoMarker,
     Rel!StageVerified, Rel!CleanupMarker, Rel!files, Rel!sess, Rel!history, Rel!limits, Rel!FwUpdateConstants

LEMMA FwCleanupFiles == ASSUME FwInv, Rel!CleanupFiles PROVE FwInv'
  BY RelConstants DEF FwInv, FwTypes, FwFlags, ThreadKnows, FilesMean, SoundFlash, Rel!NoMarker,
     Rel!StageVerified, Rel!CleanupFiles, Rel!files, Rel!sess, Rel!history, Rel!limits, Rel!FwUpdateConstants

LEMMA FwVerifyFails == ASSUME FwInv, Rel!VerifyFails PROVE FwInv'
  BY RelConstants DEF FwInv, FwTypes, FwFlags, ThreadKnows, FilesMean, SoundFlash, Rel!NoMarker,
     Rel!StageVerified, Rel!VerifyFails, Rel!files, Rel!sess, Rel!history, Rel!limits, Rel!Fault,
     Rel!FwUpdateConstants

LEMMA FwSnapshotBegins == ASSUME FwInv, Rel!SnapshotBegins PROVE FwInv'
  BY RelConstants DEF FwInv, FwTypes, FwFlags, ThreadKnows, FilesMean, SoundFlash, Rel!NoMarker,
     Rel!StageVerified, Rel!SnapshotBegins, Rel!files, Rel!sess, Rel!history, Rel!limits, Rel!FwUpdateConstants

LEMMA FwSnapshot == ASSUME FwInv, Rel!Snapshot PROVE FwInv'
<1>1. FwTypes'
  <2>1. CASE prev' = app /\ prevProven' = proven /\ phase' = "mark" /\ UNCHANGED <<begins, cuts, wears>>
    BY <2>1 DEF FwInv, FwTypes, FwFlags, ThreadKnows, FilesMean, SoundFlash, Rel!NoMarker, Rel!StageVerified,
       Rel!Snapshot, Rel!files, Rel!sess, Rel!history, Rel!limits, Rel!Fault, Rel!FwUpdateConstants
  <2>2. CASE prev' = "none" /\ phase' = "arm" /\ Rel!Fault /\ UNCHANGED prevProven
    BY <2>2 DEF FwInv, FwTypes, FwFlags, ThreadKnows, FilesMean, SoundFlash, Rel!NoMarker, Rel!StageVerified,
       Rel!Snapshot, Rel!files, Rel!sess, Rel!history, Rel!limits, Rel!Fault, Rel!FwUpdateConstants
  <2> QED
    BY <2>1, <2>2 DEF Rel!Snapshot, Rel!limits
<1>2. ThreadKnows'
  BY RelConstants DEF FwInv, FwTypes, FwFlags, ThreadKnows, FilesMean, SoundFlash, Rel!NoMarker,
     Rel!StageVerified, Rel!Snapshot, Rel!files, Rel!sess, Rel!history, Rel!limits, Rel!Fault,
     Rel!FwUpdateConstants
<1>3. FilesMean'
  BY RelConstants DEF FwInv, FwTypes, FwFlags, ThreadKnows, FilesMean, SoundFlash, Rel!NoMarker,
     Rel!StageVerified, Rel!Snapshot, Rel!files, Rel!sess, Rel!history, Rel!limits, Rel!Fault,
     Rel!FwUpdateConstants
<1>4. SoundFlash'
  <2>1. CASE prev' = app /\ prevProven' = proven /\ phase' = "mark" /\ UNCHANGED <<begins, cuts, wears>>
    BY <2>1 DEF FwInv, FwTypes, FwFlags, ThreadKnows, FilesMean, SoundFlash, Rel!NoMarker, Rel!StageVerified,
       Rel!Snapshot, Rel!files, Rel!sess, Rel!history, Rel!limits, Rel!Fault, Rel!FwUpdateConstants
  <2>2. CASE prev' = "none" /\ phase' = "arm" /\ Rel!Fault /\ UNCHANGED prevProven
    BY <2>2 DEF FwInv, FwTypes, FwFlags, ThreadKnows, FilesMean, SoundFlash, Rel!NoMarker, Rel!StageVerified,
       Rel!Snapshot, Rel!files, Rel!sess, Rel!history, Rel!limits, Rel!Fault, Rel!FwUpdateConstants
  <2> QED
    BY <2>1, <2>2 DEF Rel!Snapshot, Rel!limits
<1>5. FwFlags'
  BY DEF FwInv, FwFlags, Rel!Snapshot, Rel!files, Rel!sess, Rel!history, Rel!limits, Rel!Fault
<1> QED
  BY <1>1, <1>2, <1>3, <1>4, <1>5 DEF FwInv

LEMMA FwWriteMarker == ASSUME FwInv, Rel!WriteMarker PROVE FwInv'
  BY RelConstants DEF FwInv, FwTypes, FwFlags, ThreadKnows, FilesMean, SoundFlash, Rel!NoMarker,
     Rel!StageVerified, Rel!WriteMarker, Rel!files, Rel!sess, Rel!history, Rel!limits, Rel!Fault,
     Rel!FwUpdateConstants

LEMMA FwArm == ASSUME FwInv, Rel!Arm PROVE FwInv'
  BY RelConstants DEF FwInv, FwTypes, FwFlags, ThreadKnows, FilesMean, SoundFlash, Rel!NoMarker,
     Rel!StageVerified, Rel!Arm, Rel!files, Rel!sess, Rel!history, Rel!limits, Rel!FwUpdateConstants

LEMMA FwArmFails == ASSUME FwInv, Rel!ArmFails PROVE FwInv'
  BY RelConstants DEF FwInv, FwTypes, FwFlags, ThreadKnows, FilesMean, SoundFlash, Rel!NoMarker,
     Rel!StageVerified, Rel!ArmFails, Rel!files, Rel!sess, Rel!history, Rel!limits, Rel!Fault,
     Rel!FwUpdateConstants

LEMMA FwReboot == ASSUME FwInv, Rel!Reboot PROVE FwInv'
  BY RelConstants DEF FwInv, FwTypes, FwFlags, ThreadKnows, FilesMean, SoundFlash, Rel!NoMarker,
     Rel!StageVerified, Rel!Reboot, Rel!files, Rel!sess, Rel!history, Rel!limits, Rel!Restart,
     Rel!FwUpdateConstants

LEMMA FwTickIdle == ASSUME FwInv, Rel!TickIdle PROVE FwInv'
  BY RelConstants DEF FwInv, FwTypes, FwFlags, ThreadKnows, FilesMean, SoundFlash, Rel!NoMarker,
     Rel!StageVerified, Rel!TickIdle, Rel!files, Rel!sess, Rel!history, Rel!limits, Rel!SessionAbort,
     Rel!FwUpdateConstants

LEMMA FwTickWindow == ASSUME FwInv, Rel!TickWindow PROVE FwInv'
<1>1. FwTypes'
  BY RelConstants DEF FwInv, FwTypes, FwFlags, ThreadKnows, FilesMean, SoundFlash, Rel!NoMarker,
     Rel!StageVerified, Rel!TickWindow, Rel!files, Rel!sess, Rel!history, Rel!limits, Rel!FwUpdateConstants
<1>2. ThreadKnows'
  BY RelConstants DEF FwInv, FwTypes, FwFlags, ThreadKnows, FilesMean, SoundFlash, Rel!NoMarker,
     Rel!StageVerified, Rel!TickWindow, Rel!files, Rel!sess, Rel!history, Rel!limits, Rel!FwUpdateConstants
<1>3. FilesMean'
  BY RelConstants DEF FwInv, FwTypes, FwFlags, ThreadKnows, FilesMean, SoundFlash, Rel!NoMarker,
     Rel!StageVerified, Rel!TickWindow, Rel!files, Rel!sess, Rel!history, Rel!limits, Rel!FwUpdateConstants
<1>4. SoundFlash'
  BY RelConstants DEF FwInv, FwTypes, FwFlags, ThreadKnows, FilesMean, SoundFlash, Rel!NoMarker,
     Rel!StageVerified, Rel!TickWindow, Rel!files, Rel!sess, Rel!history, Rel!limits, Rel!FwUpdateConstants
<1>5. FwFlags'
  BY DEF FwInv, FwFlags, Rel!TickWindow, Rel!files, Rel!sess, Rel!history, Rel!limits
<1> QED
  BY <1>1, <1>2, <1>3, <1>4, <1>5 DEF FwInv

LEMMA FwNoteFrameOk == ASSUME FwInv, Rel!NoteFrameOk PROVE FwInv'
<1>1. FwTypes'
  BY RelConstants DEF FwInv, FwTypes, FwFlags, ThreadKnows, FilesMean, SoundFlash, Rel!NoMarker,
     Rel!StageVerified, Rel!NoteFrameOk, Rel!files, Rel!sess, Rel!history, Rel!limits, Rel!FwUpdateConstants
<1>2. ThreadKnows'
  BY RelConstants DEF FwInv, FwTypes, FwFlags, ThreadKnows, FilesMean, SoundFlash, Rel!NoMarker,
     Rel!StageVerified, Rel!NoteFrameOk, Rel!files, Rel!sess, Rel!history, Rel!limits, Rel!FwUpdateConstants
<1>3. FilesMean'
  BY RelConstants DEF FwInv, FwTypes, FwFlags, ThreadKnows, FilesMean, SoundFlash, Rel!NoMarker,
     Rel!StageVerified, Rel!NoteFrameOk, Rel!files, Rel!sess, Rel!history, Rel!limits, Rel!FwUpdateConstants
<1>4. SoundFlash'
  BY RelConstants DEF FwInv, FwTypes, FwFlags, ThreadKnows, FilesMean, SoundFlash, Rel!NoMarker,
     Rel!StageVerified, Rel!NoteFrameOk, Rel!files, Rel!sess, Rel!history, Rel!limits, Rel!FwUpdateConstants
<1>5. FwFlags'
  BY DEF FwInv, FwFlags, Rel!NoteFrameOk, Rel!files, Rel!sess, Rel!history, Rel!limits
<1> QED
  BY <1>1, <1>2, <1>3, <1>4, <1>5 DEF FwInv

LEMMA FwOtherFrame == ASSUME FwInv, Rel!OtherFrame PROVE FwInv'
  BY Handled DEF FwInv, FwTypes, FwFlags, ThreadKnows, FilesMean, SoundFlash, Rel!NoMarker, Rel!StageVerified,
     Rel!OtherFrame, Rel!files, Rel!sess, Rel!history, Rel!limits, Rel!FwUpdateConstants

LEMMA FwBeginFails == ASSUME FwInv, Rel!BeginFails PROVE FwInv'
<1>1. FwTypes'
  BY Handled DEF FwInv, FwTypes, FwFlags, ThreadKnows, FilesMean, SoundFlash, Rel!NoMarker, Rel!StageVerified,
     Rel!BeginFails, Rel!files, Rel!sess, Rel!history, Rel!limits, Rel!Fault, Rel!SessionAbort,
     Rel!FwUpdateConstants
<1>2. ThreadKnows'
  BY Handled DEF FwInv, FwTypes, FwFlags, ThreadKnows, FilesMean, SoundFlash, Rel!NoMarker, Rel!StageVerified,
     Rel!BeginFails, Rel!files, Rel!sess, Rel!history, Rel!limits, Rel!Fault, Rel!SessionAbort,
     Rel!FwUpdateConstants
<1>3. FilesMean'
  BY Handled DEF FwInv, FwTypes, FwFlags, ThreadKnows, FilesMean, SoundFlash, Rel!NoMarker, Rel!StageVerified,
     Rel!BeginFails, Rel!files, Rel!sess, Rel!history, Rel!limits, Rel!Fault, Rel!SessionAbort,
     Rel!FwUpdateConstants
<1>4. SoundFlash'
  BY Handled DEF FwInv, FwTypes, FwFlags, ThreadKnows, FilesMean, SoundFlash, Rel!NoMarker, Rel!StageVerified,
     Rel!BeginFails, Rel!files, Rel!sess, Rel!history, Rel!limits, Rel!Fault, Rel!SessionAbort,
     Rel!FwUpdateConstants
<1>5. FwFlags'
  BY Handled DEF FwInv, FwFlags, Rel!BeginFails, Rel!files, Rel!sess, Rel!history, Rel!limits, Rel!Fault,
     Rel!SessionAbort
<1> QED
  BY <1>1, <1>2, <1>3, <1>4, <1>5 DEF FwInv

LEMMA FwEndRefused == ASSUME FwInv, Rel!EndRefused PROVE FwInv'
  BY Handled DEF FwInv, FwTypes, FwFlags, ThreadKnows, FilesMean, SoundFlash, Rel!NoMarker, Rel!StageVerified,
     Rel!EndRefused, Rel!files, Rel!sess, Rel!history, Rel!limits, Rel!FwUpdateConstants

LEMMA FwEndAborts == ASSUME FwInv, Rel!EndAborts PROVE FwInv'
  BY Handled DEF FwInv, FwTypes, FwFlags, ThreadKnows, FilesMean, SoundFlash, Rel!NoMarker, Rel!StageVerified,
     Rel!EndAborts, Rel!files, Rel!sess, Rel!history, Rel!limits, Rel!SessionAbort, Rel!FwUpdateConstants

LEMMA FwEndFails == ASSUME FwInv, Rel!EndFails PROVE FwInv'
<1>1. FwTypes'
  BY Handled DEF FwInv, FwTypes, FwFlags, ThreadKnows, FilesMean, SoundFlash, Rel!NoMarker, Rel!StageVerified,
     Rel!EndFails, Rel!files, Rel!sess, Rel!history, Rel!limits, Rel!SessionAbort, Rel!Fault,
     Rel!FwUpdateConstants
<1>2. ThreadKnows'
  BY Handled DEF FwInv, FwTypes, FwFlags, ThreadKnows, FilesMean, SoundFlash, Rel!NoMarker, Rel!StageVerified,
     Rel!EndFails, Rel!files, Rel!sess, Rel!history, Rel!limits, Rel!SessionAbort, Rel!Fault,
     Rel!FwUpdateConstants
<1>3. FilesMean'
  BY Handled DEF FwInv, FwTypes, FwFlags, ThreadKnows, FilesMean, SoundFlash, Rel!NoMarker, Rel!StageVerified,
     Rel!EndFails, Rel!files, Rel!sess, Rel!history, Rel!limits, Rel!SessionAbort, Rel!Fault,
     Rel!FwUpdateConstants
<1>4. SoundFlash'
  BY Handled DEF FwInv, FwTypes, FwFlags, ThreadKnows, FilesMean, SoundFlash, Rel!NoMarker, Rel!StageVerified,
     Rel!EndFails, Rel!files, Rel!sess, Rel!history, Rel!limits, Rel!SessionAbort, Rel!Fault,
     Rel!FwUpdateConstants
<1>5. FwFlags'
  BY Handled DEF FwInv, FwFlags, Rel!EndFails, Rel!files, Rel!sess, Rel!history, Rel!limits, Rel!SessionAbort,
     Rel!Fault
<1> QED
  BY <1>1, <1>2, <1>3, <1>4, <1>5 DEF FwInv

LEMMA FwEndFlushes == ASSUME FwInv, Rel!EndFlushes PROVE FwInv'
  BY Handled DEF FwInv, FwTypes, FwFlags, ThreadKnows, FilesMean, SoundFlash, Rel!NoMarker, Rel!StageVerified,
     Rel!EndFlushes, Rel!files, Rel!sess, Rel!history, Rel!limits, Rel!FwUpdateConstants

LEMMA FwPowerCut == ASSUME FwInv, Rel!PowerCut PROVE FwInv'
  BY RelConstants DEF FwInv, FwTypes, FwFlags, ThreadKnows, FilesMean, SoundFlash, Rel!NoMarker,
     Rel!StageVerified, Rel!PowerCut, Rel!files, Rel!sess, Rel!history, Rel!limits, Rel!Restart,
     Rel!FwUpdateConstants

LEMMA FwCrash == ASSUME FwInv, Rel!Crash PROVE FwInv'
  BY RelConstants DEF FwInv, FwTypes, FwFlags, ThreadKnows, FilesMean, SoundFlash, Rel!NoMarker,
     Rel!StageVerified, Rel!Crash, Rel!files, Rel!sess, Rel!history, Rel!limits, Rel!Restart,
     Rel!FwUpdateConstants

LEMMA FwBeginOk == ASSUME FwInv, NEW image, Rel!BeginOk(image) PROVE FwInv'
  BY Handled DEF FwInv, FwTypes, FwFlags, ThreadKnows, FilesMean, SoundFlash, Rel!NoMarker, Rel!StageVerified,
     Rel!BeginOk, Rel!files, Rel!sess, Rel!history, Rel!limits, Rel!FwUpdateConstants

LEMMA FwDataOk == ASSUME FwInv, NEW image, NEW offs, Rel!DataOk(image, offs) PROVE FwInv'
  BY Handled DEF FwInv, FwTypes, FwFlags, ThreadKnows, FilesMean, SoundFlash, Rel!NoMarker, Rel!StageVerified,
     Rel!DataOk, Rel!files, Rel!sess, Rel!history, Rel!limits, Rel!FwUpdateConstants

LEMMA FwDataRefused == ASSUME FwInv, NEW offs, Rel!DataRefused(offs) PROVE FwInv'
  BY Handled DEF FwInv, FwTypes, FwFlags, ThreadKnows, FilesMean, SoundFlash, Rel!NoMarker, Rel!StageVerified,
     Rel!DataRefused, Rel!files, Rel!sess, Rel!history, Rel!limits, Rel!FwUpdateConstants

LEMMA FwDataFails == ASSUME FwInv, NEW offs, Rel!DataFails(offs) PROVE FwInv'
<1>1. /\ Rel!HandlesFrame /\ open /\ Rel!Fault /\ Rel!SessionAbort
      /\ app' = app /\ phase' = phase /\ fsOk' = fsOk /\ pending' = pending
  BY DEF Rel!DataFails
<1>2. /\ FwTypes' /\ ThreadKnows' /\ FilesMean' /\ SoundFlash'
  BY <1>1, Handled DEF FwInv, FwTypes, FwFlags, ThreadKnows, FilesMean, SoundFlash, Rel!NoMarker,
     Rel!StageVerified, Rel!Fault,
     Rel!SessionAbort
<1>3. FwFlags'
  BY <1>1, Handled DEF FwInv, FwFlags, Rel!SessionAbort
<1> QED
  BY <1>2, <1>3 DEF FwInv

\* Any step of the RP2040, with any sender.
LEMMA FwStep == ASSUME FwInv, Rel!FwNext PROVE FwInv'
<1> USE DEF Rel!FwNext, Rel!BootStep, Rel!RestageStep, Rel!CommitStep, Rel!XferFrame
<1> HIDE DEF FwInv
<1> QED
  BY FwApply, FwApplied, FwBootNormal, FwMountFails, FwBootPending, FwBootClean, FwRestageArms, FwRestageReturns,
     FwRestageReboots, FwCleanupMarker, FwCleanupFiles, FwVerifyFails, FwSnapshotBegins, FwSnapshot,
     FwWriteMarker, FwArm, FwArmFails, FwReboot, FwTickIdle, FwTickWindow, FwNoteFrameOk, FwOtherFrame,
     FwBeginFails, FwEndRefused, FwEndAborts, FwEndFails, FwEndFlushes, FwPowerCut, FwCrash, FwBeginOk, FwDataOk,
     FwDataRefused, FwDataFails

LEMMA FwSame == ASSUME FwInv, UNCHANGED Rel!fwvars PROVE FwInv'
  BY DEF FwInv, FwTypes, FwFlags, ThreadKnows, FilesMean, SoundFlash, Rel!NoMarker, Rel!StageVerified, Rel!fwvars,
     Rel!files, Rel!sess, Rel!history, Rel!limits

\* Any step of the RP2040 with the relay as the sender.
LEMMA FwRelayed == ASSUME FwInv, Rel!Next PROVE FwInv'
<1> HIDE DEF FwInv
<1>1. CASE Rel!RelayStart \/ Rel!RelayStep \/ Rel!RxFrame \/ Rel!RxHandsOver
  <2>1. UNCHANGED Rel!fwvars
    BY <1>1 DEF Rel!RelayStart, Rel!RelayStep, Rel!RelayTakes, Rel!RelayRetries, Rel!RelayTimesOut, Rel!RelaySends,
                Rel!RelayGivesUp, Rel!RelayHello, Rel!RxFrame, Rel!RxHandsOver
  <2> QED
    BY <2>1, FwSame
<1>2. CASE Rel!RpHandles
  BY <1>2, FwBeginOk, FwDataOk, FwEndAborts, FwBeginFails, FwDataRefused, FwDataFails, FwEndRefused, FwEndFails,
     FwEndFlushes DEF Rel!RpHandles
<1>3. CASE Rel!RpAnswers
  BY <1>3, FwArm, FwVerifyFails, FwCleanupFiles DEF Rel!RpAnswers
<1>4. CASE Rel!RpBoots
  BY <1>4, FwApplied, FwBootNormal DEF Rel!RpBoots
<1>5. CASE Rel!RpRestarts
  BY <1>5, FwReboot, FwRestageReboots, FwPowerCut, FwCrash DEF Rel!RpRestarts
<1>6. CASE Rel!RpWorks
  BY <1>6, FwApply, FwMountFails, FwBootPending, FwBootClean, FwRestageArms, FwRestageReturns, FwCleanupMarker,
     FwCleanupFiles, FwSnapshotBegins, FwSnapshot, FwWriteMarker, FwArmFails, FwTickIdle, FwTickWindow, FwNoteFrameOk,
     FwOtherFrame DEF Rel!RpWorks
<1> QED
  BY <1>1, <1>2, <1>3, <1>4, <1>5, <1>6 DEF Rel!Next

\* What holds of the RP2040 in every behaviour.
LEMMA FwAlways == MCSpec => []FwInv
<1>1. MCInit => FwInv
  <2> SUFFICES ASSUME Rel!Init PROVE FwInv
    BY DEF MCInit, Rel!RelayInit
  <2>1. FwTypes /\ ThreadKnows /\ FilesMean /\ SoundFlash
    BY RelConstants DEF Rel!Init, FwTypes, ThreadKnows, FilesMean, SoundFlash, Rel!NoMarker, Rel!FwUpdateConstants
  <2>2. FwFlags
    BY DEF Rel!Init, FwFlags
  <2> QED
    BY <2>1, <2>2 DEF FwInv
<1>2. FwInv /\ [MCNext]_<<part, vars, getvars, fwvars, relayvars>> => FwInv'
  <2> SUFFICES ASSUME FwInv, [MCNext]_<<part, vars, getvars, fwvars, relayvars>> PROVE FwInv'
    OBVIOUS
  <2> HIDE DEF FwInv
  <2>1. CASE UNCHANGED fwvars
    BY <2>1, FwSame DEF fwvars, Rel!fwvars, Rel!files, Rel!sess, Rel!history, Rel!limits
  <2>2. CASE MCNext
    BY <2>1, <2>2, FwStep, FwRelayed DEF MCNext
  <2> QED
    BY <2>1, <2>2
<1> QED
  BY <1>1, <1>2, PTL DEF MCSpec

\* restage_previous_and_reboot never replaces an image that was confirmed by
\* another one, whatever power cuts and failed flash writes left behind.
THEOREM ConfirmedAlwaysStays == MCSpec => ConfirmedStays
<1>1. FwInv /\ [MCNext]_<<part, vars, getvars, fwvars, relayvars>>
        => [Rel!RestageArms => ~proven \/ prev = app]_(Rel!fwvars)
  BY DEF FwInv, FwTypes, FwFlags, ThreadKnows, FilesMean, Rel!RestageArms
<1> QED
  BY <1>1, FwAlways, PTL DEF MCSpec, ConfirmedStays, Rel!ConfirmedStays

-----------------------------------------------------------------------------
(* The relay and its receiver (FwRelay)                                    *)

Before == seq - tries       \* the last SEQ used before the request under way

LinkTypes ==
    /\ relay \in {"idle", "begin", "fetch", "data", "commit", "abort", "hello"}
    /\ tries \in 1..2 /\ sent \in 0..Frames /\ seq \in Nat /\ staged \in 0..Frames
    /\ DOMAIN handing = {"seq", "result"} /\ handing.seq \in Nat
    /\ answering.seq \in 0..seq
    /\ \E S : down \in Seq(S)
    /\ \E S : up \in Seq(S)

\* Requests are numbered; an answer is to a request that has arrived.
Numbered ==
    /\ \A i \in 1..Len(down) :
          /\ down[i].seq \in 1..seq
          /\ \A j \in 1..Len(down) : i < j => down[i].seq < down[j].seq
          /\ answering.seq < down[i].seq /\ handing.seq < down[i].seq
    /\ \A k \in 1..Len(up) :
          /\ up[k].seq \in 0..seq
          /\ \A i \in 1..Len(down) : up[k].seq < down[i].seq

\* An answer is handed over for the request under way, for its first attempt,
\* or for the last request of a wait that was given up.
HandedOver ==
    /\ Rel!Waiting => seq >= tries
    /\ armed => Rel!Waiting /\ ~sig /\ respOp = Rel!WireOp(relay)
    /\ handing # Rel!NoAnswer =>
          /\ relay \notin {"fetch", "hello"} /\ ~sig /\ handing.seq # 0 /\ handing.seq <= seq /\ handing.seq >= seq - 1
          /\ relay = "idle" => handing.seq = seq
          /\ relay \in {"data", "commit"} => handing.seq > Before
          /\ handing.seq >= Before
    /\ sig => relay \notin {"fetch", "hello"} /\ \A i \in 1..Len(down) : down[i].seq = seq

\* What an earlier request can still be once the next one may be sent.
Leftover(f) == (f.op = "begin" /\ sent = 0) \/ (f.op = "data" /\ f.offset = sent - 1)

Underway ==
    /\ relay = "begin" => sent = 0
    /\ relay = "data" => sent < Frames
    /\ relay = "commit" => sent = Frames
    /\ \A i \in 1..Len(down) :
          /\ Rel!Waiting /\ down[i].seq > Before => down[i].op = relay /\ (relay = "data" => down[i].offset = sent)
          /\ relay = "fetch" => down[i].seq = seq /\ Leftover(down[i])
          /\ relay \in {"data", "commit"} /\ down[i].seq <= Before => Leftover(down[i])

\* What a success means while it is on its way to the relay.
Means(r) ==
    /\ r \in {"idle", "begin"} => (open => staged = 0)
    /\ r = "data" => (open => staged = sent + 1)
    /\ r = "commit" => ~open /\ armedFor = relays
    /\ r = "abort" => ~open

OkMeans ==
    /\ \A k \in 1..Len(up) :
          Rel!Waiting /\ up[k].seq > Before /\ up[k].op = Rel!WireOp(relay) /\ up[k].result = "ok" => Means(relay)
    /\ handing # Rel!NoAnswer /\ handing.result = "ok" /\ (handing.seq > Before \/ relay \in {"idle", "begin"}) => Means(relay)
    /\ sig /\ respResult = "ok" /\ relay \in {"begin", "data", "commit"} => Means(relay)

InStep ==
    /\ open /\ relay = "data" => staged \in {sent, sent + 1}
    /\ open /\ relay \in {"fetch", "commit"} => staged = sent
    /\ relay = "hello" \/ outcome = "done" => armedFor = relays

Prefix == /\ stage \in Seq(Rel!Chunk) /\ buf \in Seq(Rel!Chunk)
          /\ open => stage \o buf = SubSeq(Rel!Full(Update), 1, staged)

LinkInv == LinkTypes /\ Numbered /\ HandedOver /\ Underway /\ OkMeans /\ InStep

-----------------------------------------------------------------------------
\* What a channel holds after a frame was sent, and after one was taken.
LEMMA Sending ==
  ASSUME NEW c, \E S : c \in Seq(S), NEW g, NEW d, d \in Rel!Sends(c, g)
  PROVE  /\ \E S : d \in Seq(S)
         /\ Len(c) \in Nat /\ Len(d) \in Nat /\ Len(d) \in {Len(c), Len(c) + 1}
         /\ \A i \in 1..Len(d) : (i \in 1..Len(c) /\ d[i] = c[i]) \/ (i = Len(c) + 1 /\ d[i] = g)
<1>1. PICK S : c \in Seq(S)
  OBVIOUS
<1>2. c \in Seq(S \cup {g})
  BY <1>1
<1>3. CASE d = c
  BY <1>1, <1>3
<1>4. CASE d = Append(c, g)
  <2>1. /\ d \in Seq(S \cup {g}) /\ Len(d) = Len(c) + 1 /\ Len(c) \in Nat
        /\ \A i \in 1..Len(c) : d[i] = c[i]
        /\ d[Len(c) + 1] = g
    BY <1>2, <1>4, AppendProperties
  <2> QED
    BY <2>1
<1> QED
  BY <1>3, <1>4 DEF Rel!Sends

LEMMA Taking ==
  ASSUME NEW c, \E S : c \in Seq(S), c # <<>>
  PROVE  /\ \E S : Tail(c) \in Seq(S)
         /\ Len(c) \in Nat /\ 1 \in 1..Len(c) /\ Head(c) = c[1] /\ Len(Tail(c)) = Len(c) - 1
         /\ \A i \in 1..Len(Tail(c)) : i + 1 \in 1..Len(c) /\ Tail(c)[i] = c[i + 1]
<1>1. PICK S : c \in Seq(S)
  OBVIOUS
<1>2. Len(c) \in Nat /\ Len(c) # 0
  BY <1>1, EmptySeq
<1>3. Tail(c) \in Seq(S) /\ Head(c) = c[1] /\ Len(Tail(c)) = Len(c) - 1 /\ \A i \in 1..Len(Tail(c)) : Tail(c)[i] = c[i + 1]
  BY <1>1, <1>2, HeadTailProperties
<1> QED
  BY <1>2, <1>3

\* The receiver goes on without a request: it keeps its session or closes it.
Quiet == /\ open' => open /\ staged' = staged /\ stage' = stage /\ buf' = buf
         /\ staged' \in {staged, 0} /\ stage' \in {stage, <<>>} /\ buf' \in {buf, <<>>}

LEMMA QuietLink ==
  ASSUME LinkInv, Quiet,
         UNCHANGED <<relay, tries, sent, seq, outcome, relays, armed, respOp, respResult, sig, handing, down>>,
         answering' \in {answering, Rel!Nobody}, armedFor' \in {armedFor, relays},
         NEW g, up' \in Rel!Sends(up, g), g.seq \in 0..seq, \A i \in 1..Len(down) : g.seq < down[i].seq,
         Rel!Waiting /\ g.seq > Before /\ g.op = Rel!WireOp(relay) /\ g.result = "ok" => Means(relay)'
  PROVE  LinkInv'
<1>0. \E S : up \in Seq(S)
  BY DEF LinkInv, LinkTypes
<1>1. /\ \E S : up' \in Seq(S)
      /\ Len(up) \in Nat /\ Len(up') \in Nat
      /\ \A i \in 1..Len(up') : (i \in 1..Len(up) /\ up'[i] = up[i]) \/ (i = Len(up) + 1 /\ up'[i] = g)
  BY <1>0, Sending
<1>2. answering'.seq \in 0..seq
      /\ \A i \in 1..Len(down) : answering'.seq < down[i].seq
  BY DEF LinkInv, LinkTypes, Numbered, Rel!Nobody
<1>3. LinkTypes'
  BY <1>1, <1>2, RelConstants DEF LinkInv, LinkTypes, Quiet, Rel!FwUpdateConstants
<1>4. Numbered'
  BY <1>1, <1>2 DEF LinkInv, Numbered
<1>5. HandedOver'
  BY DEF LinkInv, HandedOver, Rel!Waiting, Before
<1>6. Underway'
  BY DEF LinkInv, Underway, Rel!Waiting, Before, Leftover
<1>7. Means(relay) => Means(relay)'
  BY DEF Quiet, Means
<1>8. OkMeans'
  <2> HIDE DEF Means
  <2> QED
    BY <1>1, <1>7 DEF LinkInv, OkMeans, Rel!Waiting, Before
<1>9. InStep'
  BY DEF LinkInv, InStep, Quiet
<1> QED
  BY <1>3, <1>4, <1>5, <1>6, <1>8, <1>9 DEF LinkInv

LEMMA QuietSteps ==
  ASSUME FwInv,
         \/ Rel!Apply \/ Rel!Applied \/ Rel!BootNormal \/ Rel!MountFails \/ Rel!BootPending \/ Rel!BootClean
         \/ Rel!RestageStep \/ Rel!CommitStep \/ Rel!TickIdle \/ Rel!TickWindow \/ Rel!NoteFrameOk \/ Rel!OtherFrame
         \/ Rel!PowerCut \/ Rel!Crash
  PROVE  Quiet
<1> USE DEF Quiet, Rel!files, Rel!sess
<1>1. CASE Rel!Apply \/ Rel!Applied \/ Rel!BootNormal \/ Rel!MountFails \/ Rel!BootPending
  BY <1>1 DEF Rel!Apply, Rel!Applied, Rel!BootNormal, Rel!MountFails, Rel!BootPending
<1>2. CASE Rel!BootClean \/ Rel!VerifyFails
  <2>1. ~open
    BY <1>2 DEF Rel!BootClean, Rel!VerifyFails, FwInv, ThreadKnows
  <2> QED
    BY <1>2, <2>1 DEF Rel!BootClean, Rel!VerifyFails
<1>3. CASE Rel!RestageReboots \/ Rel!Reboot \/ Rel!PowerCut \/ Rel!Crash
  BY <1>3 DEF Rel!RestageReboots, Rel!Reboot, Rel!PowerCut, Rel!Crash, Rel!Restart
<1>4. CASE Rel!TickIdle \/ Rel!TickWindow \/ Rel!NoteFrameOk \/ Rel!OtherFrame
  BY <1>4 DEF Rel!TickIdle, Rel!TickWindow, Rel!NoteFrameOk, Rel!OtherFrame, Rel!SessionAbort
<1>5. CASE Rel!RestageArms \/ Rel!RestageReturns \/ Rel!CleanupMarker \/ Rel!CleanupFiles
  BY <1>5 DEF Rel!RestageArms, Rel!RestageReturns, Rel!CleanupMarker, Rel!CleanupFiles
<1>6. CASE Rel!SnapshotBegins \/ Rel!Snapshot \/ Rel!WriteMarker \/ Rel!Arm \/ Rel!ArmFails
  BY <1>6 DEF Rel!SnapshotBegins, Rel!Snapshot, Rel!WriteMarker, Rel!Arm, Rel!ArmFails
<1> QED
  BY <1>1, <1>2, <1>3, <1>4, <1>5, <1>6 DEF Rel!RestageStep, Rel!CommitStep

\* The RP2040 works, restarts, says hello or answers END.
LEMMA RpSteps ==
  ASSUME FwInv, LinkInv, Rel!RpWorks \/ Rel!RpRestarts \/ Rel!RpBoots \/ Rel!RpAnswers
  PROVE  LinkInv' /\ Quiet
<1> USE DEF Rel!relayvars, Rel!task, Rel!waiter, Rel!wire
<1>0. \E S : up \in Seq(S)
  BY DEF LinkInv, LinkTypes
<1>h. /\ Rel!Hello.seq = 0 /\ Rel!Hello.op = "hello"
  BY DEF Rel!Hello
<1>i. Rel!Waiting => Rel!Hello.op # Rel!WireOp(relay)
  BY <1>h DEF Rel!Waiting, Rel!WireOp
<1>j. up \in Rel!Sends(up, Rel!Hello)
  BY DEF Rel!Sends
<1>k. seq \in Nat /\ answering.seq \in 0..seq /\ \A i \in 1..Len(down) : 0 < down[i].seq /\ answering.seq < down[i].seq
  BY DEF LinkInv, LinkTypes, Numbered
<1> HIDE DEF LinkInv, Quiet, FwInv
<1>1. CASE Rel!RpWorks \/ Rel!RpRestarts
  <2>1. Quiet
    BY <1>1, QuietSteps DEF Rel!RpWorks, Rel!RpRestarts, Rel!RestageStep, Rel!CommitStep
  <2>2. /\ UNCHANGED <<relay, tries, sent, seq, outcome, relays, armed, respOp, respResult, sig, handing, down>>
        /\ answering' \in {answering, Rel!Nobody} /\ armedFor' = armedFor /\ up' = up
    BY <1>1 DEF Rel!RpWorks, Rel!RpRestarts
  <2> QED
    BY <1>h, <1>i, <1>j, <1>k, <2>1, <2>2, QuietLink
<1>2. CASE Rel!RpBoots
  <2>1. Quiet
    BY <1>2, QuietSteps DEF Rel!RpBoots
  <2>2. /\ UNCHANGED <<relay, tries, sent, seq, outcome, relays, armed, respOp, respResult, sig, handing, down>>
        /\ answering' = answering /\ armedFor' = armedFor /\ up' \in Rel!Sends(up, Rel!Hello)
    BY <1>2 DEF Rel!RpBoots
  <2> QED
    BY <1>h, <1>i, <1>k, <2>1, <2>2, QuietLink
<1>3. CASE Rel!RpAnswers
  <2>1. Quiet
    BY <1>3, QuietSteps DEF Rel!RpAnswers, Rel!RestageStep, Rel!CommitStep
  <2>2. /\ UNCHANGED <<relay, tries, sent, seq, outcome, relays, armed, respOp, respResult, sig, handing, down>>
        /\ answering' = Rel!Nobody /\ armedFor' \in {armedFor, relays}
    BY <1>3 DEF Rel!RpAnswers
  <2>3. CASE Rel!Arm /\ Rel!Reply(answering, "ok") /\ armedFor' = relays
    <3>1. ~open'
      BY <2>3 DEF Rel!Arm, Rel!sess, FwInv, ThreadKnows
    <3>2. PICK g : g = [op |-> Rel!WireOp(answering.op), seq |-> answering.seq, result |-> "ok"] /\ up' \in Rel!Sends(up, g)
      BY <2>3 DEF Rel!Reply
    <3>3. Means(relay)'
      BY <2>2, <2>3, <3>1 DEF Means
    <3>4. g.seq = answering.seq
      BY <3>2
    <3> QED
      BY <1>k, <2>1, <2>2, <3>2, <3>3, <3>4, QuietLink
  <2>4. CASE Rel!Reply(answering, "refused")
    <3>1. PICK g : g = [op |-> Rel!WireOp(answering.op), seq |-> answering.seq, result |-> "refused"] /\ up' \in Rel!Sends(up, g)
      BY <2>4 DEF Rel!Reply
    <3>2. g.seq = answering.seq /\ g.result # "ok"
      BY <3>1
    <3> QED
      BY <1>k, <2>1, <2>2, <3>1, <3>2, QuietLink
  <2> QED
    BY <1>3, <2>1, <2>3, <2>4 DEF Rel!RpAnswers
<1> QED
  BY <1>1, <1>2, <1>3

-----------------------------------------------------------------------------
\* What the receiver makes of a request f, and what it answers.
Served(f, g) ==
    /\ down' = Tail(down) /\ up' \in Rel!Sends(up, g) /\ answering' \in {answering, f}
    /\ UNCHANGED <<relay, tries, sent, seq, outcome, relays, armed, respOp, respResult, sig, handing, armedFor>>
    /\ g.seq = f.seq /\ g.op = Rel!WireOp(f.op)
    /\ staged' \in 0..Frames
    /\ open' => \/ open /\ staged' = staged
                \/ f.op = "begin" /\ staged' = 0
                \/ f.op = "data" /\ open /\ f.offset = staged /\ staged' = staged + 1
    /\ g.result = "ok" => \/ f.op = "begin" /\ staged' = 0
                          \/ f.op = "data" /\ f.offset = staged /\ staged' = staged + 1
                          \/ f.op = "abort" /\ ~open'

LEMMA Serves ==
  ASSUME LinkInv, Rel!RpHandles
  PROVE  down # <<>> /\ \E g : Served(Head(down), g)
<1> PICK f : f = Head(down)
  OBVIOUS
<1> DEFINE g(result) == [op |-> Rel!WireOp(f.op), seq |-> f.seq, result |-> result]
<1>0. \A r : g(r).op = Rel!WireOp(f.op) /\ g(r).seq = f.seq /\ g(r).result = r
  OBVIOUS
<1>1. /\ down # <<>> /\ down' = Tail(down)
      /\ UNCHANGED <<relay, tries, sent, seq, outcome, relays, armed, respOp, respResult, sig, handing, armedFor>>
  BY DEF Rel!RpHandles, Rel!relayvars, Rel!task, Rel!waiter
<1>2. staged \in 0..Frames /\ Frames \in Nat \ {0}
  BY RelConstants DEF LinkInv, LinkTypes, Rel!FwUpdateConstants
<1>3. CASE f.op = "begin" /\ Rel!BeginOk(Update) /\ Rel!Reply(f, "ok") /\ UNCHANGED answering
  <2>1. Served(f, g("ok"))
    BY <1>0, <1>1, <1>2, <1>3 DEF Served, Rel!BeginOk, Rel!Reply
  <2> QED
    BY <1>1, <2>1
<1>4. CASE f.op = "data" /\ Rel!DataOk(Update, f.offset) /\ Rel!Reply(f, "ok") /\ UNCHANGED answering
  <2>1. open /\ f.offset = staged /\ staged < Frames /\ staged' = staged + 1
    BY <1>4 DEF Rel!DataOk
  <2>2. Served(f, g("ok"))
    BY <1>0, <1>1, <1>2, <1>4, <2>1 DEF Served, Rel!Reply
  <2> QED
    BY <1>1, <2>2
<1>5. CASE f.op = "abort" /\ Rel!EndAborts /\ Rel!Reply(f, "ok") /\ UNCHANGED answering
  <2>1. ~open' /\ staged' = staged
    BY <1>5 DEF Rel!EndAborts, Rel!SessionAbort
  <2>2. Served(f, g("ok"))
    BY <1>0, <1>1, <1>2, <1>5, <2>1 DEF Served, Rel!Reply
  <2> QED
    BY <1>1, <2>2
<1>6. CASE /\ \/ Rel!BeginFails \/ Rel!DataRefused(f.offset) \/ Rel!DataFails(f.offset) \/ Rel!EndRefused \/ Rel!EndFails
           /\ Rel!Reply(f, "refused") /\ UNCHANGED answering
  <2>1. (open' => open) /\ staged' = staged
    BY <1>6 DEF Rel!BeginFails, Rel!DataRefused, Rel!DataFails, Rel!EndRefused, Rel!EndFails, Rel!SessionAbort,
       Rel!sess
  <2>2. Served(f, g("refused"))
    BY <1>0, <1>1, <1>2, <1>6, <2>1 DEF Served, Rel!Reply
  <2> QED
    BY <1>1, <2>2
<1>7. CASE Rel!EndFlushes /\ answering' = f /\ UNCHANGED up
  <2>1. ~open' /\ staged' = staged
    BY <1>7 DEF Rel!EndFlushes
  <2>2. Served(f, g("refused"))
    BY <1>0, <1>1, <1>2, <1>7, <2>1 DEF Served, Rel!Sends
  <2> QED
    BY <1>1, <2>2
<1> QED
  BY <1>3, <1>4, <1>5, <1>6, <1>7 DEF Rel!RpHandles

LEMMA ServedLink ==
  ASSUME LinkInv, down # <<>>, NEW g, Served(Head(down), g)
  PROVE  LinkInv'
<1>0. PICK f : f = Head(down)
  OBVIOUS
<1>1. (\E S : up \in Seq(S)) /\ (\E S : down \in Seq(S))
  BY DEF LinkInv, LinkTypes
<1>2. /\ \E S : up' \in Seq(S)
      /\ Len(up) \in Nat /\ Len(up') \in Nat
      /\ \A i \in 1..Len(up') : (i \in 1..Len(up) /\ up'[i] = up[i]) \/ (i = Len(up) + 1 /\ up'[i] = g)
  BY <1>1, Sending DEF Served
<1>3. /\ \E S : down' \in Seq(S)
      /\ Len(down) \in Nat /\ 1 \in 1..Len(down) /\ f = down[1] /\ Len(down') = Len(down) - 1
      /\ \A i \in 1..Len(down') : i + 1 \in 1..Len(down) /\ down'[i] = down[i + 1]
  BY <1>0, <1>1, Taking DEF Served
<1>4. /\ UNCHANGED <<relay, tries, sent, seq, outcome, relays, armed, respOp, respResult, sig, handing, armedFor>>
      /\ g.seq = f.seq /\ g.op = Rel!WireOp(f.op) /\ staged' \in 0..Frames /\ answering' \in {answering, f}
      /\ open' => \/ open /\ staged' = staged
                  \/ f.op = "begin" /\ staged' = 0
                  \/ f.op = "data" /\ open /\ f.offset = staged /\ staged' = staged + 1
      /\ g.result = "ok" => \/ f.op = "begin" /\ staged' = 0
                            \/ f.op = "data" /\ f.offset = staged /\ staged' = staged + 1
                            \/ f.op = "abort" /\ ~open'
  BY <1>0 DEF Served
<1>5. /\ f.seq \in 1..seq /\ handing.seq < f.seq /\ seq \in Nat
      /\ \A k \in 1..Len(up) : up[k].seq < f.seq
      /\ \A i \in 1..Len(down') : f.seq < down'[i].seq
  <2>1. f.seq \in 1..seq /\ handing.seq < f.seq /\ seq \in Nat /\ \A k \in 1..Len(up) : up[k].seq < f.seq
    BY <1>3 DEF LinkInv, LinkTypes, Numbered
  <2>2. \A j \in 1..Len(down) : 1 < j => f.seq < down[j].seq
    BY <1>3 DEF LinkInv, Numbered
  <2>3. ASSUME NEW i \in 1..Len(down') PROVE f.seq < down'[i].seq
    <3>1. i + 1 \in 1..Len(down) /\ 1 < i + 1 /\ down'[i] = down[i + 1]
      BY <1>3, <2>3
    <3> QED
      BY <2>2, <3>1
  <2> QED
    BY <2>1, <2>3
<1>6. LinkTypes'
  BY <1>2, <1>3, <1>4, <1>5 DEF LinkInv, LinkTypes
<1>7. Numbered'
  <2>1. ASSUME NEW i \in 1..Len(down')
        PROVE  /\ down'[i].seq \in 1..seq /\ answering'.seq < down'[i].seq /\ handing.seq < down'[i].seq
               /\ \A k \in 1..Len(up) : up[k].seq < down'[i].seq
               /\ \A j \in 1..Len(down') : i < j => down'[i].seq < down'[j].seq
    <3>1. i + 1 \in 1..Len(down) /\ down'[i] = down[i + 1]
      BY <1>3, <2>1
    <3>2. down'[i].seq \in 1..seq /\ answering.seq < down'[i].seq /\ handing.seq < down'[i].seq
          /\ \A k \in 1..Len(up) : up[k].seq < down'[i].seq
      BY <3>1 DEF LinkInv, Numbered
    <3>3. answering'.seq < down'[i].seq
      BY <1>4, <1>5, <2>1, <3>2
    <3>4. ASSUME NEW j \in 1..Len(down'), i < j PROVE down'[i].seq < down'[j].seq
      <4>1. j + 1 \in 1..Len(down) /\ down'[j] = down[j + 1] /\ i + 1 < j + 1
        BY <1>3, <2>1, <3>4
      <4> QED
        BY <3>1, <4>1 DEF LinkInv, Numbered
    <3> QED
      BY <3>2, <3>3, <3>4
  <2>2. ASSUME NEW k \in 1..Len(up')
        PROVE  up'[k].seq \in 0..seq /\ \A i \in 1..Len(down') : up'[k].seq < down'[i].seq
    <3>1. CASE k \in 1..Len(up) /\ up'[k] = up[k]
      BY <2>1, <3>1 DEF LinkInv, Numbered
    <3>2. CASE up'[k] = g
      BY <1>4, <1>5, <3>2
    <3> QED
      BY <1>2, <2>2, <3>1, <3>2
  <2>3. seq' = seq /\ handing' = handing
    BY <1>4
  <2> QED
    BY <2>1, <2>2, <2>3 DEF Numbered
<1>8. HandedOver'
  BY <1>3, <1>4 DEF LinkInv, HandedOver, Rel!Waiting, Before
<1>9. Underway'
  BY <1>3, <1>4 DEF LinkInv, Underway, Rel!Waiting, Before, Leftover
<1>10. ASSUME Rel!Waiting, f.seq > Before
       PROVE  f.op = relay /\ (relay = "data" => f.offset = sent) /\ (Means(relay) => Means(relay)')
  <2>1. f.op = relay /\ (relay = "data" => f.offset = sent)
    BY <1>3, <1>10 DEF LinkInv, Underway
  <2> QED
    BY <1>4, <1>10, <2>1 DEF LinkInv, LinkTypes, Means, Rel!Waiting
<1>11. OkMeans'
  <2>1. ASSUME NEW k \in 1..Len(up'), Rel!Waiting, up'[k].seq > Before, up'[k].op = Rel!WireOp(relay), up'[k].result = "ok"
        PROVE  Means(relay)'
    <3>1. CASE k \in 1..Len(up) /\ up'[k] = up[k]
      BY <1>5, <1>10, <2>1, <3>1 DEF LinkInv, LinkTypes, OkMeans, Numbered, Before
    <3>2. CASE up'[k] = g
      <4>1. f.op = relay /\ (relay = "data" => f.offset = sent)
        BY <1>4, <1>10, <2>1, <3>2
      <4> QED
        BY <1>4, <2>1, <3>2, <4>1 DEF Means, Rel!Waiting
    <3> QED
      BY <1>2, <2>1, <3>1, <3>2
  <2>2. ASSUME handing # Rel!NoAnswer, handing.result = "ok", handing.seq > Before \/ relay \in {"idle", "begin"}
        PROVE  Means(relay)'
    <3>1. relay # "idle" /\ relay \notin {"fetch", "hello"} /\ handing.seq >= Before
      BY <1>5, <2>2 DEF LinkInv, LinkTypes, HandedOver
    <3>2. Rel!Waiting /\ f.seq > Before
      BY <1>5, <3>1 DEF LinkInv, LinkTypes, Rel!Waiting, Before
    <3> QED
      BY <1>10, <2>2, <3>2 DEF LinkInv, OkMeans
  <2>3. ASSUME sig, respResult = "ok", relay \in {"begin", "data", "commit"}
        PROVE  Means(relay)'
    <3>1. Rel!Waiting /\ f.seq > Before
      BY <1>3, <1>5, <2>3 DEF LinkInv, LinkTypes, HandedOver, Rel!Waiting, Before
    <3> QED
      BY <1>10, <2>3, <3>1 DEF LinkInv, OkMeans
  <2>4. /\ relay' = relay /\ handing' = handing /\ sig' = sig /\ respResult' = respResult /\ Before' = Before
        /\ (Rel!Waiting' <=> Rel!Waiting)
    BY <1>4 DEF Rel!Waiting, Before
  <2> HIDE DEF Means
  <2> QED
    BY <2>1, <2>2, <2>3, <2>4 DEF OkMeans
<1>12. InStep'
  <2>1. CASE relay = "data"
    BY <1>3, <1>4, <1>5, <2>1, SMTT(60) DEF LinkInv, LinkTypes, InStep, Underway, Rel!Waiting, Leftover, Before
  <2>2. CASE relay = "fetch"
    BY <1>3, <1>4, <1>5, <2>2 DEF LinkInv, LinkTypes, InStep, Underway, Rel!Waiting, Leftover, Before
  <2>3. CASE relay = "commit"
    BY <1>3, <1>4, <1>5, <2>3, RelConstants DEF LinkInv, LinkTypes, InStep, Underway, Rel!Waiting, Leftover, Before,
       Rel!FwUpdateConstants
  <2>4. CASE relay \notin {"data", "fetch", "commit"}
    BY <1>4, <2>4 DEF LinkInv, InStep
  <2> QED
    BY <2>1, <2>2, <2>3, <2>4
<1> QED
  BY <1>6, <1>7, <1>8, <1>9, <1>11, <1>12 DEF LinkInv

-----------------------------------------------------------------------------
\* The receiver task of the ESP32 checks an answer, and hands it over.
LEMMA RxFrameLink ==
  ASSUME LinkInv, Rel!RxFrame
  PROVE  LinkInv'
<1>0. PICK f : f = Head(up)
  OBVIOUS
<1>1. \E S : up \in Seq(S)
  BY DEF LinkInv, LinkTypes
<1>2. /\ UNCHANGED <<relay, tries, sent, seq, outcome, relays, armed, respOp, respResult, sig, down, answering,
                     armedFor, open, staged>>
      /\ handing = Rel!NoAnswer /\ up # <<>> /\ up' = Tail(up)
      /\ handing' = IF armed /\ f.op = respOp /\ f.seq = seq THEN [seq |-> f.seq, result |-> f.result] ELSE Rel!NoAnswer
  BY <1>0 DEF Rel!RxFrame, Rel!fwvars, Rel!sess, Rel!task, Rel!waiter
<1>3. /\ \E S : up' \in Seq(S)
      /\ Len(up) \in Nat /\ 1 \in 1..Len(up) /\ f = up[1]
      /\ \A i \in 1..Len(up') : i + 1 \in 1..Len(up) /\ up'[i] = up[i + 1]
  BY <1>0, <1>1, <1>2, Taking
<1>4. /\ DOMAIN handing' = {"seq", "result"} /\ handing'.seq \in Nat
      /\ handing' # Rel!NoAnswer =>
            armed /\ f.op = respOp /\ f.seq = seq /\ handing'.seq = f.seq /\ handing'.result = f.result
      /\ handing'.seq \in {0, f.seq}
  BY <1>2 DEF Rel!NoAnswer, LinkInv, LinkTypes
<1>5. handing' # Rel!NoAnswer =>
        /\ Rel!Waiting /\ ~sig /\ seq >= tries /\ up[1].op = Rel!WireOp(relay) /\ up[1].seq = seq
        /\ handing'.seq = seq /\ handing'.result = up[1].result
  BY <1>3, <1>4 DEF LinkInv, HandedOver
<1>6. LinkTypes'
  BY <1>2, <1>3, <1>4 DEF LinkInv, LinkTypes
<1>7. Numbered'
  <2>1. \A i \in 1..Len(down) : handing'.seq < down[i].seq
    BY <1>3, <1>4 DEF LinkInv, LinkTypes, Numbered
  <2> QED
    BY <1>2, <1>3, <2>1 DEF LinkInv, Numbered
<1>8. HandedOver'
  BY <1>2, <1>5 DEF LinkInv, LinkTypes, HandedOver, Rel!Waiting, Before
<1>9. Underway'
  BY <1>2 DEF LinkInv, Underway, Rel!Waiting, Before, Leftover
<1>10. Means(relay) => Means(relay)'
  BY <1>2 DEF Means
<1>11. OkMeans'
  <2>1. ASSUME handing' # Rel!NoAnswer, handing'.result = "ok"
        PROVE  Means(relay)
    BY <1>3, <1>5, <2>1 DEF LinkInv, LinkTypes, OkMeans, Before
  <2> HIDE DEF Means
  <2> QED
    BY <1>2, <1>3, <1>10, <2>1 DEF LinkInv, OkMeans, Rel!Waiting, Before
<1>12. InStep'
  BY <1>2 DEF LinkInv, InStep
<1> QED
  BY <1>6, <1>7, <1>8, <1>9, <1>11, <1>12 DEF LinkInv

LEMMA RxHandsOverLink ==
  ASSUME LinkInv, Rel!RxHandsOver
  PROVE  LinkInv'
<1>1. /\ UNCHANGED <<relay, tries, sent, seq, outcome, relays, respOp, down, up, answering, armedFor, open, staged>>
      /\ handing # Rel!NoAnswer /\ respResult' = handing.result /\ ~armed' /\ sig' /\ handing' = Rel!NoAnswer
  BY DEF Rel!RxHandsOver, Rel!fwvars, Rel!sess, Rel!task, Rel!wire
<1>2. DOMAIN handing' = {"seq", "result"} /\ handing'.seq = 0
  BY <1>1 DEF Rel!NoAnswer
<1>3. LinkTypes'
  BY <1>1, <1>2 DEF LinkInv, LinkTypes
<1>4. Numbered'
  BY <1>1, <1>2 DEF LinkInv, Numbered
<1>5. HandedOver'
  BY <1>1 DEF LinkInv, LinkTypes, HandedOver, Numbered, Rel!Waiting, Before
<1>6. Underway'
  BY <1>1 DEF LinkInv, Underway, Rel!Waiting, Before, Leftover
<1>7. Means(relay) => Means(relay)'
  BY <1>1 DEF Means
<1>8. OkMeans'
  <2> HIDE DEF Means
  <2> QED
    BY <1>1, <1>7 DEF LinkInv, OkMeans, HandedOver, Rel!Waiting, Before
<1>9. InStep'
  BY <1>1 DEF LinkInv, InStep
<1> QED
  BY <1>3, <1>4, <1>5, <1>6, <1>8, <1>9 DEF LinkInv

-----------------------------------------------------------------------------
\* A request is sent: it gets the next number.
LEMMA Sent ==
  ASSUME LinkInv, NEW op, NEW offs, Rel!SendReq(op, offs), UNCHANGED <<handing, up, answering>>
  PROVE  /\ seq \in Nat /\ seq' = seq + 1 /\ ~sig' /\ respOp' = Rel!WireOp(op)
         /\ handing.seq <= seq /\ \A k \in 1..Len(up) : up[k].seq <= seq
         /\ \E S : down' \in Seq(S)
         /\ \A i \in 1..Len(down') : down'[i].seq \in Nat
         /\ \A i \in 1..Len(down') : \/ i \in 1..Len(down) /\ down'[i] = down[i] /\ down[i].seq <= seq
                                     \/ down'[i].seq = seq + 1 /\ down'[i].op = op /\ down'[i].offset = offs
         /\ Numbered'
<1>1. PICK f : f = [op |-> op, offset |-> offs, seq |-> seq'] /\ down' \in Rel!Sends(down, f)
  BY DEF Rel!SendReq
<1>2. seq \in Nat /\ seq' = seq + 1 /\ ~sig' /\ respOp' = Rel!WireOp(op) /\ \E S : down \in Seq(S)
  BY DEF Rel!SendReq, LinkInv, LinkTypes
<1>3. f.seq = seq + 1 /\ f.op = op /\ f.offset = offs
  BY <1>1, <1>2
<1>4. /\ \E S : down' \in Seq(S)
      /\ Len(down) \in Nat /\ Len(down') \in Nat
      /\ \A i \in 1..Len(down') : (i \in 1..Len(down) /\ down'[i] = down[i]) \/ (i = Len(down) + 1 /\ down'[i] = f)
  BY <1>1, <1>2, Sending
<1>5. handing.seq <= seq /\ handing.seq \in Nat /\ answering.seq \in 0..seq /\ \A k \in 1..Len(up) : up[k].seq \in 0..seq
  BY DEF LinkInv, LinkTypes, Numbered, HandedOver, Rel!NoAnswer
<1>6. \A i \in 1..Len(down) : down[i].seq \in 1..seq
  BY DEF LinkInv, Numbered
<1>7. ASSUME NEW i \in 1..Len(down')
      PROVE  /\ down'[i].seq \in 1..seq' /\ answering.seq < down'[i].seq /\ handing.seq < down'[i].seq
             /\ \A j \in 1..Len(down') : i < j => down'[i].seq < down'[j].seq
             /\ \A k \in 1..Len(up) : up[k].seq < down'[i].seq
  <2>1. CASE i \in 1..Len(down) /\ down'[i] = down[i]
    <3>1. \A j \in 1..Len(down') : i < j => down'[i].seq < down'[j].seq
      <4> SUFFICES ASSUME NEW j \in 1..Len(down'), i < j PROVE down[i].seq < down'[j].seq
        BY <2>1
      <4>1. CASE j \in 1..Len(down) /\ down'[j] = down[j]
        BY <2>1, <4>1 DEF LinkInv, Numbered
      <4>2. CASE down'[j] = f
        BY <1>2, <1>3, <1>6, <2>1, <4>2
      <4> QED
        BY <1>4, <4>1, <4>2
    <3> QED
      BY <1>2, <1>6, <2>1, <3>1 DEF LinkInv, Numbered
  <2>2. CASE i = Len(down) + 1 /\ down'[i] = f
    <3>1. \A j \in 1..Len(down') : ~(i < j)
      BY <1>4, <2>2
    <3> QED
      BY <1>2, <1>3, <1>5, <2>2, <3>1
  <2> QED
    BY <1>4, <1>7, <2>1, <2>2
<1>8. Numbered'
  BY <1>2, <1>5, <1>7 DEF Numbered
<1> QED
  BY <1>2, <1>3, <1>4, <1>5, <1>6, <1>7, <1>8

-----------------------------------------------------------------------------
\* The relay starts.
LEMMA RelayStartLink ==
  ASSUME LinkInv, Rel!RelayStart
  PROVE  LinkInv'
<1>1. /\ relay = "idle" /\ relay' = "begin" /\ tries' = 1 /\ sent' = 0 /\ outcome' = "started" /\ Rel!SendReq("begin", 0)
      /\ UNCHANGED <<handing, up, answering, armedFor, open, staged>>
  BY DEF Rel!RelayStart, Rel!Request, Rel!fwvars, Rel!sess
<1>2. /\ seq \in Nat /\ seq' = seq + 1 /\ ~sig' /\ respOp' = Rel!WireOp("begin")
      /\ handing.seq <= seq /\ \A k \in 1..Len(up) : up[k].seq <= seq
      /\ \E S : down' \in Seq(S)
      /\ \A i \in 1..Len(down') : down'[i].seq \in Nat
      /\ \A i \in 1..Len(down') : \/ i \in 1..Len(down) /\ down'[i] = down[i] /\ down[i].seq <= seq
                                  \/ down'[i].seq = seq + 1 /\ down'[i].op = "begin" /\ down'[i].offset = 0
      /\ Numbered'
  BY <1>1, Sent
<1>3. LinkTypes'
  BY <1>1, <1>2, RelConstants DEF LinkInv, LinkTypes, Rel!FwUpdateConstants
<1>4. HandedOver'
  BY <1>1, <1>2 DEF LinkInv, LinkTypes, HandedOver, Rel!Waiting, Before
<1>5. Underway'
  <2>1. ASSUME NEW i \in 1..Len(down'), down'[i].seq > seq PROVE down'[i].op = "begin"
    BY <1>2, <2>1
  <2>2. Before' = seq
    BY <1>1, <1>2 DEF Before
  <2> QED
    BY <1>1, <2>1, <2>2 DEF Underway
<1>6. OkMeans'
  BY <1>1, <1>2 DEF LinkInv, LinkTypes, OkMeans, Numbered, Before, Means
<1>7. InStep'
  BY <1>1 DEF InStep
<1> QED
  BY <1>2, <1>3, <1>4, <1>5, <1>6, <1>7 DEF LinkInv

\* A request follows another one: the session is aborted, or goes on.
LEMMA RequestLink ==
  ASSUME LinkInv, NEW op \in {"data", "commit", "abort"}, NEW offs, Rel!Request(op, offs),
         \/ relay = "fetch" /\ op = "data" /\ offs = sent /\ sent < Frames
         \/ relay = "fetch" /\ op = "commit" /\ sent = Frames
         \/ relay \in {"fetch", "data"} /\ op = "abort" /\ handing.seq \in {0, seq},
         UNCHANGED <<handing, up, answering, armedFor, open, staged, sent, outcome, relays>>
  PROVE  LinkInv'
<1>1. relay' = op /\ tries' = 1 /\ Rel!SendReq(op, offs)
  BY DEF Rel!Request
<1>2. /\ seq \in Nat /\ seq' = seq + 1 /\ ~sig' /\ respOp' = Rel!WireOp(op)
      /\ handing.seq <= seq /\ \A k \in 1..Len(up) : up[k].seq <= seq
      /\ \E S : down' \in Seq(S)
      /\ \A i \in 1..Len(down') : down'[i].seq \in Nat
      /\ \A i \in 1..Len(down') : \/ i \in 1..Len(down) /\ down'[i] = down[i] /\ down[i].seq <= seq
                                  \/ down'[i].seq = seq + 1 /\ down'[i].op = op /\ down'[i].offset = offs
      /\ Numbered'
  BY <1>1, Sent
<1>3. LinkTypes'
  BY <1>1, <1>2 DEF LinkInv, LinkTypes
<1>4. HandedOver'
  BY <1>1, <1>2 DEF LinkInv, LinkTypes, HandedOver, Rel!Waiting, Before
<1>5. Underway'
  <2>1. Before' = seq
    BY <1>1, <1>2 DEF Before
  <2>2. ASSUME NEW i \in 1..Len(down')
        PROVE  /\ down'[i].seq > seq => down'[i].op = op /\ down'[i].offset = offs
               /\ down'[i].seq <= seq => i \in 1..Len(down) /\ down'[i] = down[i]
    BY <1>2, <2>2
  <2>3. ASSUME NEW i \in 1..Len(down), relay = "fetch" PROVE Leftover(down[i]) /\ (sent = Frames => down[i].op = "data")
    BY <2>3, RelConstants DEF LinkInv, Underway, Leftover, Rel!FwUpdateConstants
  <2>4. ASSUME NEW i \in 1..Len(down'), relay' \in {"data", "commit"}, down'[i].seq <= seq PROVE Leftover(down[i])'
    <3>1. i \in 1..Len(down) /\ down'[i] = down[i] /\ relay = "fetch"
      BY <1>1, <2>2, <2>4
    <3> QED
      BY <2>3, <3>1 DEF Leftover
  <2> QED
    BY <1>1, <2>1, <2>2, <2>4 DEF Underway
<1>6. OkMeans'
  BY <1>1, <1>2 DEF LinkInv, LinkTypes, OkMeans, HandedOver, Numbered, Before
<1>7. InStep'
  BY <1>1, <1>2 DEF LinkInv, LinkTypes, InStep
<1> QED
  BY <1>2, <1>3, <1>4, <1>5, <1>6, <1>7 DEF LinkInv

\* The second attempt.
LEMMA RetryLink ==
  ASSUME LinkInv, Rel!RelayRetries
  PROVE  LinkInv'
<1>1. /\ Rel!Waiting /\ ~sig /\ handing.seq \in {0, seq} /\ tries = 1 /\ tries' = 2 /\ Rel!SendReq(relay, sent)
      /\ UNCHANGED <<relay, handing, up, answering, armedFor, open, staged, sent, outcome, relays>>
  BY DEF Rel!RelayRetries, Rel!TimedOut, Rel!NoAnswer, Rel!fwvars, Rel!sess
<1>2. /\ seq \in Nat /\ seq' = seq + 1 /\ ~sig' /\ respOp' = Rel!WireOp(relay)
      /\ handing.seq <= seq /\ \A k \in 1..Len(up) : up[k].seq <= seq
      /\ \E S : down' \in Seq(S)
      /\ \A i \in 1..Len(down') : down'[i].seq \in Nat
      /\ \A i \in 1..Len(down') : \/ i \in 1..Len(down) /\ down'[i] = down[i] /\ down[i].seq <= seq
                                  \/ down'[i].seq = seq + 1 /\ down'[i].op = relay /\ down'[i].offset = sent
      /\ Numbered'
  BY <1>1, Sent
<1>3. Before' = Before /\ (Rel!Waiting' <=> Rel!Waiting)
  BY <1>1, <1>2 DEF Before, Rel!Waiting
<1>4. LinkTypes'
  BY <1>1, <1>2 DEF LinkInv, LinkTypes
<1>5. HandedOver'
  BY <1>1, <1>2, <1>3 DEF LinkInv, LinkTypes, HandedOver, Rel!Waiting, Before
<1>6. Underway'
  <2>1. ASSUME NEW i \in 1..Len(down')
        PROVE  /\ down'[i].seq > Before => down'[i].op = relay /\ (relay = "data" => down'[i].offset = sent)
               /\ relay \in {"data", "commit"} /\ down'[i].seq <= Before => Leftover(down[i])'
    <3>1. CASE i \in 1..Len(down) /\ down'[i] = down[i]
      BY <1>1, <3>1 DEF LinkInv, Underway, Leftover
    <3>2. CASE down'[i].seq = seq + 1 /\ down'[i].op = relay /\ down'[i].offset = sent
      BY <1>1, <1>2, <3>2 DEF Before
    <3> QED
      BY <1>2, <2>1, <3>1, <3>2
  <2>2. (relay = "begin" => sent = 0) /\ (relay = "data" => sent < Frames) /\ (relay = "commit" => sent = Frames) /\ relay # "fetch"
    BY <1>1 DEF LinkInv, Underway, Rel!Waiting
  <2> QED
    BY <1>1, <1>3, <2>1, <2>2 DEF Underway
<1>7. Means(relay) => Means(relay)'
  BY <1>1 DEF Means
<1>8. OkMeans'
  <2> HIDE DEF Means
  <2> QED
    BY <1>1, <1>2, <1>3, <1>7 DEF LinkInv, OkMeans
<1>9. InStep'
  BY <1>1 DEF LinkInv, InStep
<1> QED
  BY <1>2, <1>4, <1>5, <1>6, <1>8, <1>9 DEF LinkInv

\* A request is over.
LEMMA ProceedLink ==
  ASSUME LinkInv, Rel!Waiting, NEW next, Rel!Proceed(next),
         UNCHANGED <<handing, up, answering, armedFor, open, staged, relays>>,
         \/ sig /\ respResult = "ok" /\ relay = "begin" /\ next = "fetch" /\ UNCHANGED <<sent, outcome>>
         \/ sig /\ respResult = "ok" /\ relay = "data" /\ next = "fetch" /\ sent' = sent + 1 /\ UNCHANGED outcome
         \/ sig /\ respResult = "ok" /\ relay = "commit" /\ next = "hello" /\ UNCHANGED <<sent, outcome>>
         \/ /\ relay \in {"begin", "commit", "abort"} /\ (sig \/ handing.seq \in {0, seq})
            /\ next = "idle" /\ outcome' = "failed" /\ UNCHANGED sent
  PROVE  LinkInv'
<1>1. relay' = next /\ ~armed' /\ ~sig' /\ UNCHANGED <<tries, seq, respOp, respResult, down>>
  BY DEF Rel!Proceed
<1>2. LinkTypes'
  BY <1>1, RelConstants DEF LinkInv, LinkTypes, Underway, Rel!FwUpdateConstants
<1>3. Numbered'
  BY <1>1 DEF LinkInv, Numbered
<1>4. HandedOver'
  BY <1>1 DEF LinkInv, LinkTypes, HandedOver, Rel!Waiting, Before, Rel!NoAnswer
<1>5. Underway'
  BY <1>1 DEF LinkInv, LinkTypes, Underway, HandedOver, Rel!Waiting, Before, Leftover
<1>6. OkMeans'
  BY <1>1 DEF LinkInv, LinkTypes, OkMeans, HandedOver, Rel!Waiting, Before, Means
<1>7. InStep'
  BY <1>1 DEF LinkInv, LinkTypes, InStep, OkMeans, Means, Underway
<1> QED
  BY <1>2, <1>3, <1>4, <1>5, <1>6, <1>7 DEF LinkInv

LEMMA ConcludesLink ==
  ASSUME LinkInv, Rel!Waiting, NEW result, Rel!Concludes(result),
         (sig /\ result = respResult) \/ (result = "timeout" /\ handing.seq \in {0, seq}),
         UNCHANGED <<handing, up, answering, armedFor, open, staged, relays>>
  PROVE  LinkInv'
<1>0. sig => handing.seq = 0
  BY DEF LinkInv, HandedOver, Rel!NoAnswer
<1>1. CASE result = "ok" /\ relay = "begin" /\ Rel!Proceed("fetch") /\ UNCHANGED <<sent, outcome>>
  BY <1>1, ProceedLink
<1>2. CASE result = "ok" /\ relay = "data" /\ Rel!Proceed("fetch") /\ sent' = sent + 1 /\ UNCHANGED outcome
  BY <1>2, ProceedLink
<1>3. CASE result = "ok" /\ relay = "commit" /\ Rel!Proceed("hello") /\ UNCHANGED <<sent, outcome>>
  BY <1>3, ProceedLink
<1>4. CASE relay = "data" /\ result # "ok" /\ Rel!Request("abort", 0) /\ UNCHANGED <<sent, outcome>>
  BY <1>0, <1>4, RequestLink
<1>5. CASE /\ relay = "abort" \/ (relay \in {"begin", "commit"} /\ result # "ok")
           /\ Rel!Proceed("idle") /\ outcome' = "failed" /\ UNCHANGED sent
  BY <1>5, ProceedLink
<1> QED
  BY <1>1, <1>2, <1>3, <1>4, <1>5 DEF Rel!Concludes

LEMMA RelaySteps ==
  ASSUME LinkInv, Rel!RelayStep
  PROVE  LinkInv'
<1> USE DEF Rel!fwvars, Rel!sess
<1>1. CASE Rel!RelayTakes
  BY <1>1, ConcludesLink DEF Rel!RelayTakes
<1>2. CASE Rel!RelayRetries
  BY <1>2, RetryLink
<1>3. CASE Rel!RelayTimesOut
  BY <1>3, ConcludesLink DEF Rel!RelayTimesOut, Rel!TimedOut, Rel!NoAnswer
<1>4. CASE Rel!RelaySends
  BY <1>4, RequestLink DEF Rel!RelaySends
<1>5. CASE Rel!RelayGivesUp
  <2>1. handing.seq = 0
    BY <1>5 DEF Rel!RelayGivesUp, LinkInv, HandedOver, Rel!NoAnswer
  <2> QED
    BY <1>5, <2>1, RequestLink DEF Rel!RelayGivesUp
<1>6. CASE Rel!RelayHello
  <2>1. /\ relay = "hello" /\ relay' = "idle" /\ outcome' \in {"done", "failed"}
        /\ UNCHANGED <<tries, sent, seq, relays, armed, respOp, respResult, sig, handing, down, up, answering,
                       armedFor, open, staged>>
    BY <1>6 DEF Rel!RelayHello, Rel!waiter, Rel!wire
  <2>2. LinkTypes'
    BY <2>1 DEF LinkInv, LinkTypes
  <2>3. Numbered'
    BY <2>1 DEF LinkInv, Numbered
  <2>4. HandedOver' /\ Underway' /\ OkMeans' /\ InStep'
    BY <2>1 DEF LinkInv, LinkTypes, HandedOver, Underway, OkMeans, InStep, Rel!Waiting
  <2> QED
    BY <2>2, <2>3, <2>4 DEF LinkInv
<1> QED
  BY <1>1, <1>2, <1>3, <1>4, <1>5, <1>6 DEF Rel!RelayStep

\* The relay and its receiver stay in step.
LEMMA LinkStep ==
  ASSUME FwInv, LinkInv, Rel!Next
  PROVE  LinkInv'
<1> HIDE DEF FwInv, LinkInv
<1>1. CASE Rel!RpHandles
  BY <1>1, Serves, ServedLink
<1> QED
  BY <1>1, RpSteps, RelayStartLink, RelaySteps, RxFrameLink, RxHandsOverLink DEF Rel!Next

-----------------------------------------------------------------------------
\* What was received is the image from its start.
LEMMA FullUpdate ==
  /\ Rel!Full(Update) \in Seq(Rel!Chunk) /\ Len(Rel!Full(Update)) = Frames
  /\ \A n \in 0..(Frames - 1) : Rel!Full(Update)[n + 1] = <<Update, n>>
<1>1. Frames \in Nat /\ Update \in Images
  BY RelConstants DEF Rel!FwUpdateConstants, Rel!FwRelayConstants
<1>2. \A i \in 1..Frames : <<Update, i - 1>> \in Rel!Chunk
  BY <1>1 DEF Rel!Chunk
<1>3. Rel!Full(Update) \in [1..Frames -> Rel!Chunk]
  BY <1>2 DEF Rel!Full
<1>4. Rel!Full(Update) \in Seq(Rel!Chunk) /\ Len(Rel!Full(Update)) = Frames
  BY <1>1, <1>3
<1>5. \A n \in 0..(Frames - 1) : Rel!Full(Update)[n + 1] = <<Update, n>>
  BY <1>1 DEF Rel!Full
<1> QED
  BY <1>4, <1>5

LEMMA NextChunk ==
  ASSUME NEW n \in 0..(Frames - 1)
  PROVE  SubSeq(Rel!Full(Update), 1, n + 1) = Append(SubSeq(Rel!Full(Update), 1, n), <<Update, n>>)
<1>0. Frames \in Nat
  BY RelConstants DEF Rel!FwUpdateConstants
<1>1. PICK F : F = Rel!Full(Update)
  OBVIOUS
<1>2. F \in Seq(Rel!Chunk) /\ Len(F) = Frames /\ F[n + 1] = <<Update, n>>
  BY <1>1, FullUpdate
<1>3. SubSeq(F, 1, n + 1) = Append(SubSeq(F, 1, n), F[n + 1])
  BY <1>0, <1>2
<1> QED
  BY <1>1, <1>2, <1>3

LEMMA PrefixStep ==
  ASSUME FwInv, LinkInv, Prefix, Rel!Next
  PROVE  Prefix'
<1>1. CASE UNCHANGED Rel!fwvars
  BY <1>1 DEF Prefix, Rel!fwvars, Rel!files, Rel!sess
<1>2. CASE Quiet
  <2>1. stage \in Seq(Rel!Chunk) /\ buf \in Seq(Rel!Chunk) /\ <<>> \in Seq(Rel!Chunk)
    BY DEF Prefix
  <2>2. stage' \in Seq(Rel!Chunk) /\ buf' \in Seq(Rel!Chunk)
    BY <1>2, <2>1 DEF Quiet
  <2> QED
    BY <1>2, <2>2 DEF Quiet, Prefix
<1>3. CASE Rel!RpHandles
  <2>1. PICK f : f = Head(down)
    OBVIOUS
  <2>2. CASE Rel!BeginOk(Update)
    <3>1. stage' = <<>> /\ buf' = <<>> /\ staged' = 0
      BY <2>2 DEF Rel!BeginOk
    <3>2. SubSeq(Rel!Full(Update), 1, 0) = <<>>
      BY FullUpdate, RelConstants DEF Rel!FwUpdateConstants
    <3>3. <<>> \o <<>> = <<>>
      OBVIOUS
    <3> QED
      BY <3>1, <3>2, <3>3 DEF Prefix
  <2>3. CASE Rel!DataOk(Update, f.offset)
    <3>1. PICK e : e = <<Update, staged>>
      OBVIOUS
    <3>2. /\ open /\ staged \in 0..(Frames - 1) /\ staged' = staged + 1 /\ Frames \in Nat /\ Update \in Images
          /\ \/ stage' = stage \o Append(buf, e) /\ buf' = <<>>
             \/ stage' = stage /\ buf' = Append(buf, e)
      <4>1. open /\ f.offset = staged /\ staged < Frames /\ staged' = staged + 1
        BY <2>3 DEF Rel!DataOk
      <4>2. \/ stage' = stage \o Append(buf, <<Update, f.offset>>) /\ buf' = <<>>
            \/ stage' = stage /\ buf' = Append(buf, <<Update, f.offset>>)
        BY <2>3 DEF Rel!DataOk
      <4>3. Frames \in Nat /\ Update \in Images /\ staged \in 0..Frames
        BY RelConstants DEF LinkInv, LinkTypes, Rel!FwUpdateConstants, Rel!FwRelayConstants
      <4>4. e = <<Update, f.offset>>
        BY ONLY <3>1, <4>1
      <4>5. staged \in 0..(Frames - 1)
        BY ONLY <4>1, <4>3
      <4>6. \/ stage' = stage \o Append(buf, e) /\ buf' = <<>>
            \/ stage' = stage /\ buf' = Append(buf, e)
        BY ONLY <4>2, <4>4, Zenon
      <4> QED
        BY ONLY <4>1, <4>3, <4>5, <4>6, Zenon
    <3>3. stage \in Seq(Rel!Chunk) /\ buf \in Seq(Rel!Chunk) /\ e \in Rel!Chunk
      BY <3>1, <3>2 DEF Prefix, Rel!Chunk
    <3>4. stage \o Append(buf, e) = Append(stage \o buf, e)
      BY <3>3
    <3>5. stage \o buf = SubSeq(Rel!Full(Update), 1, staged)
      BY <3>2 DEF Prefix
    <3>6. Append(stage \o buf, e) = SubSeq(Rel!Full(Update), 1, staged')
      BY <3>1, <3>2, <3>5, NextChunk
    <3>7. Append(buf, e) \in Seq(Rel!Chunk) /\ stage \o Append(buf, e) \in Seq(Rel!Chunk)
          /\ (stage \o Append(buf, e)) \o <<>> = stage \o Append(buf, e)
      BY <3>3
    <3>8. CASE stage' = stage \o Append(buf, e) /\ buf' = <<>>
      <4>1. stage' \o buf' = SubSeq(Rel!Full(Update), 1, staged')
        BY <3>4, <3>6, <3>7, <3>8
      <4>2. stage' \in Seq(Rel!Chunk) /\ buf' \in Seq(Rel!Chunk)
        BY <3>7, <3>8
      <4> QED
        BY <4>1, <4>2 DEF Prefix
    <3>9. CASE stage' = stage /\ buf' = Append(buf, e)
      <4>1. stage' \o buf' = SubSeq(Rel!Full(Update), 1, staged')
        BY <3>4, <3>6, <3>9
      <4>2. stage' \in Seq(Rel!Chunk) /\ buf' \in Seq(Rel!Chunk)
        BY <3>3, <3>7, <3>9
      <4> QED
        BY <4>1, <4>2 DEF Prefix
    <3> QED
      BY <3>2, <3>8, <3>9
  <2>4. CASE Rel!EndFlushes
    <3>1. stage' = stage \o buf /\ buf' = <<>> /\ ~open'
      BY <2>4 DEF Rel!EndFlushes
    <3>2. stage' \in Seq(Rel!Chunk) /\ buf' \in Seq(Rel!Chunk)
      BY <3>1 DEF Prefix
    <3> QED
      BY <3>1, <3>2 DEF Prefix
  <2>5. CASE \/ Rel!BeginFails \/ Rel!DataRefused(f.offset) \/ Rel!DataFails(f.offset) \/ Rel!EndRefused \/ Rel!EndFails
             \/ Rel!EndAborts
    <3>1. Quiet
      BY <2>5 DEF Quiet, Rel!BeginFails, Rel!DataRefused, Rel!DataFails, Rel!EndRefused, Rel!EndFails, Rel!EndAborts,
         Rel!SessionAbort, Rel!files, Rel!sess
    <3> QED
      BY <1>2, <3>1
  <2> QED
    BY <1>3, <2>1, <2>2, <2>3, <2>4, <2>5 DEF Rel!RpHandles
<1> QED
  BY <1>1, <1>2, <1>3, RpSteps DEF Rel!Next, Rel!RelayStart, Rel!RelayStep, Rel!RelayTakes, Rel!RelayRetries,
     Rel!RelayTimesOut,
     Rel!RelaySends, Rel!RelayGivesUp, Rel!RelayHello, Rel!RxFrame, Rel!RxHandsOver

LEMMA LinkStart == ASSUME MCInit PROVE LinkInv /\ Prefix
<1>1. /\ stage = <<>> /\ buf = <<>> /\ ~open /\ staged = 0
      /\ relay = "idle" /\ tries = 1 /\ sent = 0 /\ seq = 0 /\ outcome = "none" /\ ~armed /\ ~sig
      /\ handing = Rel!NoAnswer /\ down = <<>> /\ up = <<>> /\ answering = Rel!Nobody
  BY DEF MCInit, Rel!RelayInit, Rel!Init
<1>2. down \in Seq({}) /\ up \in Seq({}) /\ Len(down) = 0 /\ Len(up) = 0
  BY <1>1
<1>3. LinkTypes
  BY <1>1, <1>2, RelConstants DEF LinkTypes, Rel!NoAnswer, Rel!Nobody, Rel!FwUpdateConstants
<1>4. Numbered /\ HandedOver /\ Underway /\ OkMeans /\ InStep
  BY <1>1, <1>2 DEF Numbered, HandedOver, Underway, OkMeans, InStep, Rel!Waiting
<1>5. Prefix
  BY <1>1 DEF Prefix
<1> QED
  BY <1>3, <1>4, <1>5 DEF LinkInv

\* fw_update.cpp applies complete images only and covers one on trial, and the
\* relay of fw_ota.c stays in step with it and reports true successes only: for
\* images, blocks and channels of any size, any number of relays, sessions, power
\* cuts and failed writes, with frames lost and answers late.
THEOREM ImageAlwaysSafe == MCSpec => []ImageSafe
<1> DEFINE RelayInv == part = "relay" => LinkInv /\ Prefix
<1>1. MCInit => RelayInv
  BY LinkStart
<1>2. FwInv /\ RelayInv /\ [MCNext]_<<part, vars, getvars, fwvars, relayvars>> => RelayInv'
  <2> SUFFICES ASSUME FwInv, part = "relay" => LinkInv /\ Prefix, [MCNext]_<<part, vars, getvars, fwvars, relayvars>>,
                      part' = "relay"
               PROVE  LinkInv' /\ Prefix'
    OBVIOUS
  <2>1. part = "relay" /\ LinkInv /\ Prefix
    BY DEF MCNext
  <2>2. CASE Rel!Next
    BY <2>1, <2>2, LinkStep, PrefixStep
  <2>3. CASE UNCHANGED <<fwvars, relayvars>>
    <3>1. LinkInv'
      BY <2>1, <2>3 DEF LinkInv, LinkTypes, Numbered, HandedOver, Underway, OkMeans, InStep, Means, Leftover, Before,
         Rel!Waiting, fwvars, relayvars
    <3>2. Prefix'
      BY <2>1, <2>3 DEF Prefix, fwvars
    <3> QED
      BY <3>1, <3>2
  <2> QED
    BY <2>1, <2>2, <2>3 DEF MCNext
<1>3. FwInv /\ RelayInv => ImageSafe
  BY DEF FwInv, FwTypes, FwFlags, ThreadKnows, FilesMean, SoundFlash, Rel!OnlyCompleteApplied, Rel!TrialCovered,
     ImageSafe,
     Rel!SenderInStep, Rel!SuccessIsReal, LinkInv, InStep, Prefix
<1> QED
  BY <1>1, <1>2, <1>3, FwAlways, PTL DEF MCSpec
=============================================================================
