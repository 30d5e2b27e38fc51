------------------------------ MODULE FwUpdate ------------------------------
(***************************************************************************)
(* firmware-rp2040/src/fw_update.cpp: the RP2040 receives its own next     *)
(* firmware in chunks, stages it in LittleFS, verifies it, snapshots the   *)
(* running image, arms the OTA bootloader and restarts; the new image is   *)
(* on trial until it has seen a frame, else it is rolled back.  loop() is  *)
(* one thread, so a handler runs to its end; but power may fail between    *)
(* any two of its flash operations, each of which is a step here, and the  *)
(* running image may crash.                                                *)
(***************************************************************************)
EXTENDS Integers, Sequences

CONSTANTS
    Images,        \* firmware images
    Factory,       \* the image flashed in production
    Sane,          \* the images whose vector table passes sanity_check_image
    Chunks,        \* DATA frames in one image
    Block,         \* DATA frames that fill the RAM accumulator
    MaxBoots,      \* FW_PENDING_MAX_BOOTS
    MaxBegins,     \* bound: sessions begun
    MaxCuts,       \* bound: power cuts
    MaxFaults      \* bound: failed flash operations, refused commands

FwUpdateConstants ==
    /\ Factory \in Images /\ Sane \subseteq Images
    /\ "none" \notin Images /\ "torn" \notin Images
    /\ Chunks \in Nat \ {0} /\ Block \in Nat \ {0} /\ MaxBoots \in Nat
    /\ MaxBegins \in Nat /\ MaxCuts \in Nat /\ MaxFaults \in Nat

VARIABLES
    app,        \* the image in XIP flash
    stage,      \* fwstage.bin, chunk by chunk; <<>>: no file
    prev,       \* fwprev.bin
    marker,     \* the boots fwpending.bin counts; NoMarker: no file
    command,    \* otacommand.bin: the file the bootloader shall apply
    phase,      \* where the thread is
    fsOk,       \* s_fs_ok
    pending,    \* s_pending
    open, target, received, buf,   \* the session S; target: the image of S.sha
    proven,     \* history: the application was confirmed, or handled a frame off trial
    prevProven, \* history: so was the image in prev
    begins, cuts, faults

files == <<stage, prev, marker, command>>
sess == <<open, target, received, buf>>
limits == <<begins, cuts, faults>>
history == <<proven, prevProven>>
fwvars == <<app, files, phase, fsOk, pending, sess, history, limits>>

NoMarker == -1
Chunk == Images \X (0..(Chunks - 1))    \* the bytes an image has at an offset
Full(image) == [i \in 1..Chunks |-> <<image, i - 1>>]

Init ==
    /\ app = Factory
    /\ stage = <<>> /\ prev = "none" /\ marker = NoMarker /\ command = "none"
    /\ phase = "boot" /\ fsOk = FALSE /\ pending = FALSE
    /\ open = FALSE /\ target = Factory /\ received = 0 /\ buf = <<>>
    /\ proven = TRUE /\ prevProven = FALSE
    /\ begins = 0 /\ cuts = 0 /\ faults = 0

Fault ==
    /\ faults < MaxFaults
    /\ faults' = faults + 1
    /\ UNCHANGED <<begins, cuts>>

(***************************************************************************)
(* The OTA bootloader of the core: it copies the file named by the command *)
(* over the application and then erases the command, or refuses it.        *)
(***************************************************************************)
Apply ==
    /\ phase = "boot" /\ command # "none"
    /\ app' = "torn"
    /\ phase' = "apply"
    /\ UNCHANGED <<files, fsOk, pending, sess, history, limits>>

Applied ==
    /\ phase = "apply"
    /\ app' = IF command = "prev" THEN prev
              ELSE IF \E image \in Images : stage = Full(image)
                   THEN CHOOSE image \in Images : stage = Full(image)
                   ELSE "torn"
    /\ proven' = (command = "prev" /\ prevProven)
    /\ command' = "none"
    /\ phase' = "init"
    /\ UNCHANGED <<stage, prev, marker, fsOk, pending, sess, prevProven, limits>>

BootNormal ==
    /\ phase = "boot"
    /\ \/ command = "none" /\ UNCHANGED limits
       \/ command # "none" /\ app # "torn" /\ Fault    \* a refused command
    /\ phase' = "init"
    /\ UNCHANGED <<app, files, fsOk, pending, sess, history>>

(***************************************************************************)
(* fw_update_boot_init                                                     *)
(***************************************************************************)
MountFails ==
    /\ phase = "init"
    /\ Fault
    /\ phase' = "run"
    /\ UNCHANGED <<app, files, fsOk, pending, sess, history>>

BootPending ==
    /\ phase = "init" /\ marker # NoMarker
    /\ fsOk' = TRUE /\ command' = "none"
    /\ marker' = marker + 1
    /\ \/ marker' > MaxBoots /\ phase' = "restage" /\ UNCHANGED pending
       \/ marker' <= MaxBoots /\ phase' = "run" /\ pending' = TRUE
    /\ UNCHANGED <<app, stage, prev, sess, history, limits>>

BootClean ==
    /\ phase = "init" /\ marker = NoMarker
    /\ fsOk' = TRUE /\ command' = "none"
    /\ stage' = <<>> /\ prev' = "none"
    /\ phase' = "run"
    /\ UNCHANGED <<app, marker, pending, sess, history, limits>>

(***************************************************************************)
(* restage_previous_and_reboot, and the clean-up of its callers            *)
(***************************************************************************)
RestageArms ==
    /\ phase = "restage" /\ prev # "none"
    /\ command' = "prev"
    /\ phase' = "unmark"
    /\ UNCHANGED <<app, stage, prev, marker, fsOk, pending, sess, history, limits>>

RestageReturns ==
    /\ phase = "restage"
    /\ \/ prev = "none" /\ UNCHANGED limits
       \/ prev # "none" /\ Fault
    /\ pending' = FALSE
    /\ phase' = "cleanup"
    /\ UNCHANGED <<app, files, fsOk, sess, history>>

Restart ==
    /\ phase' = "boot"
    /\ fsOk' = FALSE /\ pending' = FALSE
    /\ open' = FALSE /\ target' = Factory /\ received' = 0 /\ buf' = <<>>
    /\ UNCHANGED <<app, stage, prev, history>>

RestageReboots ==
    /\ phase = "unmark"
    /\ marker' = NoMarker
    /\ Restart
    /\ UNCHANGED <<command, limits>>

\* Mutant: the confirmation does not remove the marker.
CleanupMarkerKept ==
    /\ phase \in {"confirm", "cleanup"}
    /\ proven' = (proven \/ phase = "confirm")
    /\ phase' = "drop"
    /\ UNCHANGED <<app, files, fsOk, pending, sess, prevProven, limits>>

\* cleanup_pending_files: the marker, then the files; an image is confirmed
\* once its marker is gone.
CleanupMarker ==
    /\ phase \in {"confirm", "cleanup"}
    /\ marker' = NoMarker
    /\ proven' = (proven \/ phase = "confirm")
    /\ phase' = "drop"
    /\ UNCHANGED <<app, stage, prev, command, fsOk, pending, sess, prevProven, limits>>

CleanupFiles ==
    /\ phase = "drop"
    /\ prev' = "none"
    /\ stage' = IF open THEN stage ELSE <<>>
    /\ phase' = "run"
    /\ UNCHANGED <<app, marker, command, fsOk, pending, sess, history, limits>>

(***************************************************************************)
(* loop(): fw_update_tick, and fw_update_note_frame_ok, which comes before *)
(* every local frame is handled                                            *)
(***************************************************************************)
SessionAbort ==
    /\ open' = FALSE /\ buf' = <<>> /\ stage' = <<>>
    /\ UNCHANGED <<target, received, prev, marker, command>>

TickIdle ==
    /\ phase = "run" /\ open
    /\ SessionAbort
    /\ UNCHANGED <<app, phase, fsOk, pending, history, limits>>

TickWindow ==
    /\ phase = "run" /\ pending
    /\ phase' = "restage"
    /\ UNCHANGED <<app, files, fsOk, pending, sess, history, limits>>

NoteFrameOk ==
    /\ phase = "run" /\ pending
    /\ pending' = FALSE
    /\ phase' = "confirm"
    /\ UNCHANGED <<app, files, fsOk, sess, history, limits>>

\* The dispatcher is reached with nothing pending.
HandlesFrame ==
    /\ phase = "run" /\ ~pending
    /\ proven' = (proven \/ marker = NoMarker)
    /\ UNCHANGED prevProven

\* Any other local frame.
OtherFrame ==
    /\ HandlesFrame
    /\ UNCHANGED <<app, files, phase, fsOk, pending, sess, limits>>

(***************************************************************************)
(* The handlers of fw_xfer.  Each is one disjunct per result byte it sends *)
(* back; END goes through the phases below and answers at their end.       *)
(***************************************************************************)
BeginOk(image) ==
    /\ HandlesFrame /\ fsOk
    /\ begins < MaxBegins /\ begins' = begins + 1
    /\ stage' = <<>> /\ buf' = <<>>
    /\ open' = TRUE /\ target' = image /\ received' = 0
    /\ UNCHANGED <<app, prev, marker, command, phase, fsOk, pending, cuts, faults>>

\* No room or no file, after the session was aborted; or no file system.
BeginFails ==
    /\ HandlesFrame
    /\ \/ fsOk /\ Fault /\ SessionAbort
       \/ ~fsOk /\ UNCHANGED <<files, sess, limits>>
    /\ UNCHANGED <<app, phase, fsOk, pending>>

DataOk(image, offset) ==
    /\ HandlesFrame /\ open
    /\ offset = received /\ received < Chunks
    /\ received' = received + 1
    /\ LET filled == Append(buf, <<image, offset>>)
       IN IF Len(filled) = Block
          THEN stage' = stage \o filled /\ buf' = <<>>
          ELSE buf' = filled /\ UNCHANGED stage
    /\ UNCHANGED <<app, prev, marker, command, phase, fsOk, pending, open, target, limits>>

\* SEQ_MISMATCH, BAD_REQ: the session goes on.
DataRefused(offset) ==
    /\ HandlesFrame
    /\ ~open \/ offset # received \/ received = Chunks
    /\ UNCHANGED <<app, files, phase, fsOk, pending, sess, limits>>

\* A full block could not be written.
DataFails(offset) ==
    /\ HandlesFrame /\ open
    /\ offset = received /\ received < Chunks
    /\ Len(buf) + 1 = Block
    /\ Fault
    /\ SessionAbort
    /\ UNCHANGED <<app, phase, fsOk, pending>>

EndRefused ==
    /\ HandlesFrame /\ ~open
    /\ UNCHANGED <<app, files, phase, fsOk, pending, sess, limits>>

EndAborts ==
    /\ HandlesFrame /\ open
    /\ SessionAbort
    /\ UNCHANGED <<app, phase, fsOk, pending, limits>>

\* END(commit) of a short image, or the last block could not be written.
EndFails ==
    /\ HandlesFrame /\ open
    /\ \/ received # Chunks /\ UNCHANGED limits
       \/ received = Chunks /\ buf # <<>> /\ Fault
    /\ SessionAbort
    /\ UNCHANGED <<app, phase, fsOk, pending>>

EndFlushes ==
    /\ HandlesFrame /\ open /\ received = Chunks
    /\ stage' = stage \o buf /\ buf' = <<>>
    /\ open' = FALSE
    /\ phase' = "verify"
    /\ UNCHANGED <<app, prev, marker, command, fsOk, pending, target, received, limits>>

\* verify_stage_sha and sanity_check_image.
StageVerified == stage = Full(target) /\ target \in Sane

VerifyFails ==
    /\ phase = "verify"
    /\ \/ ~StageVerified /\ UNCHANGED limits
       \/ Fault                                \* the file cannot be read back
    /\ stage' = <<>>
    /\ phase' = "run"
    /\ UNCHANGED <<app, prev, marker, command, fsOk, pending, sess, history>>

SnapshotBegins ==
    /\ phase = "verify" /\ StageVerified
    /\ prev' = "torn"
    /\ phase' = "snapshot"
    /\ UNCHANGED <<app, stage, marker, command, fsOk, pending, sess, history, limits>>

Snapshot ==
    /\ phase = "snapshot"
    /\ \/ prev' = app /\ prevProven' = proven /\ phase' = "mark" /\ UNCHANGED limits
       \/ prev' = "none" /\ phase' = "arm" /\ Fault /\ UNCHANGED prevProven
    /\ UNCHANGED <<app, stage, marker, command, fsOk, pending, sess, proven>>

WriteMarker ==
    /\ phase = "mark"
    /\ \/ marker' = 0 /\ UNCHANGED <<prev, limits>>
       \/ marker' = NoMarker /\ prev' = "none" /\ Fault
    /\ phase' = "arm"
    /\ UNCHANGED <<app, stage, command, fsOk, pending, sess, history>>

Arm ==
    /\ phase = "arm"
    /\ command' = "stage"
    /\ phase' = "reboot"
    /\ UNCHANGED <<app, stage, prev, marker, fsOk, pending, sess, history, limits>>

ArmFails ==
    /\ phase = "arm"
    /\ Fault
    /\ phase' = "cleanup"
    /\ UNCHANGED <<app, files, fsOk, pending, sess, history>>

\* The answer has left; rp2040.reboot().
Reboot ==
    /\ phase = "reboot"
    /\ Restart
    /\ UNCHANGED <<marker, command, limits>>

(***************************************************************************)
(* Power cuts, at any point; crashes of the image, once it runs.           *)
(***************************************************************************)
PowerCut ==
    /\ cuts < MaxCuts /\ cuts' = cuts + 1
    /\ Restart
    /\ UNCHANGED <<marker, command, begins, faults>>

Crash ==
    /\ phase = "run"
    /\ Restart
    /\ UNCHANGED <<marker, command, limits>>

BootStep == Apply \/ Applied \/ BootNormal \/ MountFails \/ BootPending \/ BootClean

RestageStep == RestageArms \/ RestageReturns \/ RestageReboots \/ CleanupMarker \/ CleanupFiles

CommitStep == VerifyFails \/ SnapshotBegins \/ Snapshot \/ WriteMarker \/ Arm \/ ArmFails \/ Reboot

XferFrame ==
    \/ BeginFails
    \/ \E image \in Images : BeginOk(image)
    \/ \E offset \in 0..Chunks :
          \/ \E image \in Images : DataOk(image, offset)
          \/ DataRefused(offset) \/ DataFails(offset)
    \/ EndRefused \/ EndAborts \/ EndFails \/ EndFlushes

FwNext == BootStep \/ RestageStep \/ CommitStep \/ TickIdle \/ TickWindow
          \/ NoteFrameOk \/ OtherFrame \/ XferFrame \/ PowerCut \/ Crash

FwSpec == Init /\ [][FwNext]_fwvars

(***************************************************************************)
(* The thread goes on, and the window of a trial closes.  Neither frames   *)
(* nor the absence of crashes is assumed.                                  *)
(***************************************************************************)
FwFairSpec ==
    /\ FwSpec
    /\ WF_fwvars(BootStep) /\ WF_fwvars(RestageStep) /\ WF_fwvars(CommitStep)
    /\ WF_fwvars(TickWindow)

(***************************************************************************)
(* Properties                                                              *)
(***************************************************************************)

\* Every variable keeps its type; the accumulator never holds a whole block,
\* and what was staged and accumulated is what the session has received.
TypeOK ==
    /\ app \in Images \cup {"torn"}
    /\ stage \in UNION {[1..n -> Chunk] : n \in 0..Chunks}
    /\ prev \in Images \cup {"none", "torn"}
    /\ marker \in Int /\ marker >= NoMarker
    /\ command \in {"none", "stage", "prev"}
    /\ phase \in {"boot", "apply", "init", "run", "restage", "unmark", "confirm", "cleanup",
                  "drop", "verify", "snapshot", "mark", "arm", "reboot"}
    /\ fsOk \in BOOLEAN /\ pending \in BOOLEAN /\ open \in BOOLEAN
    /\ target \in Images /\ received \in 0..Chunks
    /\ proven \in BOOLEAN /\ prevProven \in BOOLEAN
    /\ buf \in UNION {[1..n -> Chunk] : n \in 0..(Block - 1)}
    /\ open => Len(stage) + Len(buf) = received
    /\ begins \in 0..MaxBegins /\ cuts \in 0..MaxCuts /\ faults \in 0..MaxFaults

\* Whatever two senders interleave and whenever power fails: the application
\* flash holds a complete image, or is being overwritten by a complete one the
\* command still names, and only a staged file that matched the digest of its
\* session from end to end, with sound vectors, is ever armed.
OnlyCompleteApplied ==
    /\ app \in Images \/ (phase \in {"boot", "apply"} /\ command # "none")
    /\ command = "stage" => \E image \in Sane : stage = Full(image)
    /\ command = "prev" => prev \in Images

\* Failed flash writes aside, an image that has not been heard of yet is
\* always covered: a marker counts its boots and the snapshot of an image that
\* was confirmed is there, or the bootloader is about to apply that snapshot.
TrialCovered ==
    faults = 0 /\ ~proven =>
        /\ prev \in Images /\ prevProven
        /\ marker # NoMarker \/ command = "prev"

\* An image that was confirmed is never rolled back to another one, not even
\* when a marker was left behind by a power cut.
ConfirmedStays == [][RestageArms => ~proven \/ prev = app]_fwvars

\* A trial ends: by a frame, by the window or, if the image crashes again and
\* again, by the boot budget (unless the file system cannot be mounted).
TrialEnds == (marker # NoMarker) ~> (marker = NoMarker \/ (phase = "run" /\ ~fsOk))

\* fw_update.cpp:198 of restage_previous_and_reboot: "Returns (without
\* rebooting) only when there is no usable snapshot".
ReturnsWithoutSnapshotOnly == [][RestageReturns => prev = "none"]_fwvars
=============================================================================
