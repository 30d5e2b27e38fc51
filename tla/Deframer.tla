------------------------------ MODULE Deframer ------------------------------
(***************************************************************************)
(* One direction of a serial link of the UPS: a sender that writes WUPS    *)
(* frames (SYNC1 SYNC2 header LEN payload CK END1 END2, then a guard byte) *)
(* and the byte-level deframer at the other end, over a line that loses,   *)
(* changes and adds bytes.  The RP2040, the ESP32 and the CH32X each have  *)
(* a copy of the same sender and the same deframer; the CH32X has no idle  *)
(* reset.  END1 is SYNC2 and END2 is SYNC1, which is what makes            *)
(* resynchronisation delicate.                                             *)
(***************************************************************************)
EXTENDS Integers, Sequences

CONSTANTS
    Base,          \* 256: a byte is 0..Base-1
    Sync1,         \* 0xAA, also END2
    Sync2,         \* 0x55, also END1
    Guard,         \* WUPS_GUARD_BYTE
    HeaderFields,  \* 6: DST SRC CLASS OP FLAGS SEQ
    MaxPayload,    \* WUPS_MAX_PAYLOAD
    Guarded,       \* the sender writes the guard byte (older ones do not)
    HasIdleReset,  \* the receiver resets after silence
    MaxFaults,     \* bound on damaged or added bytes and broken frames
    MaxFrames      \* bound on frames sent

Byte == 0..(Base - 1)

ASSUME DeframerConstants ==
    /\ Base \in Nat /\ Base > 1
    /\ {Sync1, Sync2, Guard} \subseteq Byte
    /\ Sync1 # Sync2 /\ Guard \notin {Sync1, Sync2}
    /\ HeaderFields \in Nat \ {0}
    /\ MaxPayload \in Nat /\ MaxPayload < Base * Base
    /\ {Guarded, HasIdleReset} \subseteq BOOLEAN
    /\ MaxFaults \in Nat /\ MaxFrames \in Nat

VARIABLES
    tx,       \* the sender: the frame, the field and index of the next byte, the checksum
    rx,       \* PortRxState / s_rx / Wups_Rx
    got,      \* frames delivered since the sender began its frame
    intact,   \* history: rx was hunting when the frame began, and every byte of it arrived
    faults, frames

vars == <<tx, rx, got, intact, faults, frames>>

Frames == [head : [1..HeaderFields -> Byte], payload : UNION {[1..n -> Byte] : n \in 0..MaxPayload}]

Fields == {"SYNC1", "SYNC2", "HEAD", "LEN_L", "LEN_H", "PAYLOAD", "CK_A", "CK_B", "END1", "END2"}

(***************************************************************************)
(* The running Fletcher-8, on either side's record.                        *)
(***************************************************************************)
SumA(s, b) == (s.a + b) % Base
SumB(s, b) == (s.b + SumA(s, b)) % Base
Sum(s, b) == [s EXCEPT !.a = SumA(s, b), !.b = SumB(s, b)]

(***************************************************************************)
(* The sender.                                                             *)
(***************************************************************************)
Quiet == "quiet"

TxByte(t) ==
    CASE t.at \in {"SYNC1", "END2"} -> Sync1
      [] t.at \in {"SYNC2", "END1"} -> Sync2
      [] t.at = "HEAD" -> t.frame.head[t.k]
      [] t.at = "LEN_L" -> Len(t.frame.payload) % Base
      [] t.at = "LEN_H" -> Len(t.frame.payload) \div Base
      [] t.at = "PAYLOAD" -> t.frame.payload[t.k]
      [] t.at = "CK_A" -> t.a
      [] t.at = "CK_B" -> t.b
      [] OTHER -> Guard

\* On to byte k of field `at`, with the checksum of t.
Move(t, at, k) == [at |-> at, k |-> k, frame |-> t.frame, a |-> t.a, b |-> t.b]

TxNext(t) ==
    LET sum == Sum(t, TxByte(t))
        size == Len(t.frame.payload)
    IN CASE t.at = "SYNC1" -> Move(t, "SYNC2", 1)
         [] t.at = "SYNC2" -> Move(t, "HEAD", 1)
         [] t.at = "HEAD" ->
                IF t.k < HeaderFields THEN Move(sum, "HEAD", t.k + 1) ELSE Move(sum, "LEN_L", 1)
         [] t.at = "LEN_L" -> Move(sum, "LEN_H", 1)
         [] t.at = "LEN_H" -> Move(sum, IF size = 0 THEN "CK_A" ELSE "PAYLOAD", 1)
         [] t.at = "PAYLOAD" ->
                IF t.k < size THEN Move(sum, "PAYLOAD", t.k + 1) ELSE Move(sum, "CK_A", 1)
         [] t.at = "CK_A" -> Move(t, "CK_B", 1)
         [] t.at = "CK_B" -> Move(t, "END1", 1)
         [] t.at = "END1" -> Move(t, "END2", 1)
         [] t.at = "END2" -> Move(t, "GUARD", 1)
         [] OTHER -> Move(t, Quiet, 1)

\* Between frames; a sender without a guard byte is there right after END2.
Resting(t) == t.at = Quiet \/ (t.at = "GUARD" /\ ~Guarded)

TxStart(f) == [at |-> "SYNC1", k |-> 1, frame |-> f, a |-> 0, b |-> 0]

(***************************************************************************)
(* The receiver: one byte.  What a reset leaves in the other fields is     *)
(* overwritten before it is read, so Hunt blanks it.                       *)
(***************************************************************************)
Hunt(state) ==
    [state |-> state, head |-> << >>, len |-> 0, payload |-> << >>, ckA |-> 0, a |-> 0, b |-> 0]

ResetWith(b) == Hunt(IF b = Sync1 THEN "SYNC2" ELSE "SYNC1")

RxHunt(r, b) ==
    IF r.state = "SYNC1" THEN (IF b = Sync1 THEN Hunt("SYNC2") ELSE r)
    ELSE IF b = Sync2 THEN Hunt("HEAD") ELSE ResetWith(b)

RxHeader(r, b) ==
    IF r.state = "HEAD"
    THEN [Sum(r, b) EXCEPT !.head = Append(@, b),
              !.state = IF Len(r.head) + 1 < HeaderFields THEN "HEAD" ELSE "LEN_L"]
    ELSE IF r.state = "LEN_L" THEN [Sum(r, b) EXCEPT !.len = b, !.state = "LEN_H"]
    ELSE LET len == r.len + Base * b
         IN IF len > MaxPayload THEN ResetWith(b)
            ELSE [Sum(r, b) EXCEPT !.len = len,
                      !.state = IF len = 0 THEN "CK_A" ELSE "PAYLOAD"]

RxPayload(r, b) ==
    [Sum(r, b) EXCEPT !.payload = Append(@, b),
         !.state = IF Len(r.payload) + 1 >= r.len THEN "CK_A" ELSE "PAYLOAD"]

RxTrailer(r, b) ==
    CASE r.state = "CK_A" -> [r EXCEPT !.ckA = b, !.state = "CK_B"]
      [] r.state = "CK_B" ->
            IF r.ckA = r.a /\ b = r.b THEN [r EXCEPT !.state = "END1"] ELSE ResetWith(b)
      [] r.state = "END1" -> IF b = Sync2 THEN [r EXCEPT !.state = "END2"] ELSE ResetWith(b)
      [] OTHER -> IF b = Sync1 THEN Hunt("SYNC1") ELSE ResetWith(b)

\* rx_byte
RxByte(r, b) ==
    IF r.state \in {"SYNC1", "SYNC2"} THEN RxHunt(r, b)
    ELSE IF r.state \in {"HEAD", "LEN_L", "LEN_H"} THEN RxHeader(r, b)
    ELSE IF r.state = "PAYLOAD" THEN RxPayload(r, b)
    ELSE RxTrailer(r, b)

\* Mutant: the second byte of the end marker is not awaited.
DeliversEarly(r, b) ==
    IF r.state = "END1" /\ b = Sync2 THEN << [head |-> r.head, payload |-> r.payload] >>
    ELSE << >>

\* What deliver_frame is called with for this byte.
Delivers(r, b) ==
    IF r.state = "END2" /\ b = Sync1 THEN << [head |-> r.head, payload |-> r.payload] >>
    ELSE << >>

Hunting(r) == r.state \in {"SYNC1", "SYNC2"}

(***************************************************************************)
(* Steps.                                                                  *)
(***************************************************************************)
Init ==
    /\ tx = [TxStart([head |-> [i \in 1..HeaderFields |-> 0], payload |-> << >>])
             EXCEPT !.at = Quiet]
    /\ rx = Hunt("SYNC1")
    /\ got = << >>
    /\ intact = FALSE
    /\ faults = 0
    /\ frames = 0

Receive(b) ==
    /\ rx' = RxByte(rx, b)
    /\ got' = got \o Delivers(rx, b)

\* A frame begins, whatever the receiver is in the middle of.
Begin(f) ==
    /\ Resting(tx)
    /\ frames < MaxFrames
    /\ frames' = frames + 1
    /\ tx' = TxStart(f)
    /\ got' = << >>
    /\ intact' = Hunting(rx)
    /\ UNCHANGED <<rx, faults>>

Send ==
    /\ ~Resting(tx)
    /\ Receive(TxByte(tx))
    /\ tx' = TxNext(tx)
    /\ UNCHANGED <<intact, faults, frames>>

Faulty ==
    /\ faults < MaxFaults
    /\ faults' = faults + 1
    /\ intact' = FALSE
    /\ UNCHANGED frames

\* The byte is lost: an overrun, a buffer that was full.
Lose ==
    /\ Faulty
    /\ ~Resting(tx)
    /\ tx' = TxNext(tx)
    /\ UNCHANGED <<rx, got>>

\* A byte arrives that nobody framed: line noise in place of, or between, the
\* bytes of a frame, or the text the CH32X prints on the same UART.
Garble(b) ==
    /\ Faulty
    /\ ~Resting(tx)
    /\ tx' = TxNext(tx)
    /\ Receive(b)

Noise(b) ==
    /\ Faulty
    /\ tx' = tx
    /\ Receive(b)

\* The sender resets, or gives up the rest of the frame.
Break ==
    /\ Faulty
    /\ ~Resting(tx)
    /\ tx' = [tx EXCEPT !.at = Quiet]
    /\ UNCHANGED <<rx, got>>

\* 50 ms without a byte in the middle of a frame: a frame takes 3 ms, so the
\* sender is not sending.
IdleReset ==
    /\ HasIdleReset
    /\ Resting(tx)
    /\ rx.state # "SYNC1"
    /\ rx' = Hunt("SYNC1")
    /\ UNCHANGED <<tx, got, intact, faults, frames>>

Next ==
    \/ \E f \in Frames : Begin(f)
    \/ Send \/ Lose \/ Break \/ IdleReset
    \/ \E b \in Byte : Garble(b) \/ Noise(b)

Spec == Init /\ [][Next]_vars

(***************************************************************************)
(* Properties.                                                             *)
(***************************************************************************)

TxType == [at : Fields \cup {"GUARD", Quiet}, k : Nat, frame : Frames, a : Byte, b : Byte]
RxType == [state : Fields, head : Seq(Byte), len : Nat, payload : Seq(Byte),
           ckA : Byte, a : Byte, b : Byte]
Deframed == [head : Seq(Byte), payload : Seq(Byte)]

\* The type of the two ends of the link: the checksums and the stored fields
\* stay bytes.
TypeOK ==
    /\ tx \in TxType
    /\ rx \in RxType
    /\ got \in Seq(Deframed)
    /\ intact \in BOOLEAN
    /\ faults \in Nat
    /\ frames \in Nat

\* The payload buffer is never written past WUPS_MAX_PAYLOAD, whatever length
\* the line made the deframer read, and a payload byte always has its place.
BufferSafe ==
    /\ Len(rx.head) <= HeaderFields
    /\ Len(rx.payload) <= MaxPayload
    /\ rx.state = "PAYLOAD" => Len(rx.payload) < rx.len /\ rx.len <= MaxPayload

\* Resynchronisation: a deframer that is hunting when a frame starts - having
\* lost the previous one, even if it took that one's END2 for a SYNC1 - delivers
\* the frame if it is undamaged, when its END2 arrives, and nothing else: no
\* payload byte or inner frame is taken for a frame of its own.
NextFrameLocks ==
    intact /\ tx.at # Quiet => got = IF tx.at = "GUARD" THEN << tx.frame >> ELSE << >>

\* All of these: what a receiver may rely on, whatever the line does.
FramesSound == TypeOK /\ BufferSafe /\ NextFrameLocks

=============================================================================
