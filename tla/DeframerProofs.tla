--------------------------- MODULE DeframerProofs ---------------------------
(***************************************************************************)
(* Proofs about Deframer, for every byte width, header size, payload limit *)
(* and number of faults.  While an undamaged frame is under way, sender    *)
(* and receiver are in the same field with the same running checksum, and  *)
(* the receiver has stored exactly the bytes sent: InStep.  A deframer     *)
(* that is merely hunting is in step when SYNC1 has been sent, because a   *)
(* failed byte is reconsidered as a SYNC1.                                 *)
(***************************************************************************)
EXTENDS Deframer, TLAPS

\* The sender's index points at a byte that exists.
TxIndex ==
    /\ tx.at = "HEAD" => tx.k \in 1..HeaderFields
    /\ tx.at = "PAYLOAD" => tx.k \in 1..Len(tx.frame.payload)
    /\ tx.at \in {"SYNC1", "SYNC2"} => tx.a = 0 /\ tx.b = 0

\* The receiver has stored the first n bytes of s in r.
Stored(r, s, n) == Len(r) = n /\ \A i \in 1..n : r[i] = s[i]

\* What the receiver knows of the frame when the sender is about to send a byte.
SameField ==
    /\ rx.state = tx.at
    /\ rx.a = tx.a /\ rx.b = tx.b
    /\ Stored(rx.head, tx.frame.head, IF tx.at = "HEAD" THEN tx.k - 1 ELSE HeaderFields)
    /\ Stored(rx.payload, tx.frame.payload,
              IF tx.at \in {"HEAD", "LEN_L", "LEN_H"} THEN 0
              ELSE IF tx.at = "PAYLOAD" THEN tx.k - 1 ELSE Len(tx.frame.payload))
    /\ tx.at = "LEN_H" => rx.len = Len(tx.frame.payload) % Base
    /\ tx.at = "PAYLOAD" => rx.len = Len(tx.frame.payload)
    /\ tx.at = "CK_B" => rx.ckA = tx.a

\* BufferSafe of one record, and what makes it inductive.
Safe(r) ==
    /\ Len(r.head) <= HeaderFields
    /\ Len(r.payload) <= MaxPayload
    /\ r.state = "PAYLOAD" => Len(r.payload) < r.len /\ r.len <= MaxPayload
    /\ r.state = "HEAD" => Len(r.head) < HeaderFields
    /\ r.state \in {"HEAD", "LEN_L", "LEN_H"} => r.payload = << >>

\* Sender and receiver during an undamaged frame.
InStep ==
    intact =>
        /\ tx.at = "SYNC1" => Hunting(rx)
        /\ tx.at = "SYNC2" => rx.state = "SYNC2"
        /\ tx.at \in Fields \ {"SYNC1", "SYNC2"} => SameField
        /\ NextFrameLocks

IInv == TypeOK /\ TxIndex /\ Safe(rx) /\ InStep

\* The linear part of the assumptions on the constants.
LEMMA Sizes == HeaderFields \in Nat \ {0} /\ MaxPayload \in Nat /\ Base \in Nat \ {0, 1}
BY DeframerConstants

\* The checksum of either side stays a byte (Fletcher-8 in uint8_t).
LEMMA SumType ==
    ASSUME NEW x \in Byte, NEW y \in Byte
    PROVE  (x + y) % Base \in Byte
BY DeframerConstants DEF Byte

\* A length below Base * Base is given back by its two bytes.
LEMMA LengthBytes ==
    ASSUME NEW n \in 0..MaxPayload
    PROVE  /\ n % Base \in Byte
           /\ n \div Base \in Byte
           /\ (n % Base) + Base * (n \div Base) = n
<1>1. n % Base \in Byte
  BY DeframerConstants DEF Byte
<1>2. n < Base * Base
  BY DeframerConstants
<1>3. n \div Base \in Byte
  BY <1>2, DeframerConstants DEF Byte
<1>4. (n % Base) + Base * (n \div Base) = n
  BY DeframerConstants
<1> QED
  BY <1>1, <1>3, <1>4

\* A frame is two sequences of bytes of the right lengths.
LEMMA FrameShape ==
    ASSUME NEW f \in Frames
    PROVE  /\ f = [head |-> f.head, payload |-> f.payload]
           /\ f.head \in Seq(Byte) /\ Len(f.head) = HeaderFields
           /\ f.payload \in Seq(Byte) /\ Len(f.payload) \in 0..MaxPayload
<1>1. /\ f = [head |-> f.head, payload |-> f.payload]
      /\ f.head \in [1..HeaderFields -> Byte]
  BY DEF Frames
<1>2. f.head \in Seq(Byte) /\ Len(f.head) = HeaderFields
  BY <1>1, DeframerConstants
<1>3. PICK n \in 0..MaxPayload : f.payload \in [1..n -> Byte]
  BY DEF Frames
<1>4. f.payload \in Seq(Byte) /\ Len(f.payload) = n
  BY <1>3, DeframerConstants
<1> QED
  BY <1>1, <1>2, <1>3, <1>4

\* Two byte sequences that agree up to the length of both are equal: what was
\* stored byte by byte is the field that was sent.
LEMMA StoredAll ==
    ASSUME NEW r \in Seq(Byte), NEW s \in Seq(Byte), Stored(r, s, Len(s))
    PROVE  r = s
BY DEF Stored

\* Storing one more byte.
LEMMA StoredMore ==
    ASSUME NEW r \in Seq(Byte), NEW s \in Seq(Byte), NEW k \in 1..Len(s),
           Stored(r, s, k - 1)
    PROVE  Stored(Append(r, s[k]), s, k)
BY DEF Stored

\* Every byte the sender writes is a byte.
LEMMA TxByteType ==
    ASSUME TypeOK, TxIndex, tx.at # Quiet
    PROVE  TxByte(tx) \in Byte
<1> DEFINE f == tx.frame
<1>1. f \in Frames /\ tx.a \in Byte /\ tx.b \in Byte /\ tx.at \in Fields \cup {"GUARD"}
  BY DEF TypeOK, TxType
<1>2. /\ f.head \in Seq(Byte) /\ Len(f.head) = HeaderFields
      /\ f.payload \in Seq(Byte) /\ Len(f.payload) \in 0..MaxPayload
  BY <1>1, FrameShape
<1>3. Len(f.payload) % Base \in Byte /\ Len(f.payload) \div Base \in Byte
  BY <1>2, LengthBytes
<1>4. CASE tx.at \in {"SYNC1", "SYNC2", "END1", "END2", "GUARD"}
  BY <1>4, DeframerConstants DEF TxByte
<1>5. CASE tx.at = "HEAD"
  BY <1>2, <1>5 DEF TxByte, TxIndex
<1>6. CASE tx.at = "PAYLOAD"
  BY <1>2, <1>6 DEF TxByte, TxIndex
<1>7. CASE tx.at \in {"LEN_L", "LEN_H", "CK_A", "CK_B"}
  BY <1>1, <1>3, <1>7 DEF TxByte
<1> QED
  BY <1>1, <1>4, <1>5, <1>6, <1>7 DEF Fields

\* The sender's own step keeps its type and its index in range.
LEMMA TxNextType ==
    ASSUME TypeOK, TxIndex, tx.at # Quiet, tx' = TxNext(tx)
    PROVE  tx' \in TxType /\ TxIndex' /\ tx'.frame = tx.frame
<1> DEFINE b == TxByte(tx)
           q == Sum(tx, b)
           size == Len(tx.frame.payload)
<1>1. b \in Byte
  BY TxByteType
<1>2. tx \in TxType
  BY DEF TypeOK
<1>3. SumA(tx, b) \in Byte
  BY <1>1, <1>2, SumType DEF SumA, TxType
<1>4. SumB(tx, b) \in Byte
  BY <1>2, <1>3, SumType DEF SumB, TxType
<1> HIDE DEF b
<1>5. q.a \in Byte /\ q.b \in Byte /\ q.frame = tx.frame
  BY <1>2, <1>3, <1>4 DEF Sum, TxType
<1>6. size \in 0..MaxPayload
  BY <1>2, FrameShape DEF TxType
<1>7. tx.k \in Nat /\ tx.frame \in Frames /\ tx.a \in Byte /\ tx.b \in Byte
      /\ tx.at \in Fields \cup {"GUARD"}
  BY <1>2 DEF TxType
<1> HIDE DEF q, size
<1>8. PICK p \in Fields \cup {"GUARD", Quiet}, n \in Nat, u \in {tx, q} :
        /\ tx' = Move(u, p, n)
        /\ p = "HEAD" => n \in 1..HeaderFields
        /\ p = "PAYLOAD" => n \in 1..size
        /\ p \notin {"SYNC1"}
        /\ p = "SYNC2" => u = tx /\ tx.at = "SYNC1"
  <2>1. CASE tx.at \in {"SYNC1", "SYNC2"}
    <3>1. \/ tx.at = "SYNC1" /\ tx' = Move(tx, "SYNC2", 1)
          \/ tx' = Move(tx, "HEAD", 1)
      BY <2>1 DEF TxNext
    <3>2. "SYNC2" \in Fields /\ "HEAD" \in Fields /\ 1 \in 1..HeaderFields
      BY Sizes DEF Fields
    <3> QED
      BY <3>1, <3>2
  <2>2. CASE tx.at \in {"CK_A", "CK_B", "END1", "END2", "GUARD"}
    <3>1. PICK m \in {"CK_B", "END1", "END2", "GUARD", Quiet} : tx' = Move(tx, m, 1)
      BY <2>2 DEF TxNext
    <3>2. m \in Fields \cup {"GUARD", Quiet} /\ m \notin {"SYNC1", "SYNC2", "HEAD", "PAYLOAD"}
      BY DEF Fields, Quiet
    <3> QED
      BY <3>1, <3>2
  <2>3. CASE tx.at = "HEAD"
    <3>1. tx' = IF tx.k < HeaderFields THEN Move(q, "HEAD", tx.k + 1) ELSE Move(q, "LEN_L", 1)
      BY <2>3 DEF TxNext, q, b
    <3>2. tx.k \in 1..HeaderFields
      BY <2>3 DEF TxIndex
    <3>3. "HEAD" \in Fields /\ "LEN_L" \in Fields
      BY DEF Fields
    <3> QED
      BY <3>1, <3>2, <3>3, Sizes
  <2>4. CASE tx.at = "PAYLOAD"
    <3>1. tx' = IF tx.k < size THEN Move(q, "PAYLOAD", tx.k + 1) ELSE Move(q, "CK_A", 1)
      BY <2>4 DEF TxNext, q, b, size
    <3>2. tx.k \in 1..size
      BY <2>4 DEF TxIndex, size
    <3>3. "PAYLOAD" \in Fields /\ "CK_A" \in Fields
      BY DEF Fields
    <3> QED
      BY <1>6, <3>1, <3>2, <3>3, Sizes
  <2>5. CASE tx.at = "LEN_L"
    <3>1. tx' = Move(q, "LEN_H", 1)
      BY <2>5 DEF TxNext, q, b
    <3>2. "LEN_H" \in Fields
      BY DEF Fields
    <3> QED
      BY <3>1, <3>2
  <2>6. CASE tx.at = "LEN_H"
    <3>1. tx' = Move(q, IF size = 0 THEN "CK_A" ELSE "PAYLOAD", 1)
      BY <2>6 DEF TxNext, q, b, size
    <3>2. "PAYLOAD" \in Fields /\ "CK_A" \in Fields
      BY DEF Fields
    <3> QED
      BY <1>6, <3>1, <3>2, Sizes
  <2> QED
    BY <1>7, <2>1, <2>2, <2>3, <2>4, <2>5, <2>6 DEF Fields
<1>9. /\ tx' \in TxType /\ tx'.frame = tx.frame /\ tx'.at = p /\ tx'.k = n
      /\ tx'.a = u.a /\ tx'.b = u.b
  BY <1>5, <1>7, <1>8 DEF Move, TxType
<1>10. TxIndex'
  BY <1>8, <1>9 DEF TxIndex, size
<1> QED
  BY <1>9, <1>10

\* A hunting deframer has its type and its buffers are empty.
LEMMA HuntType ==
    ASSUME NEW st \in Fields
    PROVE  /\ Hunt(st) \in RxType /\ Hunt(st).state = st
           /\ Hunt(st).head = << >> /\ Hunt(st).payload = << >>
BY DeframerConstants DEF Hunt, RxType, Byte

\* One byte keeps the deframer's type and its buffers in bounds, whatever the
\* byte and whatever state the deframer is in.
LEMMA RxByteSafe ==
    ASSUME NEW r \in RxType, NEW b \in Byte, Safe(r)
    PROVE  RxByte(r, b) \in RxType /\ Safe(RxByte(r, b))
<1> DEFINE q == Sum(r, b)
<1>1. SumA(r, b) \in Byte
  BY SumType DEF SumA, RxType
<1>2. SumB(r, b) \in Byte
  BY <1>1, SumType DEF SumB, RxType
<1>3. /\ q \in RxType
      /\ q.state = r.state /\ q.head = r.head /\ q.payload = r.payload /\ q.len = r.len
  BY <1>1, <1>2 DEF Sum, RxType
<1> HIDE DEF q
<1>4. \A st \in Fields \ {"PAYLOAD"} : Hunt(st) \in RxType /\ Safe(Hunt(st))
  BY HuntType, Sizes DEF Safe
<1>5. ResetWith(b) \in RxType /\ Safe(ResetWith(b))
  BY <1>4 DEF ResetWith, Fields
<1>6. CASE r.state \in {"SYNC1", "SYNC2"}
  BY <1>4, <1>5, <1>6 DEF RxByte, RxHunt, Fields
<1>7. CASE r.state = "HEAD"
  <2>1. RxByte(r, b) = [q EXCEPT !.head = Append(@, b),
            !.state = IF Len(r.head) + 1 < HeaderFields THEN "HEAD" ELSE "LEN_L"]
    BY <1>7 DEF RxByte, RxHeader, q
  <2>0. Append(q.head, b) \in Seq(Byte) /\ Len(Append(q.head, b)) = Len(r.head) + 1
    BY <1>3 DEF RxType
  <2>2. RxByte(r, b) \in RxType
    BY <1>3, <2>0, <2>1 DEF RxType, Fields
  <2>3. Safe(RxByte(r, b))
    BY <1>3, <1>7, <2>0, <2>1, Sizes DEF RxType, Safe
  <2> QED
    BY <2>2, <2>3
<1>8. CASE r.state = "LEN_L"
  <2>1. RxByte(r, b) = [q EXCEPT !.len = b, !.state = "LEN_H"]
    BY <1>8 DEF RxByte, RxHeader, q
  <2>2. RxByte(r, b) \in RxType /\ Safe(RxByte(r, b))
    <3>1. b \in Nat
      BY Sizes DEF Byte
    <3> QED
      BY <1>3, <1>8, <2>1, <3>1 DEF RxType, Safe, Fields
  <2> QED
    BY <2>2
<1>9. CASE r.state = "LEN_H"
  <2> DEFINE n == r.len + Base * b
  <2>1. n \in Nat
    <3>1. r.len \in Nat /\ b \in Nat /\ Base \in Nat
      BY Sizes DEF RxType, Byte
    <3>2. \A x, y \in Nat : x * y \in Nat
      OBVIOUS
    <3> QED
      BY <3>1, <3>2
  <2>2. RxByte(r, b) = IF n > MaxPayload THEN ResetWith(b)
            ELSE [q EXCEPT !.len = n, !.state = IF n = 0 THEN "CK_A" ELSE "PAYLOAD"]
    BY <1>9 DEF RxByte, RxHeader, q
  <2> HIDE DEF n
  <2>3. CASE n > MaxPayload
    BY <1>5, <2>2, <2>3
  <2>4. CASE ~(n > MaxPayload)
    <3>1. RxByte(r, b) \in RxType
      BY <1>3, <2>1, <2>2, <2>4 DEF RxType, Fields
    <3>2. Safe(RxByte(r, b))
      BY <1>3, <1>9, <2>1, <2>2, <2>4, Sizes DEF RxType, Safe
    <3> QED
      BY <3>1, <3>2
  <2> QED
    BY <2>3, <2>4
<1>10. CASE r.state = "PAYLOAD"
  <2>1. RxByte(r, b) = [q EXCEPT !.payload = Append(@, b),
            !.state = IF Len(r.payload) + 1 >= r.len THEN "CK_A" ELSE "PAYLOAD"]
    BY <1>10 DEF RxByte, RxPayload, q
  <2>0. Append(q.payload, b) \in Seq(Byte) /\ Len(Append(q.payload, b)) = Len(r.payload) + 1
    BY <1>3 DEF RxType
  <2>2. RxByte(r, b) \in RxType
    BY <1>3, <2>0, <2>1 DEF RxType, Fields
  <2>3. Safe(RxByte(r, b))
    BY <1>3, <1>10, <2>0, <2>1, Sizes DEF RxType, Safe
  <2> QED
    BY <2>2, <2>3
<1>11. CASE r.state \in {"CK_A", "CK_B", "END1", "END2"}
  <2>1. \/ \E p \in {"CK_B", "END1", "END2"} :
              RxByte(r, b) \in {[r EXCEPT !.ckA = b, !.state = p], [r EXCEPT !.state = p]}
        \/ RxByte(r, b) \in {ResetWith(b), Hunt("SYNC1")}
    BY <1>11 DEF RxByte, RxTrailer
  <2>2. ASSUME NEW p \in {"CK_B", "END1", "END2"},
               RxByte(r, b) \in {[r EXCEPT !.ckA = b, !.state = p], [r EXCEPT !.state = p]}
        PROVE  RxByte(r, b) \in RxType /\ Safe(RxByte(r, b))
    BY <2>2 DEF RxType, Safe, Fields
  <2>3. Hunt("SYNC1") \in RxType /\ Safe(Hunt("SYNC1"))
    BY <1>4 DEF Fields
  <2> QED
    BY <1>5, <2>1, <2>2, <2>3
<1> QED
  BY <1>6, <1>7, <1>8, <1>9, <1>10, <1>11 DEF RxType, Fields

\* Receiving any byte keeps the receiver's part of the invariant.
LEMMA ReceiveSafe ==
    ASSUME TypeOK, Safe(rx), NEW b \in Byte, Receive(b)
    PROVE  /\ rx' \in RxType /\ Safe(rx)' /\ got' \in Seq(Deframed)
           /\ rx.state # "END2" => got' = got
<1>1. rx \in RxType /\ got \in Seq(Deframed)
  BY DEF TypeOK
<1>2. rx' \in RxType /\ Safe(rx)'
  <2>1. RxByte(rx, b) \in RxType /\ Safe(RxByte(rx, b))
    BY <1>1, RxByteSafe
  <2>2. rx' = RxByte(rx, b)
    BY DEF Receive
  <2>3. rx' \in RxType /\ Safe(rx')
    BY <2>1, <2>2
  <2> QED
    BY <2>3 DEF Safe
<1>3. Delivers(rx, b) \in Seq(Deframed)
  <2>1. [head |-> rx.head, payload |-> rx.payload] \in Deframed
    BY <1>1 DEF RxType, Deframed
  <2> QED
    BY <2>1 DEF Delivers
<1>4. got' \in Seq(Deframed)
  BY <1>1, <1>3 DEF Receive
<1>5. rx.state # "END2" => got' = got
  BY <1>1 DEF Receive, Delivers
<1> QED
  BY <1>2, <1>4, <1>5

\* The initial state satisfies the invariant.
LEMMA InitInv == Init => IInv
<1> SUFFICES ASSUME Init PROVE IInv
  OBVIOUS
<1> DEFINE z == [i \in 1..HeaderFields |-> 0]
<1>1. z \in [1..HeaderFields -> Byte] /\ 0 \in Byte
  BY Sizes DEF Byte
<1>2. << >> \in [1..0 -> Byte] /\ 0 \in 0..MaxPayload
  BY Sizes
<1>3. [head |-> z, payload |-> << >>] \in Frames
  BY <1>1, <1>2 DEF Frames
<1> HIDE DEF z
<1>4. tx = [at |-> Quiet, k |-> 1, frame |-> [head |-> z, payload |-> << >>], a |-> 0, b |-> 0]
  BY DEF Init, TxStart, z
<1>5. tx \in TxType /\ tx.at = Quiet
  BY <1>1, <1>3, <1>4 DEF TxType
<1>6. "SYNC1" \in Fields
  BY DEF Fields
<1>7. rx \in RxType /\ Safe(rx)
  BY <1>6, HuntType, Sizes DEF Init, Safe
<1>8. TypeOK
  <2>1. got \in Seq(Deframed) /\ faults \in Nat /\ frames \in Nat
    BY DEF Init
  <2>2. intact \in BOOLEAN
    BY DEF Init
  <2> QED
    BY <1>5, <1>7, <2>1, <2>2 DEF TypeOK
<1>9. TxIndex
  BY <1>5 DEF TxIndex, Quiet
<1>10. InStep
  BY DEF Init, InStep
<1> QED
  BY <1>7, <1>8, <1>9, <1>10 DEF IInv

\* A step of the sender that arrives keeps the two ends in step.
LEMMA SendInStep ==
    ASSUME IInv, Send
    PROVE  InStep'
<1> DEFINE b == TxByte(tx)
           f == tx.frame
<1> SUFFICES ASSUME intact' PROVE InStep'
  BY DEF InStep
<1>1. intact /\ tx.at # Quiet /\ tx' = TxNext(tx)
  BY DEF Send, Resting
<1>2. rx \in RxType /\ tx \in TxType /\ Safe(rx) /\ TypeOK /\ TxIndex
  BY DEF IInv, TypeOK
<1>3. b \in Byte
  BY <1>1, <1>2, TxByteType
<1>4. rx' = RxByte(rx, b) /\ got' = got \o Delivers(rx, b) /\ Receive(b)
  BY DEF Send, Receive
<1>5. rx.state # "END2" => got' = got
  BY <1>2, <1>3, <1>4, ReceiveSafe
<1>6. f \in Frames /\ tx'.frame = f /\ tx' \in TxType
  BY <1>1, <1>2, TxNextType DEF TxType
<1>7. /\ f = [head |-> f.head, payload |-> f.payload]
      /\ f.head \in Seq(Byte) /\ Len(f.head) = HeaderFields
      /\ f.payload \in Seq(Byte) /\ Len(f.payload) \in 0..MaxPayload
  BY <1>6, FrameShape
<1>8. got = IF tx.at = "GUARD" THEN << f >> ELSE << >>
  BY <1>1 DEF IInv, InStep, NextFrameLocks
<1>9. tx.at \in Fields \ {"SYNC1", "SYNC2"} => SameField
  BY <1>1 DEF IInv, InStep
<1> HIDE DEF f
<1>10. CASE tx.at = "SYNC1"
  <2>1. b = Sync1 /\ tx'.at = "SYNC2"
    BY <1>1, <1>10 DEF TxByte, TxNext, Move
  <2>2. rx.state \in {"SYNC1", "SYNC2"}
    BY <1>1, <1>10 DEF IInv, InStep, Hunting
  <2>3. rx' = Hunt("SYNC2")
    BY <1>4, <2>1, <2>2, DeframerConstants DEF RxByte, RxHunt, ResetWith
  <2>4. rx'.state = "SYNC2"
    BY <2>3 DEF Hunt
  <2>5. got' = << >>
    BY <1>5, <1>8, <1>10, <2>2
  <2> QED
    BY <2>1, <2>4, <2>5 DEF InStep, NextFrameLocks
<1>11. CASE tx.at = "SYNC2"
  <2>1. b = Sync2 /\ tx' = Move(tx, "HEAD", 1)
    BY <1>1, <1>11 DEF TxByte, TxNext
  <2>2. tx'.at = "HEAD" /\ tx'.k = 1 /\ tx'.a = 0 /\ tx'.b = 0
    BY <1>2, <1>11, <2>1 DEF Move, TxIndex
  <2>3. rx.state = "SYNC2"
    BY <1>1, <1>11 DEF IInv, InStep
  <2>4. rx' = Hunt("HEAD")
    BY <1>4, <2>1, <2>3 DEF RxByte, RxHunt
  <2>5. /\ rx'.state = "HEAD" /\ rx'.a = 0 /\ rx'.b = 0
        /\ rx'.head = << >> /\ rx'.payload = << >>
    BY <2>4 DEF Hunt
  <2>6. got' = << >>
    BY <1>5, <1>8, <1>11, <2>3
  <2>7. SameField'
    BY <2>2, <2>5 DEF SameField, Stored
  <2> QED
    BY <2>2, <2>6, <2>7 DEF InStep, NextFrameLocks
<1>12. CASE tx.at = "HEAD"
  <2>1. SameField
    BY <1>9, <1>12 DEF Fields
  <2>2. tx.k \in 1..HeaderFields /\ b = f.head[tx.k]
    BY <1>2, <1>12 DEF TxIndex, TxByte, f
  <2>3. /\ rx.state = "HEAD" /\ rx.a = tx.a /\ rx.b = tx.b
        /\ Stored(rx.head, f.head, tx.k - 1) /\ Stored(rx.payload, f.payload, 0)
    BY <1>12, <2>1 DEF SameField, f
  <2>4. Len(rx.head) = tx.k - 1 /\ rx.head \in Seq(Byte)
    BY <1>2, <2>3 DEF Stored, RxType
  <2>5. /\ rx'.state = IF tx.k < HeaderFields THEN "HEAD" ELSE "LEN_L"
        /\ rx'.head = Append(rx.head, b) /\ rx'.payload = rx.payload
        /\ rx'.a = SumA(rx, b) /\ rx'.b = SumB(rx, b)
    <3>1. rx' = [Sum(rx, b) EXCEPT !.head = Append(@, b),
                     !.state = IF Len(rx.head) + 1 < HeaderFields THEN "HEAD" ELSE "LEN_L"]
      BY <1>4, <2>3 DEF RxByte, RxHeader
    <3>2. Len(rx.head) + 1 = tx.k
      BY <2>2, <2>4, Sizes
    <3>3. /\ Sum(rx, b) \in [state : Fields, head : Seq(Byte), len : Nat, payload : Seq(Byte),
                              ckA : Byte, a : {SumA(rx, b)}, b : {SumB(rx, b)}]
          /\ Sum(rx, b).head = rx.head /\ Sum(rx, b).payload = rx.payload
          /\ Sum(rx, b).len = rx.len
      BY <1>2 DEF Sum, RxType
    <3> QED
      BY <3>1, <3>2, <3>3
  <2>6. /\ tx' = Move(Sum(tx, b), IF tx.k < HeaderFields THEN "HEAD" ELSE "LEN_L",
                     IF tx.k < HeaderFields THEN tx.k + 1 ELSE 1)
    BY <1>1, <1>12 DEF TxNext
  <2>7. /\ tx'.at = IF tx.k < HeaderFields THEN "HEAD" ELSE "LEN_L"
        /\ tx'.at = "HEAD" => tx'.k = tx.k + 1
        /\ tx'.a = SumA(tx, b) /\ tx'.b = SumB(tx, b)
    BY <1>2, <2>6 DEF Move, Sum, TxType
  <2>8. SumA(tx, b) = SumA(rx, b) /\ SumB(tx, b) = SumB(rx, b)
    BY <2>3 DEF SumA, SumB
  <2>9. Stored(Append(rx.head, b), f.head, tx.k)
    BY <1>7, <2>2, <2>3, <2>4, StoredMore
  <2>10. Stored(rx'.head, tx'.frame.head, IF tx'.at = "HEAD" THEN tx'.k - 1 ELSE HeaderFields)
    <3>1. tx.k = IF tx'.at = "HEAD" THEN tx'.k - 1 ELSE HeaderFields
      BY <2>2, <2>7, Sizes
    <3> QED
      BY <1>6, <2>5, <2>9, <3>1
  <2>11. Stored(rx'.payload, tx'.frame.payload, 0)
    BY <1>6, <2>3, <2>5
  <2>12. SameField'
    BY <2>5, <2>7, <2>8, <2>10, <2>11 DEF SameField, Stored
  <2>13. got' = << >>
    BY <1>5, <1>8, <1>12, <2>3
  <2> QED
    BY <2>7, <2>12, <2>13 DEF InStep, NextFrameLocks
<1>13. /\ Sum(rx, b) \in [state : Fields, head : Seq(Byte), len : Nat, payload : Seq(Byte),
                             ckA : Byte, a : {SumA(rx, b)}, b : {SumB(rx, b)}]
       /\ Sum(rx, b).head = rx.head /\ Sum(rx, b).payload = rx.payload
       /\ Sum(rx, b).len = rx.len
       /\ Sum(tx, b).a = SumA(tx, b) /\ Sum(tx, b).b = SumB(tx, b)
  BY <1>2 DEF Sum, RxType, TxType
<1>14. rx.a = tx.a /\ rx.b = tx.b => SumA(tx, b) = SumA(rx, b) /\ SumB(tx, b) = SumB(rx, b)
  BY DEF SumA, SumB
<1>15. CASE tx.at = "LEN_L"
  <2>1. SameField
    BY <1>9, <1>15 DEF Fields
  <2>2. /\ rx.state = "LEN_L" /\ rx.a = tx.a /\ rx.b = tx.b
        /\ Stored(rx.head, f.head, HeaderFields) /\ Stored(rx.payload, f.payload, 0)
    BY <1>15, <2>1 DEF SameField, f
  <2>3. b = Len(f.payload) % Base
    BY <1>15 DEF TxByte, f
  <2>4. rx' = [Sum(rx, b) EXCEPT !.len = b, !.state = "LEN_H"]
    BY <1>4, <2>2 DEF RxByte, RxHeader
  <2>5. /\ rx'.state = "LEN_H" /\ rx'.head = rx.head /\ rx'.payload = rx.payload
        /\ rx'.len = b /\ rx'.a = SumA(rx, b) /\ rx'.b = SumB(rx, b)
    BY <1>13, <2>4
  <2>6. tx' = Move(Sum(tx, b), "LEN_H", 1)
    BY <1>1, <1>15 DEF TxNext
  <2>7. tx'.at = "LEN_H" /\ tx'.a = SumA(tx, b) /\ tx'.b = SumB(tx, b)
    BY <1>13, <2>6 DEF Move
  <2>8. /\ Stored(rx'.head, tx'.frame.head, HeaderFields)
        /\ Stored(rx'.payload, tx'.frame.payload, 0)
        /\ rx'.len = Len(tx'.frame.payload) % Base
    BY <1>6, <2>2, <2>3, <2>5
  <2>9. SameField'
    BY <1>14, <2>2, <2>5, <2>7, <2>8 DEF SameField, Stored
  <2>10. got' = << >>
    BY <1>5, <1>8, <1>15, <2>2
  <2> QED
    BY <2>7, <2>9, <2>10 DEF InStep, NextFrameLocks
<1>16. CASE tx.at = "LEN_H"
  <2> DEFINE size == Len(f.payload)
             p == IF size = 0 THEN "CK_A" ELSE "PAYLOAD"
  <2>1. SameField
    BY <1>9, <1>16 DEF Fields
  <2>2. /\ rx.state = "LEN_H" /\ rx.a = tx.a /\ rx.b = tx.b
        /\ Stored(rx.head, f.head, HeaderFields) /\ Stored(rx.payload, f.payload, 0)
        /\ rx.len = size % Base
    BY <1>16, <2>1 DEF SameField, f
  <2>3. b = size \div Base
    BY <1>16 DEF TxByte, f
  <2>4. rx.len + Base * b = size /\ size \in 0..MaxPayload
    BY <1>7, <2>2, <2>3, LengthBytes
  <2>5. rx' = [Sum(rx, b) EXCEPT !.len = size, !.state = p]
    <3>1. rx' = LET len == rx.len + Base * b
                IN IF len > MaxPayload THEN ResetWith(b)
                   ELSE [Sum(rx, b) EXCEPT !.len = len,
                             !.state = IF len = 0 THEN "CK_A" ELSE "PAYLOAD"]
      BY <1>4, <2>2 DEF RxByte, RxHeader
    <3>2. ~(size > MaxPayload)
      BY <2>4, Sizes
    <3> QED
      BY <2>4, <3>1, <3>2
  <2>6. /\ rx'.state = p /\ rx'.head = rx.head /\ rx'.payload = rx.payload
        /\ rx'.len = size /\ rx'.a = SumA(rx, b) /\ rx'.b = SumB(rx, b)
    BY <1>13, <2>5
  <2>7. tx' = Move(Sum(tx, b), p, 1)
    BY <1>1, <1>16 DEF TxNext, f
  <2>8. tx'.at = p /\ tx'.k = 1 /\ tx'.a = SumA(tx, b) /\ tx'.b = SumB(tx, b)
    BY <1>13, <2>7 DEF Move
  <2>9. /\ Stored(rx'.head, tx'.frame.head, HeaderFields)
        /\ Stored(rx'.payload, tx'.frame.payload, 0)
        /\ rx'.len = Len(tx'.frame.payload)
    BY <1>6, <2>2, <2>6
  <2>10. Stored(rx'.payload, tx'.frame.payload,
                IF tx'.at = "PAYLOAD" THEN tx'.k - 1 ELSE Len(tx'.frame.payload))
    BY <1>6, <2>4, <2>8, <2>9
  <2>11. SameField'
    BY <1>14, <2>2, <2>6, <2>8, <2>9, <2>10 DEF SameField
  <2>12. got' = << >>
    BY <1>5, <1>8, <1>16, <2>2
  <2>13. tx'.at \in {"CK_A", "PAYLOAD"}
    BY <2>8
  <2> QED
    BY <2>11, <2>12, <2>13 DEF InStep, NextFrameLocks
<1>17. CASE tx.at = "PAYLOAD"
  <2> DEFINE size == Len(f.payload)
             p == IF tx.k < size THEN "PAYLOAD" ELSE "CK_A"
  <2>1. SameField
    BY <1>9, <1>17 DEF Fields
  <2>2. /\ rx.state = "PAYLOAD" /\ rx.a = tx.a /\ rx.b = tx.b
        /\ Stored(rx.head, f.head, HeaderFields) /\ Stored(rx.payload, f.payload, tx.k - 1)
        /\ rx.len = size
    BY <1>17, <2>1 DEF SameField, f
  <2>3. tx.k \in 1..size /\ b = f.payload[tx.k]
    BY <1>2, <1>17 DEF TxIndex, TxByte, f
  <2>4. Len(rx.payload) = tx.k - 1 /\ rx.payload \in Seq(Byte)
    BY <1>2, <2>2 DEF Stored, RxType
  <2>5. /\ rx'.state = p /\ rx'.head = rx.head /\ rx'.payload = Append(rx.payload, b)
        /\ rx'.len = rx.len /\ rx'.a = SumA(rx, b) /\ rx'.b = SumB(rx, b)
    <3>1. rx' = [Sum(rx, b) EXCEPT !.payload = Append(@, b),
                     !.state = IF Len(rx.payload) + 1 >= rx.len THEN "CK_A" ELSE "PAYLOAD"]
      BY <1>4, <2>2 DEF RxByte, RxPayload
    <3>2. Len(rx.payload) + 1 >= rx.len <=> ~(tx.k < size)
      BY <1>7, <2>2, <2>3, <2>4, Sizes
    <3> QED
      BY <1>13, <3>1, <3>2
  <2>6. tx' = Move(Sum(tx, b), p, IF tx.k < size THEN tx.k + 1 ELSE 1)
    BY <1>1, <1>17 DEF TxNext, f
  <2>7. /\ tx'.at = p /\ tx'.a = SumA(tx, b) /\ tx'.b = SumB(tx, b)
        /\ tx'.at = "PAYLOAD" => tx'.k = tx.k + 1
    BY <1>13, <2>6 DEF Move
  <2>8. Stored(Append(rx.payload, b), f.payload, tx.k)
    BY <1>7, <2>2, <2>3, <2>4, StoredMore
  <2>9. Stored(rx'.payload, tx'.frame.payload,
               IF tx'.at = "PAYLOAD" THEN tx'.k - 1 ELSE Len(tx'.frame.payload))
    <3>1. tx.k = IF tx'.at = "PAYLOAD" THEN tx'.k - 1 ELSE size
      BY <1>7, <2>3, <2>7, Sizes
    <3> QED
      BY <1>6, <2>5, <2>8, <3>1
  <2>10. Stored(rx'.head, tx'.frame.head, HeaderFields) /\ rx'.len = Len(tx'.frame.payload)
    BY <1>6, <2>2, <2>5
  <2>11. SameField'
    BY <1>14, <2>2, <2>5, <2>7, <2>9, <2>10 DEF SameField
  <2>12. got' = << >>
    BY <1>5, <1>8, <1>17, <2>2
  <2>13. tx'.at \in {"CK_A", "PAYLOAD"}
    BY <2>7
  <2> QED
    BY <2>11, <2>12, <2>13 DEF InStep, NextFrameLocks
<1>18. CASE tx.at \in {"CK_A", "CK_B", "END1"}
  <2> DEFINE p == IF tx.at = "CK_A" THEN "CK_B" ELSE IF tx.at = "CK_B" THEN "END1" ELSE "END2"
  <2>1. SameField
    BY <1>9, <1>18 DEF Fields
  <2>2. /\ rx.state = tx.at /\ rx.a = tx.a /\ rx.b = tx.b
        /\ Stored(rx.head, f.head, HeaderFields)
        /\ Stored(rx.payload, f.payload, Len(f.payload))
        /\ tx.at = "CK_B" => rx.ckA = tx.a
    BY <1>18, <2>1 DEF SameField, f
  <2>3. b = IF tx.at = "CK_A" THEN tx.a ELSE IF tx.at = "CK_B" THEN tx.b ELSE Sync2
    BY <1>18 DEF TxByte
  <2>4. rx' = IF tx.at = "CK_A" THEN [rx EXCEPT !.ckA = b, !.state = p]
              ELSE [rx EXCEPT !.state = p]
    BY <1>4, <1>18, <2>2, <2>3 DEF RxByte, RxTrailer
  <2>5. /\ rx'.state = p /\ rx'.head = rx.head /\ rx'.payload = rx.payload
        /\ rx'.a = rx.a /\ rx'.b = rx.b
        /\ tx.at = "CK_A" => rx'.ckA = tx.a
    BY <1>2, <2>3, <2>4 DEF RxType
  <2>6. tx' = Move(tx, p, 1)
    BY <1>1, <1>18 DEF TxNext
  <2>7. tx'.at = p /\ tx'.a = tx.a /\ tx'.b = tx.b
    BY <2>6 DEF Move
  <2>8. /\ Stored(rx'.head, tx'.frame.head, HeaderFields)
        /\ Stored(rx'.payload, tx'.frame.payload, Len(tx'.frame.payload))
    BY <1>6, <2>2, <2>5
  <2>9. tx'.at \in {"CK_B", "END1", "END2"} /\ (tx'.at = "CK_B" => tx.at = "CK_A")
    BY <1>18, <2>7
  <2>10. SameField'
    BY <2>2, <2>5, <2>7, <2>8, <2>9 DEF SameField
  <2>11. got' = << >>
    BY <1>5, <1>8, <1>18, <2>2
  <2> QED
    BY <2>9, <2>10, <2>11 DEF InStep, NextFrameLocks
<1>19. CASE tx.at = "END2"
  <2>1. SameField
    BY <1>9, <1>19 DEF Fields
  <2>2. /\ rx.state = "END2" /\ Stored(rx.head, f.head, HeaderFields)
        /\ Stored(rx.payload, f.payload, Len(f.payload))
    BY <1>19, <2>1 DEF SameField, f
  <2>3. b = Sync1 /\ tx' = Move(tx, "GUARD", 1)
    BY <1>1, <1>19 DEF TxByte, TxNext
  <2>4. rx.head = f.head /\ rx.payload = f.payload
    BY <1>2, <1>7, <2>2, StoredAll DEF RxType
  <2>5. Delivers(rx, b) = << f >>
    BY <1>7, <2>2, <2>3, <2>4 DEF Delivers
  <2>6. got' = << f >>
    BY <1>4, <1>8, <1>19, <2>5
  <2>7. tx'.at = "GUARD"
    BY <2>3 DEF Move
  <2> QED
    BY <1>6, <2>6, <2>7 DEF InStep, NextFrameLocks, Fields
<1>20. CASE tx.at = "GUARD"
  <2>1. tx'.at = Quiet
    BY <1>1, <1>20 DEF TxNext, Move
  <2> QED
    BY <2>1 DEF InStep, NextFrameLocks, Fields, Quiet
<1> QED
  BY <1>1, <1>2, <1>10, <1>11, <1>12, <1>15, <1>16, <1>17, <1>18, <1>19, <1>20
  DEF TxType, Fields

\* Every step keeps the inductive invariant.
LEMMA StepInv == IInv /\ [Next]_vars => IInv'
<1> SUFFICES ASSUME IInv, [Next]_vars PROVE IInv'
  OBVIOUS
<1>1. /\ TypeOK /\ TxIndex /\ Safe(rx) /\ InStep
      /\ tx \in TxType /\ rx \in RxType /\ got \in Seq(Deframed) /\ intact \in BOOLEAN
      /\ faults \in Nat /\ frames \in Nat
  BY DEF IInv, TypeOK
<1>2. ASSUME NEW f \in Frames, Begin(f) PROVE IInv'
  <2>1. tx' = TxStart(f) /\ rx' = rx /\ got' = << >> /\ intact' = Hunting(rx)
    BY <1>2 DEF Begin
  <2>2. /\ tx' \in TxType /\ tx'.at = "SYNC1" /\ tx'.a = 0 /\ tx'.b = 0
    <3>1. "SYNC1" \in Fields /\ 0 \in Byte
      BY Sizes DEF Fields, Byte
    <3> QED
      BY <2>1, <3>1 DEF TxStart, TxType
  <2>3. intact' \in BOOLEAN
    BY <2>1 DEF Hunting
  <2>4. got' \in Seq(Deframed) /\ faults' \in Nat /\ frames' \in Nat
    BY <1>1, <1>2, <2>1 DEF Begin
  <2>5. TypeOK'
    BY <1>1, <2>1, <2>2, <2>3, <2>4 DEF TypeOK
  <2>6. TxIndex' /\ Safe(rx)'
    BY <1>1, <2>1, <2>2 DEF TxIndex, Safe
  <2>7. InStep'
    BY <2>1, <2>2 DEF InStep, Hunting, NextFrameLocks, Fields
  <2> QED
    BY <2>5, <2>6, <2>7 DEF IInv
<1>3. ASSUME Send PROVE IInv'
  <2>1. tx.at # Quiet /\ tx' = TxNext(tx) /\ Receive(TxByte(tx))
    BY <1>3 DEF Send, Resting
  <2>2. TxByte(tx) \in Byte
    BY <1>1, <2>1, TxByteType
  <2>3. tx' \in TxType /\ TxIndex'
    BY <1>1, <2>1, TxNextType
  <2>4. rx' \in RxType /\ Safe(rx)' /\ got' \in Seq(Deframed)
    BY <1>1, <2>1, <2>2, ReceiveSafe
  <2>5. InStep'
    BY <1>3, SendInStep
  <2>6. intact' = intact /\ faults' = faults /\ frames' = frames
    BY <1>3 DEF Send
  <2>7. TypeOK'
    BY <1>1, <2>3, <2>4, <2>6 DEF TypeOK
  <2> QED
    BY <2>3, <2>4, <2>5, <2>7 DEF IInv
<1>4. ASSUME Faulty, tx' \in TxType, TxIndex', rx' \in RxType, Safe(rx)', got' \in Seq(Deframed)
      PROVE  IInv'
  <2>1. intact' = FALSE /\ faults' \in Nat /\ frames' \in Nat
    BY <1>1, <1>4 DEF Faulty
  <2>2. TypeOK'
    BY <1>4, <2>1 DEF TypeOK
  <2>3. InStep'
    BY <2>1 DEF InStep
  <2> QED
    BY <1>4, <2>2, <2>3 DEF IInv
<1>5. ASSUME Lose PROVE IInv'
  <2>1. tx.at # Quiet /\ tx' = TxNext(tx) /\ rx' = rx /\ got' = got /\ Faulty
    BY <1>5 DEF Lose, Resting
  <2>2. tx' \in TxType /\ TxIndex'
    BY <1>1, <2>1, TxNextType
  <2>3. Safe(rx)'
    BY <1>1, <2>1 DEF Safe
  <2> QED
    BY <1>1, <1>4, <2>1, <2>2, <2>3
<1>6. ASSUME NEW b \in Byte, Garble(b) PROVE IInv'
  <2>1. tx.at # Quiet /\ tx' = TxNext(tx) /\ Receive(b) /\ Faulty
    BY <1>6 DEF Garble, Resting
  <2>2. tx' \in TxType /\ TxIndex'
    BY <1>1, <2>1, TxNextType
  <2>3. rx' \in RxType /\ Safe(rx)' /\ got' \in Seq(Deframed)
    BY <1>1, <2>1, ReceiveSafe
  <2> QED
    BY <1>4, <2>1, <2>2, <2>3
<1>7. ASSUME NEW b \in Byte, Noise(b) PROVE IInv'
  <2>1. tx' = tx /\ Receive(b) /\ Faulty
    BY <1>7 DEF Noise
  <2>2. tx' \in TxType /\ TxIndex'
    BY <1>1, <2>1 DEF TxIndex
  <2>3. rx' \in RxType /\ Safe(rx)' /\ got' \in Seq(Deframed)
    BY <1>1, <2>1, ReceiveSafe
  <2> QED
    BY <1>4, <2>1, <2>2, <2>3
<1>8. ASSUME Break PROVE IInv'
  <2>1. tx' = [tx EXCEPT !.at = Quiet] /\ rx' = rx /\ got' = got /\ Faulty
    BY <1>8 DEF Break
  <2>2. tx' \in TxType /\ tx'.at = Quiet
    BY <1>1, <2>1 DEF TxType
  <2>3. TxIndex'
    BY <2>2 DEF TxIndex, Quiet
  <2>4. Safe(rx)'
    BY <1>1, <2>1 DEF Safe
  <2> QED
    BY <1>1, <1>4, <2>1, <2>2, <2>3, <2>4
<1>9. ASSUME IdleReset PROVE IInv'
  <2>1. /\ tx' = tx /\ got' = got /\ intact' = intact /\ faults' = faults /\ frames' = frames
        /\ rx' = Hunt("SYNC1") /\ tx.at \in {"GUARD", Quiet}
    BY <1>9 DEF IdleReset, Resting
  <2>2. "SYNC1" \in Fields
    BY DEF Fields
  <2>3. rx' \in RxType /\ Safe(rx)'
    BY <2>1, <2>2, HuntType, Sizes DEF Safe
  <2>4. TypeOK'
    BY <1>1, <2>1, <2>3 DEF TypeOK
  <2>5. TxIndex'
    BY <1>1, <2>1 DEF TxIndex
  <2>6. InStep'
    BY <1>1, <2>1 DEF InStep, NextFrameLocks, Fields, Quiet
  <2> QED
    BY <2>3, <2>4, <2>5, <2>6 DEF IInv
<1>10. CASE UNCHANGED vars
  <2>1. /\ tx' = tx /\ rx' = rx /\ got' = got /\ intact' = intact
        /\ faults' = faults /\ frames' = frames
    BY <1>10 DEF vars
  <2>2. TypeOK' /\ TxIndex' /\ Safe(rx)'
    BY <1>1, <2>1 DEF TypeOK, TxIndex, Safe
  <2>3. InStep'
    BY <1>1, <2>1 DEF InStep, SameField, Stored, Hunting, NextFrameLocks
  <2> QED
    BY <2>2, <2>3 DEF IInv
<1> QED
  BY <1>2, <1>3, <1>5, <1>6, <1>7, <1>8, <1>9, <1>10 DEF Next

\* The inductive invariant holds in every reachable state.
THEOREM Invariant == Spec => []IInv
BY InitInv, StepInv, PTL DEF Spec

\* The deframer's checksum accumulators stay bytes and what it hands on is a
\* frame of bytes (rx_step in uint8_t).
THEOREM TypeCorrect == Spec => []TypeOK
<1>1. IInv => TypeOK
  BY DEF IInv
<1> QED
  BY <1>1, Invariant, PTL

\* The payload buffer of the deframer (payload[WUPS_MAX_PAYLOAD]) is never
\* overrun, whatever arrives on the line.
THEOREM BufferNeverOverrun == Spec => []BufferSafe
<1>1. IInv => BufferSafe
  BY DEF IInv, Safe, BufferSafe
<1> QED
  BY <1>1, Invariant, PTL

\* A deframer that is hunting locks on the next undamaged frame and delivers it
\* once (rx_reset_with: the failed byte is reconsidered as SYNC1).
THEOREM NextFrameAlwaysLocks == Spec => []NextFrameLocks
<1>1. IInv => NextFrameLocks
  BY DEF IInv, InStep, NextFrameLocks
<1> QED
  BY <1>1, Invariant, PTL

\* What the deframer owes the link holds always, on every line and for every
\* payload size: bytes stay bytes, the buffer is not overrun, and after any
\* damage the next whole frame is found.
THEOREM FramesAlwaysSound == Spec => []FramesSound
<1>1. TypeOK /\ BufferSafe /\ NextFrameLocks => FramesSound
  BY DEF FramesSound
<1> QED
  BY <1>1, TypeCorrect, BufferNeverOverrun, NextFrameAlwaysLocks, PTL

=============================================================================
