------------------------------ MODULE MqttCodec ------------------------------
(***************************************************************************)
(* MQTT messages as bytes (mqtt_msg.c of espressif__mqtt): each message is *)
(* put together in the one buffer of a connection behind room for the      *)
(* longest fixed header, a publication that does not fit is cut and the    *)
(* rest handed over beside it, and what comes in is taken apart again, in  *)
(* pieces when it is longer than the buffer.  A byte has Byte values; its  *)
(* upper half is the continuation flag of a length.  The first byte of a   *)
(* message is a record.                                                    *)
(***************************************************************************)
EXTENDS Integers, SequencesExt

CONSTANTS Byte,          \* 256
          MaxHeader,     \* MQTT_MAX_FIXED_HEADER_SIZE
          BufferLength,  \* buffer_length, also of the receive buffer
          MaxId          \* the largest message id

VARIABLES conn,          \* [total, last]: fragmented_msg_total_length, last_message_id
          sent,          \* the last message: what was asked for, what was made of it, and unstored when it was made
          unstored       \* history: the last publication put together was cut and could not be stored
vars == <<conn, sent, unstored>>

Half == Byte \div 2      \* 0x80
Text(len) == [i \in 1..len |-> i % Byte]
Two(n) == <<n \div Byte, n % Byte>>

\* A message under construction: the bytes behind the header, or a failure.
Begin == [ok |-> TRUE, body |-> <<>>]                    \* set_message_header_size
Room(m, n) == MaxHeader + Len(m.body) + n <= BufferLength
Put(m, n, bytes) == IF m.ok /\ Room(m, n) THEN [m EXCEPT !.body = @ \o bytes] ELSE [ok |-> FALSE, body |-> <<>>]
append_string(m, s) == Put(m, Len(s) + 2, Two(Len(s)) \o s)
NextId(last) == IF last = MaxId THEN 1 ELSE last + 1     \* the counter wraps through zero, which is no id
append_message_id(m, id) == Put(m, 2, Two(id))

\* The remaining length, Half values to a byte, the lowest first.
Varint[n \in Nat] == IF n < Half THEN <<n>> ELSE <<(n % Half) + Half>> \o Varint[n \div Half]
fini_messageOwn(m, type, qos, retain, total) ==
    [ok |-> m.ok /\ Len(Varint[Len(m.body)]) + 1 <= MaxHeader,
     first |-> [type |-> type, dup |-> 0, qos |-> qos, retain |-> retain], rest |-> Varint[Len(m.body)] \o m.body]
fini_message(m, type, qos, retain, total) ==
    LET length == Varint[IF total # 0 THEN total - MaxHeader ELSE Len(m.body)]
    IN [ok |-> m.ok /\ Len(length) + 1 <= MaxHeader,
        first |-> [type |-> type, dup |-> 0, qos |-> qos, retain |-> retain], rest |-> length \o m.body]

Nothing == [ok |-> FALSE, first |-> [type |-> "none", dup |-> 0, qos |-> 0, retain |-> 0], rest |-> <<>>]
Made(asked, msg, left) ==
    sent' = [asked |-> asked, msg |-> IF msg.ok THEN [msg EXCEPT !.rest = @ \o left] ELSE Nothing, after |-> unstored]
Init == conn = [total |-> 0, last |-> 0] /\ sent = [asked |-> [kind |-> "none"], msg |-> Nothing, after |-> FALSE] /\ unstored = FALSE

\* mqtt_msg_publish and mqtt_client_enqueue_publish, whose data is never NULL:
\* cut when it does not fit and stored with the rest of the data, which makes
\* it a message and the cut forgotten; when the outbox has no memory the call
\* fails, and the cut stays noted.
Forgotten(stored, total) == IF stored THEN 0 ELSE total
ForgottenNever(stored, total) == total
mqtt_msg_publish ==
    \E topic \in {Text(n) : n \in 0..4}, data \in {Text(n) : n \in {0, 1, 2, 5, 9, 30, 70}}, qos \in 0..1, retain \in 0..1 :
    LET named == append_string(Begin, topic)
        headed == IF qos > 0 THEN append_message_id(named, NextId(conn.last)) ELSE named
        cut == ~Room(headed, Len(data))
        here == IF cut THEN SubSeq(data, 1, BufferLength - MaxHeader - Len(headed.body)) ELSE data
        total == IF cut THEN Len(data) + MaxHeader + Len(headed.body) ELSE 0
        id == IF qos > 0 /\ named.ok THEN NextId(conn.last) ELSE 0
        asked == [kind |-> "publish", topic |-> topic, data |-> data, qos |-> qos, retain |-> retain, id |-> id]
        msg == fini_message([headed EXCEPT !.body = @ \o here], "publish", qos, retain, total)
    IN \/ /\ (topic = <<>> \/ ~headed.ok) /\ Made(asked, Nothing, <<>>)
          /\ conn' = IF topic # <<>> /\ id # 0 THEN [conn EXCEPT !.last = id] ELSE conn
          /\ UNCHANGED unstored
       \/ /\ topic # <<>> /\ headed.ok
          /\ \E stored \in BOOLEAN :
               /\ Made(asked, IF stored THEN msg ELSE Nothing, SubSeq(data, Len(here) + 1, Len(data)))
               /\ conn' = [total |-> Forgotten(msg.ok /\ stored, total), last |-> IF id # 0 THEN id ELSE conn.last]
               /\ unstored' = (cut /\ ~(msg.ok /\ stored))

Simple(kind, m, qos, id, asked) ==
    /\ Made(asked, fini_message(m, kind, qos, 0, conn.total), <<>>)
    /\ conn' = [conn EXCEPT !.last = IF id # 0 THEN id ELSE @] /\ UNCHANGED unstored
Acks == {"puback", "pubrec", "pubrel", "pubcomp"}
mqtt_msg_ack ==
    \E kind \in Acks, id \in 1..MaxId :
        Simple(kind, append_message_id(Begin, id), IF kind = "pubrel" THEN 1 ELSE 0, 0, [kind |-> kind, id |-> id])
mqtt_msg_subscribe ==
    \E topics \in {<<Text(1)>>, <<Text(2), Text(3)>>, <<Text(1), Text(2), Text(4)>>, <<Text(0)>>} :
    LET Topic(m, t) == IF t = <<>> THEN [ok |-> FALSE, body |-> <<>>] ELSE Put(append_string(m, t), 1, <<1>>)
        id == NextId(conn.last)
    IN Simple("subscribe", FoldLeft(Topic, append_message_id(Begin, id), topics), 1, id, [kind |-> "subscribe", id |-> id, topics |-> topics])
mqtt_msg_unsubscribe ==
    \E topic \in {Text(1), Text(4)} :
    LET id == NextId(conn.last)
    IN Simple("unsubscribe", append_string(append_message_id(Begin, id), topic), 1, id, [kind |-> "unsubscribe", id |-> id])
mqtt_msg_bare == \E kind \in {"pingreq", "pingresp", "disconnect"} : Simple(kind, Begin, 0, 0, [kind |-> kind])

\* The connect message: the flags say which of the strings follow.
Flags(will, user, password) == [will |-> will, user |-> user \/ password, password |-> password]
mqtt_msg_connect ==
    \E client \in {Text(0), Text(1)}, will, user, password \in BOOLEAN :
    LET header == Put(Begin, 2, <<0, 0>>)                     \* protocol, flags, keep-alive: shortened
        named == append_string(header, client)
        willed == IF will THEN append_string(append_string(named, Text(1)), Text(1)) ELSE named
        user_ == IF user THEN append_string(willed, Text(1)) ELSE IF password THEN append_string(willed, <<>>) ELSE willed
        all == IF password THEN append_string(user_, Text(2)) ELSE user_
    IN Simple("connect", all, 0, 0, [kind |-> "connect", client |-> client, flags |-> Flags(will, user, password)])

Next == mqtt_msg_publish \/ mqtt_msg_ack \/ mqtt_msg_subscribe \/ mqtt_msg_unsubscribe \/ mqtt_msg_bare \/ mqtt_msg_connect
Spec == Init /\ [][Next]_vars

-----------------------------------------------------------------------------
\* The other side.  bytes are those behind the first byte; positions count it.
HeaderEnd(bytes) == LET ends == {i \in 1..Len(bytes) : bytes[i] < Half}
                    IN IF ends = {} THEN Len(bytes) + 1 ELSE Min(ends) + 1        \* bytes of the fixed header
mqtt_get_total_length(bytes) ==
    LET h == HeaderEnd(bytes) IN h + FoldLeftDomain(LAMBDA acc, i : acc + (bytes[i] % Half) * Half^(i - 1), 0, SubSeq(bytes, 1, h - 1))
At(bytes, i) == bytes[i]                                     \* buffer[i], i >= 1
Number(bytes, i) == At(bytes, i) * Byte + At(bytes, i + 1)
NullTopic == [at |-> -1, len |-> 0]
mqtt_get_publish_topic(bytes) ==
    LET length == Len(bytes) + 1
        h == HeaderEnd(bytes)
    IN IF h + 2 >= length THEN NullTopic
       ELSE LET n == Number(bytes, h) IN IF h + 2 + n > length THEN NullTopic ELSE [at |-> h + 2, len |-> n]
mqtt_get_publish_data(first, bytes) ==
    LET length == Len(bytes) + 1
        h == HeaderEnd(bytes)
        i == h + 2 + Number(bytes, h)
        j == IF first.qos > 0 THEN i + 2 ELSE i
        total == mqtt_get_total_length(bytes)
    IN IF h + 2 >= length THEN NullTopic ELSE IF i >= length \/ j >= length \/ total < j THEN NullTopic
       ELSE [at |-> j, len |-> (IF total <= length THEN total ELSE length) - j]
mqtt_get_id(first, bytes) ==
    LET length == Len(bytes) + 1
        h == HeaderEnd(bytes)
        i == h + 2 + Number(bytes, h)
    IN IF first.type = "publish" THEN IF h + 2 >= length THEN 0 ELSE IF first.qos = 0 \/ i + 2 > length THEN 0 ELSE Number(bytes, i)
       ELSE IF first.type \in Acks \cup {"subscribe", "unsubscribe", "suback", "unsuback"} /\ length >= 4
            THEN IF bytes[1] < Half THEN Number(bytes, 2) ELSE 0
       ELSE 0
mqtt_has_valid_msg_hdr(first) ==
    LET flags == <<first.dup, first.qos, first.retain>>
    IN CASE first.type \in {"pubrel", "subscribe", "unsubscribe"} -> flags = <<0, 1, 0>>
         [] first.type = "publish" -> first.qos < 3 /\ (first.qos > 0 \/ first.dup = 0)
         [] OTHER -> flags = <<0, 0, 0>>
\* Whether what has come so far holds the headers.
mqtt_header_complete(first, bytes) ==
    LET length == Len(bytes) + 1
        ends == {i \in 1..(MaxHeader - 1) : i <= Len(bytes) /\ bytes[i] < Half}
        h == IF ends = {} THEN MaxHeader ELSE Min(ends) + 1
    IN /\ Len(bytes) >= MaxHeader - 1 \/ ends # {}
       /\ h + 2 < length
       /\ length >= h + 2 + Number(bytes, h) + (IF first.qos > 0 THEN 2 ELSE 0)

\* deliver_publish: the first event has what the buffer holds of the data, and
\* the others a buffer each of the rest.
deliver_publish(first, bytes) ==
    LET held == SubSeq(bytes, 1, Min({BufferLength - 1, Len(bytes)}))
        d == mqtt_get_publish_data(first, held)
        rest == SubSeq(bytes, Len(held) + 1, Len(bytes))
        Pieces[n \in Nat] == IF n >= Len(rest) THEN <<>>
                             ELSE <<SubSeq(rest, n + 1, Min({n + BufferLength, Len(rest)}))>> \o Pieces[n + BufferLength]
    IN [parts |-> <<IF d.len > 0 THEN SubSeq(held, d.at, d.at + d.len - 1) ELSE <<>>>> \o Pieces[0],
        total |-> d.len + mqtt_get_total_length(bytes) - (Len(held) + 1)]

\* What is sent is what is read: the length is that of the message, the flags
\* are lawful, and topic, id and data come out as they went in, however the
\* message was cut on either side.  A publication is read so whatever was sent
\* before it.  Of the other messages those are excepted that are made after a
\* publication that was cut and could not be stored: they claim the length of that
\* publication, more than they have, until another publication is put together.
Understood ==
    LET a == sent.asked
        m == sent.msg
        topic == mqtt_get_publish_topic(m.rest)
        got == deliver_publish(m.first, m.rest)
        misled == sent.after /\ a.kind # "publish"
    IN m.ok =>
       /\ mqtt_has_valid_msg_hdr(m.first) /\ m.first.type = a.kind
       /\ misled => mqtt_get_total_length(m.rest) > Len(m.rest) + 1
       /\ ~misled => mqtt_get_total_length(m.rest) = Len(m.rest) + 1
       /\ a.kind \in Acks \cup {"publish"} /\ ~misled => mqtt_get_id(m.first, m.rest) = a.id
       /\ a.kind = "publish" =>
            /\ SubSeq(m.rest, topic.at, topic.at + topic.len - 1) = a.topic
            /\ got.total = Len(a.data) /\ FlattenSeq(got.parts) = a.data
            /\ \A n \in 0..Len(m.rest) : mqtt_header_complete(m.first, SubSeq(m.rest, 1, n)) =>
                 n >= HeaderEnd(m.rest) + 1 + Len(a.topic) + (IF a.qos > 0 THEN 2 ELSE 0)

\* What is put together stays inside the buffer, header included.
InBuffer == sent.msg.ok => Len(sent.msg.rest) + 1 <= BufferLength \/ sent.asked.kind = "publish"
CodecSound == Understood /\ InBuffer /\ conn.last \in 0..MaxId
=============================================================================
