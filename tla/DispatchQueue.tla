--------------------------- MODULE DispatchQueue ---------------------------
(***************************************************************************)
(* The ESP32's application publish queue: mqtt_dispatch_queue.c, the       *)
(* submission and receipt API of mqtt.c above it, and the tail of the MQTT *)
(* owner task (claim, SDK enqueue, finish) below it.                       *)
(*                                                                         *)
(* Every operation runs under the spin lock s_lock, so each is one action; *)
(* the SDK enqueue runs with the lock released, so Claim and the finishing *)
(* action are separate and every other task may run between them.          *)
(*                                                                         *)
(* A submission the code refuses (pool full, reserve reached, no receipt   *)
(* slot, counter at its limit) changes nothing but a diagnostic counter    *)
(* and is a stuttering step here.                                          *)
(***************************************************************************)
EXTENDS Integers, Sequences, FiniteSets

CONSTANTS
    Capacity,         \* MQTT_DISPATCH_CAPACITY
    CriticalReserve,  \* MQTT_DISPATCH_CRITICAL_RESERVE
    CriticalBurst,    \* MQTT_DISPATCH_CRITICAL_BURST
    ReceiptSlots,     \* MQTT_RECEIPTS
    Keys,             \* coalescing identities: (key, qos, retain, topic)
    ItemTTL,          \* MQTT_ITEM_TTL_MS
    SnapshotTTL,      \* MQTT_SNAPSHOT_TTL_MS
    RetryDelay,       \* the owner's 1000 ms
    MaxToken,         \* UINT64_MAX in submit: the last token ever issued
    MaxTime           \* bound on the clock

ASSUME QueueConstants ==
    /\ Capacity \in Nat \ {0}
    /\ CriticalReserve \in 0..Capacity
    /\ CriticalBurst \in Nat \ {0}
    /\ ReceiptSlots \in Nat
    /\ Keys \subseteq Nat \ {0}
    /\ ItemTTL \in Nat \ {0}
    /\ SnapshotTTL \in Nat \ {0}
    /\ RetryDelay \in Nat
    /\ MaxToken \in Nat
    /\ MaxTime \in Nat

VARIABLES
    slots,       \* q->slots
    lastToken,   \* q->last_token (= counters.accepted)
    streak,      \* q->critical_streak
    coalesced,   \* counters.coalesced
    expired,     \* counters.expired
    depth,       \* counters.depth
    receipts,    \* s_receipts
    claim,       \* the owner's local copy of the claimed item
    now,         \* esp_timer milliseconds
    sent,        \* history: items the SDK accepted, in order
    passedOver   \* history: critical claims since an eligible normal head waited

vars == <<slots, lastToken, streak, coalesced, expired, depth, receipts, claim,
          now, sent, passedOver>>

Slots == 0..(Capacity - 1)
Tokens == 0..MaxToken
Classes == {"critical", "normal"}
ReceiptIds == 1..ReceiptSlots

\* What release_slot's memset leaves behind.
FreeSlot == [state |-> "free", token |-> 0, order |-> 0, retry |-> 0,
             class |-> "normal", key |-> 0, deadline |-> 0]

NoClaim == [slot |-> 0, token |-> 0, deadline |-> 0]

SlotType == [state : {"free", "queued", "inflight"}, token : Tokens,
             order : Tokens, retry : Nat, class : Classes,
             key : Keys \cup {0}, deadline : Nat]

(***************************************************************************)
(* Views of the pool.                                                      *)
(***************************************************************************)
Free == {i \in Slots : slots[i].state = "free"}
Queued == {i \in Slots : slots[i].state = "queued"}
Inflight == {i \in Slots : slots[i].state = "inflight"}
Normal == {i \in Slots : slots[i].state # "free" /\ slots[i].class = "normal"}

Lapsed(i) == slots[i].deadline <= now

Replaceable(key) ==
    {i \in Queued : key # 0 /\ slots[i].class = "normal" /\ slots[i].key = key}

TTL(key) == IF key = 0 THEN ItemTTL ELSE SnapshotTTL

\* receipt_finish for a set of tokens: every slot that holds one of them.
ReceiptFinish(tokens, status) ==
    [r \in ReceiptIds |->
        IF receipts[r].token \in tokens
        THEN [receipts[r] EXCEPT !.status = status]
        ELSE receipts[r]]

Init ==
    /\ slots = [i \in Slots |-> FreeSlot]
    /\ lastToken = 0
    /\ streak = 0
    /\ coalesced = 0
    /\ expired = 0
    /\ depth = 0
    /\ receipts = [r \in ReceiptIds |-> [token |-> 0, status |-> "pending"]]
    /\ claim = NoClaim
    /\ now = 0
    /\ sent = << >>
    /\ passedOver = 0

(***************************************************************************)
(* Producers.                                                              *)
(***************************************************************************)

\* A snapshot replaces the last queued entry of its identity in place: the
\* slot keeps its order and its retry delay, the item and the token are new.
CoalesceInto(i, key) ==
    /\ slots' = [slots EXCEPT ![i] = [@ EXCEPT !.state = "queued",
                                               !.token = lastToken + 1,
                                               !.deadline = now + TTL(key)]]
    /\ coalesced' = coalesced + 1
    /\ receipts' = ReceiptFinish({slots[i].token}, "failed")
    /\ UNCHANGED depth

\* A new entry takes the first free slot.
AdmitInto(i, class, key) ==
    /\ slots' = [slots EXCEPT ![i] =
                    [state |-> "queued", token |-> lastToken + 1,
                     order |-> lastToken + 1, retry |-> 0, class |-> class,
                     key |-> key, deadline |-> now + TTL(key)]]
    /\ depth' = depth + 1
    /\ UNCHANGED coalesced

\* Mutant: off by one at the reserve.
AdmissibleOffByOne(class) ==
    class = "normal" => Cardinality(Normal) <= Capacity - CriticalReserve

Admissible(class) ==
    class = "normal" => Cardinality(Normal) < Capacity - CriticalReserve

Submitting ==
    /\ lastToken < MaxToken
    /\ now + ItemTTL <= MaxTime          \* the deadline is within the bound
    /\ lastToken' = lastToken + 1
    /\ UNCHANGED <<streak, expired, claim, now, sent, passedOver>>

\* mqtt_publish_snapshot
PublishSnapshot(key) ==
    /\ Submitting
    /\ \/ \E i \in Replaceable(key) :
            /\ \A j \in Replaceable(key) : j <= i
            /\ CoalesceInto(i, key)
       \/ /\ Replaceable(key) = {}
          /\ Admissible("normal")
          /\ \E i \in Free : (\A j \in Free : i <= j) /\ AdmitInto(i, "normal", key)
          /\ UNCHANGED receipts

\* mqtt_publish_raw and mqtt_publish_critical
Publish(class) ==
    /\ Submitting
    /\ Admissible(class)
    /\ \E i \in Free : (\A j \in Free : i <= j) /\ AdmitInto(i, class, 0)
    /\ UNCHANGED receipts

\* mqtt_publish_tracked: critical, with the first free receipt slot.
FreeReceipts == {r \in ReceiptIds : receipts[r].token = 0}

PublishTracked ==
    /\ Submitting
    /\ \E r \in FreeReceipts :
        /\ \A s \in FreeReceipts : r <= s
        /\ receipts' = [receipts EXCEPT ![r] = [token |-> lastToken + 1,
                                                status |-> "pending"]]
    /\ \E i \in Free : (\A j \in Free : i <= j) /\ AdmitInto(i, "critical", 0)

\* mqtt_receipt_take releases a settled receipt; of a pending one it is a read.
ReceiptTake(r) ==
    /\ receipts[r].token # 0
    /\ receipts[r].status # "pending"
    /\ receipts' = [receipts EXCEPT ![r].token = 0]
    /\ UNCHANGED <<slots, lastToken, streak, coalesced, expired, depth, claim,
                   now, sent, passedOver>>

\* mqtt_receipt_forget releases it in any state.
ReceiptForget(r) ==
    /\ receipts[r].token # 0
    /\ receipts' = [receipts EXCEPT ![r].token = 0]
    /\ UNCHANGED <<slots, lastToken, streak, coalesced, expired, depth, claim,
                   now, sent, passedOver>>

(***************************************************************************)
(* The owner and monitor tasks.                                            *)
(***************************************************************************)
\* Mutant: critical messages never expire.
StaleNormalOnly == {i \in Queued : Lapsed(i) /\ slots[i].class = "normal"}

Stale == {i \in Queued : Lapsed(i)}

\* mqtt_dispatch_expire and the receipts of what it removed.
Expire ==
    /\ Stale # {}
    /\ slots' = [i \in Slots |-> IF i \in Stale THEN FreeSlot ELSE slots[i]]
    /\ expired' = expired + Cardinality(Stale)
    /\ depth' = depth - Cardinality(Stale)
    /\ receipts' = ReceiptFinish({slots[i].token : i \in Stale}, "failed")
    /\ UNCHANGED <<lastToken, streak, coalesced, claim, now, sent, passedOver>>

\* The oldest live entry of a class, if its retry delay has run out.
Candidates(class) == {i \in Queued : slots[i].class = class /\ ~Lapsed(i)}
Ready(class) ==
    {i \in Candidates(class) :
        /\ \A j \in Candidates(class) : slots[i].order <= slots[j].order
        /\ slots[i].retry <= now}

ClaimSlot(i) ==
    /\ slots' = [slots EXCEPT ![i].state = "inflight"]
    /\ claim' = [slot |-> i, token |-> slots[i].token, deadline |-> slots[i].deadline]
    /\ UNCHANGED <<lastToken, coalesced, expired, depth, receipts, now, sent>>

CriticalTurn == Ready("normal") = {} \/ streak < CriticalBurst

ClaimCritical ==
    /\ claim = NoClaim
    /\ Inflight = {}
    /\ CriticalTurn
    /\ streak' = IF streak < CriticalBurst THEN streak + 1 ELSE streak
    /\ passedOver' = IF Ready("normal") = {} THEN 0 ELSE passedOver + 1
    /\ \E i \in Ready("critical") : ClaimSlot(i)

ClaimNormal ==
    /\ claim = NoClaim
    /\ Inflight = {}
    /\ Ready("critical") = {} \/ ~CriticalTurn
    /\ streak' = 0
    /\ passedOver' = 0
    /\ \E i \in Ready("normal") : ClaimSlot(i)

\* mqtt_dispatch_finish acts only on the claimed slot and token.
Owned == /\ slots[claim.slot].state = "inflight"
         /\ slots[claim.slot].token = claim.token

\* The SDK took the message: remove it, even past its deadline.
FinishSent ==
    /\ claim # NoClaim
    /\ Owned
    /\ slots' = [slots EXCEPT ![claim.slot] = FreeSlot]
    /\ depth' = depth - 1
    /\ sent' = Append(sent, [token |-> claim.token,
                             class |-> slots[claim.slot].class,
                             key |-> slots[claim.slot].key])
    /\ receipts' = ReceiptFinish({claim.token}, "sdk_accepted")
    /\ claim' = NoClaim
    /\ UNCHANGED <<lastToken, streak, coalesced, expired, now, passedOver>>

\* The SDK refused it: back to the queue, unless its deadline passed meanwhile.
FinishRetry ==
    /\ claim # NoClaim
    /\ Owned
    /\ ~Lapsed(claim.slot)
    /\ slots' = [slots EXCEPT ![claim.slot] = [@ EXCEPT !.state = "queued",
                                                        !.retry = now + RetryDelay]]
    /\ claim' = NoClaim
    /\ UNCHANGED <<lastToken, streak, coalesced, expired, depth, receipts, now,
                   sent, passedOver>>

FinishExpired ==
    /\ claim # NoClaim
    /\ Owned
    /\ Lapsed(claim.slot)
    /\ slots' = [slots EXCEPT ![claim.slot] = FreeSlot]
    /\ expired' = expired + 1
    /\ depth' = depth - 1
    /\ receipts' = IF claim.deadline <= now THEN ReceiptFinish({claim.token}, "failed")
                   ELSE receipts
    /\ claim' = NoClaim
    /\ UNCHANGED <<lastToken, streak, coalesced, now, sent, passedOver>>

\* The clock; it stands still once it reaches the bound.
Tick ==
    /\ now' = IF now < MaxTime THEN now + 1 ELSE now
    /\ UNCHANGED <<slots, lastToken, streak, coalesced, expired, depth, receipts,
                   claim, sent, passedOver>>

Next ==
    \/ \E key \in Keys : PublishSnapshot(key)
    \/ \E class \in Classes : Publish(class)
    \/ PublishTracked
    \/ \E r \in ReceiptIds : ReceiptTake(r) \/ ReceiptForget(r)
    \/ Expire
    \/ ClaimCritical
    \/ ClaimNormal
    \/ FinishSent
    \/ FinishRetry
    \/ FinishExpired
    \/ Tick

Spec == Init /\ [][Next]_vars

\* The monitor task expires once a second whatever the owner does, an SDK call
\* returns, and time passes.  Nothing forces the owner to claim: the link may
\* be down for as long as it likes.
Fairness ==
    /\ WF_vars(Tick)
    /\ WF_vars(Expire)
    /\ WF_vars(FinishSent \/ FinishRetry \/ FinishExpired)

FairSpec == Spec /\ Fairness

(***************************************************************************)
(* Properties.                                                             *)
(***************************************************************************)

\* The type of every variable of the queue and the receipts.
TypeOK ==
    /\ slots \in [Slots -> SlotType]
    /\ lastToken \in Tokens
    /\ streak \in 0..CriticalBurst
    /\ coalesced \in Nat
    /\ expired \in Nat
    /\ depth \in Int
    /\ receipts \in [ReceiptIds -> [token : Tokens,
                                    status : {"pending", "failed", "sdk_accepted"}]]
    /\ claim \in [slot : Slots, token : Tokens, deadline : Nat]
    /\ now \in Nat
    /\ sent \in Seq([token : Tokens, class : Classes, key : Keys \cup {0}])
    /\ passedOver \in Nat

\* The pool's reserve: normal traffic, retries and in-flight included, never
\* occupies the slots mqtt_dispatch_submit keeps for critical messages.
ReserveKept == Cardinality(Normal) <= Capacity - CriticalReserve

\* While the owner is inside the SDK with the lock released, the claimed slot
\* stays its own (nothing coalesces into it, expires it or claims another), so
\* mqtt_dispatch_finish never answers false.
ClaimOwned ==
    /\ claim # NoClaim => Owned /\ Inflight = {claim.slot}
    /\ claim = NoClaim => Inflight = {}

\* A receipt tells the truth about its message whatever submit, expiry, retry
\* and finish did in between: pending while the message is in the pool,
\* sdk_accepted only if the SDK has it, failed only if it never will.
ReceiptTruth ==
    \A r \in ReceiptIds :
        LET t == receipts[r].token
            inPool == \E i \in Slots : slots[i].state # "free" /\ slots[i].token = t
            wasSent == \E k \in 1..Len(sent) : sent[k].token = t
        IN t # 0 =>
             /\ receipts[r].status = "pending" => inPool /\ ~wasSent
             /\ receipts[r].status = "sdk_accepted" => wasSent /\ ~inPool
             /\ receipts[r].status = "failed" => ~inPool /\ ~wasSent

\* No message is admitted to the SDK twice (QoS 1 enters the outbox once): a
\* retried item leaves the queue when the SDK finally takes it.
SentOnce ==
    \A j, k \in 1..Len(sent) : sent[j].token = sent[k].token => j = k

\* Every accepted submission is in exactly one place: replaced, expired, handed
\* to the SDK, or in the pool; and counters.depth counts the pool.
Accounted ==
    /\ depth = Cardinality(Slots \ Free)
    /\ lastToken = coalesced + expired + Len(sent) + depth

\* Opaque traffic of one class reaches the SDK in submission order, across
\* delayed retries and expiry of some of it.
OpaqueFifo ==
    \A j, k \in 1..Len(sent) :
        /\ j < k
        /\ sent[j].class = sent[k].class
        /\ sent[j].key = 0
        /\ sent[k].key = 0
        => sent[j].token < sent[k].token

\* At most CriticalBurst critical claims in a row pass over a normal head that
\* was ready to go.
BurstBounded == passedOver <= CriticalBurst

\* What mqtt_dispatch_queue.c owes its callers, all of it at once.
QueueSound ==
    /\ TypeOK /\ ReserveKept /\ BurstBounded
    /\ ClaimOwned /\ ReceiptTruth /\ Accounted
    /\ SentOnce /\ OpaqueFifo

\* Snapshots of one identity reach the SDK in submission order, so that the
\* last one published is the newest.
SnapshotFifo ==
    \A j, k \in 1..Len(sent) :
        j < k /\ sent[j].key = sent[k].key /\ sent[j].key # 0
        => sent[j].token < sent[k].token

\* A tracked message whose receipt is kept is settled in bounded time, link up
\* or down: the receipt does not stay pending.
ReceiptsSettle ==
    \A r \in ReceiptIds :
        (receipts[r].token # 0 /\ receipts[r].status = "pending")
            ~> (receipts[r].token = 0 \/ receipts[r].status # "pending")

=============================================================================
