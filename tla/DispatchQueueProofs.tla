------------------------ MODULE DispatchQueueProofs ------------------------
(***************************************************************************)
(* Proofs about DispatchQueue for every pool size, reserve, burst, receipt *)
(* table, time-to-live and number of submissions.                          *)
(***************************************************************************)
EXTENDS DispatchQueue, FiniteSetTheorems, TLAPS

ReceiptType == [token : Tokens, status : {"pending", "failed", "sdk_accepted"}]
SentType == [token : Tokens, class : Classes, key : Keys \cup {0}]
ClaimType == [slot : Slots, token : Tokens, deadline : Nat]

\* receipt_finish keeps the receipt table well formed.
LEMMA ReceiptFinishType ==
    ASSUME NEW tokens, NEW status \in {"pending", "failed", "sdk_accepted"},
           receipts \in [ReceiptIds -> ReceiptType]
    PROVE  ReceiptFinish(tokens, status) \in [ReceiptIds -> ReceiptType]
BY DEF ReceiptFinish, ReceiptType

\* The initial pool is well typed.
LEMMA TypeInit == Init => TypeOK
<1> SUFFICES ASSUME Init PROVE TypeOK
    OBVIOUS
<1>1. 0 \in Slots /\ 0 \in Tokens
    BY QueueConstants DEF Slots, Tokens
<1>2. FreeSlot \in SlotType
    BY <1>1 DEF FreeSlot, SlotType, Classes
<1> QED
    BY <1>1, <1>2, QueueConstants DEF Init, TypeOK, NoClaim

\* Removing every lapsed entry keeps the counters integers.
LEMMA StaleFinite == Cardinality(Stale) \in Nat /\ IsFiniteSet(Stale)
<1>1. IsFiniteSet(Slots)
    BY FS_Interval, QueueConstants DEF Slots
<1>2. Stale \subseteq Slots
    BY DEF Stale, Queued
<1> QED
    BY <1>1, <1>2, FS_Subset, FS_CardinalityType

\* Every step keeps the types; the cap on tokens is submit's own test.
LEMMA TypeStep == TypeOK /\ [Next]_vars => TypeOK'
<1> SUFFICES ASSUME TypeOK, [Next]_vars PROVE TypeOK'
    OBVIOUS
<1> USE QueueConstants
<1>0. /\ FreeSlot \in SlotType
      /\ NoClaim \in ClaimType
      /\ Free \subseteq Slots
      /\ Queued \subseteq Slots
    BY DEF FreeSlot, SlotType, Classes, NoClaim, ClaimType, Slots, Tokens, Free, Queued
<1>r. receipts \in [ReceiptIds -> ReceiptType]
    BY DEF TypeOK, ReceiptType
<1>t. ASSUME NEW key \in Keys \cup {0} PROVE TTL(key) \in Nat
    BY DEF TTL
<1>a. ASSUME Submitting, NEW i \in Slots, NEW class \in Classes, NEW key \in Keys \cup {0},
             AdmitInto(i, class, key)
      PROVE  slots' \in [Slots -> SlotType] /\ depth' \in Int
    <2>1. lastToken + 1 \in Tokens /\ now + TTL(key) \in Nat
        BY <1>a, <1>t DEF Submitting, TypeOK, Tokens
    <2> QED
        BY <1>a, <2>1 DEF AdmitInto, TypeOK, SlotType
<1>1. CASE \E key \in Keys : PublishSnapshot(key)
    <2> PICK key \in Keys : PublishSnapshot(key)
        BY <1>1
    <2>1. lastToken + 1 \in Tokens /\ now + TTL(key) \in Nat /\ Submitting
        BY <1>t DEF Submitting, TypeOK, Tokens, PublishSnapshot
    <2>2. CASE \E i \in Replaceable(key) : CoalesceInto(i, key)
        <3> PICK i \in Replaceable(key) : CoalesceInto(i, key)
            BY <2>2
        <3>1. i \in Slots
            BY DEF Replaceable, Queued
        <3>2. slots' \in [Slots -> SlotType]
            <4> DEFINE new == [slots[i] EXCEPT !.state = "queued", !.token = lastToken + 1,
                                               !.deadline = now + TTL(key)]
            <4>0. slots[i] \in SlotType
                BY <3>1 DEF TypeOK
            <4>1. new \in SlotType
                BY <2>1, <4>0 DEF SlotType
            <4>2. slots' = [slots EXCEPT ![i] = new]
                BY DEF CoalesceInto
            <4> QED
                BY <3>1, <4>1, <4>2 DEF TypeOK
        <3>3. receipts' \in [ReceiptIds -> ReceiptType]
            BY <1>r, ReceiptFinishType DEF CoalesceInto
        <3> QED
            <4>1. UNCHANGED <<depth, streak, expired, claim, now, sent, passedOver>>
                BY <2>1 DEF CoalesceInto, Submitting
            <4>2. lastToken' \in Tokens
                BY <2>1 DEF Submitting
            <4>3. coalesced' = coalesced + 1
                BY DEF CoalesceInto
            <4> QED
                BY <3>2, <3>3, <4>1, <4>2, <4>3 DEF TypeOK, ReceiptType
    <2>3. CASE \E i \in Free : AdmitInto(i, "normal", key) /\ UNCHANGED receipts
        BY <1>a, <1>0, <2>1, <2>3 DEF AdmitInto, Submitting, TypeOK, Classes
    <2> QED
        BY <2>2, <2>3 DEF PublishSnapshot
<1>2. CASE \E class \in Classes : Publish(class)
    <2> PICK class \in Classes : Publish(class)
        BY <1>2
    <2>1. PICK i \in Free : AdmitInto(i, class, 0)
        BY DEF Publish
    <2>2. Submitting /\ lastToken + 1 \in Tokens
        BY DEF Publish, Submitting, TypeOK, Tokens
    <2>3. slots' \in [Slots -> SlotType] /\ depth' \in Int
        BY <1>a, <1>0, <2>1, <2>2
    <2> QED
        BY <2>1, <2>2, <2>3 DEF Publish, AdmitInto, Submitting, TypeOK
<1>3. CASE PublishTracked
    <2>1. PICK i \in Free : AdmitInto(i, "critical", 0)
        BY <1>3 DEF PublishTracked
    <2>2. Submitting /\ lastToken + 1 \in Tokens
        BY <1>3 DEF PublishTracked, Submitting, TypeOK, Tokens
    <2>3. slots' \in [Slots -> SlotType] /\ depth' \in Int
        BY <1>a, <1>0, <2>1, <2>2 DEF Classes
    <2>4. receipts' \in [ReceiptIds -> ReceiptType]
        BY <1>3, <1>r, <2>2 DEF PublishTracked, ReceiptType, FreeReceipts
    <2> QED
        BY <2>1, <2>2, <2>3, <2>4 DEF AdmitInto, Submitting, TypeOK, ReceiptType
<1>4. CASE \E r \in ReceiptIds : ReceiptTake(r) \/ ReceiptForget(r)
    <2> PICK r \in ReceiptIds : ReceiptTake(r) \/ ReceiptForget(r)
        BY <1>4
    <2>1. receipts' = [receipts EXCEPT ![r] = [receipts[r] EXCEPT !.token = 0]]
        BY DEF ReceiptTake, ReceiptForget
    <2>2. [receipts[r] EXCEPT !.token = 0] \in ReceiptType
        BY <1>r DEF ReceiptType, Tokens
    <2>3. receipts' \in [ReceiptIds -> ReceiptType]
        BY <1>r, <2>1, <2>2
    <2> QED
        BY <2>3 DEF ReceiptTake, ReceiptForget, TypeOK, ReceiptType
<1>5. CASE Expire
    <2>1. receipts' \in [ReceiptIds -> ReceiptType]
        BY <1>5, <1>r, ReceiptFinishType DEF Expire
    <2>2. slots' \in [Slots -> SlotType]
        BY <1>5, <1>0 DEF Expire, TypeOK
    <2>3. expired' \in Nat /\ depth' \in Int
        BY <1>5, StaleFinite DEF Expire, TypeOK
    <2> QED
        BY <1>5, <2>1, <2>2, <2>3 DEF Expire, TypeOK, ReceiptType
<1>6. CASE ClaimCritical \/ ClaimNormal
    <2>1. PICK i \in Queued : ClaimSlot(i)
        BY <1>6 DEF ClaimCritical, ClaimNormal, Ready, Candidates
    <2>2. slots' \in [Slots -> SlotType] /\ claim' \in ClaimType
        BY <1>0, <2>1 DEF ClaimSlot, TypeOK, SlotType, ClaimType
    <2>3. streak' \in 0..CriticalBurst /\ passedOver' \in Nat
        BY <1>6 DEF ClaimCritical, ClaimNormal, TypeOK
    <2> QED
        BY <2>1, <2>2, <2>3 DEF ClaimSlot, TypeOK, ClaimType
<1>7. CASE FinishSent
    <2>1. receipts' \in [ReceiptIds -> ReceiptType]
        BY <1>7, <1>r, ReceiptFinishType DEF FinishSent
    <2>2. slots' \in [Slots -> SlotType] /\ depth' \in Int
        BY <1>7, <1>0 DEF FinishSent, TypeOK
    <2>3. sent' \in Seq(SentType)
        <3>1. [token |-> claim.token, class |-> slots[claim.slot].class,
               key |-> slots[claim.slot].key] \in SentType
            BY DEF TypeOK, SlotType, SentType
        <3> QED
            BY <1>7, <3>1 DEF FinishSent, TypeOK, SentType
    <2> QED
        BY <1>7, <1>0, <2>1, <2>2, <2>3 DEF FinishSent, TypeOK, ReceiptType, SentType, ClaimType
<1>8. CASE FinishRetry
    <2> DEFINE new == [slots[claim.slot] EXCEPT !.state = "queued", !.retry = now + RetryDelay]
    <2>a. slots[claim.slot] \in SlotType /\ now + RetryDelay \in Nat
        BY DEF TypeOK
    <2>0. new \in SlotType
        BY <2>a DEF SlotType
    <2>1. slots' \in [Slots -> SlotType]
        BY <1>8, <2>0 DEF FinishRetry, TypeOK
    <2> QED
        BY <1>8, <1>0, <2>1 DEF FinishRetry, TypeOK, ClaimType
<1>9. CASE FinishExpired
    <2>1. receipts' \in [ReceiptIds -> ReceiptType]
        BY <1>9, <1>r, ReceiptFinishType DEF FinishExpired
    <2>2. slots' \in [Slots -> SlotType] /\ depth' \in Int /\ expired' \in Nat
        BY <1>9, <1>0 DEF FinishExpired, TypeOK
    <2> QED
        BY <1>9, <1>0, <2>1, <2>2 DEF FinishExpired, TypeOK, ReceiptType, ClaimType
<1>10. CASE Tick
    BY <1>10 DEF Tick, TypeOK
<1>11. CASE UNCHANGED vars
    BY <1>11 DEF vars, TypeOK
<1> QED
    BY <1>1, <1>2, <1>3, <1>4, <1>5, <1>6, <1>7, <1>8, <1>9, <1>10, <1>11 DEF Next

\* Type correctness of the queue, the receipts and the owner's claim.
THEOREM TypeCorrect == Spec => []TypeOK
<1> QED
    BY TypeInit, TypeStep, PTL DEF Spec

(***************************************************************************)
(* The inductive invariant.  What the properties say is not inductive on   *)
(* its own: that no receipt is untruthful needs tokens to be unique in the *)
(* pool and never reused, and that opaque traffic is not reordered needs   *)
(* the order already decided among queued, in-flight and sent messages.    *)
(***************************************************************************)
Live(i) == slots[i].state # "free"

PoolInv ==
    /\ \A i \in Slots : Live(i) =>
        /\ slots[i].token \in 1..lastToken
        /\ slots[i].key = 0 => slots[i].order = slots[i].token
    /\ \A i, j \in Slots : Live(i) /\ Live(j) /\ i # j => slots[i].token # slots[j].token

ClaimInv ==
    /\ ClaimOwned
    /\ claim # NoClaim => /\ claim.token # 0
                          /\ claim.deadline = slots[claim.slot].deadline

\* What each step does to the pool, slot by slot.
Admitted(i, class, key) ==
    /\ i \in Free
    /\ class \in Classes
    /\ key \in Keys \cup {0}
    /\ Submitting
    /\ slots'[i] = [state |-> "queued", token |-> lastToken + 1, order |-> lastToken + 1,
                    retry |-> 0, class |-> class, key |-> key, deadline |-> now + TTL(key)]
    /\ \A j \in Slots \ {i} : slots'[j] = slots[j]
    /\ Admissible(class)
    /\ depth' = depth + 1
    /\ UNCHANGED coalesced

Coalesced(i) ==
    /\ i \in Queued
    /\ Submitting
    /\ slots[i].class = "normal"
    /\ slots[i].key # 0
    /\ slots'[i].state = "queued"
    /\ slots'[i].token = lastToken + 1
    /\ slots'[i].order = slots[i].order
    /\ slots'[i].class = slots[i].class
    /\ slots'[i].key = slots[i].key
    /\ \A j \in Slots \ {i} : slots'[j] = slots[j]
    /\ receipts' = ReceiptFinish({slots[i].token}, "failed")
    /\ UNCHANGED depth
    /\ coalesced' = coalesced + 1

Relabelled(i, from, to) ==
    /\ i \in Slots
    /\ slots[i].state = from
    /\ slots'[i].state = to
    /\ slots'[i].token = slots[i].token
    /\ slots'[i].order = slots[i].order
    /\ slots'[i].class = slots[i].class
    /\ slots'[i].key = slots[i].key
    /\ slots'[i].deadline = slots[i].deadline
    /\ \A j \in Slots \ {i} : slots'[j] = slots[j]
    /\ UNCHANGED <<lastToken, coalesced, expired, depth, receipts, now, sent>>

Claimed(i) ==
    /\ Relabelled(i, "queued", "inflight")
    /\ claim = NoClaim
    /\ Inflight = {}
    /\ ~Lapsed(i)
    /\ \A j \in Candidates(slots[i].class) : slots[i].order <= slots[j].order
    /\ claim' = [slot |-> i, token |-> slots[i].token, deadline |-> slots[i].deadline]

Released ==
    /\ claim # NoClaim
    /\ Owned
    /\ slots'[claim.slot] = FreeSlot
    /\ \A j \in Slots \ {claim.slot} : slots'[j] = slots[j]
    /\ claim' = NoClaim
    /\ depth' = depth - 1
    /\ UNCHANGED <<lastToken, coalesced, now>>

\* A submission that is admitted writes one free slot and nothing else of the pool.
LEMMA AdmittedStep ==
    ASSUME TypeOK, NEW class \in Classes, NEW key \in Keys \cup {0}, Submitting,
           Admissible(class), NEW i \in Free, AdmitInto(i, class, key)
    PROVE  Admitted(i, class, key)
BY DEF AdmitInto, Admitted, TypeOK, Free

\* mqtt_publish_snapshot takes a free slot or replaces a queued one.
LEMMA SnapshotStep ==
    ASSUME TypeOK, NEW key \in Keys, PublishSnapshot(key)
    PROVE  \/ \E i \in Free : Admitted(i, "normal", key) /\ UNCHANGED receipts
           \/ \E i \in Queued : Coalesced(i)
<1>1. Submitting
    BY DEF PublishSnapshot
<1>2. CASE \E i \in Replaceable(key) : CoalesceInto(i, key)
    <2> PICK i \in Replaceable(key) : CoalesceInto(i, key)
        BY <1>2
    <2>1. i \in Queued /\ i \in Slots /\ slots[i].key # 0 /\ slots[i].class = "normal"
        BY QueueConstants DEF Replaceable, Queued
    <2>2. slots' = [slots EXCEPT ![i] = [slots[i] EXCEPT !.state = "queued",
                        !.token = lastToken + 1, !.deadline = now + TTL(key)]]
        BY DEF CoalesceInto
    <2>3. slots[i] \in SlotType /\ DOMAIN slots = Slots
        BY <2>1 DEF TypeOK
    <2>4. slots'[i] = [slots[i] EXCEPT !.state = "queued",
                        !.token = lastToken + 1, !.deadline = now + TTL(key)]
        BY <2>1, <2>2, <2>3
    <2>5. /\ slots'[i].state = "queued"
          /\ slots'[i].token = lastToken + 1
          /\ slots'[i].order = slots[i].order
          /\ slots'[i].class = slots[i].class
          /\ slots'[i].key = slots[i].key
        BY <2>3, <2>4 DEF SlotType
    <2>6. \A j \in Slots \ {i} : slots'[j] = slots[j]
        BY <2>2, <2>3
    <2>7. /\ receipts' = ReceiptFinish({slots[i].token}, "failed")
          /\ UNCHANGED depth
          /\ coalesced' = coalesced + 1
        BY DEF CoalesceInto
    <2> QED
        BY <1>1, <2>1, <2>5, <2>6, <2>7 DEF Coalesced
<1>3. CASE /\ Admissible("normal")
           /\ \E i \in Free : AdmitInto(i, "normal", key)
           /\ UNCHANGED receipts
    BY <1>1, <1>3, AdmittedStep DEF Classes
<1> QED
    BY <1>2, <1>3 DEF PublishSnapshot

\* mqtt_publish_raw and mqtt_publish_critical take a free slot.
LEMMA PublishStep ==
    ASSUME TypeOK, NEW class \in Classes, Publish(class)
    PROVE  \E i \in Free : Admitted(i, class, 0) /\ UNCHANGED receipts
BY AdmittedStep DEF Publish

\* mqtt_publish_tracked takes a free slot and a free receipt.
LEMMA TrackedStep ==
    ASSUME TypeOK, PublishTracked
    PROVE  /\ \E i \in Free : Admitted(i, "critical", 0)
           /\ \E r \in FreeReceipts :
                receipts' = [receipts EXCEPT ![r] = [token |-> lastToken + 1,
                                                     status |-> "pending"]]
<1>1. Admissible("critical") /\ Submitting
    BY DEF Admissible, PublishTracked
<1> QED
    BY <1>1, AdmittedStep DEF PublishTracked, Classes

\* mqtt_dispatch_claim marks the oldest live entry of its class in flight.
LEMMA ClaimStep ==
    ASSUME TypeOK, ClaimCritical \/ ClaimNormal
    PROVE  \E i \in Queued : Claimed(i)
<1>0. PICK class \in Classes : \E i \in Ready(class) : ClaimSlot(i)
    BY DEF ClaimCritical, ClaimNormal, Classes
<1>1. PICK i \in Ready(class) : ClaimSlot(i)
    BY <1>0
<1>2. claim = NoClaim /\ Inflight = {}
    BY DEF ClaimCritical, ClaimNormal
<1>3. /\ i \in Queued
      /\ i \in Slots
      /\ slots[i].state = "queued"
      /\ ~Lapsed(i)
      /\ \A j \in Candidates(slots[i].class) : slots[i].order <= slots[j].order
    BY <1>1 DEF Ready, Candidates, Queued
<1>4. slots' = [slots EXCEPT ![i] = [slots[i] EXCEPT !.state = "inflight"]]
    BY <1>1 DEF ClaimSlot
<1>5. slots[i] \in SlotType /\ DOMAIN slots = Slots
    BY <1>3 DEF TypeOK
<1>6. slots'[i] = [slots[i] EXCEPT !.state = "inflight"]
    BY <1>3, <1>4, <1>5
<1>7. Relabelled(i, "queued", "inflight")
    <2>1. \A j \in Slots \ {i} : slots'[j] = slots[j]
        BY <1>4, <1>5
    <2>2. /\ slots'[i].state = "inflight"
          /\ slots'[i].token = slots[i].token
          /\ slots'[i].order = slots[i].order
          /\ slots'[i].class = slots[i].class
          /\ slots'[i].key = slots[i].key
          /\ slots'[i].deadline = slots[i].deadline
        BY <1>5, <1>6 DEF SlotType
    <2>3. UNCHANGED <<lastToken, coalesced, expired, depth, receipts, now, sent>>
        BY <1>1 DEF ClaimSlot
    <2> QED
        BY <1>3, <2>1, <2>2, <2>3 DEF Relabelled
<1>8. claim' = [slot |-> i, token |-> slots[i].token, deadline |-> slots[i].deadline]
    BY <1>1 DEF ClaimSlot
<1> QED
    BY <1>2, <1>3, <1>7, <1>8 DEF Claimed

\* A refused message that has not lapsed goes back to the queue as it was.
LEMMA RetryStep ==
    ASSUME TypeOK, FinishRetry
    PROVE  Relabelled(claim.slot, "inflight", "queued") /\ claim' = NoClaim
<1> DEFINE i == claim.slot
<1>1. i \in Slots /\ slots[i].state = "inflight"
    BY DEF FinishRetry, Owned, TypeOK
<1>2. slots' = [slots EXCEPT ![i] = [slots[i] EXCEPT !.state = "queued",
                                                    !.retry = now + RetryDelay]]
    BY DEF FinishRetry
<1>3. slots[i] \in SlotType /\ DOMAIN slots = Slots
    BY <1>1 DEF TypeOK
<1>4. slots'[i] = [slots[i] EXCEPT !.state = "queued", !.retry = now + RetryDelay]
    BY <1>1, <1>2, <1>3
<1>5. \A j \in Slots \ {i} : slots'[j] = slots[j]
    BY <1>2, <1>3
<1>6. /\ slots'[i].state = "queued"
      /\ slots'[i].token = slots[i].token
      /\ slots'[i].order = slots[i].order
      /\ slots'[i].class = slots[i].class
      /\ slots'[i].key = slots[i].key
      /\ slots'[i].deadline = slots[i].deadline
    BY <1>3, <1>4 DEF SlotType
<1>7. /\ UNCHANGED <<lastToken, coalesced, expired, depth, receipts, now, sent>>
      /\ claim' = NoClaim
    BY DEF FinishRetry
<1> QED
    BY <1>1, <1>5, <1>6, <1>7 DEF Relabelled

\* An accepted or lapsed message frees the claimed slot.
LEMMA ReleaseStep ==
    ASSUME TypeOK, FinishSent \/ FinishExpired
    PROVE  Released
BY DEF FinishSent, FinishExpired, Released, TypeOK

(***************************************************************************)
(* Tokens are unique in the pool, and the owner keeps what it claimed.     *)
(***************************************************************************)
\* The empty pool satisfies the pool and claim invariants.
LEMMA PoolInit == Init => PoolInv /\ ClaimInv
BY QueueConstants DEF Init, PoolInv, ClaimInv, ClaimOwned, Live, FreeSlot, Inflight, NoClaim

\* Every step keeps tokens unique and the claimed slot the owner's.
LEMMA PoolStep == TypeOK /\ PoolInv /\ ClaimInv /\ [Next]_vars => PoolInv' /\ ClaimInv'
<1> SUFFICES ASSUME TypeOK, PoolInv, ClaimInv, [Next]_vars PROVE PoolInv' /\ ClaimInv'
    OBVIOUS
<1> USE QueueConstants
<1>a. ASSUME NEW i \in Slots, NEW class, NEW key, Admitted(i, class, key)
      PROVE  PoolInv' /\ ClaimInv'
    <2>1. /\ lastToken \in Nat /\ lastToken' = lastToken + 1 /\ claim' = claim
          /\ slots[i].state = "free"
        BY <1>a DEF Admitted, Submitting, TypeOK, Tokens, Free
    <2>2. /\ slots'[i].state = "queued" /\ slots'[i].token = lastToken + 1
          /\ slots'[i].order = lastToken + 1
          /\ \A j \in Slots \ {i} : slots'[j] = slots[j]
        BY <1>a DEF Admitted
    <2>3. PoolInv'
        BY <2>1, <2>2 DEF PoolInv, Live
    <2>4. ClaimInv'
        BY <2>1, <2>2 DEF ClaimInv, ClaimOwned, Owned, Inflight, NoClaim
    <2> QED
        BY <2>3, <2>4
<1>1. CASE \E key \in Keys : PublishSnapshot(key)
    <2> PICK key \in Keys : PublishSnapshot(key)
        BY <1>1
    <2>1. CASE \E i \in Queued : Coalesced(i)
        <3> PICK i \in Queued : Coalesced(i)
            BY <2>1
        <3>1. /\ lastToken \in Nat /\ lastToken' = lastToken + 1 /\ claim' = claim
              /\ slots[i].state = "queued" /\ i \in Slots
            BY DEF Coalesced, Submitting, TypeOK, Tokens, Queued
        <3>2. /\ slots'[i].state = "queued" /\ slots'[i].token = lastToken + 1
              /\ slots'[i].key # 0
              /\ \A j \in Slots \ {i} : slots'[j] = slots[j]
            BY DEF Coalesced
        <3>3. PoolInv'
            BY <3>1, <3>2 DEF PoolInv, Live
        <3>4. ClaimInv'
            BY <3>1, <3>2 DEF ClaimInv, ClaimOwned, Owned, Inflight, NoClaim
        <3> QED
            BY <3>3, <3>4
    <2> QED
        BY <1>a, <2>1, SnapshotStep DEF Free
<1>2. CASE \E class \in Classes : Publish(class)
    BY <1>2, <1>a, PublishStep DEF Free
<1>3. CASE PublishTracked
    BY <1>3, <1>a, TrackedStep DEF Free
<1>4. CASE \E r \in ReceiptIds : ReceiptTake(r) \/ ReceiptForget(r)
    BY <1>4 DEF ReceiptTake, ReceiptForget, PoolInv, ClaimInv, ClaimOwned, Owned, Inflight, Live
<1>5. CASE Expire
    <2>1. /\ \A i \in Slots : slots'[i] = slots[i] \/ (slots'[i] = FreeSlot /\ slots[i].state = "queued")
          /\ UNCHANGED <<lastToken, claim>>
        BY <1>5 DEF Expire, Stale, Queued
    <2>2. PoolInv'
        BY <2>1 DEF PoolInv, Live, FreeSlot
    <2>3. ClaimInv'
        BY <2>1 DEF ClaimInv, ClaimOwned, Owned, Inflight, FreeSlot, TypeOK
    <2> QED
        BY <2>2, <2>3
<1>6. CASE ClaimCritical \/ ClaimNormal
    <2> PICK i \in Queued : Claimed(i)
        BY <1>6, ClaimStep
    <2>1. /\ i \in Slots /\ slots[i].state = "queued" /\ slots'[i].state = "inflight"
          /\ slots'[i].token = slots[i].token /\ slots'[i].order = slots[i].order
          /\ slots'[i].key = slots[i].key /\ slots'[i].deadline = slots[i].deadline
          /\ \A j \in Slots \ {i} : slots'[j] = slots[j]
          /\ lastToken' = lastToken
          /\ claim' = [slot |-> i, token |-> slots[i].token, deadline |-> slots[i].deadline]
          /\ Inflight = {}
        BY DEF Claimed, Relabelled
    <2>2. PoolInv'
        BY <2>1 DEF PoolInv, Live
    <2>3. claim'.token # 0
        BY <2>1 DEF PoolInv, Live, TypeOK, Tokens
    <2>4. Inflight' = {claim.slot}' /\ Owned'
        BY <2>1 DEF Inflight, Owned
    <2>5. (claim # NoClaim)'
        BY <2>3 DEF NoClaim
    <2> QED
        BY <2>1, <2>2, <2>3, <2>4, <2>5 DEF ClaimInv, ClaimOwned
<1>7. CASE FinishSent \/ FinishExpired
    <2>1. Released
        BY <1>7, ReleaseStep
    <2>2. /\ claim.slot \in Slots /\ slots'[claim.slot] = FreeSlot
          /\ \A j \in Slots \ {claim.slot} : slots'[j] = slots[j]
          /\ claim' = NoClaim /\ lastToken' = lastToken
          /\ Inflight = {claim.slot}
        BY <2>1 DEF Released, TypeOK, ClaimInv, ClaimOwned
    <2>3. PoolInv'
        BY <2>2 DEF PoolInv, Live, FreeSlot
    <2>4. Inflight' = {}
        BY <2>2 DEF Inflight, FreeSlot
    <2> QED
        BY <2>2, <2>3, <2>4 DEF ClaimInv, ClaimOwned
<1>8. CASE FinishRetry
    <2> DEFINE i == claim.slot
    <2>1. /\ i \in Slots /\ slots[i].state = "inflight" /\ slots'[i].state = "queued"
          /\ slots'[i].token = slots[i].token /\ slots'[i].order = slots[i].order
          /\ slots'[i].key = slots[i].key
          /\ \A j \in Slots \ {i} : slots'[j] = slots[j]
          /\ lastToken' = lastToken
          /\ claim' = NoClaim
        BY <1>8, RetryStep DEF Relabelled
    <2>2. Inflight = {i}
        BY <1>8 DEF ClaimInv, ClaimOwned, FinishRetry
    <2>3. PoolInv'
        BY <2>1 DEF PoolInv, Live
    <2>4. Inflight' = {}
        BY <2>1, <2>2 DEF Inflight
    <2> QED
        BY <2>1, <2>3, <2>4 DEF ClaimInv, ClaimOwned
<1>9. CASE Tick \/ UNCHANGED vars
    BY <1>9 DEF Tick, vars, PoolInv, ClaimInv, ClaimOwned, Owned, Inflight, Live
<1> QED
    BY <1>1, <1>2, <1>3, <1>4, <1>5, <1>6, <1>7, <1>8, <1>9 DEF Next

(***************************************************************************)
(* Receipts and the history of what the SDK accepted.                      *)
(***************************************************************************)
SentInv ==
    \A k \in 1..Len(sent) :
        /\ sent[k].token \in 1..lastToken
        /\ \A i \in Slots : Live(i) => slots[i].token # sent[k].token

ReceiptInv ==
    /\ ReceiptTruth
    /\ \A r \in ReceiptIds : receipts[r].token <= lastToken

\* FinishSent appends the claimed token, which was live until then.
LEMMA SentAppend ==
    ASSUME TypeOK, FinishSent
    PROVE  /\ Len(sent') = Len(sent) + 1
           /\ \A k \in 1..Len(sent) : sent'[k] = sent[k]
           /\ sent'[Len(sent) + 1].token = claim.token
           /\ sent'[Len(sent) + 1].class = slots[claim.slot].class
           /\ sent'[Len(sent) + 1].key = slots[claim.slot].key
           /\ Len(sent) \in Nat
<1> DEFINE e == [token |-> claim.token, class |-> slots[claim.slot].class,
                 key |-> slots[claim.slot].key]
<1>1. sent' = Append(sent, e) /\ sent \in Seq(SentType) /\ e \in SentType
    BY DEF FinishSent, TypeOK, SentType, SlotType
<1> HIDE DEF e
<1>2. /\ Len(sent') = Len(sent) + 1
      /\ \A k \in 1..Len(sent) : sent'[k] = sent[k]
      /\ sent'[Len(sent) + 1] = e
      /\ Len(sent) \in Nat
    BY <1>1
<1> QED
    BY <1>2 DEF e

\* Every step keeps sent tokens out of the pool and pairwise different.
LEMMA SentStep ==
    TypeOK /\ PoolInv /\ ClaimInv /\ SentInv /\ SentOnce /\ [Next]_vars => SentInv' /\ SentOnce'
<1> SUFFICES ASSUME TypeOK, PoolInv, ClaimInv, SentInv, SentOnce, [Next]_vars
             PROVE  SentInv' /\ SentOnce'
    OBVIOUS
<1> USE QueueConstants
<1>0. lastToken \in Nat
    BY DEF TypeOK, Tokens
<1>n. ASSUME NEW i \in Slots, lastToken' = lastToken + 1, sent' = sent,
             slots'[i].token = lastToken + 1, \A j \in Slots \ {i} : slots'[j] = slots[j]
      PROVE  SentInv' /\ SentOnce'
    <2>1. SentOnce'
        BY <1>n DEF SentOnce
    <2>2. ASSUME NEW k \in 1..Len(sent)
          PROVE  /\ sent[k].token \in 1..lastToken'
                 /\ sent[k].token # lastToken + 1
        <3>1. sent[k].token \in 1..lastToken
            BY DEF SentInv
        <3> QED
            BY <1>0, <1>n, <3>1
    <2>3. ASSUME NEW k \in 1..Len(sent), NEW j \in Slots, slots'[j].state # "free"
          PROVE  slots'[j].token # sent[k].token
        <3>1. CASE j = i
            BY <1>n, <2>2, <3>1
        <3>2. CASE j # i
            BY <1>n, <2>3, <3>2 DEF SentInv, Live
        <3> QED
            BY <3>1, <3>2
    <2>4. SentInv'
        BY <1>n, <2>2, <2>3 DEF SentInv, Live
    <2> QED
        BY <2>1, <2>4
<1>a. ASSUME NEW i \in Slots, NEW class, NEW key, Admitted(i, class, key)
      PROVE  SentInv' /\ SentOnce'
    BY <1>a, <1>n DEF Admitted, Submitting
<1>1. CASE \E key \in Keys : PublishSnapshot(key)
    <2> PICK key \in Keys : PublishSnapshot(key)
        BY <1>1
    <2>1. CASE \E i \in Queued : Coalesced(i)
        BY <1>n, <2>1 DEF Coalesced, Submitting, Queued
    <2> QED
        BY <1>a, <2>1, SnapshotStep DEF Free
<1>2. CASE \E class \in Classes : Publish(class)
    BY <1>2, <1>a, PublishStep DEF Free
<1>3. CASE PublishTracked
    BY <1>3, <1>a, TrackedStep DEF Free
<1>4. CASE \E r \in ReceiptIds : ReceiptTake(r) \/ ReceiptForget(r)
    BY <1>4 DEF ReceiptTake, ReceiptForget, SentInv, SentOnce, Live
<1>5. CASE Expire
    <2>1. /\ \A i \in Slots : slots'[i] = slots[i] \/ slots'[i] = FreeSlot
          /\ UNCHANGED <<lastToken, sent>>
        BY <1>5 DEF Expire
    <2> QED
        BY <2>1 DEF SentInv, SentOnce, Live, FreeSlot
<1>6. CASE ClaimCritical \/ ClaimNormal
    <2> PICK i \in Queued : Claimed(i)
        BY <1>6, ClaimStep
    <2>1. /\ i \in Slots /\ slots[i].state = "queued"
          /\ slots'[i].token = slots[i].token
          /\ \A j \in Slots \ {i} : slots'[j] = slots[j]
          /\ UNCHANGED <<lastToken, sent>>
        BY DEF Claimed, Relabelled
    <2> QED
        BY <2>1 DEF SentInv, SentOnce, Live
<1>7. CASE FinishSent
    <2>1. /\ claim.slot \in Slots /\ slots'[claim.slot] = FreeSlot
          /\ \A j \in Slots \ {claim.slot} : slots'[j] = slots[j]
          /\ lastToken' = lastToken
        BY <1>7, ReleaseStep DEF Released, TypeOK
    <2>2. Live(claim.slot) /\ slots[claim.slot].token = claim.token
        BY <1>7 DEF FinishSent, Owned, Live
    <2>3. /\ claim.token \in 1..lastToken
          /\ \A j \in Slots : Live(j) /\ j # claim.slot => slots[j].token # claim.token
          /\ \A k \in 1..Len(sent) : sent[k].token # claim.token
        BY <2>1, <2>2 DEF PoolInv, SentInv
    <2>4. SentOnce'
        BY <1>7, <2>3, SentAppend DEF SentOnce
    <2>5. ASSUME NEW k \in 1..Len(sent')
          PROVE  /\ sent'[k].token \in 1..lastToken
                 /\ \A i \in Slots : slots'[i].state # "free" => slots'[i].token # sent'[k].token
        <3>1. CASE k = Len(sent) + 1
            BY <1>7, <2>1, <2>3, <3>1, SentAppend DEF Live, FreeSlot
        <3>2. CASE k \in 1..Len(sent)
            <4>1. sent'[k] = sent[k]
                BY <1>7, <3>2, SentAppend
            <4>2. ASSUME NEW i \in Slots, slots'[i].state # "free" PROVE slots'[i] = slots[i]
                BY <2>1, <4>2 DEF FreeSlot
            <4> QED
                BY <3>2, <4>1, <4>2 DEF SentInv, Live
        <3> QED
            BY <1>7, <3>1, <3>2, SentAppend
    <2> QED
        BY <2>1, <2>4, <2>5 DEF SentInv, Live
<1>8. CASE FinishRetry
    <2>1. /\ claim.slot \in Slots /\ slots[claim.slot].state = "inflight"
          /\ slots'[claim.slot].token = slots[claim.slot].token
          /\ \A j \in Slots \ {claim.slot} : slots'[j] = slots[j]
          /\ UNCHANGED <<lastToken, sent>>
        BY <1>8, RetryStep DEF Relabelled
    <2> QED
        BY <2>1 DEF SentInv, SentOnce, Live
<1>9. CASE FinishExpired
    <2>1. /\ claim.slot \in Slots /\ slots'[claim.slot] = FreeSlot
          /\ \A j \in Slots \ {claim.slot} : slots'[j] = slots[j]
          /\ UNCHANGED <<lastToken, sent>>
        BY <1>9, ReleaseStep DEF Released, TypeOK, FinishExpired
    <2> QED
        BY <2>1 DEF SentInv, SentOnce, Live, FreeSlot
<1>10. CASE Tick \/ UNCHANGED vars
    BY <1>10 DEF Tick, vars, SentInv, SentOnce, Live
<1> QED
    BY <1>1, <1>2, <1>3, <1>4, <1>5, <1>6, <1>7, <1>8, <1>9, <1>10 DEF Next

\* What receipt_finish does to a receipt that held a token of the set.
LEMMA ReceiptFinishAt ==
    ASSUME TypeOK, NEW tokens, NEW status, NEW r \in ReceiptIds
    PROVE  /\ ReceiptFinish(tokens, status)[r].token = receipts[r].token
           /\ ReceiptFinish(tokens, status)[r].status =
                IF receipts[r].token \in tokens THEN status ELSE receipts[r].status
<1>1. receipts[r] \in ReceiptType
    BY DEF TypeOK, ReceiptType
<1>2. ReceiptFinish(tokens, status)[r] =
        IF receipts[r].token \in tokens THEN [receipts[r] EXCEPT !.status = status]
        ELSE receipts[r]
    BY DEF ReceiptFinish
<1>3. CASE receipts[r].token \in tokens
    BY <1>1, <1>2, <1>3 DEF ReceiptType
<1>4. CASE receipts[r].token \notin tokens
    BY <1>2, <1>4
<1> QED
    BY <1>3, <1>4

\* Every step keeps the receipts truthful.
LEMMA ReceiptStep ==
    TypeOK /\ PoolInv /\ ClaimInv /\ SentInv /\ ReceiptInv /\ [Next]_vars => ReceiptInv'
<1> SUFFICES ASSUME TypeOK, PoolInv, ClaimInv, SentInv, ReceiptInv, [Next]_vars
             PROVE  ReceiptInv'
    OBVIOUS
<1> USE QueueConstants
<1>0. /\ lastToken \in Nat
      /\ \A r \in ReceiptIds : receipts[r].token \in Nat
    BY DEF TypeOK, Tokens
<1>a. ASSUME NEW i \in Slots, NEW class, NEW key, Admitted(i, class, key), UNCHANGED receipts
      PROVE  ReceiptInv'
    <2>1. /\ lastToken' = lastToken + 1 /\ sent' = sent
          /\ slots[i].state = "free"
          /\ slots'[i].token = lastToken + 1
          /\ \A j \in Slots \ {i} : slots'[j] = slots[j]
        BY <1>a DEF Admitted, Submitting, Free
    <2> QED
        BY <1>a, <1>0, <2>1 DEF ReceiptInv, ReceiptTruth
<1>1. CASE \E key \in Keys : PublishSnapshot(key)
    <2> PICK key \in Keys : PublishSnapshot(key)
        BY <1>1
    <2>1. CASE \E i \in Queued : Coalesced(i)
        <3> PICK i \in Queued : Coalesced(i)
            BY <2>1
        <3>1. /\ lastToken' = lastToken + 1 /\ sent' = sent
              /\ i \in Slots /\ Live(i)
              /\ slots'[i].token = lastToken + 1
              /\ \A j \in Slots \ {i} : slots'[j] = slots[j]
              /\ receipts' = ReceiptFinish({slots[i].token}, "failed")
            BY DEF Coalesced, Submitting, Queued, Live
        <3>2. /\ \A j \in Slots \ {i} : Live(j) => slots[j].token # slots[i].token
              /\ \A k \in 1..Len(sent) : sent[k].token # slots[i].token
              /\ slots[i].token \in 1..lastToken
            BY <3>1 DEF PoolInv, SentInv
        <3>3. ASSUME NEW r \in ReceiptIds
              PROVE  /\ receipts'[r].token = receipts[r].token
                     /\ receipts'[r].status =
                            IF receipts[r].token = slots[i].token THEN "failed"
                            ELSE receipts[r].status
            BY <3>1, ReceiptFinishAt
        <3>4. ASSUME NEW r \in ReceiptIds
              PROVE  (\E j \in Slots : slots'[j].state # "free" /\ slots'[j].token = receipts[r].token)
                     <=> /\ receipts[r].token # slots[i].token
                         /\ \E j \in Slots : Live(j) /\ slots[j].token = receipts[r].token
            <4>1. receipts[r].token # lastToken + 1
                BY <1>0 DEF ReceiptInv
            <4>2. slots'[i].state = "queued"
                BY DEF Coalesced
            <4> QED
                BY <3>1, <3>2, <4>1, <4>2 DEF Live
        <3>5. ASSUME NEW r \in ReceiptIds
              PROVE  (\E k \in 1..Len(sent') : sent'[k].token = receipts[r].token)
                     <=> /\ receipts[r].token # slots[i].token
                         /\ \E k \in 1..Len(sent) : sent[k].token = receipts[r].token
            BY <3>1, <3>2
        <3>6. \A r \in ReceiptIds : receipts'[r].token <= lastToken'
            <4> SUFFICES ASSUME NEW r \in ReceiptIds PROVE receipts'[r].token <= lastToken'
                OBVIOUS
            <4>1. receipts'[r].token = receipts[r].token /\ lastToken' = lastToken + 1
                BY <3>1, <3>3
            <4>2. receipts[r].token <= lastToken
                BY DEF ReceiptInv
            <4>3. receipts[r].token \in Nat /\ lastToken \in Nat
                BY DEF TypeOK, Tokens
            <4> QED
                BY <4>1, <4>2, <4>3
        <3>7. ReceiptTruth'
            <4> SUFFICES ASSUME NEW r \in ReceiptIds, receipts'[r].token # 0
                PROVE
                  LET inPool == \E j \in Slots : slots'[j].state # "free" /\ slots'[j].token = receipts'[r].token
                      wasSent == \E k \in 1..Len(sent') : sent'[k].token = receipts'[r].token
                  IN /\ receipts'[r].status = "pending" => inPool /\ ~wasSent
                     /\ receipts'[r].status = "sdk_accepted" => wasSent /\ ~inPool
                     /\ receipts'[r].status = "failed" => ~inPool /\ ~wasSent
                BY DEF ReceiptTruth
            <4>1. CASE receipts[r].token = slots[i].token
                BY <3>3, <3>4, <3>5, <4>1
            <4>2. CASE receipts[r].token # slots[i].token
                BY <3>3, <3>4, <3>5, <4>2 DEF ReceiptInv, ReceiptTruth, Live
            <4> QED
                BY <4>1, <4>2
        <3> QED
            BY <3>6, <3>7 DEF ReceiptInv
    <2> QED
        BY <1>a, <2>1, SnapshotStep DEF Free
<1>2. CASE \E class \in Classes : Publish(class)
    BY <1>2, <1>a, PublishStep DEF Free
<1>3. CASE PublishTracked
    <2>1. PICK i \in Free : Admitted(i, "critical", 0)
        BY <1>3, TrackedStep
    <2>2. PICK q \in FreeReceipts :
            receipts' = [receipts EXCEPT ![q] = [token |-> lastToken + 1, status |-> "pending"]]
        BY <1>3, TrackedStep
    <2>3. /\ lastToken' = lastToken + 1 /\ sent' = sent
          /\ i \in Slots /\ slots[i].state = "free"
          /\ slots'[i].state = "queued" /\ slots'[i].token = lastToken + 1
          /\ \A j \in Slots \ {i} : slots'[j] = slots[j]
        BY <2>1 DEF Admitted, Submitting, Free
    <2>4. ASSUME NEW r \in ReceiptIds
          PROVE  receipts'[r] = IF r = q THEN [token |-> lastToken + 1, status |-> "pending"]
                                ELSE receipts[r]
        BY <2>2 DEF FreeReceipts, TypeOK
    <2>5. \A k \in 1..Len(sent) : sent[k].token # lastToken + 1
        BY <1>0 DEF SentInv
    <2>6. \A r \in ReceiptIds : receipts'[r].token <= lastToken'
        <3> SUFFICES ASSUME NEW r \in ReceiptIds PROVE receipts'[r].token <= lastToken'
            OBVIOUS
        <3>1. receipts'[r].token = lastToken + 1 \/ receipts'[r].token = receipts[r].token
            BY <2>4
        <3>2. receipts[r].token <= lastToken /\ receipts[r].token \in Nat
            BY DEF ReceiptInv, TypeOK, Tokens
        <3> QED
            BY <1>0, <2>3, <3>1, <3>2
    <2>7. ReceiptTruth'
        <3> SUFFICES ASSUME NEW r \in ReceiptIds, receipts'[r].token # 0
            PROVE
              LET inPool == \E j \in Slots : slots'[j].state # "free" /\ slots'[j].token = receipts'[r].token
                  wasSent == \E k \in 1..Len(sent') : sent'[k].token = receipts'[r].token
              IN /\ receipts'[r].status = "pending" => inPool /\ ~wasSent
                 /\ receipts'[r].status = "sdk_accepted" => wasSent /\ ~inPool
                 /\ receipts'[r].status = "failed" => ~inPool /\ ~wasSent
            BY DEF ReceiptTruth
        <3>1. CASE r = q
            BY <2>3, <2>4, <2>5, <3>1
        <3>2. CASE r # q
            <4>1. receipts'[r] = receipts[r] /\ receipts[r].token # lastToken + 1
                BY <1>0, <2>4, <3>2 DEF ReceiptInv
            <4>2. (\E j \in Slots : slots'[j].state # "free" /\ slots'[j].token = receipts[r].token)
                  <=> (\E j \in Slots : slots[j].state # "free" /\ slots[j].token = receipts[r].token)
                BY <2>3, <4>1
            <4> QED
                BY <2>3, <4>1, <4>2 DEF ReceiptInv, ReceiptTruth
        <3> QED
            BY <3>1, <3>2
    <2> QED
        BY <2>6, <2>7 DEF ReceiptInv
<1>4. CASE \E r \in ReceiptIds : ReceiptTake(r) \/ ReceiptForget(r)
    <2> PICK q \in ReceiptIds : ReceiptTake(q) \/ ReceiptForget(q)
        BY <1>4
    <2>1. receipts' = [receipts EXCEPT ![q].token = 0] /\ UNCHANGED <<slots, sent, lastToken>>
        BY DEF ReceiptTake, ReceiptForget
    <2>2. receipts[q] \in ReceiptType
        BY DEF TypeOK, ReceiptType
    <2>3. receipts'[q].token = 0 /\ \A r \in ReceiptIds \ {q} : receipts'[r] = receipts[r]
        BY <2>1, <2>2 DEF TypeOK, ReceiptType
    <2> QED
        BY <1>0, <2>1, <2>3, SMTT(60) DEF ReceiptInv, ReceiptTruth
<1>5. CASE Expire
    <2> DEFINE gone == {slots[i].token : i \in Stale}
    <2>1. /\ \A i \in Slots : slots'[i] = IF i \in Stale THEN FreeSlot ELSE slots[i]
          /\ UNCHANGED <<lastToken, sent>>
          /\ receipts' = ReceiptFinish(gone, "failed")
          /\ Stale \subseteq Slots
          /\ \A i \in Stale : Live(i)
        BY <1>5 DEF Expire, Stale, Queued, Live
    <2>2. ASSUME NEW r \in ReceiptIds
          PROVE  /\ receipts'[r].token = receipts[r].token
                 /\ receipts'[r].status =
                        IF receipts[r].token \in gone THEN "failed" ELSE receipts[r].status
        BY <2>1, ReceiptFinishAt
    <2>3. ASSUME NEW r \in ReceiptIds, receipts[r].token \in gone
          PROVE  /\ \A j \in Slots : slots'[j].state # "free" => slots'[j].token # receipts[r].token
                 /\ \A k \in 1..Len(sent) : sent[k].token # receipts[r].token
        <3> PICK i \in Stale : receipts[r].token = slots[i].token
            BY <2>3
        <3> QED
            BY <2>1 DEF PoolInv, SentInv, Live, FreeSlot
    <2>4. ASSUME NEW r \in ReceiptIds, receipts[r].token \notin gone
          PROVE  \A j \in Slots : (slots'[j].state # "free" /\ slots'[j].token = receipts[r].token)
                                <=> (slots[j].state # "free" /\ slots[j].token = receipts[r].token)
        BY <2>1, <2>4 DEF FreeSlot
    <2> HIDE DEF gone
    <2> QED
        BY <2>1, <2>2, <2>3, <2>4 DEF ReceiptInv, ReceiptTruth
<1>6. CASE ClaimCritical \/ ClaimNormal
    <2> PICK i \in Queued : Claimed(i)
        BY <1>6, ClaimStep
    <2>1. /\ i \in Slots /\ slots[i].state = "queued" /\ slots'[i].state = "inflight"
          /\ slots'[i].token = slots[i].token
          /\ \A j \in Slots \ {i} : slots'[j] = slots[j]
          /\ UNCHANGED <<lastToken, sent, receipts>>
        BY DEF Claimed, Relabelled
    <2> QED
        BY <2>1 DEF ReceiptInv, ReceiptTruth
<1>b. CASE FinishSent \/ FinishExpired
    <2> DEFINE c == claim.slot
    <2>1. /\ c \in Slots /\ slots'[c] = FreeSlot
          /\ \A j \in Slots \ {c} : slots'[j] = slots[j]
          /\ lastToken' = lastToken
        BY <1>b, ReleaseStep DEF Released, TypeOK
    <2>2. Live(c) /\ slots[c].token = claim.token /\ claim.deadline = slots[c].deadline
        BY <1>b DEF FinishSent, FinishExpired, Owned, Live, ClaimInv
    <2>3. /\ \A j \in Slots : Live(j) /\ j # c => slots[j].token # claim.token
          /\ \A k \in 1..Len(sent) : sent[k].token # claim.token
        BY <2>1, <2>2 DEF PoolInv, SentInv
    <2>4. CASE FinishSent
        <3>1. receipts' = ReceiptFinish({claim.token}, "sdk_accepted")
            BY <2>4 DEF FinishSent
        <3>2. ASSUME NEW r \in ReceiptIds
              PROVE  /\ receipts'[r].token = receipts[r].token
                     /\ receipts'[r].status =
                            IF receipts[r].token = claim.token THEN "sdk_accepted"
                            ELSE receipts[r].status
            BY <3>1, ReceiptFinishAt
        <3>3. ASSUME NEW r \in ReceiptIds
              PROVE  (\E k \in 1..Len(sent') : sent'[k].token = receipts[r].token)
                     <=> \/ receipts[r].token = claim.token
                         \/ \E k \in 1..Len(sent) : sent[k].token = receipts[r].token
            BY <2>4, SentAppend
        <3>4. ASSUME NEW r \in ReceiptIds
              PROVE  (\E j \in Slots : slots'[j].state # "free" /\ slots'[j].token = receipts[r].token)
                     <=> /\ receipts[r].token # claim.token
                         /\ \E j \in Slots : Live(j) /\ slots[j].token = receipts[r].token
            BY <2>1, <2>2, <2>3 DEF Live, FreeSlot
        <3> QED
            BY <2>1, <3>2, <3>3, <3>4 DEF ReceiptInv, ReceiptTruth, Live
    <2>5. CASE FinishExpired
        <3>1. receipts' = ReceiptFinish({claim.token}, "failed") /\ sent' = sent
            BY <2>2, <2>5 DEF FinishExpired, Lapsed
        <3>2. ASSUME NEW r \in ReceiptIds
              PROVE  /\ receipts'[r].token = receipts[r].token
                     /\ receipts'[r].status =
                            IF receipts[r].token = claim.token THEN "failed"
                            ELSE receipts[r].status
            BY <3>1, ReceiptFinishAt
        <3>4. ASSUME NEW r \in ReceiptIds
              PROVE  (\E j \in Slots : slots'[j].state # "free" /\ slots'[j].token = receipts[r].token)
                     <=> /\ receipts[r].token # claim.token
                         /\ \E j \in Slots : Live(j) /\ slots[j].token = receipts[r].token
            BY <2>1, <2>2, <2>3 DEF Live, FreeSlot
        <3>5. ASSUME NEW r \in ReceiptIds
              PROVE  (\E k \in 1..Len(sent') : sent'[k].token = receipts[r].token)
                     <=> /\ receipts[r].token # claim.token
                         /\ \E k \in 1..Len(sent) : sent[k].token = receipts[r].token
            BY <2>3, <3>1
        <3> QED
            BY <2>1, <3>2, <3>4, <3>5 DEF ReceiptInv, ReceiptTruth, Live
    <2> QED
        BY <1>b, <2>4, <2>5
<1>8. CASE FinishRetry
    <2>1. /\ claim.slot \in Slots /\ slots[claim.slot].state = "inflight"
          /\ slots'[claim.slot].state = "queued"
          /\ slots'[claim.slot].token = slots[claim.slot].token
          /\ \A j \in Slots \ {claim.slot} : slots'[j] = slots[j]
          /\ UNCHANGED <<lastToken, sent, receipts>>
        BY <1>8, RetryStep DEF Relabelled
    <2> QED
        BY <2>1 DEF ReceiptInv, ReceiptTruth
<1>10. CASE Tick \/ UNCHANGED vars
    BY <1>10 DEF Tick, vars, ReceiptInv, ReceiptTruth
<1> QED
    BY <1>1, <1>2, <1>3, <1>4, <1>5, <1>6, <1>b, <1>8, <1>10 DEF Next

(***************************************************************************)
(* Admission and the burst limit.                                          *)
(***************************************************************************)
\* Admission looks at the occupancy before the new entry: one more normal
\* entry still leaves the reserve, and no other step adds a normal entry.
LEMMA ReserveStep == TypeOK /\ ReserveKept /\ [Next]_vars => ReserveKept'
<1> SUFFICES ASSUME TypeOK, ReserveKept, [Next]_vars PROVE ReserveKept'
    OBVIOUS
<1> USE QueueConstants
<1>0. /\ IsFiniteSet(Normal)
      /\ Cardinality(Normal) \in Nat
      /\ Capacity - CriticalReserve \in Int
    <2>1. IsFiniteSet(Slots) /\ Normal \subseteq Slots
        BY FS_Interval DEF Slots, Normal
    <2> QED
        BY <2>1, FS_Subset, FS_CardinalityType
<1>k. ASSUME Normal' \subseteq Normal PROVE ReserveKept'
    <2>1. Cardinality(Normal') <= Cardinality(Normal) /\ Cardinality(Normal') \in Nat
        BY <1>0, <1>k, FS_Subset, FS_CardinalityType
    <2> QED
        BY <1>0, <2>1 DEF ReserveKept
<1>a. ASSUME NEW i \in Slots, NEW class, NEW key, Admitted(i, class, key)
      PROVE  ReserveKept'
    <2>1. CASE class = "normal"
        <3>1. Normal' = Normal \cup {i} /\ i \notin Normal
            BY <1>a, <2>1 DEF Admitted, Normal, Free
        <3>2. Cardinality(Normal) < Capacity - CriticalReserve
            BY <1>a, <2>1 DEF Admitted, Admissible
        <3>3. Cardinality(Normal') = Cardinality(Normal) + 1
            BY <1>0, <3>1, FS_AddElement
        <3> QED
            BY <1>0, <3>2, <3>3 DEF ReserveKept
    <2>2. CASE class # "normal"
        BY <1>a, <1>k, <2>2 DEF Admitted, Normal, Free
    <2> QED
        BY <2>1, <2>2
<1>1. CASE \E key \in Keys : PublishSnapshot(key)
    <2>1. ASSUME NEW i \in Queued, Coalesced(i) PROVE ReserveKept'
        BY <1>k, <2>1 DEF Coalesced, Normal, Queued
    <2> QED
        BY <1>1, <1>a, <2>1, SnapshotStep DEF Free
<1>2. CASE \E class \in Classes : Publish(class)
    BY <1>2, <1>a, PublishStep DEF Free
<1>3. CASE PublishTracked
    BY <1>3, <1>a, TrackedStep DEF Free
<1>4. CASE \E r \in ReceiptIds : ReceiptTake(r) \/ ReceiptForget(r)
    BY <1>4, <1>k DEF ReceiptTake, ReceiptForget, Normal
<1>5. CASE Expire
    BY <1>5, <1>k DEF Expire, Normal, FreeSlot
<1>6. CASE ClaimCritical \/ ClaimNormal
    BY <1>6, <1>k, ClaimStep DEF Claimed, Relabelled, Normal
<1>7. CASE FinishSent \/ FinishExpired
    BY <1>7, <1>k, ReleaseStep DEF Released, Normal, FreeSlot
<1>8. CASE FinishRetry
    BY <1>8, <1>k, RetryStep DEF Relabelled, Normal
<1>9. CASE Tick \/ UNCHANGED vars
    BY <1>9, <1>k DEF Tick, vars, Normal
<1> QED
    BY <1>1, <1>2, <1>3, <1>4, <1>5, <1>6, <1>7, <1>8, <1>9 DEF Next

\* The critical streak counts every pass over a ready normal head.
BurstInv == passedOver <= streak

\* Every step keeps the passes over a ready normal head within the streak.
LEMMA BurstStep == TypeOK /\ BurstInv /\ [Next]_vars => BurstInv'
<1> SUFFICES ASSUME TypeOK, BurstInv, [Next]_vars PROVE BurstInv'
    OBVIOUS
<1>0. /\ passedOver \in Nat /\ streak \in Nat /\ streak <= CriticalBurst
      /\ CriticalBurst \in Nat /\ passedOver <= streak
    BY QueueConstants DEF TypeOK, BurstInv
<1>1. CASE ClaimCritical
    <2>1. /\ Ready("normal") = {} \/ streak < CriticalBurst
          /\ streak' = IF streak < CriticalBurst THEN streak + 1 ELSE streak
          /\ passedOver' = IF Ready("normal") = {} THEN 0 ELSE passedOver + 1
        BY <1>1 DEF ClaimCritical, CriticalTurn
    <2> QED
        BY <1>0, <2>1 DEF BurstInv
<1>2. CASE ClaimNormal
    BY <1>2 DEF ClaimNormal, BurstInv
<1>3. CASE UNCHANGED <<streak, passedOver>>
    BY <1>3 DEF BurstInv
<1> QED
    BY <1>1, <1>2, <1>3 DEF Next, PublishSnapshot, Publish, PublishTracked, Submitting,
       ReceiptTake, ReceiptForget, Expire, FinishSent, FinishRetry, FinishExpired, Tick, vars

\* Normal traffic never occupies the slots kept for critical messages, for any
\* pool size and reserve (mqtt_dispatch_submit's admission test).
THEOREM ReserveAlwaysKept == Spec => []ReserveKept
<1>1. Init => ReserveKept
    <2> SUFFICES ASSUME Init PROVE ReserveKept
        OBVIOUS
    <2>1. Normal = {}
        BY DEF Init, Normal, FreeSlot
    <2> QED
        BY <2>1, FS_EmptySet, QueueConstants DEF ReserveKept
<1> QED
    BY <1>1, ReserveStep, TypeCorrect, PTL DEF Spec

\* A ready normal head is passed over at most CriticalBurst times in a row
\* (mqtt_dispatch_claim's critical_streak).
THEOREM BurstAlwaysBounded == Spec => []BurstBounded
<1>1. Init => BurstInv
    BY DEF Init, BurstInv
<1>2. TypeOK /\ BurstInv => BurstBounded
    BY QueueConstants DEF TypeOK, BurstInv, BurstBounded
<1> QED
    BY <1>1, <1>2, BurstStep, TypeCorrect, PTL DEF Spec

\* Tokens stay unique in the pool and the claimed slot stays the owner's while
\* it is inside the SDK with the lock released: mqtt_dispatch_finish always
\* finds its item.
THEOREM ClaimAlwaysOwned == Spec => [](PoolInv /\ ClaimInv /\ ClaimOwned)
<1>1. ClaimInv => ClaimOwned
    BY DEF ClaimInv
<1> QED
    BY <1>1, PoolInit, PoolStep, TypeCorrect, PTL DEF Spec

(***************************************************************************)
(* Order.  A message that may still reach the SDK (in flight, or queued    *)
(* and not lapsed) is younger than every one of its class that has, and    *)
(* the one in flight is older than those still queued.  A lapsed entry can *)
(* never be claimed, so it is outside the invariant: that is what lets a   *)
(* retried item that lapsed stay behind younger ones.                      *)
(***************************************************************************)
Waiting(i) == slots[i].state = "inflight" \/ (slots[i].state = "queued" /\ ~Lapsed(i))

SentBeforeWaiting ==
    \A k \in 1..Len(sent) : \A i \in Slots :
        (Waiting(i) /\ slots[i].key = 0 /\ sent[k].key = 0 /\ sent[k].class = slots[i].class)
            => sent[k].token < slots[i].token

InflightBeforeQueued ==
    \A i, j \in Slots :
        (/\ slots[i].state = "inflight" /\ slots[i].key = 0
         /\ slots[j].state = "queued" /\ ~Lapsed(j) /\ slots[j].key = 0
         /\ slots[i].class = slots[j].class)
            => slots[i].token < slots[j].token

FifoInv == OpaqueFifo /\ SentBeforeWaiting /\ InflightBeforeQueued

\* No step reorders opaque messages of one class.
LEMMA FifoStep ==
    TypeOK /\ PoolInv /\ ClaimInv /\ SentInv /\ FifoInv /\ [Next]_vars => FifoInv'
<1> SUFFICES ASSUME TypeOK, PoolInv, ClaimInv, SentInv, FifoInv, [Next]_vars
             PROVE  FifoInv'
    OBVIOUS
<1> USE QueueConstants
<1>0. /\ lastToken \in Nat /\ now \in Nat
      /\ \A i \in Slots : slots[i].token \in Nat /\ slots[i].order \in Nat
                         /\ slots[i].deadline \in Nat
    BY DEF TypeOK, Tokens, SlotType
<1>s. \A k \in 1..Len(sent) : sent[k].token <= lastToken /\ sent[k].token \in Nat
    BY <1>0 DEF SentInv
\* Steps that only take entries out of the queue, or none.
<1>k. ASSUME sent' = sent,
             \A i \in Slots : slots'[i].state # "free" =>
                /\ slots'[i].token = slots[i].token /\ slots'[i].key = slots[i].key
                /\ slots'[i].class = slots[i].class /\ slots'[i].state = slots[i].state
                /\ slots'[i].deadline = slots[i].deadline,
             now' \in Nat, now <= now'
      PROVE  FifoInv'
    <2>1. OpaqueFifo'
        BY <1>k DEF FifoInv, OpaqueFifo
    <2>2. ASSUME NEW i \in Slots, slots'[i].state = "queued", ~Lapsed(i)'
          PROVE  ~Lapsed(i)
        BY <1>0, <1>k, <2>2 DEF Lapsed
    <2>3. SentBeforeWaiting'
        BY <1>k, <2>2 DEF FifoInv, SentBeforeWaiting, Waiting
    <2>4. InflightBeforeQueued'
        BY <1>k, <2>2 DEF FifoInv, InflightBeforeQueued
    <2> QED
        BY <2>1, <2>3, <2>4 DEF FifoInv
\* Submissions: the new token is above every other.
<1>a. ASSUME NEW i \in Slots, slots'[i].state = "queued", slots'[i].token = lastToken + 1,
             \A j \in Slots \ {i} : slots'[j] = slots[j], sent' = sent, now' = now
      PROVE  FifoInv'
    <2>1. OpaqueFifo'
        BY <1>a DEF FifoInv, OpaqueFifo
    <2>2. SentBeforeWaiting'
        <3> SUFFICES ASSUME NEW k \in 1..Len(sent), NEW j \in Slots, Waiting(j)', slots'[j].key = 0,
                            sent[k].key = 0, sent[k].class = slots'[j].class
                     PROVE  sent[k].token < slots'[j].token
            BY <1>a DEF SentBeforeWaiting
        <3>1. CASE j = i
            BY <1>0, <1>a, <1>s, <3>1
        <3>2. CASE j # i
            BY <1>a, <3>2 DEF FifoInv, SentBeforeWaiting, Waiting, Lapsed
        <3> QED
            BY <3>1, <3>2
    <2>3. InflightBeforeQueued'
        <3> SUFFICES ASSUME NEW h \in Slots, NEW j \in Slots,
                            slots'[h].state = "inflight", slots'[h].key = 0,
                            slots'[j].state = "queued", ~Lapsed(j)', slots'[j].key = 0,
                            slots'[h].class = slots'[j].class
                     PROVE  slots'[h].token < slots'[j].token
            BY DEF InflightBeforeQueued
        <3>0. h # i /\ slots'[h] = slots[h]
            BY <1>a
        <3>1. CASE j = i
            <4>1. slots[h].token \in 1..lastToken
                BY <3>0 DEF PoolInv, Live
            <4> QED
                BY <1>0, <1>a, <3>0, <3>1, <4>1
        <3>2. CASE j # i
            BY <1>a, <3>0, <3>2 DEF FifoInv, InflightBeforeQueued, Lapsed
        <3> QED
            BY <3>1, <3>2
    <2> QED
        BY <2>1, <2>2, <2>3 DEF FifoInv
<1>b. ASSUME NEW i \in Slots, NEW class, NEW key, Admitted(i, class, key) PROVE FifoInv'
    BY <1>a, <1>b DEF Admitted, Submitting
<1>1. CASE \E key \in Keys : PublishSnapshot(key)
    <2>1. ASSUME NEW i \in Queued, Coalesced(i) PROVE FifoInv'
        BY <1>a, <2>1 DEF Coalesced, Submitting, Queued
    <2> QED
        BY <1>1, <1>b, <2>1, SnapshotStep DEF Free
<1>2. CASE \E class \in Classes : Publish(class)
    BY <1>2, <1>b, PublishStep DEF Free
<1>3. CASE PublishTracked
    BY <1>3, <1>b, TrackedStep DEF Free
<1>4. CASE \E r \in ReceiptIds : ReceiptTake(r) \/ ReceiptForget(r)
    <2>1. UNCHANGED <<slots, sent, now>>
        BY <1>4 DEF ReceiptTake, ReceiptForget
    <2> QED
        BY <1>0, <1>k, <2>1
<1>5. CASE Expire
    <2>1. /\ \A i \in Slots : slots'[i] = IF i \in Stale THEN FreeSlot ELSE slots[i]
          /\ UNCHANGED <<sent, now>>
        BY <1>5 DEF Expire
    <2>2. \A i \in Slots : slots'[i].state # "free" => slots'[i] = slots[i]
        BY <2>1 DEF FreeSlot
    <2>3. now' \in Nat /\ now <= now'
        BY <1>0, <2>1
    <2> QED
        BY <1>k, <2>1, <2>2, <2>3
<1>6. CASE ClaimCritical \/ ClaimNormal
    <2> PICK i \in Queued : Claimed(i)
        BY <1>6, ClaimStep
    <2>1. /\ i \in Slots /\ slots[i].state = "queued" /\ slots'[i].state = "inflight"
          /\ slots'[i].token = slots[i].token /\ slots'[i].key = slots[i].key
          /\ slots'[i].class = slots[i].class /\ slots'[i].deadline = slots[i].deadline
          /\ \A j \in Slots \ {i} : slots'[j] = slots[j]
          /\ UNCHANGED <<sent, now>>
          /\ ~Lapsed(i)
          /\ \A j \in Slots : slots[j].state # "inflight"
        BY DEF Claimed, Relabelled, Inflight
    <2>2. OpaqueFifo'
        BY <2>1 DEF FifoInv, OpaqueFifo
    <2>3. SentBeforeWaiting'
        BY <2>1 DEF FifoInv, SentBeforeWaiting, Waiting, Lapsed
    <2>4. InflightBeforeQueued'
        <3> SUFFICES ASSUME NEW h \in Slots, NEW j \in Slots,
                            slots'[h].state = "inflight", slots'[h].key = 0,
                            slots'[j].state = "queued", ~Lapsed(j)', slots'[j].key = 0,
                            slots'[h].class = slots'[j].class
                     PROVE  slots'[h].token < slots'[j].token
            BY DEF InflightBeforeQueued
        <3>1. h = i /\ j # i /\ slots'[j] = slots[j] /\ ~Lapsed(j)
            BY <2>1 DEF Lapsed
        <3>2. slots[i].order <= slots[j].order
            BY <2>1, <3>1 DEF Claimed, Candidates, Queued
        <3>3. /\ slots[i].order = slots[i].token /\ slots[j].order = slots[j].token
              /\ slots[i].token # slots[j].token
            BY <2>1, <3>1 DEF PoolInv, Live
        <3> QED
            BY <1>0, <2>1, <3>1, <3>2, <3>3
    <2> QED
        BY <2>2, <2>3, <2>4 DEF FifoInv
<1>7. CASE FinishSent
    <2> DEFINE c == claim.slot
    <2>1. /\ c \in Slots /\ slots[c].state = "inflight" /\ slots[c].token = claim.token
          /\ slots'[c].state = "free"
          /\ \A j \in Slots \ {c} : slots'[j] = slots[j]
          /\ now' = now
          /\ \A j \in Slots : slots[j].state = "inflight" => j = c
        <3>1. Released /\ c \in Slots
            BY <1>7, ReleaseStep DEF TypeOK
        <3>2. \A j \in Slots : slots[j].state = "inflight" => j = c
            BY <3>1 DEF Released, ClaimInv, ClaimOwned, Inflight
        <3> QED
            BY <3>1, <3>2 DEF Released, Owned, FreeSlot
    <2>2. OpaqueFifo'
        <3> SUFFICES ASSUME NEW j \in 1..Len(sent'), NEW k \in 1..Len(sent'), j < k,
                            sent'[j].class = sent'[k].class, sent'[j].key = 0, sent'[k].key = 0
                     PROVE  sent'[j].token < sent'[k].token
            BY DEF OpaqueFifo
        <3>1. j \in 1..Len(sent) /\ sent'[j] = sent[j]
            BY <1>7, SentAppend
        <3>2. CASE k \in 1..Len(sent)
            BY <1>7, <3>1, <3>2, SentAppend DEF FifoInv, OpaqueFifo
        <3>3. CASE k = Len(sent) + 1
            <4>1. /\ sent'[k].token = slots[c].token /\ slots[c].class = sent[j].class
                  /\ slots[c].key = 0
                BY <1>7, <2>1, <3>1, <3>3, SentAppend
            <4> QED
                BY <2>1, <3>1, <4>1 DEF FifoInv, SentBeforeWaiting, Waiting
        <3> QED
            BY <1>7, <3>2, <3>3, SentAppend
    <2>3. SentBeforeWaiting'
        <3> SUFFICES ASSUME NEW k \in 1..Len(sent'), NEW j \in Slots, Waiting(j)', slots'[j].key = 0,
                            sent'[k].key = 0, sent'[k].class = slots'[j].class
                     PROVE  sent'[k].token < slots'[j].token
            BY DEF SentBeforeWaiting
        <3>1. j # c /\ slots'[j] = slots[j] /\ slots[j].state = "queued" /\ ~Lapsed(j)
            BY <2>1 DEF Waiting, Lapsed
        <3>2. CASE k \in 1..Len(sent)
            BY <1>7, <3>1, <3>2, SentAppend DEF FifoInv, SentBeforeWaiting, Waiting
        <3>3. CASE k = Len(sent) + 1
            <4>1. /\ sent'[k].token = slots[c].token /\ slots[c].class = slots[j].class
                  /\ slots[c].key = 0 /\ slots[j].key = 0
                BY <1>7, <2>1, <3>1, <3>3, SentAppend
            <4> QED
                BY <2>1, <3>1, <4>1 DEF FifoInv, InflightBeforeQueued
        <3> QED
            BY <1>7, <3>2, <3>3, SentAppend
    <2>4. InflightBeforeQueued'
        BY <2>1 DEF InflightBeforeQueued
    <2> QED
        BY <2>2, <2>3, <2>4 DEF FifoInv
<1>8. CASE FinishRetry
    <2> DEFINE c == claim.slot
    <2>1. /\ c \in Slots /\ slots[c].state = "inflight" /\ slots'[c].state = "queued"
          /\ slots'[c].token = slots[c].token /\ slots'[c].key = slots[c].key
          /\ slots'[c].class = slots[c].class /\ slots'[c].deadline = slots[c].deadline
          /\ \A j \in Slots \ {c} : slots'[j] = slots[j]
          /\ UNCHANGED <<sent, now>>
        BY <1>8, RetryStep DEF Relabelled
    <2>2. \A j \in Slots : slots[j].state = "inflight" => j = c
        BY <1>8 DEF FinishRetry, ClaimInv, ClaimOwned, Inflight
    <2>3. OpaqueFifo'
        BY <2>1 DEF FifoInv, OpaqueFifo
    <2>4. SentBeforeWaiting'
        BY <2>1 DEF FifoInv, SentBeforeWaiting, Waiting, Lapsed
    <2>5. InflightBeforeQueued'
        BY <2>1, <2>2 DEF InflightBeforeQueued
    <2> QED
        BY <2>3, <2>4, <2>5 DEF FifoInv
<1>9. CASE FinishExpired
    <2>1. \A j \in Slots : slots'[j].state # "free" => slots'[j] = slots[j]
        BY <1>9, ReleaseStep DEF Released, FreeSlot
    <2>2. sent' = sent /\ now' = now
        BY <1>9 DEF FinishExpired
    <2> QED
        BY <1>0, <1>k, <2>1, <2>2
<1>10. CASE Tick \/ UNCHANGED vars
    <2>1. UNCHANGED <<slots, sent>>
        BY <1>10 DEF Tick, vars
    <2>2. now' \in Nat /\ now <= now'
        BY <1>0, <1>10 DEF Tick, vars
    <2> QED
        BY <1>k, <2>1, <2>2
<1> QED
    BY <1>1, <1>2, <1>3, <1>4, <1>5, <1>6, <1>7, <1>8, <1>9, <1>10 DEF Next

\* No message enters the SDK's outbox twice, whatever retries and refusals the
\* owner met (mqtt_dispatch_finish releases what the SDK accepted).
THEOREM NeverSentTwice == Spec => []SentOnce
<1>1. Init => SentInv /\ SentOnce
    BY DEF Init, SentInv, SentOnce
<1> QED
    BY <1>1, SentStep, ClaimAlwaysOwned, TypeCorrect, PTL DEF Spec

\* Opaque messages of one class reach the SDK in submission order, for any
\* interleaving of producers, retries and expiry.
THEOREM OpaqueInOrder == Spec => []OpaqueFifo
<1>1. Init => FifoInv /\ SentInv /\ SentOnce
    BY DEF Init, FifoInv, OpaqueFifo, SentBeforeWaiting, InflightBeforeQueued, FreeSlot,
           SentInv, SentOnce
<1>2. FifoInv => OpaqueFifo
    BY DEF FifoInv
<1> QED
    BY <1>1, <1>2, FifoStep, SentStep, ClaimAlwaysOwned, TypeCorrect, PTL DEF Spec

\* A receipt never lies: pending, accepted and failed say where the message is
\* (receipt_finish at coalescing, expiry and finish).
THEOREM ReceiptsTellTruth == Spec => []ReceiptTruth
<1>1. Init => ReceiptInv /\ SentInv /\ SentOnce
    BY QueueConstants DEF Init, ReceiptInv, ReceiptTruth, SentInv, SentOnce
<1>2. ReceiptInv => ReceiptTruth
    BY DEF ReceiptInv
<1> QED
    BY <1>1, <1>2, ReceiptStep, SentStep, ClaimAlwaysOwned, TypeCorrect, PTL DEF Spec

(***************************************************************************)
(* Conservation.                                                           *)
(***************************************************************************)
\* Every step moves a message from one of the four places to another.
LEMMA AccountStep == TypeOK /\ Accounted /\ [Next]_vars => Accounted'
<1> SUFFICES ASSUME TypeOK, Accounted, [Next]_vars PROVE Accounted'
    OBVIOUS
<1> USE QueueConstants
<1> DEFINE Used == Slots \ Free
<1>0. /\ IsFiniteSet(Used) /\ Cardinality(Used) \in Nat
      /\ depth = Cardinality(Used)
      /\ lastToken = coalesced + expired + Len(sent) + depth
      /\ lastToken \in Nat /\ coalesced \in Nat /\ expired \in Nat /\ depth \in Int
      /\ Len(sent) \in Nat
    <2>1. IsFiniteSet(Slots) /\ Used \subseteq Slots
        BY FS_Interval DEF Slots
    <2>2. IsFiniteSet(Used) /\ Cardinality(Used) \in Nat
        BY <2>1, FS_Subset, FS_CardinalityType
    <2> QED
        BY <2>2 DEF Accounted, TypeOK, Tokens
<1>k. ASSUME Used' = Used, UNCHANGED <<depth, lastToken, coalesced, expired, sent>>
      PROVE  Accounted'
    BY <1>k DEF Accounted
<1>a. ASSUME NEW i \in Slots, NEW class, NEW key, Admitted(i, class, key)
      PROVE  Accounted'
    <2>1. Used' = Used \cup {i} /\ i \notin Used
        BY <1>a DEF Admitted, Free
    <2>2. Cardinality(Used') = Cardinality(Used) + 1
        BY <1>0, <2>1, FS_AddElement
    <2>3. /\ depth' = depth + 1 /\ lastToken' = lastToken + 1
          /\ UNCHANGED <<coalesced, expired, sent>>
        BY <1>a DEF Admitted, Submitting
    <2> QED
        BY <1>0, <2>2, <2>3 DEF Accounted
<1>1. CASE \E key \in Keys : PublishSnapshot(key)
    <2>1. ASSUME NEW i \in Queued, Coalesced(i) PROVE Accounted'
        <3>1. Used' = Used
            BY <2>1 DEF Coalesced, Free, Queued
        <3>2. /\ lastToken' = lastToken + 1 /\ coalesced' = coalesced + 1
              /\ UNCHANGED <<depth, expired, sent>>
            BY <2>1 DEF Coalesced, Submitting
        <3>3. depth' = Cardinality(Used')
            BY <1>0, <3>1, <3>2
        <3>4. lastToken' = coalesced' + expired' + Len(sent') + depth'
            <4> Len(sent') = Len(sent) /\ expired' = expired /\ depth' = depth
                BY <3>2
            <4> HIDE DEF Used
            <4> QED
                BY <1>0, <3>2
        <3> QED
            BY <3>3, <3>4 DEF Accounted
    <2> QED
        BY <1>1, <1>a, <2>1, SnapshotStep DEF Free
<1>2. CASE \E class \in Classes : Publish(class)
    BY <1>2, <1>a, PublishStep DEF Free
<1>3. CASE PublishTracked
    BY <1>3, <1>a, TrackedStep DEF Free
<1>4. CASE \E r \in ReceiptIds : ReceiptTake(r) \/ ReceiptForget(r)
    BY <1>4, <1>k DEF ReceiptTake, ReceiptForget, Free
<1>5. CASE Expire
    <2>1. Used' = Used \ Stale /\ Stale \subseteq Used
        BY <1>5 DEF Expire, Free, FreeSlot, Stale, Queued
    <2>2. /\ depth' = depth - Cardinality(Stale)
          /\ expired' = expired + Cardinality(Stale)
          /\ UNCHANGED <<lastToken, coalesced, sent>>
        BY <1>5 DEF Expire
    <2>3. Used \cap Stale = Stale
        BY <2>1
    <2>4. Cardinality(Used') = Cardinality(Used) - Cardinality(Stale)
        BY <1>0, <2>1, <2>3, FS_Difference
    <2>5. depth' = Cardinality(Used')
        BY <1>0, <2>2, <2>4
    <2>6. lastToken' = coalesced' + expired' + Len(sent') + depth'
        <3> DEFINE n == Cardinality(Stale)
        <3>1. n \in Nat
            BY StaleFinite
        <3>2. /\ Len(sent') = Len(sent) /\ coalesced' = coalesced /\ lastToken' = lastToken
              /\ depth' = depth - n /\ expired' = expired + n
            BY <2>2
        <3> HIDE DEF n, Used
        <3> QED
            BY <1>0, <3>1, <3>2
    <2> QED
        BY <2>5, <2>6 DEF Accounted
<1>6. CASE ClaimCritical \/ ClaimNormal
    <2> PICK i \in Queued : Claimed(i)
        BY <1>6, ClaimStep
    <2>1. Used' = Used
        BY DEF Claimed, Relabelled, Free
    <2> QED
        BY <1>k, <2>1 DEF Claimed, Relabelled
<1>7. CASE FinishSent \/ FinishExpired
    <2>1. claim.slot \in Used /\ Used' = Used \ {claim.slot}
        BY <1>7, ReleaseStep DEF Released, Owned, Free, FreeSlot, TypeOK
    <2>2. Cardinality(Used') = Cardinality(Used) - 1
        <3>1. Cardinality(Used \ {claim.slot}) = Cardinality(Used) - 1
            <4> HIDE DEF Used
            <4> QED
                BY <1>0, <2>1, FS_RemoveElement
        <3> QED
            BY <2>1, <3>1
    <2>3. depth' = depth - 1 /\ UNCHANGED <<lastToken, coalesced>>
        BY <1>7, ReleaseStep DEF Released
    <2>4. CASE FinishSent
        <3>1. Len(sent') = Len(sent) + 1 /\ expired' = expired
            BY <2>4, SentAppend DEF FinishSent
        <3> QED
            BY <1>0, <2>2, <2>3, <3>1 DEF Accounted
    <2>5. CASE FinishExpired
        <3>1. sent' = sent /\ expired' = expired + 1
            BY <2>5 DEF FinishExpired
        <3> QED
            BY <1>0, <2>2, <2>3, <3>1 DEF Accounted
    <2> QED
        BY <1>7, <2>4, <2>5
<1>8. CASE FinishRetry
    BY <1>8, <1>k, RetryStep DEF Relabelled, Free
<1>9. CASE Tick \/ UNCHANGED vars
    BY <1>9, <1>k DEF Tick, vars, Free
<1> QED
    BY <1>1, <1>2, <1>3, <1>4, <1>5, <1>6, <1>7, <1>8, <1>9 DEF Next

\* No accepted submission is lost or counted twice: coalesced, expired, handed
\* to the SDK or still in the pool (the counters of mqtt_dispatch_queue.c).
THEOREM AlwaysAccounted == Spec => []Accounted
<1>1. Init => Accounted
    <2> SUFFICES ASSUME Init PROVE Accounted
        OBVIOUS
    <2>1. Slots \ Free = {}
        BY DEF Init, Free, FreeSlot
    <2> QED
        BY <2>1, FS_EmptySet DEF Accounted, Init
<1> QED
    BY <1>1, AccountStep, TypeCorrect, PTL DEF Spec

\* Everything the queue owes its callers holds at once and always, for every
\* pool size, reserve, burst limit and number of receipts.
THEOREM QueueAlwaysSound == Spec => []QueueSound
<1>1. TypeOK /\ ReserveKept /\ BurstBounded /\ ClaimOwned /\ ReceiptTruth /\ Accounted
        /\ SentOnce /\ OpaqueFifo
      => QueueSound
    BY DEF QueueSound
<1> QED
    BY <1>1, TypeCorrect, ReserveAlwaysKept, BurstAlwaysBounded, ClaimAlwaysOwned,
       ReceiptsTellTruth, AlwaysAccounted, NeverSentTwice, OpaqueInOrder, PTL

=============================================================================
