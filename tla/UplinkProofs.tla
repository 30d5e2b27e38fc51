---------------------------- MODULE UplinkProofs ----------------------------
(***************************************************************************)
(* Why what goes out is neither lost nor doubled nor sealed twice, and why *)
(* an MQTT client is made whole or not at all: proofs about the parts of   *)
(* MCUplink, for every value of the constants.                             *)
(*                                                                         *)
(* The writer: what the chain already has of the job at hand is known to   *)
(* the writer or was sent under a nonce that it will probe (ChainHas).     *)
(* Sealing: numbers in use are behind the reservation in flash             *)
(* (NumbersApart).  The client: of the items with the identifier 0 the     *)
(* staged one is the first, and an acknowledgement names what the broker   *)
(* has (StageInv, ClientTypes).  Its making: how far the plan is says what *)
(* is allocated (Growing).                                                 *)
(***************************************************************************)
EXTENDS MCUplink, FiniteSetTheorems, SequenceTheorems, WellFoundedInduction, TLAPS

\* What Append does to the elements.
LEMMA Appended ==
  ASSUME NEW S, NEW q \in Seq(S), NEW x \in S
  PROVE  /\ Append(q, x) \in Seq(S) /\ DOMAIN Append(q, x) = DOMAIN q \cup {Len(q) + 1}
         /\ \A i \in DOMAIN q : Append(q, x)[i] = q[i] /\ i \in 1..Len(q)
         /\ Append(q, x)[Len(q) + 1] = x /\ Len(q) \in Nat
  BY AppendProperties, LenProperties

(***************************************************************************)
(* The writer                                                              *)
(***************************************************************************)
Phases == {"idle", "gate", "probe", "lock", "nonce", "price", "send", "failed"}
Txs == [job : Nat, nonce : Nat]
WriterTypes ==
    /\ s_queue \in Seq(Nat) /\ nextJob \in 1..MaxJobs + 1 /\ job \in Nat
    /\ maybe_sent \in BOOLEAN /\ hash \in Txs
    /\ sub \in [Tasks -> [st : Phases, nonce : Nat]]
    /\ node \in Seq(Txs) /\ \A tx \in late : tx \in Txs /\ tx.job = Telemetry

\* The queue is in the order of production, behind the job that is worked on.
QueueInv ==
    /\ \A k \in DOMAIN s_queue : s_queue[k] < nextJob /\ 0 < s_queue[k]
    /\ \A i, k \in DOMAIN s_queue : i < k => s_queue[i] < s_queue[k]
    /\ job < nextJob /\ \A k \in DOMAIN s_queue : job < s_queue[k]
    /\ job = None <=> sub["writer"].st = "idle"
    /\ sub["writer"].st = "send" => hash = Tx("writer")

\* Nothing on the chain is ahead of the job, and if the job is there then the
\* task suspects it, knows the transaction's hash and will ask before it sends.
Suspects == maybe_sent /\ sub["writer"].st \in {"failed", "gate", "probe"}
ChainHas(tx) ==
    /\ tx.job < nextJob /\ 0 < tx.job
    /\ \A k \in DOMAIN s_queue : tx.job < s_queue[k]
    /\ job # None => tx.job <= job
    /\ tx.job = job => Suspects /\ tx = hash
ChainInv == \A i \in DOMAIN node : node[i].job # Telemetry => ChainHas(node[i])

WriterInv == WriterTypes /\ QueueInv /\ ChainInv /\ OnceInOrder

LEMMA NodeHolds ==
  ASSUME WriterInv
  PROVE  \A i \in DOMAIN node : node[i] \in Txs
  BY ElementOfSeq, LenProperties DEF WriterInv, WriterTypes

\* A step of a task in which neither queue, chain nor job changes.
LEMMA WriterKeeps ==
  ASSUME WriterInv, UNCHANGED <<s_queue, nextJob, job, node, late>>,
         hash' \in Txs, maybe_sent' \in BOOLEAN,
         sub' \in [Tasks -> [st : Phases, nonce : Nat]],
         job = None <=> sub'["writer"].st = "idle",
         sub'["writer"].st = "send" => hash' = Tx("writer")',
         \A i \in DOMAIN node : node[i].job # Telemetry /\ node[i].job = job
            => Suspects' /\ node[i] = hash'
  PROVE  WriterInv'
<1>1. WriterTypes'
  BY DEF WriterInv, WriterTypes, Telemetry
<1>2. QueueInv'
  BY DEF WriterInv, QueueInv
<1>3. ChainInv'
  BY DEF WriterInv, ChainInv, ChainHas, Telemetry
<1>4. OnceInOrder'
  BY DEF WriterInv, OnceInOrder, Telemetry
<1> QED
  BY <1>1, <1>2, <1>3, <1>4 DEF WriterInv

\* The task is done with its job.
LEMMA WriterDone ==
  ASSUME WriterInv, UNCHANGED <<s_queue, nextJob, hash, node, late>>, job' = None,
         maybe_sent' \in BOOLEAN,
         sub' \in [Tasks -> [st : Phases, nonce : Nat]], sub'["writer"].st = "idle"
  PROVE  WriterInv'
<1>1. WriterTypes'
  BY DEF WriterInv, WriterTypes, Telemetry, None
<1>2. QueueInv'
  BY DEF WriterInv, WriterTypes, QueueInv, None
<1>3. ChainInv'
  BY DEF WriterInv, ChainInv, ChainHas, Telemetry, None
<1>4. OnceInOrder'
  BY DEF WriterInv, OnceInOrder, Telemetry
<1> QED
  BY <1>1, <1>2, <1>3, <1>4 DEF WriterInv

\* An entity of the telemetry task reaches the chain.
LEMMA TelemetryAccepted ==
  ASSUME WriterInv, UNCHANGED <<s_queue, nextJob, job, maybe_sent, hash>>,
         \A tx \in late' : tx \in late,
         sub' \in [Tasks -> [st : Phases, nonce : Nat]], sub'["writer"] = sub["writer"],
         NEW tx \in Txs, tx.job = Telemetry, node' = node \/ node' = Append(node, tx)
  PROVE  WriterInv'
<1>1. node' = node \/ (/\ node' \in Seq(Txs) /\ DOMAIN node' = DOMAIN node \cup {Len(node) + 1}
                       /\ \A i \in DOMAIN node : node'[i] = node[i]
                       /\ node'[Len(node) + 1].job = Telemetry)
  <2>1. node \in Seq(Txs)
    BY DEF WriterInv, WriterTypes
  <2>2. CASE node' = Append(node, tx)
    BY <2>1, <2>2, Appended
  <2> QED
    BY <2>2
<1>2. WriterTypes'
  BY <1>1 DEF WriterInv, WriterTypes, Telemetry
<1>3. QueueInv'
  BY DEF WriterInv, QueueInv, Tx, Entity
<1>4. \A i \in DOMAIN node' : node'[i].job # Telemetry => i \in DOMAIN node /\ node'[i] = node[i]
  BY <1>1
<1>5. ChainInv'
  <2>1. SUFFICES ASSUME NEW i \in DOMAIN node', node'[i].job # Telemetry
                 PROVE  ChainHas(node[i])'
    BY DEF ChainInv, Telemetry
  <2>2. ChainHas(node[i]) /\ node'[i] = node[i]
    BY <1>4, <2>1 DEF WriterInv, ChainInv
  <2> QED
    BY <2>2 DEF ChainHas, Suspects
<1>6. OnceInOrder'
  BY <1>4 DEF WriterInv, OnceInOrder, Telemetry
<1> QED
  BY <1>2, <1>3, <1>5, <1>6 DEF WriterInv

\* The job of the writer reaches the chain, and the task is done with it or
\* suspects it.
LEMMA JobAccepted ==
  ASSUME WriterInv, UNCHANGED <<s_queue, nextJob, hash, late>>, sub["writer"].st = "send",
         sub' \in [Tasks -> [st : Phases, nonce : Nat]], maybe_sent' \in BOOLEAN,
         \/ job' = None /\ sub'["writer"].st = "idle"
         \/ job' = job /\ maybe_sent' /\ sub'["writer"].st = "failed",
         node' = node \/ node' = Append(node, Tx("writer"))
  PROVE  WriterInv'
<1> DEFINE tx == Tx("writer")
<1>1. /\ tx = hash /\ tx \in Txs /\ tx.job = job /\ job # None /\ 0 < job /\ job < nextJob
      /\ job \in Nat /\ nextJob \in 1..MaxJobs + 1 /\ \A k \in DOMAIN s_queue : job < s_queue[k]
  BY DEF WriterInv, WriterTypes, QueueInv, Tx, Entity, None
<1>2. Telemetry \in Nat /\ nextJob <= Telemetry /\ job # Telemetry
  BY <1>1, ArkivWriterConstants DEF Telemetry
<1>3. \A i \in DOMAIN node : node[i] \in Txs
  BY NodeHolds
<1>4. \A i \in DOMAIN node : node[i].job # Telemetry => node[i].job < job /\ 0 < node[i].job
  BY <1>1, <1>3 DEF WriterInv, ChainInv, ChainHas, Suspects, Txs
<1>5. node' = node \/ (/\ node' \in Seq(Txs) /\ DOMAIN node' = DOMAIN node \cup {Len(node) + 1}
                       /\ \A i \in DOMAIN node : node'[i] = node[i] /\ i \in 1..Len(node)
                       /\ node'[Len(node) + 1] = tx /\ Len(node) \in Nat)
  <2>1. node \in Seq(Txs)
    BY DEF WriterInv, WriterTypes
  <2> HIDE DEF tx
  <2>2. CASE node' = Append(node, tx)
    BY <1>1, <2>1, <2>2, Appended
  <2> QED
    BY <2>2 DEF tx
<1> HIDE DEF tx
<1>6. WriterTypes'
  BY <1>5 DEF WriterInv, WriterTypes, Telemetry, None
<1>7. QueueInv'
  BY <1>1 DEF WriterInv, WriterTypes, QueueInv, None
<1>8. ChainInv'
  <2>1. SUFFICES ASSUME NEW i \in DOMAIN node', node'[i].job # Telemetry
                 PROVE  ChainHas(node[i])'
    BY DEF ChainInv, Telemetry
  <2>2. CASE i \in DOMAIN node
    <3>1. node'[i] = node[i] /\ node[i] \in Txs /\ node[i].job < job /\ ChainHas(node[i])
      BY <1>3, <1>4, <1>5, <2>1, <2>2 DEF WriterInv, ChainInv
    <3> QED
      BY <1>1, <3>1 DEF ChainHas, None, Txs
  <2>3. CASE i \notin DOMAIN node
    <3>1. node'[i] = tx
      BY <1>5, <2>1, <2>3
    <3> QED
      BY <1>1, <3>1 DEF ChainHas, Suspects, None
  <2> QED
    BY <2>2, <2>3
<1>9. OnceInOrder'
  <2>1. SUFFICES ASSUME NEW i \in DOMAIN node', NEW k \in DOMAIN node', i < k,
                        node'[i].job # Telemetry, node'[k].job # Telemetry
                 PROVE  node'[i].job < node'[k].job
    BY DEF OnceInOrder, Telemetry
  <2>2. CASE node' = node
    BY <2>1, <2>2 DEF WriterInv, OnceInOrder
  <2>3. CASE node' # node
    BY <1>1, <1>4, <1>5, <2>1, <2>3 DEF WriterInv, OnceInOrder
  <2> QED
    BY <2>2, <2>3
<1> QED
  BY <1>6, <1>7, <1>8, <1>9 DEF WriterInv

LEMMA WriterStep ==
  ASSUME "writer" \notin LateTasks, WriterInv, Next
  PROVE  WriterInv'
<1>1. /\ Tasks = {"writer", "tlm"} /\ DOMAIN sub = Tasks
      /\ \A t \in Tasks : sub[t] \in [st : Phases, nonce : Nat]
      /\ job \in Nat /\ hash \in Txs /\ maybe_sent \in BOOLEAN /\ nextJob \in 1..MaxJobs + 1
      /\ Telemetry \in Nat /\ Len(node) \in Nat
  BY ArkivWriterConstants, LenProperties DEF Tasks, WriterInv, WriterTypes, Telemetry
<1>2. ASSUME NEW t \in Tasks, NEW st \in Phases, Phase(t, st)
      PROVE  /\ sub' \in [Tasks -> [st : Phases, nonce : Nat]]
             /\ sub'[t].st = st /\ sub'[t].nonce = sub[t].nonce
             /\ \A u \in Tasks \ {t} : sub'[u] = sub[u]
  BY <1>1, <1>2 DEF Phase
<1>3. \A i \in DOMAIN node : node[i].job # Telemetry /\ node[i].job = job
         => Suspects /\ node[i] = hash
  BY DEF WriterInv, ChainInv, ChainHas
\* Steps of the telemetry task that leave the chain alone.
<1>4. ASSUME NEW st \in Phases, Phase("tlm", st),
             UNCHANGED <<s_queue, nextJob, job, maybe_sent, hash, node, late>>
      PROVE  WriterInv'
  <2>1. sub' \in [Tasks -> [st : Phases, nonce : Nat]] /\ sub'["writer"] = sub["writer"]
    BY <1>1, <1>2, <1>4
  <2> QED
    BY <1>1, <1>3, <1>4, <2>1, WriterKeeps DEF WriterInv, QueueInv, Suspects, Tx, Entity
\* Steps of the writer that go on with the job and leave the chain alone.
<1>5. ASSUME NEW st \in Phases \ {"idle", "send"}, Phase("writer", st), sub["writer"].st # "idle",
             UNCHANGED <<s_queue, nextJob, job, hash, node, late>>, maybe_sent' \in BOOLEAN,
             \A i \in DOMAIN node : node[i].job # Telemetry /\ node[i].job = job
               => maybe_sent' /\ st \in {"failed", "gate", "probe"}
      PROVE  WriterInv'
  <2>1. sub' \in [Tasks -> [st : Phases, nonce : Nat]] /\ sub'["writer"].st = st
    BY <1>1, <1>2, <1>5
  <2>2. job # None
    BY <1>5 DEF WriterInv, QueueInv
  <2> QED
    BY <1>1, <1>3, <1>5, <2>1, <2>2, WriterKeeps DEF Suspects
<1>6. ASSUME Done, UNCHANGED <<s_queue, nextJob, hash, node, late>>, maybe_sent' \in BOOLEAN
      PROVE  WriterInv'
  <2>1. job' = None /\ Phase("writer", "idle")
    BY <1>6 DEF Done
  <2>2. sub' \in [Tasks -> [st : Phases, nonce : Nat]] /\ sub'["writer"].st = "idle"
    BY <1>1, <1>2, <2>1 DEF Phases
  <2> QED
    BY <1>6, <2>1, <2>2, WriterDone
<1>7. CASE Enqueue
  <2>1. /\ nextJob <= MaxJobs /\ nextJob' = nextJob + 1
        /\ s_queue' = s_queue \/ s_queue' = Append(s_queue, nextJob)
        /\ UNCHANGED <<job, maybe_sent, hash, sub, node, late>>
    BY <1>7 DEF Enqueue
  <2>2. s_queue \in Seq(Nat) /\ Len(s_queue) \in Nat /\ \A k \in DOMAIN s_queue : s_queue[k] \in Nat
    BY LenProperties, ElementOfSeq DEF WriterInv, WriterTypes
  <2>0. nextJob \in Nat
    BY <1>1, ArkivWriterConstants
  <2>3. s_queue' = s_queue \/ (/\ s_queue' \in Seq(Nat) /\ DOMAIN s_queue' = DOMAIN s_queue \cup {Len(s_queue) + 1}
                               /\ \A k \in DOMAIN s_queue : s_queue'[k] = s_queue[k] /\ k \in 1..Len(s_queue)
                               /\ s_queue'[Len(s_queue) + 1] = nextJob)
    <3>1. CASE s_queue' = Append(s_queue, nextJob)
      BY <2>0, <2>2, <3>1, Appended
    <3> QED
      BY <2>1, <3>1
  <2>4. WriterTypes'
    BY <1>1, <2>1, <2>2, <2>3, ArkivWriterConstants DEF WriterInv, WriterTypes, Telemetry
  <2>5. QueueInv'
    <3>1. \A k \in DOMAIN s_queue' : (k \in DOMAIN s_queue /\ s_queue'[k] = s_queue[k])
                                      \/ (k = Len(s_queue) + 1 /\ s_queue'[k] = nextJob)
      BY <2>3
    <3>2. \A k \in DOMAIN s_queue' : s_queue'[k] < nextJob' /\ 0 < s_queue'[k] /\ job < s_queue'[k]
      BY <1>1, <2>1, <2>2, <3>1 DEF WriterInv, QueueInv
    <3>3. \A i, k \in DOMAIN s_queue' : i < k => s_queue'[i] < s_queue'[k]
      <4>1. SUFFICES ASSUME NEW i \in DOMAIN s_queue', NEW k \in DOMAIN s_queue', i < k
                     PROVE  s_queue'[i] < s_queue'[k]
        OBVIOUS
      <4>2. CASE k \in DOMAIN s_queue
        <5>1. i \in DOMAIN s_queue
          BY <2>2, <2>3, <4>1, <4>2
        <5> QED
          BY <3>1, <2>3, <4>1, <4>2, <5>1 DEF WriterInv, QueueInv
      <4>3. CASE k \notin DOMAIN s_queue
        <5>1. s_queue'[k] = nextJob /\ i \in DOMAIN s_queue /\ s_queue'[i] = s_queue[i]
          BY <2>2, <2>3, <4>1, <4>3
        <5> QED
          BY <5>1 DEF WriterInv, QueueInv
      <4> QED
        BY <4>2, <4>3
    <3>4. job' < nextJob'
      BY <1>1, <2>1 DEF WriterInv, QueueInv
    <3> QED
      BY <2>1, <3>2, <3>3, <3>4 DEF WriterInv, QueueInv, Tx, Entity
  <2>6. ChainInv'
    <3>1. SUFFICES ASSUME NEW i \in DOMAIN node, node[i].job # Telemetry
                   PROVE  ChainHas(node[i])'
      BY <2>1 DEF ChainInv, Telemetry
    <3>2. ChainHas(node[i]) /\ node[i].job \in Nat
      BY <3>1, NodeHolds DEF WriterInv, ChainInv, Txs
    <3>3. node[i].job < nextJob' /\ \A k \in DOMAIN s_queue' : node[i].job < s_queue'[k]
      <4>1. \A k \in DOMAIN s_queue : node[i].job < s_queue[k]
        BY <3>2 DEF ChainHas
      <4>2. node[i].job < nextJob /\ nextJob < nextJob'
        BY <2>0, <2>1, <3>2 DEF ChainHas
      <4>3. \A k \in DOMAIN s_queue' : s_queue'[k] = nextJob \/ (k \in DOMAIN s_queue /\ s_queue'[k] = s_queue[k])
        BY <2>3
      <4> QED
        BY <2>0, <2>1, <3>2, <4>1, <4>2, <4>3
    <3> QED
      BY <2>1, <3>2, <3>3 DEF ChainHas, Suspects
  <2>7. OnceInOrder'
    BY <2>1 DEF WriterInv, OnceInOrder, Telemetry
  <2> QED
    BY <2>4, <2>5, <2>6, <2>7 DEF WriterInv
<1>8. CASE Ages
  BY <1>1, <1>3, <1>8, WriterKeeps DEF Ages, WriterInv, WriterTypes, QueueInv, Suspects, Tx, Entity
<1>9. CASE TakeJob
  <2>1. /\ s_queue \in Seq(Nat) /\ s_queue # <<>> /\ job' = Head(s_queue) /\ s_queue' = Tail(s_queue)
        /\ maybe_sent' = FALSE /\ hash' = NoTx /\ Phase("writer", "gate") /\ sub["writer"].st = "idle"
        /\ UNCHANGED <<nextJob, node, late>>
    BY <1>9 DEF TakeJob, WriterInv, WriterTypes
  <2>2. /\ job' = s_queue[1] /\ 1 \in DOMAIN s_queue /\ s_queue[1] \in Nat /\ s_queue' \in Seq(Nat)
        /\ \A k \in DOMAIN s_queue' : k + 1 \in DOMAIN s_queue /\ s_queue'[k] = s_queue[k + 1] /\ k \in Nat /\ 0 < k
        /\ \A k \in DOMAIN s_queue : s_queue[k] \in Nat
    BY <2>1, HeadTailProperties, LenProperties, ElementOfSeq, EmptySeq
  <2>3. sub' \in [Tasks -> [st : Phases, nonce : Nat]] /\ sub'["writer"].st = "gate"
    BY <1>1, <1>2, <2>1 DEF Phases
  <2>4. WriterTypes'
    <3>1. NoTx \in Txs /\ FALSE \in BOOLEAN
      BY DEF NoTx, Txs, None
    <3> QED
      BY <2>1, <2>2, <2>3, <3>1 DEF WriterInv, WriterTypes, Telemetry
  <2>5. QueueInv'
    <3>1. job' < nextJob /\ 0 < job'
      BY <2>2 DEF WriterInv, QueueInv
    <3>2. \A k \in DOMAIN s_queue' : s_queue'[k] < nextJob /\ 0 < s_queue'[k] /\ job' < s_queue'[k]
      BY <2>2 DEF WriterInv, QueueInv
    <3>3. \A i, k \in DOMAIN s_queue' : i < k => s_queue'[i] < s_queue'[k]
      <4>1. SUFFICES ASSUME NEW i \in DOMAIN s_queue', NEW k \in DOMAIN s_queue', i < k
                     PROVE  s_queue[i + 1] < s_queue[k + 1]
        BY <2>2
      <4>2. i + 1 < k + 1 /\ i + 1 \in DOMAIN s_queue /\ k + 1 \in DOMAIN s_queue
        BY <2>2, <4>1
      <4> QED
        BY <4>2 DEF WriterInv, QueueInv
    <3> QED
      BY <2>1, <2>2, <2>3, <3>1, <3>2, <3>3 DEF QueueInv, None
  <2>6. ChainInv'
    <3>1. SUFFICES ASSUME NEW i \in DOMAIN node, node[i].job # Telemetry
                   PROVE  ChainHas(node[i])'
      BY <2>1 DEF ChainInv, Telemetry
    <3>2. ChainHas(node[i]) /\ node[i].job \in Nat
      BY <3>1, NodeHolds DEF WriterInv, ChainInv, Txs
    <3>3. node[i].job < job'
      BY <2>2, <3>2 DEF ChainHas
    <3> QED
      BY <2>1, <2>2, <3>2, <3>3 DEF ChainHas
  <2>7. OnceInOrder'
    BY <2>1 DEF WriterInv, OnceInOrder, Telemetry
  <2> QED
    BY <2>4, <2>5, <2>6, <2>7 DEF WriterInv
<1>10. CASE Gate
  <2>1. UNCHANGED <<s_queue, nextJob, maybe_sent, hash, node, late>> /\ sub["writer"].st = "gate"
    BY <1>10 DEF Gate
  <2>2. CASE job \in stale
    BY <1>1, <1>6, <1>10, <2>1, <2>2 DEF Gate
  <2>3. CASE job \notin stale /\ maybe_sent
    <3>1. Phase("writer", "probe") /\ job' = job
      BY <1>10, <2>3 DEF Gate
    <3> QED
      BY <1>1, <1>3, <1>5, <2>1, <2>3, <3>1 DEF Phases
  <2>4. CASE job \notin stale /\ ~maybe_sent
    <3>1. Phase("writer", "lock") /\ job' = job
      BY <1>10, <2>4 DEF Gate
    <3> QED
      BY <1>1, <1>3, <1>5, <2>1, <2>4, <3>1 DEF Phases, Suspects
  <2> QED
    BY <2>2, <2>3, <2>4
<1>11. CASE Probe
  <2>1. UNCHANGED <<s_queue, nextJob, hash, node, late>> /\ sub["writer"].st = "probe"
    BY <1>11 DEF Probe
  <2>2. CASE Known(hash)
    BY <1>1, <1>6, <1>11, <2>1, <2>2 DEF Probe
  <2>3. CASE ~Known(hash)
    <3>1. Phase("writer", "lock") /\ job' = job /\ maybe_sent' = FALSE
      BY <1>11, <2>3 DEF Probe
    <3>2. \A i \in DOMAIN node : ~(node[i].job # Telemetry /\ node[i].job = job)
      BY <1>3, <2>3 DEF Known
    <3>3. maybe_sent' \in BOOLEAN
      BY <3>1
    <3> QED
      BY <1>5, <2>1, <3>1, <3>2, <3>3 DEF Phases
  <2> QED
    BY <2>2, <2>3
<1>12. CASE ProbeFails
  BY <1>1, <1>3, <1>5, <1>12 DEF ProbeFails, Phases, Suspects
<1>13. CASE Failed
  <2>1. UNCHANGED <<s_queue, nextJob, maybe_sent, hash, node, late>> /\ sub["writer"].st = "failed"
    BY <1>13 DEF Failed
  <2>2. CASE attempts + 1 >= RETRIES
    BY <1>1, <1>6, <1>13, <2>1, <2>2 DEF Failed
  <2>3. CASE ~(attempts + 1 >= RETRIES)
    <3>1. Phase("writer", "gate") /\ job' = job
      BY <1>13, <2>3 DEF Failed
    <3> QED
      BY <1>1, <1>3, <1>5, <2>1, <3>1 DEF Phases, Suspects
  <2> QED
    BY <2>2, <2>3
<1>14. CASE TelemetryDue
  BY <1>4, <1>14 DEF TelemetryDue, Phases
<1>15. ASSUME NEW t \in Tasks, TakeLock(t) \/ GivesUp(t)
       PROVE  WriterInv'
  <2>1. /\ UNCHANGED <<s_queue, nextJob, job, maybe_sent, hash, node, late>>
        /\ sub[t].st \in {"lock", "nonce", "price"}
        /\ Phase(t, "nonce") \/ Fails(t)
    BY <1>15 DEF TakeLock, GivesUp
  <2>2. CASE t = "writer"
    <3>1. Phase("writer", "nonce") \/ Phase("writer", "failed")
      BY <2>1, <2>2 DEF Fails
    <3> QED
      BY <1>1, <1>3, <1>5, <2>1, <2>2, <3>1 DEF Phases, Suspects
  <2>3. CASE t = "tlm"
    <3>1. Phase("tlm", "nonce") \/ Phase("tlm", "idle")
      BY <2>1, <2>3 DEF Fails
    <3> QED
      BY <1>4, <2>1, <3>1 DEF Phases
  <2> QED
    BY <1>1, <2>2, <2>3
<1>16. ASSUME NEW t \in Tasks, GetNonce(t)
       PROVE  WriterInv'
  <2>1. /\ UNCHANGED <<s_queue, nextJob, job, maybe_sent, hash, node, late>> /\ sub[t].st = "nonce"
        /\ sub' = [sub EXCEPT ![t] = [st |-> "price", nonce |-> Len(node)]]
    BY <1>16 DEF GetNonce, Pending
  <2>2. sub' \in [Tasks -> [st : Phases, nonce : Nat]]
    BY <1>1, <2>1 DEF Phases, WriterInv, WriterTypes
  <2>3. CASE t = "writer"
    <3>1. sub'["writer"].st = "price"
      BY <1>1, <2>1, <2>3
    <3>2. job # None
      BY <2>1, <2>3 DEF WriterInv, QueueInv
    <3>3. \A i \in DOMAIN node : ~(node[i].job # Telemetry /\ node[i].job = job)
      BY <1>3, <2>1, <2>3 DEF Suspects
    <3> QED
      BY <1>1, <2>1, <2>2, <3>1, <3>2, <3>3, WriterKeeps
  <2>4. CASE t = "tlm"
    <3>1. sub'["writer"] = sub["writer"]
      BY <1>1, <2>1, <2>4
    <3> QED
      BY <1>1, <1>3, <2>1, <2>2, <3>1, WriterKeeps DEF WriterInv, QueueInv, Suspects, Tx, Entity
  <2> QED
    BY <1>1, <2>3, <2>4
<1>17. ASSUME NEW t \in Tasks, Sign(t)
       PROVE  WriterInv'
  <2>1. /\ UNCHANGED <<s_queue, nextJob, job, maybe_sent, node, late>> /\ sub[t].st = "price"
        /\ Phase(t, "send") /\ hash' = IF t = "writer" THEN Tx(t) ELSE hash
    BY <1>17 DEF Sign
  <2>2. CASE t = "writer"
    <3>1. /\ sub' \in [Tasks -> [st : Phases, nonce : Nat]]
          /\ sub'["writer"].st = "send" /\ sub'["writer"].nonce = sub["writer"].nonce
      BY <1>1, <1>2, <2>1, <2>2 DEF Phases
    <3>2. hash' = Tx("writer") /\ Tx("writer")' = Tx("writer") /\ Tx("writer") \in Txs
      BY <1>1, <2>1, <2>2, <3>1 DEF Tx, Entity, Txs
    <3>3. job # None
      BY <2>1, <2>2 DEF WriterInv, QueueInv
    <3>4. \A i \in DOMAIN node : ~(node[i].job # Telemetry /\ node[i].job = job)
      BY <1>3, <2>1, <2>2 DEF Suspects
    <3> QED
      BY <1>1, <2>1, <3>1, <3>2, <3>3, <3>4, WriterKeeps
  <2>3. CASE t = "tlm"
    BY <1>4, <2>1, <2>3 DEF Phases
  <2> QED
    BY <1>1, <2>2, <2>3
<1>18. ASSUME NEW t \in Tasks, SendRefused(t)
       PROVE  WriterInv'
  <2>1. UNCHANGED <<s_queue, nextJob, maybe_sent, hash, node, late>>
    BY <1>18 DEF SendRefused
  <2>2. CASE t = "writer"
    BY <1>1, <1>6, <1>18, <2>1, <2>2 DEF SendRefused
  <2>3. CASE t = "tlm"
    <3>1. Phase("tlm", "idle") /\ job' = job
      BY <1>18, <2>3 DEF SendRefused
    <3> QED
      BY <1>4, <2>1, <3>1 DEF Phases
  <2> QED
    BY <1>1, <2>2, <2>3
<1>19. Tx("tlm") \in Txs /\ Tx("tlm").job = Telemetry
  BY <1>1 DEF Tx, Entity, Txs
<1>20. ASSUME NEW t \in Tasks, Sent(t)
       PROVE  WriterInv'
  <2>1. /\ UNCHANGED <<s_queue, nextJob, maybe_sent, hash, late>> /\ sub[t].st = "send"
        /\ node' = node \/ node' = Append(node, Tx(t))
    BY <1>20 DEF Sent, Accept
  <2>2. CASE t = "writer"
    <3>1. job' = None /\ Phase("writer", "idle")
      BY <1>20, <2>2 DEF Sent, Done
    <3>2. sub' \in [Tasks -> [st : Phases, nonce : Nat]] /\ sub'["writer"].st = "idle"
      BY <1>1, <1>2, <3>1 DEF Phases
    <3> QED
      BY <1>1, <2>1, <2>2, <3>1, <3>2, JobAccepted
  <2>3. CASE t = "tlm"
    <3>1. Phase("tlm", "idle") /\ job' = job
      BY <1>20, <2>3 DEF Sent
    <3>2. sub' \in [Tasks -> [st : Phases, nonce : Nat]] /\ sub'["writer"] = sub["writer"]
      BY <1>1, <1>2, <3>1 DEF Phases
    <3> QED
      BY <1>19, <2>1, <2>3, <3>1, <3>2, TelemetryAccepted
  <2> QED
    BY <1>1, <2>2, <2>3
<1>21. ASSUME NEW t \in Tasks, SendFails(t)
       PROVE  WriterInv'
  <2>1. /\ UNCHANGED <<s_queue, nextJob, job, hash>> /\ sub[t].st = "send" /\ Fails(t)
        /\ maybe_sent' = (maybe_sent \/ t = "writer")
    BY <1>21 DEF SendFails
  <2>2. CASE t = "writer"
    <3>1. UNCHANGED late /\ (node' = node \/ node' = Append(node, Tx("writer")))
      BY <1>21, <2>2 DEF SendFails, Accept
    <3>2. maybe_sent' /\ maybe_sent' \in BOOLEAN
      BY <2>1, <2>2, Zenon
    <3>3. Phase("writer", "failed")
      BY <2>1, <2>2 DEF Fails
    <3>4. sub' \in [Tasks -> [st : Phases, nonce : Nat]] /\ sub'["writer"].st = "failed"
      BY <1>1, <1>2, <3>3 DEF Phases
    <3> QED
      BY <2>1, <2>2, <3>1, <3>2, <3>4, JobAccepted
  <2>3. CASE t = "tlm"
    <3>1. t # "writer" /\ Phase("tlm", "idle")
      BY <2>1, <2>3 DEF Fails
    <3>2. maybe_sent' = maybe_sent
      BY <1>1, <2>1, <3>1
    <3>3. sub' \in [Tasks -> [st : Phases, nonce : Nat]] /\ sub'["writer"] = sub["writer"]
      BY <1>1, <1>2, <3>1 DEF Phases
    <3>4. CASE UNCHANGED late /\ (node' = node \/ node' = Append(node, Tx("tlm")))
      BY <1>19, <2>1, <3>2, <3>3, <3>4, TelemetryAccepted
    <3>5. CASE UNCHANGED node /\ late' = late \cup {Tx("tlm")}
      <4>1. WriterTypes'
        BY <1>19, <2>1, <3>2, <3>3, <3>5 DEF WriterInv, WriterTypes, Telemetry
      <4>2. QueueInv'
        BY <2>1, <3>3 DEF WriterInv, QueueInv, Tx, Entity
      <4>3. ChainInv'
        BY <2>1, <3>2, <3>3, <3>5 DEF WriterInv, ChainInv, ChainHas, Suspects, Telemetry
      <4>4. OnceInOrder'
        BY <3>5 DEF WriterInv, OnceInOrder, Telemetry
      <4> QED
        BY <4>1, <4>2, <4>3, <4>4 DEF WriterInv
    <3> QED
      BY <1>21, <2>3, <3>4, <3>5 DEF SendFails, Accept
  <2> QED
    BY <1>1, <2>2, <2>3
<1>22. CASE ArrivesLate
  <2>1. PICK tx \in late : /\ late' = late \ {tx} /\ (node' = node \/ node' = Append(node, tx))
                           /\ UNCHANGED <<s_queue, nextJob, job, maybe_sent, hash, sub>>
    BY <1>22 DEF ArrivesLate, Accept
  <2>2. tx \in Txs /\ tx.job = Telemetry /\ sub \in [Tasks -> [st : Phases, nonce : Nat]]
    BY <2>1 DEF WriterInv, WriterTypes
  <2> QED
    BY <2>1, <2>2, TelemetryAccepted
<1> QED
  BY <1>7, <1>8, <1>9, <1>10, <1>11, <1>12, <1>13, <1>14, <1>15, <1>16, <1>17, <1>18, <1>20, <1>21,
     <1>22 DEF Next, Step

LEMMA WriterInit == Init => WriterInv
<1> SUFFICES ASSUME Init PROVE WriterInv
  OBVIOUS
<1>1. NoTx \in Txs /\ FALSE \in BOOLEAN /\ "idle" \in Phases
  BY DEF NoTx, Txs, None, Phases
<1>2. WriterTypes
  <2>1. s_queue \in Seq(Nat) /\ node \in Seq(Txs) /\ nextJob \in 1..MaxJobs + 1 /\ late = {}
    BY ArkivWriterConstants, EmptySeq DEF Init
  <2>2. sub \in [Tasks -> [st : Phases, nonce : Nat]]
    BY <1>1 DEF Init
  <2> QED
    BY <1>1, <2>1, <2>2 DEF Init, WriterTypes, None
<1>3. QueueInv
  BY DEF Init, QueueInv, None, Tasks
<1>4. ChainInv /\ OnceInOrder
  BY DEF Init, ChainInv, OnceInOrder
<1> QED
  BY <1>2, <1>3, <1>4 DEF WriterInv

(***************************************************************************)
(* Sealing                                                                 *)
(***************************************************************************)
Key == [owner : Nat, enc : Nat]
Progress == [st : {"idle", "numbered", "deriving", "keyed"}, seq : Nat, gen : Nat]
SealOK ==
    /\ stored \in Nat /\ seq \in [next : Nat, reserved : Nat]
    /\ owner \in Nat /\ enc \in Nat /\ binding_gen \in Nat
    /\ cache \in [valid : BOOLEAN, gen : Nat, key : Key]
    /\ seal \in [SealTasks -> Progress]
    /\ faults \in [restarts : Nat, writes : Nat, reads : Nat]
    /\ \A p \in used : p[2] \in Nat

\* Every number that is out is behind the next one and within what flash has
\* reserved, and a number that is not yet sealed with is nobody else's.
Behind(n) == n < seq.next /\ n <= stored
NumbersApart ==
    /\ seq.next < seq.reserved => seq.reserved <= stored + 1
    /\ \A p \in used : Behind(p[2])
    /\ \A t \in SealTasks : seal[t].st # "idle" =>
        /\ Behind(seal[t].seq)
        /\ \A p \in used : p[2] # seal[t].seq
        /\ \A u \in SealTasks \ {t} : seal[u].st # "idle" => seal[u].seq # seal[t].seq
NonceInv == faults.reads = 0 => NumbersApart /\ ~reused

\* Generations in use are not ahead of the binding's.
CacheInv ==
    /\ Seal!KeyCacheCurrent
    /\ cache.valid => cache.gen <= binding_gen
    /\ \A t \in SealTasks : seal[t].gen <= binding_gen

\* Types, for the proofs below.
LEMMA SealTypeStep ==
  ASSUME SealOK, Seal!Next
  PROVE  SealOK'
<1>2. ASSUME NEW t \in SealTasks, NEW r \in Progress, seal' = [seal EXCEPT ![t] = r]
      PROVE  seal' \in [SealTasks -> Progress]
  BY <1>2 DEF SealOK
<1>3. Seal!NoSeal \in Progress
  BY DEF Seal!NoSeal, Progress
<1>4. ASSUME NEW t \in SealTasks
      PROVE  seal[t] \in Progress
  BY DEF SealOK
<1>5. ASSUME NEW t \in SealTasks, Seal!NextSeq(t)
      PROVE  SealOK'
  <2>1. /\ UNCHANGED <<owner, enc, binding_gen, cache, used, faults>>
        /\ seal' = [seal EXCEPT ![t] = [seal[t] EXCEPT !.st = "numbered", !.seq = seq.next]]
    BY <1>5 DEF Seal!NextSeq, Seal!IssueReserving, Seal!Issue
  <2>2. stored' \in Nat /\ seq' \in [next : Nat, reserved : Nat]
    BY <1>5, SealConstants DEF Seal!NextSeq, Seal!IssueReserving, SealOK, Seal!ArkivSealConstants
  <2>3. [seal[t] EXCEPT !.st = "numbered", !.seq = seq.next] \in Progress
    BY <1>4 DEF Progress, SealOK
  <2>4. seal' \in [SealTasks -> Progress]
    BY <1>2, <2>1, <2>3
  <2> QED
    BY <2>1, <2>2, <2>4 DEF SealOK
<1>6. ASSUME NEW t \in SealTasks, Seal!PersistFails(t)
      PROVE  SealOK'
  BY <1>6, SealConstants DEF Seal!PersistFails, SealOK, Seal!ArkivSealConstants
<1>7. ASSUME NEW t \in SealTasks, Seal!SealBegins(t)
      PROVE  SealOK'
  <2> DEFINE stage == IF cache.valid /\ cache.gen = binding_gen THEN "keyed" ELSE "deriving"
  <2>1. /\ UNCHANGED <<stored, seq, owner, enc, binding_gen, cache, used, faults>>
        /\ seal' = [seal EXCEPT ![t] = IF ~Seal!Bound THEN Seal!NoSeal ELSE [seal[t] EXCEPT !.st = stage, !.gen = binding_gen]]
    BY <1>7, Zenon DEF Seal!SealBegins
  <2>2. stage \in {"keyed", "deriving"}
    OBVIOUS
  <2> HIDE DEF stage
  <2>3. [seal[t] EXCEPT !.st = stage, !.gen = binding_gen] \in Progress
    BY <1>4, <2>2 DEF Progress, SealOK
  <2>4. (IF ~Seal!Bound THEN Seal!NoSeal ELSE [seal[t] EXCEPT !.st = stage, !.gen = binding_gen]) \in Progress
    BY <1>3, <2>3, Zenon
  <2>5. seal' \in [SealTasks -> Progress]
    BY <1>2, <2>1, <2>4, Zenon
  <2> QED
    BY <2>1, <2>5 DEF SealOK
<1>8. ASSUME NEW t \in SealTasks, Seal!Derive(t)
      PROVE  SealOK'
  <2>1. /\ UNCHANGED <<stored, seq, owner, enc, binding_gen, used, faults>>
        /\ seal' = [seal EXCEPT ![t] = [seal[t] EXCEPT !.st = "keyed"]]
    BY <1>8 DEF Seal!Derive
  <2>2. [seal[t] EXCEPT !.st = "keyed"] \in Progress
    BY <1>4 DEF Progress
  <2>3. seal' \in [SealTasks -> Progress]
    BY <1>2, <2>1, <2>2
  <2> DEFINE yes == TRUE
  <2>4. yes \in BOOLEAN /\ cache' = [valid |-> yes, gen |-> seal[t].gen, key |-> [owner |-> owner, enc |-> enc]]
    BY <1>8, Zenon DEF Seal!Derive
  <2> HIDE DEF yes
  <2>5. cache' \in [valid : BOOLEAN, gen : Nat, key : Key]
    BY <1>4, <2>4 DEF Progress, SealOK, Key
  <2> QED
    BY <2>1, <2>3, <2>5 DEF SealOK
<1>9. ASSUME NEW t \in SealTasks, Seal!SealEnds(t)
      PROVE  SealOK'
  <2>1. seal[t].seq \in Nat
    BY <1>4 DEF Progress
  <2>2. /\ UNCHANGED <<stored, seq, owner, enc, binding_gen, cache, faults>>
        /\ seal' = [seal EXCEPT ![t] = Seal!NoSeal]
        /\ used' = used \cup {<<cache.key, seal[t].seq>>}
    BY <1>9 DEF Seal!SealEnds
  <2>3. \A p \in used' : p[2] \in Nat
    BY <2>1, <2>2 DEF SealOK
  <2>4. seal' \in [SealTasks -> Progress]
    BY <1>2, <1>3, <2>2
  <2> QED
    BY <2>2, <2>3, <2>4 DEF SealOK
<1>10. ASSUME NEW v \in {0, binding_gen + 1}, Seal!BindBegins(v)
       PROVE  SealOK'
  BY <1>10 DEF Seal!BindBegins, SealOK
<1>11. CASE Seal!BindEnc \/ Seal!BindEnds
  BY <1>11 DEF Seal!BindEnc, Seal!BindEnds, SealOK
<1>12. CASE Seal!Restart
  <2>1. /\ UNCHANGED <<stored, owner, enc, binding_gen, used>>
        /\ cache' = Seal!NoCache /\ seal' = [t \in SealTasks |-> Seal!NoSeal]
    BY <1>12 DEF Seal!Restart
  <2>2. seq' \in [next : Nat, reserved : Nat]
    BY <1>12 DEF Seal!Restart, Seal!Resumed, SealOK
  <2>3. faults' \in [restarts : Nat, writes : Nat, reads : Nat]
    <3>1. faults \in [restarts : Nat, writes : Nat, reads : Nat]
      BY DEF SealOK
    <3>2. CASE faults' = [faults EXCEPT !.restarts = @ + 1]
      BY <3>1, <3>2
    <3>3. CASE faults' = [faults EXCEPT !.restarts = @ + 1, !.reads = @ + 1]
      <4>1. /\ DOMAIN faults' = {"restarts", "writes", "reads"}
            /\ faults'.restarts = faults.restarts + 1 /\ faults'.writes = faults.writes
            /\ faults'.reads = faults.reads + 1
            /\ faults' = [k \in DOMAIN faults' |-> faults'[k]]
        BY <3>1, <3>3
      <4>2. faults' = [restarts |-> faults'.restarts, writes |-> faults'.writes, reads |-> faults'.reads]
        BY <4>1
      <4> QED
        BY <3>1, <4>1, <4>2
    <3> QED
      BY <1>12, <3>2, <3>3 DEF Seal!Restart
  <2> DEFINE no == FALSE
  <2>4. no \in BOOLEAN /\ cache' = [valid |-> no, gen |-> 0, key |-> Seal!NoKey]
    BY <2>1, Zenon DEF Seal!NoCache
  <2> HIDE DEF no
  <2>5. cache' \in [valid : BOOLEAN, gen : Nat, key : Key]
    BY <2>4 DEF Key, Seal!NoKey
  <2>6. seal' \in [SealTasks -> Progress]
    BY <1>3, <2>1
  <2> QED
    BY <2>1, <2>2, <2>3, <2>5, <2>6 DEF SealOK
<1> QED
  BY <1>5, <1>6, <1>7, <1>8, <1>9, <1>10, <1>11, <1>12 DEF Seal!Next

\* No step seals with a number that was sealed with.
LEMMA NonceStep ==
  ASSUME SealOK, NonceInv, Seal!Next
  PROVE  NonceInv'
<1>1. SUFFICES ASSUME faults'.reads = 0
               PROVE  NumbersApart' /\ ~reused'
  BY DEF NonceInv
<1>2. faults.reads = 0 /\ (Seal!Restart => seq' = Seal!Resumed(stored))
  <2>1. faults \in [restarts : Nat, writes : Nat, reads : Nat]
    BY DEF SealOK
  <2>2. faults.reads = faults'.reads \/ (faults'.reads = faults.reads + 1 /\ Seal!Restart)
    BY <2>1 DEF Seal!Next, Seal!NextSeq, Seal!PersistFails, Seal!SealBegins, Seal!Derive, Seal!SealEnds, Seal!BindBegins, Seal!BindEnc, Seal!BindEnds, Seal!Restart
  <2>3. Seal!Restart => seq' = Seal!Resumed(stored) \/ faults'.reads = faults.reads + 1
    BY <2>1 DEF Seal!Restart
  <2> QED
    BY <1>1, <2>1, <2>2, <2>3
<1>3. NumbersApart /\ ~reused
  BY <1>2 DEF NonceInv
<1>4. /\ seq.next \in Nat /\ seq.reserved \in Nat /\ stored \in Nat /\ SEQ_RESERVE_WINDOW \in Nat
      /\ DOMAIN seal = SealTasks /\ \A t \in SealTasks : seal[t].seq \in Nat /\ DOMAIN seal[t] = {"st", "seq", "gen"}
  BY SealConstants DEF SealOK, Seal!ArkivSealConstants, Progress
<1>5. \A p \in used : p[2] \in Nat
  BY DEF SealOK
\* The tasks' numbers stay, or are given up.
<1>6. ASSUME UNCHANGED <<stored, seq, used, reused>>,
             \A t \in SealTasks : seal'[t].st # "idle" => seal[t].st # "idle" /\ seal'[t].seq = seal[t].seq
      PROVE  NumbersApart' /\ ~reused'
  BY <1>3, <1>6 DEF NumbersApart, Behind
<1>8. ASSUME NEW t \in SealTasks, Seal!NextSeq(t)
      PROVE  NumbersApart' /\ ~reused'
  <2>1. /\ used' = used /\ reused' = reused /\ seal[t].st = "idle"
        /\ seal' = [seal EXCEPT ![t] = [@ EXCEPT !.st = "numbered", !.seq = seq.next]]
    BY <1>8 DEF Seal!NextSeq, Seal!IssueReserving, Seal!Issue
  <2>2. /\ seal'[t].seq = seq.next /\ seal'[t].st = "numbered"
        /\ \A u \in SealTasks \ {t} : seal'[u] = seal[u]
    BY <1>4, <2>1
  <2>3. /\ seq'.next = seq.next + 1
        /\ \/ stored' = seq.next + SEQ_RESERVE_WINDOW /\ seq'.reserved = seq.next + SEQ_RESERVE_WINDOW
           \/ seq.next < seq.reserved /\ stored' = stored /\ seq'.reserved = seq.reserved
    BY <1>4, <1>8 DEF Seal!NextSeq, Seal!IssueReserving, Seal!Reserves, SealOK
  <2>4. seq'.next < seq'.reserved => seq'.reserved <= stored' + 1
    BY <1>3, <1>4, <2>3 DEF NumbersApart
  <2>5. /\ seq.next < seq'.next /\ seq.next <= stored'
        /\ \A n \in Nat : n < seq.next /\ n <= stored => n < seq'.next /\ n <= stored' /\ n # seq.next
    <3>1. CASE seq.next < seq.reserved /\ stored' = stored /\ seq'.reserved = seq.reserved
      <4>1. seq.reserved <= stored + 1
        BY <1>3, <3>1 DEF NumbersApart
      <4> QED
        BY <1>4, <2>3, <3>1, <4>1
    <3>2. CASE stored' = seq.next + SEQ_RESERVE_WINDOW
      BY <1>4, <2>3, <3>2
    <3> QED
      BY <2>3, <3>1, <3>2
  <2>6. \A p \in used : p[2] < seq'.next /\ p[2] <= stored' /\ p[2] # seq.next
    BY <1>3, <1>5, <2>5 DEF NumbersApart, Behind
  <2>7. \A w \in SealTasks : seal[w].st # "idle" =>
          seal[w].seq < seq'.next /\ seal[w].seq <= stored' /\ seal[w].seq # seq.next
    BY <1>3, <1>4, <2>5 DEF NumbersApart, Behind
  <2>8. ASSUME NEW u \in SealTasks, seal'[u].st # "idle"
        PROVE  /\ seal'[u].seq < seq'.next /\ seal'[u].seq <= stored'
               /\ \A p \in used : p[2] # seal'[u].seq
               /\ \A w \in SealTasks \ {u} : seal'[w].st # "idle" => seal'[w].seq # seal'[u].seq
    <3>1. CASE u = t
      <4>1. seal'[u].seq = seq.next
        BY <2>2, <3>1
      <4>2. \A w \in SealTasks \ {u} : seal'[w] = seal[w]
        BY <2>2, <3>1
      <4> QED
        BY <2>5, <2>6, <2>7, <4>1, <4>2
    <3>2. CASE u # t
      <4>1. seal'[u] = seal[u] /\ seal[u].st # "idle"
        BY <2>2, <2>8, <3>2
      <4>2. seal[u].seq < seq'.next /\ seal[u].seq <= stored' /\ seal[u].seq # seq.next
        BY <2>7, <4>1
      <4>3. /\ \A p \in used : p[2] # seal[u].seq
            /\ \A w \in SealTasks \ {u} : seal[w].st # "idle" => seal[w].seq # seal[u].seq
        BY <1>3, <4>1 DEF NumbersApart
      <4>4. ASSUME NEW w \in SealTasks \ {u}, seal'[w].st # "idle"
            PROVE  seal'[w].seq # seal'[u].seq
        <5>1. CASE w = t
          BY <2>2, <4>1, <4>2, <5>1
        <5>2. CASE w # t
          BY <2>2, <4>1, <4>3, <4>4, <5>2
        <5> QED
          BY <5>1, <5>2
      <4> QED
        BY <4>1, <4>2, <4>3, <4>4
    <3> QED
      BY <3>1, <3>2
  <2> QED
    BY <1>3, <2>1, <2>4, <2>6, <2>8 DEF NumbersApart, Behind
<1>9. ASSUME NEW t \in SealTasks, Seal!PersistFails(t)
      PROVE  NumbersApart' /\ ~reused'
  <2>1. /\ UNCHANGED <<seq, seal, used, reused>> /\ ~(seq.next < seq.reserved)
        /\ stored' \in {stored, seq.next + SEQ_RESERVE_WINDOW}
    BY <1>4, <1>9 DEF Seal!PersistFails, Seal!Reserves
  <2>2. \A n \in Nat : Behind(n) => Behind(n)'
    BY <1>4, <2>1 DEF Behind
  <2> QED
    BY <1>3, <1>4, <1>5, <2>1, <2>2 DEF NumbersApart
<1>10. ASSUME NEW t \in SealTasks, Seal!SealBegins(t) \/ Seal!Derive(t)
       PROVE  NumbersApart' /\ ~reused'
  <2>1. UNCHANGED <<stored, seq, used, reused>> /\ seal[t].st # "idle"
    BY <1>10 DEF Seal!SealBegins, Seal!Derive
  <2>2. \A u \in SealTasks : seal'[u].st # "idle" => seal[u].st # "idle" /\ seal'[u].seq = seal[u].seq
    <3>1. PICK r : seal' = [seal EXCEPT ![t] = r] /\ (r.st # "idle" => r.seq = seal[t].seq)
      <4>1. CASE Seal!SealBegins(t)
        <5> DEFINE stage == IF cache.valid /\ cache.gen = binding_gen THEN "keyed" ELSE "deriving"
                   r == [seal[t] EXCEPT !.st = stage, !.gen = binding_gen]
        <5>1. seal' = [seal EXCEPT ![t] = IF ~Seal!Bound THEN Seal!NoSeal ELSE r]
          BY <4>1, Zenon DEF Seal!SealBegins
        <5> HIDE DEF stage
        <5>2. r.seq = seal[t].seq
          BY <1>4
        <5> HIDE DEF r
        <5>3. CASE Seal!Bound
          BY <5>1, <5>2, <5>3
        <5>4. CASE ~Seal!Bound
          <6>1. seal' = [seal EXCEPT ![t] = Seal!NoSeal]
            BY <5>1, <5>4
          <6>2. Seal!NoSeal.st = "idle"
            BY DEF Seal!NoSeal
          <6> QED
            BY <6>1, <6>2
        <5> QED
          BY <5>3, <5>4
      <4>2. CASE Seal!Derive(t)
        <5>1. seal' = [seal EXCEPT ![t] = [seal[t] EXCEPT !.st = "keyed"]]
          BY <4>2 DEF Seal!Derive
        <5>2. [seal[t] EXCEPT !.st = "keyed"].seq = seal[t].seq
          BY <1>4
        <5> QED
          BY <5>1, <5>2
      <4> QED
        BY <1>10, <4>1, <4>2
    <3>2. (seal'[t].st # "idle" => seal'[t].seq = seal[t].seq) /\ \A u \in SealTasks \ {t} : seal'[u] = seal[u]
      BY <1>4, <3>1
    <3> QED
      BY <2>1, <3>2
  <2> QED
    BY <1>6, <2>1, <2>2
<1>11. ASSUME NEW t \in SealTasks, Seal!SealEnds(t)
       PROVE  NumbersApart' /\ ~reused'
  <2> DEFINE q == <<cache.key, seal[t].seq>>
  <2>1. /\ UNCHANGED <<stored, seq>> /\ seal[t].st # "idle" /\ used' = used \cup {q}
        /\ reused' = (reused \/ q \in used) /\ seal' = [seal EXCEPT ![t] = Seal!NoSeal]
    BY <1>11 DEF Seal!SealEnds
  <2>2. q[2] = seal[t].seq
    OBVIOUS
  <2> HIDE DEF q
  <2>3. q \notin used
    BY <1>3, <2>1, <2>2 DEF NumbersApart
  <2>4. seal'[t].st = "idle" /\ \A u \in SealTasks \ {t} : seal'[u] = seal[u]
    BY <1>4, <2>1 DEF Seal!NoSeal
  <2>5. ~reused'
    BY <1>3, <2>1, <2>3
  <2>6. \A p \in used' : p[2] < seq'.next /\ p[2] <= stored'
    BY <1>3, <2>1, <2>2 DEF NumbersApart, Behind
  <2>7. ASSUME NEW u \in SealTasks, seal'[u].st # "idle"
        PROVE  /\ seal'[u].seq < seq'.next /\ seal'[u].seq <= stored'
               /\ \A p \in used' : p[2] # seal'[u].seq
               /\ \A w \in SealTasks \ {u} : seal'[w].st # "idle" => seal'[w].seq # seal'[u].seq
    <3>1. u # t /\ seal'[u] = seal[u]
      BY <2>4, <2>7
    <3>2. /\ seal[u].seq < seq.next /\ seal[u].seq <= stored
          /\ \A p \in used : p[2] # seal[u].seq
          /\ \A w \in SealTasks \ {u} : seal[w].st # "idle" => seal[w].seq # seal[u].seq
      BY <1>3, <2>7, <3>1 DEF NumbersApart, Behind
    <3>3. \A p \in used' : p[2] # seal[u].seq
      BY <2>1, <2>2, <3>1, <3>2
    <3> QED
      BY <2>1, <2>4, <3>1, <3>2, <3>3
  <2>8. seq'.next < seq'.reserved => seq'.reserved <= stored' + 1
    BY <1>3, <2>1 DEF NumbersApart
  <2> QED
    BY <2>5, <2>6, <2>7, <2>8 DEF NumbersApart, Behind
<1>12. CASE (\E v \in {0, binding_gen + 1} : Seal!BindBegins(v)) \/ Seal!BindEnc \/ Seal!BindEnds
  BY <1>6, <1>12 DEF Seal!BindBegins, Seal!BindEnc, Seal!BindEnds
<1>13. CASE Seal!Restart
  <2>1. /\ UNCHANGED <<stored, used, reused>> /\ seq' = [next |-> stored + 1, reserved |-> stored + 1]
        /\ seal' = [t \in SealTasks |-> Seal!NoSeal]
    BY <1>2, <1>13 DEF Seal!Restart, Seal!Resumed
  <2>2. \A n \in Nat : Behind(n) => Behind(n)'
    BY <1>4, <2>1 DEF Behind
  <2>3. \A t \in SealTasks : seal'[t].st = "idle"
    BY <2>1 DEF Seal!NoSeal
  <2>4. ~(seq'.next < seq'.reserved)
    BY <1>4, <2>1
  <2> QED
    BY <1>3, <1>5, <2>1, <2>2, <2>3, <2>4 DEF NumbersApart
<1> QED
  BY <1>8, <1>9, <1>10, <1>11, <1>12, <1>13 DEF Seal!Next

\* No step leaves a stale key in a cache that passes for current.
LEMMA CacheStep ==
  ASSUME SealOK, CacheInv, Seal!Next
  PROVE  CacheInv'
<1>1. /\ binding_gen \in Nat /\ cache.gen \in Nat /\ DOMAIN seal = SealTasks
      /\ \A t \in SealTasks : seal[t].gen \in Nat /\ seal[t].gen <= binding_gen /\ DOMAIN seal[t] = {"st", "seq", "gen"}
  BY DEF SealOK, CacheInv, Progress
<1>2. ASSUME UNCHANGED <<owner, enc, binding_gen, binding, cache>>, \A t \in SealTasks : seal'[t].gen <= binding_gen
      PROVE  CacheInv'
  BY <1>2 DEF CacheInv, Seal!KeyCacheCurrent
<1>4. ASSUME NEW t \in SealTasks, Seal!NextSeq(t) \/ Seal!PersistFails(t) \/ Seal!SealBegins(t) \/ Seal!SealEnds(t)
      PROVE  CacheInv'
  <2>1. UNCHANGED <<owner, enc, binding_gen, binding, cache>>
    BY <1>4 DEF Seal!NextSeq, Seal!PersistFails, Seal!SealBegins, Seal!SealEnds
  <2>2. /\ \A u \in SealTasks \ {t} : seal'[u] = seal[u]
        /\ seal'[t].gen \in {0, seal[t].gen, binding_gen}
    <3>1. CASE Seal!NextSeq(t)
      <4>1. seal' = [seal EXCEPT ![t] = [seal[t] EXCEPT !.st = "numbered", !.seq = seq.next]]
        BY <3>1 DEF Seal!NextSeq, Seal!IssueReserving, Seal!Issue
      <4> QED
        BY <1>1, <4>1
    <3>2. CASE Seal!PersistFails(t)
      BY <1>1, <3>2 DEF Seal!PersistFails
    <3>3. CASE Seal!SealBegins(t)
      <4> DEFINE stage == IF cache.valid /\ cache.gen = binding_gen THEN "keyed" ELSE "deriving"
                 r == [seal[t] EXCEPT !.st = stage, !.gen = binding_gen]
      <4>1. seal' = [seal EXCEPT ![t] = IF ~Seal!Bound THEN Seal!NoSeal ELSE r]
        BY <3>3, Zenon DEF Seal!SealBegins
      <4> HIDE DEF stage
      <4>2. r.gen = binding_gen /\ Seal!NoSeal.gen = 0
        BY <1>1 DEF Seal!NoSeal
      <4> HIDE DEF r
      <4> QED
        BY <1>1, <4>1, <4>2
    <3>4. CASE Seal!SealEnds(t)
      BY <1>1, <3>4 DEF Seal!SealEnds, Seal!NoSeal
    <3> QED
      BY <1>4, <3>1, <3>2, <3>3, <3>4
  <2> QED
    BY <1>1, <1>2, <2>1, <2>2
<1>5. ASSUME NEW t \in SealTasks, Seal!Derive(t)
      PROVE  CacheInv'
  <2>1. UNCHANGED <<owner, enc, binding_gen, binding>> /\ seal' = [seal EXCEPT ![t].st = "keyed"]
    BY <1>5 DEF Seal!Derive
  <2>2. cache'.gen = seal[t].gen /\ cache'.key = [owner |-> owner, enc |-> enc]
    BY <1>5 DEF Seal!Derive
  <2>3. \A u \in SealTasks : seal'[u].gen = seal[u].gen
    BY <1>1, <2>1
  <2> QED
    BY <1>1, <2>1, <2>2, <2>3 DEF CacheInv, Seal!KeyCacheCurrent
<1>6. CASE (\E v \in {0, binding_gen + 1} : Seal!BindBegins(v)) \/ Seal!BindEnc
  BY <1>1, <1>6 DEF Seal!BindBegins, Seal!BindEnc, CacheInv, Seal!KeyCacheCurrent
<1>7. CASE Seal!BindEnds
  BY <1>1, <1>7 DEF Seal!BindEnds, CacheInv, Seal!KeyCacheCurrent
<1>8. CASE Seal!Restart
  <2>1. ~cache'.valid
    BY <1>8, Zenon DEF Seal!Restart, Seal!NoCache
  <2>2. binding_gen' = binding_gen /\ \A t \in SealTasks : seal'[t].gen = 0
    BY <1>8 DEF Seal!Restart, Seal!NoSeal
  <2> QED
    BY <1>1, <2>1, <2>2 DEF CacheInv, Seal!KeyCacheCurrent
<1> QED
  BY <1>4, <1>5, <1>6, <1>7, <1>8 DEF Seal!Next

LEMMA SealInit == Seal!Init => SealOK /\ NonceInv /\ CacheInv
<1>1. SUFFICES ASSUME Seal!Init
               PROVE  SealOK /\ NonceInv /\ CacheInv
  OBVIOUS
<1>2. ~cache.valid /\ cache \in [valid : BOOLEAN, gen : Nat, key : Key]
  <2>1. cache = [valid |-> FALSE, gen |-> 0, key |-> Seal!NoKey] /\ Seal!NoKey \in Key
    BY <1>1 DEF Seal!Init, Seal!NoCache, Seal!NoKey, Key
  <2>2. ~cache.valid
    BY <2>1, Zenon
  <2> QED
    BY <2>1, <2>2
<1>3. SealOK
  <2>1. seal \in [SealTasks -> Progress]
    BY <1>1 DEF Seal!Init, Seal!NoSeal, Progress
  <2>2. seq \in [next : Nat, reserved : Nat]
    BY <1>1 DEF Seal!Init, Seal!Resumed
  <2> QED
    BY <1>1, <1>2, <2>1, <2>2 DEF Seal!Init, SealOK
<1>4. NonceInv
  BY <1>1 DEF Seal!Init, NonceInv, NumbersApart, Seal!NoSeal, Seal!Resumed
<1>5. CacheInv
  BY <1>1, <1>2 DEF Seal!Init, CacheInv, Seal!KeyCacheCurrent, Seal!NoSeal
<1> QED
  BY <1>3, <1>4, <1>5

(***************************************************************************)
(* The telemetry task: RequestKept is inductive as it stands.              *)
(***************************************************************************)
LEMMA RequestStep ==
  ASSUME RequestKept, TlmNext
  PROVE  RequestKept'
<1>1. CASE Slice \/ Tick
  <2>1. BalBegins \/ UNCHANGED <<s_bal_req, owed>>
    BY <1>1 DEF Slice, Tick
  <2>2. CASE BalBegins
    BY <2>2, Zenon DEF BalBegins, RequestKept
  <2> QED
    BY <2>1, <2>2 DEF RequestKept
<1>2. CASE BalEnds \/ LinkChanges \/ ClaimChanges \/ Request
  BY <1>2 DEF BalEnds, LinkChanges, ClaimChanges, Request, balance, RequestKept
<1>3. ASSUME NEW s \in Slots, Observe(s) \/ Stales(s)
      PROVE  RequestKept'
  BY <1>3 DEF Observe, Stales, balance, RequestKept
<1> QED
  BY <1>1, <1>2, <1>3 DEF TlmNext

(***************************************************************************)
(* The MQTT client's outbox                                                *)
(***************************************************************************)
\* A set of numbers has a least one.
LEMMA Least ==
  ASSUME NEW S, S \subseteq Nat, S # {}
  PROVE  \E x \in S : \A y \in S : x <= y
<1>1. \E x \in S : \A y \in S : ~(<<y, x>> \in OpToRel(<, Nat))
  BY WFMin, NatLessThanWellFounded, Zenon
<1>2. \A x, y \in Nat : y < x => <<y, x>> \in OpToRel(<, Nat)
  BY Zenon DEF OpToRel
<1>3. \E x \in S : \A y \in S : ~(y < x)
  BY <1>1, <1>2, Zenon
<1> QED
  BY <1>3

LEMMA LeastIsMin ==
  ASSUME NEW S, S \subseteq Nat, S # {}
  PROVE  Mqtt!Min(S) \in S /\ \A y \in S : Mqtt!Min(S) <= y
<1>1. \E x \in S : \A y \in S : x <= y
  BY Least
<1> QED
  BY <1>1 DEF Mqtt!Min

LEMMA FunctionIsSeq ==
  ASSUME NEW S, NEW n \in Nat, NEW q \in [1..n -> S]
  PROVE  q \in Seq(S)
  OBVIOUS

\* What is behind the k-th element of a sequence.
LEMMA Suffix ==
  ASSUME NEW S, NEW q \in Seq(S), NEW n, n = Len(q), NEW k \in 1..n, NEW l, l = k + 1
  PROVE  /\ SubSeq(q, l, n) \in Seq(S) /\ Len(SubSeq(q, l, n)) = n - k
         /\ \A i \in 1..(n - k) : SubSeq(q, l, n)[i] = q[i + k]
<1>1. n \in Nat /\ k \in Nat /\ l \in Nat /\ l <= n + 1
  BY LenProperties
<1>2. \A i \in l..n : q[i] \in S
  BY <1>1, ElementOfSeq
<1>3. /\ SubSeq(q, l, n) \in Seq(S) /\ Len(SubSeq(q, l, n)) = IF l <= n THEN n - l + 1 ELSE 0
      /\ \A i \in 1..n - l + 1 : SubSeq(q, l, n)[i] = q[l + i - 1]
  BY <1>1, <1>2, SubSeqProperties
<1>4. n - l + 1 = n - k
  BY <1>1
<1>5. \A i \in 1..(n - k) : l + i - 1 = i + k
  BY <1>1
<1> QED
  BY <1>1, <1>3, <1>4, <1>5

\* A sequence without one of its elements.
LEMMA Removed ==
  ASSUME NEW S, NEW q \in Seq(S), NEW k \in DOMAIN q
  PROVE  /\ Mqtt!RemoveAt(q, k) \in Seq(S)
         /\ DOMAIN Mqtt!RemoveAt(q, k) = 1..Len(q) - 1
         /\ \A i \in 1..Len(q) - 1 :
              Mqtt!RemoveAt(q, k)[i] = IF i < k THEN q[i] ELSE q[i + 1]
<1>1. Len(q) \in Nat /\ DOMAIN q = 1..Len(q) /\ k \in 1..Len(q)
  BY LenProperties
<1> DEFINE a == SubSeq(q, 1, k - 1)
           b == SubSeq(q, k + 1, Len(q))
<1>2. a \in Seq(S) /\ Len(a) = k - 1 /\ \A i \in 1..k - 1 : a[i] = q[i]
  BY <1>1, SubSeqProperties
<1>3. b \in Seq(S) /\ Len(b) = Len(q) - k /\ \A i \in 1..(Len(q) - k) : b[i] = q[i + k]
  BY <1>1, Suffix, SMTT(60)
<1>4. Mqtt!RemoveAt(q, k) = a \o b
  BY DEF Mqtt!RemoveAt
<1> HIDE DEF a, b
<1>5. /\ a \o b \in Seq(S) /\ Len(a \o b) = Len(a) + Len(b)
      /\ \A i \in 1..Len(a) + Len(b) : (a \o b)[i] = IF i <= Len(a) THEN a[i] ELSE b[i - Len(a)]
  BY <1>2, <1>3, ConcatProperties
<1>6. Len(a \o b) = Len(q) - 1
  BY <1>1, <1>2, <1>3, <1>5
<1>7. \A i \in 1..Len(q) - 1 : (a \o b)[i] = IF i < k THEN q[i] ELSE q[i + 1]
  <2>1. SUFFICES ASSUME NEW i \in 1..Len(q) - 1
                 PROVE  (a \o b)[i] = IF i < k THEN q[i] ELSE q[i + 1]
    OBVIOUS
  <2>2. (a \o b)[i] = IF i <= k - 1 THEN a[i] ELSE b[i - (k - 1)]
    BY <1>1, <1>2, <1>3, <1>5, <2>1
  <2>3. CASE i < k
    BY <1>1, <1>2, <2>1, <2>2, <2>3
  <2>4. CASE ~(i < k)
    <3>1. i - (k - 1) \in 1..(Len(q) - k) /\ (i - (k - 1)) + k = i + 1 /\ ~(i <= k - 1)
      BY <1>1, <2>1, <2>4
    <3> QED
      BY <1>3, <2>2, <2>4, <3>1
  <2> QED
    BY <2>3, <2>4
<1> QED
  BY <1>4, <1>5, <1>6, <1>7, LenProperties

\* The packets the client sends and gets.
Kinds == {"CONNECT", "PUBLISH", "PUBACK", "PINGREQ", "CONNACK", "PINGRESP"}
Items == {i \in [m : Messages, id : Nat, pending : {"QUEUED", "TRANSMITTED"}, age : Nat] :
            i.id = Mqtt!PacketId(i.m) /\ (i.m \in Qos0 => i.pending = "QUEUED")}
Frames == {f \in [kind : Kinds, m : Nat, len : Nat, dl : Int] : f.kind = "PUBLISH" => f.m \in Messages}
Sends == {f \in [kind : Kinds, m : Nat] : f.kind = "PUBLISH" => f.m \in Messages}
Arrivals(g) == {p \in [kind : Kinds, m : Nat, whole : BOOLEAN] : p.kind = "PUBACK" => p.m \in g /\ p.m # 0}

\* An item's identifier is its message's, one of QoS 0 waits to be sent; only
\* what the broker has got is acknowledged.
ClientTypes ==
    /\ outbox \in Seq(Items) /\ service \in Seq(Frames) /\ up \in Seq(Sends) /\ inb \in Seq(Arrivals(got))
    /\ app \in [next : Nat, written : SUBSET Nat, expired : SUBSET Nat, purged : SUBSET Nat, conns : Nat]

\* One packet of the outbox is staged at a time; one of QoS 0 is the first of
\* those in the outbox, all of which have the identifier 0.
IsFirst(m) ==
    \E j \in DOMAIN outbox : /\ outbox[j].m = m /\ outbox[j].id = 0
                             /\ \A i \in DOMAIN outbox : i < j => outbox[i].id # 0
Publishes(k) == service[k].kind = "PUBLISH"
StageInv ==
    \A k \in DOMAIN service : Publishes(k) =>
        /\ \A j \in DOMAIN service : Publishes(j) => j = k
        /\ service[k].m \in Qos0 => IsFirst(service[k].m)

ClientInv == ClientTypes /\ StageInv /\ Mqtt!NothingLost

LEMMA OutboxHolds ==
  ASSUME ClientTypes
  PROVE  /\ Len(outbox) \in Nat /\ DOMAIN outbox = 1..Len(outbox)
         /\ \A k \in DOMAIN outbox :
              /\ outbox[k] \in Items /\ outbox[k].m \in Messages /\ outbox[k].m \in Nat \ {0}
              /\ outbox[k].id = (IF outbox[k].m \in Qos0 THEN 0 ELSE outbox[k].m)
              /\ (outbox[k].m \in Qos0 <=> outbox[k].id = 0)
              /\ (outbox[k].m \in Qos0 => outbox[k].pending = "QUEUED")
<1>1. outbox \in Seq(Items) /\ Len(outbox) \in Nat /\ DOMAIN outbox = 1..Len(outbox)
  BY LenProperties DEF ClientTypes
<1>2. \A k \in DOMAIN outbox : outbox[k] \in Items
  BY <1>1, ElementOfSeq
<1> QED
  BY <1>1, <1>2, ClientConstants DEF Mqtt!MqttClientConstants, Items, Mqtt!PacketId

\* The first item that is looked for.
LEMMA FirstWithId ==
  ASSUME ClientTypes, NEW id
  PROVE  \/ Mqtt!outbox_get(id) = 0 /\ \A k \in DOMAIN outbox : outbox[k].id # id
         \/ /\ Mqtt!outbox_get(id) \in DOMAIN outbox /\ outbox[Mqtt!outbox_get(id)].id = id
            /\ \A i \in DOMAIN outbox : i < Mqtt!outbox_get(id) => outbox[i].id # id
<1> DEFINE I == {i \in 1..Len(outbox) : outbox[i].id = id}
<1>1. Mqtt!outbox_get(id) = IF I # {} THEN Mqtt!Min(I) ELSE 0
  BY DEF Mqtt!outbox_get, Mqtt!First, Mqtt!SelectInSeq
<1>2. I \subseteq Nat /\ DOMAIN outbox = 1..Len(outbox) /\ Len(outbox) \in Nat
  BY OutboxHolds
<1>3. I # {} => Mqtt!Min(I) \in I /\ \A y \in I : Mqtt!Min(I) <= y
  BY <1>2, LeastIsMin
<1>4. CASE I = {}
  BY <1>1, <1>2, <1>4
<1>5. CASE I # {}
  <2> DEFINE k == Mqtt!outbox_get(id)
  <2>1. k \in I /\ \A y \in I : k <= y
    BY <1>1, <1>3, <1>5
  <2> HIDE DEF k
  <2>2. k \in DOMAIN outbox /\ outbox[k].id = id
    BY <1>2, <2>1
  <2>3. \A i \in DOMAIN outbox : i < k => outbox[i].id # id
    BY <1>2, <2>1
  <2> QED
    BY <2>2, <2>3 DEF k
<1> QED
  BY <1>4, <1>5

LEMMA FirstPending ==
  ASSUME ClientTypes, NEW p
  PROVE  \/ Mqtt!outbox_dequeue(p) = 0
         \/ /\ Mqtt!outbox_dequeue(p) \in DOMAIN outbox /\ outbox[Mqtt!outbox_dequeue(p)].pending = p
            /\ \A i \in DOMAIN outbox : i < Mqtt!outbox_dequeue(p) => outbox[i].pending # p
<1> DEFINE I == {i \in 1..Len(outbox) : outbox[i].pending = p}
<1>1. Mqtt!outbox_dequeue(p) = IF I # {} THEN Mqtt!Min(I) ELSE 0
  BY DEF Mqtt!outbox_dequeue, Mqtt!First, Mqtt!SelectInSeq
<1>2. I \subseteq Nat /\ DOMAIN outbox = 1..Len(outbox) /\ Len(outbox) \in Nat
  BY OutboxHolds
<1>3. I # {} => Mqtt!Min(I) \in I /\ \A y \in I : Mqtt!Min(I) <= y
  BY <1>2, LeastIsMin
<1>4. CASE I # {}
  <2> DEFINE k == Mqtt!outbox_dequeue(p)
  <2>1. k \in I /\ \A y \in I : k <= y
    BY <1>1, <1>3, <1>4
  <2> HIDE DEF k
  <2>2. k \in DOMAIN outbox /\ outbox[k].pending = p
    BY <1>2, <2>1
  <2>3. \A i \in DOMAIN outbox : i < k => outbox[i].pending # p
    BY <1>2, <2>1
  <2> QED
    BY <2>2, <2>3 DEF k
<1> QED
  BY <1>1, <1>4

LEMMA SameCardinality == \A S : Mqtt!Cardinality(S) = Cardinality(S)
  BY DEF Mqtt!Cardinality, Cardinality, Mqtt!IsFiniteSet, IsFiniteSet

\* What stays when the old items are dropped are items of the outbox.
LEMMA ExpiredDropped ==
  ASSUME ClientTypes
  PROVE  Mqtt!outbox_delete_expired \in Seq(Items)
<1> DEFINE Y == Mqtt!Young
           U(k) == Mqtt!YoungUpTo(k)
           N == Len(outbox)
<1>1. N \in Nat /\ DOMAIN outbox = 1..N /\ \A k \in DOMAIN outbox : outbox[k] \in Items
  BY OutboxHolds
<1>2. Y \subseteq 1..N /\ IsFiniteSet(Y) /\ Cardinality(Y) \in Nat
  <2>1. Y \subseteq 1..N
    BY <1>1 DEF Mqtt!Young
  <2>2. IsFiniteSet(1..N)
    BY <1>1, FS_Interval
  <2> QED
    BY <2>1, <2>2, FS_Subset, FS_CardinalityType
<1>3. \A k : U(k) = Cardinality({i \in Y : i <= k})
  BY SameCardinality DEF Mqtt!YoungUpTo
<1> HIDE DEF Y, U, N
<1>4. ASSUME NEW k \in Nat
      PROVE  /\ U(k) \in Nat
             /\ U(k + 1) = IF k + 1 \in Y THEN U(k) + 1 ELSE U(k)
  <2> DEFINE A == {i \in Y : i <= k}
             B == {i \in Y : i <= k + 1}
  <2>1. IsFiniteSet(A) /\ Cardinality(A) \in Nat
    BY <1>2, FS_Subset, FS_CardinalityType
  <2>2. k + 1 \notin A
    OBVIOUS
  <2>3. B = IF k + 1 \in Y THEN A \cup {k + 1} ELSE A
    <3>1. \A i \in Y : i <= k + 1 <=> i <= k \/ i = k + 1
      BY <1>1, <1>2
    <3> QED
      BY <3>1
  <2> HIDE DEF A, B
  <2>4. Cardinality(B) = IF k + 1 \in Y THEN Cardinality(A) + 1 ELSE Cardinality(A)
    BY <2>1, <2>2, <2>3, FS_AddElement
  <2> QED
    BY <1>3, <2>1, <2>4 DEF A, B
<1>5. U(0) = 0 /\ U(N) = Cardinality(Y)
  <2>1. \A i \in Y : ~(i <= 0) /\ i <= N
    BY <1>1, <1>2
  <2>2. {i \in Y : i <= 0} = {} /\ {i \in Y : i <= N} = Y
    BY <2>1
  <2> QED
    BY <1>3, <2>2, FS_EmptySet
<1>6. ASSUME NEW n \in 1..Cardinality(Y)
      PROVE  \E k \in Y : U(k) = n
  <2> DEFINE K == {k \in Nat : U(k) >= n}
  <2>1. N \in K
    BY <1>1, <1>2, <1>5, <1>6
  <2>2. PICK k \in K : \A j \in K : k <= j
    BY <2>1, Least
  <2>3. k # 0 /\ k \in Nat /\ U(k) >= n
    BY <1>2, <1>5, <1>6, <2>2
  <2>4. k - 1 \in Nat /\ (k - 1) + 1 = k /\ ~(k - 1 \in K)
    BY <2>2, <2>3
  <2>5. U(k - 1) \in Nat /\ ~(U(k - 1) >= n)
    BY <1>4, <2>4
  <2>6. U(k) = IF k \in Y THEN U(k - 1) + 1 ELSE U(k - 1)
    BY <1>4, <2>4
  <2> QED
    BY <1>2, <1>6, <2>3, <2>5, <2>6
<1>7. Mqtt!outbox_delete_expired = [n \in 1..Cardinality(Y) |-> outbox[CHOOSE k \in Y : U(k) = n]]
  BY SameCardinality DEF Mqtt!outbox_delete_expired, Y, U
<1>8. \A n \in 1..Cardinality(Y) : outbox[CHOOSE k \in Y : U(k) = n] \in Items
  <2>1. SUFFICES ASSUME NEW n \in 1..Cardinality(Y)
                 PROVE  outbox[CHOOSE k \in Y : U(k) = n] \in Items
    OBVIOUS
  <2>2. (CHOOSE k \in Y : U(k) = n) \in Y
    BY <1>6
  <2> QED
    BY <1>1, <1>2, <2>2
<1> QED
  BY <1>2, <1>7, <1>8, IsASeq

\* No message is lost in a step that adds to what is accounted for, if what
\* leaves the outbox is accounted for.
LEMMA LostNothing ==
  ASSUME Mqtt!NothingLost, app'.next = app.next,
         app.written \subseteq app'.written, app.expired \subseteq app'.expired, app.purged \subseteq app'.purged,
         got \subseteq got',
         \A k \in DOMAIN outbox :
            \/ outbox[k].m \in Mqtt!Held(outbox')
            \/ outbox[k].m \in app'.expired \cup app'.purged
            \/ outbox[k].m \in IF outbox[k].m \in Qos0 THEN app'.written ELSE got'
  PROVE  Mqtt!NothingLost'
<1>1. SUFFICES ASSUME NEW m \in 1..app.next - 1
               PROVE  \/ m \in Mqtt!Held(outbox')
                      \/ m \in app'.expired \cup app'.purged
                      \/ m \in IF m \in Qos0 THEN app'.written ELSE got'
  BY DEF Mqtt!NothingLost, Mqtt!Held
<1>2. \/ \E k \in DOMAIN outbox : m = outbox[k].m
      \/ m \in app.expired \cup app.purged
      \/ m \in IF m \in Qos0 THEN app.written ELSE got
  BY DEF Mqtt!NothingLost, Mqtt!Held
<1>3. CASE \E k \in DOMAIN outbox : m = outbox[k].m
  BY <1>3
<1>4. CASE m \in app.expired \cup app.purged
  BY <1>4
<1>5. CASE m \in IF m \in Qos0 THEN app.written ELSE got
  BY <1>5
<1> QED
  BY <1>2, <1>3, <1>4, <1>5

\* A step that leaves the outbox and the books alone loses nothing.
LEMMA SameBooks ==
  ASSUME Mqtt!NothingLost, UNCHANGED <<outbox, app>>, got \subseteq got'
  PROVE  Mqtt!NothingLost'
<1>1. \A k \in DOMAIN outbox : outbox[k].m \in Mqtt!Held(outbox')
  BY DEF Mqtt!Held
<1> QED
  BY <1>1, LostNothing

LEMMA GotMore ==
  ASSUME NEW g, NEW h, g \subseteq h, NEW q \in Seq(Arrivals(g))
  PROVE  q \in Seq(Arrivals(h))
<1>1. Arrivals(g) \subseteq Arrivals(h)
  BY DEF Arrivals
<1>2. Len(q) \in Nat /\ q \in [1..Len(q) -> Arrivals(g)]
  BY LenProperties, ElementOfSeq
<1>3. q \in [1..Len(q) -> Arrivals(h)]
  BY <1>1, <1>2
<1> QED
  BY <1>2, <1>3, FunctionIsSeq

\* What was taken and is not staged any more leaves the stage as it was.
LEMMA EmptyStage ==
  ASSUME service' = <<>>
  PROVE  StageInv' /\ service' \in Seq(Frames)
<1>1. DOMAIN service' = {}
  BY EmptySeq
<1> QED
  BY <1>1, EmptySeq DEF StageInv

LEMMA SameStage ==
  ASSUME StageInv, UNCHANGED <<service, outbox>>
  PROVE  StageInv'
  BY DEF StageInv, IsFirst, Publishes

\* Frames that are some of those there were, each at most once.
LEMMA FewerStaged ==
  ASSUME StageInv, outbox' = outbox, NEW F \in [DOMAIN service' -> DOMAIN service],
         \A k \in DOMAIN service' : service'[k].kind = service[F[k]].kind /\ service'[k].m = service[F[k]].m,
         \A j, k \in DOMAIN service' : F[j] = F[k] => j = k
  PROVE  StageInv'
<1>1. SUFFICES ASSUME NEW k \in DOMAIN service', service'[k].kind = "PUBLISH"
               PROVE  /\ \A j \in DOMAIN service' : service'[j].kind = "PUBLISH" => j = k
                      /\ service'[k].m \in Qos0 => IsFirst(service'[k].m)
  BY DEF StageInv, Publishes, IsFirst
<1>2. /\ \A j \in DOMAIN service : Publishes(j) => j = F[k]
      /\ service[F[k]].m \in Qos0 => IsFirst(service[F[k]].m)
  BY <1>1 DEF StageInv, Publishes
<1>3. \A j \in DOMAIN service' : service'[j].kind = "PUBLISH" => F[j] = F[k]
  BY <1>2 DEF Publishes
<1> QED
  BY <1>2, <1>3

\* A frame at the end, if it is not of the outbox.
LEMMA MoreStaged ==
  ASSUME StageInv, service \in Seq(Frames), outbox' = outbox, NEW f \in Frames, f.kind # "PUBLISH",
         service' = Append(service, f)
  PROVE  StageInv' /\ service' \in Seq(Frames)
<1>1. /\ Len(service) \in Nat /\ DOMAIN service = 1..Len(service)
      /\ service' \in Seq(Frames) /\ DOMAIN service' = 1..(Len(service) + 1)
      /\ service'[Len(service) + 1] = f /\ \A k \in 1..Len(service) : service'[k] = service[k]
  BY AppendProperties, LenProperties
<1>2. SUFFICES ASSUME NEW k \in DOMAIN service', service'[k].kind = "PUBLISH"
               PROVE  /\ \A j \in DOMAIN service' : service'[j].kind = "PUBLISH" => j = k
                      /\ service'[k].m \in Qos0 => IsFirst(service'[k].m)
  BY <1>1 DEF StageInv, Publishes, IsFirst
<1>3. \A j \in DOMAIN service' : service'[j].kind = "PUBLISH" => j \in DOMAIN service /\ service'[j] = service[j]
  BY <1>1
<1>4. /\ \A j \in DOMAIN service : Publishes(j) => j = k
      /\ service[k].m \in Qos0 => IsFirst(service[k].m)
  BY <1>2, <1>3 DEF StageInv, Publishes
<1> QED
  BY <1>2, <1>3, <1>4 DEF IsFirst, Publishes

\* esp_mqtt_abort_connection: everything under way is dropped, and the broker
\* has at most more than before.
LEMMA AbortStep ==
  ASSUME ClientInv, Mqtt!Abort, UNCHANGED <<outbox, app>>
  PROVE  ClientInv'
<1>1. service' = <<>> /\ inb' = <<>> /\ up' = <<>> /\ got \subseteq got'
  BY DEF Mqtt!Abort
<1>2. StageInv' /\ service' \in Seq(Frames) /\ inb' \in Seq(Arrivals(got')) /\ up' \in Seq(Sends)
  BY <1>1, EmptyStage, EmptySeq
<1>3. Mqtt!NothingLost'
  BY <1>1, SameBooks DEF ClientInv
<1> QED
  BY <1>2, <1>3 DEF ClientInv, ClientTypes

\* A step that touches none of it.
LEMMA SameClient ==
  ASSUME ClientInv, UNCHANGED <<service, outbox, inb, up, got, app>>
  PROVE  ClientInv'
<1>1. StageInv' /\ Mqtt!NothingLost'
  BY SameStage, SameBooks DEF ClientInv
<1> QED
  BY <1>1 DEF ClientInv, ClientTypes

\* Begin: a slice drops what has expired, unless a frame of it is staged.
LEMMA BeginStep ==
  ASSUME ClientInv, Mqtt!Begin
  PROVE  ClientInv'
<1>1. /\ UNCHANGED <<service, inb, up, got>>
      /\ outbox' = IF Mqtt!Staged THEN outbox ELSE Mqtt!outbox_delete_expired
      /\ app' = [app EXCEPT !.expired = @ \cup (Mqtt!Held(outbox) \ Mqtt!Held(outbox'))]
  BY DEF Mqtt!Begin, Mqtt!DeleteExpired, Mqtt!Link
<1>2. app \in [next : Nat, written : SUBSET Nat, expired : SUBSET Nat, purged : SUBSET Nat, conns : Nat]
  BY DEF ClientInv, ClientTypes
<1>3. Mqtt!Held(outbox) \subseteq Nat
  BY OutboxHolds DEF Mqtt!Held, ClientInv
<1>4. /\ app'.next = app.next /\ app'.written = app.written /\ app'.purged = app.purged /\ app'.conns = app.conns
      /\ app'.expired = app.expired \cup (Mqtt!Held(outbox) \ Mqtt!Held(outbox'))
      /\ app' \in [next : Nat, written : SUBSET Nat, expired : SUBSET Nat, purged : SUBSET Nat, conns : Nat]
  BY <1>1, <1>2, <1>3
<1>5. outbox' \in Seq(Items)
  BY <1>1, ExpiredDropped DEF ClientInv, ClientTypes
<1>6. StageInv'
  <2>1. CASE Mqtt!Staged
    BY <1>1, <2>1, SameStage DEF ClientInv
  <2>2. CASE ~Mqtt!Staged
    BY <1>1, <2>2 DEF Mqtt!Staged, Mqtt!FromOutbox, StageInv, Publishes
  <2> QED
    BY <2>1, <2>2
<1>7. \A k \in DOMAIN outbox : outbox[k].m \in Mqtt!Held(outbox') \/ outbox[k].m \in app'.expired \cup app'.purged
  <2>1. \A k \in DOMAIN outbox : outbox[k].m \in Mqtt!Held(outbox)
    BY DEF Mqtt!Held
  <2> QED
    BY <1>4, <2>1
<1>8. Mqtt!NothingLost'
  BY <1>1, <1>4, <1>7, LostNothing DEF ClientInv
<1> QED
  BY <1>1, <1>4, <1>5, <1>6, <1>8 DEF ClientInv, ClientTypes

LEMMA StartConnectStep ==
  ASSUME ClientInv, Mqtt!StartConnect
  PROVE  ClientInv'
<1>1. /\ service' = <<>> /\ UNCHANGED <<outbox, inb, up, got>>
      /\ app' = [app EXCEPT !.conns = @ + 1]
  BY DEF Mqtt!StartConnect, Mqtt!Link
<1>2. app \in [next : Nat, written : SUBSET Nat, expired : SUBSET Nat, purged : SUBSET Nat, conns : Nat]
  BY DEF ClientInv, ClientTypes
<1>3. /\ app'.next = app.next /\ app'.written = app.written /\ app'.purged = app.purged /\ app'.expired = app.expired
      /\ app' \in [next : Nat, written : SUBSET Nat, expired : SUBSET Nat, purged : SUBSET Nat, conns : Nat]
  BY <1>1, <1>2
<1>4. \A k \in DOMAIN outbox : outbox[k].m \in Mqtt!Held(outbox')
  BY <1>1 DEF Mqtt!Held
<1>5. Mqtt!NothingLost'
  BY <1>1, <1>3, <1>4, LostNothing DEF ClientInv
<1> QED
  BY <1>1, <1>3, <1>5, EmptyStage DEF ClientInv, ClientTypes

\* InitFails: the task ends, and its outbox is purged.
LEMMA InitFailsStep ==
  ASSUME ClientInv, Mqtt!InitFails
  PROVE  ClientInv'
<1>1. /\ service' = <<>> /\ outbox' = <<>> /\ UNCHANGED <<inb, up, got>>
      /\ app' = [app EXCEPT !.purged = @ \cup Mqtt!Held(outbox)]
  BY DEF Mqtt!InitFails, Mqtt!Link
<1>2. app \in [next : Nat, written : SUBSET Nat, expired : SUBSET Nat, purged : SUBSET Nat, conns : Nat]
  BY DEF ClientInv, ClientTypes
<1>3. Mqtt!Held(outbox) \subseteq Nat
  BY OutboxHolds DEF Mqtt!Held, ClientInv
<1>4. /\ app'.next = app.next /\ app'.written = app.written /\ app'.expired = app.expired
      /\ app'.purged = app.purged \cup Mqtt!Held(outbox)
      /\ app' \in [next : Nat, written : SUBSET Nat, expired : SUBSET Nat, purged : SUBSET Nat, conns : Nat]
  BY <1>1, <1>2, <1>3
<1>5. \A k \in DOMAIN outbox : outbox[k].m \in app'.expired \cup app'.purged
  <2>1. \A k \in DOMAIN outbox : outbox[k].m \in Mqtt!Held(outbox)
    BY DEF Mqtt!Held
  <2> QED
    BY <1>4, <2>1
<1>6. Mqtt!NothingLost'
  BY <1>1, <1>4, <1>5, LostNothing DEF ClientInv
<1>7. outbox' \in Seq(Items)
  BY <1>1, EmptySeq
<1> QED
  BY <1>1, <1>4, <1>6, <1>7, EmptyStage DEF ClientInv, ClientTypes

\* The frame at the head of the stage.
LEMMA HeadFrame ==
  ASSUME ClientInv, service # <<>>
  PROVE  /\ Head(service) \in Frames /\ Head(service) = service[1] /\ 1 \in DOMAIN service
         /\ Len(service) \in Nat /\ DOMAIN service = 1..Len(service)
         /\ Tail(service) \in Seq(Frames) /\ DOMAIN Tail(service) = 1..(Len(service) - 1)
         /\ \A k \in 1..(Len(service) - 1) : Tail(service)[k] = service[k + 1]
<1>1. service \in Seq(Frames)
  BY DEF ClientInv, ClientTypes
<1>2. Len(service) \in Nat /\ DOMAIN service = 1..Len(service) /\ Len(service) # 0
  BY <1>1, LenProperties, EmptySeq
<1> QED
  BY <1>1, <1>2, HeadTailProperties, ElementOfSeq, LenProperties

\* A frame that is out in full.
LEMMA TailStaged ==
  ASSUME ClientInv, service # <<>>, service' = Tail(service), outbox' = outbox
  PROVE  StageInv' /\ service' \in Seq(Frames)
<1> DEFINE F == [k \in DOMAIN service' |-> k + 1]
<1>1. /\ Len(service) \in Nat /\ DOMAIN service = 1..Len(service)
      /\ service' \in Seq(Frames) /\ DOMAIN service' = 1..(Len(service) - 1)
      /\ \A k \in 1..(Len(service) - 1) : service'[k] = service[k + 1]
  BY HeadFrame
<1>2. F \in [DOMAIN service' -> DOMAIN service]
  BY <1>1
<1>3. \A k \in DOMAIN service' : service'[k].kind = service[F[k]].kind /\ service'[k].m = service[F[k]].m
  BY <1>1
<1>4. \A j, k \in DOMAIN service' : F[j] = F[k] => j = k
  BY <1>1
<1> HIDE DEF F
<1> QED
  BY <1>1, <1>2, <1>3, <1>4, FewerStaged DEF ClientInv

\* After the staged frame of the outbox there is no other: whatever happens to
\* the outbox then, the stage is right.
LEMMA LastStaged ==
  ASSUME ClientInv, service # <<>>, Head(service).kind = "PUBLISH", service' = Tail(service)
  PROVE  StageInv' /\ service' \in Seq(Frames)
<1>1. /\ Len(service) \in Nat /\ DOMAIN service = 1..Len(service) /\ 1 \in DOMAIN service
      /\ Head(service) = service[1]
      /\ service' \in Seq(Frames) /\ DOMAIN service' = 1..(Len(service) - 1)
      /\ \A k \in 1..(Len(service) - 1) : service'[k] = service[k + 1]
  BY HeadFrame
<1>2. \A j \in DOMAIN service : service[j].kind = "PUBLISH" => j = 1
  BY <1>1 DEF ClientInv, StageInv, Publishes
<1>3. \A k \in DOMAIN service' : service'[k].kind # "PUBLISH"
  BY <1>1, <1>2
<1> QED
  BY <1>1, <1>3 DEF StageInv, Publishes

\* An item of QoS 1 that was sent waits for its acknowledgement.
LEMMA SentItem ==
  ASSUME ClientTypes, NEW k \in DOMAIN outbox, outbox[k].m \notin Qos0
  PROVE  /\ Mqtt!Sent(k) \in Seq(Items)
         /\ \A i \in DOMAIN outbox : outbox[i].m \in Mqtt!Held(Mqtt!Sent(k))
<1>1. /\ Len(outbox) \in Nat /\ DOMAIN outbox = 1..Len(outbox)
      /\ \A i \in DOMAIN outbox : outbox[i] \in Items
  BY OutboxHolds
<1> DEFINE it == [outbox[k] EXCEPT !.age = 0, !.pending = "TRANSMITTED"]
<1>2. it \in Items /\ it.m = outbox[k].m
  BY <1>1 DEF Items
<1>3. Mqtt!Sent(k) = [i \in DOMAIN outbox |-> IF i = k THEN it ELSE outbox[i]]
  <2>1. outbox = [i \in DOMAIN outbox |-> outbox[i]]
    BY <1>1, ElementOfSeq DEF ClientTypes
  <2> QED
    BY <2>1 DEF Mqtt!Sent
<1> HIDE DEF it
<1>4. Mqtt!Sent(k) \in [1..Len(outbox) -> Items]
  BY <1>1, <1>2, <1>3
<1>5. \A i \in DOMAIN outbox : Mqtt!Sent(k)[i].m = outbox[i].m
  BY <1>2, <1>3
<1>6. DOMAIN Mqtt!Sent(k) = DOMAIN outbox
  BY <1>3
<1> QED
  BY <1>1, <1>4, <1>5, <1>6, FunctionIsSeq DEF Mqtt!Held

\* An item is taken out; the others stay.
LEMMA ItemGone ==
  ASSUME ClientTypes, NEW k \in DOMAIN outbox
  PROVE  /\ Mqtt!outbox_delete_item(k) \in Seq(Items)
         /\ \A i \in DOMAIN outbox : i = k \/ outbox[i].m \in Mqtt!Held(Mqtt!outbox_delete_item(k))
<1> DEFINE R == Mqtt!outbox_delete_item(k)
<1>1. /\ Len(outbox) \in Nat /\ DOMAIN outbox = 1..Len(outbox) /\ outbox \in Seq(Items)
  BY OutboxHolds DEF ClientTypes
<1>2. /\ R \in Seq(Items) /\ DOMAIN R = 1..Len(outbox) - 1
      /\ \A i \in 1..Len(outbox) - 1 : R[i] = IF i < k THEN outbox[i] ELSE outbox[i + 1]
  BY <1>1, Removed DEF Mqtt!outbox_delete_item
<1> HIDE DEF R
<1>3. ASSUME NEW i \in DOMAIN outbox, i # k
      PROVE  \E j \in DOMAIN R : R[j] = outbox[i]
  <2>1. CASE i < k
    <3>1. i \in DOMAIN R /\ R[i] = outbox[i]
      BY <1>1, <1>2, <2>1
    <3> QED
      BY <3>1
  <2>2. CASE ~(i < k)
    <3>1. i - 1 \in 1..Len(outbox) - 1 /\ ~(i - 1 < k) /\ (i - 1) + 1 = i
      BY <1>1, <1>3, <2>2
    <3>2. R[i - 1] = outbox[i]
      BY <1>2, <3>1
    <3> QED
      BY <1>2, <3>1, <3>2
  <2> QED
    BY <2>1, <2>2
<1> QED
  BY <1>2, <1>3 DEF Mqtt!Held, R

\* mqtt_bounded_tx_step, when a frame is out in full: of QoS 0 the item that
\* leaves the outbox is the one that was written, though all of them have the
\* same identifier.
LEMMA CompletedStep ==
  ASSUME ClientInv, service # <<>>, Mqtt!Completed(Head(service)), UNCHANGED <<inb, got>>
  PROVE  ClientInv'
<1> DEFINE f == Head(service)
           k == Mqtt!outbox_get(Mqtt!PacketId(f.m))
<1>1. /\ service' = Tail(service)
      /\ outbox' = IF f.kind # "PUBLISH" \/ k = 0 THEN outbox
                   ELSE IF f.m \in Qos0 THEN Mqtt!outbox_delete_item(k) ELSE Mqtt!Sent(k)
      /\ up' = IF f.kind = "PUBACK" THEN up ELSE Append(up, [kind |-> f.kind, m |-> f.m])
      /\ app' = IF f.kind = "PUBLISH" THEN [app EXCEPT !.written = @ \cup {f.m}] ELSE app
  BY DEF Mqtt!Completed, Mqtt!FromOutbox
<1>2. f \in Frames /\ f = service[1] /\ 1 \in DOMAIN service
  BY HeadFrame
<1>3. /\ f.kind \in Kinds /\ f.m \in Nat /\ (f.kind = "PUBLISH" => f.m \in Messages)
  BY <1>2 DEF Frames
<1>4. up' \in Seq(Sends)
  <2>1. [kind |-> f.kind, m |-> f.m] \in Sends
    BY <1>3 DEF Sends
  <2> QED
    BY <1>1, <2>1, AppendProperties DEF ClientInv, ClientTypes
<1>5. CASE f.kind # "PUBLISH"
  <2>1. UNCHANGED <<outbox, app>>
    BY <1>1, <1>5
  <2>2. StageInv' /\ service' \in Seq(Frames)
    BY <1>1, <2>1, TailStaged
  <2>3. Mqtt!NothingLost'
    BY <2>1, SameBooks DEF ClientInv
  <2> QED
    BY <1>4, <2>1, <2>2, <2>3 DEF ClientInv, ClientTypes
<1>6. CASE f.kind = "PUBLISH"
  <2>1. StageInv' /\ service' \in Seq(Frames)
    BY <1>1, <1>6, LastStaged
  <2>2. app \in [next : Nat, written : SUBSET Nat, expired : SUBSET Nat, purged : SUBSET Nat, conns : Nat]
    BY DEF ClientInv, ClientTypes
  <2>3. /\ app'.next = app.next /\ app'.expired = app.expired /\ app'.purged = app.purged
        /\ app'.written = app.written \cup {f.m}
        /\ app' \in [next : Nat, written : SUBSET Nat, expired : SUBSET Nat, purged : SUBSET Nat, conns : Nat]
    BY <1>1, <1>3, <1>6, <2>2
  <2>4. \/ k = 0 /\ \A i \in DOMAIN outbox : outbox[i].id # Mqtt!PacketId(f.m)
        \/ /\ k \in DOMAIN outbox /\ outbox[k].id = Mqtt!PacketId(f.m)
           /\ \A i \in DOMAIN outbox : i < k => outbox[i].id # Mqtt!PacketId(f.m)
    BY FirstWithId DEF ClientInv
  <2> HIDE DEF f, k
  <2>5. /\ outbox' \in Seq(Items)
        /\ \A i \in DOMAIN outbox :
             outbox[i].m \in Mqtt!Held(outbox') \/ (outbox[i].m \in Qos0 /\ outbox[i].m \in app'.written)
    <3>1. CASE k = 0
      BY <1>1, <3>1 DEF ClientInv, ClientTypes, Mqtt!Held
    <3>2. CASE k # 0 /\ f.m \in Qos0
      <4>1. outbox' = Mqtt!outbox_delete_item(k) /\ k \in DOMAIN outbox
        BY <1>1, <1>6, <2>4, <3>2
      <4>2. outbox[k].m = f.m
        <5>1. PICK j \in DOMAIN outbox : /\ outbox[j].m = f.m /\ outbox[j].id = 0
                                         /\ \A i \in DOMAIN outbox : i < j => outbox[i].id # 0
          BY <1>2, <1>6, <3>2 DEF ClientInv, StageInv, Publishes, IsFirst
        <5>2. Mqtt!PacketId(f.m) = 0
          BY <3>2 DEF Mqtt!PacketId
        <5>3. ~(j < k) /\ ~(k < j) /\ j \in Nat /\ k \in Nat
          BY <2>4, <3>2, <4>1, <5>1, <5>2, OutboxHolds DEF ClientInv
        <5> QED
          BY <5>1, <5>3
      <4> QED
        BY <2>3, <3>2, <4>1, <4>2, ItemGone DEF ClientInv
    <3>3. CASE k # 0 /\ f.m \notin Qos0
      <4>1. outbox' = Mqtt!Sent(k) /\ k \in DOMAIN outbox /\ outbox[k].id = f.m /\ f.m # 0
        BY <1>1, <1>3, <1>6, <2>4, <3>3, ClientConstants DEF Mqtt!MqttClientConstants, Mqtt!PacketId
      <4>2. outbox[k].m \notin Qos0
        BY <4>1, OutboxHolds DEF ClientInv
      <4> QED
        BY <4>1, <4>2, SentItem DEF ClientInv
    <3> QED
      BY <3>1, <3>2, <3>3
  <2>6. Mqtt!NothingLost'
    BY <2>3, <2>5, LostNothing DEF ClientInv
  <2> QED
    BY <1>4, <2>1, <2>3, <2>5, <2>6 DEF ClientInv, ClientTypes
<1> QED
  BY <1>5, <1>6

\* One write of at most one chunk.
LEMMA WriteStep ==
  ASSUME ClientInv, NEW w, Mqtt!TxHead(w)
  PROVE  ClientInv'
<1>1. service # <<>>
  BY DEF Mqtt!TxHead
<1>2. CASE UNCHANGED <<service, outbox, app, inb, up, got>>
  BY <1>2, SameClient
<1>3. CASE service' = [service EXCEPT ![1].len = 1] /\ UNCHANGED <<outbox, app, inb, up, got>>
  <2>1. /\ service \in Seq(Frames) /\ Len(service) \in Nat /\ DOMAIN service = 1..Len(service) /\ 1 \in DOMAIN service
        /\ service[1] \in Frames
    BY <1>1, HeadFrame DEF ClientInv, ClientTypes
  <2> DEFINE g == [service[1] EXCEPT !.len = 1]
             F == [k \in DOMAIN service' |-> k]
  <2>2. g \in Frames /\ g.kind = service[1].kind /\ g.m = service[1].m
    BY <2>1 DEF Frames
  <2>3. service = [k \in DOMAIN service |-> service[k]] /\ \A k \in DOMAIN service : service[k] \in Frames
    BY <2>1, ElementOfSeq
  <2>4. service' = [k \in DOMAIN service |-> IF k = 1 THEN g ELSE service[k]]
    BY <1>3, <2>3
  <2> HIDE DEF g
  <2>5. service' \in Seq(Frames)
    BY <2>1, <2>2, <2>3, <2>4, FunctionIsSeq
  <2>6. /\ DOMAIN service' = DOMAIN service
        /\ \A k \in DOMAIN service' : service'[k].kind = service[k].kind /\ service'[k].m = service[k].m
    BY <2>2, <2>4
  <2>7. StageInv'
    <3>1. F \in [DOMAIN service' -> DOMAIN service] /\ \A k \in DOMAIN service' : F[k] = k
      BY <2>6
    <3> HIDE DEF F
    <3> QED
      BY <1>3, <2>6, <3>1, FewerStaged DEF ClientInv
  <2> QED
    BY <1>3, <2>5, <2>7, SameBooks DEF ClientInv, ClientTypes
<1>4. CASE Mqtt!Completed(Head(service)) /\ UNCHANGED <<inb, got>>
  BY <1>1, <1>4, CompletedStep
<1>5. CASE Mqtt!Abort /\ UNCHANGED <<outbox, app>>
  BY <1>5, AbortStep
<1> QED
  BY <1>2, <1>3, <1>4, <1>5 DEF Mqtt!TxHead, Mqtt!Waits, Mqtt!Link

\* What arrived first.
LEMMA HeadArrival ==
  ASSUME ClientInv, inb # <<>>
  PROVE  /\ Head(inb) \in Arrivals(got) /\ Tail(inb) \in Seq(Arrivals(got))
<1>1. inb \in Seq(Arrivals(got))
  BY DEF ClientInv, ClientTypes
<1> QED
  BY <1>1, HeadTailProperties

LEMMA DialStep ==
  ASSUME ClientInv, Mqtt!Dial
  PROVE  ClientInv'
<1>1. CASE UNCHANGED <<service, inb, up, got, outbox, app>>
  BY <1>1, SameClient
<1>2. CASE Mqtt!Abort /\ UNCHANGED <<outbox, app>>
  BY <1>2, AbortStep
<1>3. CASE service' = <<Mqtt!Frame("CONNECT", 0, 1)>> /\ UNCHANGED <<inb, up, got, outbox, app>>
  <2> DEFINE f == Mqtt!Frame("CONNECT", 0, 1)
  <2>1. f \in Frames /\ f.kind # "PUBLISH"
    BY ClientConstants DEF Mqtt!Frame, Frames, Kinds, Mqtt!MqttClientConstants
  <2> HIDE DEF f
  <2>2. service' \in Seq(Frames) /\ DOMAIN service' = {1} /\ service'[1] = f
    BY <1>3, <2>1 DEF f
  <2>3. StageInv'
    BY <2>1, <2>2 DEF StageInv, Publishes
  <2> QED
    BY <1>3, <2>2, <2>3, SameBooks DEF ClientInv, ClientTypes
<1> QED
  BY <1>1, <1>2, <1>3 DEF Mqtt!Dial, Mqtt!Waits, Mqtt!Link

LEMMA SendConnectStep ==
  ASSUME ClientInv, Mqtt!SendConnect
  PROVE  ClientInv'
<1>1. CASE \E w \in Mqtt!WriteOutcomes : Mqtt!TxHead(w)
  BY <1>1, WriteStep
<1>2. CASE UNCHANGED <<service, inb, up, got, outbox, app>>
  BY <1>2, SameClient
<1> QED
  BY <1>1, <1>2 DEF Mqtt!SendConnect, Mqtt!Link

LEMMA ConnAckStep ==
  ASSUME ClientInv, Mqtt!ConnAck
  PROVE  ClientInv'
<1>1. CASE UNCHANGED <<service, inb, up, got, outbox, app>>
  BY <1>1, SameClient
<1>2. CASE Mqtt!Abort /\ UNCHANGED <<outbox, app>>
  BY <1>2, AbortStep
<1>3. CASE inb # <<>> /\ inb' = Tail(inb) /\ UNCHANGED <<service, up, got, outbox, app>>
  <2>1. inb' \in Seq(Arrivals(got'))
    BY <1>3, HeadArrival
  <2> QED
    BY <1>3, <2>1, SameStage, SameBooks DEF ClientInv, ClientTypes
<1> QED
  BY <1>1, <1>2, <1>3 DEF Mqtt!ConnAck, Mqtt!Waits, Mqtt!Link

\* An acknowledgement takes an item of QoS 1 out of the outbox: those of QoS 0
\* stay as they are, the first of them too.
LEMMA AcknowledgedItem ==
  ASSUME ClientInv, NEW k \in DOMAIN outbox, outbox[k].id # 0, outbox' = Mqtt!outbox_delete_item(k), NEW m, IsFirst(m)
  PROVE  IsFirst(m)'
<1>1. /\ Len(outbox) \in Nat /\ DOMAIN outbox = 1..Len(outbox) /\ outbox \in Seq(Items)
  BY OutboxHolds DEF ClientInv, ClientTypes
<1>2. /\ DOMAIN outbox' = 1..Len(outbox) - 1
      /\ \A i \in 1..Len(outbox) - 1 : outbox'[i] = IF i < k THEN outbox[i] ELSE outbox[i + 1]
  BY <1>1, Removed DEF Mqtt!outbox_delete_item
<1>3. PICK j \in DOMAIN outbox : /\ outbox[j].m = m /\ outbox[j].id = 0
                                 /\ \A i \in DOMAIN outbox : i < j => outbox[i].id # 0
  BY DEF IsFirst
<1>4. j # k
  BY <1>3
<1>5. CASE j < k
  <2>1. j \in DOMAIN outbox' /\ outbox'[j] = outbox[j]
    BY <1>1, <1>2, <1>5
  <2>2. \A i \in DOMAIN outbox' : i < j => outbox'[i] = outbox[i] /\ i \in DOMAIN outbox
    BY <1>1, <1>2, <1>5
  <2> QED
    BY <1>3, <2>1, <2>2 DEF IsFirst
<1>6. CASE j > k
  <2> DEFINE l == j - 1
  <2>1. l \in DOMAIN outbox' /\ ~(l < k) /\ l + 1 = j
    BY <1>1, <1>2, <1>6
  <2>2. outbox'[l] = outbox[j]
    BY <1>2, <2>1
  <2>3. ASSUME NEW i \in DOMAIN outbox', i < l
        PROVE  outbox'[i].id # 0
    <3>1. i \in DOMAIN outbox /\ i + 1 \in DOMAIN outbox /\ i < j /\ i + 1 < j
      BY <1>1, <1>2, <2>3
    <3> QED
      BY <1>2, <1>3, <3>1
  <2> HIDE DEF l
  <2> QED
    BY <1>3, <2>1, <2>2, <2>3 DEF IsFirst
<1> QED
  BY <1>1, <1>4, <1>5, <1>6

\* mqtt_process_receive: an acknowledgement is of a message that the broker has
\* and its identifier is that message's alone.
LEMMA ReceiveStep ==
  ASSUME ClientInv, Mqtt!Receive
  PROVE  ClientInv'
<1> DEFINE p == Head(inb)
           k == Mqtt!outbox_get(p.m)
<1>1. /\ inb # <<>> /\ inb' = Tail(inb) /\ UNCHANGED <<up, got, app>>
      /\ service' = Mqtt!Delivered(p) /\ outbox' = Mqtt!Acknowledged(p)
  BY DEF Mqtt!Receive, Mqtt!MayRead
<1>2. p \in Arrivals(got) /\ inb' \in Seq(Arrivals(got'))
  BY <1>1, HeadArrival
<1>3. p.kind = "PUBACK" => p.m \in got /\ p.m # 0
  BY <1>2 DEF Arrivals
<1>4. \/ k = 0
      \/ k \in DOMAIN outbox /\ outbox[k].id = p.m
  BY FirstWithId DEF ClientInv
<1> HIDE DEF p
<1>5. CASE p.kind = "PUBACK" /\ k # 0
  <2>1. service' = service /\ outbox' = Mqtt!outbox_delete_item(k)
    BY <1>1, <1>5 DEF Mqtt!Delivered, Mqtt!Acknowledged
  <2>2. k \in DOMAIN outbox /\ outbox[k].id # 0 /\ outbox[k].m = p.m /\ outbox[k].m \notin Qos0
    BY <1>3, <1>4, <1>5, OutboxHolds DEF ClientInv
  <2> HIDE DEF k
  <2>3. outbox' \in Seq(Items) /\ \A i \in DOMAIN outbox : i = k \/ outbox[i].m \in Mqtt!Held(outbox')
    BY <2>1, <2>2, ItemGone DEF ClientInv
  <2>4. Mqtt!NothingLost'
    <3>1. \A i \in DOMAIN outbox :
             \/ outbox[i].m \in Mqtt!Held(outbox')
             \/ outbox[i].m \in IF outbox[i].m \in Qos0 THEN app'.written ELSE got'
      BY <1>1, <1>3, <1>5, <2>2, <2>3
    <3> QED
      BY <1>1, <3>1, LostNothing DEF ClientInv
  <2>5. StageInv'
    <3>1. \A m : IsFirst(m) => IsFirst(m)'
      BY <2>1, <2>2, AcknowledgedItem
    <3> QED
      BY <2>1, <3>1 DEF ClientInv, StageInv, Publishes
  <2> QED
    BY <1>1, <1>2, <2>1, <2>3, <2>4, <2>5 DEF ClientInv, ClientTypes
<1>6. CASE ~(p.kind = "PUBACK" /\ k # 0)
  <2>1. outbox' = outbox
    BY <1>1, <1>6 DEF Mqtt!Acknowledged
  <2>2. StageInv' /\ service' \in Seq(Frames)
    <3> DEFINE f == Mqtt!Frame("PUBACK", 0, 1)
    <3>1. f \in Frames /\ f.kind # "PUBLISH"
      BY ClientConstants DEF Mqtt!Frame, Frames, Kinds, Mqtt!MqttClientConstants
    <3>2. service' = Append(service, f) \/ service' = service
      BY <1>1 DEF Mqtt!Delivered, Mqtt!mqtt_service_push
    <3> HIDE DEF f
    <3> QED
      BY <2>1, <3>1, <3>2, MoreStaged, SameStage DEF ClientInv, ClientTypes
  <2>3. Mqtt!NothingLost'
    BY <1>1, <2>1, SameBooks DEF ClientInv
  <2> QED
    BY <1>1, <1>2, <2>1, <2>2, <2>3 DEF ClientInv, ClientTypes
<1> QED
  BY <1>5, <1>6

LEMMA KeepaliveStep ==
  ASSUME ClientInv, Mqtt!Keepalive
  PROVE  ClientInv'
<1> DEFINE f == Mqtt!Frame("PINGREQ", 0, 1)
<1>1. /\ UNCHANGED <<inb, up, got, outbox, app>>
      /\ service' = Append(service, f) \/ service' = service
  BY DEF Mqtt!Keepalive, Mqtt!mqtt_service_push, Mqtt!Link
<1>2. f \in Frames /\ f.kind # "PUBLISH"
  BY ClientConstants DEF Mqtt!Frame, Frames, Kinds, Mqtt!MqttClientConstants
<1> HIDE DEF f
<1>3. StageInv' /\ service' \in Seq(Frames)
  BY <1>1, <1>2, MoreStaged, SameStage DEF ClientInv, ClientTypes
<1> QED
  BY <1>1, <1>3, SameBooks DEF ClientInv, ClientTypes

\* mqtt_bounded_schedule_outbox: the first item that waits is staged, so one of
\* QoS 0 is the first of those.
LEMMA ScheduleStep ==
  ASSUME ClientInv, Mqtt!ScheduleOutbox
  PROVE  ClientInv'
<1> DEFINE n == Mqtt!NextItem
           f == Mqtt!Frame("PUBLISH", outbox[n].m, Mqtt!Length(outbox[n].m))
<1>1. /\ UNCHANGED <<inb, up, got, outbox, app>>
      /\ service' = service \/ (service' = Append(service, f) /\ ~Mqtt!Staged /\ n # 0)
  BY DEF Mqtt!ScheduleOutbox, Mqtt!mqtt_service_push, Mqtt!Link
<1>2. CASE service' = service
  BY <1>1, <1>2, SameClient
<1>3. CASE service' = Append(service, f) /\ ~Mqtt!Staged /\ n # 0
  <2> DEFINE q == Mqtt!outbox_dequeue("QUEUED")
             t == Mqtt!outbox_dequeue("TRANSMITTED")
  <2>1. \/ q = 0
        \/ /\ q \in DOMAIN outbox /\ outbox[q].pending = "QUEUED"
           /\ \A i \in DOMAIN outbox : i < q => outbox[i].pending # "QUEUED"
    BY FirstPending DEF ClientInv
  <2>2. t = 0 \/ (t \in DOMAIN outbox /\ outbox[t].pending = "TRANSMITTED")
    BY FirstPending DEF ClientInv
  <2>3. (q # 0 /\ n = q) \/ (n = t /\ t # 0)
    BY <1>3 DEF Mqtt!NextItem, Mqtt!Due
  <2> HIDE DEF n, q, t
  <2>4. n \in DOMAIN outbox /\ (outbox[n].m \in Qos0 => IsFirst(outbox[n].m))
    <3>1. n \in DOMAIN outbox
      BY <2>1, <2>2, <2>3
    <3>2. ASSUME outbox[n].m \in Qos0
          PROVE  IsFirst(outbox[n].m)
      <4>1. outbox[n].pending = "QUEUED" /\ outbox[n].id = 0
        BY <3>1, <3>2, OutboxHolds DEF ClientInv
      <4>2. n = q /\ \A i \in DOMAIN outbox : i < n => outbox[i].pending # "QUEUED"
        BY <2>1, <2>2, <2>3, <4>1
      <4>3. \A i \in DOMAIN outbox : i < n => outbox[i].id # 0
        BY <4>2, OutboxHolds DEF ClientInv
      <4> QED
        BY <3>1, <4>1, <4>3 DEF IsFirst
    <3> QED
      BY <3>1, <3>2
  <2>5. f \in Frames /\ f.m = outbox[n].m
    BY <2>4, ClientConstants, OutboxHolds DEF Mqtt!Frame, Mqtt!Length, Frames, Kinds, Mqtt!MqttClientConstants, ClientInv
  <2> HIDE DEF f
  <2>6. /\ Len(service) \in Nat /\ DOMAIN service = 1..Len(service)
        /\ service' \in Seq(Frames) /\ DOMAIN service' = 1..(Len(service) + 1)
        /\ service'[Len(service) + 1] = f /\ \A k \in 1..Len(service) : service'[k] = service[k]
    BY <1>3, <2>5, AppendProperties, LenProperties DEF ClientInv, ClientTypes
  <2>7. \A k \in DOMAIN service : service[k].kind # "PUBLISH"
    BY <1>3 DEF Mqtt!Staged, Mqtt!FromOutbox
  <2>8. \A k \in DOMAIN service' : service'[k].kind = "PUBLISH" => k = Len(service) + 1 /\ service'[k] = f
    BY <2>6, <2>7
  <2>9. StageInv'
    BY <1>1, <2>4, <2>5, <2>8 DEF StageInv, Publishes, IsFirst
  <2> QED
    BY <1>1, <2>6, <2>9, SameBooks DEF ClientInv, ClientTypes
<1> QED
  BY <1>1, <1>2, <1>3

LEMMA TxStep ==
  ASSUME ClientInv, Mqtt!Tx
  PROVE  ClientInv'
<1>1. CASE \E w \in Mqtt!WriteOutcomes : Mqtt!TxHead(w)
  BY <1>1, WriteStep
<1>2. CASE UNCHANGED <<service, inb, up, got, outbox, app>>
  BY <1>2, SameClient
<1>3. CASE Mqtt!Abort /\ UNCHANGED <<outbox, app>>
  BY <1>3, AbortStep
<1> QED
  BY <1>1, <1>2, <1>3 DEF Mqtt!Tx, Mqtt!TxNothing, Mqtt!TxExpired, Mqtt!Waits, Mqtt!Link

\* esp_mqtt_client_enqueue: the next message, at the end.
LEMMA EnqueueStep ==
  ASSUME ClientInv, Mqtt!Enqueue
  PROVE  ClientInv'
<1> DEFINE n == app.next
           it == [m |-> n, id |-> Mqtt!PacketId(n), pending |-> "QUEUED", age |-> 0]
<1>1. /\ n \in Messages /\ UNCHANGED <<service, inb, up, got>>
      /\ app' = [app EXCEPT !.next = @ + 1] /\ outbox' = Append(outbox, it)
  BY DEF Mqtt!Enqueue, Mqtt!Link, Mqtt!outbox_enqueue
<1>2. app \in [next : Nat, written : SUBSET Nat, expired : SUBSET Nat, purged : SUBSET Nat, conns : Nat]
  BY DEF ClientInv, ClientTypes
<1>3. /\ app'.next = n + 1 /\ app'.written = app.written /\ app'.expired = app.expired /\ app'.purged = app.purged
      /\ app' \in [next : Nat, written : SUBSET Nat, expired : SUBSET Nat, purged : SUBSET Nat, conns : Nat]
  BY <1>1, <1>2, SMTT(60)
<1>4. it \in Items /\ it.m = n
  BY <1>1, ClientConstants DEF Items, Mqtt!PacketId, Mqtt!MqttClientConstants
<1> HIDE DEF it
<1>5. /\ Len(outbox) \in Nat /\ DOMAIN outbox = 1..Len(outbox) /\ outbox \in Seq(Items)
  BY OutboxHolds DEF ClientInv, ClientTypes
<1>6. /\ outbox' \in Seq(Items) /\ DOMAIN outbox' = 1..(Len(outbox) + 1) /\ outbox'[Len(outbox) + 1] = it
      /\ \A k \in 1..Len(outbox) : outbox'[k] = outbox[k]
  BY <1>1, <1>4, <1>5, AppendProperties, LenProperties
<1>7. StageInv'
  <2>1. ASSUME NEW m, IsFirst(m)
        PROVE  IsFirst(m)'
    <3>1. PICK j \in DOMAIN outbox : /\ outbox[j].m = m /\ outbox[j].id = 0
                                     /\ \A i \in DOMAIN outbox : i < j => outbox[i].id # 0
      BY <2>1 DEF IsFirst
    <3>2. j \in DOMAIN outbox' /\ outbox'[j] = outbox[j]
      BY <1>5, <1>6
    <3>3. \A i \in DOMAIN outbox' : i < j => i \in DOMAIN outbox /\ outbox'[i] = outbox[i]
      BY <1>5, <1>6
    <3> QED
      BY <3>1, <3>2, <3>3 DEF IsFirst
  <2> QED
    BY <1>1, <2>1 DEF ClientInv, StageInv, Publishes
<1>8. Mqtt!NothingLost'
  <2>1. n \in Mqtt!Held(outbox') /\ Mqtt!Held(outbox) \subseteq Mqtt!Held(outbox')
    <3>1. Len(outbox) + 1 \in DOMAIN outbox' /\ n = outbox'[Len(outbox) + 1].m
      BY <1>4, <1>5, <1>6
    <3>2. \A k \in DOMAIN outbox : k \in DOMAIN outbox' /\ outbox'[k].m = outbox[k].m
      BY <1>5, <1>6
    <3> QED
      BY <3>1, <3>2 DEF Mqtt!Held
  <2>2. SUFFICES ASSUME NEW m \in 1..app'.next - 1
                 PROVE  \/ m \in Mqtt!Held(outbox')
                        \/ m \in app'.expired \cup app'.purged
                        \/ m \in IF m \in Qos0 THEN app'.written ELSE got'
    BY DEF Mqtt!NothingLost, Mqtt!Held
  <2>3. n \in Nat /\ (m = n \/ m \in 1..app.next - 1)
    BY <1>2, <1>3, <2>2
  <2>4. CASE m = n
    BY <2>1, <2>4
  <2>5. CASE m \in 1..app.next - 1
    <3>1. \/ m \in Mqtt!Held(outbox)
          \/ m \in app.expired \cup app.purged
          \/ m \in IF m \in Qos0 THEN app.written ELSE got
      BY <2>5 DEF ClientInv, Mqtt!NothingLost
    <3> QED
      BY <1>1, <1>3, <2>1, <3>1
  <2> QED
    BY <2>3, <2>4, <2>5
<1> QED
  BY <1>1, <1>3, <1>6, <1>7, <1>8 DEF ClientInv, ClientTypes

\* The broker takes a packet and answers it.
LEMMA BrokerStep ==
  ASSUME ClientInv, Mqtt!Broker
  PROVE  ClientInv'
<1> DEFINE f == Head(up)
           a == Mqtt!Answer(f)
<1>1. /\ up # <<>> /\ up' = Tail(up) /\ inb' = inb \o a /\ UNCHANGED <<service, outbox, app>>
      /\ got' = IF f.kind = "PUBLISH" THEN got \cup {f.m} ELSE got
  BY DEF Mqtt!Broker
<1>2. f \in Sends /\ up' \in Seq(Sends)
  BY <1>1, HeadTailProperties DEF ClientInv, ClientTypes
<1>3. f.kind = "PUBLISH" => f.m \in Nat \ {0}
  BY <1>2, ClientConstants DEF Sends, Mqtt!MqttClientConstants
<1>4. a = <<>> \/ \E p \in Arrivals(got') : a = <<p>>
  <2> DEFINE P(k, m) == [kind |-> k, m |-> m, whole |-> TRUE]
  <2>1. P("CONNACK", 0) \in Arrivals(got') /\ P("PINGRESP", 0) \in Arrivals(got')
    BY DEF Arrivals, Kinds
  <2>2. f.kind = "PUBLISH" => P("PUBACK", f.m) \in Arrivals(got')
    BY <1>1, <1>3 DEF Arrivals, Kinds
  <2>3. CASE f.kind = "CONNECT"
    BY <2>1, <2>3 DEF Mqtt!Answer, Mqtt!Packet
  <2>4. CASE f.kind = "PINGREQ"
    BY <2>1, <2>4 DEF Mqtt!Answer, Mqtt!Packet
  <2>5. CASE f.kind = "PUBLISH" /\ f.m \notin Qos0
    BY <2>2, <2>5 DEF Mqtt!Answer, Mqtt!Packet
  <2>6. CASE f.kind # "CONNECT" /\ f.kind # "PINGREQ" /\ ~(f.kind = "PUBLISH" /\ f.m \notin Qos0)
    BY <2>6 DEF Mqtt!Answer
  <2> QED
    BY <2>3, <2>4, <2>5, <2>6
<1> HIDE DEF a, f
<1>5. got \subseteq got'
  BY <1>1
<1>6. inb \in Seq(Arrivals(got')) /\ a \in Seq(Arrivals(got'))
  <2>1. inb \in Seq(Arrivals(got'))
    BY <1>5, GotMore DEF ClientInv, ClientTypes
  <2>2. a \in Seq(Arrivals(got'))
    <3>1. \A S : <<>> \in Seq(S) /\ \A p \in S : <<p>> \in Seq(S)
      BY EmptySeq
    <3> QED
      BY <1>4, <3>1, Zenon
  <2> QED
    BY <2>1, <2>2
<1>7. inb' \in Seq(Arrivals(got'))
  BY <1>1, <1>6, ConcatProperties
<1> QED
  BY <1>1, <1>2, <1>5, <1>7, SameStage, SameBooks DEF ClientInv, ClientTypes

LEMMA DownlinkStep ==
  ASSUME ClientInv, Mqtt!Downlink
  PROVE  ClientInv'
<1>1. /\ UNCHANGED <<service, outbox, up, got, app>>
      /\ \E w \in BOOLEAN : inb' = Append(inb, [kind |-> "PUBLISH", m |-> 0, whole |-> w])
  BY DEF Mqtt!Downlink
<1>2. PICK w \in BOOLEAN : inb' = Append(inb, [kind |-> "PUBLISH", m |-> 0, whole |-> w])
  BY <1>1
<1>3. [kind |-> "PUBLISH", m |-> 0, whole |-> w] \in Arrivals(got)
  BY DEF Arrivals, Kinds
<1>4. inb' \in Seq(Arrivals(got'))
  BY <1>1, <1>2, <1>3, AppendProperties DEF ClientInv, ClientTypes
<1> QED
  BY <1>1, <1>4, SameStage, SameBooks DEF ClientInv, ClientTypes

LEMMA RestStep ==
  ASSUME ClientInv, Mqtt!RestArrives
  PROVE  ClientInv'
<1>1. /\ UNCHANGED <<service, outbox, up, got, app>> /\ inb # <<>>
      /\ inb' = [inb EXCEPT ![Len(inb)].whole = TRUE]
  BY DEF Mqtt!RestArrives
<1> DEFINE n == Len(inb)
           p == [inb[n] EXCEPT !.whole = TRUE]
<1>2. inb \in Seq(Arrivals(got)) /\ n \in Nat \ {0}
  BY <1>1, EmptySeq DEF ClientInv, ClientTypes
<1>3. n \in 1..Len(inb) /\ inb[n] \in Arrivals(got)
  BY <1>2, ElementOfSeq
<1>4. p \in Arrivals(got)
  BY <1>3 DEF Arrivals, Kinds
<1>5. inb' = [inb EXCEPT ![n] = p]
  BY <1>1
<1> HIDE DEF p, n
<1>6. [inb EXCEPT ![n] = p] \in Seq(Arrivals(got))
  <2>1. \A S : \A q \in Seq(S) : \A i \in 1..Len(q) : \A e \in S : [q EXCEPT ![i] = e] \in Seq(S)
    BY ExceptSeq
  <2> QED
    BY <1>2, <1>3, <1>4, <2>1, Zenon
<1>7. inb' \in Seq(Arrivals(got'))
  BY <1>1, <1>5, <1>6
<1> QED
  BY <1>1, <1>7, SameStage, SameBooks DEF ClientInv, ClientTypes

\* A unit of time: deadlines and ages only.
LEMMA TickStep ==
  ASSUME ClientInv, Mqtt!Tick
  PROVE  ClientInv'
<1>1. /\ UNCHANGED <<inb, up, got, app>>
      /\ service' = [k \in DOMAIN service |-> [service[k] EXCEPT !.dl = Mqtt!Less(@)]]
      /\ outbox' = [k \in DOMAIN outbox |-> [outbox[k] EXCEPT !.age = IF @ <= EXPIRED THEN @ + 1 ELSE @]]
  BY DEF Mqtt!Tick, Mqtt!Link
<1>2. /\ Len(service) \in Nat /\ DOMAIN service = 1..Len(service)
      /\ \A k \in DOMAIN service : service[k] \in Frames
  BY LenProperties, ElementOfSeq DEF ClientInv, ClientTypes
<1>3. /\ Len(outbox) \in Nat /\ DOMAIN outbox = 1..Len(outbox)
      /\ \A k \in DOMAIN outbox : outbox[k] \in Items
  BY OutboxHolds DEF ClientInv
<1>4. /\ DOMAIN service' = DOMAIN service
      /\ \A k \in DOMAIN service : /\ service'[k] \in Frames
                                   /\ service'[k].kind = service[k].kind /\ service'[k].m = service[k].m
  <2>1. ASSUME NEW g \in Frames
        PROVE  /\ [g EXCEPT !.dl = Mqtt!Less(@)] \in Frames
               /\ [g EXCEPT !.dl = Mqtt!Less(@)].kind = g.kind /\ [g EXCEPT !.dl = Mqtt!Less(@)].m = g.m
    <3>1. g.dl \in Int /\ Mqtt!Less(g.dl) \in Int
      BY DEF Frames, Mqtt!Less
    <3> QED
      BY <3>1 DEF Frames
  <2> QED
    BY <1>1, <1>2, <2>1
<1>5. /\ DOMAIN outbox' = DOMAIN outbox
      /\ \A k \in DOMAIN outbox : /\ outbox'[k] \in Items
                                  /\ outbox'[k].m = outbox[k].m /\ outbox'[k].id = outbox[k].id
  <2>1. ASSUME NEW g \in Items
        PROVE  LET h == [g EXCEPT !.age = IF @ <= EXPIRED THEN @ + 1 ELSE @]
               IN h \in Items /\ h.m = g.m /\ h.id = g.id
    <3>1. g.age \in Nat /\ (IF g.age <= EXPIRED THEN g.age + 1 ELSE g.age) \in Nat
      BY DEF Items
    <3> QED
      BY <3>1 DEF Items
  <2> QED
    BY <1>1, <1>3, <2>1
<1>6. service' \in Seq(Frames) /\ outbox' \in Seq(Items)
  <2>1. service' \in [1..Len(service) -> Frames] /\ outbox' \in [1..Len(outbox) -> Items]
    BY <1>1, <1>2, <1>3, <1>4, <1>5
  <2> QED
    BY <1>2, <1>3, <2>1, FunctionIsSeq
<1>7. StageInv'
  <2>1. \A m : IsFirst(m) => IsFirst(m)'
    BY <1>5 DEF IsFirst
  <2> QED
    BY <1>4, <2>1 DEF ClientInv, StageInv, Publishes
<1>8. Mqtt!NothingLost'
  <2>1. \A k \in DOMAIN outbox : outbox[k].m \in Mqtt!Held(outbox')
    BY <1>5 DEF Mqtt!Held
  <2> QED
    BY <1>1, <2>1, LostNothing DEF ClientInv
<1> QED
  BY <1>1, <1>6, <1>7, <1>8 DEF ClientInv, ClientTypes

LEMMA ClientInit ==
  ASSUME Mqtt!Init
  PROVE  ClientInv
<1>1. /\ service = <<>> /\ outbox = <<>> /\ inb = <<>> /\ up = <<>>
      /\ app = [next |-> 1, written |-> {}, expired |-> {}, purged |-> {}, conns |-> 0]
  BY DEF Mqtt!Init
<1>2. DOMAIN service = {}
  BY <1>1, EmptySeq
<1>3. StageInv /\ Mqtt!NothingLost
  BY <1>1, <1>2 DEF StageInv, Mqtt!NothingLost
<1> QED
  BY <1>1, <1>3, EmptySeq DEF ClientInv, ClientTypes

LEMMA ClientStep ==
  ASSUME ClientInv, Mqtt!Next
  PROVE  ClientInv'
<1>1. CASE Mqtt!ServiceBegin \/ Mqtt!ReceivePart \/ Mqtt!RxDone \/ Mqtt!RxLate \/ Mqtt!WaitReconnect \/ Mqtt!Start
           \/ Mqtt!AskDisconnect \/ Mqtt!AskReconnect \/ Mqtt!PathDies \/ Mqtt!PathReturns
  <2>1. UNCHANGED <<service, inb, up, got, outbox, app>>
    BY <1>1 DEF Mqtt!ServiceBegin, Mqtt!ReceivePart, Mqtt!RxDone, Mqtt!RxLate, Mqtt!WaitReconnect, Mqtt!Start,
       Mqtt!AskDisconnect, Mqtt!AskReconnect, Mqtt!PathDies, Mqtt!PathReturns, Mqtt!Link
  <2> QED
    BY <2>1, SameClient
<1>2. CASE Mqtt!ConnectCut \/ Mqtt!ServiceCut \/ Mqtt!KeepaliveFails \/ Mqtt!ReadFails
  <2>1. Mqtt!Abort /\ UNCHANGED <<outbox, app>>
    BY <1>2 DEF Mqtt!ConnectCut, Mqtt!ServiceCut, Mqtt!KeepaliveFails, Mqtt!ReadFails
  <2> QED
    BY <2>1, AbortStep
<1>3. CASE Mqtt!Begin
  BY <1>3, BeginStep
<1>4. CASE Mqtt!StartConnect
  BY <1>4, StartConnectStep
<1>5. CASE Mqtt!Dial
  BY <1>5, DialStep
<1>6. CASE Mqtt!SendConnect
  BY <1>6, SendConnectStep
<1>7. CASE Mqtt!ConnAck
  BY <1>7, ConnAckStep
<1>8. CASE Mqtt!Receive
  BY <1>8, ReceiveStep
<1>9. CASE Mqtt!Keepalive
  BY <1>9, KeepaliveStep
<1>10. CASE Mqtt!ScheduleOutbox
  BY <1>10, ScheduleStep
<1>11. CASE Mqtt!Tx
  BY <1>11, TxStep
<1>12. CASE Mqtt!InitFails
  BY <1>12, InitFailsStep
<1>13. CASE Mqtt!Enqueue
  BY <1>13, EnqueueStep
<1>14. CASE Mqtt!Broker
  BY <1>14, BrokerStep
<1>15. CASE Mqtt!Downlink
  BY <1>15, DownlinkStep
<1>16. CASE Mqtt!RestArrives
  BY <1>16, RestStep
<1>17. CASE Mqtt!Tick
  BY <1>17, TickStep
<1> QED
  BY <1>1, <1>2, <1>3, <1>4, <1>5, <1>6, <1>7, <1>8, <1>9, <1>10, <1>11, <1>12, <1>13, <1>14, <1>15, <1>16, <1>17
  DEF Mqtt!Next, Mqtt!Slice

(***************************************************************************)
(* The making of the MQTT client                                           *)
(***************************************************************************)
DataBlocks == {"error_handle", "api_lock", "outbox", "status_bits"}
StringBlocks == {"username", "password", "client_id", "uri", "will_topic", "will_message"}
ConfigBlocks == {"buffer", "in_buffer", "scheme", "host", "event_loop", "handler"} \cup StringBlocks
ClientBlocks == {"client", "config"} \cup DataBlocks \cup ConfigBlocks

LEMMA PlanIs ==
  Setup!Plan = <<"client", "error_handle", "api_lock", "outbox", "status_bits", "config", "buffer", "in_buffer",
                 "username", "password", "client_id", "uri", "will_topic", "will_message", "scheme", "host",
                 "check", "event_loop", "handler", "publish", "task">>
  BY DEF Setup!Plan

LEMMA BlocksAre ==
  /\ Setup!Data = DataBlocks
  /\ Setup!Buffers = {"buffer", "in_buffer"}
  /\ Setup!Strings = StringBlocks
  /\ Setup!Uri = {"scheme", "host"}
  /\ Setup!Configured = ConfigBlocks
  /\ Setup!Needed = ClientBlocks
<1>1. /\ Setup!Data = DataBlocks
      /\ Setup!Buffers = {"buffer", "in_buffer"}
      /\ Setup!Strings = StringBlocks
      /\ Setup!Uri = {"scheme", "host"}
  BY DEF Setup!Data, Setup!Buffers, Setup!Strings, Setup!Uri, Setup!Information, DataBlocks, StringBlocks
<1>2. Setup!Configured = ConfigBlocks
  BY <1>1 DEF Setup!Configured, Setup!Information, ConfigBlocks, StringBlocks
<1>3. Setup!ToSet(Setup!Plan) = ClientBlocks \cup {"check", "publish", "task"}
  BY PlanIs DEF Setup!ToSet, ClientBlocks, DataBlocks, ConfigBlocks, StringBlocks
<1>4. Setup!Needed = ClientBlocks
  BY <1>3 DEF Setup!Needed, ClientBlocks, DataBlocks, ConfigBlocks, StringBlocks
<1> QED
  BY <1>1, <1>2, <1>4

\* The step a place in the plan stands for.
LEMMA PlaceOf ==
  ASSUME at \in 0..21
  PROVE  /\ Setup!Step = "client" => at = 1
         /\ Setup!Step \in DataBlocks => at \in 2..5
         /\ Setup!Step = "config" => at = 6
         /\ Setup!Step \in {"buffer", "in_buffer"} => at \in 7..8
         /\ Setup!Step \in StringBlocks => at \in 9..14
         /\ Setup!Step \in {"scheme", "host"} => at \in 15..16
         /\ Setup!Step = "check" => at = 17
         /\ Setup!Step = "event_loop" => at = 18
         /\ Setup!Step = "handler" => at = 19
         /\ Setup!Step = "publish" => at = 20
         /\ Setup!Step = "task" => at = 21
<1>1. \/ at = 0 \/ at = 1 \/ at = 2 \/ at = 3 \/ at = 4 \/ at = 5 \/ at = 6 \/ at = 7 \/ at = 8 \/ at = 9 \/ at = 10
      \/ at = 11 \/ at = 12 \/ at = 13 \/ at = 14 \/ at = 15 \/ at = 16 \/ at = 17 \/ at = 18 \/ at = 19 \/ at = 20
      \/ at = 21
  OBVIOUS
<1> QED
  BY <1>1, PlanIs DEF Setup!Step, DataBlocks, StringBlocks

\* What the steps before the n-th have allocated, if all of them succeeded.
Allocated(n) == {Setup!Plan[i] : i \in 1..(n - 1)} \cap ClientBlocks

\* sdk_start half-way: every step before at has its block, but for those whose
\* result nobody looks at; they are looked at later.
Growing ==
    /\ ptr = live /\ ptr \subseteq Allocated(at)
    /\ Allocated(at) \ {"scheme", "host", "event_loop"} \subseteq ptr
    /\ at > 17 => "scheme" \in ptr
    /\ at > 19 => "event_loop" \in ptr
\* esp_mqtt_set_config has destroyed the configuration and returned ESP_OK.
Unreported == at = 18 /\ "config" \notin ptr

HeapInv ==
    /\ at \in 0..21 /\ fault \in {"none", "null"}
    /\ at \in 1..20 => ~s_client /\ ~s_started /\ (Growing \/ Unreported)
    /\ at = 21 => s_client /\ ~s_started
    /\ s_started => s_client
    /\ fault = "null" => at = 0 /\ ~s_client
    /\ at = 0 /\ ~s_client /\ fault = "none" => ptr = {} /\ live = {}
    /\ s_client => ClientBlocks \ {"host"} \subseteq live /\ ptr \subseteq live

\* A client has at most one task, and none before it was started or while it
\* is stopped.
TaskInv ==
    /\ tasks \in {<<>>, <<"new">>, <<"run">>}
    /\ ~s_started => tasks = <<>> /\ ~stopped
    /\ stopped => tasks = <<>>

SetupInv == HeapInv /\ TaskInv

LEMMA AllocatedNext ==
  ASSUME NEW n \in 1..21
  PROVE  /\ Allocated(n + 1) = Allocated(n) \cup ({Setup!Plan[n]} \cap ClientBlocks)
         /\ Allocated(n) \subseteq ClientBlocks
<1>1. 1..((n + 1) - 1) = (1..(n - 1)) \cup {n}
  OBVIOUS
<1> QED
  BY <1>1 DEF Allocated

LEMMA AllocatedEarly ==
  /\ Allocated(1) = {} /\ Allocated(6) \subseteq {"client"} \cup DataBlocks
  /\ \A n \in 1..6 : Allocated(n) \subseteq {"client"} \cup DataBlocks
  /\ \A n \in 7..21 : "config" \in Allocated(n)
  /\ ClientBlocks \subseteq Allocated(20)
<1>1. \A n \in 1..6 : Allocated(n) \subseteq {"client"} \cup DataBlocks
  <2>1. \A i \in 1..5 : Setup!Plan[i] \in {"client"} \cup DataBlocks
    <3>1. \A i \in 1..5 : i = 1 \/ i = 2 \/ i = 3 \/ i = 4 \/ i = 5
      OBVIOUS
    <3> QED
      BY <3>1, PlanIs DEF DataBlocks
  <2>2. \A n \in 1..6 : 1..(n - 1) \subseteq 1..5
    OBVIOUS
  <2> QED
    BY <2>1, <2>2 DEF Allocated
<1>2. \A n \in 7..21 : "config" \in Allocated(n)
  <2>1. \A n \in 7..21 : 6 \in 1..(n - 1)
    OBVIOUS
  <2>2. Setup!Plan[6] = "config" /\ "config" \in ClientBlocks
    BY PlanIs DEF ClientBlocks
  <2> QED
    BY <2>1, <2>2 DEF Allocated
<1>3. Allocated(1) = {}
  <2>1. 1..(1 - 1) = {}
    OBVIOUS
  <2> QED
    BY <2>1 DEF Allocated
<1>4. ClientBlocks \subseteq Allocated(20)
  <2>1. ASSUME NEW b \in ClientBlocks
        PROVE  \E i \in 1..(20 - 1) : b = Setup!Plan[i]
    <3>1. /\ Setup!Plan[1] = "client" /\ Setup!Plan[2] = "error_handle" /\ Setup!Plan[3] = "api_lock"
          /\ Setup!Plan[4] = "outbox" /\ Setup!Plan[5] = "status_bits" /\ Setup!Plan[6] = "config"
          /\ Setup!Plan[7] = "buffer" /\ Setup!Plan[8] = "in_buffer" /\ Setup!Plan[9] = "username"
          /\ Setup!Plan[10] = "password" /\ Setup!Plan[11] = "client_id" /\ Setup!Plan[12] = "uri"
          /\ Setup!Plan[13] = "will_topic" /\ Setup!Plan[14] = "will_message" /\ Setup!Plan[15] = "scheme"
          /\ Setup!Plan[16] = "host" /\ Setup!Plan[18] = "event_loop" /\ Setup!Plan[19] = "handler"
      BY PlanIs
    <3>2. /\ 1 \in 1..(20 - 1) /\ 2 \in 1..(20 - 1) /\ 3 \in 1..(20 - 1) /\ 4 \in 1..(20 - 1) /\ 5 \in 1..(20 - 1)
          /\ 6 \in 1..(20 - 1) /\ 7 \in 1..(20 - 1) /\ 8 \in 1..(20 - 1) /\ 9 \in 1..(20 - 1) /\ 10 \in 1..(20 - 1)
          /\ 11 \in 1..(20 - 1) /\ 12 \in 1..(20 - 1) /\ 13 \in 1..(20 - 1) /\ 14 \in 1..(20 - 1)
          /\ 15 \in 1..(20 - 1) /\ 16 \in 1..(20 - 1) /\ 18 \in 1..(20 - 1) /\ 19 \in 1..(20 - 1)
      OBVIOUS
    <3> QED
      BY <2>1, <3>1, <3>2 DEF ClientBlocks, DataBlocks, ConfigBlocks, StringBlocks
  <2> QED
    BY <2>1 DEF Allocated
<1> QED
  BY <1>1, <1>2, <1>3, <1>4

\* esp_mqtt_client_destroy frees everything, once.
LEMMA GoneClean ==
  ASSUME ptr = live, ptr \subseteq ClientBlocks, "config" \in ptr \/ ptr \subseteq {"client"} \cup DataBlocks,
         Setup!Gone(ptr, live)
  PROVE  ptr' = {} /\ live' = {} /\ fault' = fault
<1>1. Setup!client_destroy(ptr) = ptr
  <2>1. CASE "config" \in ptr
    BY <2>1, BlocksAre DEF Setup!client_destroy, Setup!destroy_config, ClientBlocks
  <2>2. CASE "config" \notin ptr
    BY <2>2, BlocksAre DEF Setup!client_destroy, Setup!destroy_config
  <2> QED
    BY <2>1, <2>2
<1> QED
  BY <1>1 DEF Setup!Gone, Setup!Free

\* esp_mqtt_set_config destroys its configuration; esp_mqtt_client_destroy then
\* the rest.
LEMMA GoneAfterConfig ==
  ASSUME ptr = live, ptr \subseteq ClientBlocks, "config" \in ptr,
         Setup!Gone(Setup!destroy_config(ptr).ptr, live \ Setup!destroy_config(ptr).freed)
  PROVE  ptr' = {} /\ live' = {} /\ fault' = fault
<1> DEFINE d == Setup!destroy_config(ptr)
<1>1. /\ d.freed = (ConfigBlocks \cup {"config"}) \cap ptr
      /\ d.ptr = ptr \ ((ConfigBlocks \cup {"config"}) \ {"buffer", "in_buffer"})
  BY BlocksAre DEF Setup!destroy_config
<1> HIDE DEF d
<1>2. "config" \notin d.ptr
  BY <1>1 DEF ConfigBlocks, StringBlocks
<1>3. Setup!client_destroy(d.ptr) = d.ptr \cap (DataBlocks \cup {"transport_list", "ssl", "client"})
  BY <1>2, BlocksAre DEF Setup!client_destroy, Setup!destroy_config
<1>4. Setup!client_destroy(d.ptr) = live \ d.freed
  <2>1. ptr \ d.freed \subseteq DataBlocks \cup {"client"}
    BY <1>1 DEF ClientBlocks
  <2>2. \A b \in DataBlocks \cup {"transport_list", "ssl", "client"} : b \notin ConfigBlocks /\ b # "config"
    BY DEF DataBlocks, ConfigBlocks, StringBlocks
  <2> QED
    BY <1>1, <1>3, <2>1, <2>2
<1> QED
  BY <1>4 DEF Setup!Gone, Setup!Free, d

\* A start that gives up, in the middle, leaves nothing.
LEMMA GaveUp ==
  ASSUME SetupInv, at \in 1..20, ptr' = {} /\ live' = {} /\ fault' = fault, Setup!GiveUp
  PROVE  SetupInv'
<1>1. at' = 0 /\ UNCHANGED <<s_client, s_started, tasks, stopped>>
  BY DEF Setup!GiveUp, Setup!sdk
<1> QED
  BY <1>1 DEF SetupInv, HeapInv, TaskInv

\* Half-way, the configuration is there as soon as it was made.
LEMMA GrowingConfig ==
  ASSUME HeapInv, at \in 1..20, Growing
  PROVE  /\ ptr = live /\ ptr \subseteq ClientBlocks /\ ("config" \in ptr \/ ptr \subseteq {"client"} \cup DataBlocks)
         /\ at > 6 => "config" \in ptr
<1>1. CASE at \in 1..6
  BY <1>1, AllocatedNext, AllocatedEarly DEF Growing
<1>2. CASE at \in 7..20
  BY <1>2, AllocatedNext, AllocatedEarly DEF Growing
<1> QED
  BY <1>1, <1>2

\* A step of sdk_start that goes on, with its block or, if nobody looks,
\* without.
LEMMA GoesOn ==
  ASSUME SetupInv, at \in 1..19, Growing, Setup!Onwards,
         \/ Setup!Plan[at] \in ClientBlocks /\ Setup!Given(Setup!Plan[at])
         \/ /\ Setup!Plan[at] \in {"scheme", "host", "event_loop"} \/ Setup!Plan[at] \notin ClientBlocks
            /\ UNCHANGED <<ptr, live>>,
         at = 17 => "scheme" \in ptr', at = 19 => "event_loop" \in ptr'
  PROVE  SetupInv'
<1>1. at' = at + 1 /\ UNCHANGED <<s_client, s_started, tasks, stopped, fault>>
  BY DEF Setup!Onwards, Setup!sdk
<1>2. at' \in 2..20 /\ at \in 1..21
  BY <1>1
<1>3. Allocated(at') = Allocated(at) \cup ({Setup!Plan[at]} \cap ClientBlocks)
  BY <1>1, <1>2, AllocatedNext
<1>4. ptr' = live' /\ ptr \subseteq ptr' /\ ptr' \subseteq Allocated(at')
      /\ Allocated(at') \ {"scheme", "host", "event_loop"} \subseteq ptr'
  BY <1>3 DEF Growing, Setup!Given
<1>5. (at' > 17 => "scheme" \in ptr') /\ (at' > 19 => "event_loop" \in ptr')
  <2>1. at > 17 => "scheme" \in ptr
    BY DEF Growing
  <2> QED
    BY <1>1, <1>2, <1>4, <2>1
<1>6. Growing'
  BY <1>4, <1>5 DEF Growing, Allocated
<1> QED
  BY <1>1, <1>2, <1>6 DEF SetupInv, HeapInv, TaskInv

LEMMA SdkStartStep ==
  ASSUME SetupInv, fault # "null", Setup!SdkStart
  PROVE  SetupInv'
<1>1. /\ at = 0 /\ ~s_started /\ at' = IF s_client THEN Len(Setup!Plan) ELSE 1
      /\ UNCHANGED <<ptr, live, s_client, s_started, tasks, stopped, fault>>
  BY DEF Setup!SdkStart, Setup!heap, Setup!sdk
<1>2. Len(Setup!Plan) = 21
  BY PlanIs
<1>3. CASE s_client
  BY <1>1, <1>2, <1>3 DEF SetupInv, HeapInv, TaskInv
<1>4. CASE ~s_client
  <2>1. at' = 1 /\ ptr' = {} /\ live' = {}
    BY <1>1, <1>4 DEF SetupInv, HeapInv
  <2>2. Growing'
    <3>1. Growing' <=> /\ ptr' = live' /\ ptr' \subseteq Allocated(1)
                       /\ Allocated(1) \ {"scheme", "host", "event_loop"} \subseteq ptr'
                       /\ (1 > 17 => "scheme" \in ptr') /\ (1 > 19 => "event_loop" \in ptr')
      BY <2>1 DEF Growing, Allocated
    <3> QED
      BY <2>1, <3>1, AllocatedEarly
  <2> QED
    BY <1>1, <1>4, <2>1, <2>2 DEF SetupInv, HeapInv, TaskInv
<1> QED
  BY <1>3, <1>4

\* Where the loop is made; where the one task is in the list of one.
LEMMA EventLoopPlace ==
  Setup!SelectInSeq(Setup!Plan, LAMBDA s : s = "event_loop") = 18
<1> DEFINE I == {i \in 1..Len(Setup!Plan) : Setup!Plan[i] = "event_loop"}
<1>1. I = {18}
  <2>1. Len(Setup!Plan) = 21 /\ Setup!Plan[18] = "event_loop"
    BY PlanIs
  <2>2. \A i \in 1..21 :
           \/ i = 1 \/ i = 2 \/ i = 3 \/ i = 4 \/ i = 5 \/ i = 6 \/ i = 7 \/ i = 8 \/ i = 9 \/ i = 10 \/ i = 11
           \/ i = 12 \/ i = 13 \/ i = 14 \/ i = 15 \/ i = 16 \/ i = 17 \/ i = 18 \/ i = 19 \/ i = 20 \/ i = 21
    OBVIOUS
  <2>3. \A i \in 1..21 : Setup!Plan[i] = "event_loop" => i = 18
    BY <2>2, PlanIs
  <2> QED
    BY <2>1, <2>3
<1>2. Setup!SelectInSeq(Setup!Plan, LAMBDA s : s = "event_loop") = IF I # {} THEN Setup!Min(I) ELSE 0
  BY DEF Setup!SelectInSeq
<1> HIDE DEF I
<1>3. Setup!Min({18}) = 18
  BY DEF Setup!Min
<1> QED
  BY <1>1, <1>2, <1>3

LEMMA RunGone ==
  Setup!RemoveAt(<<"run">>, Setup!SelectInSeq(<<"run">>, LAMBDA t : t = "run")) = <<>>
<1>1. Setup!SelectInSeq(<<"run">>, LAMBDA t : t = "run") = 1
  <2> DEFINE I == {i \in 1..Len(<<"run">>) : <<"run">>[i] = "run"}
  <2>1. I = {1}
    OBVIOUS
  <2>2. Setup!SelectInSeq(<<"run">>, LAMBDA t : t = "run") = IF I # {} THEN Setup!Min(I) ELSE 0
    BY DEF Setup!SelectInSeq
  <2> HIDE DEF I
  <2>3. Setup!Min({1}) = 1
    BY DEF Setup!Min
  <2> QED
    BY <2>1, <2>2, <2>3
<1>2. Setup!RemoveAt(<<"run">>, 1) = <<>>
  BY DEF Setup!RemoveAt
<1> QED
  BY <1>1, <1>2

\* The steps of the plan that allocate.
LEMMA MakeStep ==
  ASSUME SetupInv, fault # "null",
         \/ Setup!Allocate \/ Setup!ClientFails \/ Setup!create_client_data \/ Setup!ConfigFails
         \/ Setup!BufferFails \/ Setup!StringFails \/ Setup!UriFails
  PROVE  SetupInv'
<1>1. at \in 0..21 /\ fault = "none"
  BY DEF SetupInv, HeapInv
<1>2. Setup!Step = (IF at = 0 THEN "none" ELSE Setup!Plan[at])
  BY DEF Setup!Step
<1>3. CASE Setup!Allocate
  <2>1. /\ Setup!Step \in ClientBlocks \ {"event_loop", "handler"}
        /\ Setup!Given(Setup!Step) /\ Setup!Onwards
    BY <1>3, BlocksAre DEF Setup!Allocate
  <2>2. at \in 1..16
    <3>1. \/ Setup!Step = "client" \/ Setup!Step = "config" \/ Setup!Step \in DataBlocks
          \/ Setup!Step \in {"buffer", "in_buffer"} \/ Setup!Step \in StringBlocks
          \/ Setup!Step \in {"scheme", "host"}
      BY <2>1 DEF ClientBlocks, ConfigBlocks
    <3> QED
      BY <1>1, <3>1, PlaceOf
  <2>3. Setup!Step = Setup!Plan[at] /\ Growing
    BY <1>2, <2>2 DEF SetupInv, HeapInv, Unreported
  <2>4. Setup!Plan[at] \in ClientBlocks /\ Setup!Given(Setup!Plan[at])
    BY <2>1, <2>3
  <2> QED
    BY <2>1, <2>2, <2>3, <2>4, GoesOn
<1>4. CASE Setup!ClientFails
  <2>1. at = 1 /\ Setup!GiveUp /\ UNCHANGED <<ptr, live, fault>>
    BY <1>1, <1>4, PlaceOf DEF Setup!ClientFails, Setup!heap
  <2>2. ptr = {} /\ live = {}
    BY <2>1, AllocatedEarly DEF SetupInv, HeapInv, Growing, Unreported
  <2> QED
    BY <2>1, <2>2, GaveUp
<1>5. CASE Setup!create_client_data \/ Setup!ConfigFails
  <2>1. at \in 2..6 /\ Setup!GiveUp /\ Setup!Gone(ptr, live)
    BY <1>1, <1>5, PlaceOf, BlocksAre DEF Setup!create_client_data, Setup!ConfigFails
  <2>2. Growing
    BY <2>1 DEF SetupInv, HeapInv, Unreported
  <2>3. at \in 1..20
    BY <2>1
  <2>4. ptr' = {} /\ live' = {} /\ fault' = fault
    BY <2>1, <2>2, <2>3, GrowingConfig, GoneClean DEF SetupInv
  <2> QED
    BY <2>1, <2>3, <2>4, GaveUp
<1>6. CASE Setup!StringFails
  <2>1. /\ at \in 9..14 /\ Setup!GiveUp
        /\ Setup!Gone(Setup!destroy_config(ptr).ptr, live \ Setup!destroy_config(ptr).freed)
    BY <1>1, <1>6, PlaceOf, BlocksAre DEF Setup!StringFails
  <2>2. Growing
    BY <2>1 DEF SetupInv, HeapInv, Unreported
  <2>3. at \in 1..20 /\ at > 6
    BY <2>1
  <2>4. ptr' = {} /\ live' = {} /\ fault' = fault
    BY <2>1, <2>2, <2>3, GrowingConfig, GoneAfterConfig DEF SetupInv
  <2> QED
    BY <2>1, <2>3, <2>4, GaveUp
<1>7. CASE Setup!BufferFails
  <2>1. /\ at \in 7..8
        /\ Setup!Free(Setup!destroy_config(ptr).freed, live) /\ ptr' = Setup!destroy_config(ptr).ptr
        /\ at' = Setup!SelectInSeq(Setup!Plan, LAMBDA s : s = "event_loop")
        /\ UNCHANGED <<s_client, s_started, tasks, stopped>>
    BY <1>1, <1>7, PlaceOf, BlocksAre DEF Setup!BufferFails, Setup!sdk
  <2>2. Growing /\ at \in 1..20 /\ at > 6 /\ ~s_client /\ ~s_started
    BY <2>1 DEF SetupInv, HeapInv, Unreported
  <2>3. ptr = live /\ "config" \in ptr
    BY <2>2, GrowingConfig DEF SetupInv
  <2>4. /\ Setup!destroy_config(ptr).freed \subseteq live /\ "config" \notin Setup!destroy_config(ptr).ptr
    BY <2>3, BlocksAre DEF Setup!destroy_config
  <2>5. fault' = "none" /\ "config" \notin ptr'
    BY <1>1, <2>1, <2>4 DEF Setup!Free
  <2>6. at' = 18
    BY <2>1, EventLoopPlace
  <2> QED
    BY <2>1, <2>2, <2>5, <2>6 DEF SetupInv, HeapInv, TaskInv, Unreported
<1>8. CASE Setup!UriFails
  <2>1. at \in 15..16 /\ Setup!Step \in {"scheme", "host"} /\ Setup!Onwards /\ UNCHANGED <<ptr, live>>
    BY <1>1, <1>8, PlaceOf, BlocksAre DEF Setup!UriFails, Setup!heap
  <2>2. Growing /\ at \in 1..19 /\ at # 17 /\ at # 19
    BY <2>1 DEF SetupInv, HeapInv, Unreported
  <2>3. Setup!Plan[at] \in {"scheme", "host", "event_loop"}
    BY <1>2, <2>1
  <2> QED
    BY <2>1, <2>2, <2>3, GoesOn
<1> QED
  BY <1>3, <1>4, <1>5, <1>6, <1>7, <1>8

\* The steps that look at what was allocated.
LEMMA LookStep ==
  ASSUME SetupInv, fault # "null", Setup!Check \/ Setup!EventLoop \/ Setup!Handler \/ Setup!Publish
  PROVE  SetupInv'
<1>1. at \in 0..21 /\ fault = "none"
  BY DEF SetupInv, HeapInv
<1>2. Setup!Plan[17] = "check" /\ Setup!Plan[18] = "event_loop" /\ Setup!Plan[19] = "handler"
  BY PlanIs
<1>3. CASE Setup!Check
  <2>1. at = 17
    BY <1>1, <1>3, PlaceOf DEF Setup!Check
  <2>2. Growing /\ at \in 1..20 /\ at \in 1..19
    BY <2>1 DEF SetupInv, HeapInv, Unreported
  <2>3. CASE "scheme" \in ptr /\ Setup!Onwards /\ UNCHANGED <<ptr, live>>
    <3>1. Setup!Plan[at] \notin ClientBlocks
      BY <1>2, <2>1 DEF ClientBlocks, DataBlocks, ConfigBlocks, StringBlocks
    <3> QED
      BY <2>1, <2>2, <2>3, <3>1, GoesOn
  <2>4. CASE Setup!GiveUp /\ Setup!Gone(ptr, live)
    <3>1. ptr' = {} /\ live' = {} /\ fault' = fault
      BY <2>2, <2>4, GrowingConfig, GoneClean DEF SetupInv
    <3> QED
      BY <2>2, <2>4, <3>1, GaveUp
  <2> QED
    BY <1>3, <2>3, <2>4 DEF Setup!Check, Setup!heap
<1>4. CASE Setup!EventLoop
  <2>1. at = 18 /\ at \in 1..19
    BY <1>1, <1>4, PlaceOf DEF Setup!EventLoop
  <2>2. CASE "config" \in ptr
    <3>1. Growing
      BY <2>1, <2>2 DEF SetupInv, HeapInv, Unreported
    <3>2. Setup!Plan[at] = "event_loop" /\ "event_loop" \in ClientBlocks
      BY <1>2, <2>1 DEF ClientBlocks, ConfigBlocks
    <3>3. Setup!Onwards /\ (Setup!Given("event_loop") \/ UNCHANGED <<ptr, live>>)
      BY <1>4, <2>2 DEF Setup!EventLoop, Setup!heap
    <3> QED
      BY <2>1, <3>1, <3>2, <3>3, GoesOn
  <2>3. CASE "config" \notin ptr
    <3>1. fault' = "null" /\ at' = 0 /\ UNCHANGED <<ptr, live, s_client, s_started, tasks, stopped>>
      BY <1>4, <2>3 DEF Setup!EventLoop, Setup!heap, Setup!sdk
    <3> QED
      BY <2>1, <3>1 DEF SetupInv, HeapInv, TaskInv
  <2> QED
    BY <2>2, <2>3
<1>5. CASE Setup!Handler
  <2>1. at = 19
    BY <1>1, <1>5, PlaceOf DEF Setup!Handler
  <2>2. Growing /\ at \in 1..20 /\ at \in 1..19
    BY <2>1 DEF SetupInv, HeapInv, Unreported
  <2>3. CASE "event_loop" \in ptr /\ Setup!Given("handler") /\ Setup!Onwards
    <3>1. Setup!Plan[at] = "handler" /\ "handler" \in ClientBlocks
      BY <1>2, <2>1 DEF ClientBlocks, ConfigBlocks
    <3>2. "event_loop" \in ptr'
      BY <2>3 DEF Setup!Given
    <3> QED
      BY <2>1, <2>2, <2>3, <3>1, <3>2, GoesOn
  <2>4. CASE Setup!GiveUp /\ Setup!Gone(ptr, live)
    <3>1. ptr' = {} /\ live' = {} /\ fault' = fault
      BY <2>2, <2>4, GrowingConfig, GoneClean DEF SetupInv
    <3> QED
      BY <2>2, <2>4, <3>1, GaveUp
  <2> QED
    BY <1>5, <2>3, <2>4 DEF Setup!Handler
<1>6. CASE Setup!Publish
  <2>1. at = 20
    BY <1>1, <1>6, PlaceOf DEF Setup!Publish
  <2>2. Growing /\ ~s_started
    BY <2>1 DEF SetupInv, HeapInv, Unreported
  <2>3. at' = 21 /\ s_client' = TRUE /\ UNCHANGED <<ptr, live, s_started, tasks, stopped, fault>>
    BY <1>6, <2>1 DEF Setup!Publish, Setup!heap, Setup!sdk
  <2>4. ClientBlocks \ {"host"} \subseteq live /\ ptr \subseteq live
    <3>1. /\ ptr = live /\ Allocated(20) \ {"scheme", "host", "event_loop"} \subseteq ptr
          /\ "scheme" \in ptr /\ "event_loop" \in ptr
      BY <2>1, <2>2 DEF Growing
    <3> QED
      BY <3>1, AllocatedEarly
  <2> QED
    BY <1>1, <2>2, <2>3, <2>4 DEF SetupInv, HeapInv, TaskInv
<1> QED
  BY <1>3, <1>4, <1>5, <1>6

\* The task's life: started by a client that has none, revived when it stopped.
LEMMA TaskLife ==
  ASSUME SetupInv, fault # "null",
         \/ Setup!Start \/ Setup!OwnerReconnect \/ Setup!Revive
         \/ Setup!TaskBegins \/ Setup!create_transport \/ Setup!TransportFails
         \/ Setup!Connect \/ Setup!ConnectFails \/ Setup!Reconnects \/ Setup!ConnectionLost
  PROVE  SetupInv'
<1>1. at \in 0..21 /\ fault = "none"
  BY DEF SetupInv, HeapInv
<1>2. CASE Setup!Start
  <2>1. /\ at = 21 /\ at' = 0 /\ UNCHANGED <<ptr, live, s_client, fault>>
        /\ \/ tasks' = Append(tasks, "new") /\ s_started' = TRUE /\ UNCHANGED stopped
           \/ UNCHANGED <<tasks, stopped, s_started>>
    BY <1>1, <1>2, PlaceOf DEF Setup!Start, Setup!TaskCreated, Setup!sdk, Setup!heap
  <2>2. s_client /\ tasks = <<>> /\ ~stopped /\ Append(<<>>, "new") = <<"new">>
    BY <2>1 DEF SetupInv, HeapInv, TaskInv
  <2>3. HeapInv'
    BY <2>1, <2>2 DEF SetupInv, HeapInv
  <2>4. TaskInv'
    BY <2>1, <2>2 DEF SetupInv, TaskInv
  <2> QED
    BY <2>3, <2>4 DEF SetupInv
<1>3. CASE Setup!OwnerReconnect \/ Setup!Connect \/ Setup!ConnectFails \/ Setup!Reconnects \/ Setup!ConnectionLost
  <2>1. UNCHANGED <<at, ptr, live, s_client, s_started, tasks, stopped, fault>>
    BY <1>3 DEF Setup!OwnerReconnect, Setup!Connect, Setup!ConnectFails, Setup!Reconnects, Setup!ConnectionLost,
       Setup!Quiet, Setup!heap
  <2> QED
    BY <2>1 DEF SetupInv, HeapInv, TaskInv, Growing, Unreported, Allocated
<1>4. CASE Setup!Revive
  <2>1. /\ at = 0 /\ s_started /\ UNCHANGED <<at, ptr, live, s_client, s_started, fault>>
        /\ \/ UNCHANGED <<tasks, stopped>>
           \/ stopped /\ stopped' = FALSE /\ tasks' = Append(tasks, "new")
    BY <1>4 DEF Setup!Revive, Setup!Revivable, Setup!Owner, Setup!sdk, Setup!heap
  <2>2. stopped => tasks = <<>> /\ Append(tasks, "new") = <<"new">>
    BY DEF SetupInv, TaskInv
  <2>3. HeapInv'
    BY <2>1 DEF SetupInv, HeapInv
  <2>4. TaskInv'
    BY <2>1, <2>2, SMTT(60) DEF SetupInv, TaskInv
  <2> QED
    BY <2>3, <2>4 DEF SetupInv
<1>5. Setup!ToSet(<<>>) = {} /\ Setup!ToSet(<<"new">>) = {"new"} /\ Setup!ToSet(<<"run">>) = {"run"}
  BY DEF Setup!ToSet
<1>6. CASE Setup!TaskBegins
  <2>1. /\ "new" \in Setup!ToSet(tasks) /\ stopped' = FALSE
        /\ tasks' = [tasks EXCEPT ![Setup!SelectInSeq(tasks, LAMBDA t : t = "new")] = "run"]
        /\ UNCHANGED <<at, ptr, live, s_client, s_started, fault>>
    BY <1>6 DEF Setup!TaskBegins, Setup!Quiet, Setup!heap
  <2>2. tasks = <<"new">> /\ s_started
    BY <1>5, <2>1 DEF SetupInv, TaskInv
  <2>3. tasks' = <<"run">> \/ tasks' = <<"new">>
    BY <2>1, <2>2
  <2>4. HeapInv'
    BY <2>1 DEF SetupInv, HeapInv, Growing, Unreported, Allocated
  <2> QED
    BY <2>1, <2>2, <2>3, <2>4 DEF SetupInv, TaskInv
<1>7. CASE Setup!create_transport \/ Setup!TransportFails
  <2>1. /\ "run" \in Setup!ToSet(tasks) /\ UNCHANGED <<at, s_client, s_started>>
        /\ \E made \in SUBSET Setup!Transports : Setup!Replaced(made)
        /\ \/ UNCHANGED <<tasks, stopped>>
           \/ stopped' = TRUE /\ tasks' = Setup!RemoveAt(tasks, Setup!SelectInSeq(tasks, LAMBDA t : t = "run"))
    BY <1>7 DEF Setup!create_transport, Setup!TransportFails, Setup!Running, Setup!Quiet, Setup!Transports
  <2>2. tasks = <<"run">> /\ s_started /\ s_client /\ ~stopped
    BY <1>5, <2>1 DEF SetupInv, HeapInv, TaskInv
  <2>3. PICK made \in SUBSET Setup!Transports : Setup!Replaced(made)
    BY <2>1
  <2>4. \A b \in Setup!Transports : b \notin ClientBlocks
    BY DEF Setup!Transports, ClientBlocks, DataBlocks, ConfigBlocks, StringBlocks
  <2>5. /\ live' = (live \ Setup!Transports) \cup made /\ ptr' = (ptr \ Setup!Transports) \cup made
        /\ fault' = IF Setup!Transports \cap ptr \subseteq live THEN fault ELSE "double"
    BY <2>3 DEF Setup!Replaced
  <2>6. ClientBlocks \ {"host"} \subseteq live /\ ptr \subseteq live
    BY <2>2 DEF SetupInv, HeapInv
  <2>7. fault' = "none" /\ ClientBlocks \ {"host"} \subseteq live' /\ ptr' \subseteq live'
    BY <1>1, <2>4, <2>5, <2>6
  <2>8. at \notin 1..20
    BY <2>2 DEF SetupInv, HeapInv
  <2>9. HeapInv'
    BY <2>1, <2>2, <2>7, <2>8 DEF SetupInv, HeapInv
  <2>10. TaskInv'
    <3>1. Setup!RemoveAt(tasks, Setup!SelectInSeq(tasks, LAMBDA t : t = "run")) = <<>>
      BY <2>2, RunGone
    <3> QED
      BY <2>1, <2>2, <3>1 DEF SetupInv, TaskInv
  <2> QED
    BY <2>9, <2>10 DEF SetupInv
<1> QED
  BY <1>2, <1>3, <1>4, <1>6, <1>7

LEMMA SetupStep ==
  ASSUME SetupInv, Setup!Next
  PROVE  SetupInv'
<1>1. CASE Setup!Panic
  BY <1>1 DEF Setup!Panic, SetupInv, HeapInv, TaskInv
<1>2. CASE fault # "null" /\ (Setup!OwnerStep \/ Setup!TaskStep \/ Setup!ConnectionLost)
  BY <1>2, SdkStartStep, MakeStep, LookStep, TaskLife DEF Setup!OwnerStep, Setup!TaskStep
<1> QED
  BY <1>1, <1>2 DEF Setup!Next

LEMMA SetupInit ==
  ASSUME Setup!Init
  PROVE  SetupInv
  BY DEF Setup!Init, SetupInv, HeapInv, TaskInv

LEMMA SetupImplies ==
  ASSUME SetupInv
  PROVE  SetupSound
<1>1. Len(tasks) <= 1
  <2>1. tasks = <<>> \/ tasks = <<"new">> \/ tasks = <<"run">>
    BY DEF SetupInv, TaskInv
  <2>2. CASE tasks = <<>>
    BY <2>2
  <2>3. CASE tasks = <<"new">>
    BY <2>3
  <2>4. CASE tasks = <<"run">>
    BY <2>4
  <2> QED
    BY <2>1, <2>2, <2>3, <2>4
<1> QED
  BY <1>1, BlocksAre DEF SetupInv, HeapInv, SetupSound, Setup!SetupSound

(***************************************************************************)
(* The parts together                                                      *)
(***************************************************************************)
UplinkInv == SealOK /\ NonceInv /\ CacheInv /\ RequestKept /\ ClientInv /\ SetupInv

LEMMA UplinkInit == MCInit => UplinkInv /\ WriterInv
<1>1. SUFFICES ASSUME MCInit
               PROVE  UplinkInv /\ WriterInv
  OBVIOUS
<1>2. Init /\ Seal!Init /\ TlmInit /\ Mqtt!Init /\ Setup!Init
  BY <1>1 DEF MCInit
<1>3. RequestKept
  BY <1>2 DEF TlmInit, RequestKept
<1> QED
  BY <1>2, <1>3, WriterInit, SealInit, ClientInit, SetupInit DEF UplinkInv

\* One part moves, the others keep what they have.
LEMMA KeepsSeal ==
  ASSUME SealOK, NonceInv, CacheInv, UNCHANGED sealvars
  PROVE  (SealOK /\ NonceInv /\ CacheInv)'
  BY DEF SealOK, NonceInv, CacheInv, sealvars, NumbersApart, Behind, Seal!KeyCacheCurrent

LEMMA KeepsTlm ==
  ASSUME RequestKept, UNCHANGED tlmvars
  PROVE  RequestKept'
  BY DEF RequestKept, tlmvars

LEMMA KeepsClient ==
  ASSUME ClientInv, UNCHANGED mqttvars
  PROVE  ClientInv'
  BY SameClient DEF mqttvars

LEMMA KeepsSetup ==
  ASSUME SetupInv, UNCHANGED setupvars
  PROVE  SetupInv'
  BY DEF SetupInv, HeapInv, TaskInv, Growing, Unreported, Allocated, setupvars

LEMMA KeepsWriter ==
  ASSUME WriterInv, UNCHANGED vars
  PROVE  WriterInv'
<1>1. WriterTypes'
  BY DEF WriterInv, WriterTypes, vars
<1>2. QueueInv'
  BY DEF WriterInv, QueueInv, Tx, Entity, vars
<1>3. ChainInv'
  BY DEF WriterInv, ChainInv, ChainHas, Suspects, vars
<1>4. OnceInOrder'
  BY DEF WriterInv, OnceInOrder, vars
<1> QED
  BY <1>1, <1>2, <1>3, <1>4 DEF WriterInv

LEMMA UplinkStep ==
  ASSUME UplinkInv, [MCNext]_<<vars, part, sealvars, tlmvars, mqttvars, setupvars>>
  PROVE  UplinkInv'
<1>1. (SealOK /\ NonceInv /\ CacheInv)'
  <2>1. CASE Seal!Next
    BY <2>1, SealTypeStep, NonceStep, CacheStep DEF UplinkInv
  <2>2. CASE UNCHANGED sealvars
    BY <2>2, KeepsSeal DEF UplinkInv
  <2> QED
    BY <2>1, <2>2 DEF MCNext
<1>2. RequestKept'
  <2>1. CASE TlmNext
    BY <2>1, RequestStep DEF UplinkInv
  <2>2. CASE UNCHANGED tlmvars
    BY <2>2, KeepsTlm DEF UplinkInv
  <2> QED
    BY <2>1, <2>2 DEF MCNext
<1>3. ClientInv'
  <2>1. CASE Mqtt!Next
    BY <2>1, ClientStep DEF UplinkInv
  <2>2. CASE UNCHANGED mqttvars
    BY <2>2, KeepsClient DEF UplinkInv
  <2> QED
    BY <2>1, <2>2 DEF MCNext
<1>4. SetupInv'
  <2>1. CASE Setup!Next
    BY <2>1, SetupStep DEF UplinkInv
  <2>2. CASE UNCHANGED setupvars
    BY <2>2, KeepsSetup DEF UplinkInv
  <2> QED
    BY <2>1, <2>2 DEF MCNext
<1> QED
  BY <1>1, <1>2, <1>3, <1>4 DEF UplinkInv

LEMMA WriterAlways ==
  ASSUME "writer" \notin LateTasks, WriterInv,
         [MCNext]_<<vars, part, sealvars, tlmvars, mqttvars, setupvars>>
  PROVE  WriterInv'
<1>1. CASE Next
  BY <1>1, WriterStep
<1>2. CASE UNCHANGED vars
  BY <1>2, KeepsWriter
<1> QED
  BY <1>1, <1>2 DEF MCNext

\* What goes out, for any number of jobs, sealing tasks and messages, any
\* reservation window, restarts, aborts, expiry and acknowledgements in any
\* order: entities reach the chain once and in order, no key seals twice under
\* one number, a balance request is not forgotten, and a message leaves the
\* MQTT outbox only delivered, written or expired.  The writer's own
\* transactions are not late: a node that accepts one after the writer has
\* probed for it breaks the order.
THEOREM UplinkAlwaysSound ==
  ASSUME "writer" \notin LateTasks
  PROVE  MCSpec => []UplinkSound
<1>1. MCInit => UplinkInv /\ WriterInv
  BY UplinkInit
<1>2. UplinkInv /\ WriterInv /\ [MCNext]_<<vars, part, sealvars, tlmvars, mqttvars, setupvars>>
        => (UplinkInv /\ WriterInv)'
  BY UplinkStep, WriterAlways
<1>3. UplinkInv /\ WriterInv => UplinkSound
  BY DEF UplinkInv, WriterInv, NonceInv, CacheInv, ClientInv, UplinkSound, Seal!NonceUnique, Seal!NoReuse
<1> QED
  BY <1>1, <1>2, <1>3, PTL DEF MCSpec

\* Sealing needs nothing of the writer: no key ever seals twice under one
\* number as long as the reservation can be read back, and a cache that passes
\* for current holds the key of the binding in force (arkiv_seal in
\* arkiv_writer.cpp).
THEOREM SealAlwaysSound == MCSpec => [](Seal!NonceUnique /\ Seal!KeyCacheCurrent)
<1>1. UplinkInv /\ [MCNext]_<<vars, part, sealvars, tlmvars, mqttvars, setupvars>> => UplinkInv'
  BY UplinkStep
<1>2. UplinkInv => Seal!NonceUnique /\ Seal!KeyCacheCurrent
  BY DEF UplinkInv, NonceInv, CacheInv, Seal!NonceUnique, Seal!NoReuse
<1> QED
  BY UplinkInit, <1>1, <1>2, PTL DEF MCSpec

\* The client by itself, with downlinks, PING and uplinks at once: a message that
\* esp_mqtt_client_enqueue took leaves the outbox only acknowledged, written in
\* full or expired, or because the task ended (mqtt_client.c, mqtt_outbox.c).
THEOREM NothingEverLost == Mqtt!Spec => []Mqtt!NothingLost
<1>1. Mqtt!Init => ClientInv
  BY ClientInit
<1>2. ClientInv /\ [Mqtt!Next]_(Mqtt!vars) => ClientInv'
  <2>1. ASSUME ClientInv, UNCHANGED Mqtt!vars PROVE ClientInv'
    BY <2>1, SameClient DEF Mqtt!vars
  <2> QED
    BY <2>1, ClientStep
<1>3. ClientInv => Mqtt!NothingLost
  BY DEF ClientInv
<1> QED
  BY <1>1, <1>2, <1>3, PTL DEF Mqtt!Spec

\* The making of the MQTT client (sdk_start, esp_mqtt_client_init), whichever
\* allocations fail and how many: nothing is freed twice, a start that gives up
\* leaves nothing on the heap, a client that is used is whole but for its host,
\* and it never has two tasks.
THEOREM SetupAlwaysSound == MCSpec => []SetupSound
<1>1. UplinkInv /\ [MCNext]_<<vars, part, sealvars, tlmvars, mqttvars, setupvars>> => UplinkInv'
  BY UplinkStep
<1>2. UplinkInv => SetupSound
  BY SetupImplies DEF UplinkInv
<1> QED
  BY UplinkInit, <1>1, <1>2, PTL DEF MCSpec
=============================================================================
