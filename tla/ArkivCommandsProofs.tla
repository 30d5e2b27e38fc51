-------------------------- MODULE ArkivCommandsProofs --------------------------
(***************************************************************************)
(* Why the Arkiv command path keeps its promises, for chains, pages,       *)
(* sweeps, slots, bindings and faults of any number; and why the MQTT path *)
(* implements the same abstract service.                                   *)
(***************************************************************************)
EXTENDS MCCommands, FiniteSetTheorems, SequenceTheorems, WellFoundedInduction, TLAPS

-----------------------------------------------------------------------------
(* What holds of every reachable state. *)
Entity == [seq : 1..Top, by : Owners, frame : Nat]
Anyone == Owners \cup {Nobody}
Binding == [owner : Anyone, enc : Anyone, ctr : 0..Top, claimed : BOOLEAN]
Sweep == [by : Tasks, gen : Nat, base : Nat, floor : Nat, pages : Nat, cand : SUBSET Ids, evicted : BOOLEAN,
          complete : BOOLEAN, gathering : BOOLEAN, dispatched : Nat]
Slot == [frame : Nat, cmd : Ids]

ChainOK == chain \in Seq(Entity) /\ Len(chain) <= Top
KeysOK == auth \in Binding /\ nvs \in Binding
SweepOK == sweep \in {NoSweep} \cup Sweep /\ (sweep # NoSweep => sweep.cand \subseteq DOMAIN chain)
SlotsOK ==
    /\ slots \in Seq(Slot)
    /\ \A k \in DOMAIN slots : slots[k].cmd \in DOMAIN chain /\ slots[k].frame = chain[slots[k].cmd].frame
    /\ \A k, l \in DOMAIN slots : k # l => slots[k].frame # slots[l].frame
LineOK == line \subseteq DOMAIN chain /\ release \in {0} \cup DOMAIN chain
RunsOK ==
    /\ ran \in [Ids -> Nat] /\ lapses \in Nat /\ faults \in Nat /\ binds \in Nat
    /\ \A i \in Ids \ DOMAIN chain : ran[i] = 0
TypeOK == ChainOK /\ KeysOK /\ SweepOK /\ SlotsOK /\ LineOK /\ RunsOK

\* Only commands of the owner in force have run, the binding in force is the
\* stored one, and one that is stored but not in force is a new one.
BindingInv ==
    /\ \A i \in DOMAIN chain : ran[i] > 0 => auth.claimed /\ chain[i].by = auth.owner
    /\ auth.claimed => /\ nvs.claimed /\ nvs.owner = auth.owner /\ nvs.enc = auth.enc
                       /\ nvs.ctr <= auth.ctr \/ lapses > 0
    /\ nvs.claimed /\ ~auth.claimed => nvs.ctr = 0 /\ faults >= 1
    /\ nvs.claimed /\ nvs.owner # Nobody /\ nvs.enc # nvs.owner => faults >= 2

\* A counter above 0 is the number of one of its owner's entities.
OfOwner(k) ==
    k.claimed /\ k.owner # Nobody /\ k.ctr > 0 =>
        \E i \in DOMAIN chain : chain[i].by = k.owner /\ chain[i].seq = k.ctr
CounterInv == OfOwner(auth) /\ OfOwner(nvs)

\* What a sweep of the present binding has not gathered of the owner's comes
\* after all it has gathered, once its pages have come that far down; or it is
\* one of the exceptions, or passed.
Above(j) == \A c \in sweep.cand : Valid(c) => Before(c, j)
Excepted(j) == j \in hidden \/ Overtaken(j) \/ Late(j)
SweepInv ==
    sweep # NoSweep =>
        /\ sweep.gen <= binds
        /\ sweep.gen = binds =>
            /\ auth.claimed /\ sweep.base <= auth.ctr
            /\ \A j \in DOMAIN chain \ sweep.cand : Valid(j) /\ sweep.base < chain[j].seq =>
                \/ Above(j)
                \/ sweep.gathering /\ chain[j].seq < sweep.floor
                \/ Excepted(j) \/ chain[j].seq <= auth.ctr

\* The stored owner is not one that was erased, unless one was bound again.
RetiredInv == ~rebound => (nvs.claimed /\ nvs.owner # Nobody => nvs.owner \notin retired)

\* A frame's SEQ byte names one command at a time, as long as none runs twice.
Spent(i) == ran[i] > 0 \/ chain[i].by \in retired
FramesApart == \A i, j \in Unanswered : i # j => chain[i].frame # chain[j].frame
LineOwns == \A i \in line : Spent(i) /\ \A k \in Pending(chain[i].frame) : slots[k].cmd = i
ReleaseOwns == release # 0 => release \notin line /\ Spent(release)
RunsStored == \A i \in DOMAIN chain : ran[i] > 0 => chain[i].seq <= nvs.ctr
AllAnswered == astray = {} /\ line \subseteq Mapped(slots) \cup unmapped
AckSound == RunsStored /\ FramesApart /\ LineOwns /\ ReleaseOwns /\ AllAnswered
AckInv == lapses = 0 /\ ~rebound => AckSound

-----------------------------------------------------------------------------
(* The pieces steps are made of. *)

\* The chain, read entry by entry.
LEMMA Entries ==
  ASSUME ChainOK
  PROVE  /\ Top \in Nat /\ Len(chain) \in Nat
         /\ DOMAIN chain = 1..Len(chain) /\ DOMAIN chain \subseteq Ids
         /\ \A i \in DOMAIN chain : /\ chain[i] \in Entity /\ chain[i].seq \in 1..Top
                                   /\ chain[i].by \in Owners /\ chain[i].frame \in Nat
<1>1. Top \in Nat /\ chain \in Seq(Entity) /\ Len(chain) <= Top
  BY ArkivConstants DEF ChainOK
<1>2. /\ Len(chain) \in Nat /\ DOMAIN chain = 1..Len(chain)
      /\ \A i \in DOMAIN chain : chain[i] \in Entity
  BY <1>1
<1>3. DOMAIN chain \subseteq Ids
  BY <1>1, <1>2 DEF Ids
<1> QED
  BY <1>1, <1>2, <1>3 DEF Entity

\* An entity is added at the end and changes nothing about the others.
LEMMA ChainGrows ==
  ASSUME ChainOK, Creates
  PROVE  /\ ChainOK' /\ Len(chain') = Len(chain) + 1
         /\ DOMAIN chain' = 1..(Len(chain) + 1) /\ DOMAIN chain' = DOMAIN chain \cup {Len(chain) + 1}
         /\ \A i \in DOMAIN chain : chain'[i] = chain[i]
         /\ Len(chain) + 1 \in Ids \ DOMAIN chain
         /\ chain'[Len(chain) + 1] \in Entity
         /\ \A i \in Unanswered : chain[i].frame # chain'[Len(chain) + 1].frame
<1>1. PICK n \in 1..MaxChain, o \in Owners :
        /\ \A i \in Unanswered : chain[i].frame # Len(chain) % SEQ_BYTES
        /\ chain' = Append(chain, [seq |-> n, by |-> o, frame |-> Len(chain) % SEQ_BYTES])
  BY DEF Creates
<1> DEFINE e == [seq |-> n, by |-> o, frame |-> Len(chain) % SEQ_BYTES]
<1>2. Len(chain) \in Nat /\ Len(chain) < MaxChain /\ MaxChain <= Top /\ MaxChain \in Nat /\ Top \in Nat
  BY ArkivConstants, Entries DEF Creates
<1>3. e \in Entity
  <2>1. Len(chain) % SEQ_BYTES \in Nat
    BY <1>2, ArkivConstants
  <2> QED
    BY <1>2, <2>1 DEF Entity
<1> HIDE DEF e
<1>4. chain' = Append(chain, e) /\ chain \in Seq(Entity)
  BY <1>1 DEF e, ChainOK
<1>5. /\ chain' \in Seq(Entity) /\ Len(chain') = Len(chain) + 1
      /\ DOMAIN chain = 1..Len(chain) /\ DOMAIN chain' = 1..(Len(chain) + 1)
      /\ \A i \in 1..Len(chain) : chain'[i] = chain[i]
      /\ chain'[Len(chain) + 1] = e
  BY <1>4, <1>3
<1>6. e.seq = n /\ e.frame = Len(chain) % SEQ_BYTES
  BY DEF e
<1>8. ChainOK' /\ Len(chain) + 1 \in Ids \ DOMAIN chain /\ DOMAIN chain' = DOMAIN chain \cup {Len(chain) + 1}
  BY <1>2, <1>5 DEF ChainOK, Ids
<1> QED
  BY <1>1, <1>3, <1>5, <1>6, <1>8

\* A slot taken out of the table.
LEMMA WithoutSlot ==
  ASSUME NEW s \in Seq(Slot), NEW k \in DOMAIN s
  PROVE  /\ Without(s, k) \in Seq(Slot)
         /\ \A j \in DOMAIN Without(s, k) : \E l \in DOMAIN s \ {k} : Without(s, k)[j] = s[l]
         /\ \A l \in DOMAIN s \ {k} : \E j \in DOMAIN Without(s, k) : Without(s, k)[j] = s[l]
         /\ (\A i, j \in DOMAIN s : i # j => s[i].frame # s[j].frame) =>
              \A i, j \in DOMAIN Without(s, k) : i # j => Without(s, k)[i].frame # Without(s, k)[j].frame
<1>1. Len(s) \in Nat /\ DOMAIN s = 1..Len(s) /\ k \in 1..Len(s) /\ Len(s) - 1 \in Nat
  OBVIOUS
<1> DEFINE At(j) == IF j < k THEN j ELSE j + 1
           W == Without(s, k)
<1>2. \A j \in 1..(Len(s) - 1) : At(j) \in 1..Len(s) /\ At(j) # k
  BY <1>1
<1>3. \A i, j \in 1..(Len(s) - 1) : i # j => At(i) # At(j)
  BY <1>1
<1>4. W = [j \in 1..(Len(s) - 1) |-> s[At(j)]]
  BY <1>1 DEF Without
<1>5. ASSUME NEW l \in DOMAIN s \ {k}
      PROVE  \E j \in 1..(Len(s) - 1) : At(j) = l
  <2>1. CASE l < k
    BY <1>1, <2>1
  <2>2. CASE ~(l < k)
    <3>1. l - 1 \in 1..(Len(s) - 1) /\ At(l - 1) = l
      BY <1>1, <2>2
    <3> QED
      BY <3>1
  <2> QED
    BY <2>1, <2>2
<1> HIDE DEF At, W
<1>6. DOMAIN W = 1..(Len(s) - 1) /\ \A j \in 1..(Len(s) - 1) : W[j] = s[At(j)]
  BY <1>4
<1>7. W \in Seq(Slot)
  BY <1>1, <1>2, <1>4
<1>8. \A j \in DOMAIN W : \E l \in DOMAIN s \ {k} : W[j] = s[l]
  BY <1>1, <1>2, <1>6
<1>9. \A l \in DOMAIN s \ {k} : \E j \in DOMAIN W : W[j] = s[l]
  BY <1>5, <1>6
<1>10. ASSUME \A i, j \in DOMAIN s : i # j => s[i].frame # s[j].frame
       PROVE  \A i, j \in DOMAIN W : i # j => W[i].frame # W[j].frame
  BY <1>1, <1>2, <1>3, <1>6, <1>10
<1> QED
  BY <1>7, <1>8, <1>9, <1>10 DEF W

\* What arkiv_ack_track_pending leaves in the table: the new mapping, and of
\* the others some, none of them with its SEQ byte.
LEMMA TrackSlots ==
  ASSUME ChainOK, SlotsOK, NEW i \in DOMAIN chain, Track(i), chain' = chain
  PROVE  /\ SlotsOK'
         /\ \E k \in DOMAIN slots' : slots'[k].cmd = i
         /\ \A k \in DOMAIN slots' :
              \/ slots'[k] = [frame |-> chain[i].frame, cmd |-> i]
              \/ \E l \in DOMAIN slots : slots'[k] = slots[l] /\ slots[l].frame # chain[i].frame
<1> DEFINE m == [frame |-> chain[i].frame, cmd |-> i]
<1>1. m \in Slot /\ m.frame = chain[i].frame /\ m.cmd = i
  BY Entries DEF Slot
<1>2. slots \in Seq(Slot) /\ \A k, l \in DOMAIN slots : k # l => slots[k].frame # slots[l].frame
  BY DEF SlotsOK
<1>3. \A l \in DOMAIN slots : slots[l].cmd \in DOMAIN chain /\ slots[l].frame = chain[slots[l].cmd].frame
  BY DEF SlotsOK
<1> HIDE DEF m
<1>4. ASSUME NEW r \in Seq(Slot), slots' = Append(r, m),
             \A k \in DOMAIN r : \E l \in DOMAIN slots : r[k] = slots[l] /\ slots[l].frame # chain[i].frame,
             \A k, l \in DOMAIN r : k # l => r[k].frame # r[l].frame
      PROVE  /\ SlotsOK' /\ (\E k \in DOMAIN slots' : slots'[k].cmd = i)
             /\ \A k \in DOMAIN slots' :
                  slots'[k] = m \/ \E l \in DOMAIN slots : slots'[k] = slots[l] /\ slots[l].frame # chain[i].frame
  <2>1. /\ slots' \in Seq(Slot) /\ DOMAIN slots' = 1..(Len(r) + 1)
        /\ DOMAIN r = 1..Len(r) /\ Len(r) \in Nat
        /\ slots'[Len(r) + 1] = m /\ \A k \in 1..Len(r) : slots'[k] = r[k]
    BY <1>1, <1>4
  <2>2. \A k \in DOMAIN slots' : k = Len(r) + 1 \/ k \in DOMAIN r
    BY <2>1
  <2>3. \A k \in DOMAIN r : slots'[k] = r[k] /\ k \in DOMAIN slots' /\ k # Len(r) + 1
    BY <2>1
  <2>4. \A k \in DOMAIN slots' :
           slots'[k] = m \/ \E l \in DOMAIN slots : slots'[k] = slots[l] /\ slots[l].frame # chain[i].frame
    BY <1>4, <2>1, <2>2, <2>3
  <2>5. \A k, l \in DOMAIN slots' : k # l => slots'[k].frame # slots'[l].frame
    BY <1>1, <1>4, <2>1, <2>2, <2>3
  <2>6. \A k \in DOMAIN slots' : slots'[k].cmd \in DOMAIN chain /\ slots'[k].frame = chain[slots'[k].cmd].frame
    BY <1>1, <1>3, <2>4
  <2>7. Len(r) + 1 \in DOMAIN slots' /\ slots'[Len(r) + 1].cmd = i
    BY <1>1, <2>1
  <2> QED
    BY <2>1, <2>4, <2>5, <2>6, <2>7 DEF SlotsOK
<1>5. ASSUME NEW k \in DOMAIN slots, slots' = Append(Without(slots, k), m),
             \A l \in DOMAIN slots \ {k} : slots[l].frame # chain[i].frame
      PROVE  /\ SlotsOK' /\ (\E j \in DOMAIN slots' : slots'[j].cmd = i)
             /\ \A j \in DOMAIN slots' :
                  slots'[j] = m \/ \E l \in DOMAIN slots : slots'[j] = slots[l] /\ slots[l].frame # chain[i].frame
  <2> DEFINE r == Without(slots, k)
  <2>1. /\ r \in Seq(Slot) /\ \A j \in DOMAIN r : \E l \in DOMAIN slots \ {k} : r[j] = slots[l]
        /\ \A j, l \in DOMAIN r : j # l => r[j].frame # r[l].frame
    BY <1>2, WithoutSlot, ZenonT(60)
  <2> HIDE DEF r
  <2>2. \A j \in DOMAIN r : \E l \in DOMAIN slots : r[j] = slots[l] /\ slots[l].frame # chain[i].frame
    BY <1>5, <2>1
  <2>3. slots' = Append(r, m)
    BY <1>5 DEF r
  <2> QED
    BY <2>1, <2>2, <2>3, <1>4
<1>6. CASE \E k \in Pending(chain[i].frame) : slots' = Append(Without(slots, k), m)
  BY <1>2, <1>5, <1>6 DEF Pending, m
<1>7. CASE Pending(chain[i].frame) = {} /\ slots' = Append(slots, m)
  BY <1>7, <1>2, <1>4 DEF Pending, m
<1>8. CASE Pending(chain[i].frame) = {} /\ Len(slots) >= SLOTS /\ slots' = Append(Without(slots, 1), m)
  <2>1. 1 \in DOMAIN slots
    BY <1>2, <1>8, ArkivConstants
  <2> QED
    BY <1>5, <1>8, <2>1 DEF Pending, m
<1> QED
  BY <1>6, <1>7, <1>8 DEF Track, m

\* What a binding or its erasure may leave in flash.
LEMMA KeysType ==
  ASSUME NEW o \in Anyone, NEW e \in Anyone, NEW n \in 0..Top, NEW c \in BOOLEAN
  PROVE  /\ Keys(o, e, n, c) \in Binding
         /\ Keys(o, e, n, c).owner = o /\ Keys(o, e, n, c).enc = e
         /\ Keys(o, e, n, c).ctr = n /\ Keys(o, e, n, c).claimed = c
BY DEF Keys, Binding
LEMMA StoredKeys ==
  ASSUME TypeOK
  PROVE  /\ nvs.owner \in Anyone /\ nvs.enc \in Anyone /\ nvs.ctr \in 0..Top /\ nvs.claimed \in BOOLEAN
         /\ auth.owner \in Anyone /\ auth.enc \in Anyone /\ auth.ctr \in 0..Top /\ auth.claimed \in BOOLEAN
         /\ nvs = Keys(nvs.owner, nvs.enc, nvs.ctr, nvs.claimed)
         /\ Nobody \in Anyone /\ 0 \in 0..Top /\ Owners \subseteq Anyone /\ Top \in Nat
BY ArkivConstants DEF KeysOK, TypeOK, Binding, Keys, Anyone

LEMMA BindKeysType ==
  ASSUME TypeOK, NEW o \in Owners, NEW k \in 1..4
  PROVE  BindKeys(o)[k] \in Binding
<1>1. o \in Anyone /\ TRUE \in BOOLEAN
  BY StoredKeys
<1>2. Keys(o, nvs.enc, nvs.ctr, nvs.claimed) \in Binding /\ Keys(o, o, nvs.ctr, nvs.claimed) \in Binding
  BY <1>1, KeysType, StoredKeys, Zenon
<1>3. Keys(o, o, 0, nvs.claimed) \in Binding /\ Keys(o, o, 0, TRUE) \in Binding
  BY <1>1, KeysType, StoredKeys, Zenon
<1>4. BindKeys(o)[1] \in Binding /\ BindKeys(o)[2] \in Binding /\ BindKeys(o)[3] \in Binding /\ BindKeys(o)[4] \in Binding
  BY <1>2, <1>3 DEF BindKeys
<1>5. k = 1 \/ k = 2 \/ k = 3 \/ k = 4
  OBVIOUS
<1> QED
  BY <1>4, <1>5

\* What a failed erasure leaves, and what power that fails in an erasure does.
LEMMA ErasedType ==
  ASSUME TypeOK
  PROVE  Unbound \in Binding /\ Torn \subseteq Binding /\ Cut \subseteq Binding
<1>1. Unbound \in Binding
  BY KeysType, StoredKeys, Zenon DEF Unbound
<1>2. Keys(nvs.owner, Nobody, 0, FALSE) \in Binding /\ Keys(Nobody, nvs.enc, 0, FALSE) \in Binding
  BY KeysType, StoredKeys, Zenon
<1>3. Keys(Nobody, Nobody, nvs.ctr, FALSE) \in Binding /\ Keys(Nobody, Nobody, 0, nvs.claimed) \in Binding
  BY KeysType, StoredKeys, Zenon
<1>4. Keys(Nobody, nvs.enc, nvs.ctr, nvs.claimed) \in Binding /\ Keys(Nobody, Nobody, nvs.ctr, nvs.claimed) \in Binding
  BY KeysType, StoredKeys, Zenon
<1> QED
  BY <1>1, <1>2, <1>3, <1>4 DEF Torn, Cut

\* What a step that leaves the chain alone keeps.
LEMMA Kept ==
  ASSUME TypeOK, chain' = chain
  PROVE  /\ ChainOK'
         /\ UNCHANGED <<auth, nvs>> => KeysOK'
         /\ UNCHANGED sweep => SweepOK'
         /\ UNCHANGED slots => SlotsOK'
         /\ UNCHANGED <<line, release>> => LineOK'
         /\ UNCHANGED <<ran, lapses, faults, binds>> => RunsOK'
BY DEF TypeOK, ChainOK, KeysOK, SweepOK, SlotsOK, LineOK, RunsOK

\* Runs counted anew, or not at all.
LEMMA RunsKept ==
  ASSUME TypeOK, chain' = chain, ran' = ran \/ ran' = NeverRan,
         lapses' \in Nat, faults' \in Nat, binds' \in Nat
  PROVE  RunsOK'
<1>1. NeverRan \in [Ids -> Nat] /\ \A i \in Ids : NeverRan[i] = 0
  BY DEF NeverRan
<1>2. RunsOK
  BY DEF TypeOK
<1> QED
  BY <1>1, <1>2 DEF RunsOK

\* The keys as a restart takes them over.
LEMMA Found ==
  ASSUME NEW f \in Binding, NEW c \in 0..Top, Reboot(f, c)
  PROVE  /\ nvs' = f /\ auth' \in Binding
         /\ auth'.owner = f.owner /\ auth'.enc = f.enc /\ auth'.claimed = f.claimed /\ auth'.ctr = c
<1>1. nvs' = f /\ auth' = [f EXCEPT !.ctr = c]
  BY DEF Reboot
<1> QED
  BY <1>1 DEF Binding

\* A restart, whatever it finds.
LEMMA RebootType ==
  ASSUME TypeOK, NEW f \in Binding, NEW c \in 0..Top, Reboot(f, c),
         lapses' \in Nat, faults' \in Nat, binds' \in Nat
  PROVE  TypeOK'
<1>1. /\ chain' = chain /\ line' = line /\ slots' = <<>> /\ release' = 0
      /\ sweep' = NoSweep /\ (ran' = ran \/ ran' = NeverRan)
  BY DEF Reboot
<1>a. nvs' = f /\ auth' \in Binding
  BY Found
<1>2. SlotsOK'
  <2>1. slots' \in Seq(Slot) /\ DOMAIN slots' = {}
    BY <1>1
  <2> QED
    BY <2>1 DEF SlotsOK
<1>3. KeysOK' /\ SweepOK'
  BY <1>1, <1>a DEF KeysOK, SweepOK
<1>4. LineOK'
  BY <1>1 DEF LineOK, TypeOK
<1> QED
  BY <1>1, <1>2, <1>3, <1>4, Kept, RunsKept DEF TypeOK

\* A task that sweeps has a sweep.
LEMMA InSweep ==
  ASSUME TypeOK, NEW t \in Tasks, sweep.by = t
  PROVE  sweep \in Sweep /\ sweep # NoSweep /\ sweep.cand \subseteq DOMAIN chain
<1>1. sweep # NoSweep
  BY DEF NoSweep, Tasks
<1> QED
  BY <1>1 DEF TypeOK, SweepOK

\* A set of numbers has a least one, and so has a page that is not empty.
LEMMA Least ==
  ASSUME NEW S, S \subseteq Nat, S # {}
  PROVE  \E x \in S : \A y \in S : x <= y
<1>1. \E x \in S : \A y \in S : ~(<<y, x>> \in OpToRel(<, Nat))
  BY WFMin, NatLessThanWellFounded, Zenon
<1>2. \A x, y \in Nat : y < x => <<y, x>> \in OpToRel(<, Nat)
  BY Zenon DEF OpToRel
<1>3. \E x \in S : \A y \in S : ~(y < x)
  BY <1>1, <1>2, Zenon
<1> QED
  BY <1>3

LEMMA PageHasMin ==
  ASSUME ChainOK, ~(Cardinality(Page) < PAGE_N)
  PROVE  /\ PageMin \in Nat /\ \E i \in Page : PageMin = chain[i].seq
         /\ \A i \in Page : PageMin <= chain[i].seq
<1>1. Page # {}
  <2>1. Cardinality({}) = 0 /\ PAGE_N \in Nat \ {0}
    BY FS_EmptySet, ArkivConstants
  <2> QED
    BY <2>1
<1> DEFINE S == {chain[i].seq : i \in Page}
<1>2. S \subseteq Nat /\ S # {}
  <2>1. Page \subseteq DOMAIN chain
    BY DEF Page, InWindow
  <2>2. \A i \in DOMAIN chain : chain[i].seq \in Nat
    BY Entries
  <2> QED
    BY <1>1, <2>1, <2>2
<1>3. \E x \in S : \A y \in S : x <= y
  BY <1>2, Least
<1>4. \E x \in S : \A i \in Page : x <= chain[i].seq
  BY <1>3
<1>5. PageMin \in S /\ \A i \in Page : PageMin <= chain[i].seq
  BY <1>4 DEF PageMin
<1> QED
  BY <1>2, <1>5

\* One page: what it keeps is on the chain.
LEMMA GatherType ==
  ASSUME TypeOK, NEW t \in Tasks, Gather(t)
  PROVE  /\ sweep \in Sweep /\ sweep' \in Sweep
         /\ sweep'.cand = Lowest(sweep.cand \cup Page) /\ sweep'.cand \subseteq sweep.cand \cup Page
         /\ sweep.cand \cup Page \subseteq DOMAIN chain
         /\ sweep'.base = sweep.base /\ sweep'.gen = sweep.gen
<1>1. sweep \in Sweep /\ sweep.cand \subseteq DOMAIN chain
  BY InSweep DEF Gather
<1>2. Page \subseteq DOMAIN chain /\ Lowest(sweep.cand \cup Page) \subseteq sweep.cand \cup Page
  BY DEF Page, InWindow, Lowest
<1>3. ~(Cardinality(Page) < PAGE_N) => PageMin \in Nat
  BY PageHasMin DEF TypeOK
<1>4. sweep'.floor \in Nat /\ sweep'.pages \in Nat
  <2>1. Top + 1 \in Nat /\ sweep.pages + 1 \in Nat
    BY <1>1, ArkivConstants, SMTT(60) DEF Sweep
  <2> QED
    BY <1>1, <1>3, <2>1 DEF Gather, Sweep
<1>5. /\ sweep' = [sweep EXCEPT !.cand = Lowest(sweep.cand \cup Page), !.evicted = sweep'.evicted, !.complete = sweep'.complete,
                               !.gathering = sweep'.gathering, !.pages = sweep'.pages, !.floor = sweep'.floor]
      /\ sweep'.evicted \in BOOLEAN /\ sweep'.complete \in BOOLEAN /\ sweep'.gathering \in BOOLEAN
  BY <1>1 DEF Gather, Sweep
<1>6. Lowest(sweep.cand \cup Page) \subseteq Ids
  BY <1>1, <1>2, Entries DEF TypeOK
<1> QED
  BY <1>1, <1>2, <1>4, <1>5, <1>6 DEF Sweep

\* Slots that are some of those there were.
LEMMA FewerSlots ==
  ASSUME TypeOK, chain' = chain, NEW k \in DOMAIN slots, slots' = Without(slots, k)
  PROVE  SlotsOK'
<1>1. /\ slots \in Seq(Slot)
      /\ \A l \in DOMAIN slots : slots[l].cmd \in DOMAIN chain /\ slots[l].frame = chain[slots[l].cmd].frame
      /\ \A i, j \in DOMAIN slots : i # j => slots[i].frame # slots[j].frame
  BY DEF TypeOK, SlotsOK
<1>2. /\ slots' \in Seq(Slot) /\ \A j \in DOMAIN slots' : \E l \in DOMAIN slots \ {k} : slots'[j] = slots[l]
      /\ \A i, j \in DOMAIN slots' : i # j => slots'[i].frame # slots'[j].frame
  <2> DEFINE r == Without(slots, k)
  <2>1. /\ r \in Seq(Slot) /\ \A j \in DOMAIN r : \E l \in DOMAIN slots \ {k} : r[j] = slots[l]
        /\ \A j, l \in DOMAIN r : j # l => r[j].frame # r[l].frame
    BY <1>1, WithoutSlot, ZenonT(60)
  <2>2. slots' = r
    OBVIOUS
  <2> QED
    BY <2>1, <2>2
<1> QED
  BY <1>1, <1>2 DEF SlotsOK

\* A dispatched command, part by part.
LEMMA DispatchType ==
  ASSUME TypeOK, NEW t \in Tasks, Dispatch(t)
  PROVE  TypeOK'
<1>1. PICK i \in sweep.cand :
        /\ Advance(i)
        /\ \/ Forward(i) /\ sweep' = [sweep EXCEPT !.cand = @ \ {i}, !.dispatched = @ + 1]
           \/ LocalOp(i) /\ sweep' = [sweep EXCEPT !.cand = @ \ {i}, !.dispatched = MAX_PER_SWEEP]
  BY DEF Dispatch
<1>2. chain' = chain /\ ChainOK /\ SlotsOK /\ LineOK /\ RunsOK /\ KeysOK
  BY DEF Dispatch, TypeOK
<1>3. sweep \in Sweep /\ sweep.cand \subseteq DOMAIN chain /\ i \in DOMAIN chain /\ i \in Ids
  BY InSweep, Entries DEF Dispatch, Dispatching, TypeOK
<1>4. SweepOK'
  <2>1. MAX_PER_SWEEP \in Nat
    BY ArkivConstants
  <2>2. sweep' \in Sweep /\ sweep'.cand \subseteq sweep.cand
    <3>1. \E d \in Nat : sweep' = [sweep EXCEPT !.cand = @ \ {i}, !.dispatched = d]
      <4>1. sweep.dispatched + 1 \in Nat
        BY <1>3 DEF Sweep
      <4> QED
        BY <1>1, <2>1, <4>1
    <3>2. PICK d \in Nat : sweep' = [sweep EXCEPT !.cand = @ \ {i}, !.dispatched = d]
      BY <3>1
    <3> QED
      BY <1>3, <3>2 DEF Sweep
  <2> QED
    BY <1>2, <1>3, <2>2 DEF SweepOK
<1>5. KeysOK'
  <2>1. chain[i].seq \in 0..Top
    BY <1>2, <1>3, Entries
  <2>2. auth' = [auth EXCEPT !.ctr = chain[i].seq] /\ (nvs' = [nvs EXCEPT !.ctr = chain[i].seq] \/ nvs' = nvs)
    BY <1>1 DEF Advance
  <2> QED
    BY <1>2, <2>1, <2>2 DEF KeysOK, Binding
<1>6. RunsOK'
  <2>1. lapses' \in Nat /\ faults' \in Nat /\ binds' \in Nat
    BY <1>1, <1>2 DEF Advance, Budget, RunsOK
  <2>2. ran' = [ran EXCEPT ![i] = @ + 1]
    BY <1>1 DEF Advance
  <2> QED
    BY <1>2, <1>3, <2>1, <2>2 DEF RunsOK
<1>7. LineOK'
  BY <1>1, <1>2, <1>3 DEF LineOK, Forward, LocalOp
<1>8. SlotsOK'
  <2>1. slots' = slots \/ Track(i)
    BY <1>1 DEF Forward, LocalOp
  <2> QED
    BY <1>2, <1>3, <2>1, Kept, TrackSlots
<1> QED
  BY <1>2, <1>4, <1>5, <1>6, <1>7, <1>8, Kept DEF TypeOK

\* Every step keeps the types.
LEMMA TypeStep ==
  ASSUME TypeOK, [Next]_vars
  PROVE  TypeOK'
<1> USE DEF binding, answering, ghosts
<1>0. ChainOK /\ KeysOK /\ SweepOK /\ SlotsOK /\ LineOK /\ RunsOK
  BY DEF TypeOK
<1>1. CASE UNCHANGED vars
  BY <1>1, Kept DEF TypeOK, vars
<1>2. CASE Creates
  <2>1. UNCHANGED <<auth, nvs, sweep, slots, line, release, ran, lapses, faults, binds>>
    BY <1>2 DEF Creates
  <2>2. ChainOK' /\ DOMAIN chain \subseteq DOMAIN chain' /\ \A i \in DOMAIN chain : chain'[i] = chain[i]
    BY <1>0, <1>2, ChainGrows
  <2>3. KeysOK' /\ SweepOK' /\ LineOK' /\ RunsOK'
    BY <1>0, <2>1, <2>2 DEF KeysOK, SweepOK, LineOK, RunsOK
  <2>4. SlotsOK'
    BY <1>0, <2>1, <2>2 DEF SlotsOK
  <2> QED
    BY <2>2, <2>3, <2>4 DEF TypeOK
<1>3. CASE WsConnected \/ WsSubscribed \/ WsDisconnected \/ PollWakes \/ WorkerWakes
  <2>1. UNCHANGED <<chain, auth, nvs, sweep, slots, line, release, ran, lapses, faults, binds>>
    BY <1>3 DEF WsConnected, WsSubscribed, WsDisconnected, PollWakes, WorkerWakes
  <2> QED
    BY <2>1, Kept DEF TypeOK
<1>4. ASSUME NEW t \in Tasks, SweepBegins(t)
      PROVE  TypeOK'
  <2>1. UNCHANGED <<chain, auth, nvs, slots, line, release, ran, lapses, faults, binds>>
    BY <1>4 DEF SweepBegins
  <2>2. sweep' = sweep \/ (sweep' \in Sweep /\ sweep'.cand = {})
    <3>1. auth.ctr \in Nat /\ Top + 1 \in Nat /\ binds \in Nat
      BY <1>0, StoredKeys DEF RunsOK
    <3>2. ASSUME NEW w, w = [by |-> t, gen |-> binds, base |-> auth.ctr, floor |-> Top + 1, pages |-> 0,
                       cand |-> {}, evicted |-> FALSE, complete |-> FALSE,
                       gathering |-> TRUE, dispatched |-> 0]
          PROVE  w \in Sweep /\ w.cand = {}
      BY <3>1, <3>2 DEF Sweep
    <3> QED
      BY <1>4, <3>2 DEF SweepBegins
  <2>3. SweepOK'
    BY <1>0, <2>1, <2>2 DEF SweepOK
  <2> QED
    BY <2>1, <2>3, Kept DEF TypeOK
<1>5. ASSUME NEW t \in Tasks, Gather(t)
      PROVE  TypeOK'
  <2>1. UNCHANGED <<chain, auth, nvs, slots, line, release, ran, lapses, faults, binds>>
    BY <1>5 DEF Gather
  <2>2. sweep' \in Sweep /\ sweep'.cand \subseteq DOMAIN chain
    BY <1>5, GatherType
  <2>3. SweepOK'
    BY <2>1, <2>2 DEF SweepOK
  <2> QED
    BY <2>1, <2>3, Kept DEF TypeOK
<1>6. ASSUME NEW t \in Tasks, GatherAborted(t) \/ SweepEnds(t)
      PROVE  TypeOK'
  <2>1. UNCHANGED <<chain, auth, nvs, slots, line, release, ran, lapses, faults, binds>> /\ sweep' = NoSweep
    BY <1>6 DEF GatherAborted, SweepEnds
  <2>2. SweepOK'
    BY <2>1 DEF SweepOK
  <2> QED
    BY <2>1, <2>2, Kept DEF TypeOK
<1>8. ASSUME NEW t \in Tasks, Skip(t)
      PROVE  TypeOK'
  <2>1. UNCHANGED <<chain, auth, nvs, slots, line, release, ran, lapses, faults, binds>>
    BY <1>8 DEF Skip
  <2>2. PICK i \in sweep.cand : sweep' = [sweep EXCEPT !.cand = @ \ {i}]
    BY <1>8 DEF Skip
  <2>3. sweep \in Sweep /\ sweep.cand \subseteq DOMAIN chain
    BY <1>8, InSweep DEF Skip, Dispatching
  <2>4. sweep' \in Sweep /\ sweep'.cand \subseteq sweep.cand
    BY <2>2, <2>3 DEF Sweep
  <2>5. SweepOK'
    BY <2>1, <2>3, <2>4 DEF SweepOK
  <2> QED
    BY <2>1, <2>5, Kept DEF TypeOK
<1>10. CASE AnswerLost \/ OnResponse
  <2>1. UNCHANGED <<chain, auth, nvs, sweep, slots, ran, lapses, faults, binds>>
    BY <1>10 DEF AnswerLost, OnResponse
  <2>2. line' \subseteq line /\ release' \in {0} \cup DOMAIN chain
    BY <1>0, <1>10 DEF AnswerLost, OnResponse, Emit, Pending, LineOK, SlotsOK
  <2>3. LineOK'
    BY <1>0, <2>1, <2>2 DEF LineOK
  <2> QED
    BY <2>1, <2>3, Kept DEF TypeOK
<1>11. CASE MappingExpires \/ ReleaseMapping
  <2>1. UNCHANGED <<chain, auth, nvs, sweep, line, ran, lapses, faults, binds>> /\ release' \in {0, release}
    BY <1>11 DEF MappingExpires, ReleaseMapping
  <2>2. slots # <<>> => 1 \in DOMAIN slots
    BY <1>0 DEF SlotsOK
  <2>3. slots' = slots \/ \E k \in DOMAIN slots : slots' = Without(slots, k)
    BY <1>11, <2>2 DEF MappingExpires, ReleaseMapping
  <2>4. SlotsOK'
    BY <2>1, <2>3, FewerSlots, Kept
  <2>5. LineOK'
    BY <1>0, <2>1 DEF LineOK
  <2> QED
    BY <2>1, <2>4, <2>5, Kept DEF TypeOK
<1>14. CASE Bind
  <2>1. UNCHANGED <<chain, sweep, slots, line, release>> /\ lapses' \in Nat /\ faults' \in Nat /\ binds' \in Nat
        /\ (ran' = ran \/ ran' = NeverRan)
    BY <1>0, <1>14 DEF Bind, Budget, RunsOK
  <2>2. KeysOK'
    <3>1. PICK o \in Owners : \/ nvs' = BindKeys(o)[4] /\ auth' = nvs'
                              \/ (\E k \in 1..3 : nvs' = BindKeys(o)[k]) /\ UNCHANGED auth
      BY <1>14 DEF Bind
    <3>2. auth \in Binding /\ 4 \in 1..4 /\ 1..3 \subseteq 1..4
      BY <1>0 DEF KeysOK
    <3> QED
      BY <3>1, <3>2, BindKeysType DEF KeysOK
  <2> QED
    BY <2>1, <2>2, Kept, RunsKept DEF TypeOK
<1>15. CASE Clear
  <2>1. UNCHANGED <<chain, sweep, slots, line, release>> /\ ran' = NeverRan
        /\ lapses' \in Nat /\ faults' \in Nat /\ binds' \in Nat
        /\ auth' = Unbound /\ (nvs' = Unbound \/ nvs' \in Torn)
    BY <1>0, <1>15 DEF Clear, Budget, RunsOK
  <2>2. KeysOK'
    BY <2>1, ErasedType DEF KeysOK
  <2> QED
    BY <2>1, <2>2, Kept, RunsKept DEF TypeOK
<1>16. CASE Restart
  <2>1. nvs \in Binding /\ nvs.ctr \in 0..Top /\ Reboot(nvs, nvs.ctr)
    BY <1>0, <1>16, StoredKeys DEF Restart, KeysOK
  <2>2. lapses' \in Nat /\ faults' \in Nat /\ binds' \in Nat
    BY <1>0, <1>16 DEF Restart, RunsOK
  <2> QED
    BY <2>1, <2>2, RebootType
<1>19. CASE RestartMisread
  <2>1. nvs \in Binding /\ 0 \in 0..Top /\ Reboot(nvs, 0)
    BY <1>0, <1>19, StoredKeys DEF RestartMisread, KeysOK
  <2>2. lapses' \in Nat /\ faults' \in Nat /\ binds' \in Nat
    BY <1>0, <1>19 DEF RestartMisread, Budget, RunsOK
  <2> QED
    BY <2>1, <2>2, RebootType
<1>17. CASE CutWhileBinding
  <2>1. lapses' \in Nat /\ faults' \in Nat /\ binds' \in Nat
    BY <1>0, <1>17 DEF CutWhileBinding, Budget, RunsOK
  <2>2. PICK o \in Owners, k \in 1..3 : Reboot(BindKeys(o)[k], BindKeys(o)[k].ctr)
    BY <1>17 DEF CutWhileBinding
  <2>3. BindKeys(o)[k] \in Binding /\ BindKeys(o)[k].ctr \in 0..Top
    BY BindKeysType DEF Binding
  <2> QED
    BY <2>1, <2>2, <2>3, RebootType
<1>18. CASE CutWhileClearing
  <2>1. lapses' \in Nat /\ faults' \in Nat /\ binds' \in Nat
    BY <1>0, <1>18 DEF CutWhileClearing, Budget, RunsOK
  <2>2. PICK f \in Cut : Reboot(f, f.ctr)
    BY <1>18 DEF CutWhileClearing
  <2>3. f \in Binding /\ f.ctr \in 0..Top
    BY ErasedType DEF Binding
  <2> QED
    BY <2>1, <2>2, <2>3, RebootType
<1> QED
  BY <1>1, <1>2, <1>3, <1>4, <1>5, <1>6, <1>8, <1>10, <1>11, <1>14, <1>15, <1>16, <1>17, <1>18, <1>19, DispatchType DEF Next

-----------------------------------------------------------------------------
(* The binding, in force and stored. *)

LEMMA KeyFields ==
  ASSUME NEW o, NEW e, NEW n, NEW c
  PROVE  /\ Keys(o, e, n, c).owner = o /\ Keys(o, e, n, c).enc = e
         /\ Keys(o, e, n, c).ctr = n /\ Keys(o, e, n, c).claimed = c
BY DEF Keys

\* The keys of a binding that was not completed: the counter and the claim are
\* the earlier ones or the new ones, and the seal is the new owner's unless
\* only the owner was written.
LEMMA PartBound ==
  ASSUME TypeOK, NEW o \in Owners, NEW k \in 1..3
  PROVE  /\ BindKeys(o)[k].owner = o /\ BindKeys(o)[k].claimed = nvs.claimed
         /\ BindKeys(o)[k].ctr \in {0, nvs.ctr}
         /\ BindKeys(o)[k].enc = o \/ k = 1
<1>1. /\ BindKeys(o)[1] = Keys(o, nvs.enc, nvs.ctr, nvs.claimed)
      /\ BindKeys(o)[2] = Keys(o, o, nvs.ctr, nvs.claimed)
      /\ BindKeys(o)[3] = Keys(o, o, 0, nvs.claimed)
  BY DEF BindKeys
<1>2. k = 1 \/ k = 2 \/ k = 3
  OBVIOUS
<1> QED
  BY <1>1, <1>2, KeyFields

LEMMA FullyBound ==
  ASSUME NEW o \in Owners
  PROVE  /\ BindKeys(o)[4].owner = o /\ BindKeys(o)[4].claimed
         /\ BindKeys(o)[4].ctr = 0 /\ BindKeys(o)[4].enc = o
<1> DEFINE k == Keys(o, o, 0, TRUE)
<1>1. k.claimed
  BY Zenon DEF Keys
<1>2. k.owner = o /\ k.ctr = 0 /\ k.enc = o
  BY DEF Keys
<1>3. BindKeys(o) = <<Keys(o, nvs.enc, nvs.ctr, nvs.claimed), Keys(o, o, nvs.ctr, nvs.claimed),
                      Keys(o, o, 0, nvs.claimed), k>>
  BY Zenon DEF BindKeys
<1> HIDE DEF k
<1> QED
  BY <1>1, <1>2, <1>3

\* The keys an erasure leaves when one of them fails, or power does.
LEMMA PartErased ==
  /\ Unbound.owner = Nobody /\ ~Unbound.claimed /\ Unbound.ctr = 0
  /\ \A f \in Torn : f.ctr \in {0, nvs.ctr} /\ (f.claimed => f.owner = Nobody /\ f.ctr = 0 /\ nvs.claimed)
  /\ \A f \in Cut : f.owner = Nobody /\ f.ctr \in {0, nvs.ctr} /\ f.claimed = nvs.claimed
<1>1. Unbound.owner = Nobody /\ Unbound.ctr = 0
  BY DEF Unbound, Keys
<1>2. ~Unbound.claimed
  BY Zenon DEF Unbound, Keys
<1>3. \A f \in Torn : f.ctr \in {0, nvs.ctr} /\ (f.claimed => f.owner = Nobody /\ f.ctr = 0 /\ nvs.claimed)
  <2> DEFINE no == FALSE
             T == {Keys(nvs.owner, Nobody, 0, no), Keys(Nobody, nvs.enc, 0, no),
                   Keys(Nobody, Nobody, nvs.ctr, no), Keys(Nobody, Nobody, 0, nvs.claimed)}
  <2>1. ~no /\ Torn = T
    BY Zenon DEF Torn
  <2> HIDE DEF no
  <2> QED
    BY <2>1, KeyFields
<1>4. \A f \in Cut : f.owner = Nobody /\ f.ctr \in {0, nvs.ctr} /\ f.claimed = nvs.claimed
  BY KeyFields DEF Cut
<1> QED
  BY <1>1, <1>2, <1>3, <1>4

\* A restart with keys that are whole, or to which two faults have led.
LEMMA RebootBinding ==
  ASSUME TypeOK, BindingInv, NEW f \in Binding, NEW c \in 0..Top, Reboot(f, c), faults' \in Nat,
         f.claimed /\ f.owner # Nobody /\ f.enc # f.owner => faults' >= 2,
         c = f.ctr \/ lapses' > 0
  PROVE  BindingInv'
<1>1. nvs' = f /\ chain' = chain
      /\ ran' = (IF f.claimed /\ auth.claimed /\ f.owner = auth.owner THEN ran ELSE NeverRan)
  BY DEF Reboot
<1>a. auth'.owner = f.owner /\ auth'.enc = f.enc /\ auth'.claimed = f.claimed /\ auth'.ctr = c
  BY Found
<1>2. \A i \in DOMAIN chain : ran'[i] > 0 => f.claimed /\ chain[i].by = f.owner
  <2>1. \A i \in DOMAIN chain : NeverRan[i] = 0
    BY Entries DEF NeverRan, TypeOK
  <2> QED
    BY <1>1, <2>1 DEF BindingInv
<1>3. f.ctr \in Nat
  BY DEF Binding
<1> QED
  BY <1>1, <1>2, <1>3, <1>a DEF BindingInv

LEMMA BindingStep ==
  ASSUME TypeOK, BindingInv, [Next]_vars
  PROVE  BindingInv'
<1> USE DEF binding, answering, ghosts
<1>0. ChainOK /\ KeysOK /\ SweepOK /\ SlotsOK /\ LineOK /\ RunsOK
  BY DEF TypeOK
<1>a. \A i \in Ids : NeverRan[i] = 0
  BY DEF NeverRan
<1>b. auth.ctr \in Nat /\ nvs.ctr \in Nat /\ faults \in Nat /\ DOMAIN chain \subseteq Ids
  BY <1>0, StoredKeys, Entries DEF RunsOK
<1>c. ASSUME UNCHANGED <<chain, auth, nvs, ran, lapses, faults>>
      PROVE  BindingInv'
  BY <1>c DEF BindingInv
<1>1. CASE Creates
  <2>1. UNCHANGED <<auth, nvs, ran, lapses, faults>>
    BY <1>1 DEF Creates
  <2>2. /\ DOMAIN chain' = DOMAIN chain \cup {Len(chain) + 1} /\ Len(chain) + 1 \in Ids \ DOMAIN chain
        /\ \A i \in DOMAIN chain : chain'[i] = chain[i]
    BY <1>0, <1>1, ChainGrows
  <2>3. ran[Len(chain) + 1] = 0
    BY <1>0, <2>2 DEF RunsOK
  <2> QED
    BY <2>1, <2>2, <2>3 DEF BindingInv
<1>2. ASSUME NEW t \in Tasks, Dispatch(t)
      PROVE  BindingInv'
  <2>1. PICK i \in sweep.cand : Accepted(i) /\ Advance(i)
    BY <1>2 DEF Dispatch
  <2>2. chain' = chain /\ i \in DOMAIN chain /\ chain[i].seq \in Nat
    BY <1>0, <1>2, InSweep, Entries DEF Dispatch, Dispatching
  <2>3. auth.claimed /\ chain[i].by = auth.owner /\ auth.ctr < chain[i].seq
    BY <2>1 DEF Accepted, Valid
  <2>4. /\ auth'.claimed = auth.claimed /\ auth'.owner = auth.owner /\ auth'.enc = auth.enc /\ auth'.ctr = chain[i].seq
        /\ nvs'.claimed = nvs.claimed /\ nvs'.owner = nvs.owner /\ nvs'.enc = nvs.enc /\ nvs'.ctr \in {nvs.ctr, chain[i].seq}
        /\ faults' \in Nat /\ faults' >= faults /\ (nvs'.ctr = chain[i].seq \/ lapses' > 0)
    <3>1. auth \in Binding /\ nvs \in Binding /\ auth' = [auth EXCEPT !.ctr = chain[i].seq]
          /\ (nvs' = [nvs EXCEPT !.ctr = chain[i].seq] \/ nvs' = nvs)
      BY <1>0, <2>1 DEF Advance, KeysOK
    <3>2. faults' = faults \/ faults' = faults + 1
      BY <2>1 DEF Advance, Budget
    <3>3. nvs' = [nvs EXCEPT !.ctr = chain[i].seq] \/ lapses' > 0
      BY <1>0, <2>1 DEF Advance, RunsOK
    <3> QED
      BY <1>b, <3>1, <3>2, <3>3 DEF Binding
  <2>5. \A j \in DOMAIN chain : ran'[j] > 0 => j = i \/ ran[j] > 0
    BY <1>0, <1>b, <2>1, <2>2 DEF Advance, RunsOK
  <2> QED
    BY <1>b, <2>2, <2>3, <2>4, <2>5 DEF BindingInv
<1>3. CASE Bind
  <2>1. chain' = chain /\ ~auth.claimed
    BY <1>3 DEF Bind
  <2>2. PICK o \in Owners : \/ nvs' = BindKeys(o)[4] /\ auth' = nvs' /\ ran' = NeverRan /\ UNCHANGED faults
                            \/ faults' = faults + 1 /\ (\E k \in 1..3 : nvs' = BindKeys(o)[k]) /\ UNCHANGED <<auth, ran>>
    BY <1>3 DEF Bind, Budget
  <2>3. CASE nvs' = BindKeys(o)[4] /\ auth' = nvs' /\ ran' = NeverRan /\ UNCHANGED faults
    BY <1>a, <1>b, <2>1, <2>3, FullyBound DEF BindingInv
  <2>4. CASE faults' = faults + 1 /\ (\E k \in 1..3 : nvs' = BindKeys(o)[k]) /\ UNCHANGED <<auth, ran>>
    BY <1>b, <2>1, <2>4, PartBound DEF BindingInv
  <2> QED
    BY <2>2, <2>3, <2>4
<1>4. CASE Clear
  <2>1. chain' = chain /\ auth' = Unbound /\ ran' = NeverRan
        /\ (nvs' = Unbound \/ (nvs' \in Torn /\ faults' = faults + 1))
    BY <1>4 DEF Clear, Budget
  <2> QED
    BY <1>a, <1>b, <2>1, PartErased DEF BindingInv
<1>5. CASE Restart
  <2>1. nvs \in Binding /\ nvs.ctr \in 0..Top /\ Reboot(nvs, nvs.ctr) /\ faults' = faults
    BY <1>0, <1>5, StoredKeys DEF Restart, KeysOK
  <2>2. nvs.claimed /\ nvs.owner # Nobody /\ nvs.enc # nvs.owner => faults' >= 2
    BY <2>1 DEF BindingInv
  <2> QED
    BY <1>b, <2>1, <2>2, RebootBinding
<1>10. CASE RestartMisread
  <2>1. nvs \in Binding /\ 0 \in 0..Top /\ Reboot(nvs, 0) /\ faults' = faults + 1 /\ lapses' > 0
    BY <1>0, <1>10, StoredKeys DEF RestartMisread, Budget, KeysOK, RunsOK
  <2>2. nvs.claimed /\ nvs.owner # Nobody /\ nvs.enc # nvs.owner => faults' >= 2
    BY <1>b, <2>1 DEF BindingInv
  <2> QED
    BY <1>b, <2>1, <2>2, RebootBinding
<1>6. CASE CutWhileBinding
  <2>1. faults' = faults + 1 /\ ~auth.claimed
    BY <1>6 DEF CutWhileBinding, Budget
  <2>2. PICK o \in Owners, k \in 1..3 : Reboot(BindKeys(o)[k], BindKeys(o)[k].ctr)
    BY <1>6 DEF CutWhileBinding
  <2>3. BindKeys(o)[k] \in Binding /\ BindKeys(o)[k].ctr \in 0..Top
    BY BindKeysType DEF Binding
  <2>4. BindKeys(o)[k].claimed /\ BindKeys(o)[k].owner # Nobody /\ BindKeys(o)[k].enc # BindKeys(o)[k].owner => faults' >= 2
    BY <1>b, <2>1, PartBound DEF BindingInv
  <2> QED
    BY <1>b, <2>1, <2>2, <2>3, <2>4, RebootBinding
<1>7. CASE CutWhileClearing
  <2>1. faults' = faults + 1
    BY <1>7 DEF CutWhileClearing, Budget
  <2>2. PICK f \in Cut : Reboot(f, f.ctr)
    BY <1>7 DEF CutWhileClearing
  <2>3. f \in Binding /\ f.owner = Nobody /\ f.ctr \in 0..Top
    BY ErasedType, PartErased DEF Binding
  <2> QED
    BY <1>b, <2>1, <2>2, <2>3, RebootBinding
<1>8. CASE \/ UNCHANGED vars \/ WsConnected \/ WsSubscribed \/ WsDisconnected \/ PollWakes \/ WorkerWakes
           \/ AnswerLost \/ MappingExpires \/ OnResponse \/ ReleaseMapping
  BY <1>c, <1>8 DEF vars, WsConnected, WsSubscribed, WsDisconnected, PollWakes, WorkerWakes, AnswerLost,
                 MappingExpires, OnResponse, ReleaseMapping
<1>9. ASSUME NEW t \in Tasks, SweepBegins(t) \/ Gather(t) \/ GatherAborted(t) \/ Skip(t) \/ SweepEnds(t)
      PROVE  BindingInv'
  BY <1>c, <1>9 DEF SweepBegins, Gather, GatherAborted, Skip, SweepEnds
<1> QED
  BY <1>1, <1>2, <1>3, <1>4, <1>5, <1>6, <1>7, <1>8, <1>9, <1>10 DEF Next

-----------------------------------------------------------------------------
(* The path implements the command service. *)

\* A command on the chain, as the service names it.
LEMMA CallOf ==
  ASSUME ChainOK, NEW i \in DOMAIN chain
  PROVE  LET c == [id |-> i, seq |-> chain[i].seq, by |-> chain[i].by]
         IN c \in Calls /\ OnChain(c) /\ \A d \in Calls : OnChain(d) /\ d.id = i => d = c
<1>1. i \in Ids /\ chain[i].seq \in 1..Top /\ chain[i].by \in Owners
  BY Entries
<1> QED
  BY <1>1 DEF Calls, OnChain

\* Without an owner in force, and after a binding, no run is counted.
LEMMA NoneRun ==
  /\ (\A i \in DOMAIN chain : ran[i] = 0) => CallsRun = Service!Never
  /\ (\A i \in DOMAIN chain' : ran'[i] = 0) => CallsRun' = Service!Never
BY DEF CallsRun, OnChain, Service!Never

LEMMA NoOwner ==
  ASSUME TypeOK, BindingInv, InForce = Nobody
  PROVE  CallsRun = Service!Never
<1>1. \A i \in DOMAIN chain : ran[i] = 0
  <2>1. ASSUME NEW i \in DOMAIN chain
        PROVE  ran[i] = 0
    <3>1. ran[i] \in Nat /\ chain[i].by \in Owners
      BY Entries DEF TypeOK, RunsOK
    <3>2. ran[i] > 0 => auth.claimed /\ chain[i].by = auth.owner
      BY DEF BindingInv
    <3> QED
      BY <3>1, <3>2, ArkivConstants DEF InForce
  <2> QED
    BY <2>1
<1> QED
  BY <1>1, NoneRun

\* A restart: whose commands run after it, and which runs still count.
LEMMA RebootRuns ==
  ASSUME TypeOK, BindingInv, TypeOK', BindingInv', NEW f \in Binding, NEW n \in 0..Top, Reboot(f, n)
  PROVE  /\ InForce \in Owners \cup {Nobody} /\ InForce' \in Owners \cup {Nobody}
         /\ InForce' = (IF f.claimed THEN f.owner ELSE Nobody)
         /\ InForce' = Nobody => CallsRun' = Service!Never
         /\ InForce' = InForce => CallsRun' = CallsRun
         /\ InForce' # InForce => CallsRun' = Service!Never
<1>1. /\ chain' = chain /\ auth'.owner = f.owner /\ auth'.claimed = f.claimed
      /\ ran' = (IF f.claimed /\ auth.claimed /\ f.owner = auth.owner THEN ran ELSE NeverRan)
  BY Found DEF Reboot
<1>2. InForce \in Owners \cup {Nobody} /\ InForce' \in Owners \cup {Nobody}
      /\ InForce' = (IF f.claimed THEN f.owner ELSE Nobody)
  BY <1>1, StoredKeys DEF InForce, Binding, Anyone
<1>a. InForce' = Nobody => CallsRun' = Service!Never
  <2>1. ASSUME InForce' = Nobody, NEW i \in DOMAIN chain'
        PROVE  ran'[i] = 0
    <3>1. ran'[i] \in Nat /\ chain[i].by \in Owners
      BY <1>1, Entries DEF TypeOK, RunsOK
    <3>2. ran'[i] > 0 => f.claimed /\ chain[i].by = f.owner
      BY <1>1 DEF BindingInv
    <3> QED
      BY <1>1, <2>1, <3>1, <3>2, ArkivConstants DEF InForce
  <2> QED
    BY <2>1, NoneRun
<1>3. ASSUME InForce' = InForce
      PROVE  CallsRun' = CallsRun
  <2>1. CASE ran' = ran
    BY <1>1, <2>1 DEF CallsRun, OnChain
  <2>2. CASE ran' # ran
    <3>1. InForce = Nobody
      BY <1>1, <1>3, <2>2 DEF InForce
    <3> QED
      BY <1>3, <1>a, <3>1, NoOwner
  <2> QED
    BY <2>1, <2>2
<1>4. ASSUME InForce' # InForce
      PROVE  CallsRun' = Service!Never
  <2>1. ran' = NeverRan
    BY <1>1, <1>4 DEF InForce
  <2>2. \A i \in DOMAIN chain' : ran'[i] = 0
    BY <1>1, <2>1, Entries DEF NeverRan, TypeOK
  <2> QED
    BY <2>2, NoneRun
<1> QED
  BY <1>2, <1>3, <1>4, <1>a

\* A restart with the counter as it is stored, or from none: the service's
\* restart, or its rebinding.
LEMMA RebootRefines ==
  ASSUME TypeOK, BindingInv, TypeOK', BindingInv', NEW f \in Binding, f.ctr \in 0..Top, Reboot(f, f.ctr),
         f.ctr \in {0, nvs.ctr}, lapses' = lapses,
         f.ctr = nvs.ctr \/ f.owner = Nobody \/ ~f.claimed \/ ~auth.claimed
  PROVE  Service!Next
<1>1. nvs'.ctr = f.ctr /\ auth'.ctr = f.ctr /\ lapses' = lapses
  BY Found
<1>2. /\ InForce \in Owners \cup {Nobody} /\ InForce' \in Owners \cup {Nobody}
      /\ InForce' = (IF f.claimed THEN f.owner ELSE Nobody)
      /\ InForce' = Nobody => CallsRun' = Service!Never
      /\ InForce' = InForce => CallsRun' = CallsRun
      /\ InForce' # InForce => CallsRun' = Service!Never
  BY RebootRuns
<1>3. CASE f.ctr = nvs.ctr
  <2>1. Service!Restart
    BY <1>1, <1>2, <1>3 DEF Service!Restart
  <2> QED
    BY <2>1 DEF Service!Next
<1>4. CASE f.ctr # nvs.ctr
  <2>1. f.ctr = 0 /\ CallsRun' = Service!Never
    <3>1. InForce' = Nobody \/ ~auth.claimed
      BY <1>2, <1>4
    <3>2. ~auth.claimed => InForce = Nobody
      BY DEF InForce
    <3> QED
      BY <1>2, <1>4, <3>1, <3>2
  <2>2. Service!Rebind(InForce')
    BY <1>1, <1>4, <2>1 DEF Service!Rebind
  <2> QED
    BY <1>2, <2>2 DEF Service!Next
<1> QED
  BY <1>3, <1>4

LEMMA RefineStep ==
  ASSUME TypeOK, BindingInv, TypeOK', BindingInv', [Next]_vars
  PROVE  [Service!Next]_(Service!vars)
<1> USE DEF binding, answering, ghosts
<1>0. ChainOK /\ KeysOK /\ SweepOK /\ SlotsOK /\ LineOK /\ RunsOK
  BY DEF TypeOK
<1>a. \A i \in Ids : NeverRan[i] = 0
  BY DEF NeverRan
<1>b. auth.ctr \in Nat /\ nvs.ctr \in Nat /\ DOMAIN chain \subseteq Ids
  BY <1>0, StoredKeys, Entries
<1>c. ASSUME UNCHANGED <<chain, auth, nvs, ran, lapses>>
      PROVE  UNCHANGED Service!vars
  BY <1>c DEF Service!vars, InForce, CallsRun, OnChain
<1>d. ASSUME chain' = chain, ran' = NeverRan
      PROVE  CallsRun' = Service!Never
  <2>1. \A i \in DOMAIN chain' : ran'[i] = 0
    BY <1>a, <1>b, <1>d
  <2> QED
    BY <2>1, NoneRun
<1>1. CASE Creates
  <2>1. UNCHANGED <<auth, nvs, ran, lapses>>
    BY <1>1 DEF Creates
  <2>2. /\ DOMAIN chain' = DOMAIN chain \cup {Len(chain) + 1} /\ Len(chain) + 1 \in Ids \ DOMAIN chain
        /\ \A i \in DOMAIN chain : chain'[i] = chain[i]
    BY <1>0, <1>1, ChainGrows
  <2>3. ran[Len(chain) + 1] = 0
    BY <1>0, <2>2 DEF RunsOK
  <2>4. CallsRun' = CallsRun
    BY <2>1, <2>2, <2>3 DEF CallsRun, OnChain
  <2> QED
    BY <2>1, <2>4 DEF Service!vars, InForce
<1>2. ASSUME NEW t \in Tasks, Dispatch(t)
      PROVE  Service!Next
  <2>1. PICK i \in sweep.cand : Accepted(i) /\ Advance(i)
    BY <1>2 DEF Dispatch
  <2>2. chain' = chain /\ i \in DOMAIN chain /\ i \in Ids
    BY <1>0, <1>2, InSweep, Entries DEF Dispatch, Dispatching
  <2> DEFINE c == [id |-> i, seq |-> chain[i].seq, by |-> chain[i].by]
  <2>3. c \in Calls /\ OnChain(c) /\ \A d \in Calls : OnChain(d) /\ d.id = i => d = c
    BY <1>0, <2>2, CallOf
  <2>4. c.id = i /\ c.seq = chain[i].seq /\ c.by = chain[i].by
    OBVIOUS
  <2> HIDE DEF c
  <2>5. InForce = c.by /\ auth.ctr < c.seq /\ InForce' = InForce /\ auth'.ctr = c.seq
    <3>1. auth \in Binding /\ auth' = [auth EXCEPT !.ctr = chain[i].seq]
      BY <1>0, <2>1 DEF Advance, KeysOK
    <3>2. auth'.claimed = auth.claimed /\ auth'.owner = auth.owner /\ auth'.ctr = chain[i].seq
      BY <3>1 DEF Binding
    <3> QED
      BY <2>1, <2>4, <3>2 DEF Accepted, Valid, InForce
  <2>6. \/ nvs'.ctr = c.seq /\ lapses' = lapses
        \/ nvs'.ctr = nvs.ctr /\ lapses' = lapses + 1
    <3>1. nvs \in Binding
      BY <1>0 DEF KeysOK
    <3> QED
      BY <2>1, <2>4, <3>1 DEF Advance, Binding
  <2>7. CallsRun' = [CallsRun EXCEPT ![c] = @ + 1]
    <3>1. ran' = [ran EXCEPT ![i] = @ + 1] /\ ran \in [Ids -> Nat]
      BY <1>0, <2>1 DEF Advance, RunsOK
    <3>2. \A d : OnChain(d)' <=> OnChain(d)
      BY <2>2 DEF OnChain
    <3>3. \A d \in Calls : CallsRun'[d] = IF d = c THEN CallsRun[d] + 1 ELSE CallsRun[d]
      BY <2>2, <2>3, <2>4, <3>1, <3>2 DEF CallsRun
    <3>4. CallsRun = [d \in Calls |-> CallsRun[d]] /\ CallsRun' = [d \in Calls |-> CallsRun'[d]]
      BY DEF CallsRun
    <3> QED
      BY <2>3, <3>3, <3>4
  <2>8. Service!Run(c)
    BY <2>5, <2>6, <2>7 DEF Service!Run
  <2> QED
    BY <2>3, <2>8 DEF Service!Next
<1>3. CASE Bind
  <2>1. chain' = chain /\ ~auth.claimed /\ lapses' = lapses
    BY <1>3 DEF Bind
  <2>2. PICK o \in Owners : \/ nvs' = BindKeys(o)[4] /\ auth' = nvs' /\ ran' = NeverRan
                            \/ (\E k \in 1..3 : nvs' = BindKeys(o)[k]) /\ UNCHANGED <<auth, ran>>
    BY <1>3 DEF Bind
  <2>3. CASE nvs' = BindKeys(o)[4] /\ auth' = nvs' /\ ran' = NeverRan
    <3>1. InForce' = o /\ auth'.ctr = 0 /\ nvs'.ctr = 0
      BY <2>3, FullyBound DEF InForce
    <3>2. Service!Rebind(o)
      BY <1>d, <2>1, <2>3, <3>1 DEF Service!Rebind
    <3> QED
      BY <3>2 DEF Service!Next
  <2>4. CASE (\E k \in 1..3 : nvs' = BindKeys(o)[k]) /\ UNCHANGED <<auth, ran>>
    <3>1. nvs'.ctr \in {0, nvs.ctr}
      BY <2>4, PartBound
    <3>2. InForce = Nobody /\ InForce' = InForce /\ CallsRun' = CallsRun
      BY <2>1, <2>4 DEF InForce, CallsRun, OnChain
    <3>3. CASE nvs'.ctr = nvs.ctr
      BY <2>1, <2>4, <3>2, <3>3 DEF Service!vars
    <3>4. CASE nvs'.ctr = 0
      <4>1. Service!Erase
        BY <2>1, <2>4, <3>2, <3>4 DEF Service!Erase
      <4> QED
        BY <4>1 DEF Service!Next
    <3> QED
      BY <3>1, <3>3, <3>4
  <2> QED
    BY <2>2, <2>3, <2>4
<1>4. CASE Clear
  <2>1. chain' = chain /\ auth' = Unbound /\ ran' = NeverRan /\ lapses' = lapses
        /\ (nvs' = Unbound \/ nvs' \in Torn)
    BY <1>4 DEF Clear
  <2>2. InForce' = Nobody /\ auth'.ctr = 0 /\ nvs'.ctr \in {0, nvs.ctr}
    BY <2>1, PartErased DEF InForce
  <2>3. Service!Rebind(Nobody)
    BY <1>d, <2>1, <2>2 DEF Service!Rebind
  <2> QED
    BY <2>3 DEF Service!Next
<1>5. CASE Restart
  <2>1. nvs \in Binding /\ nvs.ctr \in 0..Top /\ Reboot(nvs, nvs.ctr) /\ lapses' = lapses
    BY <1>0, <1>5, StoredKeys DEF Restart, KeysOK
  <2> QED
    BY <2>1, RebootRefines
<1>10. CASE RestartMisread
  <2>1. nvs \in Binding /\ 0 \in 0..Top /\ Reboot(nvs, 0) /\ lapses' = lapses + 1
    BY <1>0, <1>10, StoredKeys DEF RestartMisread, KeysOK
  <2>2. nvs'.ctr = nvs.ctr /\ auth'.ctr = 0
    BY <2>1, Found
  <2>3. /\ InForce' \in Owners \cup {Nobody}
        /\ InForce' = InForce => CallsRun' = CallsRun
        /\ InForce' # InForce => CallsRun' = Service!Never
    BY <2>1, RebootRuns
  <2>4. Service!Forget
    BY <2>1, <2>2, <2>3 DEF Service!Forget
  <2> QED
    BY <2>4 DEF Service!Next
<1>6. CASE CutWhileBinding
  <2>1. ~auth.claimed /\ lapses' = lapses
    BY <1>6 DEF CutWhileBinding
  <2>2. PICK o \in Owners, k \in 1..3 : Reboot(BindKeys(o)[k], BindKeys(o)[k].ctr)
    BY <1>6 DEF CutWhileBinding
  <2>3. BindKeys(o)[k] \in Binding /\ BindKeys(o)[k].ctr \in {0, nvs.ctr} /\ BindKeys(o)[k].ctr \in 0..Top
    BY BindKeysType, PartBound DEF Binding
  <2> QED
    BY <2>1, <2>2, <2>3, RebootRefines
<1>7. CASE CutWhileClearing
  <2>1. PICK f \in Cut : Reboot(f, f.ctr) /\ lapses' = lapses
    BY <1>7 DEF CutWhileClearing
  <2>2. f \in Binding /\ f.owner = Nobody /\ f.ctr \in {0, nvs.ctr} /\ f.ctr \in 0..Top
    BY ErasedType, PartErased DEF Binding
  <2> QED
    BY <2>1, <2>2, RebootRefines
<1>8. CASE \/ UNCHANGED vars \/ WsConnected \/ WsSubscribed \/ WsDisconnected \/ PollWakes \/ WorkerWakes
           \/ AnswerLost \/ MappingExpires \/ OnResponse \/ ReleaseMapping
  BY <1>c, <1>8 DEF vars, WsConnected, WsSubscribed, WsDisconnected, PollWakes, WorkerWakes, AnswerLost,
                 MappingExpires, OnResponse, ReleaseMapping
<1>9. ASSUME NEW t \in Tasks, SweepBegins(t) \/ Gather(t) \/ GatherAborted(t) \/ Skip(t) \/ SweepEnds(t)
      PROVE  UNCHANGED Service!vars
  BY <1>c, <1>9 DEF SweepBegins, Gather, GatherAborted, Skip, SweepEnds
<1> QED
  BY <1>1, <1>2, <1>3, <1>4, <1>5, <1>6, <1>7, <1>8, <1>9, <1>10 DEF Next

\* The states the device starts in.
LEMMA Starts ==
  ASSUME Init
  PROVE  TypeOK /\ BindingInv /\ Service!Init
<1>1. chain \in Seq(Entity) /\ Len(chain) <= Top
  BY ArkivConstants DEF Init, Entity
<1>2. PICK o \in Owners : nvs = Keys(o, o, 0, TRUE) /\ auth = nvs
  BY DEF Init
<1>3. nvs.owner = o /\ nvs.enc = o /\ nvs.ctr = 0
  BY <1>2 DEF Keys
<1>4. nvs.claimed
  BY <1>2, Zenon DEF Keys
<1>5. o \in Anyone /\ 0 \in 0..Top /\ TRUE \in BOOLEAN
  BY ArkivConstants DEF Anyone
<1>6. KeysOK
  BY <1>2, <1>5, KeysType, Zenon DEF KeysOK
<1>7. /\ sweep = NoSweep /\ slots = <<>> /\ line = {} /\ release = 0 /\ lapses = 0 /\ faults = 0
      /\ ran = NeverRan /\ binds \in Nat
  BY ArkivConstants DEF Init
<1>8. NeverRan \in [Ids -> Nat] /\ \A i \in Ids : NeverRan[i] = 0
  BY DEF NeverRan
<1>9. SlotsOK
  <2>1. slots \in Seq(Slot) /\ DOMAIN slots = {}
    BY <1>7
  <2> QED
    BY <2>1 DEF SlotsOK
<1>10. TypeOK
  BY <1>1, <1>6, <1>7, <1>8, <1>9 DEF TypeOK, ChainOK, SweepOK, LineOK, RunsOK
<1>11. \A i \in DOMAIN chain : ran[i] = 0
  BY <1>7, <1>8, <1>10, Entries DEF TypeOK
<1>12. BindingInv
  <2>1. auth = nvs
    BY <1>2
  <2> QED
    BY <1>3, <1>4, <1>11, <2>1 DEF BindingInv
<1>13. Service!Init
  <2>1. auth = nvs
    BY <1>2
  <2> QED
    BY <1>3, <1>4, <1>7, <1>11, <2>1, NoneRun DEF Service!Init, InForce
<1> QED
  BY <1>10, <1>12, <1>13

\* The Arkiv command path implements the command service: whatever the order
\* of the entities, the interleaving of the two sweeping tasks with bindings,
\* the failures of the flash, the restarts and the losses, commands run for
\* the owner in force only, in the order of their numbers, and again only
\* after their number could not be stored.
THEOREM CommandsImplementService == Spec => ImplementsService
<1>1. Init => TypeOK /\ BindingInv /\ Service!Init
  BY Starts
<1>2. TypeOK /\ BindingInv /\ [Next]_vars => TypeOK' /\ BindingInv'
  BY TypeStep, BindingStep
<1>3. TypeOK /\ BindingInv /\ TypeOK' /\ BindingInv' /\ [Next]_vars => [Service!Next]_(Service!vars)
  BY RefineStep
<1> QED
  BY <1>1, <1>2, <1>3, PTL DEF Spec, ImplementsService, Service!Spec

\* One step of the service keeps its inductive invariant: a command above the
\* stored number has run only in lapses.
LEMMA OnceStep ==
  ASSUME Service!Sensible, Service!OnceInv, [Service!Next]_(Service!vars)
  PROVE  Service!OnceInv'
<1>1. CASE UNCHANGED Service!vars
  BY <1>1 DEF Service!OnceInv, Service!vars, Service!Credit, Service!Never
<1>2. ASSUME NEW c \in Calls, Service!Run(c)
      PROVE  Service!OnceInv'
  <2>1. InForce # Nobody /\ auth.ctr < c.seq /\ c.seq \in Nat /\ auth.ctr \in Nat /\ nvs.ctr \in Nat
    BY <1>2 DEF Service!Run, Service!OnceInv, Service!Sensible
  <2>2. CallsRun[c] \in Nat /\ CallsRun[c] <= lapses
    BY <2>1 DEF Service!OnceInv, Service!Credit
  <2>3. CallsRun' \in [Calls -> Nat]
    BY <1>2, <2>2 DEF Service!Run, Service!OnceInv
  <2>4. ASSUME NEW d \in Calls
        PROVE  CallsRun'[d] <= lapses' + Service!Credit(d)'
    <3>1. CallsRun[d] \in Nat /\ CallsRun[d] <= lapses + Service!Credit(d) /\ d.seq \in Nat
      BY DEF Service!OnceInv, Service!Sensible
    <3>2. CallsRun'[d] = IF d = c THEN CallsRun[d] + 1 ELSE CallsRun[d]
      BY <1>2 DEF Service!Run, Service!OnceInv
    <3>3. CASE nvs.ctr' = c.seq /\ lapses' = lapses
      <4>1. auth.ctr' = c.seq
        BY <1>2 DEF Service!Run
      <4>2. Service!Credit(d)' = IF d.seq <= c.seq THEN 1 ELSE 0
        BY <3>3, <4>1 DEF Service!Credit
      <4>3. Service!Credit(d) \in {0, 1} /\ (Service!Credit(d) = 1 => d.seq <= c.seq)
        BY <2>1, <3>1 DEF Service!Credit
      <4> HIDE DEF Service!Credit
      <4> QED
        BY <3>1, <3>2, <3>3, <2>1, <2>2, <4>2, <4>3 DEF Service!OnceInv
    <3>4. CASE nvs.ctr' = nvs.ctr /\ lapses' = lapses + 1
      BY <3>1, <3>2, <3>4, <2>1, <2>2 DEF Service!Credit, Service!OnceInv
    <3> QED
      BY <3>3, <3>4, <1>2 DEF Service!Run
  <2> QED
    BY <1>2, <2>1, <2>3, <2>4 DEF Service!Run, Service!OnceInv
<1>3. ASSUME NEW o \in Owners \cup {Nobody}, Service!Rebind(o)
      PROVE  Service!OnceInv'
  BY <1>3 DEF Service!Rebind, Service!OnceInv, Service!Never, Service!Credit
<1>4. CASE Service!Restart
  BY <1>4 DEF Service!Restart, Service!OnceInv, Service!Never, Service!Credit
<1>5. CASE Service!Erase
  BY <1>5 DEF Service!Erase, Service!OnceInv, Service!Never, Service!Credit
<1>6. CASE Service!Forget
  BY <1>6 DEF Service!Forget, Service!OnceInv, Service!Never, Service!Credit
<1> QED
  BY <1>1, <1>2, <1>3, <1>4, <1>5, <1>6 DEF Service!Next

\* Whoever implements the service runs no command twice in a binding unless
\* storing its number failed: the replay protection of both command paths.
THEOREM OnceAlways == Service!Spec => []Service!Once
<1>0. Service!Sensible
  BY ArkivConstants DEF Service!Sensible, Calls
<1>1. Service!Init => Service!OnceInv
  BY DEF Service!Init, Service!OnceInv, Service!Never, Service!Credit
<1>2. Service!OnceInv /\ [Service!Next]_(Service!vars) => Service!OnceInv'
  BY <1>0, OnceStep
<1>3. Service!OnceInv => Service!Once
  BY DEF Service!OnceInv, Service!Once, Service!Credit
<1> QED
  BY <1>1, <1>2, <1>3, PTL DEF Service!Spec

\* Replay protection, from what the service promises: under one binding a
\* command runs once, or once more for each number that could not be stored.
RunOnce == \A i \in DOMAIN chain : ran[i] <= 1 + lapses

\* However the sweeps, the restarts and the bindings interleave, no command on
\* the chain is carried out twice unless storing its number failed.
THEOREM CommandsRunOnce == Spec => []RunOnce
<1>3. TypeOK /\ Service!Once => RunOnce
  <2>1. ASSUME TypeOK, Service!Once, NEW i \in DOMAIN chain
        PROVE  ran[i] <= 1 + lapses
    <3> DEFINE c == [id |-> i, seq |-> chain[i].seq, by |-> chain[i].by]
    <3>1. c \in Calls /\ OnChain(c) /\ c.id = i
      BY <2>1, CallOf DEF TypeOK
    <3> HIDE DEF c
    <3>2. CallsRun[c] = ran[i]
      BY <3>1 DEF CallsRun
    <3> QED
      BY <2>1, <3>1, <3>2 DEF Service!Once
  <2> QED
    BY <2>1 DEF RunOnce
<1>4. Init => TypeOK /\ BindingInv
  BY Starts
<1>5. TypeOK /\ BindingInv /\ [Next]_vars => TypeOK' /\ BindingInv'
  BY TypeStep, BindingStep
<1> QED
  BY <1>3, <1>4, <1>5, OnceAlways, CommandsImplementService, PTL DEF Spec, ImplementsService

-----------------------------------------------------------------------------
(* The MQTT path implements the command service, too. *)

\* The queue holds envelopes, and the counters are numbers.
Queued == [env : MQTT!Envelopes, generation : Nat]
EnvelopesOK ==
    /\ s_last_ctr \in Nat /\ stored \in Nat /\ generation \in Nat
    /\ offered \subseteq MQTT!Envelopes /\ s_commands \in Seq(Queued)
    /\ envRan \in [MQTT!Envelopes -> Nat]

\* cmdauth_check_and_strip counts an envelope, and the counter goes up to it.
LEMMA AcceptRuns ==
  ASSUME EnvelopesOK, NEW e \in MQTT!Envelopes, MQTT!Fresh(e), MQTT!Accept(e)
  PROVE  /\ MQTT!Service!Next
         /\ s_last_ctr' \in Nat /\ stored' \in Nat /\ envRan' \in [MQTT!Envelopes -> Nat]
<1>1. e \in {d \in MQTT!Envelopes : d.by = MQTT!CurEpoch} /\ e.seq \in Nat
  BY EnvelopesNumbered DEF MQTT!Fresh, MQTT!Envelopes
<1>2. envRan[e] \in Nat /\ envRan' = [envRan EXCEPT ![e] = @ + 1]
  BY DEF EnvelopesOK, MQTT!Accept
<1>3. MQTT!Service!Run(e)
  <2>1. [d \in {d \in MQTT!Envelopes : d.by = MQTT!CurEpoch} |-> envRan'[d]]
        = [[d \in {d \in MQTT!Envelopes : d.by = MQTT!CurEpoch} |-> envRan[d]] EXCEPT ![e] = @ + 1]
    BY <1>1, <1>2 DEF EnvelopesOK
  <2> QED
    BY <1>1, <2>1 DEF MQTT!Service!Run, MQTT!Accept, MQTT!Fresh, MQTT!CurEpoch
<1> QED
  BY <1>1, <1>2, <1>3 DEF MQTT!Service!Next, MQTT!Accept, EnvelopesOK

\* One step of the broker, the command task or a restart.
LEMMA EnvelopeStep ==
  ASSUME EnvelopesOK, MQTT!Next
  PROVE  EnvelopesOK' /\ [MQTT!Service!Next]_(MQTT!Service!vars)
<1> USE DEF EnvelopesOK
<1>1. CASE MQTT!Publishes \/ MQTT!Connects \/ MQTT!Disconnects
  BY <1>1 DEF MQTT!Publishes, MQTT!Connects, MQTT!Disconnects, MQTT!Service!vars
<1>2. CASE MQTT!OnData
  <2>1. PICK e \in offered : \/ s_commands' = Append(s_commands, [env |-> e, generation |-> generation])
                             \/ UNCHANGED s_commands
    BY <1>2 DEF MQTT!OnData
  <2>2. [env |-> e, generation |-> generation] \in Queued
    BY DEF Queued
  <2>3. s_commands' \in Seq(Queued)
    BY <2>1, <2>2
  <2> QED
    BY <1>2, <2>3 DEF MQTT!OnData, MQTT!Service!vars
<1>3. CASE MQTT!CommandTask
  <2>0. s_commands # <<>> /\ s_commands' = Tail(s_commands)
    BY <1>3 DEF MQTT!CommandTask
  <2>1. s_commands' \in Seq(Queued) /\ Head(s_commands).env \in MQTT!Envelopes
    <3>1. Head(s_commands) \in Queued /\ Tail(s_commands) \in Seq(Queued)
      BY <2>0, HeadTailProperties
    <3> QED
      BY <2>0, <3>1 DEF Queued
  <2>2. CASE UNCHANGED <<s_last_ctr, stored, envRan, envLapses>>
    BY <1>3, <2>1, <2>2 DEF MQTT!CommandTask, MQTT!Service!vars
  <2>3. CASE MQTT!Fresh(Head(s_commands).env) /\ MQTT!Accept(Head(s_commands).env)
    BY <1>3, <2>1, <2>3, AcceptRuns DEF MQTT!CommandTask
  <2> QED
    BY <1>3, <2>2, <2>3 DEF MQTT!CommandTask
<1>4. CASE MQTT!Reboot
  <2>1. s_commands' \in Seq(Queued)
    BY <1>4 DEF MQTT!Reboot
  <2>2. MQTT!Service!Restart \/ MQTT!Service!Forget
    BY <1>4 DEF MQTT!Reboot, MQTT!Service!Restart, MQTT!Service!Forget
  <2> QED
    BY <1>4, <2>1, <2>2 DEF MQTT!Reboot, MQTT!Service!Next
<1> QED
  BY <1>1, <1>2, <1>3, <1>4 DEF MQTT!Next

\* Signed commands over MQTT implement the same service (cmdauth.c and the
\* command task): whatever the broker repeats or delivers late, and wherever a
\* restart or a failed write of the counter falls, envelopes of the pinned epoch
\* run in the order of their numbers and again only after a failed write.
THEOREM EnvelopesAlwaysRunOnce == MCSpec => EnvelopesRunOnce
<1>1. MCInit => EnvelopesOK /\ MQTT!Service!Init
  <2> SUFFICES ASSUME MQTT!Init
               PROVE  EnvelopesOK /\ MQTT!Service!Init
    BY DEF MCInit
  <2>1. EnvelopesOK
    BY DEF MQTT!Init, EnvelopesOK
  <2>2. MQTT!Service!Init
    BY DEF MQTT!Init, MQTT!Service!Init, MQTT!Service!Never, MQTT!CurEpoch
  <2> QED
    BY <2>1, <2>2
<1>2. EnvelopesOK /\ [MCNext]_<<vars, path, mqttvars>> => EnvelopesOK' /\ [MQTT!Service!Next]_(MQTT!Service!vars)
  <2> SUFFICES ASSUME EnvelopesOK, [MCNext]_<<vars, path, mqttvars>>
               PROVE  EnvelopesOK' /\ [MQTT!Service!Next]_(MQTT!Service!vars)
    OBVIOUS
  <2>1. CASE UNCHANGED mqttvars
    BY <2>1 DEF mqttvars, EnvelopesOK, MQTT!Service!vars
  <2>2. CASE MQTT!Next
    BY <2>2, EnvelopeStep
  <2> QED
    BY <2>1, <2>2 DEF MCNext
<1> QED
  BY <1>1, <1>2, PTL DEF MCSpec, EnvelopesRunOnce, MQTT!ImplementsService, MQTT!Service!Spec

-----------------------------------------------------------------------------
(* No sweep burns a command. *)

\* Entities that do not make the page are older than all that do, and then the
\* page is full.
LEMMA PageIsNewest ==
  ASSUME ChainOK, NEW j \in InWindow \ Page
  PROVE  (\A p \in Page : j < p) /\ ~(Cardinality(Page) < PAGE_N)
<1> DEFINE Newer(i) == {x \in InWindow : x > i}
<1>1. Len(chain) \in Nat /\ InWindow \subseteq 1..Len(chain) /\ PAGE_N \in Nat
  BY Entries, ArkivConstants DEF InWindow
<1>2. IsFiniteSet(InWindow) /\ \A i : IsFiniteSet(Newer(i)) /\ Cardinality(Newer(i)) \in Nat
  <2>1. IsFiniteSet(1..Len(chain))
    BY <1>1, FS_Interval
  <2>2. \A i : Newer(i) \subseteq InWindow
    OBVIOUS
  <2> QED
    BY <1>1, <2>1, <2>2, FS_Subset, FS_CardinalityType
<1>3. Page = {i \in InWindow : Cardinality(Newer(i)) < PAGE_N}
  BY DEF Page
<1>n. Page \subseteq InWindow /\ \A x \in InWindow : x \in Nat
  BY <1>1, <1>3
<1> HIDE DEF Newer
<1>4. ASSUME NEW p \in Page
      PROVE  j < p
  <2>1. SUFFICES ASSUME ~(j < p)
                 PROVE  FALSE
    OBVIOUS
  <2>2. p < j
    BY <1>1, <1>3, <2>1
  <2>3. Newer(j) \subseteq Newer(p)
    <3>1. p \in Nat /\ j \in Nat
      BY <1>n
    <3>2. \A x \in InWindow : x > j => x > p
      BY <1>n, <2>2, <3>1
    <3> QED
      BY <3>2 DEF Newer
  <2>4. Cardinality(Newer(j)) <= Cardinality(Newer(p))
    BY <1>2, <2>3, FS_Subset
  <2>5. Cardinality(Newer(p)) < PAGE_N /\ ~(Cardinality(Newer(j)) < PAGE_N)
    BY <1>3
  <2> QED
    BY <1>1, <1>2, <2>4, <2>5
<1>5. \E g \in InWindow \ Page : \A x \in InWindow \ Page : x <= g
  <2> DEFINE S == {Len(chain) - x : x \in InWindow \ Page}
  <2>1. S \subseteq Nat /\ S # {}
    BY <1>1
  <2>2. PICK y \in S : \A z \in S : y <= z
    BY <2>1, Least
  <2>3. PICK g \in InWindow \ Page : y = Len(chain) - g
    BY <2>2
  <2>4. \A x \in InWindow \ Page : Len(chain) - g <= Len(chain) - x
    BY <2>2, <2>3
  <2> QED
    BY <1>1, <2>4
<1>6. PICK g \in InWindow \ Page : \A x \in InWindow \ Page : x <= g
  BY <1>5
<1>7. Newer(g) \subseteq Page
  <2>1. ASSUME NEW x \in InWindow, x > g, x \notin Page
        PROVE  FALSE
    <3>1. x <= g /\ x \in Nat /\ g \in Nat
      BY <1>6, <1>n, <2>1
    <3> QED
      BY <2>1, <3>1
  <2> QED
    BY <2>1 DEF Newer
<1>8. IsFiniteSet(Page) /\ Cardinality(Page) \in Nat
  BY <1>2, <1>3, FS_Subset, FS_CardinalityType
<1>9. Cardinality(Newer(g)) <= Cardinality(Page)
  BY <1>7, <1>8, FS_Subset
<1>10. ~(Cardinality(Newer(g)) < PAGE_N)
  BY <1>3
<1> QED
  BY <1>1, <1>2, <1>4, <1>8, <1>9, <1>10

\* Candidates come in one order.
LEMMA Ordered ==
  ASSUME ChainOK, NEW i \in DOMAIN chain, NEW j \in DOMAIN chain
  PROVE  /\ i # j => Before(i, j) \/ Before(j, i)
         /\ \A x \in DOMAIN chain : Before(x, i) /\ Before(i, j) => Before(x, j)
<1>1. \A x \in DOMAIN chain : chain[x].seq \in Nat /\ x \in Nat
  BY Entries
<1> QED
  BY <1>1 DEF Before

\* Candidates that had to give way come after all that stay.
LEMMA LowestIsLowest ==
  ASSUME ChainOK, NEW S, S \subseteq DOMAIN chain, NEW j \in S \ Lowest(S)
  PROVE  \A c \in Lowest(S) : Before(c, j)
<1> DEFINE Lower(i) == {x \in S : Before(x, i)}
<1>1. DOMAIN chain = 1..Len(chain) /\ Len(chain) \in Nat
  BY Entries
<1>2. CMD_CAND_MAX \in Nat
  BY ArkivConstants DEF CMD_CAND_MAX
<1>3. \A i : IsFiniteSet(Lower(i)) /\ Cardinality(Lower(i)) \in Nat
  <2>1. IsFiniteSet(1..Len(chain))
    BY <1>1, FS_Interval
  <2>2. \A i : Lower(i) \subseteq 1..Len(chain)
    BY <1>1
  <2> QED
    BY <2>1, <2>2, FS_Subset, FS_CardinalityType
<1>4. Lowest(S) = {i \in S : Cardinality(Lower(i)) < CMD_CAND_MAX}
  BY DEF Lowest
<1>5. ASSUME NEW c \in Lowest(S), ~Before(c, j)
      PROVE  FALSE
  <2>1. c \in DOMAIN chain /\ j \in DOMAIN chain /\ c # j
    BY <1>4
  <2>2. Before(j, c)
    BY <1>5, <2>1, Ordered
  <2>3. Lower(j) \subseteq Lower(c)
    BY <2>1, <2>2, Ordered
  <2> HIDE DEF Lower
  <2>4. Cardinality(Lower(j)) <= Cardinality(Lower(c))
    BY <1>3, <2>3, FS_Subset
  <2>5. Cardinality(Lower(c)) < CMD_CAND_MAX /\ ~(Cardinality(Lower(j)) < CMD_CAND_MAX)
    BY <1>4
  <2> QED
    BY <1>2, <1>3, <2>4, <2>5
<1> QED
  BY <1>5

\* A full page of younger entities: there are that many.
LEMMA PageOfYounger ==
  ASSUME ChainOK, NEW j \in DOMAIN chain, \A p \in Page : j < p, ~(Cardinality(Page) < PAGE_N)
  PROVE  j + PAGE_N <= Len(chain)
<1>1. Len(chain) \in Nat /\ DOMAIN chain = 1..Len(chain) /\ PAGE_N \in Nat /\ Page \subseteq DOMAIN chain
  BY Entries, ArkivConstants DEF Page, InWindow
<1>2. Page \subseteq (j + 1)..Len(chain)
  BY <1>1
<1>3. j \in Nat /\ j + 1 \in Int /\ Len(chain) \in Int /\ j <= Len(chain)
  BY <1>1
<1>4. /\ IsFiniteSet((j + 1)..Len(chain))
      /\ Cardinality((j + 1)..Len(chain)) = IF j + 1 > Len(chain) THEN 0 ELSE Len(chain) - (j + 1) + 1
  BY <1>3, FS_Interval
<1>5. IsFiniteSet(Page) /\ Cardinality(Page) <= Cardinality((j + 1)..Len(chain))
  BY <1>2, <1>4, FS_Subset
<1>6. Cardinality(Page) \in Nat
  BY <1>5, FS_CardinalityType
<1>7. Cardinality((j + 1)..Len(chain)) = Len(chain) - j
  BY <1>3, <1>4
<1> QED
  BY <1>1, <1>3, <1>5, <1>6, <1>7

\* One page: what it leaves behind comes after it, is below its floor, or is
\* one of the exceptions.
LEMMA GatherKeeps ==
  ASSUME TypeOK, SweepInv, NEW t \in Tasks, Gather(t)
  PROVE  SweepInv'
<1>1. ChainOK /\ UNCHANGED <<chain, auth, binds>> /\ sweep.gathering /\ sweep # NoSweep
  BY InSweep DEF TypeOK, Gather, binding
<1>2. /\ sweep \in Sweep /\ sweep' \in Sweep /\ sweep'.base = sweep.base /\ sweep'.gen = sweep.gen
      /\ sweep'.cand = Lowest(sweep.cand \cup Page) /\ sweep'.cand \subseteq sweep.cand \cup Page
      /\ sweep.cand \cup Page \subseteq DOMAIN chain
  BY GatherType
<1>3. \A i \in DOMAIN chain : chain[i].seq \in Nat /\ i \in Nat
  BY <1>1, Entries
<1>5. sweep.base \in Nat /\ sweep.floor \in Nat /\ sweep.pages \in Nat /\ sweep.gathering \in BOOLEAN
  BY <1>2 DEF Sweep
<1> DEFINE complete == Cardinality(Page) < PAGE_N \/ PageMin <= sweep.base + 1
           again == ~complete /\ sweep.pages + 1 < MAX_PAGES
<1>6. /\ sweep'.gathering = again /\ (again => sweep'.floor = PageMin)
      /\ hidden' = IF complete \/ again THEN hidden ELSE hidden \cup {i \in InWindow : chain[i].seq < PageMin}
  <2>1. DOMAIN sweep = {"by", "gen", "base", "floor", "pages", "cand", "evicted", "complete", "gathering", "dispatched"}
    BY <1>2 DEF Sweep
  <2> QED
    BY <2>1 DEF Gather
<1>a. \A j : (Valid(j)' <=> Valid(j)) /\ (Overtaken(j)' <=> Overtaken(j)) /\ (Late(j)' <=> Late(j))
  BY <1>1 DEF Valid, Overtaken, Late
<1>b. \A i, j : Before(i, j)' <=> Before(i, j)
  BY <1>1 DEF Before
<1>7. ASSUME sweep.gen = binds, NEW j \in DOMAIN chain \ sweep'.cand, Valid(j), sweep.base < chain[j].seq
      PROVE  \/ \A c \in sweep'.cand : Valid(c) => Before(c, j)
             \/ sweep'.gathering /\ chain[j].seq < sweep'.floor
             \/ j \in hidden' \/ Overtaken(j) \/ Late(j) \/ chain[j].seq <= auth.ctr
  <2>1. CASE j \in sweep.cand \cup Page
    BY <1>1, <1>2, <1>7, <2>1, LowestIsLowest
  <2>2. CASE j \notin sweep.cand \cup Page /\ chain[j].seq < sweep.floor
    <3>1. j \in InWindow \ Page
      BY <1>7, <2>2 DEF InWindow
    <3>2. (\A p \in Page : j < p) /\ ~(Cardinality(Page) < PAGE_N)
      BY <1>1, <3>1, PageIsNewest
    <3>3. PICK p \in Page : PageMin = chain[p].seq
      BY <1>1, <3>2, PageHasMin
    <3>4. CASE PageMin <= chain[j].seq
      <4>1. j + PAGE_N <= Len(chain)
        BY <1>1, <3>2, PageOfYounger
      <4>2. p \in DOMAIN chain /\ j < p /\ chain[p].seq <= chain[j].seq
        BY <1>2, <3>2, <3>3, <3>4
      <4> QED
        BY <4>1, <4>2 DEF Overtaken
    <3>5. CASE ~(PageMin <= chain[j].seq)
      <4>1. chain[j].seq < PageMin /\ PageMin \in Nat
        BY <1>2, <1>3, <3>3, <3>5
      <4>2. ~complete
        BY <1>3, <1>5, <1>7, <3>2, <4>1
      <4> HIDE DEF complete
      <4> QED
        BY <1>6, <3>1, <4>1, <4>2
    <3> QED
      BY <3>4, <3>5
  <2>3. CASE j \notin sweep.cand \cup Page /\ ~(chain[j].seq < sweep.floor)
    <3>1. Above(j) \/ j \in hidden \/ Overtaken(j) \/ Late(j) \/ chain[j].seq <= auth.ctr
      BY <1>1, <1>7, <2>3 DEF SweepInv, Excepted
    <3>2. CASE Above(j)
      <4>1. \A p \in Page : Before(p, j)
        <5>1. \A p \in Page : chain[p].seq < sweep.floor
          BY DEF Page, InWindow
        <5> QED
          BY <1>2, <1>3, <1>5, <2>3, <5>1 DEF Before
      <4> QED
        BY <1>2, <3>2, <4>1 DEF Above
    <3>3. hidden \subseteq hidden'
      BY <1>6
    <3> QED
      BY <3>1, <3>2, <3>3
  <2> QED
    BY <2>1, <2>2, <2>3
<1>8. sweep' # NoSweep => sweep'.gen <= binds'
  BY <1>1, <1>2 DEF SweepInv
<1>9. sweep'.gen = binds' => auth'.claimed /\ sweep'.base <= auth'.ctr
  BY <1>1, <1>2 DEF SweepInv
<1>10. ASSUME sweep'.gen = binds', NEW j \in DOMAIN chain' \ sweep'.cand, Valid(j)', sweep'.base < chain'[j].seq
       PROVE  \/ Above(j)' \/ (sweep'.gathering /\ chain'[j].seq < sweep'.floor)
              \/ Excepted(j)' \/ chain'[j].seq <= auth'.ctr
  <2>1. sweep.gen = binds /\ j \in DOMAIN chain \ sweep'.cand /\ Valid(j) /\ sweep.base < chain[j].seq
    BY <1>1, <1>2, <1>10, <1>a
  <2>2. (\A c \in sweep'.cand : Valid(c) => Before(c, j)) => Above(j)'
    BY <1>a, <1>b DEF Above
  <2>3. j \in hidden' \/ Overtaken(j) \/ Late(j) => Excepted(j)'
    BY <1>a DEF Excepted
  <2> QED
    BY <1>1, <1>7, <2>1, <2>2, <2>3
<1> QED
  BY <1>8, <1>9, <1>10 DEF SweepInv

\* A dispatched or skipped candidate: what is passed by has run, is refused or
\* one of the exceptions.
LEMMA Removes ==
  ASSUME TypeOK, SweepInv, NEW t \in Tasks, Dispatching(t), NEW i \in sweep.cand,
         sweep'.cand = sweep.cand \ {i}, sweep'.base = sweep.base, sweep'.gathering = sweep.gathering,
         sweep'.gen = sweep.gen, binds' = binds, chain' = chain, hidden \subseteq hidden',
         auth'.claimed = auth.claimed, auth'.owner = auth.owner, auth.ctr <= auth'.ctr, auth'.ctr \in Nat,
         ~Valid(i) \/ chain[i].seq <= auth'.ctr
  PROVE  SweepInv'
<1>1. sweep \in Sweep /\ sweep # NoSweep /\ sweep.cand \subseteq DOMAIN chain /\ ~sweep.gathering
  BY InSweep DEF Dispatching
<1>2. sweep'.cand = sweep.cand \ {i} /\ sweep'.base = sweep.base /\ sweep'.gathering = sweep.gathering
      /\ sweep'.gen = sweep.gen /\ binds' = binds
  OBVIOUS
<1>3. auth.ctr \in Nat /\ sweep.base \in Nat /\ \A j \in DOMAIN chain : chain[j].seq \in Nat
  BY <1>1, StoredKeys, Entries DEF TypeOK, Sweep
<1>4. \A j : (Valid(j)' <=> Valid(j)) /\ (Excepted(j) => Excepted(j)')
  BY DEF Valid, Excepted, Overtaken, Late
<1>a. \A c, j : Before(c, j)' <=> Before(c, j)
  BY DEF Before
<1>5. sweep.gen <= binds /\ (sweep.gen = binds => auth'.claimed /\ sweep.base <= auth'.ctr)
  BY <1>1, <1>3 DEF SweepInv
<1>6. ASSUME sweep.gen = binds, NEW j \in DOMAIN chain \ sweep'.cand, Valid(j), sweep.base < chain[j].seq
      PROVE  (\A c \in sweep'.cand : Valid(c) => Before(c, j)) \/ Excepted(j) \/ chain[j].seq <= auth'.ctr
  <2>1. CASE j = i
    BY <1>6, <2>1
  <2>2. CASE j # i
    <3>1. j \in DOMAIN chain \ sweep.cand
      BY <1>2, <1>6, <2>2
    <3>2. Above(j) \/ Excepted(j) \/ chain[j].seq <= auth.ctr
      BY <1>1, <1>6, <3>1 DEF SweepInv
    <3> QED
      BY <1>2, <1>3, <3>2 DEF Above
  <2> QED
    BY <2>1, <2>2
<1>7. ASSUME sweep'.gen = binds', NEW j \in DOMAIN chain' \ sweep'.cand, Valid(j)', sweep'.base < chain'[j].seq
      PROVE  Above(j)' \/ Excepted(j)' \/ chain'[j].seq <= auth'.ctr
  <2>1. sweep.gen = binds /\ j \in DOMAIN chain \ sweep'.cand /\ Valid(j) /\ sweep.base < chain[j].seq
    BY <1>2, <1>4, <1>7
  <2>2. (\A c \in sweep'.cand : Valid(c) => Before(c, j)) => Above(j)'
    BY <1>4, <1>a DEF Above
  <2> QED
    BY <1>4, <1>6, <2>1, <2>2
<1> QED
  BY <1>2, <1>5, <1>7 DEF SweepInv

\* The counters stay among the owner's numbers.
LEMMA CounterStep ==
  ASSUME TypeOK, BindingInv, CounterInv, [Next]_vars
  PROVE  CounterInv'
<1> USE DEF binding, answering, ghosts
<1>0. ChainOK /\ KeysOK
  BY DEF TypeOK
<1>1. OfOwner(auth) /\ OfOwner(nvs)
  BY DEF CounterInv
<1>2. ASSUME UNCHANGED <<chain, auth, nvs>>
      PROVE  CounterInv'
  BY <1>2 DEF CounterInv, OfOwner
<1>a. ASSUME NEW k, k.ctr = 0 \/ k.owner = Nobody \/ ~k.claimed
      PROVE  OfOwner(k)'
  BY <1>a DEF OfOwner
<1>3. CASE Creates
  <2>1. /\ DOMAIN chain' = DOMAIN chain \cup {Len(chain) + 1}
        /\ \A i \in DOMAIN chain : chain'[i] = chain[i]
    BY <1>0, <1>3, ChainGrows
  <2>2. UNCHANGED <<auth, nvs>>
    BY <1>3 DEF Creates
  <2> QED
    BY <2>1, <2>2 DEF CounterInv, OfOwner
<1>4. ASSUME NEW t \in Tasks, Dispatch(t)
      PROVE  CounterInv'
  <2>1. PICK i \in sweep.cand : Accepted(i) /\ Advance(i)
    BY <1>4 DEF Dispatch
  <2>2. chain' = chain /\ i \in DOMAIN chain
    BY <1>4, InSweep DEF Dispatch, Dispatching
  <2>3. auth'.owner = auth.owner /\ auth'.ctr = chain[i].seq
        /\ (nvs' = nvs \/ (nvs'.owner = nvs.owner /\ nvs'.ctr = chain[i].seq))
    BY <1>0, <2>1 DEF Advance, KeysOK, Binding
  <2>4. chain[i].by = auth.owner /\ nvs.owner = auth.owner
    BY <2>1 DEF Accepted, Valid, BindingInv
  <2> QED
    BY <2>2, <2>3, <2>4 DEF CounterInv, OfOwner
<1>5. CASE Bind
  <2>1. chain' = chain /\ ~auth.claimed
    BY <1>5 DEF Bind
  <2>2. PICK o \in Owners : \/ nvs' = BindKeys(o)[4] /\ auth' = nvs'
                            \/ (\E k \in 1..3 : nvs' = BindKeys(o)[k]) /\ UNCHANGED auth
    BY <1>5 DEF Bind
  <2>3. nvs'.ctr = 0 \/ ~nvs'.claimed
    BY <2>1, <2>2, FullyBound, PartBound DEF BindingInv
  <2>4. auth'.ctr = 0 \/ ~auth'.claimed
    BY <2>1, <2>2, FullyBound
  <2> QED
    BY <1>a, <2>3, <2>4 DEF CounterInv
<1>6. CASE Clear
  <2>1. auth' = Unbound /\ (nvs' = Unbound \/ nvs' \in Torn)
    BY <1>6 DEF Clear
  <2>2. auth'.owner = Nobody /\ (nvs'.owner = Nobody \/ ~nvs'.claimed)
    BY <2>1, PartErased
  <2> QED
    BY <1>a, <2>2 DEF CounterInv
<1>7. CASE Restart
  <2>1. nvs \in Binding /\ nvs.ctr \in 0..Top /\ Reboot(nvs, nvs.ctr)
    BY <1>0, <1>7, StoredKeys DEF Restart, KeysOK
  <2>2. nvs' = nvs /\ auth'.owner = nvs.owner /\ auth'.claimed = nvs.claimed /\ auth'.ctr = nvs.ctr /\ chain' = chain
    BY <2>1, Found DEF Reboot
  <2> QED
    BY <1>1, <2>2 DEF CounterInv, OfOwner
<1>8. CASE RestartMisread
  <2>1. nvs \in Binding /\ 0 \in 0..Top /\ Reboot(nvs, 0)
    BY <1>0, <1>8, StoredKeys DEF RestartMisread, KeysOK
  <2>2. nvs' = nvs /\ auth'.ctr = 0 /\ chain' = chain
    BY <2>1, Found DEF Reboot
  <2> QED
    BY <1>1, <1>a, <2>2 DEF CounterInv, OfOwner
<1>9. CASE CutWhileBinding
  <2>1. PICK o \in Owners, k \in 1..3 : Reboot(BindKeys(o)[k], BindKeys(o)[k].ctr)
    BY <1>9 DEF CutWhileBinding
  <2>2. BindKeys(o)[k] \in Binding /\ BindKeys(o)[k].ctr \in 0..Top
    BY BindKeysType DEF Binding
  <2>3. BindKeys(o)[k].ctr = 0 \/ ~BindKeys(o)[k].claimed
    BY <1>9, PartBound DEF BindingInv, CutWhileBinding
  <2>4. /\ nvs'.ctr = 0 \/ ~nvs'.claimed
        /\ auth'.ctr = 0 \/ ~auth'.claimed
    BY <2>1, <2>2, <2>3, Found
  <2> QED
    BY <1>a, <2>4 DEF CounterInv
<1>10. CASE CutWhileClearing
  <2>1. PICK f \in Cut : Reboot(f, f.ctr)
    BY <1>10 DEF CutWhileClearing
  <2>2. f \in Binding /\ f.ctr \in 0..Top /\ f.owner = Nobody
    BY ErasedType, PartErased DEF Binding
  <2>3. nvs'.owner = Nobody /\ auth'.owner = Nobody
    BY <2>1, <2>2, Found
  <2> QED
    BY <1>a, <2>3 DEF CounterInv
<1>11. CASE \/ UNCHANGED vars \/ WsConnected \/ WsSubscribed \/ WsDisconnected \/ PollWakes \/ WorkerWakes
            \/ AnswerLost \/ MappingExpires \/ OnResponse \/ ReleaseMapping
  BY <1>2, <1>11 DEF vars, WsConnected, WsSubscribed, WsDisconnected, PollWakes, WorkerWakes, AnswerLost,
                 MappingExpires, OnResponse, ReleaseMapping
<1>12. ASSUME NEW t \in Tasks, SweepBegins(t) \/ Gather(t) \/ GatherAborted(t) \/ Skip(t) \/ SweepEnds(t)
       PROVE  CounterInv'
  BY <1>2, <1>12 DEF SweepBegins, Gather, GatherAborted, Skip, SweepEnds
<1> QED
  BY <1>3, <1>4, <1>5, <1>6, <1>7, <1>8, <1>9, <1>10, <1>11, <1>12 DEF Next

\* A new entity makes no older one less of an exception.
LEMMA StillExcepted ==
  ASSUME ChainOK, Creates, NEW i \in DOMAIN chain
  PROVE  /\ Overtaken(i) => Overtaken(i)'
         /\ Late(i) => Late(i)'
<1>1. /\ DOMAIN chain' = DOMAIN chain \cup {Len(chain) + 1} /\ Len(chain') = Len(chain) + 1
      /\ \A j \in DOMAIN chain : chain'[j] = chain[j]
  BY ChainGrows
<1>2. Len(chain) \in Nat /\ i \in Nat /\ PAGE_N \in Nat
  BY Entries, ArkivConstants
<1>3. i + PAGE_N <= Len(chain) => i + PAGE_N <= Len(chain')
  BY <1>1, <1>2
<1> QED
  BY <1>1, <1>3 DEF Overtaken, Late

\* What a sweep has passed by stays accounted for, as long as the binding it
\* began under is in force.
LEMMA SweepStep ==
  ASSUME TypeOK, SweepInv, [Next]_vars
  PROVE  SweepInv'
<1> USE DEF binding, answering, ghosts
<1>0. ChainOK /\ KeysOK /\ SweepOK /\ RunsOK
  BY DEF TypeOK
<1>1. ASSUME UNCHANGED <<chain, auth, sweep, hidden, binds>>
      PROVE  SweepInv'
  BY <1>1 DEF SweepInv, Above, Valid, Before, Excepted, Overtaken, Late
<1>2. ASSUME sweep' = NoSweep
      PROVE  SweepInv'
  BY <1>2 DEF SweepInv
<1>a. ASSUME UNCHANGED sweep, binds' = binds + 1
      PROVE  SweepInv'
  <2>1. sweep # NoSweep => sweep.gen \in Nat /\ sweep.gen <= binds
    BY <1>0 DEF SweepOK, Sweep, SweepInv
  <2>2. sweep # NoSweep => sweep.gen <= binds + 1 /\ sweep.gen # binds + 1
    BY <1>0, <2>1 DEF RunsOK
  <2> QED
    BY <1>a, <2>2 DEF SweepInv
<1>3. CASE Creates
  <2>0. PICK n \in Nat : n = Len(chain) + 1
    BY <1>0, Entries
  <2>1. /\ DOMAIN chain' = DOMAIN chain \cup {n} /\ n \notin DOMAIN chain
        /\ \A i \in DOMAIN chain : chain'[i] = chain[i] /\ i < n /\ i \in Nat /\ chain[i].seq \in Nat
        /\ chain'[n].seq \in Nat
    BY <2>0, <1>0, <1>3, ChainGrows, Entries DEF Entity
  <2>2. UNCHANGED <<auth, sweep, hidden, binds>>
    BY <1>3 DEF Creates
  <2>3. sweep # NoSweep => sweep.cand \subseteq DOMAIN chain
    BY <1>0 DEF SweepOK
  <2>4. \A i, j \in DOMAIN chain : (Before(i, j)' <=> Before(i, j)) /\ (Valid(i)' <=> Valid(i))
    BY <2>1, <2>2 DEF Before, Valid
  <2>5. \A j \in DOMAIN chain : Excepted(j) => Excepted(j)'
    BY <1>0, <1>3, <2>2, StillExcepted DEF Excepted
  <2>6. ASSUME sweep # NoSweep, NEW j \in DOMAIN chain, Above(j)
        PROVE  Above(j)'
    BY <2>2, <2>3, <2>4, <2>6 DEF Above
  <2>7. ASSUME sweep # NoSweep, Valid(n)'
        PROVE  Above(n)' \/ Late(n)'
    <3>1. ASSUME NEW c \in sweep.cand, Valid(c)', ~Before(c, n)'
          PROVE  Late(n)'
      <4>1. c \in DOMAIN chain /\ chain'[c].by = chain'[n].by /\ c \in DOMAIN chain' \ {n}
        BY <2>1, <2>3, <2>7, <3>1 DEF Valid
      <4>2. c < n /\ chain'[c].seq \in Nat /\ c \in Nat
        BY <2>1, <4>1
      <4>3. chain'[c].seq = chain'[n].seq \/ chain'[n].seq < chain'[c].seq
        BY <2>1, <3>1, <4>2 DEF Before
      <4> QED
        BY <4>1, <4>2, <4>3 DEF Late
    <3> QED
      BY <2>2, <3>1 DEF Above
  <2>8. ASSUME sweep # NoSweep, sweep.gen = binds, NEW j \in DOMAIN chain' \ sweep.cand,
               Valid(j)', sweep.base < chain'[j].seq
        PROVE  \/ Above(j)' \/ (sweep.gathering /\ chain'[j].seq < sweep.floor)
               \/ Excepted(j)' \/ chain'[j].seq <= auth.ctr
    <3>1. CASE j = n
      BY <2>7, <2>8, <3>1 DEF Excepted
    <3>2. CASE j \in DOMAIN chain
      <4>1. Valid(j) /\ sweep.base < chain[j].seq /\ chain'[j] = chain[j]
        BY <2>1, <2>4, <2>8, <3>2
      <4>2. Above(j) \/ (sweep.gathering /\ chain[j].seq < sweep.floor) \/ Excepted(j) \/ chain[j].seq <= auth.ctr
        BY <2>8, <3>2, <4>1 DEF SweepInv
      <4> QED
        BY <2>5, <2>6, <2>8, <3>2, <4>1, <4>2
    <3> QED
      BY <2>1, <2>8, <3>1, <3>2
  <2> QED
    BY <2>2, <2>8 DEF SweepInv
<1>4. ASSUME NEW t \in Tasks, SweepBegins(t)
      PROVE  SweepInv'
  <2>1. UNCHANGED <<chain, auth, hidden, binds>> /\ auth.ctr \in Nat /\ binds \in Nat
    BY <1>0, <1>4, StoredKeys DEF SweepBegins, RunsOK
  <2>2. sweep' = sweep \/ (auth.claimed /\ sweep'.base = auth.ctr /\ sweep'.cand = {} /\ sweep'.gen = binds)
    BY <1>4 DEF SweepBegins
  <2> QED
    BY <1>1, <2>1, <2>2 DEF SweepInv, Above
<1>5. ASSUME NEW t \in Tasks, Dispatch(t)
      PROVE  SweepInv'
  <2>1. PICK i \in sweep.cand :
          /\ Accepted(i) /\ Advance(i) /\ hidden' = hidden \cup Passes(i)
          /\ \E d : sweep' = [sweep EXCEPT !.cand = @ \ {i}, !.dispatched = d]
    BY <1>5 DEF Dispatch
  <2>2. chain' = chain /\ hidden \subseteq hidden' /\ Dispatching(t) /\ i \in DOMAIN chain /\ sweep \in Sweep /\ binds' = binds
    BY <1>5, <2>1, InSweep DEF Dispatch, Dispatching, Advance
  <2>5. sweep'.cand = sweep.cand \ {i} /\ sweep'.base = sweep.base /\ sweep'.gathering = sweep.gathering /\ sweep'.gen = sweep.gen
    BY <2>1, <2>2 DEF Sweep
  <2>3. auth'.claimed = auth.claimed /\ auth'.owner = auth.owner /\ auth'.ctr = chain[i].seq
    BY <1>0, <2>1 DEF Advance, KeysOK, Binding
  <2>4. chain[i].seq \in Nat /\ auth.ctr \in Nat /\ auth.ctr < chain[i].seq
    BY <1>0, <2>1, <2>2, Entries, StoredKeys DEF Accepted
  <2> QED
    BY <2>1, <2>2, <2>3, <2>4, <2>5, Removes
<1>6. ASSUME NEW t \in Tasks, Skip(t)
      PROVE  SweepInv'
  <2>1. PICK i \in sweep.cand : ~Accepted(i) /\ sweep' = [sweep EXCEPT !.cand = @ \ {i}]
    BY <1>6 DEF Skip
  <2>2. UNCHANGED <<chain, hidden, auth, binds>> /\ Dispatching(t) /\ i \in DOMAIN chain /\ sweep \in Sweep
    BY <1>6, InSweep DEF Skip, Dispatching
  <2>3. chain[i].seq \in Nat /\ auth.ctr \in Nat
    BY <1>0, <2>2, Entries, StoredKeys
  <2>4. ~Valid(i) \/ chain[i].seq <= auth.ctr
    BY <2>1, <2>3 DEF Accepted
  <2>5. sweep'.cand = sweep.cand \ {i} /\ sweep'.base = sweep.base /\ sweep'.gathering = sweep.gathering /\ sweep'.gen = sweep.gen
    BY <2>1, <2>2 DEF Sweep
  <2> QED
    BY <2>2, <2>3, <2>4, <2>5, Removes
<1>7. CASE Bind \/ Clear
  BY <1>7, <1>a DEF Bind, Clear
<1>9. CASE Restart \/ RestartMisread \/ CutWhileBinding \/ CutWhileClearing
  BY <1>2, <1>9 DEF Restart, RestartMisread, CutWhileBinding, CutWhileClearing, Reboot
<1>10. CASE \/ UNCHANGED vars \/ WsConnected \/ WsSubscribed \/ WsDisconnected \/ PollWakes \/ WorkerWakes
            \/ AnswerLost \/ MappingExpires \/ OnResponse \/ ReleaseMapping
  BY <1>1, <1>10 DEF vars, WsConnected, WsSubscribed, WsDisconnected, PollWakes, WorkerWakes, AnswerLost,
                 MappingExpires, OnResponse, ReleaseMapping
<1>11. ASSUME NEW t \in Tasks, GatherAborted(t) \/ SweepEnds(t)
       PROVE  SweepInv'
  BY <1>2, <1>11 DEF GatherAborted, SweepEnds
<1> QED
  BY <1>3, <1>4, <1>5, <1>6, <1>7, <1>9, <1>10, <1>11, GatherKeeps DEF Next

\* A restart leaves nothing passed by: the counter it finds is not ahead of
\* the runs it keeps.
LEMMA RebootBurnsNothing ==
  ASSUME TypeOK, NothingBurnt, NEW f \in Binding, NEW n \in 0..Top, Reboot(f, n), lapses' = lapses,
         f.claimed /\ f.owner # Nobody => \/ n = 0
                                          \/ auth.claimed /\ f.owner = auth.owner /\ n <= auth.ctr
                                          \/ lapses > 0
  PROVE  NothingBurnt'
<1>1. /\ chain' = chain /\ lapses' = lapses /\ hidden' = hidden
      /\ auth'.owner = f.owner /\ auth'.claimed = f.claimed /\ auth'.ctr = n
      /\ (f.claimed /\ auth.claimed /\ f.owner = auth.owner => ran' = ran)
  BY Found DEF Reboot
<1>2. n \in Nat /\ auth.ctr \in Nat
  BY StoredKeys
<1>3. ASSUME NEW i \in DOMAIN chain, f.claimed, chain[i].by = f.owner, chain[i].seq <= n
      PROVE  ran'[i] > 0 \/ i \in hidden \/ lapses > 0 \/ Overtaken(i) \/ Late(i)
  <2>1. chain[i].by \in Owners /\ chain[i].seq \in Nat /\ chain[i].seq > 0
    BY Entries DEF TypeOK
  <2>2. f.owner # Nobody /\ n # 0
    BY <1>2, <1>3, <2>1, ArkivConstants
  <2>3. lapses > 0 \/ (auth.claimed /\ f.owner = auth.owner /\ n <= auth.ctr)
    BY <1>3, <2>2
  <2>4. lapses > 0 \/ (auth.claimed /\ f.owner = auth.owner /\ chain[i].seq <= auth.ctr)
    BY <1>2, <1>3, <2>1, <2>3
  <2> QED
    BY <1>1, <1>3, <2>4 DEF NothingBurnt, Valid
<1> QED
  BY <1>1, <1>3 DEF NothingBurnt, Valid, Overtaken, Late

\* No step burns a command.
LEMMA BurntStep ==
  ASSUME TypeOK, BindingInv, CounterInv, SweepInv, NothingBurnt, [Next]_vars
  PROVE  NothingBurnt'
<1> USE DEF binding, answering, ghosts
<1>0. ChainOK /\ KeysOK /\ SweepOK /\ RunsOK
  BY DEF TypeOK
<1>1. ASSUME UNCHANGED <<chain, auth, ran, lapses>>, hidden \subseteq hidden'
      PROVE  NothingBurnt'
  BY <1>1 DEF NothingBurnt, Valid, Overtaken, Late
<1>2. /\ \A i \in DOMAIN chain : chain[i].seq \in Nat /\ chain[i].seq > 0 /\ i \in Nat /\ chain[i].by \in Owners
      /\ auth.ctr \in Nat /\ nvs.ctr \in Nat /\ lapses \in Nat
  BY <1>0, Entries, StoredKeys DEF RunsOK
<1>3. CASE Creates
  <2>0. PICK n \in Nat : n = Len(chain) + 1
    BY <1>0, Entries
  <2>1. /\ DOMAIN chain' = DOMAIN chain \cup {n} /\ n \notin DOMAIN chain
        /\ \A i \in DOMAIN chain : chain'[i] = chain[i] /\ i < n
        /\ chain'[n].seq \in Nat /\ chain'[n].seq > 0 /\ chain'[n].by \in Owners
    BY <2>0, <1>0, <1>3, ChainGrows, ArkivConstants, Entries DEF Entity
  <2>2. UNCHANGED <<auth, ran, lapses, hidden>>
    BY <1>3 DEF Creates
  <2>3. ASSUME Valid(n)', chain'[n].seq <= auth.ctr
        PROVE  Late(n)'
    <3>1. auth.claimed /\ auth.owner = chain'[n].by /\ auth.owner # Nobody /\ auth.ctr > 0
      BY <1>2, <2>1, <2>2, <2>3, ArkivConstants DEF Valid
    <3>2. PICK i \in DOMAIN chain : chain[i].by = auth.owner /\ chain[i].seq = auth.ctr
      BY <3>1 DEF CounterInv, OfOwner
    <3>3. i \in DOMAIN chain' \ {n} /\ chain'[i].by = chain'[n].by /\ i < n
          /\ (chain'[i].seq = chain'[n].seq \/ chain'[n].seq < chain'[i].seq)
      BY <1>2, <2>1, <2>3, <3>1, <3>2
    <3> QED
      BY <3>3 DEF Late
  <2>4. ASSUME NEW i \in DOMAIN chain, Valid(i)', chain'[i].seq <= auth.ctr
        PROVE  ran[i] > 0 \/ i \in hidden \/ lapses > 0 \/ Overtaken(i)' \/ Late(i)'
    <3>1. Valid(i) /\ chain[i].seq <= auth.ctr
      BY <2>1, <2>2, <2>4 DEF Valid
    <3> QED
      BY <1>0, <1>3, <3>1, StillExcepted DEF NothingBurnt
  <2> QED
    BY <2>1, <2>2, <2>3, <2>4 DEF NothingBurnt
<1>4. ASSUME NEW t \in Tasks, Dispatch(t)
      PROVE  NothingBurnt'
  <2>1. PICK i \in sweep.cand : First(i) /\ Accepted(i) /\ Advance(i) /\ hidden' = hidden \cup Passes(i)
    BY <1>4 DEF Dispatch
  <2>2. /\ chain' = chain /\ i \in DOMAIN chain /\ i \in Ids /\ Valid(i)
        /\ sweep # NoSweep /\ ~sweep.gathering /\ sweep.cand \subseteq DOMAIN chain
    BY <1>0, <1>4, <2>1, InSweep, Entries DEF Dispatch, Dispatching, Accepted
  <2>3. auth'.claimed = auth.claimed /\ auth'.owner = auth.owner /\ auth'.ctr = chain[i].seq
    BY <1>0, <2>1 DEF Advance, KeysOK, Binding
  <2>4. ran' = [ran EXCEPT ![i] = @ + 1] /\ (lapses' = lapses \/ lapses' = lapses + 1) /\ ran \in [Ids -> Nat]
    BY <1>0, <2>1 DEF Advance, RunsOK
  <2>5. DOMAIN chain \subseteq Ids
    BY <1>0, Entries
  <2>6. ASSUME NEW j \in DOMAIN chain, Valid(j), chain[j].seq <= chain[i].seq
        PROVE  ran'[j] > 0 \/ j \in hidden' \/ lapses' > 0 \/ Overtaken(j) \/ Late(j)
    <3>1. CASE j = i
      BY <2>2, <2>4, <3>1
    <3>2. CASE chain[j].seq <= auth.ctr
      <4>1. ran[j] > 0 \/ j \in hidden \/ lapses > 0 \/ Overtaken(j) \/ Late(j)
        BY <2>6, <3>2 DEF NothingBurnt
      <4>2. ran[j] \in Nat /\ (ran'[j] = ran[j] \/ ran'[j] = ran[j] + 1)
        BY <2>4, <2>5
      <4> QED
        BY <1>2, <2>1, <2>4, <4>1, <4>2
    <3>3. CASE sweep.gen # binds
      BY <2>1, <2>6, <3>3 DEF Passes
    <3>4. CASE j # i /\ ~(chain[j].seq <= auth.ctr) /\ sweep.gen = binds
      <4>1. ASSUME Before(i, j)
            PROVE  Late(j)
        <5>1. chain[i].seq = chain[j].seq /\ i \in DOMAIN chain \ {j} /\ chain[i].by = chain[j].by
          BY <1>2, <2>2, <2>6, <3>4, <4>1 DEF Before, Valid
        <5> QED
          BY <5>1 DEF Late
      <4>2. CASE j \in sweep.cand
        BY <2>1, <3>4, <4>1, <4>2 DEF First
      <4>3. CASE j \notin sweep.cand
        <5>1. sweep.base <= auth.ctr /\ sweep.base \in Nat
          BY <1>0, <2>2, <3>4 DEF SweepInv, SweepOK, Sweep
        <5>2. sweep.base < chain[j].seq
          BY <1>2, <3>4, <5>1
        <5>3. Above(j) \/ Excepted(j)
          BY <2>2, <2>6, <3>4, <4>3, <5>2 DEF SweepInv
        <5> QED
          BY <2>1, <2>2, <4>1, <5>3 DEF Above, Excepted
      <4> QED
        BY <4>2, <4>3
    <3> QED
      BY <3>1, <3>2, <3>3, <3>4
  <2> QED
    BY <2>2, <2>3, <2>6 DEF NothingBurnt, Valid, Overtaken, Late
<1>5. CASE Bind
  <2>1. UNCHANGED <<chain, lapses, hidden>>
    BY <1>5 DEF Bind
  <2>2. PICK o \in Owners : (nvs' = BindKeys(o)[4] /\ auth' = nvs') \/ UNCHANGED <<auth, ran>>
    BY <1>5 DEF Bind
  <2>3. CASE nvs' = BindKeys(o)[4] /\ auth' = nvs'
    <3>1. auth'.ctr = 0
      BY <2>3, FullyBound
    <3> QED
      BY <1>2, <2>1, <3>1 DEF NothingBurnt, Valid
  <2> QED
    BY <1>1, <2>1, <2>2, <2>3
<1>6. CASE Clear
  <2>1. chain' = chain /\ ~auth'.claimed
    BY <1>6, PartErased DEF Clear
  <2> QED
    BY <2>1 DEF NothingBurnt, Valid
<1>7. CASE Restart
  <2>1. nvs \in Binding /\ nvs.ctr \in 0..Top /\ Reboot(nvs, nvs.ctr) /\ lapses' = lapses
    BY <1>0, <1>7, StoredKeys DEF Restart, KeysOK
  <2>2. nvs.claimed => nvs.ctr = 0 \/ (auth.claimed /\ nvs.owner = auth.owner /\ nvs.ctr <= auth.ctr) \/ lapses > 0
    BY DEF BindingInv
  <2> QED
    BY <2>1, <2>2, RebootBurnsNothing
<1>13. CASE RestartMisread
  <2>1. lapses' > 0 /\ chain' = chain
    BY <1>2, <1>13 DEF RestartMisread, Reboot
  <2> QED
    BY <2>1 DEF NothingBurnt
<1>8. CASE CutWhileBinding
  <2>1. ~auth.claimed /\ lapses' = lapses
    BY <1>8 DEF CutWhileBinding
  <2>2. PICK o \in Owners, k \in 1..3 : Reboot(BindKeys(o)[k], BindKeys(o)[k].ctr)
    BY <1>8 DEF CutWhileBinding
  <2>3. /\ BindKeys(o)[k] \in Binding /\ BindKeys(o)[k].claimed = nvs.claimed
        /\ BindKeys(o)[k].ctr \in {0, nvs.ctr} /\ BindKeys(o)[k].ctr \in 0..Top
    BY BindKeysType, PartBound DEF Binding
  <2>4. nvs.claimed => nvs.ctr = 0
    BY <2>1 DEF BindingInv
  <2> QED
    BY <2>1, <2>2, <2>3, <2>4, RebootBurnsNothing
<1>9. CASE CutWhileClearing
  <2>1. PICK f \in Cut : Reboot(f, f.ctr) /\ lapses' = lapses
    BY <1>9 DEF CutWhileClearing
  <2>2. f \in Binding /\ f.owner = Nobody /\ f.ctr \in 0..Top
    BY ErasedType, PartErased DEF Binding
  <2> QED
    BY <2>1, <2>2, RebootBurnsNothing
<1>10. CASE \/ UNCHANGED vars \/ WsConnected \/ WsSubscribed \/ WsDisconnected \/ PollWakes \/ WorkerWakes
            \/ AnswerLost \/ MappingExpires \/ OnResponse \/ ReleaseMapping
  BY <1>1, <1>10 DEF vars, WsConnected, WsSubscribed, WsDisconnected, PollWakes, WorkerWakes, AnswerLost,
                 MappingExpires, OnResponse, ReleaseMapping
<1>11. ASSUME NEW t \in Tasks, SweepBegins(t) \/ GatherAborted(t) \/ Skip(t) \/ SweepEnds(t)
       PROVE  NothingBurnt'
  BY <1>1, <1>11 DEF SweepBegins, GatherAborted, Skip, SweepEnds
<1>12. ASSUME NEW t \in Tasks, Gather(t)
       PROVE  NothingBurnt'
  <2>1. UNCHANGED <<chain, auth, ran, lapses>> /\ hidden \subseteq hidden'
    BY <1>12 DEF Gather
  <2> QED
    BY <1>1, <2>1
<1> QED
  BY <1>3, <1>4, <1>5, <1>6, <1>7, <1>8, <1>9, <1>10, <1>11, <1>12, <1>13 DEF Next

-----------------------------------------------------------------------------
(* Acknowledgements name the command they answer. *)

\* An erased owner is not stored again.
LEMMA RetiredStep ==
  ASSUME TypeOK, RetiredInv, [Next]_vars
  PROVE  RetiredInv'
<1> USE DEF binding, answering, ghosts
<1>0. KeysOK
  BY DEF TypeOK
<1>1. ASSUME nvs'.claimed = nvs.claimed, nvs'.owner = nvs.owner, retired' = retired, rebound' = rebound
      PROVE  RetiredInv'
  BY <1>1 DEF RetiredInv
<1>2. ASSUME NEW t \in Tasks, Dispatch(t)
      PROVE  RetiredInv'
  <2>1. PICK i \in sweep.cand : Advance(i)
    BY <1>2 DEF Dispatch
  <2>2. nvs'.claimed = nvs.claimed /\ nvs'.owner = nvs.owner /\ retired' = retired /\ rebound' = rebound
    BY <1>0, <2>1 DEF Advance, KeysOK, Binding
  <2> QED
    BY <1>1, <2>2
<1>3. CASE Bind
  <2>1. retired' = retired
    BY <1>3 DEF Bind
  <2>2. PICK o \in Owners : /\ rebound' = (rebound \/ o \in retired)
                            /\ nvs' = BindKeys(o)[4] \/ \E k \in 1..3 : nvs' = BindKeys(o)[k]
    BY <1>3 DEF Bind
  <2>4. nvs'.owner = o
    BY <2>2, FullyBound, PartBound
  <2> QED
    BY <2>1, <2>2, <2>4 DEF RetiredInv
<1>4. CASE Clear
  <2>1. nvs' = Unbound \/ nvs' \in Torn
    BY <1>4 DEF Clear
  <2> QED
    BY <2>1, PartErased DEF RetiredInv
<1>5. CASE Restart \/ RestartMisread
  BY <1>1, <1>5 DEF Restart, RestartMisread, Reboot
<1>6. CASE CutWhileBinding
  <2>1. retired' = retired
    BY <1>6 DEF CutWhileBinding
  <2>2. PICK o \in Owners, k \in 1..3 : nvs' = BindKeys(o)[k] /\ rebound' = (rebound \/ o \in retired)
    BY <1>6 DEF CutWhileBinding, Reboot
  <2>4. nvs'.owner = o
    BY <2>2, PartBound
  <2> QED
    BY <2>1, <2>2, <2>4 DEF RetiredInv
<1>7. CASE CutWhileClearing
  <2>1. PICK f \in Cut : nvs' = f
    BY <1>7 DEF CutWhileClearing, Reboot
  <2> QED
    BY <2>1, PartErased DEF RetiredInv
<1>8. CASE \/ UNCHANGED vars \/ Creates \/ WsConnected \/ WsSubscribed \/ WsDisconnected \/ PollWakes \/ WorkerWakes
           \/ AnswerLost \/ MappingExpires \/ OnResponse \/ ReleaseMapping
  BY <1>1, <1>8 DEF vars, Creates, WsConnected, WsSubscribed, WsDisconnected, PollWakes, WorkerWakes, AnswerLost,
                 MappingExpires, OnResponse, ReleaseMapping
<1>9. ASSUME NEW t \in Tasks, SweepBegins(t) \/ Gather(t) \/ GatherAborted(t) \/ Skip(t) \/ SweepEnds(t)
      PROVE  RetiredInv'
  BY <1>1, <1>9 DEF SweepBegins, Gather, GatherAborted, Skip, SweepEnds
<1> QED
  BY <1>2, <1>3, <1>4, <1>5, <1>6, <1>7, <1>8, <1>9 DEF Next

\* Steps that answer, expire, forget or restart: what was spent stays spent, and
\* no command joins the line or the table.
LEMMA AckKept ==
  ASSUME TypeOK, FramesApart, LineOwns, ReleaseOwns, chain' = chain,
         \A i \in DOMAIN chain : Spent(i) => Spent(i)',
         line' \subseteq line, release' \in {0, release},
         \A k \in DOMAIN slots' : \E l \in DOMAIN slots : slots'[k] = slots[l]
  PROVE  FramesApart' /\ LineOwns' /\ ReleaseOwns'
<1>1. line \subseteq DOMAIN chain /\ release \in {0} \cup DOMAIN chain
  BY DEF TypeOK, LineOK
<1>2. FramesApart'
  <2>1. \A i \in DOMAIN chain : ran[i] \in Nat /\ (ran'[i] = 0 => ~(ran'[i] > 0))
    BY Entries DEF TypeOK, RunsOK
  <2>2. \A i \in DOMAIN chain : i \in Unanswered <=> ~Spent(i) \/ i \in line
    BY <2>1 DEF Unanswered, Spent
  <2>3. \A i \in Unanswered' : i \in DOMAIN chain /\ (~Spent(i)' \/ i \in line')
    BY <2>1 DEF Unanswered, Spent
  <2>4. Unanswered' \subseteq Unanswered
    BY <2>2, <2>3
  <2> QED
    BY <2>4 DEF FramesApart
<1>3. LineOwns'
  BY <1>1 DEF LineOwns, Pending
<1>4. ReleaseOwns'
  BY <1>1 DEF ReleaseOwns
<1> QED
  BY <1>2, <1>3, <1>4

\* While an owner is not in force no run is counted; so what is spent stays so
\* when a binding comes, goes or is found again.
LEMMA SpentStays ==
  ASSUME TypeOK, BindingInv, chain' = chain, retired \subseteq retired',
         \/ ran' = ran
         \/ ~auth.claimed
         \/ auth.owner \in retired'
  PROVE  \A i \in DOMAIN chain : Spent(i) => Spent(i)'
BY DEF Spent, BindingInv

\* An entity comes.
LEMMA AckCreates ==
  ASSUME TypeOK, AckSound, Creates
  PROVE  AckSound'
<1> DEFINE n == Len(chain) + 1
<1>1. UNCHANGED <<auth, nvs, slots, line, release, astray, unmapped, ran, retired>>
  BY DEF Creates, binding, answering, ghosts
<1>2. /\ DOMAIN chain' = DOMAIN chain \cup {n} /\ n \in Ids \ DOMAIN chain
      /\ \A i \in DOMAIN chain : chain'[i] = chain[i]
      /\ \A i \in Unanswered : chain[i].frame # chain'[n].frame
  BY ChainGrows DEF TypeOK
<1>3. ran[n] = 0 /\ line \subseteq DOMAIN chain /\ release \in {0} \cup DOMAIN chain
  BY <1>2 DEF TypeOK, RunsOK, LineOK
<1> HIDE DEF n
<1>4. RunsStored'
  BY <1>1, <1>2, <1>3 DEF RunsStored, AckSound
<1>5. FramesApart'
  <2>1. Unanswered' \subseteq Unanswered \cup {n}
    BY <1>1, <1>2 DEF Unanswered
  <2>2. \A i \in Unanswered : i \in DOMAIN chain
    BY DEF Unanswered
  <2> QED
    BY <1>2, <2>1, <2>2 DEF FramesApart, AckSound
<1>6. LineOwns' /\ ReleaseOwns'
  BY <1>1, <1>2, <1>3 DEF LineOwns, ReleaseOwns, Pending, Spent, AckSound
<1>7. AllAnswered'
  BY <1>1 DEF AllAnswered, AckSound, Mapped
<1> QED
  BY <1>4, <1>5, <1>6, <1>7 DEF AckSound

\* A command is dispatched whose number is stored: it was not spent, so no
\* other command that waits for its answer has its SEQ byte.
LEMMA AckDispatch ==
  ASSUME TypeOK, BindingInv, RetiredInv, AckSound, NEW t \in Tasks, Dispatch(t),
         ~rebound, lapses = 0, lapses' = lapses
  PROVE  AckSound'
<1>1. PICK i \in sweep.cand : Accepted(i) /\ Advance(i) /\ (Forward(i) \/ LocalOp(i))
  BY DEF Dispatch
<1>2. chain' = chain /\ ChainOK /\ SlotsOK /\ LineOK /\ RunsOK /\ KeysOK /\ i \in DOMAIN chain /\ i \in Ids
  BY InSweep, Entries DEF Dispatch, Dispatching, TypeOK
<1>3. /\ \A j \in DOMAIN chain : chain[j].seq \in Nat /\ chain[j].by \in Owners /\ j \in Ids
      /\ auth.ctr \in Nat /\ nvs.ctr \in Nat /\ ran \in [Ids -> Nat]
      /\ line \subseteq DOMAIN chain /\ release \in {0} \cup DOMAIN chain
  BY <1>2, Entries, StoredKeys DEF RunsOK, LineOK
<1>4. auth.claimed /\ chain[i].by = auth.owner /\ auth.ctr < chain[i].seq /\ nvs.ctr <= auth.ctr
      /\ nvs.claimed /\ nvs.owner = auth.owner
  BY <1>1 DEF Accepted, Valid, BindingInv
<1>5. ran[i] = 0 /\ chain[i].by \notin retired /\ ~Spent(i)
  <2>1. ~(ran[i] > 0)
    BY <1>2, <1>3, <1>4 DEF AckSound, RunsStored
  <2>2. chain[i].by \notin retired
    BY <1>2, <1>3, <1>4, ArkivConstants DEF RetiredInv
  <2> QED
    BY <1>2, <1>3, <2>1, <2>2 DEF Spent
<1>6. i \in Unanswered /\ i \notin line /\ release # i
  <2>1. i # 0
    BY <1>2, Entries
  <2> QED
    BY <1>2, <1>3, <1>5, <2>1 DEF Unanswered, AckSound, LineOwns, ReleaseOwns
<1>7. nvs'.ctr = chain[i].seq /\ retired' = retired /\ ran' = [ran EXCEPT ![i] = @ + 1]
  <2>1. lapses # lapses + 1
    BY <1>2 DEF RunsOK
  <2> QED
    BY <1>1, <1>2, <2>1 DEF Advance, KeysOK, Binding
<1>8. \A j \in DOMAIN chain : ran'[j] = IF j = i THEN 1 ELSE ran[j]
  BY <1>2, <1>3, <1>5, <1>7
<1>9. \A j \in DOMAIN chain : Spent(j)' <=> (j = i \/ Spent(j))
  BY <1>2, <1>7, <1>8 DEF Spent
<1>10. RunsStored'
  BY <1>2, <1>3, <1>4, <1>7, <1>8 DEF RunsStored, AckSound
<1>11. line' \in {line, line \cup {i}} /\ release' = release /\ astray' = astray
  BY <1>1 DEF Forward, LocalOp
<1>12. FramesApart'
  <2>1. \A j \in Unanswered' : j \in DOMAIN chain /\ ((ran'[j] = 0 /\ chain[j].by \notin retired) \/ j \in line')
    BY <1>2, <1>7 DEF Unanswered
  <2>2. Unanswered' \subseteq Unanswered
    BY <1>6, <1>8, <1>11, <2>1 DEF Unanswered
  <2> QED
    BY <1>2, <2>2 DEF FramesApart, AckSound
<1>13. ReleaseOwns'
  BY <1>3, <1>6, <1>9, <1>11 DEF ReleaseOwns, AckSound
<1>14. \A k \in DOMAIN slots' :
         \/ slots'[k] = [frame |-> chain[i].frame, cmd |-> i]
         \/ \E l \in DOMAIN slots : slots'[k] = slots[l] /\ (slots[l].frame # chain[i].frame \/ slots' = slots)
  <2>1. CASE Track(i)
    BY <1>2, <2>1, TrackSlots
  <2>2. CASE slots' = slots
    BY <2>2
  <2> QED
    BY <1>1, <2>1, <2>2 DEF Forward, LocalOp
<1>15. LineOwns'
  <2>1. ASSUME NEW j \in line', NEW k \in DOMAIN slots', slots'[k].frame = chain[j].frame
        PROVE  slots'[k].cmd = j
    <3>1. CASE j \in line
      <4>1. j # i /\ j \in Unanswered /\ chain[j].frame # chain[i].frame
        BY <1>3, <1>6, <3>1 DEF Unanswered, FramesApart, AckSound
      <4>2. PICK l \in DOMAIN slots : slots'[k] = slots[l]
        <5>1. slots'[k] # [frame |-> chain[i].frame, cmd |-> i]
          BY <2>1, <4>1
        <5> QED
          BY <1>14, <5>1
      <4> QED
        BY <2>1, <3>1, <4>2 DEF LineOwns, Pending, AckSound
    <3>2. CASE j \notin line
      <4>1. j = i /\ Forward(i)
        BY <1>1, <1>11, <2>1, <3>2 DEF LocalOp
      <4>2. slots'[k] = [frame |-> chain[i].frame, cmd |-> i]
        BY <1>2, <2>1, <4>1, TrackSlots DEF Forward
      <4> QED
        BY <4>1, <4>2
    <3> QED
      BY <3>1, <3>2
  <2>2. \A j \in line' : j \in DOMAIN chain /\ Spent(j)'
    BY <1>2, <1>3, <1>9, <1>11 DEF LineOwns, AckSound
  <2> QED
    BY <1>2, <2>1, <2>2 DEF LineOwns, Pending
<1>16. AllAnswered'
  <2>1. astray' = {}
    BY <1>11 DEF AllAnswered, AckSound
  <2>2. ASSUME NEW j \in line'
        PROVE  j \in Mapped(slots') \/ j \in unmapped'
    <3>1. CASE j \in line
      <4>1. j # i /\ (j \in Mapped(slots) \/ j \in unmapped)
        BY <1>6, <3>1 DEF AllAnswered, AckSound
      <4>2. CASE unmapped' = unmapped /\ slots' = slots
        BY <4>1, <4>2
      <4>3. CASE Unmapped(slots') \ {i} \subseteq unmapped'
        BY <3>1, <4>1, <4>3 DEF Unmapped
      <4> QED
        BY <1>1, <4>2, <4>3 DEF Forward, LocalOp
    <3>2. CASE j \notin line
      <4>1. j = i /\ Forward(i)
        BY <1>1, <1>11, <2>2, <3>2 DEF LocalOp
      <4>2. \E k \in DOMAIN slots' : slots'[k].cmd = i
        BY <1>2, <4>1, TrackSlots DEF Forward
      <4> QED
        BY <4>1, <4>2 DEF Mapped
    <3> QED
      BY <3>1, <3>2
  <2> QED
    BY <2>1, <2>2 DEF AllAnswered, Mapped
<1> QED
  BY <1>10, <1>12, <1>13, <1>15, <1>16 DEF AckSound

\* The answers, and the slots that expire or are given back.
LEMMA AckAnswers ==
  ASSUME TypeOK, AckSound, AnswerLost \/ MappingExpires \/ OnResponse \/ ReleaseMapping
  PROVE  AckSound'
<1> USE DEF binding, ghosts
<1>1. UNCHANGED <<chain, nvs, ran, retired>>
  BY DEF AnswerLost, MappingExpires, OnResponse, ReleaseMapping
<1>2. (\A i \in DOMAIN chain : Spent(i) => Spent(i)') /\ RunsStored'
  BY <1>1 DEF Spent, RunsStored, AckSound
<1>3. SlotsOK /\ line \subseteq DOMAIN chain /\ DOMAIN chain = 1..Len(chain)
  BY Entries DEF TypeOK, LineOK
<1>4. CASE AnswerLost
  <2>1. /\ UNCHANGED <<slots, release, astray>>
        /\ \E i \in line : line' = line \ {i} /\ unmapped' = unmapped \ {i}
    BY <1>4 DEF AnswerLost
  <2>2. FramesApart' /\ LineOwns' /\ ReleaseOwns'
    BY <1>1, <1>2, <2>1, AckKept DEF AckSound
  <2>3. AllAnswered'
    BY <2>1 DEF AllAnswered, AckSound, Mapped
  <2> QED
    BY <1>2, <2>2, <2>3 DEF AckSound
<1>5. CASE MappingExpires
  <2>1. /\ UNCHANGED <<line, release, astray>>
        /\ slots # <<>> /\ slots' = Without(slots, 1) /\ unmapped' = Unmapped(slots')
    BY <1>5 DEF MappingExpires
  <2>2. 1 \in DOMAIN slots /\ slots \in Seq(Slot)
    BY <1>3, <2>1 DEF SlotsOK
  <2>3. \A k \in DOMAIN slots' : \E l \in DOMAIN slots : slots'[k] = slots[l]
    <3> DEFINE r == Without(slots, 1)
    <3>1. \A j \in DOMAIN r : \E l \in DOMAIN slots \ {1} : r[j] = slots[l]
      BY <2>2, WithoutSlot
    <3> HIDE DEF r
    <3>2. slots' = r
      BY <2>1 DEF r
    <3> QED
      BY <3>1, <3>2
  <2>4. FramesApart' /\ LineOwns' /\ ReleaseOwns'
    BY <1>1, <1>2, <2>1, <2>3, AckKept DEF AckSound
  <2>5. AllAnswered'
    BY <2>1 DEF AllAnswered, AckSound, Unmapped, Mapped
  <2> QED
    BY <1>2, <2>4, <2>5 DEF AckSound
<1>6. CASE OnResponse
  <2>1. PICK i \in line :
          /\ line' = line \ {i} /\ unmapped' = unmapped \ {i}
          /\ Emit(i) \/ UNCHANGED <<astray, release>>
    BY <1>6 DEF OnResponse
  <2>2. UNCHANGED slots /\ release = 0
    BY <1>6 DEF OnResponse
  <2>3. astray' = astray /\ release' \in {0, i}
    <3>1. CASE UNCHANGED <<astray, release>>
      BY <2>2, <3>1
    <3>2. ASSUME NEW k \in Pending(chain[i].frame),
                 astray' = astray \cup ({<<slots[k].cmd, i>>} \ {<<i, i>>}), release' = slots[k].cmd
          PROVE  astray' = astray /\ release' \in {0, i}
      <4>1. slots[k].cmd = i
        BY <2>1, <3>2 DEF AckSound, LineOwns
      <4> QED
        BY <3>2, <4>1
    <3> QED
      BY <2>1, <3>1, <3>2 DEF Emit
  <2>4. FramesApart' /\ LineOwns'
    <3>1. Unanswered' \subseteq Unanswered
      BY <1>1, <2>1 DEF Unanswered
    <3> QED
      BY <1>1, <1>2, <1>3, <2>1, <2>2, <3>1 DEF FramesApart, LineOwns, Pending, AckSound
  <2>5. ReleaseOwns'
    BY <1>2, <1>3, <2>1, <2>3 DEF ReleaseOwns, LineOwns, AckSound
  <2>6. AllAnswered'
    BY <2>1, <2>2, <2>3 DEF AllAnswered, AckSound, Mapped
  <2> QED
    BY <1>2, <2>4, <2>5, <2>6 DEF AckSound
<1>7. CASE ReleaseMapping
  <2>1. UNCHANGED <<line, astray, unmapped>> /\ release # 0 /\ release' = 0
    BY <1>7 DEF ReleaseMapping
  <2>2. slots' = slots \/ \E k \in DOMAIN slots : slots[k].cmd = release /\ slots' = Without(slots, k)
    BY <1>7 DEF ReleaseMapping, Released
  <2>3. /\ \A k \in DOMAIN slots' : \E l \in DOMAIN slots : slots'[k] = slots[l]
        /\ \A l \in DOMAIN slots : slots[l].cmd # release => \E k \in DOMAIN slots' : slots'[k] = slots[l]
    <3>1. CASE slots' = slots
      BY <3>1
    <3>2. ASSUME NEW k \in DOMAIN slots, slots[k].cmd = release, slots' = Without(slots, k)
          PROVE  /\ \A j \in DOMAIN slots' : \E l \in DOMAIN slots : slots'[j] = slots[l]
                 /\ \A l \in DOMAIN slots : slots[l].cmd # release => \E j \in DOMAIN slots' : slots'[j] = slots[l]
      <4> DEFINE r == Without(slots, k)
      <4>1. /\ \A j \in DOMAIN r : \E l \in DOMAIN slots \ {k} : r[j] = slots[l]
            /\ \A l \in DOMAIN slots \ {k} : \E j \in DOMAIN r : r[j] = slots[l]
        BY <1>3, WithoutSlot DEF SlotsOK
      <4> HIDE DEF r
      <4>2. slots' = r
        BY <3>2 DEF r
      <4> QED
        BY <3>2, <4>1, <4>2
    <3> QED
      BY <2>2, <3>1, <3>2
  <2>4. FramesApart' /\ LineOwns' /\ ReleaseOwns'
    BY <1>1, <1>2, <2>1, <2>3, AckKept DEF AckSound
  <2>5. AllAnswered'
    <3>1. release \notin line
      BY <2>1 DEF ReleaseOwns, AckSound
    <3>2. \A j \in line : j \in Mapped(slots) => j \in Mapped(slots')
      BY <2>3, <3>1 DEF Mapped
    <3> QED
      BY <2>1, <3>2 DEF AllAnswered, AckSound, Mapped
  <2> QED
    BY <1>2, <2>4, <2>5 DEF AckSound
<1> QED
  BY <1>4, <1>5, <1>6, <1>7

\* A binding that comes or goes, and a restart.
LEMMA AckBinding ==
  ASSUME TypeOK, TypeOK', BindingInv, BindingInv', AckSound,
         Bind \/ Clear \/ Restart \/ CutWhileBinding \/ CutWhileClearing
  PROVE  AckSound'
<1> USE DEF answering
<1>1. /\ chain' = chain /\ line' = line /\ astray' = astray /\ retired \subseteq retired' /\ release' \in {0, release}
      /\ \/ slots' = slots /\ unmapped' = unmapped
         \/ slots' = <<>> /\ unmapped' = line
  BY DEF Bind, Clear, Restart, CutWhileBinding, CutWhileClearing, Reboot
<1>2. ran' = ran \/ ~auth.claimed \/ auth.owner \in retired'
  <2>1. CASE Bind \/ CutWhileBinding
    BY <2>1 DEF Bind, CutWhileBinding
  <2>2. CASE Clear \/ CutWhileClearing
    BY <2>2 DEF Clear, CutWhileClearing
  <2>3. CASE Restart
    BY <2>3 DEF Restart, Reboot, BindingInv
  <2> QED
    BY <2>1, <2>2, <2>3
<1>3. \A i \in DOMAIN chain : Spent(i) => Spent(i)'
  BY <1>1, <1>2, SpentStays
<1>4. \A k \in DOMAIN slots' : \E l \in DOMAIN slots : slots'[k] = slots[l]
  BY <1>1
<1>5. FramesApart' /\ LineOwns' /\ ReleaseOwns'
  BY <1>1, <1>3, <1>4, AckKept DEF AckSound
<1>6. AllAnswered'
  BY <1>1 DEF AllAnswered, AckSound, Mapped
<1>7. RunsStored'
  <2>0. \A i \in DOMAIN chain : NeverRan[i] = 0 /\ chain[i].by \in Owners
    BY Entries DEF TypeOK, NeverRan
  <2>1. ASSUME NEW i \in DOMAIN chain, ran'[i] > 0
        PROVE  chain[i].seq <= nvs'.ctr
    <3>1. ran'[i] = ran[i] /\ ran[i] > 0
      <4>1. ran' = ran \/ ran' = NeverRan
        BY DEF Bind, Clear, Restart, CutWhileBinding, CutWhileClearing, Reboot
      <4> QED
        BY <2>0, <2>1, <4>1
    <3>2. auth.claimed /\ chain[i].by = auth.owner /\ auth'.claimed /\ chain[i].by = auth'.owner
      BY <1>1, <2>1, <3>1 DEF BindingInv
    <3>3. Restart
      <4>1. ~Bind /\ ~CutWhileBinding
        BY <3>2 DEF Bind, CutWhileBinding
      <4>2. ~Clear
        BY <3>2, PartErased DEF Clear
      <4>3. ~CutWhileClearing
        <5>1. ASSUME NEW f \in Cut, Reboot(f, f.ctr)
              PROVE  FALSE
          <6>1. f \in Binding /\ f.ctr \in 0..Top /\ f.owner = Nobody
            BY ErasedType, PartErased DEF Binding
          <6>2. auth'.owner = Nobody
            BY <5>1, <6>1, Found
          <6> QED
            BY <2>0, <3>2, <6>2, ArkivConstants
        <5> QED
          BY <5>1 DEF CutWhileClearing
      <4> QED
        BY <4>1, <4>2, <4>3
    <3>4. nvs' = nvs
      BY <3>3 DEF Restart, Reboot
    <3> QED
      BY <3>1, <3>4 DEF RunsStored, AckSound
  <2> QED
    BY <1>1, <2>1 DEF RunsStored
<1> QED
  BY <1>5, <1>6, <1>7 DEF AckSound

\* No step answers for another command as long as every number is stored.
LEMMA AckStep ==
  ASSUME TypeOK, TypeOK', BindingInv, BindingInv', RetiredInv, AckInv, [Next]_vars
  PROVE  AckInv'
<1> USE DEF binding, answering, ghosts
<1>1. SUFFICES ASSUME lapses' = 0, ~rebound'
               PROVE  AckSound'
  BY DEF AckInv
<1>2. lapses' = lapses \/ lapses' = lapses + 1
  BY DEF Next, vars, Creates, WsConnected, WsSubscribed, WsDisconnected, PollWakes, WorkerWakes, SweepBegins, Gather,
         GatherAborted, Skip, SweepEnds, Dispatch, Advance, AnswerLost, MappingExpires, OnResponse, ReleaseMapping,
         Bind, Clear, Restart, RestartMisread, CutWhileBinding, CutWhileClearing, Reboot
<1>a. rebound => rebound'
  BY DEF Next, vars, Creates, WsConnected, WsSubscribed, WsDisconnected, PollWakes, WorkerWakes, SweepBegins, Gather,
         GatherAborted, Skip, SweepEnds, Dispatch, Advance, AnswerLost, MappingExpires, OnResponse, ReleaseMapping,
         Bind, Clear, Restart, RestartMisread, CutWhileBinding, CutWhileClearing
<1>3. lapses = 0 /\ lapses' = lapses /\ ~rebound /\ AckSound
  BY <1>1, <1>2, <1>a DEF TypeOK, RunsOK, AckInv
<1>b. ~RestartMisread
  BY <1>3 DEF RestartMisread
<1>4. ASSUME UNCHANGED <<chain, nvs, slots, line, release, astray, unmapped, ran, retired>>
      PROVE  AckSound'
  BY <1>3, <1>4 DEF AckSound, RunsStored, FramesApart, Unanswered, LineOwns, ReleaseOwns, AllAnswered, Spent, Pending, Mapped
<1>5. CASE UNCHANGED vars \/ WsConnected \/ WsSubscribed \/ WsDisconnected \/ PollWakes \/ WorkerWakes
  BY <1>4, <1>5 DEF vars, WsConnected, WsSubscribed, WsDisconnected, PollWakes, WorkerWakes
<1>6. ASSUME NEW t \in Tasks, SweepBegins(t) \/ Gather(t) \/ GatherAborted(t) \/ Skip(t) \/ SweepEnds(t)
      PROVE  AckSound'
  BY <1>4, <1>6 DEF SweepBegins, Gather, GatherAborted, Skip, SweepEnds
<1> QED
  BY <1>3, <1>5, <1>6, <1>b, AckCreates, AckDispatch, AckAnswers, AckBinding DEF Next

-----------------------------------------------------------------------------
(* All of it. *)
CommandsInv ==
    TypeOK /\ BindingInv /\ CounterInv /\ SweepInv /\ NothingBurnt /\ RetiredInv /\ AckInv

LEMMA CommandsStart ==
  ASSUME Init
  PROVE  CommandsInv
<1>1. TypeOK /\ BindingInv
  BY Starts
<1>2. /\ sweep = NoSweep /\ line = {} /\ release = 0 /\ astray = {} /\ ran = NeverRan /\ retired = {} /\ auth = nvs
      /\ chain \in Backlogs
  BY DEF Init
<1>3. nvs.ctr = 0
  BY DEF Init, Keys
<1>4. \A i \in DOMAIN chain : ran[i] = 0 /\ chain[i].seq \in Nat /\ chain[i].seq > 0
  BY <1>1, <1>2, Entries DEF TypeOK, NeverRan
<1>5. CounterInv
  BY <1>2, <1>3 DEF CounterInv, OfOwner
<1>6. SweepInv
  BY <1>2 DEF SweepInv
<1>7. NothingBurnt
  BY <1>2, <1>3, <1>4 DEF NothingBurnt
<1>8. RetiredInv
  BY <1>2 DEF RetiredInv
<1>9. FramesApart
  <2>1. \A i, j \in DOMAIN chain : i # j => chain[i].frame # chain[j].frame
    BY <1>2, ArkivConstants
  <2> QED
    BY <2>1 DEF FramesApart, Unanswered
<1>10. AckInv
  BY <1>2, <1>4, <1>9 DEF AckInv, AckSound, RunsStored, LineOwns, ReleaseOwns, AllAnswered
<1> QED
  BY <1>1, <1>5, <1>6, <1>7, <1>8, <1>10 DEF CommandsInv

\* Whoever leaves entities, with whatever numbers, and whenever owners are
\* bound: but for the exceptions CommandsSound names, no command of the owner is
\* passed by unrun by a sweep, no acknowledgement names another command than
\* the one answered, and the binding in force survives any one failure of the
\* flash whole.
THEOREM CommandsAlwaysSound == Spec => []CommandsSound
<1>1. Init => CommandsInv
  BY CommandsStart
<1>2. CommandsInv /\ [Next]_vars => CommandsInv'
  <2>1. SUFFICES ASSUME CommandsInv, [Next]_vars
                 PROVE  CommandsInv'
    OBVIOUS
  <2>2. TypeOK /\ BindingInv /\ CounterInv /\ SweepInv /\ NothingBurnt /\ RetiredInv /\ AckInv
    BY <2>1 DEF CommandsInv
  <2>3. TypeOK'
    BY <2>1, <2>2, TypeStep
  <2>4. BindingInv'
    BY <2>1, <2>2, BindingStep
  <2>5. CounterInv'
    BY <2>1, <2>2, CounterStep
  <2>6. SweepInv'
    BY <2>1, <2>2, SweepStep
  <2>7. NothingBurnt'
    BY <2>1, <2>2, BurntStep
  <2>8. RetiredInv'
    BY <2>1, <2>2, RetiredStep
  <2>9. AckInv'
    BY <2>1, <2>2, <2>3, <2>4, AckStep
  <2> QED
    BY <2>3, <2>4, <2>5, <2>6, <2>7, <2>8, <2>9 DEF CommandsInv
<1>3. CommandsInv => CommandsSound
  <2>1. SUFFICES ASSUME CommandsInv
                 PROVE  CommandsSound
    OBVIOUS
  <2>2. NothingBurnt /\ AckTruthful
    BY <2>1 DEF CommandsInv, AckInv, AckSound, AllAnswered, AckTruthful
  <2>3. BindingWhole
    <3>1. faults \in Nat
      BY <2>1 DEF CommandsInv, TypeOK, RunsOK
    <3> QED
      BY <2>1, <3>1 DEF CommandsInv, BindingInv, BindingWhole
  <2> QED
    BY <2>2, <2>3 DEF CommandsSound
<1> QED
  BY <1>1, <1>2, <1>3, PTL DEF Spec
=============================================================================
