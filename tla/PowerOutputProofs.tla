-------------------------- MODULE PowerOutputProofs --------------------------
(***************************************************************************)
(* OutputSound for any number of partners, messages, commands, losses and  *)
(* glitches, any debounce and any range of MessageIDs.                     *)
(*                                                                         *)
(* Neither half of OutputSound is inductive.  What the two ends agree on   *)
(* is settled by several messages, each of which may be lost, repeated, or *)
(* still wait in PD_Rx_Buf when its sender has lost power, was unplugged   *)
(* or was reset.  OutputInv says what a waiting message can still do, what *)
(* each state of PD_Main_Proc presumes of the partner, and when a          *)
(* repeated DR_Swap is recognised.                                         *)
(*                                                                         *)
(* AlarmsSound is not inductive either: the low alarm is raised once       *)
(* because the detector remembers it, and the silence of the line is       *)
(* bounded by what each wedge still owes (EventsInv).                      *)
(***************************************************************************)
EXTENDS MCCh32x, SequenceTheorems, TLAPS

PdStates == {"idle", "disconnect", "sink_connect", "tx_src_cap", "rx_req_wait", "tx_accept",
             "tx_ps_rdy", "tx_softrst", "tx_hrst", "tx_vdm"}
Roles == {"dfp", "ufp"}
Messages == {"none", "request", "soft_reset", "dr_swap", "vdm", "get_src_cap", "other"}

(***************************************************************************)
(* The types                                                               *)
(***************************************************************************)
PdOK(p) ==
    /\ DOMAIN p = {"st", "conn", "det", "stop", "src", "role", "latch", "pdo"}
    /\ p.st \in PdStates /\ p.role \in Roles /\ p.latch \in 0..Ids /\ p.pdo \in 0..7
    /\ p.det \in 0..(Debounce - 1)
    /\ p.conn \in BOOLEAN /\ p.stop \in BOOLEAN /\ p.src \in BOOLEAN

RailOK(r) ==
    /\ DOMAIN r = {"pa7", "oe", "volts", "set"} /\ r.pa7 \in BOOLEAN
    /\ r.volts \in {0, 5, 9, 12, 15} /\ r.set \in {0, 5, 9, 12, 15}

PartnerOK(q) ==
    /\ DOMAIN q = {"cc", "awake", "role", "caps", "asked", "granted", "contract", "swap", "again",
                   "mid"}
    /\ q.cc \in BOOLEAN /\ q.awake \in BOOLEAN /\ q.role \in Roles /\ q.caps \in BOOLEAN
    /\ q.asked \in 0..7 /\ q.granted \in BOOLEAN /\ q.contract \in 0..7
    /\ q.swap \in BOOLEAN /\ q.again \in BOOLEAN /\ q.mid \in 0..(Ids - 1)

RxOK(m) ==
    /\ m \in [type : Messages, arg : Nat] /\ (m.type = "none" => m = Empty)
    /\ m.type = "request" => m.arg \in 0..7
    /\ m.type = "dr_swap" => m.arg \in 0..(Ids - 1)

Types ==
    /\ PdOK(pd) /\ RxOK(rx) /\ RailOK(rail) /\ PartnerOK(partner)
    /\ serving \in BOOLEAN /\ abrupt \in BOOLEAN

(***************************************************************************)
(* The invariant                                                           *)
(***************************************************************************)

\* A partner without a session.
Blank(q) == /\ q.role = "ufp" /\ ~q.caps /\ q.asked = 0 /\ ~q.granted /\ q.contract = 0
            /\ ~q.swap /\ ~q.again

\* Only a partner that is awake, heard and known to PD_Det_Proc has agreed on
\* anything.
PartnerInv(p, q) ==
    /\ q.awake => q.cc
    /\ ~(q.awake /\ p.src /\ p.conn) => Blank(q)
    /\ ~q.caps => q.asked = 0
    /\ q.granted => q.asked # 0
    /\ q.again => q.contract # 0

\* The source: STA_DISCONNECT comes with nobody at the port; a session, and each
\* partner, begins as DFP, unless detection is stopped; and before the connection
\* is noted nothing that waits can concern a session.
SourceInv(p, m, busy, q) ==
    /\ p.st = "disconnect" => ~p.conn /\ ~(q.cc /\ p.src)
    /\ busy => m # Empty /\ p.st # "disconnect"
    /\ p.st = "sink_connect" => p.role = "dfp"
    /\ ~p.conn => m.type \in {"none", "soft_reset", "other"}
    /\ ~p.conn /\ ~p.stop /\ p.st # "disconnect" => p.role = "dfp"

\* The two ends can talk and neither has started afresh without the other.  A
\* message is stale if the session it belongs to may be over, and lost is the
\* session that a hard reset is about to end.
InTouch(p, r, q, a) == q.cc /\ p.src /\ ~a /\ (q.awake \/ r.pa7)
Stale(p, busy) == p.st \in {"sink_connect", "tx_hrst"} \/ (busy /\ p.st = "tx_src_cap")
Lost(p, busy) == p.st = "tx_hrst" /\ ~busy

\* Data roles.  A DR_Swap that waits is awaited, recognised by its MessageID, or
\* stale, and one that may come again has the latched MessageID.
SwapInv(p, m, busy, q) ==
    /\ ~Lost(p, busy) => p.role = Other(q.role)
    /\ m.type = "dr_swap" => q.swap \/ m.arg = p.latch \/ Stale(p, busy)
    /\ q.again /\ ~q.swap => m = Empty /\ (~Lost(p, busy) => p.latch = Before(q.mid))
    /\ q.swap /\ m.type = "dr_swap" => m.arg = Before(q.mid)

\* The contract.  A Request that waits is the one the partner waits for, or stale;
\* what is being accepted is what was asked for, and while it is there is no
\* other contract.
ContractInv(p, m, busy, r, q) ==
    /\ m.type = "request" /\ q.caps => q.asked = m.arg
    /\ m.type \in {"request", "get_src_cap"} /\ ~q.caps => Stale(p, busy)
    /\ p.st \in {"tx_accept", "tx_ps_rdy"} /\ q.caps => q.asked # 0 /\ m.type # "request"
    /\ p.st = "tx_accept" /\ q.asked # 0 /\ r.pa7 => p.pdo = q.asked
    /\ p.st = "tx_ps_rdy" /\ q.granted /\ r.pa7 => r.set = Volts(q.asked)
    /\ m.type = "request" \/ p.st \in {"tx_accept", "tx_ps_rdy"} => q.contract = 0
    /\ q.contract # 0 /\ r.pa7 => r.set = Volts(q.contract)

\* Everything at once; the session's parts hold while the ends are in touch.
OutputInv ==
    /\ Types /\ PartnerInv(pd, partner) /\ SourceInv(pd, rx, serving, partner)
    /\ InTouch(pd, rail, partner, abrupt) =>
          /\ SwapInv(pd, rx, serving, partner)
          /\ ContractInv(pd, rx, serving, rail, partner)

(***************************************************************************)
(* Facts about the operators of the model                                  *)
(***************************************************************************)

\* The next and the last MessageID are MessageIDs.
LEMMA IdsOK ==
    ASSUME NEW i \in 0..(Ids - 1)
    PROVE  After(i) \in 0..(Ids - 1) /\ Before(i) \in 0..(Ids - 1)
BY PowerOutputConstants DEF After, Before

\* What a partner becomes by a message, a soft reset or a hard reset is a partner.
LEMMA AnswersOK ==
    ASSUME PartnerOK(partner)
    PROVE  PartnerOK(Quietly) /\ PartnerOK(Renewed) /\ PartnerOK(Fresh)
<1>1. PartnerOK(Quietly) BY DEF PartnerOK, Quietly
<1>2. PartnerOK(Renewed) BY <1>1, PowerOutputConstants DEF PartnerOK, Renewed
<1>3. PartnerOK(Fresh) BY PowerOutputConstants DEF PartnerOK, Fresh, Absent, Roles
<1> QED BY <1>1, <1>2, <1>3

\* So is one that sends.
LEMMA SendsOK ==
    ASSUME NEW m, NEW q, PartnerOK(q), Sends(m, q)
    PROVE  PartnerOK(partner')
<1>1. partner' = [q EXCEPT !.mid = After(q.mid)] BY DEF Sends, PartnerOK
<1>2. After(q.mid) \in 0..(Ids - 1) BY IdsOK DEF PartnerOK
<1> QED BY <1>1, <1>2 DEF PartnerOK

\* Programming the converter changes the cached setpoint even when the write is
\* missed, and never VBUS_OUT_EN.
LEMMA ProgramSets ==
    ASSUME NEW r, RailOK(r), NEW v \in {0, 5, 9, 12, 15}, RailOK(rail), Program(r, v)
    PROVE  RailOK(rail') /\ rail'.pa7 = r.pa7 /\ rail'.set = v
BY DEF Program, Written, RailOK

(***************************************************************************)
(* Every action keeps the invariant.                                       *)
(***************************************************************************)

-----------------------------------------------------------------------------
(* Detection *)

\* A connection is lost with no message waiting and found with the source in its
\* default role.
LEMMA PD_Det_ProcKeeps == ASSUME OutputInv, PD_Det_Proc PROVE OutputInv'
<1> USE PowerOutputConstants DEF OutputInv, PdStates, Roles, Messages, PD_Det_Proc, PD_Detect,
        Empty, VBUS_set_5V, Program, Written
<1>1. Types'
  <2>1. PdOK(pd)'
    <3>1. CASE pd' = [pd EXCEPT !.det = 0] BY <3>1 DEF Types, PdOK
    <3>2. CASE pd.det + 1 < Debounce /\ pd' = [pd EXCEPT !.det = @ + 1] BY <3>2 DEF Types, PdOK
    <3>3. CASE pd' = [pd EXCEPT !.det = 0, !.conn = ~pd.conn] BY <3>3 DEF Types, PdOK
    <3>4. CASE \E s \in {"disconnect", "sink_connect"} :
                  pd' = [[pd EXCEPT !.det = 0, !.conn = ~pd.conn] EXCEPT !.st = s]
      BY <3>4 DEF Types, PdOK
    <3> QED BY <3>1, <3>2, <3>3, <3>4
  <2>2. RailOK(rail)'
    <3> HIDE DEF Program
    <3> QED BY ProgramSets DEF Types, RailOK
  <2> QED BY <2>1, <2>2 DEF Types
<1>2. PartnerInv(pd, partner)'
  BY DEF Types, PdOK, RxOK, RailOK, PartnerOK, PartnerInv, SourceInv, Blank
<1>3. SourceInv(pd, rx, serving, partner)'
  <2> DEFINE noted == [pd EXCEPT !.det = 0, !.conn = ~pd.conn]
  <2> USE DEF Types, PdOK, PartnerInv, SourceInv, RxOK
  <2>0. UNCHANGED <<rx, serving, partner>> /\ ~serving OBVIOUS
  <2>1. CASE pd' = [pd EXCEPT !.det = 0] BY <2>1
  <2>2. CASE pd' = [pd EXCEPT !.det = @ + 1] BY <2>2
  <2>3. CASE PD_Detect # pd.conn /\ (pd.conn => rx = Empty) /\ pd.stop /\ pd' = noted
    <3>1. pd'.conn = ~pd.conn /\ pd'.stop /\ pd'.st = pd.st /\ pd'.role = pd.role /\ pd'.src = pd.src
      BY <2>3
    <3>2. pd.st # "disconnect" BY <2>3
    <3> QED BY <3>1, <3>2, <2>0, <2>3
  <2>4. CASE /\ PD_Detect # pd.conn /\ rx = Empty /\ pd.conn
             /\ pd' = [noted EXCEPT !.st = "disconnect"]
    <3>1. pd'.conn = FALSE /\ pd'.st = "disconnect" /\ pd'.src = pd.src BY <2>4
    <3> QED BY <3>1, <2>0, <2>4, ZenonT(60)
  <2>5. CASE /\ PD_Detect # pd.conn /\ ~pd.conn /\ ~pd.stop
             /\ pd' = [noted EXCEPT !.st = "sink_connect"]
    BY <2>5
  <2> QED BY <2>1, <2>2, <2>3, <2>4, <2>5
<1>4. ASSUME InTouch(pd, rail, partner, abrupt)' PROVE SwapInv(pd, rx, serving, partner)'
  BY <1>4, ZenonT(60) DEF Types, PdOK, RxOK, RailOK, PartnerOK, PartnerInv, SourceInv, Blank, InTouch,
         Stale, Lost, SwapInv, Other, Before
<1>5. ASSUME InTouch(pd, rail, partner, abrupt)'
      PROVE  ContractInv(pd, rx, serving, rail, partner)'
  BY <1>5 DEF Types, PdOK, RxOK, RailOK, PartnerOK, PartnerInv, SourceInv, Blank, InTouch,
         Stale, Lost, ContractInv
<1> QED BY <1>1, <1>2, <1>3, <1>4, <1>5 DEF OutputInv

-----------------------------------------------------------------------------
(* PD_Main_Proc, the first switch *)

\* STA_DISCONNECT leaves the source as after a restart, and nothing waiting.
LEMMA Sta_DisconnectKeeps == ASSUME OutputInv, Sta_Disconnect PROVE OutputInv'
<1> USE PowerOutputConstants DEF OutputInv, PdStates, Roles, Messages, Sta_Disconnect,
        ServesAlone, VBUS_disable, PdInit, Empty, Written, NoId
<1>1. Types'
  <2>1. PdOK(pd)' BY DEF Types, PdOK, RxOK
  <2>2. RxOK(rx)' BY DEF Types, RxOK, PartnerOK
  <2>3. RailOK(rail)' BY DEF Types, RailOK
  <2>4. serving' \in BOOLEAN /\ abrupt' \in BOOLEAN BY DEF Types, PdOK, RxOK, RailOK, PartnerOK
  <2> QED BY <2>1, <2>2, <2>3, <2>4 DEF Types
<1>2. PartnerInv(pd, partner)' /\ SourceInv(pd, rx, serving, partner)'
  BY DEF Types, PdOK, RxOK, RailOK, PartnerOK, PartnerInv, SourceInv, Blank
<1>3. ASSUME InTouch(pd, rail, partner, abrupt)' PROVE SwapInv(pd, rx, serving, partner)'
  BY <1>3 DEF Types, PdOK, RxOK, RailOK, PartnerOK, PartnerInv, SourceInv, Blank, InTouch,
         Stale, Lost, SwapInv, Other, Before
<1>4. ASSUME InTouch(pd, rail, partner, abrupt)'
      PROVE  ContractInv(pd, rx, serving, rail, partner)'
  BY <1>4 DEF Types, PdOK, RxOK, RailOK, PartnerOK, PartnerInv, SourceInv, Blank, InTouch,
         Stale, Lost, ContractInv
<1> QED BY <1>1, <1>2, <1>3, <1>4 DEF OutputInv

\* STA_SINK_CONNECT: what waits was sent before the session, and is dispatched
\* in this pass.
LEMMA Sta_SinkConnectKeeps == ASSUME OutputInv, Sta_SinkConnect PROVE OutputInv'
<1> USE PowerOutputConstants DEF OutputInv, PdStates, Roles, Messages, Sta_SinkConnect, Serves,
        Detected, Empty, PD_Detect
<1>1. Types'
  <2>1. PdOK(pd)' BY DEF Types, PdOK, RxOK
  <2>2. serving' \in BOOLEAN /\ abrupt' \in BOOLEAN BY DEF Types, PdOK, RxOK, RailOK, PartnerOK
  <2> QED BY <2>1, <2>2 DEF Types
<1>2. PartnerInv(pd, partner)' /\ SourceInv(pd, rx, serving, partner)'
  BY DEF Types, PdOK, RxOK, RailOK, PartnerOK, PartnerInv, SourceInv, Blank
<1>3. ASSUME InTouch(pd, rail, partner, abrupt)'
      PROVE  SwapInv(pd, rx, serving, partner)' /\ ContractInv(pd, rx, serving, rail, partner)'
  BY <1>3 DEF Types, PdOK, RxOK, RailOK, PartnerOK, PartnerInv, SourceInv, Blank, InTouch,
         Stale, Lost, SwapInv, ContractInv, Other, Before
<1> QED BY <1>1, <1>2, <1>3 DEF OutputInv

\* Source_Capabilities meet a partner of this session: what it sent before is
\* dispatched.
LEMMA Sta_TxSrcCapKeeps == ASSUME OutputInv, Sta_TxSrcCap PROVE OutputInv'
<1> USE PowerOutputConstants DEF OutputInv, PdStates, Roles, Messages, Sta_TxSrcCap, Serves,
        Detected, PD_Send_Handle, Sent, Told, Empty, PD_Detect, Listening
<1>1. Types'
  <2>1. PdOK(pd)' BY DEF Types, PdOK, RxOK
  <2>2. RxOK(rx)' BY DEF Types, RxOK, PartnerOK
  <2>3. PartnerOK(partner)' BY DEF Types, PartnerOK
  <2>4. serving' \in BOOLEAN /\ abrupt' \in BOOLEAN BY DEF Types, PdOK, RxOK, RailOK, PartnerOK
  <2> QED BY <2>1, <2>2, <2>3, <2>4 DEF Types
<1>2. PartnerInv(pd, partner)' /\ SourceInv(pd, rx, serving, partner)'
  BY DEF Types, PdOK, RxOK, RailOK, PartnerOK, PartnerInv, SourceInv, Blank
<1>3. ASSUME InTouch(pd, rail, partner, abrupt)'
      PROVE  SwapInv(pd, rx, serving, partner)' /\ ContractInv(pd, rx, serving, rail, partner)'
  BY <1>3 DEF Types, PdOK, RxOK, RailOK, PartnerOK, PartnerInv, SourceInv, Blank, InTouch,
         Stale, Lost, SwapInv, ContractInv, Other, Before
<1> QED BY <1>1, <1>2, <1>3 DEF OutputInv

\* No Request came: the session is given up.
LEMMA Sta_RxReqWaitKeeps == ASSUME OutputInv, Sta_RxReqWait PROVE OutputInv'
<1> USE PowerOutputConstants DEF OutputInv, PdStates, Roles, Messages, Sta_RxReqWait, Empty,
        Serves
<1>1. Types'
  <2>1. PdOK(pd)' BY DEF Types, PdOK, RxOK
  <2>2. serving' \in BOOLEAN /\ abrupt' \in BOOLEAN BY DEF Types, PdOK, RxOK, RailOK, PartnerOK
  <2> QED BY <2>1, <2>2 DEF Types
<1>2. PartnerInv(pd, partner)' /\ SourceInv(pd, rx, serving, partner)'
  BY DEF Types, PdOK, RxOK, RailOK, PartnerOK, PartnerInv, SourceInv, Blank
<1>3. ASSUME InTouch(pd, rail, partner, abrupt)'
      PROVE  SwapInv(pd, rx, serving, partner)' /\ ContractInv(pd, rx, serving, rail, partner)'
  BY <1>3 DEF Types, PdOK, RxOK, RailOK, PartnerOK, PartnerInv, SourceInv, Blank, InTouch,
         Stale, Lost, SwapInv, ContractInv, Other, Before
<1> QED BY <1>1, <1>2, <1>3 DEF OutputInv

\* With the Accept the rail goes to what the partner has asked for.
LEMMA Sta_TxAcceptKeeps == ASSUME OutputInv, Sta_TxAccept PROVE OutputInv'
<1> USE PowerOutputConstants DEF OutputInv, PdStates, Roles, Messages, Sta_TxAccept, Serves,
        PD_Send_Handle, Sent, Told, Program, Volts, Empty, Listening, Written
<1>1. Types'
  <2>1. PdOK(pd)' BY DEF Types, PdOK, RxOK
  <2>2. RxOK(rx)' BY DEF Types, RxOK, PartnerOK
  <2>3. RailOK(rail)'
    <3> HIDE DEF Program
    <3> QED BY ProgramSets DEF Types, RailOK
  <2>4. PartnerOK(partner)'
    <3> DEFINE answer == [partner EXCEPT !.granted = (partner.asked # 0), !.again = FALSE]
    <3>1. PartnerOK(answer) BY DEF PartnerOK, Types
    <3>2. partner' = answer \/ partner' = partner OBVIOUS
    <3> QED BY <3>1, <3>2 DEF Types
  <2>5. serving' \in BOOLEAN /\ abrupt' \in BOOLEAN BY DEF Types, PdOK, RxOK, RailOK, PartnerOK
  <2> QED BY <2>1, <2>2, <2>3, <2>4, <2>5 DEF Types
<1>2. PartnerInv(pd, partner)' /\ SourceInv(pd, rx, serving, partner)'
  BY DEF Types, PdOK, RxOK, RailOK, PartnerOK, PartnerInv, SourceInv, Blank
<1>3. ASSUME InTouch(pd, rail, partner, abrupt)' PROVE SwapInv(pd, rx, serving, partner)'
  BY <1>3 DEF Types, PdOK, RxOK, RailOK, PartnerOK, PartnerInv, SourceInv, Blank, InTouch,
         Stale, Lost, SwapInv, Other, Before
<1>4. ASSUME InTouch(pd, rail, partner, abrupt)'
      PROVE  ContractInv(pd, rx, serving, rail, partner)'
  <2> USE DEF Types, PdOK, RxOK, RailOK, PartnerOK, PartnerInv, SourceInv, Blank, InTouch,
             Stale, Lost
  <2>1. PICK heard, acked \in BOOLEAN :
         /\ PD_Send_Handle(heard, acked) /\ Sent(acked)
         /\ Told(heard, [partner EXCEPT !.granted = (partner.asked # 0), !.again = FALSE])
         /\ pd' = [pd EXCEPT !.st = IF acked THEN "tx_ps_rdy" ELSE "tx_softrst"]
         /\ IF acked THEN Program(rail, Volts(pd.pdo)) ELSE UNCHANGED <<rail, glitches>>
    OBVIOUS
  <2>2. InTouch(pd, rail, partner, abrupt) BY <1>4, <2>1
  <2>3. ContractInv(pd, rx, serving, rail, partner) BY <2>2
  <2>4. CASE acked
    <3>1. pd'.st = "tx_ps_rdy" /\ rx'.type # "request" /\ rx'.type # "get_src_cap" BY <2>1, <2>4
    <3>2. heard BY <2>1, <2>4
    <3>3. /\ partner'.granted = (partner.asked # 0) /\ partner'.caps = partner.caps
          /\ partner'.asked = partner.asked /\ partner'.contract = partner.contract
      BY <2>1, <3>2
    <3>4. rail'.set = Volts(pd.pdo) /\ rail'.pa7 = rail.pa7
      <4> HIDE DEF Program
      <4>1. Volts(pd.pdo) \in {0, 5, 9, 12, 15} OBVIOUS
      <4> HIDE DEF Volts
      <4> QED BY <4>1, <2>1, <2>4, ProgramSets
    <3> QED BY <3>1, <3>3, <3>4, <2>3 DEF ContractInv
  <2>5. CASE ~acked BY <1>4, <2>1, <2>3, <2>5 DEF ContractInv
  <2> QED BY <2>4, <2>5
<1> QED BY <1>1, <1>2, <1>3, <1>4 DEF OutputInv

\* With PS_RDY the partner has a contract: what the rail was set to with the
\* Accept.
LEMMA Sta_TxPsRdyKeeps == ASSUME OutputInv, Sta_TxPsRdy PROVE OutputInv'
<1> USE PowerOutputConstants DEF OutputInv, PdStates, Roles, Messages, Sta_TxPsRdy, Serves,
        PD_Send_Handle, Sent, Told, Quietly, Empty, Listening
<1>1. Types'
  <2>1. PdOK(pd)' BY DEF Types, PdOK, RxOK
  <2>2. RxOK(rx)' BY DEF Types, RxOK, PartnerOK
  <2>3. PartnerOK(partner)'
    <3> DEFINE answer == [Quietly EXCEPT !.contract = partner.asked, !.asked = 0, !.granted = FALSE]
    <3>1. PartnerOK(Quietly) BY AnswersOK DEF Types
    <3>2. partner' = answer \/ partner' = Quietly \/ partner' = partner BY DEF Types, PartnerOK
    <3> HIDE DEF Quietly
    <3>3. PartnerOK(answer) BY <3>1 DEF PartnerOK, Types
    <3> QED BY <3>1, <3>2, <3>3 DEF Types
  <2>4. serving' \in BOOLEAN /\ abrupt' \in BOOLEAN BY DEF Types, PdOK, RxOK, RailOK, PartnerOK
  <2> QED BY <2>1, <2>2, <2>3, <2>4 DEF Types
<1>2. PartnerInv(pd, partner)' /\ SourceInv(pd, rx, serving, partner)'
  BY DEF Types, PdOK, RxOK, RailOK, PartnerOK, PartnerInv, SourceInv, Blank
<1>3. ASSUME InTouch(pd, rail, partner, abrupt)'
      PROVE  SwapInv(pd, rx, serving, partner)' /\ ContractInv(pd, rx, serving, rail, partner)'
  BY <1>3 DEF Types, PdOK, RxOK, RailOK, PartnerOK, PartnerInv, SourceInv, Blank, InTouch,
         Stale, Lost, SwapInv, ContractInv, Other, Before
<1> QED BY <1>1, <1>2, <1>3 DEF OutputInv

\* A soft reset forgets the latched MessageID; what may come again comes before
\* a hard reset.
LEMMA Sta_TxSoftRstKeeps == ASSUME OutputInv, Sta_TxSoftRst PROVE OutputInv'
<1> USE PowerOutputConstants DEF OutputInv, PdStates, Roles, Messages, Sta_TxSoftRst, Serves,
        PD_Send_Handle, Sent, Told, Renewed, NoId, Empty, Listening, Quietly
<1>1. Types'
  <2>1. PdOK(pd)' BY DEF Types, PdOK, RxOK
  <2>2. RxOK(rx)' BY DEF Types, RxOK, PartnerOK
  <2>3. PartnerOK(partner)'
    <3> HIDE DEF Renewed
    <3> QED BY AnswersOK DEF Types
  <2>4. serving' \in BOOLEAN /\ abrupt' \in BOOLEAN BY DEF Types, PdOK, RxOK, RailOK, PartnerOK
  <2> QED BY <2>1, <2>2, <2>3, <2>4 DEF Types
<1>2. PartnerInv(pd, partner)' /\ SourceInv(pd, rx, serving, partner)'
  BY DEF Types, PdOK, RxOK, RailOK, PartnerOK, PartnerInv, SourceInv, Blank
<1>3. ASSUME InTouch(pd, rail, partner, abrupt)'
      PROVE  SwapInv(pd, rx, serving, partner)' /\ ContractInv(pd, rx, serving, rail, partner)'
  BY <1>3 DEF Types, PdOK, RxOK, RailOK, PartnerOK, PartnerInv, SourceInv, Blank, InTouch,
         Stale, Lost, SwapInv, ContractInv, Other, Before
<1> QED BY <1>1, <1>2, <1>3 DEF OutputInv

\* A hard reset gives both ends their default roles, or the partner has not
\* heard it.
LEMMA Sta_TxHrstKeeps == ASSUME OutputInv, Sta_TxHrst PROVE OutputInv'
<1> USE PowerOutputConstants DEF OutputInv, PdStates, Roles, Messages, Sta_TxHrst, ServesAlone,
        NoId, PD_Send_Handle, Told, Fresh, Empty, Listening, Absent
<1>1. Types'
  <2>1. PdOK(pd)' BY DEF Types, PdOK, RxOK
  <2>2. RxOK(rx)' BY DEF Types, RxOK, PartnerOK
  <2>3. PartnerOK(partner)'
    <3> HIDE DEF Fresh
    <3> QED BY AnswersOK DEF Types
  <2>4. serving' \in BOOLEAN /\ abrupt' \in BOOLEAN BY DEF Types, PdOK, RxOK, RailOK, PartnerOK
  <2> QED BY <2>1, <2>2, <2>3, <2>4 DEF Types
<1>2. PartnerInv(pd, partner)' /\ SourceInv(pd, rx, serving, partner)'
  BY DEF Types, PdOK, RxOK, RailOK, PartnerOK, PartnerInv, SourceInv, Blank
<1>3. ASSUME InTouch(pd, rail, partner, abrupt)'
      PROVE  SwapInv(pd, rx, serving, partner)' /\ ContractInv(pd, rx, serving, rail, partner)'
  BY <1>3 DEF Types, PdOK, RxOK, RailOK, PartnerOK, PartnerInv, SourceInv, Blank, InTouch,
         Stale, Lost, SwapInv, ContractInv, Other, Before
<1> QED BY <1>1, <1>2, <1>3 DEF OutputInv

\* The answer to the discovery changes nothing that was agreed.
LEMMA Sta_TxVdmRpiKeeps == ASSUME OutputInv, Sta_TxVdmRpi PROVE OutputInv'
<1> USE PowerOutputConstants DEF OutputInv, PdStates, Roles, Messages, Sta_TxVdmRpi, Serves,
        PD_Send_Handle, Sent, Empty, Listening
<1>1. Types'
  <2>1. PdOK(pd)' BY DEF Types, PdOK, RxOK
  <2>2. RxOK(rx)' BY DEF Types, RxOK, PartnerOK
  <2>3. serving' \in BOOLEAN /\ abrupt' \in BOOLEAN BY DEF Types, PdOK, RxOK, RailOK, PartnerOK
  <2> QED BY <2>1, <2>2, <2>3 DEF Types
<1>2. PartnerInv(pd, partner)' /\ SourceInv(pd, rx, serving, partner)'
  BY DEF Types, PdOK, RxOK, RailOK, PartnerOK, PartnerInv, SourceInv, Blank
<1>3. ASSUME InTouch(pd, rail, partner, abrupt)'
      PROVE  SwapInv(pd, rx, serving, partner)' /\ ContractInv(pd, rx, serving, rail, partner)'
  BY <1>3 DEF Types, PdOK, RxOK, RailOK, PartnerOK, PartnerInv, SourceInv, Blank, InTouch,
         Stale, Lost, SwapInv, ContractInv, Other, Before
<1> QED BY <1>1, <1>2, <1>3 DEF OutputInv

-----------------------------------------------------------------------------
(* PD_Main_Proc, the second switch *)

\* A Request is accepted as the partner waits for it; a stale one grants
\* nothing.
LEMMA OnRequestKeeps == ASSUME OutputInv, OnRequest PROVE OutputInv'
<1> USE PowerOutputConstants DEF OutputInv, PdStates, Roles, Messages, OnRequest, Received,
        Unlatched, Empty, NoId
<1>1. Types'
  <2>1. PdOK(pd)' BY DEF Types, PdOK, RxOK
  <2>2. RxOK(rx)' BY DEF Types, RxOK, PartnerOK
  <2>3. serving' \in BOOLEAN /\ abrupt' \in BOOLEAN BY DEF Types, PdOK, RxOK, RailOK, PartnerOK
  <2> QED BY <2>1, <2>2, <2>3 DEF Types
<1>2. PartnerInv(pd, partner)' /\ SourceInv(pd, rx, serving, partner)'
  BY DEF Types, PdOK, RxOK, RailOK, PartnerOK, PartnerInv, SourceInv, Blank
<1>3. ASSUME InTouch(pd, rail, partner, abrupt)'
      PROVE  SwapInv(pd, rx, serving, partner)' /\ ContractInv(pd, rx, serving, rail, partner)'
  BY <1>3 DEF Types, PdOK, RxOK, RailOK, PartnerOK, PartnerInv, SourceInv, Blank, InTouch,
         Stale, Lost, SwapInv, ContractInv, Other, Before
<1> QED BY <1>1, <1>2, <1>3 DEF OutputInv

\* A partner that sends a soft reset waits for nothing any more.
LEMMA OnSoftResetKeeps == ASSUME OutputInv, OnSoftReset PROVE OutputInv'
<1> USE PowerOutputConstants DEF OutputInv, PdStates, Roles, Messages, OnSoftReset, Received,
        Unlatched, Empty, NoId
<1>1. Types'
  <2>1. PdOK(pd)' BY DEF Types, PdOK, RxOK
  <2>2. RxOK(rx)' BY DEF Types, RxOK, PartnerOK
  <2>3. serving' \in BOOLEAN /\ abrupt' \in BOOLEAN BY DEF Types, PdOK, RxOK, RailOK, PartnerOK
  <2> QED BY <2>1, <2>2, <2>3 DEF Types
<1>2. PartnerInv(pd, partner)' /\ SourceInv(pd, rx, serving, partner)'
  BY DEF Types, PdOK, RxOK, RailOK, PartnerOK, PartnerInv, SourceInv, Blank
<1>3. ASSUME InTouch(pd, rail, partner, abrupt)'
      PROVE  SwapInv(pd, rx, serving, partner)' /\ ContractInv(pd, rx, serving, rail, partner)'
  BY <1>3 DEF Types, PdOK, RxOK, RailOK, PartnerOK, PartnerInv, SourceInv, Blank, InTouch,
         Stale, Lost, SwapInv, ContractInv, Other, Before
<1> QED BY <1>1, <1>2, <1>3 DEF OutputInv

\* A DR_Swap that is new is awaited: both ends change, or neither, or a hard
\* reset follows.
LEMMA OnDrSwapKeeps == ASSUME OutputInv, OnDrSwap PROVE OutputInv'
<1> USE PowerOutputConstants DEF OutputInv, PdStates, Roles, Messages, OnDrSwap, Received,
        AcceptSwap, Empty, PD_Send_Handle, Told, Other, Listening
<1>1. Types'
  <2>1. PdOK(pd)' BY DEF Types, PdOK, RxOK
  <2>2. RxOK(rx)' BY DEF Types, RxOK, PartnerOK
  <2>3. PartnerOK(partner)' BY ZenonT(60) DEF Types, PartnerOK
  <2>4. serving' \in BOOLEAN /\ abrupt' \in BOOLEAN BY DEF Types, PdOK, RxOK, RailOK, PartnerOK
  <2> QED BY <2>1, <2>2, <2>3, <2>4 DEF Types
<1>2. PartnerInv(pd, partner)' /\ SourceInv(pd, rx, serving, partner)'
  BY DEF Types, PdOK, RxOK, RailOK, PartnerOK, PartnerInv, SourceInv, Blank
<1>3. ASSUME InTouch(pd, rail, partner, abrupt)'
      PROVE  SwapInv(pd, rx, serving, partner)' /\ ContractInv(pd, rx, serving, rail, partner)'
  BY <1>3 DEF Types, PdOK, RxOK, RailOK, PartnerOK, PartnerInv, SourceInv, Blank, InTouch,
         Stale, Lost, SwapInv, ContractInv, Before
<1> QED BY <1>1, <1>2, <1>3 DEF OutputInv

\* A DR_Swap that was answered before changes nothing.
LEMMA OnDrSwapRepeatedKeeps == ASSUME OutputInv, OnDrSwapRepeated PROVE OutputInv'
<1> USE PowerOutputConstants DEF OutputInv, PdStates, Roles, Messages, OnDrSwapRepeated,
        Received, Empty
<1>1. Types'
  <2>1. RxOK(rx)' BY DEF Types, RxOK, PartnerOK
  <2>2. serving' \in BOOLEAN /\ abrupt' \in BOOLEAN BY DEF Types, PdOK, RxOK, RailOK, PartnerOK
  <2> QED BY <2>1, <2>2 DEF Types
<1>2. PartnerInv(pd, partner)' /\ SourceInv(pd, rx, serving, partner)'
  BY DEF Types, PdOK, RxOK, RailOK, PartnerOK, PartnerInv, SourceInv, Blank
<1>3. ASSUME InTouch(pd, rail, partner, abrupt)'
      PROVE  SwapInv(pd, rx, serving, partner)' /\ ContractInv(pd, rx, serving, rail, partner)'
  BY <1>3 DEF Types, PdOK, RxOK, RailOK, PartnerOK, PartnerInv, SourceInv, Blank, InTouch,
         Stale, Lost, SwapInv, ContractInv, Other, Before
<1> QED BY <1>1, <1>2, <1>3 DEF OutputInv

\* Wait: the partner gives its swap up and has not changed its role.
LEMMA OnDrSwapBusyKeeps == ASSUME OutputInv, OnDrSwapBusy PROVE OutputInv'
<1> USE PowerOutputConstants DEF OutputInv, PdStates, Roles, Messages, OnDrSwapBusy, Received,
        PD_Send_Handle, Told, Empty, Listening
<1>1. Types'
  <2>1. RxOK(rx)' BY DEF Types, RxOK, PartnerOK
  <2>2. PartnerOK(partner)' BY DEF Types, PartnerOK
  <2>3. serving' \in BOOLEAN /\ abrupt' \in BOOLEAN BY DEF Types, PdOK, RxOK, RailOK, PartnerOK
  <2> QED BY <2>1, <2>2, <2>3 DEF Types
<1>2. PartnerInv(pd, partner)' /\ SourceInv(pd, rx, serving, partner)'
  BY DEF Types, PdOK, RxOK, RailOK, PartnerOK, PartnerInv, SourceInv, Blank
<1>3. ASSUME InTouch(pd, rail, partner, abrupt)'
      PROVE  SwapInv(pd, rx, serving, partner)' /\ ContractInv(pd, rx, serving, rail, partner)'
  BY <1>3 DEF Types, PdOK, RxOK, RailOK, PartnerOK, PartnerInv, SourceInv, Blank, InTouch,
         Stale, Lost, SwapInv, ContractInv, Other, Before
<1> QED BY <1>1, <1>2, <1>3 DEF OutputInv

\* A vendor message comes when no DR_Swap can be repeated.
LEMMA OnVdmKeeps == ASSUME OutputInv, OnVdm PROVE OutputInv'
<1> USE PowerOutputConstants DEF OutputInv, PdStates, Roles, Messages, OnVdm, Received,
        Unlatched, Empty, NoId
<1>1. Types'
  <2>1. PdOK(pd)' BY DEF Types, PdOK, RxOK
  <2>2. RxOK(rx)' BY DEF Types, RxOK, PartnerOK
  <2>3. serving' \in BOOLEAN /\ abrupt' \in BOOLEAN BY DEF Types, PdOK, RxOK, RailOK, PartnerOK
  <2> QED BY <2>1, <2>2, <2>3 DEF Types
<1>2. PartnerInv(pd, partner)' /\ SourceInv(pd, rx, serving, partner)'
  BY DEF Types, PdOK, RxOK, RailOK, PartnerOK, PartnerInv, SourceInv, Blank
<1>3. ASSUME InTouch(pd, rail, partner, abrupt)'
      PROVE  SwapInv(pd, rx, serving, partner)' /\ ContractInv(pd, rx, serving, rail, partner)'
  BY <1>3 DEF Types, PdOK, RxOK, RailOK, PartnerOK, PartnerInv, SourceInv, Blank, InTouch,
         Stale, Lost, SwapInv, ContractInv, Other, Before
<1> QED BY <1>1, <1>2, <1>3 DEF OutputInv

\* Get_Source_Cap that is not stale comes from a partner that has had
\* capabilities.
LEMMA OnGetSrcCapKeeps == ASSUME OutputInv, OnGetSrcCap PROVE OutputInv'
<1> USE PowerOutputConstants DEF OutputInv, PdStates, Roles, Messages, OnGetSrcCap, Received,
        Unlatched, PD_Send_Handle, Told, Empty, NoId, Listening
<1>1. Types'
  <2>1. PdOK(pd)' BY DEF Types, PdOK, RxOK
  <2>2. RxOK(rx)' BY DEF Types, RxOK, PartnerOK
  <2>3. PartnerOK(partner)' BY DEF Types, PartnerOK
  <2>4. serving' \in BOOLEAN /\ abrupt' \in BOOLEAN BY DEF Types, PdOK, RxOK, RailOK, PartnerOK
  <2> QED BY <2>1, <2>2, <2>3, <2>4 DEF Types
<1>2. PartnerInv(pd, partner)' /\ SourceInv(pd, rx, serving, partner)'
  BY DEF Types, PdOK, RxOK, RailOK, PartnerOK, PartnerInv, SourceInv, Blank
<1>3. ASSUME InTouch(pd, rail, partner, abrupt)'
      PROVE  SwapInv(pd, rx, serving, partner)' /\ ContractInv(pd, rx, serving, rail, partner)'
  BY <1>3 DEF Types, PdOK, RxOK, RailOK, PartnerOK, PartnerInv, SourceInv, Blank, InTouch,
         Stale, Lost, SwapInv, ContractInv, Other, Before
<1> QED BY <1>1, <1>2, <1>3 DEF OutputInv

\* What is not supported drops the latched MessageID only when no repetition can
\* come.
LEMMA OnOtherKeeps == ASSUME OutputInv, OnOther PROVE OutputInv'
<1> USE PowerOutputConstants DEF OutputInv, PdStates, Roles, Messages, OnOther, Received,
        Unlatched, Empty, NoId
<1>1. Types'
  <2>1. PdOK(pd)' BY DEF Types, PdOK, RxOK
  <2>2. RxOK(rx)' BY DEF Types, RxOK, PartnerOK
  <2>3. serving' \in BOOLEAN /\ abrupt' \in BOOLEAN BY DEF Types, PdOK, RxOK, RailOK, PartnerOK
  <2> QED BY <2>1, <2>2, <2>3 DEF Types
<1>2. PartnerInv(pd, partner)' /\ SourceInv(pd, rx, serving, partner)'
  BY DEF Types, PdOK, RxOK, RailOK, PartnerOK, PartnerInv, SourceInv, Blank
<1>3. ASSUME InTouch(pd, rail, partner, abrupt)'
      PROVE  SwapInv(pd, rx, serving, partner)' /\ ContractInv(pd, rx, serving, rail, partner)'
  BY <1>3 DEF Types, PdOK, RxOK, RailOK, PartnerOK, PartnerInv, SourceInv, Blank, InTouch,
         Stale, Lost, SwapInv, ContractInv, Other, Before
<1> QED BY <1>1, <1>2, <1>3 DEF OutputInv

-----------------------------------------------------------------------------
(* The rail and the commands *)

\* The watchdog writes the setpoint there is.
LEMMA ReapplyKeeps == ASSUME OutputInv, Reapply PROVE OutputInv'
<1> USE PowerOutputConstants DEF OutputInv, PdStates, Roles, Messages, Reapply, Program, Written
<1>1. Types'
  <2>1. RailOK(rail)'
    <3> HIDE DEF Program
    <3> QED BY ProgramSets DEF Types, RailOK
  <2> QED BY <2>1 DEF Types
<1>2. PartnerInv(pd, partner)' /\ SourceInv(pd, rx, serving, partner)'
  BY DEF Types, PdOK, RxOK, RailOK, PartnerOK, PartnerInv, SourceInv, Blank
<1>3. ASSUME InTouch(pd, rail, partner, abrupt)' PROVE SwapInv(pd, rx, serving, partner)'
  BY <1>3 DEF Types, PdOK, RxOK, RailOK, PartnerOK, PartnerInv, SourceInv, Blank, InTouch,
         Stale, Lost, SwapInv, Other, Before
<1>4. ASSUME InTouch(pd, rail, partner, abrupt)'
      PROVE  ContractInv(pd, rx, serving, rail, partner)'
  BY <1>4, ZenonT(60) DEF Types, PdOK, RxOK, RailOK, PartnerOK, PartnerInv, SourceInv, Blank, InTouch,
         Stale, Lost, ContractInv
<1> QED BY <1>1, <1>2, <1>3, <1>4 DEF OutputInv

\* The end of a power cycle finds a partner without a session, or one it passes
\* by.
LEMMA CycleEndsKeeps == ASSUME OutputInv, CycleEnds PROVE OutputInv'
<1> USE PowerOutputConstants DEF OutputInv, PdStates, Roles, Messages, CycleEnds, CycleOver,
        Power_Output_Restart, On, VBUS_set_5V, NoId, Settled, Program, Written
<1>1. Types'
  <2>1. PdOK(pd)' BY DEF Types, PdOK, RxOK
  <2>2. RailOK(rail)'
    <3> HIDE DEF Program
    <3> QED BY ProgramSets DEF Types, RailOK
  <2>3. serving' \in BOOLEAN /\ abrupt' \in BOOLEAN BY DEF Types, PdOK, RxOK, RailOK, PartnerOK
  <2> QED BY <2>1, <2>2, <2>3 DEF Types
<1>2. PartnerInv(pd, partner)' /\ SourceInv(pd, rx, serving, partner)'
  BY DEF Types, PdOK, RxOK, RailOK, PartnerOK, PartnerInv, SourceInv, Blank
<1>3. ASSUME InTouch(pd, rail, partner, abrupt)' PROVE SwapInv(pd, rx, serving, partner)'
  BY <1>3 DEF Types, PdOK, RxOK, RailOK, PartnerOK, PartnerInv, SourceInv, Blank, InTouch,
         Stale, Lost, SwapInv, Other, Before
<1>4. ASSUME InTouch(pd, rail, partner, abrupt)'
      PROVE  ContractInv(pd, rx, serving, rail, partner)'
  BY <1>4 DEF Types, PdOK, RxOK, RailOK, PartnerOK, PartnerInv, SourceInv, Blank, InTouch,
         Stale, Lost, ContractInv
<1> QED BY <1>1, <1>2, <1>3, <1>4 DEF OutputInv

\* A restart finds a partner without a session, or one it passes by.
LEMMA PwrEnableKeeps == ASSUME OutputInv, PwrEnable PROVE OutputInv'
<1> USE PowerOutputConstants DEF OutputInv, PdStates, Roles, Messages, PwrEnable, Command,
        Power_Output_Restart, VBUS_set_5V, NoId, Settled, Program, Written
<1>1. Types'
  <2>1. PdOK(pd)' BY DEF Types, PdOK, RxOK
  <2>2. RailOK(rail)'
    <3> HIDE DEF Program
    <3> QED BY ProgramSets DEF Types, RailOK
  <2>3. serving' \in BOOLEAN /\ abrupt' \in BOOLEAN BY DEF Types, PdOK, RxOK, RailOK, PartnerOK
  <2> QED BY <2>1, <2>2, <2>3 DEF Types
<1>2. PartnerInv(pd, partner)' /\ SourceInv(pd, rx, serving, partner)'
  BY DEF Types, PdOK, RxOK, RailOK, PartnerOK, PartnerInv, SourceInv, Blank
<1>3. ASSUME InTouch(pd, rail, partner, abrupt)' PROVE SwapInv(pd, rx, serving, partner)'
  BY <1>3 DEF Types, PdOK, RxOK, RailOK, PartnerOK, PartnerInv, SourceInv, Blank, InTouch,
         Stale, Lost, SwapInv, Other, Before
<1>4. ASSUME InTouch(pd, rail, partner, abrupt)'
      PROVE  ContractInv(pd, rx, serving, rail, partner)'
  BY <1>4 DEF Types, PdOK, RxOK, RailOK, PartnerOK, PartnerInv, SourceInv, Blank, InTouch,
         Stale, Lost, ContractInv
<1> QED BY <1>1, <1>2, <1>3, <1>4 DEF OutputInv

\* A rail that is off owes nothing until it is restarted.
LEMMA PwrDisableKeeps == ASSUME OutputInv, PwrDisable PROVE OutputInv'
<1> USE PowerOutputConstants DEF OutputInv, PdStates, Roles, Messages, PwrDisable, Command,
        VBUS_disable, Written
<1>1. Types'
  <2>1. PdOK(pd)' BY DEF Types, PdOK, RxOK
  <2>2. RailOK(rail)' BY DEF Types, RailOK
  <2> QED BY <2>1, <2>2 DEF Types
<1>2. PartnerInv(pd, partner)' /\ SourceInv(pd, rx, serving, partner)'
  BY DEF Types, PdOK, RxOK, RailOK, PartnerOK, PartnerInv, SourceInv, Blank
<1>3. ASSUME InTouch(pd, rail, partner, abrupt)' PROVE SwapInv(pd, rx, serving, partner)'
  BY <1>3 DEF Types, PdOK, RxOK, RailOK, PartnerOK, PartnerInv, SourceInv, Blank, InTouch,
         Stale, Lost, SwapInv, Other, Before
<1>4. ASSUME InTouch(pd, rail, partner, abrupt)'
      PROVE  ContractInv(pd, rx, serving, rail, partner)'
  BY <1>4 DEF Types, PdOK, RxOK, RailOK, PartnerOK, PartnerInv, SourceInv, Blank, InTouch,
         Stale, Lost, ContractInv
<1> QED BY <1>1, <1>2, <1>3, <1>4 DEF OutputInv

\* A rail that is off owes nothing until it is restarted.
LEMMA PwrCycleKeeps == ASSUME OutputInv, PwrCycle PROVE OutputInv'
<1> USE PowerOutputConstants DEF OutputInv, PdStates, Roles, Messages, PwrCycle, Command,
        VBUS_disable, Written
<1>1. Types'
  <2>1. PdOK(pd)' BY DEF Types, PdOK, RxOK
  <2>2. RailOK(rail)' BY DEF Types, RailOK
  <2> QED BY <2>1, <2>2 DEF Types
<1>2. PartnerInv(pd, partner)' /\ SourceInv(pd, rx, serving, partner)'
  BY DEF Types, PdOK, RxOK, RailOK, PartnerOK, PartnerInv, SourceInv, Blank
<1>3. ASSUME InTouch(pd, rail, partner, abrupt)' PROVE SwapInv(pd, rx, serving, partner)'
  BY <1>3 DEF Types, PdOK, RxOK, RailOK, PartnerOK, PartnerInv, SourceInv, Blank, InTouch,
         Stale, Lost, SwapInv, Other, Before
<1>4. ASSUME InTouch(pd, rail, partner, abrupt)'
      PROVE  ContractInv(pd, rx, serving, rail, partner)'
  BY <1>4 DEF Types, PdOK, RxOK, RailOK, PartnerOK, PartnerInv, SourceInv, Blank, InTouch,
         Stale, Lost, ContractInv
<1> QED BY <1>1, <1>2, <1>3, <1>4 DEF OutputInv

\* After a reset of the MCU both ends begin again.
LEMMA McuResetsKeeps == ASSUME OutputInv, McuResets PROVE OutputInv'
<1> USE PowerOutputConstants DEF OutputInv, PdStates, Roles, Messages, McuResets, PdInit, Empty,
        RailInit, Fresh, NoId, Absent
<1>1. Types'
  <2>1. PdOK(pd)' BY DEF Types, PdOK, RxOK
  <2>2. RxOK(rx)' BY DEF Types, RxOK, PartnerOK
  <2>3. RailOK(rail)' BY DEF Types, RailOK
  <2>4. PartnerOK(partner)' BY DEF Types, PartnerOK
  <2>5. serving' \in BOOLEAN /\ abrupt' \in BOOLEAN BY DEF Types, PdOK, RxOK, RailOK, PartnerOK
  <2> QED BY <2>1, <2>2, <2>3, <2>4, <2>5 DEF Types
<1>2. PartnerInv(pd, partner)' /\ SourceInv(pd, rx, serving, partner)'
  BY DEF Types, PdOK, RxOK, RailOK, PartnerOK, PartnerInv, SourceInv, Blank
<1>3. ASSUME InTouch(pd, rail, partner, abrupt)'
      PROVE  SwapInv(pd, rx, serving, partner)' /\ ContractInv(pd, rx, serving, rail, partner)'
  BY <1>3 DEF Types, PdOK, RxOK, RailOK, PartnerOK, PartnerInv, SourceInv, Blank, InTouch,
         Stale, Lost, SwapInv, ContractInv, Other, Before
<1> QED BY <1>1, <1>2, <1>3 DEF OutputInv

\* The converter may forget its voltage; the setpoint stays.
LEMMA TpsResetsKeeps == ASSUME OutputInv, TpsResets PROVE OutputInv'
<1> USE PowerOutputConstants DEF OutputInv, PdStates, Roles, Messages, TpsResets
<1>1. Types'
  <2>1. RailOK(rail)' BY DEF Types, RailOK
  <2> QED BY <2>1 DEF Types
<1>2. PartnerInv(pd, partner)' /\ SourceInv(pd, rx, serving, partner)'
  BY DEF Types, PdOK, RxOK, RailOK, PartnerOK, PartnerInv, SourceInv, Blank
<1>3. ASSUME InTouch(pd, rail, partner, abrupt)' PROVE SwapInv(pd, rx, serving, partner)'
  BY <1>3 DEF Types, PdOK, RxOK, RailOK, PartnerOK, PartnerInv, SourceInv, Blank, InTouch,
         Stale, Lost, SwapInv, Other, Before
<1>4. ASSUME InTouch(pd, rail, partner, abrupt)'
      PROVE  ContractInv(pd, rx, serving, rail, partner)'
  BY <1>4, ZenonT(60) DEF Types, PdOK, RxOK, RailOK, PartnerOK, PartnerInv, SourceInv, Blank, InTouch,
         Stale, Lost, ContractInv
<1> QED BY <1>1, <1>2, <1>3, <1>4 DEF OutputInv

-----------------------------------------------------------------------------
(* The partner *)

\* A new partner meets a source in its default role, or one whose detection is
\* stopped.
LEMMA PluggedKeeps == ASSUME OutputInv, Plugged PROVE OutputInv'
<1> USE PowerOutputConstants DEF OutputInv, PdStates, Roles, Messages, Plugged, Absent
<1>1. Types'
  <2>1. PartnerOK(partner)' BY DEF Types, PartnerOK
  <2>2. serving' \in BOOLEAN /\ abrupt' \in BOOLEAN BY DEF Types, PdOK, RxOK, RailOK, PartnerOK
  <2> QED BY <2>1, <2>2 DEF Types
<1>2. PartnerInv(pd, partner)' /\ SourceInv(pd, rx, serving, partner)'
  BY DEF Types, PdOK, RxOK, RailOK, PartnerOK, PartnerInv, SourceInv, Blank
<1>3. ASSUME InTouch(pd, rail, partner, abrupt)'
      PROVE  SwapInv(pd, rx, serving, partner)' /\ ContractInv(pd, rx, serving, rail, partner)'
  BY <1>3 DEF Types, PdOK, RxOK, RailOK, PartnerOK, PartnerInv, SourceInv, Blank, InTouch,
         Stale, Lost, SwapInv, ContractInv, Other, Before
<1> QED BY <1>1, <1>2, <1>3 DEF OutputInv

\* Nobody is owed anything.
LEMMA UnpluggedKeeps == ASSUME OutputInv, Unplugged PROVE OutputInv'
<1> USE PowerOutputConstants DEF OutputInv, PdStates, Roles, Messages, Unplugged, Absent
<1>1. Types'
  <2>1. PartnerOK(partner)' BY DEF Types, PartnerOK
  <2>2. serving' \in BOOLEAN /\ abrupt' \in BOOLEAN BY DEF Types, PdOK, RxOK, RailOK, PartnerOK
  <2> QED BY <2>1, <2>2 DEF Types
<1>2. PartnerInv(pd, partner)' /\ SourceInv(pd, rx, serving, partner)'
  BY DEF Types, PdOK, RxOK, RailOK, PartnerOK, PartnerInv, SourceInv, Blank
<1>3. ASSUME InTouch(pd, rail, partner, abrupt)'
      PROVE  SwapInv(pd, rx, serving, partner)' /\ ContractInv(pd, rx, serving, rail, partner)'
  BY <1>3 DEF Types, PdOK, RxOK, RailOK, PartnerOK, PartnerInv, SourceInv, Blank, InTouch,
         Stale, Lost, SwapInv, ContractInv, Other, Before
<1> QED BY <1>1, <1>2, <1>3 DEF OutputInv

\* A partner wakes up without a session.
LEMMA WakesUpKeeps == ASSUME OutputInv, WakesUp PROVE OutputInv'
<1> USE PowerOutputConstants DEF OutputInv, PdStates, Roles, Messages, WakesUp, On
<1>1. Types'
  <2>1. PartnerOK(partner)' BY DEF Types, PartnerOK
  <2> QED BY <2>1 DEF Types
<1>2. PartnerInv(pd, partner)' /\ SourceInv(pd, rx, serving, partner)'
  BY DEF Types, PdOK, RxOK, RailOK, PartnerOK, PartnerInv, SourceInv, Blank
<1>3. ASSUME InTouch(pd, rail, partner, abrupt)'
      PROVE  SwapInv(pd, rx, serving, partner)' /\ ContractInv(pd, rx, serving, rail, partner)'
  BY <1>3 DEF Types, PdOK, RxOK, RailOK, PartnerOK, PartnerInv, SourceInv, Blank, InTouch,
         Stale, Lost, SwapInv, ContractInv, Other, Before
<1> QED BY <1>1, <1>2, <1>3 DEF OutputInv

\* A partner that goes down with the rail loses its session; if the rail seemed
\* on, unnoticed.
LEMMA GoesDownKeeps == ASSUME OutputInv, GoesDown PROVE OutputInv'
<1> USE PowerOutputConstants DEF OutputInv, PdStates, Roles, Messages, GoesDown, On, Fresh,
        Absent
<1>1. Types'
  <2>1. PartnerOK(partner)' BY DEF Types, PartnerOK
  <2>2. serving' \in BOOLEAN /\ abrupt' \in BOOLEAN BY DEF Types, PdOK, RxOK, RailOK, PartnerOK
  <2> QED BY <2>1, <2>2 DEF Types
<1>2. PartnerInv(pd, partner)' /\ SourceInv(pd, rx, serving, partner)'
  BY DEF Types, PdOK, RxOK, RailOK, PartnerOK, PartnerInv, SourceInv, Blank
<1>3. ASSUME InTouch(pd, rail, partner, abrupt)'
      PROVE  SwapInv(pd, rx, serving, partner)' /\ ContractInv(pd, rx, serving, rail, partner)'
  BY <1>3 DEF Types, PdOK, RxOK, RailOK, PartnerOK, PartnerInv, SourceInv, Blank, InTouch,
         Stale, Lost, SwapInv, ContractInv, Other, Before
<1> QED BY <1>1, <1>2, <1>3 DEF OutputInv

\* A partner asks only when it waits for nothing, and gives up the old contract.
LEMMA SendsRequestKeeps == ASSUME OutputInv, SendsRequest PROVE OutputInv'
<1> USE PowerOutputConstants DEF OutputInv, PdStates, Roles, Messages, SendsRequest, Sends,
        Quietly, Speaks, Empty, After, Listening
<1>1. Types'
  <2>1. RxOK(rx)' BY DEF Types, RxOK, PartnerOK
  <2>2. PartnerOK(partner)'
    <3>1. PICK i \in Asks : Sends([type |-> "request", arg |-> i],
                                  [Quietly EXCEPT !.asked = i, !.contract = 0])
      BY DEF SendsRequest
    <3>2. PartnerOK(Quietly) BY AnswersOK DEF Types
    <3> HIDE DEF Quietly, Sends
    <3>3. PartnerOK([Quietly EXCEPT !.asked = i, !.contract = 0]) BY <3>2 DEF PartnerOK
    <3> QED BY <3>1, <3>3, SendsOK
  <2> QED BY <2>1, <2>2 DEF Types
<1>2. PartnerInv(pd, partner)' /\ SourceInv(pd, rx, serving, partner)'
  BY DEF Types, PdOK, RxOK, RailOK, PartnerOK, PartnerInv, SourceInv, Blank
<1>3. ASSUME InTouch(pd, rail, partner, abrupt)'
      PROVE  SwapInv(pd, rx, serving, partner)' /\ ContractInv(pd, rx, serving, rail, partner)'
  BY <1>3 DEF Types, PdOK, RxOK, RailOK, PartnerOK, PartnerInv, SourceInv, Blank, InTouch,
         Stale, Lost, SwapInv, ContractInv, Other, Before
<1> QED BY <1>1, <1>2, <1>3 DEF OutputInv

\* A partner that sends a soft reset gives up what is not agreed.
LEMMA SendsSoftResetKeeps == ASSUME OutputInv, SendsSoftReset PROVE OutputInv'
<1> USE PowerOutputConstants DEF OutputInv, PdStates, Roles, Messages, SendsSoftReset, Sends,
        Renewed, Speaks, Empty, After, Quietly, Listening
<1>1. Types'
  <2>1. RxOK(rx)' BY DEF Types, RxOK, PartnerOK
  <2>2. PartnerOK(partner)'
    <3> HIDE DEF Renewed, Sends
    <3> QED BY AnswersOK, SendsOK DEF Types
  <2> QED BY <2>1, <2>2 DEF Types
<1>2. PartnerInv(pd, partner)' /\ SourceInv(pd, rx, serving, partner)'
  BY DEF Types, PdOK, RxOK, RailOK, PartnerOK, PartnerInv, SourceInv, Blank
<1>3. ASSUME InTouch(pd, rail, partner, abrupt)'
      PROVE  SwapInv(pd, rx, serving, partner)' /\ ContractInv(pd, rx, serving, rail, partner)'
  BY <1>3 DEF Types, PdOK, RxOK, RailOK, PartnerOK, PartnerInv, SourceInv, Blank, InTouch,
         Stale, Lost, SwapInv, ContractInv, Other, Before
<1> QED BY <1>1, <1>2, <1>3 DEF OutputInv

\* A DR_Swap is sent with the MessageID that a repetition of it will have.
LEMMA SendsSwapKeeps == ASSUME OutputInv, SendsSwap PROVE OutputInv'
<1> USE PowerOutputConstants DEF OutputInv, PdStates, Roles, Messages, SendsSwap, Sends, Speaks,
        Empty, After, Listening
<1>1. Types'
  <2>1. RxOK(rx)' BY DEF Types, RxOK, PartnerOK
  <2>2. PartnerOK(partner)'
    <3> HIDE DEF Sends
    <3>1. PartnerOK([partner EXCEPT !.swap = TRUE, !.again = TRUE]) BY DEF PartnerOK, Types
    <3> QED BY <3>1, SendsOK
  <2> QED BY <2>1, <2>2 DEF Types
<1>2. PartnerInv(pd, partner)' /\ SourceInv(pd, rx, serving, partner)'
  BY DEF Types, PdOK, RxOK, RailOK, PartnerOK, PartnerInv, SourceInv, Blank
<1>3. ASSUME InTouch(pd, rail, partner, abrupt)' PROVE SwapInv(pd, rx, serving, partner)'
  BY <1>3 DEF Types, PdOK, RxOK, RailOK, PartnerOK, PartnerInv, SourceInv, Blank, InTouch,
         Stale, Lost, SwapInv, Other, Before
<1>4. ASSUME InTouch(pd, rail, partner, abrupt)'
      PROVE  ContractInv(pd, rx, serving, rail, partner)'
  BY <1>4 DEF Types, PdOK, RxOK, RailOK, PartnerOK, PartnerInv, SourceInv, Blank, InTouch,
         Stale, Lost, ContractInv
<1> QED BY <1>1, <1>2, <1>3, <1>4 DEF OutputInv

\* Any other message ends the time in which a DR_Swap is repeated.
LEMMA SendsOtherKeeps == ASSUME OutputInv, SendsOther PROVE OutputInv'
<1> USE PowerOutputConstants DEF OutputInv, PdStates, Roles, Messages, SendsOther, Sends,
        Quietly, Speaks, Empty, After, Listening
<1>1. Types'
  <2>1. RxOK(rx)' BY DEF Types, RxOK, PartnerOK
  <2>2. PartnerOK(partner)'
    <3> HIDE DEF Quietly, Sends
    <3> QED BY AnswersOK, SendsOK DEF Types
  <2> QED BY <2>1, <2>2 DEF Types
<1>2. PartnerInv(pd, partner)' /\ SourceInv(pd, rx, serving, partner)'
  BY DEF Types, PdOK, RxOK, RailOK, PartnerOK, PartnerInv, SourceInv, Blank
<1>3. ASSUME InTouch(pd, rail, partner, abrupt)'
      PROVE  SwapInv(pd, rx, serving, partner)' /\ ContractInv(pd, rx, serving, rail, partner)'
  BY <1>3 DEF Types, PdOK, RxOK, RailOK, PartnerOK, PartnerInv, SourceInv, Blank, InTouch,
         Stale, Lost, SwapInv, ContractInv, Other, Before
<1> QED BY <1>1, <1>2, <1>3 DEF OutputInv

\* A repeated DR_Swap is awaited, or its MessageID is latched, or a hard reset
\* is due.
LEMMA RepeatsSwapKeeps == ASSUME OutputInv, RepeatsSwap PROVE OutputInv'
<1> USE PowerOutputConstants DEF OutputInv, PdStates, Roles, Messages, RepeatsSwap, Speaks,
        Empty, Before, Quietly, Listening
<1>1. Types'
  <2>1. RxOK(rx)' BY DEF Types, RxOK, PartnerOK
  <2>2. PartnerOK(partner)' BY DEF Types, PartnerOK
  <2> QED BY <2>1, <2>2 DEF Types
<1>2. PartnerInv(pd, partner)' /\ SourceInv(pd, rx, serving, partner)'
  BY DEF Types, PdOK, RxOK, RailOK, PartnerOK, PartnerInv, SourceInv, Blank
<1>3. ASSUME InTouch(pd, rail, partner, abrupt)'
      PROVE  SwapInv(pd, rx, serving, partner)' /\ ContractInv(pd, rx, serving, rail, partner)'
  BY <1>3 DEF Types, PdOK, RxOK, RailOK, PartnerOK, PartnerInv, SourceInv, Blank, InTouch,
         Stale, Lost, SwapInv, ContractInv, Other
<1> QED BY <1>1, <1>2, <1>3 DEF OutputInv

\* A hard reset makes the port a sink: the ends are not in touch until it is
\* detected again.
LEMMA SendsHardResetKeeps == ASSUME OutputInv, SendsHardReset PROVE OutputInv'
<1> USE PowerOutputConstants DEF OutputInv, PdStates, Roles, Messages, SendsHardReset,
        Listening, Fresh, Absent
<1>1. Types'
  <2>1. PdOK(pd)' BY DEF Types, PdOK, RxOK
  <2>2. PartnerOK(partner)' BY DEF Types, PartnerOK
  <2>3. serving' \in BOOLEAN /\ abrupt' \in BOOLEAN BY DEF Types, PdOK, RxOK, RailOK, PartnerOK
  <2> QED BY <2>1, <2>2, <2>3 DEF Types
<1>2. PartnerInv(pd, partner)' /\ SourceInv(pd, rx, serving, partner)'
  BY DEF Types, PdOK, RxOK, RailOK, PartnerOK, PartnerInv, SourceInv, Blank
<1>3. ASSUME InTouch(pd, rail, partner, abrupt)'
      PROVE  SwapInv(pd, rx, serving, partner)' /\ ContractInv(pd, rx, serving, rail, partner)'
  BY <1>3 DEF Types, PdOK, RxOK, RailOK, PartnerOK, PartnerInv, SourceInv, Blank, InTouch,
         Stale, Lost, SwapInv, ContractInv, Other, Before
<1> QED BY <1>1, <1>2, <1>3 DEF OutputInv

-----------------------------------------------------------------------------

\* Every step keeps the invariant.
LEMMA NextKeeps == ASSUME OutputInv, [Next]_vars PROVE OutputInv'
<1>1. CASE UNCHANGED vars
  BY <1>1 DEF vars, OutputInv, Types, PartnerInv, Blank, SourceInv, InTouch, SwapInv, ContractInv,
         PdOK, RxOK, RailOK, PartnerOK, Stale, Lost
<1>2. CASE PdState
  BY <1>2, Sta_DisconnectKeeps, Sta_SinkConnectKeeps, Sta_TxSrcCapKeeps, Sta_RxReqWaitKeeps,
         Sta_TxAcceptKeeps, Sta_TxPsRdyKeeps, Sta_TxSoftRstKeeps, Sta_TxHrstKeeps,
         Sta_TxVdmRpiKeeps DEF PdState
<1>3. CASE Dispatch
  BY <1>3, OnRequestKeeps, OnSoftResetKeeps, OnDrSwapKeeps, OnDrSwapRepeatedKeeps,
         OnDrSwapBusyKeeps, OnVdmKeeps, OnGetSrcCapKeeps, OnOtherKeeps DEF Dispatch
<1>4. CASE Partner
  BY <1>4, PluggedKeeps, UnpluggedKeeps, WakesUpKeeps, GoesDownKeeps, SendsRequestKeeps,
         SendsSoftResetKeeps, SendsSwapKeeps, SendsOtherKeeps, RepeatsSwapKeeps,
         SendsHardResetKeeps DEF Partner
<1> QED
  BY <1>1, <1>2, <1>3, <1>4, PD_Det_ProcKeeps, ReapplyKeeps, CycleEndsKeeps, PwrEnableKeeps,
         PwrDisableKeeps, PwrCycleKeeps, McuResetsKeeps, TpsResetsKeeps DEF Next

\* It holds at first, with nobody at the port.
LEMMA InitHolds == ASSUME Init PROVE OutputInv
<1> USE PowerOutputConstants DEF Init, PdInit, RailInit, Absent, Empty, NoId
<1>1. Types
  <2>1. PdOK(pd) BY DEF PdOK, PdStates, Roles
  <2>2. RxOK(rx) BY DEF RxOK, Messages
  <2>3. RailOK(rail) BY DEF RailOK
  <2>4. PartnerOK(partner) BY DEF PartnerOK, Roles
  <2> QED BY <2>1, <2>2, <2>3, <2>4 DEF Types
<1>2. PartnerInv(pd, partner) /\ SourceInv(pd, rx, serving, partner)
  BY DEF PartnerInv, Blank, SourceInv
<1>3. ~InTouch(pd, rail, partner, abrupt) BY DEF InTouch
<1> QED BY <1>1, <1>2, <1>3 DEF OutputInv

\* The state of the output keeps its types: the counters of PD_Ctl stay in their
\* ranges, and the rail's voltage and setpoint are ones that were asked for.
THEOREM TypeCorrect == Spec => []TypeOK
<1>1. ASSUME OutputInv PROVE TypeOK
  BY <1>1 DEF OutputInv, Types, PdOK, RailOK, PartnerOK, PdStates, TypeOK
<1> QED BY InitHolds, NextKeeps, <1>1, PTL DEF Spec

\* What was agreed at the port is kept (PD_Main_Proc, Power_Output_Restart): the
\* setpoint is that of the partner's contract and the data roles are opposite,
\* unless one end started afresh and the other was not told.
THEOREM OutputAlwaysSound == Spec => []OutputSound
<1>1. ASSUME OutputInv PROVE OutputSound
  <2>1. ContractHonoured
    BY <1>1 DEF OutputInv, PartnerInv, Blank, InTouch, ContractInv, ContractHonoured,
           Types, PdOK, PartnerOK, RailOK
  <2>2. RolesAgree
    BY <1>1 DEF OutputInv, PartnerInv, InTouch, SwapInv, Lost, RolesAgree,
           Types, PdOK, PartnerOK, RailOK
  <2> QED BY <2>1, <2>2 DEF OutputSound
<1> QED BY InitHolds, NextKeeps, <1>1, PTL DEF Spec

-----------------------------------------------------------------------------
(* The alarms (PowerEvents)                                                *)

EventTypes ==
    /\ adc.dc \in {"out", "band", "usb", "rise", "in"}
    /\ DOMAIN evt = {"primed", "mains", "faults", "cs", "low", "since"}
    /\ evt.primed \in BOOLEAN /\ evt.mains \in BOOLEAN /\ evt.low \in BOOLEAN
    /\ DOMAIN tx = {"dead", "n"} /\ tx.dead \in BOOLEAN /\ tx.n \in {0, 3, 6}
    /\ DOMAIN left = {"wedges", "trips"} /\ left.wedges \in Nat
    /\ DOMAIN note = {"outer", "lows", "silent", "new"} /\ note.lows \in 0..1 /\ note.silent \in Nat

\* The seconds a transmitter that lost its configuration may still be silent.
Owed == IF ~tx.dead THEN 0 ELSE IF tx.n = 0 THEN 3 ELSE IF tx.n = 3 THEN 2 ELSE 1

\* The detector's view of the input is the reader's; a low alarm is remembered
\* until the battery is safe; a new fault was announced; a live transmitter has
\* counted nothing; every wedge accounts for three seconds of silence.
EventsInv ==
    /\ EventTypes
    /\ evt.mains <=> note.outer = "in"
    /\ note.lows = 1 => evt.low
    /\ note.new # {} => evt.since = 0
    /\ ~tx.dead => tx.n = 0
    /\ note.silent + Owed <= 3 * (MaxWedges - left.wedges)

\* The events of a second: at most one of each kind.
One(c, e) == IF c THEN <<e>> ELSE <<>>

LEMMA OneSeq == ASSUME NEW c \in BOOLEAN, NEW S, NEW e \in S PROVE One(c, e) \in Seq(S) /\ Len(One(c, e)) \in 0..1
  BY DEF One

LEMMA Lows ==
  /\ \E S : E!Events \in Seq(S)
  /\ (\E i \in 1..Len(E!Events) : E!Events[i] = "low") <=> (evt.primed /\ E!LowMark)
<1>1. CASE ~evt.primed
  <2>1. E!Events = <<>> /\ <<>> \in Seq({}) /\ Len(<<>>) = 0
    BY <1>1, EmptySeq DEF E!Events
  <2> QED
    BY <1>1, <2>1
<1>2. CASE evt.primed
  <2> DEFINE K == {"mains", "fault", "full"}
             L == K \cup {"low"}
  <2>1. PICK a \in BOOLEAN, b \in BOOLEAN, c \in BOOLEAN, d \in BOOLEAN :
          /\ E!Events = One(a, "mains") \o One(b, "fault") \o One(c, "full") \o One(d, "low")
          /\ d <=> E!LowMark
    <3>1. PICK a, b, c, d : /\ a = (E!Mains # evt.mains) /\ b = E!NewFault
                            /\ c = (E!Mains /\ chg.cs = 3 /\ evt.cs # 3) /\ d = E!LowMark
      OBVIOUS
    <3>2. a \in BOOLEAN /\ b \in BOOLEAN /\ c \in BOOLEAN /\ d \in BOOLEAN
      BY <3>1 DEF E!NewFault, E!LowMark
    <3>3. E!Events = One(a, "mains") \o One(b, "fault") \o One(c, "full") \o One(d, "low")
      BY <1>2, <3>1 DEF E!Events, One
    <3> QED
      BY <3>1, <3>2, <3>3
  <2>2. PICK s : s = One(a, "mains") \o One(b, "fault") \o One(c, "full")
    OBVIOUS
  <2>3. s \in Seq(K)
    <3>1. One(a, "mains") \in Seq(K) /\ One(b, "fault") \in Seq(K) /\ One(c, "full") \in Seq(K)
      BY OneSeq
    <3>2. One(a, "mains") \o One(b, "fault") \in Seq(K)
      BY <3>1, ConcatProperties
    <3> QED
      BY <2>2, <3>1, <3>2, ConcatProperties
  <2>4. s \in Seq(L) /\ One(d, "low") \in Seq(L) /\ Len(s) \in Nat /\ \A i \in 1..Len(s) : s[i] # "low"
    <3>1. s \in Seq(L)
      BY <2>3
    <3>2. One(d, "low") \in Seq(L)
      BY OneSeq
    <3>3. \A i \in 1..Len(s) : s[i] \in K
      BY <2>3
    <3> QED
      BY <3>1, <3>2, <3>3
  <2>5. /\ E!Events \in Seq(L) /\ Len(E!Events) = Len(s) + Len(One(d, "low"))
        /\ \A i \in 1..Len(s) + Len(One(d, "low")) :
              E!Events[i] = IF i <= Len(s) THEN s[i] ELSE One(d, "low")[i - Len(s)]
    BY <2>1, <2>2, <2>4, ConcatProperties
  <2>6. CASE d
    <3>1. Len(One(d, "low")) = 1 /\ One(d, "low")[1] = "low"
      BY <2>6 DEF One
    <3>2. Len(s) + 1 \in 1..Len(E!Events) /\ E!Events[Len(s) + 1] = "low"
      BY <2>4, <2>5, <3>1
    <3> QED
      BY <1>2, <2>1, <2>5, <2>6, <3>2
  <2>7. CASE ~d
    <3>1. Len(One(d, "low")) = 0
      BY <2>7 DEF One
    <3>2. \A i \in 1..Len(E!Events) : E!Events[i] # "low"
      BY <2>4, <2>5, <3>1
    <3> QED
      BY <1>2, <2>1, <2>5, <2>7, <3>2
  <2> QED
    BY <2>6, <2>7
<1> QED
  BY <1>1, <1>2

\* What the transmitter becomes when at least one frame is given to it.
LEMMA ShipStep ==
  ASSUME EventsInv, NEW S, NEW frames \in Seq(S), frames # <<>>, NEW s, s = E!Ship(tx, frames), tx' = s.t
  PROVE  /\ DOMAIN tx' = {"dead", "n"} /\ tx'.dead \in BOOLEAN /\ tx'.n \in {0, 3, 6}
         /\ ~tx'.dead => tx'.n = 0
         /\ Owed \in Nat /\ Owed' \in Nat /\ Owed' <= Owed
         /\ tx.dead => Owed' < Owed
         /\ ~tx.dead => s.got = frames
<1>1. PICK k : k = Len(frames) /\ k \in Nat /\ k >= 1
  BY EmptySeq
<1> USE DEF EventsInv, EventTypes
<1>2. CASE ~tx.dead
  <2>1. tx' = [tx EXCEPT !.n = 0] /\ s.got = frames
    BY <1>2 DEF E!Ship
  <2> QED
    BY <1>2, <2>1 DEF Owed
<1>3. CASE tx.dead
  <2>1. PICK r : r = E!ReinitFrame(tx)
    OBVIOUS
  <2>2. tx' = [dead |-> FALSE, n |-> 0] \/ (tx' = [tx EXCEPT !.n = @ + 3 * Len(frames)] /\ ~(Len(frames) >= r))
    BY <1>3, <2>1 DEF E!Ship
  <2>3. /\ tx.n = 0 => r = 3
        /\ tx.n = 3 => r = 2
        /\ tx.n = 6 => r = 1
    BY <2>1 DEF E!ReinitFrame, E!TxReinitAfter
  <2>4. CASE tx' = [dead |-> FALSE, n |-> 0]
    BY <1>3, <2>4 DEF Owed
  <2>5. CASE tx' = [tx EXCEPT !.n = @ + 3 * Len(frames)] /\ ~(Len(frames) >= r)
    <3>1. tx'.dead /\ tx'.dead \in BOOLEAN /\ tx'.n = tx.n + 3 * k /\ DOMAIN tx' = {"dead", "n"} /\ ~(k >= r)
      BY <1>1, <1>3, <2>5
    <3>2. PICK n, m : n = tx.n /\ m = tx'.n
      OBVIOUS
    <3>3. /\ n \in {0, 3, 6} /\ m = n + 3 * k /\ k \in Nat /\ k >= 1
          /\ (n = 0 => ~(k >= 3)) /\ (n = 3 => ~(k >= 2)) /\ (n = 6 => ~(k >= 1))
      BY <1>1, <2>3, <3>1, <3>2
    <3>4. (n = 0 /\ m \in {3, 6}) \/ (n = 3 /\ m = 6)
      BY ONLY <3>3
    <3> QED
      BY <1>3, <3>1, <3>2, <3>4 DEF Owed
  <2> QED
    BY <2>2, <2>4, <2>5
<1> QED
  BY <1>2, <1>3

LEMMA MainsIs == ASSUME EventsInv
  PROVE  E!Mains <=> (adc.dc \in {"usb", "rise", "in"} \/ (adc.dc = "band" /\ evt.mains))
<1>1. /\ E!Above(adc.dc, "out") <=> adc.dc # "out"
      /\ E!Above(adc.dc, "band") <=> adc.dc \in {"usb", "rise", "in"}
  <2> USE DEF EventsInv, EventTypes
  <2>1. PICK f : f = <<"out", "band", "usb", "rise", "in">>
    OBVIOUS
  <2>2. f[1] = "out" /\ f[2] = "band" /\ f[3] = "usb" /\ f[4] = "rise" /\ f[5] = "in"
    BY <2>1
  <2>3. \A i \in 1..5 : i = 1 \/ i = 2 \/ i = 3 \/ i = 4 \/ i = 5
    OBVIOUS
  <2>4. \A v, class : E!Above(v, class) <=> \E i, j \in 1..5 : f[i] = v /\ f[j] = class /\ i > j
    BY <2>1 DEF E!Above, E!Inputs
  <2> QED
    BY <2>2, <2>3, <2>4
<1> QED
  BY <1>1 DEF E!Mains, EventsInv, EventTypes

LEMMA SecondStep == ASSUME EventsInv, E!Second PROVE EventsInv'
<1>1. PICK s : s = E!wups_send_power_status(tx, E!Events)
  OBVIOUS
<1>2. tx' = s.t /\ note' = E!Note(E!Events, s.got) /\ evt' = E!Tick /\ UNCHANGED <<adc, left>>
  BY <1>1 DEF E!Second
<1>3. PICK S : E!Events \in Seq(S)
  BY Lows
<1>4. PICK frames : frames = Append(E!Events, "status")
  OBVIOUS
<1>5. frames \in Seq(S \cup {"status"}) /\ frames # <<>>
  <2>1. E!Events \in Seq(S \cup {"status"})
    BY <1>3
  <2>2. frames \in Seq(S \cup {"status"}) /\ Len(frames) = Len(E!Events) + 1 /\ Len(E!Events) \in Nat
    BY <1>4, <2>1, AppendProperties
  <2> QED
    BY <2>2, EmptySeq
<1>6. s = E!Ship(tx, frames)
  BY <1>1, <1>4 DEF E!wups_send_power_status
<1>7. /\ DOMAIN tx' = {"dead", "n"} /\ tx'.dead \in BOOLEAN /\ tx'.n \in {0, 3, 6}
      /\ ~tx'.dead => tx'.n = 0
      /\ Owed \in Nat /\ Owed' \in Nat /\ Owed' <= Owed
      /\ tx.dead => Owed' < Owed
      /\ ~tx.dead => s.got = frames
  BY <1>2, <1>5, <1>6, ShipStep
<1>8. PICK at : /\ at \in 0..1 /\ at = (IF \E i \in 1..Len(E!Events) : E!Events[i] = "low" THEN 1 ELSE 0)
                /\ at = 1 <=> (evt.primed /\ E!LowMark)
  BY Lows
<1>9. /\ note'.outer = (IF adc.dc = "band" THEN note.outer ELSE IF adc.dc = "out" THEN "out" ELSE "in")
      /\ note'.lows = (IF E!Mains \/ adc.vbat = "high" THEN 0 ELSE note.lows + at)
      /\ note'.silent = (IF s.got = <<>> THEN note.silent + 1 ELSE 0)
      /\ note'.new = (IF evt.primed /\ evt.since >= FaultHold THEN E!Faults \ evt.faults ELSE {})
      /\ DOMAIN note' = {"outer", "lows", "silent", "new"}
  <2>1. PICK o, l, z, w :
          /\ o = (IF adc.dc = "band" THEN note.outer ELSE IF adc.dc = "out" THEN "out" ELSE "in")
          /\ l = (IF E!Mains \/ adc.vbat = "high" THEN 0 ELSE note.lows + at)
          /\ z = (IF s.got = <<>> THEN note.silent + 1 ELSE 0)
          /\ w = (IF evt.primed /\ evt.since >= FaultHold THEN E!Faults \ evt.faults ELSE {})
    OBVIOUS
  <2>2. note' = [outer |-> o, lows |-> l, silent |-> z, new |-> w]
    <3>1. l = IF E!Mains \/ adc.vbat = "high" THEN 0
              ELSE note.lows + (IF \E i \in 1..Len(E!Events) : E!Events[i] = "low" THEN 1 ELSE 0)
      BY <1>8, <2>1
    <3> QED
      BY <1>2, <2>1, <3>1 DEF E!Note
  <2> QED
    BY ONLY <2>1, <2>2
<1>10. /\ DOMAIN evt' = {"primed", "mains", "faults", "cs", "low", "since"}
       /\ evt'.primed = TRUE /\ evt'.mains = E!Mains
       /\ evt'.low = (IF ~evt.primed THEN evt.low
                      ELSE E!LowMark \/ (evt.low /\ ~(E!Mains /\ ~evt.mains) /\ adc.vbat # "high"))
       /\ evt'.since = (IF evt.primed /\ E!NewFault THEN 0 ELSE E!Older(evt.since))
  BY <1>2 DEF E!Tick
<1>11. E!Mains \in BOOLEAN /\ (E!Mains <=> (adc.dc \in {"usb", "rise", "in"} \/ (adc.dc = "band" /\ evt.mains)))
  <2>1. E!Mains \in BOOLEAN
    BY DEF E!Mains, E!Above
  <2> QED
    BY <2>1, MainsIs
<1>12. evt'.primed \in BOOLEAN /\ evt'.mains \in BOOLEAN /\ evt'.low \in BOOLEAN
  BY <1>10, <1>11 DEF EventsInv, EventTypes, E!LowMark
<1>13. evt'.mains <=> note'.outer = "in"
  BY <1>9, <1>10, <1>11 DEF EventsInv, EventTypes
<1>14. note'.lows \in 0..1 /\ (note'.lows = 1 => evt'.low)
  <2>1. IF evt.primed /\ E!LowMark THEN at = 1 ELSE at = 0
    BY <1>8
  <2>2. CASE E!Mains \/ adc.vbat = "high"
    BY <1>9, <2>2
  <2>3. CASE ~(E!Mains \/ adc.vbat = "high") /\ evt.primed /\ E!LowMark
    <3>1. ~evt.low /\ evt'.low
      BY <1>10, <2>3 DEF E!LowMark
    <3>2. note.lows = 0
      BY <3>1 DEF EventsInv, EventTypes
    <3> QED
      BY <1>9, <2>1, <2>3, <3>1, <3>2
  <2>4. CASE ~(E!Mains \/ adc.vbat = "high") /\ ~(evt.primed /\ E!LowMark)
    <3>1. note'.lows = note.lows /\ note.lows \in 0..1
      BY <1>9, <2>1, <2>4 DEF EventsInv, EventTypes
    <3>2. evt.low => evt'.low
      BY <1>10, <2>4
    <3> QED
      BY <3>1, <3>2 DEF EventsInv
  <2> QED
    BY <2>2, <2>3, <2>4
<1>15. note'.new # {} => evt'.since = 0
  BY <1>9, <1>10 DEF E!NewFault
<1>16. note'.silent \in Nat /\ note'.silent + Owed' <= 3 * (MaxWedges - left'.wedges)
  <2>1. CASE tx.dead
    <3>1. note'.silent \in Nat /\ note'.silent <= note.silent + 1 /\ note.silent \in Nat
      BY <1>9 DEF EventsInv, EventTypes
    <3>2. note.silent + Owed <= 3 * (MaxWedges - left.wedges) /\ left' = left /\ left.wedges \in Nat /\ MaxWedges \in Nat
      BY <1>2, EventConstants DEF EventsInv, EventTypes, E!PowerEventsConstants
    <3> QED
      BY ONLY <1>7, <2>1, <3>1, <3>2
  <2>2. CASE ~tx.dead
    <3>1. note'.silent = 0
      BY <1>5, <1>7, <1>9, <2>2
    <3>2. note.silent + Owed <= 3 * (MaxWedges - left.wedges) /\ left' = left /\ left.wedges \in Nat /\ MaxWedges \in Nat
          /\ note.silent \in Nat
      BY <1>2, EventConstants DEF EventsInv, EventTypes, E!PowerEventsConstants
    <3> QED
      BY ONLY <1>7, <3>1, <3>2
  <2> QED
    BY <2>1, <2>2
<1>17. adc'.dc \in {"out", "band", "usb", "rise", "in"} /\ DOMAIN left' = {"wedges", "trips"} /\ left'.wedges \in Nat
  BY <1>2 DEF EventsInv, EventTypes
<1> QED
  BY <1>7, <1>9, <1>10, <1>12, <1>13, <1>14, <1>15, <1>16, <1>17 DEF EventsInv, EventTypes

LEMMA EventsStep == ASSUME EventsInv, E!Next PROVE EventsInv'
<1>1. CASE E!Elapse
  <2>1. adc'.dc \in {"out", "band", "usb", "rise", "in"}
    <3>1. CASE UNCHANGED adc
      BY <3>1 DEF EventsInv, EventTypes
    <3>2. CASE E!Sample
      <4>1. {E!Inputs[i] : i \in 1..5} \subseteq {"out", "band", "usb", "rise", "in"}
        BY DEF E!Inputs
      <4> QED
        BY <3>2, <4>1 DEF E!Sample, E!Get_ADC_Val, EventsInv, EventTypes
    <3> QED
      BY <1>1, <3>1, <3>2 DEF E!Elapse
  <2> QED
    BY <1>1, <2>1 DEF E!Elapse, EventsInv, EventTypes, Owed
<1>2. CASE E!TpsPoll \/ E!ChargerPoll \/ E!BatteryPoll \/ E!Charged
  BY <1>2 DEF E!TpsPoll, E!ChargerPoll, E!BatteryPoll, E!Charged, EventsInv, EventTypes, Owed
<1>3. CASE E!Second
  BY <1>3, SecondStep
<1>4. CASE E!Status_Query
  <2>1. PICK s : s = E!wups_send_power_status(tx, <<>>)
    OBVIOUS
  <2>2. PICK frames : frames = Append(<<>>, "status")
    OBVIOUS
  <2>3. frames \in Seq({"status"}) /\ frames # <<>>
    BY <2>2
  <2>4. s = E!Ship(tx, frames) /\ tx' = s.t /\ UNCHANGED <<adc, evt, left, note>>
    BY <1>4, <2>1, <2>2 DEF E!Status_Query, E!wups_send_power_status
  <2>5. /\ DOMAIN tx' = {"dead", "n"} /\ tx'.dead \in BOOLEAN /\ tx'.n \in {0, 3, 6}
        /\ ~tx'.dead => tx'.n = 0
        /\ Owed \in Nat /\ Owed' \in Nat /\ Owed' <= Owed
    BY <2>3, <2>4, ShipStep
  <2>6. note'.silent + Owed' <= 3 * (MaxWedges - left'.wedges)
    <3>1. /\ note.silent + Owed <= 3 * (MaxWedges - left.wedges) /\ left' = left /\ left.wedges \in Nat /\ MaxWedges \in Nat
          /\ note.silent \in Nat /\ note' = note
      BY <2>4, EventConstants DEF EventsInv, EventTypes, E!PowerEventsConstants
    <3> QED
      BY ONLY <2>5, <3>1
  <2> QED
    BY <2>4, <2>5, <2>6 DEF EventsInv, EventTypes
<1>5. CASE E!Trip
  <2>1. left' = [left EXCEPT !.trips = @ - 1] /\ UNCHANGED <<adc, evt, tx, note>>
    BY <1>5 DEF E!Trip
  <2> QED
    BY <2>1 DEF EventsInv, EventTypes, Owed
<1>6. CASE E!Wedge
  <2>1. /\ left.wedges > 0 /\ ~tx.dead /\ tx' = [tx EXCEPT !.dead = TRUE] /\ left' = [left EXCEPT !.wedges = @ - 1]
        /\ UNCHANGED <<adc, evt, note>>
    BY <1>6 DEF E!Wedge
  <2>2. tx'.dead /\ tx'.dead \in BOOLEAN /\ tx'.n = 0 /\ DOMAIN tx' = {"dead", "n"} /\ Owed = 0 /\ Owed' = 3
    BY <2>1 DEF EventsInv, EventTypes, Owed
  <2>3. left'.wedges = left.wedges - 1 /\ left'.wedges \in Nat /\ DOMAIN left' = {"wedges", "trips"}
    BY <2>1 DEF EventsInv, EventTypes
  <2>4. note'.silent + Owed' <= 3 * (MaxWedges - left'.wedges)
    <3>1. /\ note.silent + Owed <= 3 * (MaxWedges - left.wedges) /\ left.wedges \in Nat /\ MaxWedges \in Nat
          /\ note.silent \in Nat /\ note' = note
      BY <2>1, EventConstants DEF EventsInv, EventTypes, E!PowerEventsConstants
    <3> QED
      BY ONLY <2>2, <2>3, <3>1
  <2> QED
    BY <2>1, <2>2, <2>3, <2>4 DEF EventsInv, EventTypes
<1> QED
  BY <1>1, <1>2, <1>3, <1>4, <1>5, <1>6 DEF E!Next, E!Loop

\* What the line says of the supply can be relied on (wups_power_event_tick,
\* Usart2_Send_Bytes), for any hold, any number of faults and any number of
\* times the transmitter loses its configuration.
THEOREM AlarmsAlwaysSound == MCSpec => []AlarmsSound
<1>1. MCInit => EventsInv
  BY EventConstants DEF MCInit, E!Init, EventsInv, EventTypes, Owed, E!PowerEventsConstants
<1>2. EventsInv /\ [MCNext]_<<part, vars, evvars, chvars, snvars, i2vars>> => EventsInv'
  <2>1. ASSUME EventsInv, UNCHANGED evvars PROVE EventsInv'
    BY <2>1 DEF EventsInv, EventTypes, Owed, evvars
  <2> QED
    BY <2>1, EventsStep DEF MCNext
<1>3. EventsInv => AlarmsSound
  <2> SUFFICES ASSUME EventsInv PROVE E!AlarmsSound
    BY DEF AlarmsSound
  <2>1. note.silent <= 3 * MaxWedges
    <3>1. note.silent \in Nat /\ Owed \in Nat /\ left.wedges \in Nat /\ MaxWedges \in Nat
          /\ note.silent + Owed <= 3 * (MaxWedges - left.wedges)
      BY EventConstants DEF EventsInv, EventTypes, Owed, E!PowerEventsConstants
    <3> QED
      BY ONLY <3>1
  <2>2. note.lows <= 1
    BY DEF EventsInv, EventTypes
  <2> QED
    BY <2>1, <2>2 DEF E!AlarmsSound, EventsInv
<1> QED
  BY <1>1, <1>2, <1>3, PTL DEF MCSpec
=============================================================================
