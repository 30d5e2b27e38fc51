------------------------------- MODULE MCLinks --------------------------------
\* The serial links, one part per behaviour: the deframer on a noisy line and
\* the hub's routing; and the pure algorithms, each compared with a reference
\* definition case by case, with the MQTT codec, whose messages depend on the
\* ones before.
EXTENDS Deframer, Signing

VARIABLES part,
    hup, dn, cached, hsent, log, lost,                        \* Hub
    conn, sent, unstored,                                     \* MqttCodec
    case                                                      \* what is computed
hubvars == <<hup, dn, cached, hsent, log, lost>>
algvars == <<conn, sent, unstored, case>>

\* What the nodes and the panel send, at least one frame of every kind the hub
\* tells apart.
F(dst, src, cls, op, flag, arg) ==
    [dst |-> dst, src |-> src, cls |-> cls, op |-> op, flag |-> flag, arg |-> arg, id |-> 0, inner |-> <<>>]
Ch32xFrames == {F("rp2040", "ch32x", "power", "status", "event", a) : a \in {"due", "later", "unknown"}}
    \cup {F("broadcast", "ch32x", "power", "event", "event", a) : a \in {"mains", "full"}}
    \cup {F("broadcast", "ch32x", "system", "hello", "event", "")}
RpiFrames == {F("rp2040", "rpi", "host", "status", "event", ""), F("broadcast", "rpi", "host", "event", "event", ""),
    F("broadcast", "rpi", "system", "ping", "req", ""), F("rp2040", "rpi", "system", "ping", "req", ""),
    F("ch32x", "rpi", "power", "cycle", "req", ""), F("broadcast", "rpi", "power", "disable", "req", ""),
    F("rp2040", "rpi", "ui", "beep", "req", ""), F("esp32", "rpi", "net", "config", "req", ""),
    F("esp32", "rpi", "net", "fw_xfer", "req", ""), F("rp2040", "rpi", "net", "fw_xfer", "req", ""),
    F("ch32x", "rpi", "system", "status_query", "req", "")}
Esp32Frames == {F("rp2040", "esp32", "ui", "trust_prompt", "req", ""), F("rp2040", "esp32", "system", "ping", "req", ""),
    F("broadcast", "esp32", "system", "hello", "event", ""), F("internal", "esp32", "system", "ping", "req", "")}
CloudFrames == {F("broadcast", "rpi", "power", op, "req", "") : op \in {"enable", "disable", "cycle", "pwr_reset", "status"}}
    \cup {F("broadcast", "rpi", "host", op, "req", "") : op \in {"shutdown", "service"}}
    \cup {F("rpi", "rpi", "host", "service", "req", ""), F("broadcast", "rpi", "ui", "beep", "req", ""),
          F("broadcast", "rpi", "system", "reset", "req", ""), F("broadcast", "rpi", "net", "fw_update", "req", "")}
Router == INSTANCE Hub WITH
    FromCh32x <- Ch32xFrames, FromRpi <- RpiFrames, FromEsp32 <- Esp32Frames, FromCloud <- CloudFrames,
    MaxSent <- 2, MaxLost <- 1, up <- hup, sent <- hsent

Codec == INSTANCE MqttCodec WITH Byte <- 16, MaxHeader <- 4, BufferLength <- 16, MaxId <- 3
Oled == INSTANCE Screens WITH SCR_COLS <- 10, SCR_ROWS <- 4
Rows == INSTANCE Screens WITH SCR_COLS <- 3, SCR_ROWS <- 2

Nothing == [of |-> "nothing"]
Numbers == 0..(2^(2 * 3) - 1)
Keys == [of : {"key"}, d : 0..460, e : {2, 100}]
Points == [of : {"point"}, x : {0, 3, 5, 498}, y : 0..498]
Signatures == [of : {"signature"}, d : {0, 1, 2, 3, 228, 455, 456, 457}, digest : {0, 1, 3, 228, 300, 456, 457, 500, 511},
               k : {0, 1, 2, 3, 7, 8, 100, 228, 229, 455, 456}]

NotAvail == Oled!NotAvailable
\* Values at and around every change of length.
Dashboards == [of : {"dashboard"}, soc : {0, 9, 10, 99, 100}, noBattery : BOOLEAN, bv : {0, 8400}, vi : {0, 9999, 25500}, vbus : {0, 5200},
               pd_mV : {0, 5000, 20000}, pd_mA : {500, 5000}, limit : {0, 6350}, ci : {-6080, 0, 999}, up_m : {0}, lm : {0}, mp : {0},
               lost : {5, 9999, 10000}]
               \cup [of : {"dashboard"}, soc : {50}, noBattery : {FALSE}, bv : {7000}, vi : {0}, vbus : {0}, pd_mV : {0}, pd_mA : {0}, limit : {0},
                     ci : {0}, up_m : {0, 9, 99, 100, 599, 600, 5999, 6000, 71582}, lm : {-550, -5, 0, 1270}, mp : {NotAvail, -400, 0, 1500}, lost : {5}]
Menus == [of : {"menu"}, up_m : {0, 9, 99, 100, 599, 600, 5999, 6000, 71582}, fresh : BOOLEAN, lm : {-550, 0, 1270}, mp : {NotAvail, -400, 1500},
          togo : {-150, -1, 0, 1, 1000, 1001, 2000}]
Balances == [of : {"balance"}, known : {"high", "none", "ok"}, failed : BOOLEAN, uW3P : {0, 999999, 18446744}, gas : {"none", "low", "enough"}]
Socs == [of : {"soc"}, bv : 6380..8020]
Seqs(S, n) == UNION {[1..k -> S] : k \in 0..n}
Prompts == [of : {"prompt"}, text : Seqs(0..7, 4)]
Notices == [of : {"notice"}, text : Seqs({"letter", "newline", "control"}, 7)]

\* Strings on both sides of every change of an encoding.
Octets(n) == [i \in 1..n |-> (i * 7) % 256]
Strings == {Octets(n) : n \in {0, 1, 2, 54, 55, 56, 57}} \cup {<<0>>, <<127>>, <<128>>}
Attribute(key, numeric, number, text) == [key |-> key, numeric |-> numeric, number |-> number, text |-> text]
AttributeLists ==
    {<<>>, <<Attribute(Octets(3), FALSE, 0, Octets(20)), Attribute(<<>>, TRUE, 5, <<>>), Attribute(Octets(30), FALSE, 0, <<1>>)>>}
    \cup {<<Attribute(Octets(k), TRUE, n, <<>>)>> : k \in {1, 50, 60}, n \in {0, 1, 127, 128, 255, 256, 65536}}
Creates == [expires : {0, 1, 2, 3, 253, 254}, type : {<<>>, Octets(10)}, payload : Strings \cup {Octets(255), Octets(256)}, attributes : AttributeLists]
Operations(c, u, d, e, o) == [of |-> "ops", ops |-> [creates |-> c, updates |-> u, deletes |-> d, extensions |-> e, ownership |-> o]]
Ops == {Operations(<<c>>, <<>>, <<>>, <<>>, <<>>) : c \in Creates}
       \cup {Operations(<<>>, <<[entity |-> b, type |-> <<>>, expires |-> 3, payload |-> <<>>, attributes |-> a]>>, <<b, b>>, <<>>, <<>>)
             : b \in Strings, a \in AttributeLists}
       \cup {Operations(<<>>, <<>>, <<>>, <<[entity |-> b, expires |-> 7], [entity |-> <<>>, expires |-> 0]>>, <<[entity |-> b, owner |-> Octets(20)]>>)
             : b \in Strings}
Streams == [of : {"stream"}, bytes : {Octets(n) : n \in 0..50}]
Txs == [of : {"tx"}, tx : [nonce : {0, 1, 127, 128, 256}, gas_price : {0, 1000000}, gas_limit : {21000}, to : {Octets(20), <<>>}, value : {0, 200},
                           data : Strings, chain_id : {0, 46, 47, 110, 60000}],
        sig : [recid : 0..1, r : {<<0, 0, 5>>, <<0, 128, 0>>, <<255, 0, 1>>}, s : {<<0, 0, 0>>, <<1, 0, 0>>}]]

MCInit == /\ part \in {"frames", "hub", "algorithms"}
          /\ Init /\ Router!Init /\ (part # "hub" => ~cached)
          /\ Codec!Init /\ case = Nothing
Compute(cases) == case = Nothing /\ sent.asked.kind = "none" /\ case' \in cases /\ UNCHANGED <<conn, sent, unstored>>
Arithmetic == Compute([of : {"long"}, x : Numbers, y : Numbers])
Curve == Compute(Keys \cup Points \cup Signatures)
Show == Compute(Dashboards \cup Menus \cup Balances \cup Socs)
Fold == Compute(Prompts) \/ Compute(Notices)
Encode == Compute(Ops \cup Streams) \/ Compute(Txs)
Talk == case = Nothing /\ Codec!Next /\ UNCHANGED case
MCNext ==
    /\ UNCHANGED part
    /\ \/ part = "frames" /\ Next /\ UNCHANGED <<hubvars, algvars>>
       \/ part = "hub" /\ Router!Next /\ UNCHANGED <<vars, algvars>>
       \/ /\ part = "algorithms" /\ UNCHANGED <<vars, hubvars>>
          /\ Arithmetic \/ Curve \/ Show \/ Fold \/ Encode \/ Talk
MCSpec == MCInit /\ [][MCNext]_<<part, vars, hubvars, algvars>>

\* A frame reaches whom it is for, once, and is answered once (Hub).
HubSound == Router!HubSound

\* MQTT messages are read as they were made, but for the length of those made
\* between a cut publication that found no memory and the next publication
\* (MqttCodec).
CodecSound == Codec!CodecSound

CryptoCase(c) == /\ c.of = "long" => LongIntegersRight(c.x, c.y)
                 /\ c.of = "key" => KeysRight(c.d, c.e)
                 /\ c.of = "point" => PointsRight(c.x, c.y)
                 /\ c.of = "signature" => SignatureRight(c.d, c.digest, <<0, 457, c.k, 9>>)

\* micro-ecc's long integers compute what the integers do, and keys, shared
\* secrets and signatures are those of the curve (Signing), in every computation.
CryptoRight == [][CryptoCase(case')]_case

ScreensCase(c) == /\ c.of = "dashboard" => Oled!DashboardLegible(c)
                  /\ c.of = "menu" => Oled!MenusLegible(c)
                  /\ c.of = "balance" => Oled!BalanceLegible(c)
                  /\ c.of = "soc" => Oled!SocRight(c.bv)
                  /\ c.of = "prompt" => Rows!PromptKept(c.text)
                  /\ c.of = "notice" => Rows!NoticeKept(c.text)

\* The OLED shows what it is given inside the panel and nothing over anything
\* else, but for the three rows of eleven characters Screens names (a full pack,
\* NO UPS after 10000 s, one prompt of the ESP32's menu); charge follows voltage,
\* the cursor stays in view, and broken texts keep every word (Screens).
ScreensRight == [][ScreensCase(case')]_case

TransactionCase(c) == /\ c.of = "ops" => OpsRight(c.ops)
                      /\ c.of = "stream" => StoreRight(c.bytes)
                      /\ c.of = "tx" => TxRight(c.tx, c.sig)

\* Every transaction is read as it was meant (Signing).
TransactionsRight == [][TransactionCase(case')]_case
=============================================================================
