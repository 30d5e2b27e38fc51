------------------------------- MODULE Screens -------------------------------
(***************************************************************************)
(* What the 64x32 OLED shows (main.cpp, trust_ui.cpp and local_menu.cpp of *)
(* the RP2040, and the texts oled_menu.c of the ESP32 sends): every screen *)
(* as the set of boxes it draws.  A text is its place, its length and its  *)
(* size; Adafruit_GFX moves six columns to a character of size one and     *)
(* continues on the next row, over what is there, when a character does    *)
(* not fit.  A glyph is seven rows high.  Texts that are broken into rows  *)
(* are sequences whose members stand for characters or words.              *)
(***************************************************************************)
EXTENDS Integers, SequencesExt

CONSTANTS SCR_COLS, SCR_ROWS     \* what the generic texts are broken into

Box(x, y, w, h) == [x |-> x, y |-> y, w |-> w, h |-> h]
Sized(x, y, n, size) == Box(x, y, 6 * size * n, 7 * size)
T(x, y, n) == Sized(x, y, n, 1)
Digits[n \in Nat] == IF n < 10 THEN 1 ELSE 1 + Digits[n \div 10]
Fixed(mV) == Digits[mV \div 1000] + 2                    \* whole.frac
Signed(n) == IF n < 0 THEN 1 + Digits[-n] ELSE Digits[n]
Toward0(n, d) == IF n < 0 THEN -((-n) \div d) ELSE n \div d

-----------------------------------------------------------------------------
\* The dashboard (v: the values shown).
voltageToSoc(bv_mV) ==
    LET lut == <<<<4000, 100>>, <<3900, 88>>, <<3800, 75>>, <<3700, 60>>, <<3600, 40>>, <<3500, 22>>, <<3400, 10>>, <<3300, 4>>, <<3200, 0>>>>
        cell == bv_mV \div 2
        i == CHOOSE i \in 1..8 : lut[i][1] >= cell /\ cell > lut[i + 1][1]
    IN IF cell >= 4000 THEN 100 ELSE IF cell <= 3200 THEN 0
       ELSE lut[i][2] - (((lut[i][1] - cell) * (lut[i][2] - lut[i + 1][2])) \div (lut[i][1] - lut[i + 1][1]))

IconInner == Box(2, 4, 6, 16)
drawBatteryIconFill(soc) == LET fillH == (16 * soc) \div 100 IN Box(2, 4 + (16 - fillH), 6, fillH)
BatteryIcon == Box(0, 0, 10, 22)
drawScreenIndicator == Box(64 - 5 * 2, 29, 10, 2)

drawScreenHome(v) ==
    {BatteryIcon, Sized(15, 0, IF v.noBattery THEN 3 ELSE Digits[v.soc] + 1, 2), T(15, 16, 3), T(39, 16, Fixed(v.bv) + 1),
     T(0, 25, IF v.vi > 0 THEN Fixed(v.vi) + 1 ELSE 4), T(39, 25, Fixed(v.vbus) + 1)}
Contract(v) == IF v.pd_mV > 0 THEN 6 + 1 + Fixed(v.pd_mA) ELSE 6       \* "PD 20V3.0A", the volts padded to two
drawScreenInput(v) ==
    LET whole == v.vi \div 1000 IN
    {drawScreenIndicator, T(0, 0, 3 + (IF whole < 10 THEN 1 ELSE 0) + Fixed(v.vi) + 1), T(0, 8, Contract(v)), T(0, 24, 9)}
    \cup (IF v.pd_mV > 0 THEN {T(0, 16, 2 + Digits[(v.pd_mV \div 1000) * (v.pd_mA \div 1000)])} ELSE {})
drawScreenOutput(v) == {drawScreenIndicator, T(0, 0, 2 + Fixed(v.vbus) + 1), T(0, 8, Contract(v)), T(0, 16, 6 + Fixed(v.limit) + 1)}
drawScreenBattery(v) ==
    {drawScreenIndicator, T(0, 0, 2 + Fixed(v.bv) + 2 + (IF v.soc < 10 THEN 1 ELSE 0) + Digits[v.soc] + 1), T(0, 8, 8),
     T(0, 16, 4 + Fixed(IF v.ci < 0 THEN -v.ci ELSE v.ci) + 1)}
Uptime(up_m) ==
    LET up_h == up_m \div 60
    IN IF up_m < 100 THEN Digits[up_m] + 1
       ELSE IF up_h < 100 THEN Digits[up_h] + 1 + (IF up_h < 10 THEN 3 ELSE 0) ELSE Digits[up_h \div 24] + 1
NotAvailable == -32768
drawScreenSystem(v) ==
    {drawScreenIndicator, T(0, 0, 3 + Uptime(v.up_m)), T(0, 8, 5 + Signed(Toward0(v.lm, 10))),
     T(0, 16, IF v.mp = NotAvailable THEN 8 ELSE 5 + Signed(Toward0(v.mp, 10))), T(0, 24, 8)}
\* The overrides: NO UPS, BAD PSU and the modem's banner.
drawNoUps(lost_s) == {T(0, 0, 1), T(10, 0, 6), T(0, 12, 8), T(0, 22, 6 + Digits[lost_s])}
drawBadPsu == {T(0, 0, 1), T(10, 0, 7), T(0, 12, 7), T(0, 22, 7)}
drawNetAlert(len, fwUpdate) == {T(0, 0, 1), T(10, 0, 5), T(0, 12, len)} \cup (IF fwUpdate THEN {} ELSE {T(0, 22, 9)})

-----------------------------------------------------------------------------
\* The prompts and the menus.
Clipped(lens) == {T(0, 8 * (r - 1), Min({SCR_COLS, lens[r]})) : r \in 1..Min({SCR_ROWS, Len(lens)})}   \* draw_menu, draw4
claimId(idlen) == {T(0, 0, 3)} \cup {T(0, 8 * r, Min({SCR_COLS, idlen - (r - 1) * SCR_COLS})) :
                                       r \in {r \in 1..(SCR_ROWS - 1) : (r - 1) * SCR_COLS < idlen}}
FingerprintCheck == {T(0, 0, 4), Sized(0, 12, 4, 2)}
SecondsLeft(need, held) == (((need - held + 999) % 2^30) \div 1000) % 256    \* 2^30 for 2^32; held may be past need in the release's grace
draw_countdown(left) == {T(2, 0, 9), Sized(26, 9, Digits[left], 3)}
draw_wallet_hex == {T((i % 10) * 6, (i \div 10) * 8, 1) : i \in 0..39}
draw_wallet_qr == LET n == 4 * 3 + 17 IN {Box((64 - n) \div 2, (32 - n) \div 2, n, n)}

\* A window of four rows on n entries that keeps the cursor in view.
render_list(n, cursor) ==
    LET first == Max({0, Min({IF cursor >= 3 THEN cursor - 2 ELSE 0, n - SCR_ROWS})})
    IN {idx \in first..(first + SCR_ROWS - 1) : idx < n}
\* Lengths of the rows, the cursor included: the RP2040's own menu, the ESP32's.
LocalRows(v) ==
    [root |-> <<7, 10, 5, 7>>, bright |-> <<6, 7, 2 + 5, 7>>, output |-> <<6, 8, 5, 9>>, confirm |-> <<7, 6, 5, 8>>,
     info |-> <<3 + (IF v.up_m < 100 THEN Digits[v.up_m] ELSE IF v.up_m \div 60 < 100 THEN Digits[v.up_m \div 60] ELSE Digits[v.up_m \div 1440]) + 1,
                IF v.fresh THEN 5 + Signed(Toward0(v.lm, 10)) ELSE 7,
                IF v.fresh /\ v.mp # NotAvailable THEN 5 + Signed(Toward0(v.mp, 10)) ELSE 7, 8>>,
     notice |-> <<8, 8, 8>>]
EspRows == [mode |-> <<8, 8, 8, 5>>, key |-> <<9, 9, 5, 8>>, regenKey |-> <<8, 4, 5, 6>>, reset |-> <<7, 10, 5, 5>>,
            regenWallet |-> <<10, 11, 5, 6>>, wallet |-> <<8, 8, 6, 5>>, noWallet |-> <<8, 10>>]
bal_format(v) ==      \* uW3P: the balance in millionths
    IF v.known = "high" THEN <<7, 10, 3, IF v.failed THEN 5 ELSE 0>>
    ELSE IF v.known = "none" THEN <<7, IF v.failed THEN 7 ELSE 10>>
    ELSE <<7, Digits[v.uW3P \div 1000000] + 7, 3, CASE v.gas = "none" -> 6 [] v.gas = "low" -> 7 [] OTHER -> IF v.failed THEN 5 ELSE 0>>

-----------------------------------------------------------------------------
\* Everything inside the panel, nothing over anything else.
Inside(b) == b.x >= 0 /\ b.y >= 0 /\ b.x + b.w <= 64 /\ b.y + b.h <= 32
Apart(b, c) == b.x + b.w <= c.x \/ c.x + c.w <= b.x \/ b.y + b.h <= c.y \/ c.y + c.h <= b.y
Legible(boxes) == (\A b \in boxes : Inside(b)) /\ (\A b, c \in boxes : b = c \/ Apart(b, c))
Fitting(rows) == Len(rows) <= SCR_ROWS /\ \A r \in DOMAIN rows : rows[r] <= SCR_COLS

\* The rows that do not fit the ten columns main.cpp:689 and local_menu.cpp:12
\* allow: "V 8.2V 100%" of the Battery screen, which runs over the row below it
\* while the pack is full; "lost 10000s" of NO UPS, from 10000 s on; and "ARKIV
\* ADDR?" of the ESP32's menu, whose last character is cut off.
FullPack(v) == v.soc = 100
LongLost(v) == v.lost >= 10000
CutScreens == {"regenWallet"}

\* The dashboard is legible at every value, the Battery screen but for a full
\* pack and NO UPS until 10000 s: nothing is drawn over anything else or outside.
DashboardLegible(v) ==
    /\ Legible(drawScreenHome(v)) /\ Legible(drawScreenInput(v)) /\ Legible(drawScreenOutput(v)) /\ Legible(drawScreenSystem(v))
    /\ FullPack(v) \/ Legible(drawScreenBattery(v))
    /\ \A b \in {drawBatteryIconFill(v.soc)} : b.h \in 0..IconInner.h /\ b.y >= IconInner.y /\ b.y + b.h = IconInner.y + IconInner.h
    /\ Legible(drawBadPsu) /\ \A len \in 1..10, fw \in BOOLEAN : Legible(drawNetAlert(len, fw))
    /\ LongLost(v) \/ Legible(drawNoUps(v.lost))

\* Charge and voltage go together.
SocRight(bv) == voltageToSoc(bv) \in 0..100 /\ voltageToSoc(bv) <= voltageToSoc(bv + 1)
                /\ voltageToSoc(bv + 1) - voltageToSoc(bv) <= 1

\* The prompts and menus are legible, no row of a menu is cut but the one of
\* CutScreens, and the cursor stays in view.
MenusLegible(v) ==
    /\ \A s \in DOMAIN LocalRows(v) : Fitting(LocalRows(v)[s]) /\ Legible(Clipped(LocalRows(v)[s]))
    /\ \A s \in DOMAIN EspRows : (s \in CutScreens \/ Fitting(EspRows[s])) /\ Legible(Clipped(EspRows[s]))
    /\ \A n \in 1..8, cursor \in 0..7 : cursor < n => cursor \in render_list(n, cursor) /\ Cardinality(render_list(n, cursor)) = Min({n, SCR_ROWS})
    /\ Legible(FingerprintCheck) /\ Legible(draw_wallet_hex) /\ Legible(draw_wallet_qr)
    /\ \A idlen \in 0..((SCR_ROWS - 1) * SCR_COLS) :
         Legible(claimId(idlen)) /\ MapThenSumSet(LAMBDA b : b.w, claimId(idlen)) = 6 * (3 + idlen)
    /\ \A secs \in {2, 5} : \A left \in {SecondsLeft(1000 * secs, 1000 * secs - v.togo)} : left \in 0..secs /\ Legible(draw_countdown(left))
BalanceLegible(v) == Fitting(bal_format(v))
-----------------------------------------------------------------------------
\* Texts broken into rows.  A prompt is a sequence of words (their lengths)
\* and newlines (0); a character is <<word, place>>.
Space == <<0, 0>>
Letters(i, n) == [k \in 1..n |-> <<i, k>>]
WontFitTight(col, wl) == col # 0 /\ col + wl > SCR_COLS
WontFit(col, wl) == col # 0 /\ col + 1 + wl > SCR_COLS
wrap_lines(text, max_lines) ==
    LET Break(lines) == Append(lines, <<>>)
        Onto(lines, chars) == [lines EXCEPT ![Len(lines)] = @ \o chars]
        Split[n \in Nat, i \in Nat, k \in Nat] ==      \* the rows of a word longer than a row, from its k-th letter
          IF n - k < SCR_COLS THEN <<SubSeq(Letters(i, n), k, n)>>
          ELSE <<SubSeq(Letters(i, n), k, k + SCR_COLS - 1)>> \o Split[n, i, k + SCR_COLS]
        Word(lines, i) ==
          LET onto == IF WontFit(Len(Last(lines)), text[i]) THEN Break(lines) ELSE lines
          IN IF text[i] > SCR_COLS THEN Front(onto) \o Split[text[i], i, 1]
             ELSE Onto(onto, (IF Last(onto) # <<>> THEN <<Space>> ELSE <<>>) \o Letters(i, text[i]))
        all == FoldLeftDomain(LAMBDA lines, i : IF text[i] = 0 THEN Break(lines) ELSE Word(lines, i), <<<<>>>>, text)
    IN SubSeq(all, 1, Min({max_lines, Len(all)}))
draw_paged(lines, page) == SubSeq(lines, page * SCR_ROWS + 1, Min({(page + 1) * SCR_ROWS, Len(lines)}))
Pages(lines) == (Len(lines) + SCR_ROWS - 1) \div SCR_ROWS

\* Every word is on the pages, whole if it fits a row, in its order; no row is
\* too long; and without newlines the rows are as few as MAX_LINES counts on.
PromptKept(text) ==
    LET lines == wrap_lines(text, 99)
        shown == FlattenSeq([p \in 1..Pages(lines) |-> draw_paged(lines, p - 1)])
        bytes == FoldLeft(LAMBDA a, n : a + (IF n = 0 THEN 1 ELSE n), 0, text) + Cardinality({i \in 2..Len(text) : text[i] # 0 /\ text[i - 1] # 0})
    IN /\ shown = lines /\ \A l \in DOMAIN lines : Len(lines[l]) <= SCR_COLS
       /\ SelectSeq(FlattenSeq(lines), LAMBDA c : c # Space) = FlattenSeq([i \in DOMAIN text |-> Letters(i, text[i])])
       /\ \A i \in DOMAIN text : text[i] \in 1..SCR_COLS =>
            \E l \in DOMAIN lines : \E k \in 0..(Len(lines[l]) - text[i]) : SubSeq(lines[l], k + 1, k + text[i]) = <<>> \o Letters(i, text[i])
       /\ 0 \notin Range(text) => Len(lines) <= 2 * ((bytes + 1) \div (SCR_COLS + 2)) + 1

\* A notice is a sequence of characters: a letter, a newline, another control
\* character or one that is drawn as "?".
drawInfoNotice(text) ==
    LET Step(s, i) ==
          IF s.row >= SCR_ROWS \/ text[i] = "control" THEN s
          ELSE IF text[i] = "newline" THEN [s EXCEPT !.row = @ + 1, !.col = 0]
          ELSE LET r == IF s.col = SCR_COLS THEN s.row + 1 ELSE s.row
                   c == IF s.col = SCR_COLS THEN 0 ELSE s.col
               IN IF r >= SCR_ROWS THEN [s EXCEPT !.row = r]
                  ELSE [row |-> r, col |-> c + 1, cells |-> Append(s.cells, <<i, r, c>>)]
    IN FoldLeftDomain(Step, [row |-> 0, col |-> 0, cells |-> <<>>], text).cells
\* Everything is drawn inside the panel, in reading order, nothing twice in
\* one place, and what is dropped comes after all that is drawn.
NoticeKept(text) ==
    LET cells == drawInfoNotice(text)
        visible == SelectSeq([i \in DOMAIN text |-> i], LAMBDA i : text[i] \notin {"newline", "control"})
    IN /\ \A k \in DOMAIN cells : cells[k][1] = visible[k] /\ cells[k][2] < SCR_ROWS /\ cells[k][3] < SCR_COLS
       /\ \A k \in 2..Len(cells) : cells[k][2] * SCR_COLS + cells[k][3] > cells[k - 1][2] * SCR_COLS + cells[k - 1][3]
       /\ ("newline" \notin Range(text) /\ Len(visible) <= SCR_ROWS * SCR_COLS) => Len(cells) = Len(visible)
=============================================================================
