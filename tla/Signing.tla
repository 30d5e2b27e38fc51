------------------------------- MODULE Signing -------------------------------
(***************************************************************************)
(* micro-ecc (uECC.c, curve-specific.inc) and the keys, shared secrets and *)
(* signatures arkiv_crypto makes of it (secp256k1.c).                      *)
(*                                                                         *)
(* First its long integers: sequences of words, the lowest first, with     *)
(* carries and borrows told from the words that wrapped, the products      *)
(* column by column, the reductions modulo the order and modulo the prime  *)
(* p = 2^Bits - 2^WordBits - C0 of secp256k1's form, and the inverse.      *)
(* Words of two or three bits, so that every pair of numbers can be tried. *)
(*                                                                         *)
(* Then the curve, on a small one of the same form: y^2 = x^3 + B over a   *)
(* prime P_, of prime order N_ < P_, both of NBits bits.  A long integer   *)
(* is its value there: LongIntegersRight shows that the words compute it.  *)
(*                                                                         *)
(* Last what is signed, a transaction of the Arkiv writer as bytes: RLP    *)
(* (rlp.cpp), the operations on entities (ops_tx_data.cpp), wrapped in a   *)
(* Brotli stream that stores them (brotli_store.cpp), inside an EIP-155    *)
(* legacy transaction (tx_signer.cpp), read back by a strict decoder of    *)
(* each format.                                                            *)
(***************************************************************************)
EXTENDS Integers, SequencesExt

CONSTANTS WordBits, Words, C0,
          Order,        \* an odd modulus that fills the words
          LenBits,      \* 16: four nibbles of a chunk's MLEN - 1
          Seconds       \* 2^32: the range of expiresInSeconds

WordBase == 2^WordBits
Bits == WordBits * Words
Prime == 2^Bits - WordBase - C0

-----------------------------------------------------------------------------
The(S) == CHOOSE e \in S : TRUE     \* of a singleton
Vli(x, len) == <<>> \o [i \in 1..len |-> (x \div WordBase^(i - 1)) % WordBase]
Value(v) == LET s[i \in 0..Len(v)] == IF i = 0 THEN 0 ELSE s[i - 1] + v[i] * WordBase^(i - 1) IN s[Len(v)]
Zero == Vli(0, Words)
One == Vli(1, Words)
pWords == Vli(Prime, Words)
nWords == Vli(Order, Words)

isZero(v) == \A i \in DOMAIN v : v[i] = 0
EVEN(v) == v[1] % 2 = 0
numDigits(v) == Max({0} \cup {i \in DOMAIN v : v[i] # 0})
numBits(v) == IF numDigits(v) = 0 THEN 0
              ELSE (numDigits(v) - 1) * WordBits + Min({i \in 1..WordBits : v[numDigits(v)] < 2^i})
cmp_unsafe(l, r) == LET d == {i \in DOMAIN l : l[i] # r[i]}
                    IN IF d = {} THEN 0 ELSE IF l[Max(d)] > r[Max(d)] THEN 1 ELSE -1
equal(l, r) == \A i \in DOMAIN l : l[i] = r[i]

rshift1(v) == <<>> \o [i \in DOMAIN v |-> (v[i] \div 2) + (IF i < Len(v) THEN (v[i + 1] % 2) * (WordBase \div 2) ELSE 0)]

\* Result and carry (borrow): the carry is told from the sum being smaller
\* than the operand, and stays what it was when they are equal.
add(l, r) ==
    LET Word(q, i, sum) == [w |-> Append(q.w, sum), carry |-> IF sum = l[i] THEN q.carry ELSE IF sum < l[i] THEN 1 ELSE 0]
        s[i \in 0..Len(l)] == IF i = 0 THEN [w |-> <<>>, carry |-> 0]
                              ELSE The({Word(q, i, (l[i] + r[i] + q.carry) % WordBase) : q \in {s[i - 1]}})
    IN s[Len(l)]
sub(l, r) ==
    LET Word(q, i, diff) == [w |-> Append(q.w, diff), borrow |-> IF diff = l[i] THEN q.borrow ELSE IF diff > l[i] THEN 1 ELSE 0]
        s[i \in 0..Len(l)] == IF i = 0 THEN [w |-> <<>>, borrow |-> 0]
                              ELSE The({Word(q, i, (l[i] - r[i] - q.borrow) % WordBase) : q \in {s[i - 1]}})
    IN s[Len(l)]
cmp(l, r) == LET d == sub(l, r) IN (IF isZero(d.w) THEN 0 ELSE 1) - 2 * d.borrow

\* Products, column by column, in an accumulator of three words.
muladd(x, y, r) == LET q == x * y
                       r01 == (r[2] * WordBase + r[1] + q) % (WordBase * WordBase)
                   IN <<r01 % WordBase, r01 \div WordBase, (r[3] + (IF r01 < q THEN 1 ELSE 0)) % WordBase>>
mul2add(x, y, r) == LET q == (2 * x * y) % (WordBase * WordBase)
                        r01 == (r[2] * WordBase + r[1] + q) % (WordBase * WordBase)
                    IN <<r01 % WordBase, r01 \div WordBase,
                         (r[3] + ((x * y) \div ((WordBase * WordBase) \div 2)) + (IF r01 < q THEN 1 ELSE 0)) % WordBase>>
NoColumns == [w |-> <<>>, r |-> <<0, 0, 0>>]
NextColumn(q, acc) == [w |-> Append(q.w, acc[1]), r |-> <<acc[2], acc[3], 0>>]
Product(q) == Append(q.w, q.r[1])
mult(l, r) ==
    LET Column(k, acc) ==
          LET lo == Max({0, k + 1 - Words})
              s[i \in (lo - 1)..Min({k, Words - 1})] == IF i = lo - 1 THEN acc ELSE muladd(l[i + 1], r[k - i + 1], s[i - 1])
          IN s[Min({k, Words - 1})]
        c[k \in -1..(2 * Words - 2)] ==
          IF k = -1 THEN NoColumns ELSE The({NextColumn(q, Column(k, q.r)) : q \in {c[k - 1]}})
    IN Product(c[2 * Words - 2])
square(l) ==
    LET Column(k, acc) ==
          LET lo == IF k < Words THEN 0 ELSE k + 1 - Words
              s[i \in (lo - 1)..(k \div 2)] ==
                IF i = lo - 1 THEN acc
                ELSE IF i < k - i THEN mul2add(l[i + 1], l[k - i + 1], s[i - 1]) ELSE muladd(l[i + 1], l[k - i + 1], s[i - 1])
          IN s[k \div 2]
        c[k \in -1..(2 * Words - 2)] ==
          IF k = -1 THEN NoColumns ELSE The({NextColumn(q, Column(k, q.r)) : q \in {c[k - 1]}})
    IN Product(c[2 * Words - 2])

-----------------------------------------------------------------------------
\* Arithmetic modulo p and n.
modAdd(l, r, mod) == LET s == add(l, r) IN IF s.carry = 1 \/ cmp_unsafe(mod, s.w) # 1 THEN sub(s.w, mod).w ELSE s.w
modSub(l, r, mod) == LET d == sub(l, r) IN IF d.borrow = 1 THEN add(d.w, mod).w ELSE d.w

\* Subtract the modulus shifted to the top, then shifted one less, ...
mmod(product, mod) ==
    LET shift == 2 * Words * WordBits - numBits(mod)
        top == Vli(Value(mod) * 2^shift, 2 * Words)
        v[i \in -1..shift] ==
          IF i = -1 THEN [v |-> product, m |-> top]
          ELSE The({[v |-> IF d.borrow = 0 THEN d.w ELSE q.v, m |-> rshift1(q.m)] :
                    <<q, d>> \in {<<q, sub(q.v, q.m)>> : q \in {v[i - 1]}}})
    IN SubSeq(v[shift].v, 1, Words)
modMult(l, r, mod) == mmod(mult(l, r), mod)

\* p = 2^Bits - c: the upper half counts c times.
omega_mult(right) ==
    LET low == Vli(C0 * Value(right), Words + 1)
        s == add(Tail(low), right)
    IN <<low[1]>> \o s.w \o <<s.carry>>
mmod_fast(product) ==
    LET q == omega_mult(SubSeq(product, Words + 1, 2 * Words))
        s1 == add(SubSeq(product, 1, Words), SubSeq(q, 1, Words))
        rest == omega_mult(SubSeq(q \o Vli(0, Words), Words + 1, 2 * Words))
        s2 == add(s1.w, SubSeq(rest, 1, Words))
        w[c \in 0..2] == IF c = 0 THEN s2.w ELSE sub(w[c - 1], pWords).w
        r == w[s1.carry + s2.carry]
    IN IF cmp_unsafe(r, pWords) > 0 THEN sub(r, pWords).w ELSE r
modMult_fast(l, r) == mmod_fast(mult(l, r))
modSquare_fast(l) == mmod_fast(square(l))

modInv_update(uv, mod) ==
    LET s == IF EVEN(uv) THEN [w |-> uv, carry |-> 0] ELSE add(uv, mod)
        h == rshift1(s.w)
    IN [h EXCEPT ![Words] = @ + s.carry * (WordBase \div 2)]
modInv(input, mod) ==
    LET Less(x, y) == IF cmp_unsafe(x, y) < 0 THEN add(x, mod).w ELSE x
        St(x, y, u, v) == [x |-> x, y |-> y, u |-> u, v |-> v]
        Step(t) == CASE EVEN(t.x) -> St(rshift1(t.x), t.y, modInv_update(t.u, mod), t.v)
                     [] ~EVEN(t.x) /\ EVEN(t.y) -> St(t.x, rshift1(t.y), t.u, modInv_update(t.v, mod))
                     [] ~EVEN(t.x) /\ ~EVEN(t.y) /\ cmp_unsafe(t.x, t.y) > 0 ->
                          St(rshift1(sub(t.x, t.y).w), t.y, modInv_update(sub(Less(t.u, t.v), t.v).w, mod), t.v)
                     [] OTHER -> St(t.x, rshift1(sub(t.y, t.x).w), t.u, modInv_update(sub(Less(t.v, t.u), t.u).w, mod))
        Loop[i \in 0..(2 * Bits)] == IF i = 0 THEN St(input, mod, One, Zero)
                                     ELSE The({IF t.x = t.y THEN t ELSE Step(t) : t \in {Loop[i - 1]}})
    IN IF isZero(input) THEN Zero ELSE Loop[2 * Bits].u
-----------------------------------------------------------------------------
\* Numbers as bytes, the highest first; a byte is one bit here.
WordSize == WordBits
nativeToBytes(v) == <<>> \o [i \in 1..Bits |-> (v[((Bits - i) \div WordSize) + 1] \div 2^((Bits - i) % WordSize)) % 2]
bytesToNative(bytes) == <<>> \o [j \in 1..Words |-> MapThenSumSet(LAMBDA i : bytes[Bits - i] * 2^(i % WordSize),
                                                        ((j - 1) * WordSize)..(j * WordSize - 1))]

-----------------------------------------------------------------------------
IsInverse(i, x, m) == i \in 0..(m - 1) /\ (i * x) % m = 1 % m

\* mmod_fast drops a bit when the folded sum is all but 2^(Bits + 1): on the
\* real curve, one product in 2^222.
Folds(x) == LET c == WordBase + C0
                q == (x \div 2^Bits) * c
            IN (x % 2^Bits) + (q % 2^Bits) + (q \div 2^Bits) * c
FoldsWhole(x) == Folds(x) < 2 * 2^Bits - (WordBase + C0) \/ Folds(x) >= 2 * 2^Bits

\* Every operation agrees with the integers for every pair of numbers, at and
\* around every carry, borrow and wrap.
LongIntegersRight(x, y) ==
    LET vx == Vli(x, Words)
        vy == Vli(y, Words)
    IN /\ Value(mult(vx, vy)) = x * y /\ Value(square(vx)) = x * x
       /\ cmp(vx, vy) = cmp_unsafe(vx, vy) /\ cmp(vx, vy) = (IF x = y THEN 0 ELSE IF x < y THEN -1 ELSE 1)
       /\ equal(vx, vy) <=> (x = y)
       /\ bytesToNative(nativeToBytes(vx)) = vx
       /\ (x < Prime /\ y < Prime) => /\ FoldsWhole(x * y) => Value(modMult_fast(vx, vy)) = (x * y) % Prime
                                    /\ Value(modAdd(vx, vy, pWords)) = (x + y) % Prime
                                    /\ Value(modSub(vx, vy, pWords)) = (x - y) % Prime
       /\ (x < Order /\ y < Order) => Value(modMult(vx, vy, nWords)) = (x * y) % Order
       /\ \A m \in {Prime, Order} : (y = 0 /\ x \in 1..(m - 1)) => IsInverse(Value(modInv(vx, Vli(m, Words))), x, m)

-----------------------------------------------------------------------------
(* The curve. *)

CONSTANTS P_, N_, NBits, B, Gx, Gy

Point(x, y) == [x |-> x, y |-> y]
G == Point(Gx, Gy)
Infinity == Point(0, 0)

bitOf(v, i) == (v \div 2^i) % 2 = 1
bitsOf(v) == Min({i \in 0..NBits : v < 2^i})
modInverses(m) == [a \in 0..(m - 1) |-> IF a = 0 THEN 0 ELSE CHOOSE i \in 1..(m - 1) : (a * i) % m = 1]
InvP == modInverses(P_)
InvN == modInverses(N_)

-----------------------------------------------------------------------------
\* A Montgomery ladder over points that share their z (co-Z).
apply_z(q, z) == Point((q.x * ((z * z) % P_)) % P_, (q.y * ((((z * z) % P_) * z) % P_)) % P_)
double_jacobian(q, z) ==
    LET y2 == (q.y * q.y) % P_
        a == (q.x * y2) % P_
        t == (3 * q.x * q.x) % P_
        h == (IF t % 2 = 0 THEN t ELSE t + P_) \div 2
        x3 == (h * h - 2 * a) % P_
    IN IF z = 0 THEN [q |-> q, z |-> z]
       ELSE [q |-> Point(x3, (h * (a - x3) - y2 * y2) % P_), z |-> (q.y * z) % P_]
\* 2P, and P with the same z
XYcZ_initial_double(q, z) == LET d == double_jacobian(apply_z(q, z), z) IN [dbl |-> d.q, q |-> apply_z(q, d.z)]
\* P', P + Q and the difference of their x
XYcZ_add(q1, q2) ==
    LET a == ((q2.x - q1.x) * (q2.x - q1.x)) % P_
        x1 == (q1.x * a) % P_
        c == (q2.x * a) % P_
        dy == (q2.y - q1.y) % P_
        x3 == (dy * dy - x1 - c) % P_
        y1 == (q1.y * ((c - x1) % P_)) % P_
        s == (x1 - x3) % P_
    IN [q |-> Point(x1, y1), sum |-> Point(x3, (dy * s - y1) % P_), sub |-> s]
\* P - Q and P + Q, from the difference of their x
XYcZ_addC(q1, q2, s) ==
    LET a == (s * s) % P_
        x1 == (q1.x * a) % P_
        c == (q2.x * a) % P_
        sy == (q2.y + q1.y) % P_
        dy == (q2.y - q1.y) % P_
        e == (q1.y * ((c - x1) % P_)) % P_
        x3 == (dy * dy - (x1 + c)) % P_
        xd == (sy * sy - (x1 + c)) % P_
    IN [diff |-> Point(xd, (((xd - x1) % P_) * sy - e) % P_), sum |-> Point(x3, (dy * ((x1 - x3) % P_) - e) % P_)]

EccPoint_mult(point, scalar, z0, num_bits) ==
    LET first == XYcZ_initial_double(point, z0)
        \* one bit of the scalar; the two points change places with it
        AddC(st, i) == IF bitOf(scalar, i) THEN XYcZ_addC(st.r1, st.r0, st.sub) ELSE XYcZ_addC(st.r0, st.r1, st.sub)
        Add(i, d) == LET a == XYcZ_add(d.sum, d.diff)
                     IN IF bitOf(scalar, i) THEN [r0 |-> a.q, r1 |-> a.sum, sub |-> a.sub]
                                              ELSE [r0 |-> a.sum, r1 |-> a.q, sub |-> a.sub]
        Ladder[i \in 1..(num_bits - 1)] ==       \* after the bits from i upwards
          IF i = num_bits - 1 THEN [r0 |-> first.q, r1 |-> first.dbl, sub |-> (first.q.x - first.dbl.x) % P_]
          ELSE The({Add(i, d) : d \in {AddC(st, i) : st \in {Ladder[i + 1]}}})
        last == The({AddC(st, 0) : st \in {Ladder[1]}})
        x1x0 == IF bitOf(scalar, 0) THEN last.diff.x - last.sum.x ELSE last.sum.x - last.diff.x
        inv == InvP[(((((x1x0 % P_) * last.diff.y) % P_) * point.x) % P_)]
        z == (((inv * point.y) % P_) * last.diff.x) % P_
    IN apply_z(Add(0, last).r0, z)

\* The scalar plus n or plus 2n, whichever has one bit more than n; the top
\* bit is the carry and is not stored.
regularize_k(k) == IF k + N_ >= 2^NBits THEN (k + N_) % 2^NBits ELSE (k + 2 * N_) % 2^NBits
point_mult(point, scalar) == EccPoint_mult(point, regularize_k(scalar), 1, NBits + 1)   \* no RNG is set: z = 1

-----------------------------------------------------------------------------
\* Keys, shared secrets and signatures.
valid_point(q) == /\ q # Infinity /\ q.x < P_ /\ q.y < P_
                  /\ (q.y * q.y) % P_ = (((q.x * q.x) % P_) * q.x + B) % P_
compute_public_key(d) == IF d \in 1..(N_ - 1) THEN point_mult(G, d) ELSE Infinity   \* Infinity: refused
ecdh(private, public) ==
    IF ~valid_point(public) THEN [rc |-> -1, x |-> 0]
    ELSE LET s == point_mult(public, private) IN [rc |-> IF s = Infinity THEN -2 ELSE 0, x |-> s.x]

bytes32_to_scalar_mod_n(v) == IF v >= N_ THEN v - N_ ELSE v
\* One candidate k: r from the point, s in the lower half, and which of the
\* points with that r it was.
CandidateUnflipped(k, d, z) ==
    LET R == The({point_mult(G, e) : e \in {k}})
        r == bytes32_to_scalar_mod_n(R.x)
        s == (InvN[k] * ((z + r * d) % N_)) % N_
    IN [ok |-> r # 0 /\ s # 0, r |-> r, s |-> IF s > N_ \div 2 THEN N_ - s ELSE s,
        recid |-> (IF R.y % 2 = 1 THEN 1 ELSE 0) + (IF R.x >= N_ THEN 2 ELSE 0)]
Candidate(k, d, z) ==
    LET R == The({point_mult(G, e) : e \in {k}})
        r == bytes32_to_scalar_mod_n(R.x)
        s == (InvN[k] * ((z + r * d) % N_)) % N_
        high == s > N_ \div 2
    IN [ok |-> r # 0 /\ s # 0, r |-> r, s |-> IF high THEN N_ - s ELSE s,
        recid |-> (IF (R.y % 2 = 1) # high THEN 1 ELSE 0) + (IF R.x >= N_ THEN 2 ELSE 0)]
Failure(rc) == [ok |-> FALSE, r |-> 0, s |-> 0, recid |-> rc]
\* The candidates ts come from RFC 6979's generator, reseeded after each one
\* that is of no use.
sign_recoverable(d, digest, ts) ==
    LET z == bytes32_to_scalar_mod_n(digest)
        usable == {i \in DOMAIN ts : ts[i] \in 1..(N_ - 1) /\ Candidate(ts[i], d, z).ok}
    IN IF d = 0 THEN Failure(-1) ELSE IF d >= N_ THEN Failure(-2)
       ELSE IF usable = {} THEN Failure(-3) ELSE Candidate(ts[Min(usable)], d, z)

\* u1 G + u2 Q by Shamir's trick.  A digest as long as n is not reduced first.
bits2int(digest) == digest
uECC_verify(public, digest, sig) ==
    LET u1 == (bits2int(digest) * InvN[sig.s]) % N_
        u2 == (sig.r * InvN[sig.s]) % N_
        both == apply_z(XYcZ_add(G, public).sum, InvP[(public.x - G.x) % P_])
        points == <<G, public, both>>
        Index(i) == (IF bitOf(u1, i) THEN 1 ELSE 0) + (IF bitOf(u2, i) THEN 2 ELSE 0)
        num_bits == Max({bitsOf(u1), bitsOf(u2)})
        Added(d, t) == [q |-> XYcZ_add(t, d.q).sum, z |-> (d.z * ((d.q.x - t.x) % P_)) % P_]
        Sum[i \in 0..(num_bits - 1)] ==
          IF i = num_bits - 1 THEN [q |-> points[Index(i)], z |-> 1]
          ELSE The({IF Index(i) = 0 THEN d ELSE Added(d, apply_z(points[Index(i)], d.z)) :
                    d \in {double_jacobian(st.q, st.z) : st \in {Sum[i + 1]}}})
        v == The({apply_z(st.q, InvP[st.z]).x : st \in {Sum[0]}})
    IN /\ sig.r \in 1..(N_ - 1) /\ sig.s \in 1..(N_ - 1)
       /\ bytes32_to_scalar_mod_n(v) = sig.r

-----------------------------------------------------------------------------
\* What it should be: the group in affine coordinates.
None == <<-1, -1>>
Plus(q1, q2) ==
    LET slope == IF q1 = q2 THEN (3 * q1[1] * q1[1] * InvP[(2 * q1[2]) % P_]) % P_
                 ELSE ((q2[2] - q1[2]) * InvP[(q2[1] - q1[1]) % P_]) % P_
        x == (slope * slope - q1[1] - q2[1]) % P_
    IN IF q1 = None THEN q2 ELSE IF q2 = None THEN q1
       ELSE IF q1[1] = q2[1] /\ (q1[2] + q2[2]) % P_ = 0 THEN None
       ELSE <<x, (slope * (q1[1] - x) - q1[2]) % P_>>
Table[i \in 0..NBits] ==           \* the first 2^i multiples of G
    IF i = 0 THEN <<<<Gx, Gy>>>>
    ELSE The({t \o [k \in 1..Len(t) |-> Plus(t[k], t[Len(t)])] : t \in {Table[i - 1]}})
Multiples == SubSeq(Table[NBits], 1, N_ - 1)
Times(k) == IF k % N_ = 0 THEN None ELSE Multiples[k % N_]
Pub(k) == Point(Times(k)[1], Times(k)[2])

\* On the way to k the ladder needs a point it has no coordinates for:
\* the key is refused.
Unreachable == {1, N_ - 2, N_ - 1}

\* Every private key but those has its public key, a point of the curve, and
\* two parties agree on the secret.
KeysRight(d, e) ==
    /\ compute_public_key(d) = IF d \in 1..(N_ - 1) \ Unreachable THEN Pub(d) ELSE Infinity
    /\ {d, e} \subseteq 1..(N_ - 1) \ Unreachable =>
         /\ valid_point(Pub(d)) /\ ecdh(d, Pub(e)) = ecdh(e, Pub(d)) /\ ecdh(d, Pub(e)) = [rc |-> 0, x |-> Times(d * e)[1]]

\* A point is accepted as somebody's key exactly if it is a point of the curve.
PointsRight(x, y) == valid_point(Point(x, y)) <=> \E k \in 1..(N_ - 1) : Multiples[k] = <<x, y>>

\* The key anybody recovers from a signature: the point R it names, and
\* (s R - z G) / r.
Recovered(sig, z) ==
    LET x == IF sig.recid >= 2 THEN sig.r + N_ ELSE sig.r
        k == CHOOSE k \in 1..(N_ - 1) : Multiples[k][1] = x /\ Multiples[k][2] % 2 = sig.recid % 2
    IN Times(((sig.s * k - z) % N_) * InvN[sig.r])

\* The verifier's sum meets two points with the same x: chance on the small
\* curve, out of reach on the real one, and not handled by the code.
Coincides(d, digest, sig) ==
    LET u1 == (digest * InvN[sig.s]) % N_
        u2 == (sig.r * InvN[sig.s]) % N_
        Prefix(i) == ((u1 \div 2^i) + (u2 \div 2^i) * d) % N_
        Bit(i) == ((u1 \div 2^i) % 2) + (((u2 \div 2^i) % 2) * d)
        top == Max({i \in 0..NBits : u1 \div 2^i > 0 \/ u2 \div 2^i > 0})
    IN \/ d \in {1, N_ - 1}
       \/ \E i \in 0..(top - 1) : Prefix(i + 1) = 0
       \/ \E i \in 0..(top - 1) : Bit(i) # 0 /\ 0 \in {(2 * Prefix(i + 1) - Bit(i)) % N_, (2 * Prefix(i + 1) + Bit(i)) % N_}

\* What sign_recoverable returns passes the device's own verifier, is in the
\* lower half, and names the signer; it does not pass for another digest.  It
\* gives up only if no candidate was of use.
SignatureRight(d, digest, ts) ==
    LET sig == sign_recoverable(d, digest, ts)
        other == (digest + 1) % 2^NBits
        distinct == other % N_ # digest % N_ /\ (digest + other + 2 * sig.r * d) % N_ # 0
    IN /\ d \notin 1..(N_ - 1) => sig.recid < 0
       /\ sig.recid >= 0 =>
            /\ 2 * sig.s < N_ /\ Recovered(sig, digest) = Times(d)
            /\ ~Coincides(d, digest, sig) => uECC_verify(Pub(d), digest, sig)
            /\ (distinct /\ ~Coincides(d, other, sig)) => ~uECC_verify(Pub(d), other, sig)
       /\ (d \in 1..(N_ - 1) /\ sig.recid < 0) =>
            \A i \in DOMAIN ts : ts[i] \in 1..(N_ - 1) \ Unreachable =>
                LET x == Times(ts[i])[1] % N_ IN x = 0 \/ (digest + x * d) % N_ = 0

-----------------------------------------------------------------------------
(* Transactions *)
kMaxChunk == 2^LenBits

\* The bytes of n, the highest first, without leading zeros.
BigEndian[n \in Nat] == IF n = 0 THEN <<>> ELSE Append(BigEndian[n \div 256], n % 256)

emit_lengthLate(len, short, long) ==
    IF len <= 56 THEN <<short + len>> ELSE <<long + Len(BigEndian[len])>> \o BigEndian[len]
emit_length(len, short, long) ==
    IF len < 56 THEN <<short + len>> ELSE <<long + Len(BigEndian[len])>> \o BigEndian[len]
encode_bytes(data) == IF Len(data) = 1 /\ data[1] < 128 THEN data ELSE emit_length(Len(data), 128, 183) \o data
encode_uint(value) == IF value = 0 THEN <<128>> ELSE encode_bytes(BigEndian[value])
encode_list_raw(children) == emit_length(Len(children), 192, 247) \o children
\* A ListEncoder to which each of these encodings was appended.
finish(encoded) == encode_list_raw(FlattenSeq(encoded))

-----------------------------------------------------------------------------
seconds_to_blocks(s) == ((s + 1) % Seconds) \div 2
attribute_pair(a) ==
    finish(<<encode_bytes(a.key), IF ~a.numeric THEN encode_bytes(a.text)
                                  ELSE IF a.number = 0 THEN encode_bytes(<<>>) ELSE encode_uint(a.number)>>)
encode_attribute_list(attrs, numeric) ==
    LET those == SelectSeq(attrs, LAMBDA a : a.numeric = numeric)
    IN finish([i \in DOMAIN those |-> attribute_pair(those[i])])
Attributes(attrs) == <<encode_attribute_list(attrs, FALSE), encode_attribute_list(attrs, TRUE)>>

encode_create(c) == finish(<<encode_uint(seconds_to_blocks(c.expires)), encode_bytes(c.type), encode_bytes(c.payload)>> \o Attributes(c.attributes))
encode_update(u) == finish(<<encode_bytes(u.entity), encode_bytes(u.type), encode_uint(seconds_to_blocks(u.expires)), encode_bytes(u.payload)>>
                           \o Attributes(u.attributes))
encode_extension(e) == finish(<<encode_bytes(e.entity), encode_uint(seconds_to_blocks(e.expires))>>)
encode_ownership_change(o) == finish(<<encode_bytes(o.entity), encode_bytes(o.owner)>>)
Each(Op(_), ops) == finish([i \in DOMAIN ops |-> Op(ops[i])])
ops_rlp(ops) == finish(<<Each(encode_create, ops.creates), Each(encode_update, ops.updates), Each(encode_bytes, ops.deletes),
                         Each(encode_extension, ops.extensions), Each(encode_ownership_change, ops.ownership)>>)

-----------------------------------------------------------------------------
\* A BitWriter: the bits of its bytes, the lowest of each byte first.
write_bits(value, n) == [i \in 1..n |-> (value \div 2^(i - 1)) % 2]
align_to_byte(bits) == bits \o [i \in 1..((8 - (Len(bits) % 8)) % 8) |-> 0]
BitsOf(bytes) == FlattenSeq([i \in DOMAIN bytes |-> write_bits(bytes[i], 8)])
Sum8(b) == b[1] + 2*b[2] + 4*b[3] + 8*b[4] + 16*b[5] + 32*b[6] + 64*b[7] + 128*b[8]
BytesOf(bits) == [i \in 1..(Len(bits) \div 8) |-> Sum8(SubSeq(bits, (8*i) - 7, 8*i))]

write_uncompressed_chunk(data) ==
    <<0>> \o write_bits(0, 2) \o write_bits(Len(data) - 1, LenBits) \o <<1>>
Chunks(n) == (n + kMaxChunk - 1) \div kMaxChunk
Chunk(input, i) == SubSeq(input, ((i - 1) * kMaxChunk) + 1, IF i * kMaxChunk < Len(input) THEN i * kMaxChunk ELSE Len(input))
brotli_store_encode(input) ==
    LET header(i) == align_to_byte((IF i = 1 THEN <<0>> ELSE <<>>) \o write_uncompressed_chunk(Chunk(input, i)))
        stored == FlattenSeq([i \in 1..Chunks(Len(input)) |-> BytesOf(header(i)) \o Chunk(input, i)])
    IN stored \o BytesOf(align_to_byte((IF input = <<>> THEN <<0>> ELSE <<>>) \o <<1, 1>>))
build_ops_tx_data(ops) == brotli_store_encode(ops_rlp(ops))

-----------------------------------------------------------------------------
\* The first byte that is not zero, or past the end.
FirstDigit(b) == IF \E i \in DOMAIN b : b[i] # 0 THEN SelectInSeq(b, LAMBDA d : d # 0) ELSE Len(b) + 1
strip_leading_zeros(b) == SubSeq(b, FirstDigit(b), Len(b))
encode_tx_fields(tx) == <<encode_uint(tx.nonce), encode_uint(tx.gas_price), encode_uint(tx.gas_limit), encode_bytes(tx.to),
                          encode_uint(tx.value), encode_bytes(tx.data)>>
preimage(tx) == finish(encode_tx_fields(tx) \o <<encode_uint(tx.chain_id), encode_uint(0), encode_uint(0)>>)
\* What is sent, given the signature of the preimage.
sign_legacy_tx(tx, sig) ==
    finish(encode_tx_fields(tx) \o <<encode_uint((tx.chain_id * 2) + 35 + sig.recid),
                                     encode_bytes(strip_leading_zeros(sig.r)), encode_bytes(strip_leading_zeros(sig.s))>>)

-----------------------------------------------------------------------------
(* The readers.  An item is a string of bytes or a list of items; what is  *)
(* not the one encoding of something is Bad.                               *)
String(b) == [list |-> FALSE, bytes |-> b, items |-> <<>>]
List(items) == [list |-> TRUE, bytes |-> <<>>, items |-> items]
Number(n) == String(BigEndian[n])
Bad == [list |-> FALSE, bytes |-> <<-1>>, items |-> <<>>]
ValueOf(b) == FoldLeft(LAMBDA acc, d : (acc * 256) + d, 0, b)

\* Where the first item's contents start and end.
Shape(b) ==
    LET h == b[1]
        base == IF h < 192 THEN 128 ELSE 192
        n == h - base - 55                          \* bytes of the length
        long == SubSeq(b, 2, n + 1)
    IN CASE h < 128 -> [ok |-> TRUE, from |-> 1, to |-> 1]
         [] h >= 128 /\ n <= 0 -> [ok |-> ~(h = 129 /\ b[2] < 128), from |-> 2, to |-> 1 + h - base]
         [] OTHER -> [ok |-> long[1] # 0 /\ ValueOf(long) > 55, from |-> n + 2, to |-> n + 1 + ValueOf(long)]
RECURSIVE Items(_)
Items(b) ==
    IF b = <<>> THEN <<>>
    ELSE LET s == Shape(b)
         IN IF ~s.ok \/ s.to > Len(b) THEN <<Bad>>
            ELSE LET inside == SubSeq(b, s.from, s.to)
                 IN <<IF b[1] < 192 THEN String(inside) ELSE List(Items(inside))>> \o Items(SubSeq(b, s.to + 1, Len(b)))

\* RFC 7932, the meta-blocks a stored stream has; the stream's first bit is read.
Up8(i) == ((i + 7) \div 8) * 8
FieldAt(bits, i) == FoldLeft(LAMBDA acc, k : acc + (bits[i + k] * 2^k), 0, [k \in 1..LenBits |-> k - 1])
RECURSIVE MetaBlocks(_, _)
MetaBlocks(bits, i) ==
    IF bits[i] = 1 THEN (IF bits[i + 1] = 1 /\ Up8(i + 1) = Len(bits) THEN <<>> ELSE <<-1>>)
    ELSE LET len == FieldAt(bits, i + 3) + 1
             from == Up8(i + 3 + LenBits) \div 8
             bytes == BytesOf(SubSeq(bits, (8 * from) + 1, 8 * (from + len)))
         IN IF bits[i + 1] # 0 \/ bits[i + 2] # 0 \/ bits[i + 3 + LenBits] # 1 THEN <<-1>>
            ELSE bytes \o MetaBlocks(bits, (8 * (from + len)) + 1)
Unstore(bytes) == MetaBlocks(BitsOf(bytes), 2)

-----------------------------------------------------------------------------
\* What the node is to read of the operations.
Blocks(s) == Number((s \div 2) + (s % 2))
Pair(a) == List(<<String(a.key), IF a.numeric THEN Number(a.number) ELSE String(a.text)>>)
Pairs(attrs, numeric) == LET those == SelectSeq(attrs, LAMBDA a : a.numeric = numeric) IN List([i \in DOMAIN those |-> Pair(those[i])])
Meant(ops) == List(<<
    List([i \in DOMAIN ops.creates |-> LET c == ops.creates[i] IN
        List(<<Blocks(c.expires), String(c.type), String(c.payload), Pairs(c.attributes, FALSE), Pairs(c.attributes, TRUE)>>)]),
    List([i \in DOMAIN ops.updates |-> LET u == ops.updates[i] IN
        List(<<String(u.entity), String(u.type), Blocks(u.expires), String(u.payload), Pairs(u.attributes, FALSE), Pairs(u.attributes, TRUE)>>)]),
    List([i \in DOMAIN ops.deletes |-> String(ops.deletes[i])]),
    List([i \in DOMAIN ops.extensions |-> List(<<String(ops.extensions[i].entity), Blocks(ops.extensions[i].expires)>>)]),
    List([i \in DOMAIN ops.ownership |-> List(<<String(ops.ownership[i].entity), String(ops.ownership[i].owner)>>)])>>)

TxFields(tx) == <<Number(tx.nonce), Number(tx.gas_price), Number(tx.gas_limit), String(tx.to), Number(tx.value), String(tx.data)>>

\* The node reads the operations that were meant, at every length at which an
\* encoding changes, one chunk of the stream or several.
OpsRight(ops) == Items(Unstore(build_ops_tx_data(ops))) = <<Meant(ops)>>
\* Any bytes come out of the stream as they went in.
StoreRight(bytes) == Unstore(brotli_store_encode(bytes)) = bytes
\* Signer and node agree on what was signed, and the node finds chain, parity
\* and the signature's numbers in what was sent.
TxRight(tx, sig) ==
    /\ Items(preimage(tx)) = <<List(TxFields(tx) \o <<Number(tx.chain_id), Number(0), Number(0)>>)>>
    /\ Items(sign_legacy_tx(tx, sig)) =
           <<List(TxFields(tx) \o <<Number((2 * tx.chain_id) + 35 + sig.recid), Number(ValueOf(sig.r)), Number(ValueOf(sig.s))>>)>>
=============================================================================
