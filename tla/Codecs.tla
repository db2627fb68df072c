------------------------------- MODULE Codecs -------------------------------
(***************************************************************************)
(* The codecs of the session: RemoteFX (entropy coder, arithmetic,         *)
(* messages), NSCodec, and the bit reader of the bulk decompressor.        *)
(***************************************************************************)
EXTENDS Integers, Sequences, SequencesExt, Layout, FiniteSets

-----------------------------------------------------------------------------
(* The entropy coder of RemoteFX in libfreerdp-codec (rfx_rlgr.c over      *)
(* rfx_bitstream.h) and the difference coding of the lowest band.          *)
(*                                                                         *)
(* A bit stream is a sequence of 0 and 1; what is left of its last byte is *)
(* zero.  x >> n is x \div 2^n, which rounds down like the shift.          *)

GrParams == [KPMAX |-> 80, LSGR |-> 3, UP_GR |-> 4, DN_GR |-> 6, UQ_GR |-> 3, DQ_GR |-> 3]

Clamp(v, low, high) == IF v < low THEN low ELSE IF v > high THEN high ELSE v
UpdateParam(param, delta) == Clamp(param + delta, 0, GrParams.KPMAX)
Shift(param) == param \div 2^GrParams.LSGR

GetMinBits(v) == CHOOSE n \in 0 .. 17 : 2^n > v /\ (n = 0 \/ 2^(n - 1) <= v)
GetIntFrom2MagSign(twoMs) ==
    IF twoMs % 2 = 1 THEN 0 - ((twoMs + 1) \div 2) ELSE twoMs \div 2
Get2MagSign(input) == IF input >= 0 THEN 2 * input ELSE 0 - 2 * input - 1

(* rfx_bitstream_put_bits writes the n low bits of v, the highest first. *)
rfx_bitstream_put_bits(bs, v, n) ==
    bs \o [i \in 1 .. n |-> (v \div 2^(n - i)) % 2]
Ones(bs, n) == bs \o [i \in 1 .. n |-> 1]

(* A number as a count of ones, a zero and its low bits. *)
rfx_rlgr_code_gr(bs, krp, val) ==
    LET kr == Shift(krp)
        vk == val \div 2^kr
    IN  [bs  |-> rfx_bitstream_put_bits(Append(Ones(bs, vk), 0), val % 2^kr, kr),
         krp |-> IF vk = 0 THEN UpdateParam(krp, -2)
                 ELSE IF vk > 1 THEN UpdateParam(krp, vk) ELSE krp]

(* e is the encoder: the coefficients left, the bits and the two parameters *)
(* it adapts.  wrong tells whether a zero was coded where only a nonzero    *)
(* value can be.                                                           *)
RECURSIVE EmitZeros(_, _)
EmitZeros(e, n) ==
    LET runmax == 2^Shift(e.kp)
    IN  IF n >= runmax
        THEN EmitZeros([e EXCEPT !.bs = Append(@, 0),
                                 !.kp = UpdateParam(@, GrParams.UP_GR)], n - runmax)
        ELSE [e EXCEPT !.bs = rfx_bitstream_put_bits(Append(@, 1), n,
                                                     Shift(e.kp))]
RunMode(e) ==
    LET hits == {i \in 1 .. Len(e.data) : e.data[i] # 0}
        last == IF hits = {} THEN Len(e.data)
                ELSE CHOOSE i \in hits : \A j \in hits : i <= j
        z    == EmitZeros(e, last - 1)
        v    == e.data[last]
        mag  == IF v < 0 THEN 0 - v ELSE v
        c    == rfx_rlgr_code_gr(Append(z.bs, IF v < 0 THEN 1 ELSE 0), e.krp,
                                 IF mag > 0 THEN mag - 1 ELSE 0)
    IN  [z EXCEPT !.bs = c.bs, !.krp = c.krp, !.kp = UpdateParam(z.kp, 0 - GrParams.DN_GR),
                  !.data = SubSeq(e.data, last + 1, Len(e.data)),
                  !.wrong = v = 0]
Input(data, i) == IF i <= Len(data) THEN data[i] ELSE 0
GolombMode1(e) ==
    LET twoMs == Get2MagSign(e.data[1])
        c     == rfx_rlgr_code_gr(e.bs, e.krp, twoMs)
    IN  [e EXCEPT !.bs = c.bs, !.krp = c.krp, !.data = Tail(e.data),
                  !.kp = UpdateParam(@, IF twoMs # 0 THEN 0 - GrParams.DQ_GR ELSE GrParams.UQ_GR)]
Pair(kp, a, b) ==
    IF a # 0 /\ b # 0 THEN UpdateParam(kp, -2 * GrParams.DQ_GR)
    ELSE IF a = 0 /\ b = 0 THEN UpdateParam(kp, 2 * GrParams.UQ_GR) ELSE kp
GolombMode3(e) ==
    LET a == Get2MagSign(Input(e.data, 1))
        b == Get2MagSign(Input(e.data, 2))
        c == rfx_rlgr_code_gr(e.bs, e.krp, a + b)
    IN  [e EXCEPT !.bs = rfx_bitstream_put_bits(c.bs, a, GetMinBits(a + b)),
                  !.krp = c.krp, !.kp = Pair(@, a, b),
                  !.data = SubSeq(e.data, 3, Len(e.data))]
RECURSIVE Encode(_, _)
Encode(e, rlgr1) ==
    IF e.data = << >> THEN e
    ELSE Encode(IF Shift(e.kp) # 0 THEN RunMode(e)
                ELSE IF rlgr1 THEN GolombMode1(e) ELSE GolombMode3(e), rlgr1)
rfx_rlgr_encode(data, rlgr1) ==
    Encode([data |-> data, bs |-> << >>, kp |-> 8, krp |-> 8, wrong |-> FALSE],
           rlgr1)

(* Bits filled up to whole bytes, and the numbers read from them; beyond    *)
(* the end every bit is missing.                                           *)
Filled(bs) == bs \o [i \in 1 .. (8 - (Len(bs) % 8)) % 8 |-> 0]
rfx_bitstream_get_bits(bs, n) ==
    LET take == IF n < Len(bs) THEN n ELSE Len(bs)
    IN  [v  |-> FoldLeft(LAMBDA acc, b : acc * 2 + b, 0, SubSeq(bs, 1, take)),
         bs |-> SubSeq(bs, take + 1, Len(bs))]
(* Mutant: the decoder does not shrink its parameter after a code without  *)
(* ones.                                                                   *)
GetGRCode_no_shrink(bs, krp) ==
    LET zeros == {i \in 1 .. Len(bs) : bs[i] = 0}
        vk    == IF zeros = {} THEN Len(bs)
                 ELSE (CHOOSE i \in zeros : \A j \in zeros : i <= j) - 1
        kr    == Shift(krp)
        low   == rfx_bitstream_get_bits(SubSeq(bs, vk + 2, Len(bs)), kr)
    IN  [mag |-> low.v + vk * 2^kr, bs |-> low.bs,
         krp |-> IF vk = 0 THEN krp
                 ELSE IF vk # 1 THEN UpdateParam(krp, vk) ELSE krp]

GetGRCode(bs, krp) ==
    LET zeros == {i \in 1 .. Len(bs) : bs[i] = 0}
        vk    == IF zeros = {} THEN Len(bs)
                 ELSE (CHOOSE i \in zeros : \A j \in zeros : i <= j) - 1
        kr    == Shift(krp)
        low   == rfx_bitstream_get_bits(SubSeq(bs, vk + 2, Len(bs)), kr)
    IN  [mag |-> low.v + vk * 2^kr, bs |-> low.bs,
         krp |-> IF vk = 0 THEN UpdateParam(krp, -2)
                 ELSE IF vk # 1 THEN UpdateParam(krp, vk) ELSE krp]

(* WriteValue and WriteZeroes stop at the size of the buffer. *)
WriteValue(d, v) == IF Len(d.out) < d.size THEN [d EXCEPT !.out = Append(@, v)] ELSE d
WriteZeroes(d, n) ==
    LET m == IF n < d.size - Len(d.out) THEN n ELSE d.size - Len(d.out)
    IN  [d EXCEPT !.out = @ \o [i \in 1 .. m |-> 0]]
RECURSIVE SkipZeros(_)
SkipZeros(d) ==
    IF d.bs = << >> THEN d
    ELSE IF Head(d.bs) = 1 THEN [d EXCEPT !.bs = Tail(@)]
    ELSE SkipZeros([WriteZeroes(d, 2^Shift(d.kp)) EXCEPT
                        !.bs = Tail(@), !.kp = UpdateParam(@, GrParams.UP_GR)])
DecodeRun(d) ==
    LET z    == SkipZeros(d)
        run  == rfx_bitstream_get_bits(z.bs, Shift(z.kp))
        sign == rfx_bitstream_get_bits(run.bs, 1)
        g    == GetGRCode(sign.bs, d.krp)
        w    == WriteValue(WriteZeroes(z, run.v),
                           IF sign.v = 1 THEN 0 - (g.mag + 1) ELSE g.mag + 1)
    IN  [w EXCEPT !.bs = g.bs, !.krp = g.krp, !.kp = UpdateParam(@, 0 - GrParams.DN_GR)]
DecodeGolomb(d, rlgr1) ==
    LET g  == GetGRCode(d.bs, d.krp)
        v1 == rfx_bitstream_get_bits(g.bs, GetMinBits(g.mag))
        v2 == g.mag - v1.v
    IN  IF rlgr1
        THEN [WriteValue(d, GetIntFrom2MagSign(g.mag)) EXCEPT
                !.bs = g.bs, !.krp = g.krp,
                !.kp = UpdateParam(@, IF g.mag # 0 THEN 0 - GrParams.DQ_GR ELSE GrParams.UQ_GR)]
        ELSE [WriteValue(WriteValue(d, GetIntFrom2MagSign(v1.v)),
                         GetIntFrom2MagSign(v2)) EXCEPT
                !.bs = v1.bs, !.krp = g.krp, !.kp = Pair(@, v1.v, v2)]
RECURSIVE Decode(_, _)
Decode(d, rlgr1) ==
    IF d.bs = << >> \/ Len(d.out) >= d.size THEN d.out
    ELSE Decode(IF Shift(d.kp) # 0 THEN DecodeRun(d) ELSE DecodeGolomb(d, rlgr1),
                rlgr1)
rfx_rlgr_decode(bits, rlgr1, size) ==
    Decode([bs |-> Filled(bits), out |-> << >>, size |-> size,
            kp |-> 8, krp |-> 8], rlgr1)

(* Every value of the lowest band as the difference to the one before it. *)
rfx_differential(v) ==
    [encode |-> [i \in DOMAIN v |-> IF i = 1 THEN v[1] ELSE v[i] - v[i - 1]],
     decode |-> FoldLeft(LAMBDA acc, d :
                   Append(acc, IF acc = << >> THEN d ELSE acc[Len(acc)] + d),
                << >>, v)]

-----------------------------------------------------------------------------
(* The arithmetic of RemoteFX in libfreerdp-codec: the colour transform,   *)
(* the wavelet transform and the quantization, each in its plain form and  *)
(* in the forms of rfx_sse2.c and rfx_neon.c that replace it.              *)
(*                                                                         *)
(* A shift to the right is a division that rounds down.  Vectors of eight  *)
(* lanes are sequences of eight; Short wraps like a 16-bit number.         *)

MinMax(v, low, high) == IF v < low THEN low ELSE IF v > high THEN high ELSE v
Short(v) == ((v + 32768) % 65536) - 32768
Half(v) == v \div 2

(***************************************************************************)
(* Colours: red, green and blue of 0 .. 255 as luma and chroma with five   *)
(* fractional bits.                                                        *)
(***************************************************************************)
Ycc(y, cb, cr) == [y |-> y, cb |-> cb, cr |-> cr]
Colour(r, g, b) == [r |-> r, g |-> g, b |-> b]
Bounded(c) == Colour(MinMax(c.r, 0, 255), MinMax(c.g, 0, 255), MinMax(c.b, 0, 255))

rfx_encode_rgb_to_ycbcr(c) ==
    Ycc(MinMax((c.r * 9798 + c.g * 19235 + c.b * 3735) \div 1024 - 4096, -4096, 4095),
        MinMax((c.b * 16403 - c.r * 5535 - c.g * 10868) \div 1024, -4096, 4095),
        MinMax((c.r * 16377 - c.g * 13714 - c.b * 2663) \div 1024, -4096, 4095))
rfx_decode_ycbcr_to_rgb(p) ==
    LET y == (p.y + 4096) * 65536
    IN  Bounded(Colour((y + p.cr * 91947) \div 2097152,
                       (y - p.cb * 22544 - p.cr * 46792) \div 2097152,
                       (y + p.cb * 115998) \div 2097152))

(* The upper half of a product of two 16-bit numbers. *)
MulHi(a, b) == (a * b) \div 65536
rfx_encode_rgb_to_ycbcr_sse2(c) ==
    LET r == c.r * 64  g == c.g * 64  b == c.b * 64
        bound(v) == MinMax(v, -4096, 127 * 32)
    IN  Ycc(bound(MulHi(r, 9798) + MulHi(g, 19235) + MulHi(b, 3735) - 4096),
            bound(MulHi(r, -5535) + MulHi(g, -10868) + MulHi(b, 16403)),
            bound(MulHi(r, 16377) + MulHi(g, -13714) + MulHi(b, -2663)))
rfx_decode_ycbcr_to_rgb_sse2(p) ==
    LET y == (p.y + 4096) \div 4
    IN  Bounded(Colour((y + MulHi(p.cr, 22986)) \div 8,
                       (y + MulHi(p.cb, -5636) + MulHi(p.cr, -11698)) \div 8,
                       (y + MulHi(p.cb, 28999)) \div 8))
(* NEON works without the fractional bits and adds up shifts. *)
rfx_decode_YCbCr_to_RGB_NEON(p) ==
    LET y  == p.y + 128
        sh(v, n) == v \div 2^n
    IN  Bounded(Colour(y + p.cr + sh(p.cr, 2) + sh(p.cr, 3) + sh(p.cr, 5),
                       y - sh(p.cb, 2) - sh(p.cb, 4) - sh(p.cb, 5)
                         - sh(p.cr, 1) - sh(p.cr, 3) - sh(p.cr, 4) - sh(p.cr, 5),
                       y + p.cb + sh(p.cb, 1) + sh(p.cb, 2) + sh(p.cb, 6)))

(***************************************************************************)
(* The wavelet transform of one line (or column) of 2n samples into n low  *)
(* and n high ones.  A line is a function from 0; the 2-D functions apply  *)
(* it to the columns and then to the rows, and back in the other order.    *)
(***************************************************************************)
Line(n) == 0 .. n - 1
EncodeHigh(src, n) ==
    [i \in Line(n) |->
        Half(src[2 * i + 1]
             - Half(src[2 * i] + src[IF i < n - 1 THEN 2 * i + 2 ELSE 2 * i]))]
EncodeLow(src, h, n) ==
    [i \in Line(n) |-> src[2 * i] + (IF i = 0 THEN h[0] ELSE Half(h[i - 1] + h[i]))]
DecodeEven(l, h, n) ==
    [i \in Line(n) |-> l[i] - Half((IF i > 0 THEN h[i - 1] ELSE h[0]) + h[i] + 1)]
DecodeLine(l, h, n) ==
    LET even == DecodeEven(l, h, n)
    IN  [x \in Line(2 * n) |->
            IF x % 2 = 0 THEN even[x \div 2]
            ELSE 2 * h[x \div 2]
                 + Half(even[x \div 2]
                        + even[IF x \div 2 < n - 1 THEN x \div 2 + 1 ELSE x \div 2])]

(* A block: samples by row and column; the bands by name. *)
Column(block, x, n) == [y \in Line(2 * n) |-> block[y][x]]
rfx_dwt_2d_encode_block(block, n) ==
    LET h  == [x \in Line(2 * n) |-> EncodeHigh(Column(block, x, n), n)]
        l  == [x \in Line(2 * n) |-> EncodeLow(Column(block, x, n), h[x], n)]
        lRow(y) == [x \in Line(2 * n) |-> l[x][y]]
        hRow(y) == [x \in Line(2 * n) |-> h[x][y]]
    IN  [hl |-> [y \in Line(n) |-> EncodeHigh(lRow(y), n)],
         ll |-> [y \in Line(n) |-> EncodeLow(lRow(y), EncodeHigh(lRow(y), n), n)],
         hh |-> [y \in Line(n) |-> EncodeHigh(hRow(y), n)],
         lh |-> [y \in Line(n) |-> EncodeLow(hRow(y), EncodeHigh(hRow(y), n), n)]]
rfx_dwt_2d_decode_block(b, n) ==
    LET l == [y \in Line(n) |-> DecodeLine(b.ll[y], b.hl[y], n)]
        h == [y \in Line(n) |-> DecodeLine(b.lh[y], b.hh[y], n)]
        col(x) == DecodeLine([y \in Line(n) |-> l[y][x]],
                             [y \in Line(n) |-> h[y][x]], n)
    IN  [y \in Line(2 * n) |-> [x \in Line(2 * n) |-> col(x)[y]]]

(* The order of the levels: the smallest band is decoded first. *)
rfx_dwt_2d ==
    [encode |-> <<[at |-> 0, n |-> 32], [at |-> 3072, n |-> 16], [at |-> 3840, n |-> 8]>>,
     decode |-> <<[at |-> 3840, n |-> 8], [at |-> 3072, n |-> 16], [at |-> 0, n |-> 32]>>]

(* Eight lanes of a line from its place at, as the vector code loads them.  *)
(* A load one place before the first lane, or one past the last, takes a   *)
(* lane of a neighbour that is put right at the line's ends.               *)
Lanes(v, at) == [i \in 0 .. 7 |-> v[at + i]]
LanesBefore(v, at) ==
    [i \in 0 .. 7 |-> IF at = 0 /\ i = 0 THEN v[0] ELSE v[at + i - 1]]
LanesAfter(v, at, n) ==
    [i \in 0 .. 7 |-> IF at = n - 8 /\ i = 7 THEN v[n - 1] ELSE v[at + i + 1]]
(* Chunk(at) for at = 0, 8, ... laid one after another. *)
Joined(n, Chunk(_)) == [i \in Line(n) |-> Chunk(8 * (i \div 8))[i % 8]]

rfx_dwt_2d_decode_block_horiz_sse2(l, h, n) ==
    LET even == Joined(n, LAMBDA at : [i \in 0 .. 7 |->
                    Short(Lanes(l, at)[i]
                      - Half(Short(Lanes(h, at)[i] + LanesBefore(h, at)[i] + 1)))])
        odd  == Joined(n, LAMBDA at : [i \in 0 .. 7 |->
                    Short(Half(Short(LanesAfter(even, at, n)[i] + Lanes(even, at)[i]))
                      + 2 * Lanes(h, at)[i])])
    IN  [x \in Line(2 * n) |-> IF x % 2 = 0 THEN even[x \div 2] ELSE odd[x \div 2]]
rfx_dwt_2d_decode_block_vert_sse2(l, h, n) ==
    LET even == [i \in Line(n) |->
                    l[i] - Half(h[i] + 1 + (IF i = 0 THEN h[i] ELSE h[i - 1]))]
    IN  [y \in Line(2 * n) |->
            LET i == y \div 2
            IN  IF y % 2 = 0 THEN even[i]
                ELSE Half(even[i] + (IF i = n - 1 THEN even[i] ELSE even[i + 1]))
                     + 2 * h[i]]
rfx_dwt_2d_encode_block_horiz_sse2(src, n) ==
    LET even(at)  == [i \in 0 .. 7 |-> src[2 * (at + i)]]
        odd(at)   == [i \in 0 .. 7 |-> src[2 * (at + i) + 1]]
        next(at)  == [i \in 0 .. 7 |-> IF i = 7 /\ at = n - 8 THEN src[2 * at + 14]
                                       ELSE src[2 * (at + i) + 2]]
        h == Joined(n, LAMBDA at : [i \in 0 .. 7 |->
                Half(Short(odd(at)[i] - Half(Short(even(at)[i] + next(at)[i]))))])
        l == Joined(n, LAMBDA at : [i \in 0 .. 7 |->
                Short(Half(Short(LanesBefore(h, at)[i] + Lanes(h, at)[i]))
                      + even(at)[i])])
    IN  [l |-> l, h |-> h]
rfx_dwt_2d_encode_block_vert_sse2(src, n) ==
    LET h == [i \in Line(n) |->
                Half(src[2 * i + 1]
                     - Half(src[2 * i]
                            + (IF i < n - 1 THEN src[2 * i + 2] ELSE src[2 * i])))]
    IN  [h |-> h,
         l |-> [i \in Line(n) |->
                  Half((IF i = 0 THEN h[i] ELSE h[i - 1]) + h[i]) + src[2 * i]]]
rfx_dwt_2d_decode_block_horiz_NEON(l, h, n) ==
    rfx_dwt_2d_decode_block_horiz_sse2(l, h, n)
rfx_dwt_2d_decode_block_vert_NEON(l, h, n) ==
    rfx_dwt_2d_decode_block_vert_sse2(l, h, n)

(***************************************************************************)
(* Quantization: where each band of a tile lies and which of the ten       *)
(* values it takes.                                                        *)
(***************************************************************************)
Band(offset, size, q) == [offset |-> offset, size |-> size, q |-> q]
Bands ==
    {Band(0, 1024, 8), Band(1024, 1024, 7), Band(2048, 1024, 9),
     Band(3072, 256, 5), Band(3328, 256, 4), Band(3584, 256, 6),
     Band(3840, 64, 2), Band(3904, 64, 1), Band(3968, 64, 3), Band(4032, 64, 0)}
BandAt(i) == CHOOSE b \in Bands : i \in b.offset .. b.offset + b.size - 1
rfx_quantization_decode_block(v, factor) == Short(v * 2^factor)
rfx_quantization_encode_block(v, factor) ==
    IF factor = 0 THEN v ELSE (v + 2^(factor - 1)) \div 2^factor
rfx_quantization_encode_block_sse2(v, factor) ==
    IF factor = 0 THEN v ELSE Short(v + 2^(factor - 1)) \div 2^factor
rfx_quantization(v, i, q) ==
    [decode |-> rfx_quantization_decode_block(rfx_quantization_decode_block(v, 5),
                q[BandAt(i).q] - 6),
     encode |-> rfx_quantization_encode_block(
                rfx_quantization_encode_block(v, q[BandAt(i).q] - 6), 5)]
rfx_quantization_sse2(v, i, q) ==
    [decode |-> rfx_quantization(v, i, q).decode,
     encode |-> rfx_quantization_encode_block_sse2(
                rfx_quantization_encode_block_sse2(v, q[BandAt(i).q] - 6), 5)]
rfx_quantization_decode_NEON(v, i, q) ==
    IF q[BandAt(i).q] <= 6 THEN v
    ELSE rfx_quantization_decode_block(v, q[BandAt(i).q] - 6)

-----------------------------------------------------------------------------
(* The NSCodec decoder of libfreerdp-codec (nsc.c).  A plane is a function *)
(* from 0; a chroma sample keeps the ninth bit, which the code stores in a *)
(* bit stream behind the plane, as the field sign.                         *)

RoundUp(n, to) == ((n + to - 1) \div to) * to

(* The sizes of the planes, by ChromaSubSamplingLevel. *)
nsc_context_initialize(width, height, subsampled) ==
    LET all   == width * height
        luma  == RoundUp(width, 8)
        small == (luma \div 2) * (RoundUp(height, 2) \div 2)
    IN  IF subsampled THEN <<luma * height, small, small, all>>
        ELSE <<all, all, all, all>>

(* A byte stands for itself; two equal ones are followed by the length of   *)
(* their run less two, or by 255 and the length.  The last four bytes are  *)
(* plain, and so is one that is the fifth from the end.                    *)
RECURSIVE NscRuns(_, _, _)
NscRuns(in, out, i) ==
    IF i <= 4 THEN [in |-> SubSeq(in, 5, Len(in)), out |-> out \o SubSeq(in, 1, 4)]
    ELSE IF i = 5 \/ in[1] # in[2]
    THEN NscRuns(Tail(in), Append(out, in[1]), i - 1)
    ELSE LET long == in[3] = 255
             len  == IF long THEN in[4] + 256 * in[5] ELSE in[3] + 2
         IN  NscRuns(SubSeq(in, IF long THEN 8 ELSE 4, Len(in)),
                     out \o [k \in 1 .. len |-> in[1]], i - len)
nsc_rle_decode(in, origsz) == NscRuns(in, << >>, origsz)

(* The planes one after the other, each coded only if that is shorter; a    *)
(* missing alpha plane is opaque.                                          *)
nsc_rle_decompress_data(data, planeByteCount, orgByteCount) ==
    FoldLeft(LAMBDA st, i :
        LET size == orgByteCount[i]
        IN  IF i = 4 /\ planeByteCount[i] = 0
            THEN [st EXCEPT !.planes = Append(@, [k \in 1 .. size |-> 255])]
            ELSE IF planeByteCount[i] < size
            THEN LET r == nsc_rle_decode(st.in, size)
                 IN  [in |-> r.in, planes |-> Append(st.planes, r.out)]
            ELSE [in |-> SubSeq(st.in, size + 1, Len(st.in)),
                  planes |-> Append(st.planes, SubSeq(st.in, 1, size))],
        [in |-> data, planes |-> << >>], <<1, 2, 3, 4>>)

(* A chroma byte shifted back to nine bits. *)
nsc_cl_expand(v, shiftcount) ==
    [v |-> (v * 2^shiftcount) % 256,
     sign |-> ((v * 2^(shiftcount - 1)) % 256) \div 128]
nsc_colorloss_recover(plane, cllvl) ==
    [i \in DOMAIN plane |-> nsc_cl_expand(plane[i], cllvl)]

(* Luma without the padding of its lines. *)
RECURSIVE LumaFrom(_, _, _, _, _)
LumaFrom(org, p, w, pw, out) ==
    IF p >= Len(org) THEN out
    ELSE LET row == (p + 1) % pw
         IN  LumaFrom(org, IF row >= w THEN p + 1 + pw - row ELSE p + 1, w, pw,
                      Append(out, org[p + 1]))

(* Chroma: each sample to the pixel at cur and to those right of it, below  *)
(* it and both, where there are any; then two places on, and two lines on  *)
(* at the end of a line.                                                   *)
RECURSIVE ChromaFrom(_, _, _, _, _, _)
ChromaFrom(org, p, cur, w, h, out) ==
    LET n    == w * h
        pw   == RoundUp(w, 8) \div 2
        row  == (p + 1) % pw
        val  == org[p + 1]
        put  == {cur} \cup (IF cur + w < n THEN {cur + w} ELSE {})
                \cup (IF (cur + 1) % w # 0 THEN {cur + 1} ELSE {})
                \cup (IF (cur + 1) % w # 0 /\ cur + w < n THEN {cur + w + 1} ELSE {})
        next == cur + 2
        cur2 == IF next \div w < h /\ next % w < 2
                THEN next + (IF w % 2 = 1 THEN w - 1 ELSE w) ELSE next
    IN  IF p >= Len(org) THEN out
        ELSE ChromaFrom(org, IF row * 2 >= w THEN p + 1 + pw - row ELSE p + 1, cur2,
                        w, h, [i \in DOMAIN out \cup put |->
                                    IF i \in put THEN val ELSE out[i]])
nsc_chroma_supersample(planes, w, h) ==
    [luma   |-> LumaFrom(planes[1], 0, w, RoundUp(w, 8), << >>),
     chroma |-> [k \in {2, 3} |->
                    ChromaFrom(planes[k], 0, 0, w, h, [i \in {} |-> 0])]]

(* A pixel from luma and the two chroma samples, wrapped values clamped by  *)
(* their upper byte.                                                       *)
Nine(c) == c.v - 256 * c.sign
Byte255(v) ==
    LET high == (v \div 256) % 256
    IN  IF high = 255 THEN 0 ELSE IF high = 1 THEN 255 ELSE v % 256
nsc_ycocg_rgb(y, co, cg) ==
    LET o == Nine(co) \div 2
        g == Nine(cg) \div 2
    IN  <<Byte255(y + o - g), Byte255(y + g), Byte255(y - o - g)>>

(* Blue, green, red and alpha of every pixel. *)
nsc_combine_argb(rgb, alpha) == <<rgb[3], rgb[2], rgb[1], alpha>>

(* The four plane sizes, the colour loss level, whether the chroma planes  *)
(* are smaller, two bytes unused; then the planes.                         *)
nsc_stream_initialize == << 4, 4, 4, 4, 1, 1, 2 >>

nsc_process_message(data, planeByteCount, cllvl, subsampled, w, h) ==
    LET size   == nsc_context_initialize(w, h, subsampled)
        planes == nsc_rle_decompress_data(data, planeByteCount, size).planes
        loss   == [k \in 1 .. 4 |-> IF k \in {2, 3}
                    THEN nsc_colorloss_recover(planes[k], cllvl) ELSE planes[k]]
        at(k, i) == IF ~subsampled THEN loss[k][i + 1]
                    ELSE IF k = 1 THEN nsc_chroma_supersample(loss, w, h).luma[i + 1]
                    ELSE nsc_chroma_supersample(loss, w, h).chroma[k][i]
    IN  [i \in 0 .. w * h - 1 |->
            nsc_combine_argb(nsc_ycocg_rgb(at(1, i), at(2, i), at(3, i)), planes[4][i + 1])]

-----------------------------------------------------------------------------
(* The messages of the RemoteFX codec (rfx.c): what the encoder composes,  *)
(* and where the decoder reads.  A block is its type, the length it says   *)
(* it has and the sizes of what is written after these six bytes.          *)

RfxBlock(type, length, body) == [type |-> type, length |-> length, body |-> body]
rfx_compose_message_sync == RfxBlock("SYNC", 12, << 4, 2 >>)
rfx_compose_message_codec_versions == RfxBlock("CODEC_VERSIONS", 10, << 1, 1, 2 >>)
rfx_compose_message_channels == RfxBlock("CHANNELS", 12, << 1, 1, 2, 2 >>)
rfx_compose_message_context == RfxBlock("CONTEXT", 13, << 1, 1, 1, 2, 2 >>)
rfx_compose_message_header ==
    << rfx_compose_message_sync, rfx_compose_message_context,
       rfx_compose_message_codec_versions, rfx_compose_message_channels >>
rfx_compose_message_frame(rects) ==
    [begin |-> RfxBlock("FRAME_BEGIN", 14, << 1, 1, 4, 2 >>),
     region |-> RfxBlock("REGION", 15 + rects * 8,
                << 1, 1, 1, 2 >> \o Times(rects, << 2, 2, 2, 2 >>) \o << 2, 2 >>)]
\* len: the sizes of the three components of the tile.
rfx_compose_message_tile(len) ==
    RfxBlock("TILE", 19 + len[1] + len[2] + len[3],
          << 1, 1, 1, 2, 2, 2, 2, 2, len[1], len[2], len[3] >>)

TilesAcross(pixels) == (pixels + 63) \div 64
\* Which pixels of the image the tile at index i of a side covers.
TileSide(pixels, i) ==
    [from |-> 64 * i,
     size |-> IF i < TilesAcross(pixels) - 1 THEN 64 ELSE pixels - i * 64]
Tile(len) == << 6 >> \o rfx_compose_message_tile(len).body
rfx_compose_message_tileset(quants, tiles) ==
    LET data == FlattenSeq([i \in DOMAIN tiles |-> Tile(tiles[i])])
    IN  RfxBlock("EXTENSION", 22 + quants * 5 + Bytes(data),
              << 1, 1, 2, 2, 2, 1, 1, 2, 4 >> \o << 5 * quants >> \o data)
rfx_compose_message_frame_end == RfxBlock("FRAME_END", 8, << 1, 1 >>)
rfx_compose_message_data(rects, quants, tiles) ==
    << rfx_compose_message_frame(rects).begin, rfx_compose_message_frame(rects).region,
       rfx_compose_message_tileset(quants, tiles), rfx_compose_message_frame_end >>
rfx_compose_message(header, rects, quants, tiles) ==
    When(header, rfx_compose_message_header) \o rfx_compose_message_data(rects, quants, tiles)

\* What the reader of each block takes after the six bytes of type and
\* length; blocks from CONTEXT to EXTENSION have a codec and a channel id.
HasIds(type) == type \in {"CONTEXT", "FRAME_BEGIN", "FRAME_END", "REGION", "EXTENSION"}
rfx_process_message_header(n) ==
    [SYNC |-> << 4, 2 >>, CODEC_VERSIONS |-> << 1, 1, 1 >>,
     CHANNELS |-> << 1, 1, 2, 2 >> \o << 5 * (n - 1) >>, CONTEXT |-> << 1, 2, 2 >>]
rfx_process_message_frame(rects) ==
    [FRAME_BEGIN |-> << 4, 2 >>, FRAME_END |-> << >>,
     REGION |-> << 1, 2 >> \o When(rects > 0, Times(rects, << 2, 2, 2, 2 >>))]
rfx_process_message_tile(len) == << 1, 1, 1, 2, 2, 2, 2, 2, len[1], len[2], len[3] >>
rfx_process_message_tileset(quants, tiles) ==
    << 2, 2, 2, 1, 1, 2, 4 >> \o Times(quants, << 1, 1, 1, 1, 1 >>)
    \o FlattenSeq([i \in DOMAIN tiles |-> << 6 >> \o rfx_process_message_tile(tiles[i])])

\* The places where rfx_process_message starts reading a block: after the
\* length of the one before, while more than six bytes are left.
BlockStarts(blocks) ==
    LET at[i \in 1 .. Len(blocks) + 1] ==
            IF i = 1 THEN 0 ELSE at[i - 1] + blocks[i - 1].length
    IN  at
rfx_process_message(blocks, size) ==
    {i \in DOMAIN blocks : size - BlockStarts(blocks)[i] > 6}

\* The ten quantization values in five bytes, and back.
QuantBytes(q) == [i \in 1 .. 5 |-> q[2 * i - 1] + q[2 * i] * 16]
QuantValues(b) == [i \in 1 .. 10 |-> IF i % 2 = 1 THEN b[(i + 1) \div 2] % 16
                                     ELSE b[i \div 2] \div 16]

\* The properties of a tileset and of a context message.
ContextProperties(flags, rlgr1) ==
    flags + 1 * 8 + 1 * 32 + (IF rlgr1 THEN 1 ELSE 4) * 512 + 1 * 8192
ReadMode(properties) ==
    CASE (properties \div 512) % 16 = 1 -> "RLGR1"
      [] (properties \div 512) % 16 = 4 -> "RLGR3"
      [] OTHER -> "unknown"

-----------------------------------------------------------------------------
(* The bit reader of the bulk decompressor (mppc.c): bits are a sequence,  *)
(* d32 is a window of at most 32 of them.  A packet is read as literals    *)
(* <<byte>> and copies <<offset, length>>.                                 *)

FirstBits(s, n) == SubSeq(s, 1, n)
AfterBits(s, n) == SubSeq(s, n + 1, Len(s))
Smaller(a, b) == IF a < b THEN a ELSE b

(* The window d32, the byte being consumed and the bytes behind it.        *)
StartWindow(bits) ==
    LET n == Smaller(32, Len(bits))
        m == Smaller(8, Len(bits) - n)
    IN  [d |-> FirstBits(bits, n), cur |-> SubSeq(bits, n + 1, n + m), rest |-> AfterBits(bits, n + m)]

(* Get more bits: tmp of them are missing.                                 *)
RECURSIVE FillWindow(_, _)
FillWindow(w, tmp) ==
    LET next == Smaller(8, Len(w.rest))
    IN  IF tmp = 0 THEN w
        ELSE IF Len(w.cur) > tmp
        THEN [w EXCEPT !.d = @ \o FirstBits(w.cur, tmp), !.cur = AfterBits(w.cur, tmp)]
        ELSE FillWindow([d |-> w.d \o w.cur, cur |-> FirstBits(w.rest, next),
                         rest |-> AfterBits(w.rest, next)],
                        IF next = 0 THEN 0 ELSE tmp - Len(w.cur))
Refill(w) == FillWindow(w, 32 - Len(w.d))

RECURSIVE Value(_)
Value(bits) == IF bits = <<>> THEN 0 ELSE 2 * Value(FirstBits(bits, Len(bits) - 1)) + bits[Len(bits)]

Starts(bits, prefix) == Len(bits) >= Len(prefix) /\ FirstBits(bits, Len(prefix)) = prefix
OnesOf(n) == [i \in 1 .. n |-> 1]
BitField(bits, skip, n) == Value(SubSeq(bits, skip + 1, skip + n))

(* A literal or a copy offset: its kind, its value, the bits it takes.     *)
Token(kind, value, taken) == [kind |-> kind, value |-> value, taken |-> taken]

Literal(d) ==
    IF d[1] = 0 THEN Token("literal", BitField(d, 0, 8), 8)
    ELSE Token("literal", 128 + BitField(d, 2, 7), 9)

Offset4(d) ==
    IF ~Starts(d, <<1, 1>>) THEN Literal(d)
    ELSE IF Starts(d, <<1, 1, 1, 1>>) THEN Token("copy", BitField(d, 4, 6), 10)
    ELSE IF Starts(d, <<1, 1, 1>>) THEN Token("copy", BitField(d, 4, 8) + 64, 12)
    ELSE Token("copy", BitField(d, 3, 13) + 320, 16)

Offset5(d) ==
    IF ~Starts(d, <<1, 1>>) THEN Literal(d)
    ELSE IF Starts(d, <<1, 1, 1, 1, 1>>) THEN Token("copy", BitField(d, 5, 6), 11)
    ELSE IF Starts(d, <<1, 1, 1, 1>>) THEN Token("copy", BitField(d, 5, 8) + 64, 13)
    ELSE IF Starts(d, <<1, 1, 1>>) THEN Token("copy", BitField(d, 4, 11) + 320, 15)
    ELSE Token("copy", BitField(d, 3, 16) + 2368, 19)

(* The length of match: n ones and a zero, then n + 1 bits below 2^(n+1).  *)
LomOf(d, longest) ==
    IF d[1] = 0 THEN Token("lom", 3, 1)
    ELSE LET n == CHOOSE n \in 1 .. longest : Starts(d, Append(OnesOf(n), 0))
         IN  Token("lom", BitField(d, n + 1, n + 1) + 2 ^ (n + 1), 2 * n + 2)
Lom4(d) == LomOf(d, 11)
Lom5(d) == LomOf(d, 14)

(* The decompression loop: the literals and the copies of a packet.        *)
RECURSIVE Tokens(_, _)
Tokens(w, five) ==
    IF Len(w.d) < 8 THEN <<>>
    ELSE LET first  == IF five THEN Offset5(w.d) ELSE Offset4(w.d)
             w1     == Refill([w EXCEPT !.d = AfterBits(@, first.taken)])
             lom    == IF five THEN Lom5(w1.d) ELSE Lom4(w1.d)
             w2     == Refill([w1 EXCEPT !.d = AfterBits(@, lom.taken)])
         IN  IF first.kind = "literal" THEN <<<<first.value>>>> \o Tokens(w1, five)
             ELSE IF first.value = 0 THEN Tokens(w1, five)
             ELSE <<<<first.value, lom.value>>>> \o Tokens(w2, five)

decompress_rdp_4(bits) == Tokens(StartWindow(bits), FALSE)
decompress_rdp_5(bits) == Tokens(StartWindow(bits), TRUE)
=============================================================================
