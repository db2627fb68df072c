---------------------------- MODULE MC_Graphics -----------------------------
(***************************************************************************)
(* The pure functions of drawing and of the codecs on small inputs.        *)
(***************************************************************************)
EXTENDS Gdi, Bitmap, Codecs, TLC

-----------------------------------------------------------------------------
(* The frame in which pure functions are checked: a state is one call,     *)
(* dtCase names the function and holds its arguments.  A behaviour starts  *)
(* with no call, only the part of the program that will be called.         *)

VARIABLE dtCase

Is(what) == dtCase.what = what
CallOf(part) == dtCase = [what |-> "none", part |-> part]

-----------------------------------------------------------------------------
(* Raster operations, clipping, copies and lines on a small bitmap.        *)

-----------------------------------------------------------------------------
(* libfreerdp-gdi *)
Depths == {8, 16, 32}
CaseRop == \E n \in Depths, rop \in DOMAIN Rop3Code, d, s, p \in BOOLEAN :
    dtCase' = [what |-> "rop", n |-> n, rop |-> rop, d |-> d, s |-> s, p |-> p]
CasePen == \E n \in Depths, rop2 \in 1 .. 16, d, p \in BOOLEAN :
    dtCase' = [what |-> "pen", n |-> n, rop2 |-> rop2, d |-> d, p |-> p]
SomeRgn(lo, hi, big) == {Rgn(x, y, w, h) : x, y \in lo .. hi, w, h \in 0 .. big}
CaseClip == \E r \in SomeRgn(-2, Width, Width + 1) : \E c \in {{}} \cup {{r2} : r2 \in SomeRgn(-1, Width - 1, 2)} :
    dtCase' = [what |-> "clip", r |-> r, clip |-> c]
CaseCopy == \E x \in 0 .. Width - 1, y \in 0 .. Height - 1, w \in 1 .. Width, h \in 1 .. Height, src \in Pixels :
    /\ x + w <= Width /\ y + h <= Height
    /\ src[1] + w <= Width /\ src[2] + h <= Height
    /\ dtCase' = [what |-> "copy", r |-> Rgn(x, y, w, h), src |-> src]
CaseGdiLine == \E a, b \in (-2 .. Width) \X (-2 .. Height), c \in {{}, {Rgn(0, 0, 2, 2)}, {Rgn(1, 1, 5, 5)}} :
    dtCase' = [what |-> "gdi line", a |-> a, b |-> b, clip |-> c]

CodeBit(code, i) == (code \div 2^i) % 2 = 1
Index(d, s, p) == (IF p THEN 4 ELSE 0) + (IF s THEN 2 ELSE 0) + (IF d THEN 1 ELSE 0)

(* Every raster operation, at every depth, computes the bit that the code  *)
(* of the operation holds for the three bits it combines; gdi_PatBlt's for *)
(* the two it knows.  Glyphs at 8 bits per pixel are not implemented.      *)
RopIsItsCode ==
    Is("rop") =>
        LET c == dtCase
            want == CodeBit(Rop3Code[c.rop], Index(c.d, c.s, c.p))
        IN  /\ (c.rop # "PDxn" /\ ~(c.rop = "DSPDxax" /\ c.n = 8))
                   => RasterOp(c.n, c.rop, c.d, c.s, c.p) = want
            /\ c.rop \in {"PATCOPY", "PATINVERT", "DSTINVERT", "BLACKNESS", "WHITENESS", "PDxn"}
                   => PatternOp(c.n, c.rop, c.d, c.p) = want
            /\ gdi_rop3_code(Rop3Code[c.rop]) = c.rop

(* Every entry of LineTo_ROP2_*bpp does to the pixel what its index says.  *)
PenIsItsCode ==
    Is("pen") => LET c == dtCase
                 IN  PenOp(c.n, c.rop2, c.d, c.p) = CodeBit(c.rop2 - 1, Index(c.d, c.p, FALSE))

(* Where gdi_ClipCoords has something to draw, it draws exactly the pixels *)
(* of the order that are in the clipping region and in the bitmap, and     *)
(* each from the place in the source it would come from without clipping.  *)
(* A clipping region off the bitmap is left to the callers.                *)
ClipDrawsIntersection ==
    Is("clip") =>
        LET c == dtCase
            k == gdi_ClipCoords(c.clip, c.r, << 10, 10 >>)
            clipped == IF c.clip = {} THEN Pixels ELSE UNION {PixelsOf(r) : r \in c.clip}
        IN  clipped # {} =>
               /\ (IF k.draw THEN PixelsOf(k.r) ELSE {}) = PixelsOf(c.r) \cap clipped
               /\ k.draw /\ PixelsOf(k.r) # {} =>
                      /\ k.r.x - k.src[1] = c.r.x - 10
                      /\ k.r.y - k.src[2] = c.r.y - 10

(* A copy inside one bitmap, of regions that do not meet or whose overlap  *)
(* gdi_CopyOverlap sees, moves the old pixels, whichever way memcpy goes.  *)
CopyMovesOldPixels ==
    Is("copy") =>
        LET r == dtCase.r
            src == dtCase.src
            from == Rgn(src[1], src[2], r.w, r.h)
            moved == [p \in Pixels |-> IF p \in PixelsOf(r)
                                       THEN << src[1] + p[1] - r.x, src[2] + p[2] - r.y >> ELSE p]
        IN  gdi_CopyOverlap(r, src) \/ PixelsOf(r) \cap PixelsOf(from) = {}
                => BitBlt_SRCCOPY([p \in Pixels |-> p], r, src) = {moved}

(* A line goes through one pixel of every column (of every row, when it is *)
(* steep) from its start up to its end, none farther than half a pixel     *)
(* from the true line, and draws those that are in the clip and the bitmap.*)
LineFollowsTheTrueLine ==
    Is("gdi line") =>
        LET a == dtCase.a
            b == dtCase.b
            clip == IF dtCase.clip = {} THEN Pixels ELSE UNION {PixelsOf(r) : r \in dtCase.clip}
            Abs(n) == IF n < 0 THEN -n ELSE n
            flat == Abs(b[1] - a[1]) >= Abs(b[2] - a[2])
            k == IF flat THEN 1 ELSE 2          \* the coordinate that advances
            j == 3 - k
            len == Abs(b[k] - a[k])
            Near(p) == 2 * Abs((p[j] - a[j]) * (b[k] - a[k]) - (b[j] - a[j]) * (p[k] - a[k])) <= len
            Between(p) == /\ p[k] # b[k]
                          /\ p[k] \in Min({a[k], b[k]}) .. Max({a[k], b[k]})
            drawn == LINE_TO(dtCase.clip, a, b)
        IN  /\ \A p \in drawn : Between(p) /\ Near(p) /\ p \in clip
            /\ \A p, q \in drawn : p[k] = q[k] => p = q
            /\ \A p \in clip : Between(p) /\ Near(p) => \E q \in Pixels \cup ((-3 .. Width + 1) \X (-3 .. Height + 1)) :
                                   q[k] = p[k] /\ Near(q) /\ (q \in drawn \/ q \notin clip)

-----------------------------------------------------------------------------
GdiNext == CaseRop \/ CasePen \/ CaseClip \/ CaseCopy \/ CaseGdiLine

-----------------------------------------------------------------------------
(* The bitmap decompressors on images coded by a server, and the colour    *)
(* conversions.  The encoder follows the description of the orders in      *)
(* [MS-RDPBCGR] 2.2.9.1.1.3.1.2.4; it is not part of the program.          *)

(* The interleaved code: of the order kinds in pref, the first that fits    *)
(* takes as many pixels as it can, up to most.                             *)
UpTo(img, w, i) == IF i <= w THEN 0 ELSE img[i - w]
Diff(img, w, i) == img[i] ^^ UpTo(img, w, i)
FitsAt(kind, img, w, at, n, fg, afterBg) ==
    LET px == at .. at + n - 1
        d(i) == Diff(img, w, i)
    IN  CASE kind = "bg" -> \A i \in px : d(i) = IF i = at /\ afterBg THEN fg ELSE 0
          [] kind = "fg" -> \A i \in px : d(i) = fg
          [] kind = "setfg" -> \A i \in px : d(i) = d(at) /\ d(at) # 0
          [] kind = "color" -> \A i \in px : img[i] = img[at]
          [] kind = "dither" -> n % 2 = 0 /\ \A i \in px : i > at + 1 => img[i] = img[i - 2]
          [] kind = "fgbg" -> \A i \in px : d(i) \in {0, fg}
          [] kind = "setfgbg" -> d(at) # 0 /\ \A i \in px : d(i) \in {0, d(at)}
          [] kind = "image" -> TRUE
          [] kind = "white" -> n = 1 /\ img[at] = 255
          [] kind = "black" -> n = 1 /\ img[at] = 0
          [] kind = "mask3" -> n = 8 /\ \A i \in px : d(i) = IF i < at + 2 THEN fg ELSE 0
          [] kind = "mask5" -> n = 8 /\ \A i \in px : d(i) = IF i \in {at, at + 2} THEN fg ELSE 0

\* The header of an order of n pixels, short or in the long form.
Short5(code, n) == IF n < 32 THEN <<code * 32 + n>> ELSE <<code * 32, n - 32>>
Short4(code, n) == IF n < 16 THEN <<code * 16 + n>> ELSE <<code * 16, n - 16>>
Masks(code, unit, n) ==
    IF n % 8 = 0 /\ n \div 8 < unit THEN <<code * unit + n \div 8>> ELSE <<code * unit, n - 1>>
OrderHeader(kind, n, long) ==
    LET mega(c) == <<c, n % 256, n \div 256>>
    IN  CASE kind = "bg" -> IF long THEN mega(240) ELSE Short5(0, n)
          [] kind = "fg" -> IF long THEN mega(241) ELSE Short5(1, n)
          [] kind = "fgbg" -> IF long THEN mega(242) ELSE Masks(2, 32, n)
          [] kind = "color" -> IF long THEN mega(243) ELSE Short5(3, n)
          [] kind = "image" -> IF long THEN mega(244) ELSE Short5(4, n)
          [] kind = "setfg" -> IF long THEN mega(246) ELSE Short4(12, n)
          [] kind = "setfgbg" -> IF long THEN mega(247) ELSE Masks(13, 16, n)
          [] kind = "dither" -> IF long THEN mega(248) ELSE Short4(14, n)
          [] kind = "mask3" -> <<249>> [] kind = "mask5" -> <<250>>
          [] kind = "white" -> <<253>> [] kind = "black" -> <<254>>
MaskBytes(img, w, at, n) ==
    [k \in 1 .. (n + 7) \div 8 |->
        SumSet({2^(i - (at + 8 * (k - 1))) :
            i \in {j \in at + 8 * (k - 1) .. Min({at + 8 * k - 1, at + n - 1}) :
                        Diff(img, w, j) # 0}})]
OrderBody(kind, img, w, at, n) ==
    CASE kind = "setfg" -> <<Diff(img, w, at)>>
      [] kind = "color" -> <<img[at]>>
      [] kind = "dither" -> <<img[at], img[at + 1]>>
      [] kind = "fgbg" -> MaskBytes(img, w, at, n)
      [] kind = "setfgbg" -> <<Diff(img, w, at)>> \o MaskBytes(img, w, at, n)
      [] kind = "image" -> SubSeq(img, at, at + n - 1)
      [] OTHER -> << >>

RECURSIVE RleEncoded(_, _, _, _, _, _, _, _)
RleEncoded(img, w, pref, most, long, at, fg, afterBg) ==
    IF at > Len(img) THEN << >>
    ELSE LET end   == IF at <= w THEN w ELSE Len(img)
             lens  == 1 .. Min({most, end - at + 1})
             bg    == afterBg /\ at # w + 1
             fits(k) == {n \in lens : FitsAt(pref[k], img, w, at, n, fg, bg)}
             k     == Min({j \in DOMAIN pref : fits(j) # {}})
             n     == Max(fits(k))
             kind  == pref[k]
             set   == kind \in {"setfg", "setfgbg"}
             count == IF kind = "dither" THEN n \div 2 ELSE n
         IN  OrderHeader(kind, count, long) \o OrderBody(kind, img, w, at, n)
             \o RleEncoded(img, w, pref, most, long, at + n,
                           IF set THEN Diff(img, w, at) ELSE fg, kind = "bg")
Prefs == {<<"bg", "fg", "setfg", "image">>, <<"setfgbg", "fgbg", "color", "image">>,
          <<"dither", "bg", "setfg", "fg", "image">>, <<"white", "black", "bg", "color", "image">>,
          <<"mask3", "mask5", "setfg", "bg", "image">>}
Pels == {0, 1, 255}
RleImages ==
    {[w |-> 3, img |-> img] : img \in [1 .. 6 -> {0, 255}]}
    \cup {[w |-> 2, img |-> img] : img \in [1 .. 4 -> Pels]}
    \cup {[w |-> 8, img |-> [i \in 1 .. 16 |-> IF i <= 8 THEN a ELSE a ^^ (IF i \in 9 .. 8 + k THEN b ELSE c)]] :
             a, b, c \in Pels, k \in {1, 2, 8}}
    \cup {[w |-> 8, img |-> [i \in 1 .. 16 |-> IF i \in {1, 3, 9, 11} THEN a ELSE 0]] : a \in {1, 255}}
    \cup {[w |-> 16, img |-> [i \in 1 .. 16 |-> IF i % 2 = 0 THEN a ELSE b]] : a, b \in {0, 1}}
    \cup {[w |-> 33, img |-> [i \in 1 .. 33 |-> 1]]}
CaseRle == \E i \in RleImages, pref \in Prefs, long \in BOOLEAN :
    dtCase' = [what |-> "rle", i |-> i,
               src |-> RleEncoded(i.img, i.w, pref, IF long THEN 2 ELSE 64, long, 1, 255, FALSE)]

(* An image a server codes with any mix of the orders, short or long, is    *)
(* the image RleDecompress writes: runs, masks and literals on the first   *)
(* line and below it, the foreground they share, and the pixel put between *)
(* two background runs.                                                    *)
RleDecodesTheImage ==
    Is("rle") => RleDecompress(dtCase.src, dtCase.i.w) = dtCase.i.img

(* How long a run is, for every order and every length a header can hold.  *)
Lengths == 1 .. 48 \cup {255, 256, 257, 287, 288, 2000, 65535}
RunCodes == [bg |-> {0, 240}, fg |-> {1, 241}, fgbg |-> {2, 242}, color |-> {3, 243}, image |-> {4, 244},
          setfg |-> {12, 246}, setfgbg |-> {13, 247}, dither |-> {14, 248}]
CaseRun == \E kind \in DOMAIN RunCodes, n \in Lengths, long \in BOOLEAN :
    /\ long \/ n <= 255
    /\ dtCase' = [what |-> "run", kind |-> kind, n |-> n, header |-> OrderHeader(kind, n, long)]
RunLengthIsRead ==
    Is("run") => LET code == ExtractCodeId(dtCase.header[1])
                 IN  /\ code \in RunCodes[dtCase.kind]
                     /\ ExtractRunLength(code, dtCase.header)
                            = [length |-> dtCase.n, advance |-> Len(dtCase.header)]

(* The planar code: literals and repetitions of the last one, 3 to 15 or,   *)
(* without literals, 16 to 47 of them.                                     *)
PlaneDelta(d) == LET s == IF d > 127 THEN d - 256 ELSE IF d < -128 THEN d + 256 ELSE d
                 IN  IF s >= 0 THEN 2 * s ELSE 0 - 2 * s - 1
SameFrom(line, at, v) ==
    Min({i \in at .. Len(line) + 1 : i = Len(line) + 1 \/ line[i] # v}) - at
RECURSIVE PlaneLine(_, _, _, _, _)
PlaneLine(line, code, at, last, greedy) ==
    IF at > Len(line) THEN << >>
    ELSE LET run == SameFrom(line, at, last)
             stops == {c \in 1 .. 15 : at + c - 1 <= Len(line) /\
                         \/ at + c - 1 = Len(line)
                         \/ greedy /\ SameFrom(line, at + c, line[at + c - 1]) >= 3}
             c   == Min(stops)
             r   == SameFrom(line, at + c, line[at + c - 1])
             rep == IF r >= 3 /\ greedy THEN Min({r, 15}) ELSE 0
         IN  IF greedy /\ run >= 3
             THEN LET n == Min({run, 47})
                  IN  <<IF n >= 16 THEN (n % 16) * 16 + n \div 16 ELSE n>>
                      \o PlaneLine(line, code, at + n, last, greedy)
             ELSE <<c * 16 + rep>> \o SubSeq(code, at, at + c - 1)
                  \o PlaneLine(line, code, at + c + rep, line[at + c - 1], greedy)
PlaneEncoded(plane, w, greedy) ==
    LET lines == Rows(plane, w)
        diff(y) == [x \in 1 .. w |-> (lines[y][x] - lines[y - 1][x]) % 256]
    IN  PlaneLine(lines[1], lines[1], 1, 0, greedy)
        \o FlattenSeq([y \in 1 .. Len(lines) - 1 |->
              PlaneLine(diff(y + 1), [x \in 1 .. w |-> PlaneDelta(diff(y + 1)[x])], 1, 0, greedy)])
SomePlanes ==
    {[w |-> 5, p |-> a \o b] : a \in [1 .. 5 -> {0, 1}] \cup [1 .. 5 -> {0, 255}],
        b \in {<<0, 0, 0, 0, 0>>, <<1, 1, 1, 1, 1>>, <<255, 128, 1, 1, 1>>, <<7, 7, 7, 7, 0>>}}
    \cup {[w |-> n, p |-> [i \in 1 .. 2 * n |-> IF i = 1 THEN a ELSE b]] :
             n \in {15, 16, 17, 32, 47, 48}, a, b \in {0, 9}}
CasePlane == \E p \in SomePlanes, greedy \in BOOLEAN :
    /\ p.w <= 15 \/ greedy
    /\ dtCase' = [what |-> "plane", w |-> p.w, plane |-> p.p, greedy |-> greedy]

(* A coded plane is decoded to itself, taking exactly its bytes; four of    *)
(* them become an image upside down, with or without alpha, coded or not,  *)
(* and the bytes counted are the bytes given.                              *)
PlanesDecodeTheImage ==
    Is("plane") => \A code \in {PlaneEncoded(dtCase.plane, dtCase.w, dtCase.greedy)} :
        LET c    == dtCase
            h    == Len(c.plane) \div c.w
            other == [i \in DOMAIN c.plane |-> 5]
            rle(alpha) == <<IF alpha THEN 16 ELSE 48>> \o (IF alpha THEN code ELSE << >>)
                          \o PlaneEncoded(other, c.w, TRUE) \o code \o code
            raw  == <<0>> \o c.plane \o other \o c.plane \o c.plane \o <<0>>
            image(alpha) == FlattenSeq(Reverse(Rows(
                [i \in DOMAIN c.plane |-> <<IF alpha THEN c.plane[i] ELSE 255, 5, c.plane[i], c.plane[i]>>], c.w)))
            sources == {[src |-> rle(alpha), alpha |-> alpha, good |-> TRUE] : alpha \in BOOLEAN}
                         \union {[src |-> raw, alpha |-> TRUE, good |-> TRUE]}
                         \union {[src |-> rle(TRUE) \o <<0>>, alpha |-> TRUE, good |-> FALSE]}
        IN  /\ \A got \in {process_rle_plane(code \o <<1, 2>>, c.w, h)} :
                 got.out = c.plane /\ got.used = Len(code)
            /\ \A s \in sources : \A d \in {bitmap_decompress(s.src, c.w, h, 32, 32)} :
                 d.ok = s.good /\ (s.good => d.image = image(s.alpha))

(* Turning an image upside down in place does what turning it into a        *)
(* buffer does.                                                            *)
CaseFlip == \E n \in 0 .. 5 : dtCase' = [what |-> "flip", rows |-> [y \in 1 .. n |-> <<y, y + 1>>]]
FlipsAgree ==
    Is("flip") => LET rows == dtCase.rows
                  IN  /\ freerdp_bitmap_flip(rows, TRUE) = Reverse(rows)
                      /\ freerdp_image_flip(rows, TRUE) = Reverse(rows)
                      /\ rows # << >> =>
                           bitmap_decompress(<<128 + 2 * Len(rows)>> \o FlattenSeq(rows), 2, Len(rows), 16, 16).image
                             = FlattenSeq(Reverse(rows))

BitmapNext == (CaseRle \/ CaseRun \/ CasePlane \/ CaseFlip)

-----------------------------------------------------------------------------
(* The colour conversions on pixels of every depth. *)

(* A conversion as a front end makes it (client/X11/xfreerdp.c: the palette *)
(* of a session in 8 bits, alpha always, the colours inverted or not).      *)
SomePalette == [i \in {0, 8, 200, 255} |-> Rgb(i, 255 - i, i \div 2)]
Conv(alpha, invert, rgb555) ==
    [alpha |-> alpha, invert |-> invert, rgb555 |-> rgb555, palette |-> SomePalette]
SomeRgb == {Rgb(r, g, b) : r, b \in {0, 8, 200, 255}, g \in {0, 4, 129, 255}}
(* A colour as an order carries it (a COLORREF, red in the low byte, above  *)
(* 16 bits) and as a bitmap does.                                          *)
OrderPixel(c, bpp) == CASE bpp = 8 -> c.r [] bpp = 15 -> RGB15(c) [] bpp = 16 -> RGB16(c)
                        [] OTHER -> <<0, c.b, c.g, c.r>>
BitmapPixel(c, bpp) == IF bpp > 16 THEN <<0, c.r, c.g, c.b>> ELSE OrderPixel(c, bpp)
Low24(p) == SubSeq(p, 2, 4)

CaseColor == \E c \in SomeRgb, bpp \in {8, 15, 16, 24, 32}, alpha, invert, rgb555 \in BOOLEAN :
    dtCase' = [what |-> "color", c |-> c, bpp |-> bpp, conv |-> Conv(alpha, invert, rgb555)]

(* A rectangle and a bitmap of one colour have one colour on a 32-bit       *)
(* screen, and a line has it too as long as the session has at most 16     *)
(* bits: lines, polylines and brushes go through freerdp_color_convert_rgb,*)
(* which takes the red of a 24-bit order for its blue.  When the client     *)
(* inverts colours, a bitmap of more than 16 bits is not inverted; and the *)
(* palette of 8 bits is used with red and blue swapped by one of the two.  *)
ColorsAgree ==
    Is("color") =>
        LET c    == dtCase
            rect == freerdp_color_convert_var(OrderPixel(c.c, c.bpp), c.bpp, c.conv)
            line == freerdp_color_convert_rgb(OrderPixel(c.c, c.bpp), c.bpp, 32, c.conv)
            bmp  == freerdp_image_convert(BitmapPixel(c.c, c.bpp), c.bpp, 32, c.conv)
            own  == IF c.bpp = 8 THEN SomePalette[c.c.r] ELSE c.c
            symmetric == own.r = own.b
            sameBmp  == c.bpp \in {15, 16} \/ (c.bpp > 16 /\ ~c.conv.invert)
            sameLine == c.bpp <= 16
        IN  /\ sameBmp \/ symmetric => Low24(rect) = Low24(bmp)
            /\ ~sameBmp /\ ~symmetric => Low24(rect) # Low24(bmp)
            /\ ~c.conv.invert => (Low24(rect) = Low24(line) <=> (sameLine \/ symmetric))

(* Widening a colour and narrowing it again gives the colour; 15 and 16     *)
(* bits convert to each other without loss of what 15 bits hold.           *)
CaseNarrow == \E r, b \in {0, 1, 15, 16, 30, 31}, g \in {0, 1, 2, 31, 32, 33, 62, 63} :
    dtCase' = [what |-> "narrow", c |-> Rgb(r, g, b)]
NarrowingKeeps ==
    Is("narrow") =>
        LET p  == RGB565(dtCase.c)
            q  == RGB555([dtCase.c EXCEPT !.g = @ % 32])
            cv == Conv(TRUE, FALSE, FALSE)
        IN  /\ RGB16(GetRGB16(p)) = p /\ BGR16(GetBGR16(p)) = p
            /\ RGB15(GetRGB15(q)) = q /\ BGR15(GetBGR15(q)) = q
            /\ RGB16_RGB15(RGB15_RGB16(q)) = q
            /\ freerdp_image_convert(freerdp_image_convert(p, 16, 32, cv), 32, 16, cv) = p
            /\ freerdp_image_convert(q, 15, 16, Conv(TRUE, TRUE, FALSE)) = BGR565(RGB_555_565(GetRGB_555(q)))
            /\ freerdp_image_swap_color_order(freerdp_image_convert(p, 16, 32, cv))
                 = freerdp_image_convert(p, 16, 32, Conv(TRUE, TRUE, FALSE))

(* Masks of one bit per pixel *)
MaskOf(bits, w, h) ==  \* bytes, every line padded
    LET line == (w + 7) \div 8
        bit(k) == LET y == (k - 1) \div (8 * line)  x == (k - 1) % (8 * line)
                  IN  IF x < w /\ <<x, y>> \in bits THEN 1 ELSE 0
    IN  [n \in 1 .. line * h |-> FoldLeft(LAMBDA v, i : 2 * v + bit((n - 1) * 8 + i), 0, [i \in 1 .. 8 |-> i])]
CaseMask == \E w \in {1, 2, 8, 9}, h \in {1, 2} : \E bits \in SUBSET ({0, 1, w - 1} \X {0, h - 1}) :
    /\ \A b \in bits : b[1] < w
    /\ dtCase' = [what |-> "mask", w |-> w, h |-> h, bits |-> bits]

(* A glyph shows the pixels whose bits are set, a brush of one bit its two   *)
(* colours, and a pointer is transparent exactly where its AND mask is set *)
(* over black, with white there as a pattern and every other pixel opaque; *)
(* its lines run upwards unless it is monochrome.  An icon's mask is read   *)
(* without the padding of its lines: it is right exactly when there is none *)
(* or there is only one line.                                              *)
MasksAreRead ==
    Is("mask") =>
        LET c    == dtCase
            data == MaskOf(c.bits, c.w, c.h)
            px   == (0 .. c.w - 1) \X (0 .. c.h - 1)
            glyph == freerdp_glyph_convert(c.w, c.h, data)
            icon == freerdp_icon_convert(data, c.w, c.h)
            cv   == Conv(TRUE, FALSE, FALSE)
            white == [i \in 1 .. c.w * c.h |-> <<255, 255, 255, 255>>]
            black == [i \in 1 .. c.w * c.h |-> <<255, 0, 0, 0>>]
            ptr(xor, bpp) == freerdp_alpha_cursor_convert(xor, data, c.w, c.h, bpp, cv)
            up(y) == c.h - 1 - y
        IN  /\ \A p \in px : /\ glyph[p[2]][p[1]] = IF p \in c.bits THEN 255 ELSE 0
                             /\ freerdp_get_pixel(data, p[1], p[2], c.w, 1) = IF p \in c.bits THEN 1 ELSE 0
            /\ (c.w % 8 = 0 \/ c.h = 1) =>
                 \A p \in px : icon[p[2]][p[1]] = IF p \in c.bits THEN 0 ELSE 255
            /\ c.w = 2 /\ c.bits = {<<1, 1>>} => icon[1][1] # 0
            /\ \A p \in px :
                 LET set == <<p[1], up(p[2])>> \in c.bits
                 IN  /\ ptr(black, 32)[p[2]][p[1]] = IF set THEN <<0, 0, 0, 0>> ELSE <<255, 0, 0, 0>>
                     /\ ptr(white, 32)[p[2]][p[1]]
                          = IF set /\ p[1] % 2 # p[2] % 2 THEN <<255, 0, 0, 0>> ELSE <<255, 255, 255, 255>>
                     /\ ptr(data, 1)[p[2]][p[1]]
                          = IF p \notin c.bits THEN <<255, 0, 0, 0>>
                            ELSE IF p[1] % 2 = p[2] % 2 THEN <<255, 255, 255, 255>> ELSE <<255, 0, 0, 0>>
            /\ c.w = 8 =>
                 LET brush == freerdp_mono_image_convert(data, 16, 32, 31, 0, cv)
                 IN  \A p \in px : brush[p[2] + 1][p[1]] = IF p \in c.bits THEN <<0, 0, 0, 255>> ELSE <<0, 0, 0, 0>>

ColorNext == (CaseColor \/ CaseNarrow \/ CaseMask)

-----------------------------------------------------------------------------
(* RemoteFX, NSCodec and the bits of the bulk compression: what the coders *)
(* of the repository and the decoders make of each other, and decoders     *)
(* against coders that follow the protocol's description.                  *)

-----------------------------------------------------------------------------
(* The entropy coder *)
Repeat(v, n) == [i \in 1 .. n |-> v]
Coefficients ==
    [1 .. 6 -> {-1, 0, 2}] \cup [1 .. 4 -> {-3, -1, 0, 1, 200}]
    \cup {Repeat(0, n) \o <<v>> \o Repeat(w, m) : n \in {7, 8, 30, 60}, v \in {0, 1, -2}, w \in {0, 5}, m \in {0, 3, 9}}
CaseRlgr == \E data \in Coefficients, rlgr1 \in BOOLEAN :
    dtCase' = [what |-> "rlgr", data |-> data, rlgr1 |-> rlgr1]

(* What rfx_rlgr_encode writes rfx_rlgr_decode reads back, in both modes,   *)
(* the parameters of the two moving in step; only a tile that ends in the  *)
(* middle of a run of zeros comes back with a one in its last place.       *)
RlgrReadsBack ==
    Is("rlgr") =>
        LET enc  == rfx_rlgr_encode(dtCase.data, dtCase.rlgr1)
            got  == rfx_rlgr_decode(enc.bs, dtCase.rlgr1, Len(dtCase.data))
            n    == Len(dtCase.data)
        IN  got = [dtCase.data EXCEPT ![n] = IF enc.wrong THEN 1 ELSE @]

(* The difference coding of the lowest band loses nothing. *)
CaseDifferences == \E v \in [1 .. 4 -> {-5, 0, 1, 300}] : dtCase' = [what |-> "differences", v |-> v]
DifferencesReadBack ==
    Is("differences") => rfx_differential(rfx_differential(dtCase.v).encode).decode = dtCase.v

-----------------------------------------------------------------------------
(* The transforms *)
CaseLine == \/ \E s \in [Line(6) -> {-7, 0, 4, 255}] : dtCase' = [what |-> "line", n |-> 3, s |-> s]
            \/ \E n \in {8, 16}, a, b \in {-4096, 0, 3, 4095}, at \in 0 .. 31 :
                 /\ at < 2 * n
                 /\ dtCase' = [what |-> "line", n |-> n,
                               s |-> [i \in Line(2 * n) |-> IF i = at THEN a ELSE IF i = 2 * n - 1 THEN b ELSE i % 5]]

(* A line split into its bands and put together again is the line less at   *)
(* most two; the vector code, which handles eight lanes at a time, splits  *)
(* and joins it to the same samples.                                       *)
WaveletReadsBack ==
    Is("line") =>
        LET n == dtCase.n
            h == EncodeHigh(dtCase.s, n)
            l == EncodeLow(dtCase.s, h, n)
            got == DecodeLine(l, h, n)
        IN  /\ \A x \in Line(2 * n) : dtCase.s[x] - got[x] \in 0 .. 2
            /\ n >= 8 =>
                 /\ rfx_dwt_2d_encode_block_horiz_sse2(dtCase.s, n) = [l |-> l, h |-> h]
                 /\ rfx_dwt_2d_decode_block_horiz_sse2(l, h, n) = got
                 /\ rfx_dwt_2d_decode_block_horiz_NEON(l, h, n) = got
            /\ rfx_dwt_2d_encode_block_vert_sse2(dtCase.s, n) = [l |-> l, h |-> h]
            /\ rfx_dwt_2d_decode_block_vert_sse2(l, h, n) = got
            /\ rfx_dwt_2d_decode_block_vert_NEON(l, h, n) = got

CaseBlock == \E s \in [Line(4) -> {-100, 3, 255}], t \in {<<0, 0, 0, 0>>, <<0, 255, 3, 255>>}, up \in BOOLEAN :
    dtCase' = [what |-> "block",
               s |-> [y \in Line(4) |-> [x \in Line(4) |->
                         IF (IF up THEN y ELSE x) % 2 = 0 THEN s[IF up THEN x ELSE y] ELSE t[y + 1]]]]
(* A block keeps every sample to within seven, and the three levels of a    *)
(* tile are undone in the opposite order, each where it was put.           *)
BlockReadsBack ==
    Is("block") =>
        LET got == rfx_dwt_2d_decode_block(rfx_dwt_2d_encode_block(dtCase.s, 2), 2)
        IN  /\ \A y, x \in Line(4) : dtCase.s[y][x] - got[y][x] \in -2 .. 7
            /\ rfx_dwt_2d.decode = [i \in 1 .. 3 |-> rfx_dwt_2d.encode[4 - i]]
            /\ \A i \in 1 .. 2 : rfx_dwt_2d.encode[i + 1].at
                                   = rfx_dwt_2d.encode[i].at + 3 * rfx_dwt_2d.encode[i].n^2

CaseQuant == \E i \in {0, 1023, 1024, 3071, 3072, 3839, 3840, 3967, 4031, 4032, 4095},
               v \in {-16384, -4096, -1000, -33, -1, 0, 1, 15, 16, 17, 500, 4095, 16383}, q \in 6 .. 15 :
    dtCase' = [what |-> "quant", i |-> i, v |-> v, q |-> [k \in 0 .. 9 |-> IF k = BandAt(i).q THEN q ELSE 6]]
(* Every sample of a tile is in one band; quantizing it and back loses at   *)
(* most half of what the factor cuts off, and the vector code does the same.*)
QuantizationReadsBack ==
    Is("quant") =>
        LET c == dtCase
            coded == rfx_quantization(c.v, c.i, c.q).encode
            f == c.q[BandAt(c.i).q] - 6
            back == coded * 2^(f + 5)
        IN  /\ c.v - back \in 0 - 2^(f + 4) - 2^f .. 2^(f + 4) + 2^f
            /\ (back \in -32768 .. 32767) => rfx_quantization(coded, c.i, c.q).decode = back
            /\ rfx_quantization_sse2(c.v, c.i, c.q).encode = coded
            /\ rfx_quantization_sse2(coded, c.i, c.q).decode = rfx_quantization(coded, c.i, c.q).decode
            /\ rfx_quantization_decode_NEON(32 * coded, c.i, c.q) = Short(back)
            /\ Cardinality({b \in Bands : c.i \in b.offset .. b.offset + b.size - 1}) = 1

CaseYcc == \E r, g, b \in {0, 1, 64, 127, 128, 200, 254, 255} : dtCase' = [what |-> "ycc", c |-> Colour(r, g, b)]
Near(p, q, e) == /\ p.r - q.r \in 0 - e .. e
                 /\ p.g - q.g \in 0 - e .. e
                 /\ p.b - q.b \in 0 - e .. e
NearYcc(p, q, e) == /\ p.y - q.y \in 0 - e .. e
                    /\ p.cb - q.cb \in 0 - e .. e
                    /\ p.cr - q.cr \in 0 - e .. e
(* A colour becomes luma and chroma and comes back within one of itself;     *)
(* the vector code back is within one of the plain one, and NEON's, which   *)
(* drops the fraction, within seven.                                       *)
ColourReadsBack ==
    Is("ycc") =>
        LET c == dtCase.c
            p == rfx_encode_rgb_to_ycbcr(c)
            back == rfx_decode_ycbcr_to_rgb(p)
            whole == Ycc(p.y \div 32, p.cb \div 32, p.cr \div 32)
        IN  /\ Near(back, c, 1)
            /\ NearYcc(rfx_encode_rgb_to_ycbcr_sse2(c), p, 31)
            /\ Near(rfx_decode_ycbcr_to_rgb_sse2(p), back, 1)
            /\ Near(rfx_decode_YCbCr_to_RGB_NEON(whole), back, 7)

-----------------------------------------------------------------------------
(* The messages of RemoteFX *)
CaseRfx == \E header \in BOOLEAN, rects \in {1, 2, 5}, quants \in {1, 3}, w \in {1, 63, 64, 65, 129}, h \in {1, 64},
              len \in {<<1, 2, 3>>, <<300, 0, 7>>} :
    dtCase' = [what |-> "rfx", header |-> header, rects |-> rects, quants |-> quants, w |-> w, h |-> h,
               tiles |-> Repeat(len, TilesAcross(w) * TilesAcross(h))]

Reader(block, c) ==
    CASE block.type \in DOMAIN rfx_process_message_header(1) -> rfx_process_message_header(1)[block.type]
      [] block.type = "EXTENSION" -> rfx_process_message_tileset(c.quants, c.tiles)
      [] OTHER -> rfx_process_message_frame(c.rects)[block.type]
Offsets(layout) == {Bytes(SubSeq(layout, 1, i)) : i \in 0 .. Len(layout)}

(* Every block that rfx_compose_message writes is as long as it says, so    *)
(* rfx_process_message finds every one of them; it reads each field where  *)
(* one was written and no further than the block goes, the codec version   *)
(* alone of the two bytes it has; and the tiles cover every pixel of the    *)
(* image once.                                                             *)
RfxMessageIsRead ==
    Is("rfx") =>
        LET c      == dtCase
            blocks == rfx_compose_message(c.header, c.rects, c.quants, c.tiles)
            size   == Bytes([i \in DOMAIN blocks |-> 6 + Bytes(blocks[i].body)])
            covers(pixels) == \A p \in 0 .. pixels - 1 :
                Cardinality({i \in 0 .. TilesAcross(pixels) - 1 :
                    LET t == TileSide(pixels, i) IN p \in t.from .. t.from + t.size - 1}) = 1
        IN  /\ \A i \in DOMAIN blocks : blocks[i].length = 6 + Bytes(blocks[i].body)
            /\ rfx_process_message(blocks, size) = DOMAIN blocks
            /\ \A i \in DOMAIN blocks :
                 LET read == (IF HasIds(blocks[i].type) THEN <<1, 1>> ELSE << >>) \o Reader(blocks[i], c)
                 IN  /\ Bytes(read) <= Bytes(blocks[i].body)
                     /\ blocks[i].type \notin {"CODEC_VERSIONS", "EXTENSION"} =>
                          Offsets(read) \subseteq Offsets(blocks[i].body)
                     /\ blocks[i].type = "EXTENSION" => Bytes(read) = Bytes(blocks[i].body)
            /\ covers(c.w) /\ covers(c.h)

CaseQuantBytes == \E a, b \in {0, 6, 15}, k \in 1 .. 10, flags \in {0, 2}, rlgr1 \in BOOLEAN :
    dtCase' = [what |-> "properties", q |-> [i \in 1 .. 10 |-> IF i = k THEN a ELSE b],
               flags |-> flags, rlgr1 |-> rlgr1]
(* The quantization values and the entropy mode reach the other side. *)
RfxPropertiesAreRead ==
    Is("properties") =>
        /\ QuantValues(QuantBytes(dtCase.q)) = dtCase.q
        /\ ReadMode(ContextProperties(dtCase.flags, dtCase.rlgr1)) = (IF dtCase.rlgr1 THEN "RLGR1" ELSE "RLGR3")
        /\ ContextProperties(dtCase.flags, dtCase.rlgr1) % 8 = dtCase.flags

-----------------------------------------------------------------------------
(* NSCodec *)
SameRun(s) == CHOOSE n \in 1 .. Len(s) : /\ \A i \in 1 .. n : s[i] = s[1]
                                         /\ n < Len(s) => s[n + 1] # s[1]
RECURSIVE NscEncoded(_)
NscEncoded(s) ==
    IF Len(s) <= 5 THEN s
    ELSE LET all == SameRun(s)
             n   == IF all > Len(s) - 4 THEN Len(s) - 4 ELSE all
         IN  IF n = 1 THEN <<s[1]>> \o NscEncoded(Tail(s))
             ELSE <<s[1], s[1]>> \o (IF n - 2 < 255 THEN <<n - 2>> ELSE <<255, n % 256, n \div 256, 0, 0>>)
                  \o NscEncoded(SubSeq(s, n + 1, Len(s)))
NscPlanes == [1 .. 7 -> {0, 9}] \cup {Repeat(a, n) \o Repeat(b, m) : a, b \in {0, 9}, n \in {4, 5, 6, 256, 257, 261, 300}, m \in {0, 1, 4}}
CaseNscRle == \E p \in NscPlanes : dtCase' = [what |-> "nscrle", p |-> p]
(* A plane coded with runs is decoded to itself, taking exactly its bytes:   *)
(* runs of two up to those whose length has bytes of its own, and the last *)
(* bytes, which are always plain.                                          *)
NscRunsAreRead ==
    Is("nscrle") => nsc_rle_decode(NscEncoded(dtCase.p) \o <<1, 2>>, Len(dtCase.p))
                      = [in |-> <<1, 2>>, out |-> dtCase.p]

CaseNscChroma == \E w \in 1 .. 10, h \in 1 .. 5 : dtCase' = [what |-> "chroma", w |-> w, h |-> h]
(* With smaller chroma planes every pixel has the luma of its own place and *)
(* the chroma of the block of four it is in, whatever the padding.         *)
NscChromaIsSpread ==
    Is("chroma") =>
        LET w == dtCase.w  h == dtCase.h
            size == nsc_context_initialize(w, h, TRUE)
            lines == RoundUp(w, 8)
            planes == [k \in 1 .. 3 |-> [i \in 1 .. size[k] |-> i - 1]]
            got == nsc_chroma_supersample(planes, w, h)
        IN  /\ Len(got.luma) = w * h
            /\ \A k \in {2, 3} : DOMAIN got.chroma[k] = 0 .. w * h - 1
            /\ \A x \in 0 .. w - 1, y \in 0 .. h - 1 :
                 /\ got.luma[y * w + x + 1] = y * lines + x
                 /\ \A k \in {2, 3} : got.chroma[k][y * w + x] = (y \div 2) * (lines \div 2) + x \div 2

CaseNsc == \E r, g, b \in {0, 1, 100, 254, 255}, cllvl \in 1 .. 3, sub \in BOOLEAN, alpha \in BOOLEAN :
    dtCase' = [what |-> "nsc", r |-> r, g |-> g, b |-> b, cllvl |-> cllvl, sub |-> sub, alpha |-> alpha]
Apart(a, b, e) == a - b \in 0 - e .. e
(* A picture of one colour, coded at a colour loss level, comes back within *)
(* what the level cuts off; without an alpha plane it is opaque.           *)
NscColourReadsBack ==
    Is("nsc") =>
        LET c == dtCase  w == 3  h == 2
            y  == (c.r + 2 * c.g + c.b) \div 4
            co == ((c.r - c.b) \div 2^c.cllvl) % 256
            cg == ((2 * c.g - c.r - c.b) \div 2^(c.cllvl + 1)) % 256
            size == nsc_context_initialize(w, h, c.sub)
            code(v, n) == LET runs == NscEncoded(Repeat(v, n))
                          IN  IF Len(runs) < n THEN runs ELSE Repeat(v, n)
            data == code(y, size[1]) \o code(co, size[2]) \o code(cg, size[3])
                    \o (IF c.alpha THEN Repeat(7, size[4]) ELSE << >>)
            count == <<Len(code(y, size[1])), Len(code(co, size[2])), Len(code(cg, size[3])),
                       IF c.alpha THEN size[4] ELSE 0>>
            got == nsc_process_message(data, count, c.cllvl, c.sub, w, h)
            e == 2^c.cllvl + 1
        IN  /\ Bytes(nsc_stream_initialize) = 20
            /\ \A i \in 0 .. w * h - 1 :
                 /\ Apart(got[i][1], c.b, e) /\ Apart(got[i][2], c.g, e) /\ Apart(got[i][3], c.r, e)
                 /\ got[i][4] = (IF c.alpha THEN 7 ELSE 255)

-----------------------------------------------------------------------------
(* The bulk compression: how the comments of mppc.c lay out a token *)
BitsOf(v, n) == [i \in 1 .. n |-> (v \div 2^(n - i)) % 2]
LiteralBits(b) == IF b < 128 THEN BitsOf(b, 8) ELSE <<1, 0>> \o BitsOf(b - 128, 7)
OffsetBits(o, five) ==
    IF ~five THEN IF o < 64 THEN <<1, 1, 1, 1>> \o BitsOf(o, 6)
                  ELSE IF o < 320 THEN <<1, 1, 1, 0>> \o BitsOf(o - 64, 8)
                  ELSE <<1, 1, 0>> \o BitsOf(o - 320, 13)
    ELSE IF o < 64 THEN <<1, 1, 1, 1, 1>> \o BitsOf(o, 6)
    ELSE IF o < 320 THEN <<1, 1, 1, 1, 0>> \o BitsOf(o - 64, 8)
    ELSE IF o < 2368 THEN <<1, 1, 1, 0>> \o BitsOf(o - 320, 11)
    ELSE <<1, 1, 0>> \o BitsOf(o - 2368, 16)
LengthBits(l) ==
    IF l = 3 THEN <<0>>
    ELSE LET n == CHOOSE n \in 1 .. 14 : l \in 2^(n + 1) .. 2^(n + 2) - 1
         IN  Repeat(1, n) \o <<0>> \o BitsOf(l - 2^(n + 1), n + 1)
TokenBits(t, five) == IF Len(t) = 1 THEN LiteralBits(t[1]) ELSE OffsetBits(t[2 - 1], five) \o LengthBits(t[2])
SomeTokens(five) ==
    {<<0>>, <<127>>, <<128>>, <<255>>}
    \cup {<<o, l>> : o \in {1, 319, 320, 8191} \cup (IF five THEN {2367, 65535} ELSE {}),
                     l \in {3, 4, 4096} \cup (IF five THEN {32769} ELSE {})}
    \cup {<<o, 7>> : o \in {63, 64} \cup (IF five THEN {2368} ELSE {})} \cup {<<5, l>> : l \in {8, 511, 8191}}
CaseTokens == \E five \in BOOLEAN : \E a, b \in SomeTokens(five), c \in {<<65>>, <<200>>, <<63, 8>>} :
    dtCase' = [what |-> "tokens", five |-> five, t |-> <<a, b, c>>]
(* Literals and copies packed at any bit come out as they went in, for the   *)
(* offsets and lengths at the ends of every range of the two code tables.  *)
TokensAreRead ==
    Is("tokens") =>
        LET bits   == FlattenSeq([i \in DOMAIN dtCase.t |-> TokenBits(dtCase.t[i], dtCase.five)])
            padded == bits \o Repeat(0, (8 - (Len(bits) % 8)) % 8)
        IN  (IF dtCase.five THEN decompress_rdp_5(padded) ELSE decompress_rdp_4(padded)) = dtCase.t

CodecNext ==
    \/ CaseRlgr \/ CaseDifferences \/ CaseLine \/ CaseBlock \/ CaseQuant \/ CaseYcc
    \/ CaseRfx \/ CaseQuantBytes \/ CaseNscRle \/ CaseNscChroma \/ CaseNsc \/ CaseTokens
=============================================================================
