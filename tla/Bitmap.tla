------------------------------- MODULE Bitmap -------------------------------
(***************************************************************************)
(* Bitmaps in libfreerdp-codec: the decompressors and the colour           *)
(* conversions.                                                            *)
(***************************************************************************)
EXTENDS Integers, Sequences, SequencesExt, Bitwise

-----------------------------------------------------------------------------
(* The two bitmap decompressors of libfreerdp-codec.                       *)
(*                                                                         *)
(* RleDecompress is include/bitmap.c, the interleaved run-length code that *)
(* bitmap.c compiles for 8, 16 and 24 bits per pixel; a pixel is one       *)
(* element here, so the three copies are this one (the macros they differ  *)
(* in only say how many bytes a pixel takes).  bitmap_decompress4 and      *)
(* process_rle_plane are the planar code of 32 bits per pixel.  A source   *)
(* is a sequence of numbers below 256, an image a sequence of pixels.      *)

BLACK_PIXEL == 0
WHITE_PIXEL == 255

MegaMega == {240, 241, 246, 248, 243, 242, 247, 244}
Special == {249, 250, 253, 254}

(* The code of an order from its first byte. *)
ExtractCodeId(bOrderHdr) ==
    IF bOrderHdr \in MegaMega \cup Special THEN bOrderHdr
    ELSE IF bOrderHdr \div 32 \in {0, 1, 2, 3, 4} THEN bOrderHdr \div 32
    ELSE bOrderHdr \div 16

(* How long the run of an order is and how many bytes say so. *)
Run(length, advance) == [length |-> length, advance |-> advance]
ExtractRunLength(code, hdr) ==
    LET short == IF code \in {12, 13, 14} THEN hdr[1] % 16 ELSE hdr[1] % 32
    IN  IF code \in MegaMega THEN Run(hdr[2] + 256 * hdr[3], 3)
        ELSE IF code \in {2, 13}
        THEN IF short = 0 THEN Run(hdr[2] + 1, 2) ELSE Run(short * 8, 1)
        ELSE IF short # 0 THEN Run(short, 1)
        ELSE Run(hdr[2] + (IF code \in {12, 14} THEN 16 ELSE 32), 2)

(* The pixel above the one written next. *)
Above(dest, rowDelta) == dest[Len(dest) - rowDelta + 1]

(* n pixels, each made from the pixel above it; on the first line that is   *)
(* black, which the XOR with it leaves alone.                              *)
RECURSIVE WriteRun(_, _, _, _, _)
WriteRun(dest, rowDelta, first, n, pel) ==
    IF n <= 0 THEN dest
    ELSE LET up == IF first THEN BLACK_PIXEL ELSE Above(dest, rowDelta)
         IN  WriteRun(Append(dest, up ^^ pel), rowDelta, first, n - 1, pel)

MaskBit(bitmask, i) == (bitmask \div 2^i) % 2 = 1

(* Up to eight pixels, the lowest bit of the mask first. *)
WriteFgBgImage(dest, rowDelta, bitmask, fgPel, cBits) ==
    FoldLeft(LAMBDA d, i : Append(d, IF MaskBit(bitmask, i)
                                     THEN Above(d, rowDelta) ^^ fgPel
                                     ELSE Above(d, rowDelta)),
             dest, [i \in 1 .. cBits |-> i - 1])
WriteFirstLineFgBgImage(dest, bitmask, fgPel, cBits) ==
    dest \o [i \in 1 .. cBits |->
                IF MaskBit(bitmask, i - 1) THEN fgPel ELSE BLACK_PIXEL]
FgBg(dest, rowDelta, first, bitmask, fgPel, cBits) ==
    IF first THEN WriteFirstLineFgBgImage(dest, bitmask, fgPel, cBits)
    ELSE WriteFgBgImage(dest, rowDelta, bitmask, fgPel, cBits)

(* A mask byte for every eight pixels of the run, the last for the rest.    *)
RECURSIVE FgBgRun(_, _, _, _, _, _)
FgBgRun(dest, rowDelta, first, src, fgPel, n) ==
    IF n <= 0 THEN [dest |-> dest, src |-> src]
    ELSE FgBgRun(FgBg(dest, rowDelta, first, Head(src), fgPel,
                      IF n > 8 THEN 8 ELSE n),
                 rowDelta, first, Tail(src), fgPel, n - 8)

(* One order: st is the source left, the pixels written, the foreground,    *)
(* whether a background run has just ended and whether the first line is   *)
(* still being written.                                                    *)
BackgroundRun(st, rowDelta, run, src) ==
    LET d == IF st.insert
             THEN WriteRun(st.dest, rowDelta, st.first, 1, st.fg) ELSE st.dest
    IN  [st EXCEPT !.src = src, !.insert = TRUE,
                   !.dest = WriteRun(d, rowDelta, st.first,
                                     run - (IF st.insert THEN 1 ELSE 0), 0)]
OtherOrder(s0, rowDelta, code, run, src) ==
    LET sets == code \in {12, 246, 13, 247}
        fg   == IF sets THEN src[1] ELSE s0.fg
        rest == IF sets THEN Tail(src) ELSE src
        st   == [s0 EXCEPT !.insert = FALSE, !.fg = fg]
    IN  CASE code \in {1, 241, 12, 246} ->
               [st EXCEPT !.src = rest,
                          !.dest = WriteRun(@, rowDelta, st.first, run, fg)]
          [] code \in {14, 248} ->
               [st EXCEPT !.src = SubSeq(src, 3, Len(src)),
                          !.dest = @ \o [i \in 1 .. 2 * run |->
                                            src[IF i % 2 = 1 THEN 1 ELSE 2]]]
          [] code \in {3, 243} ->
               [st EXCEPT !.src = Tail(src),
                          !.dest = @ \o [i \in 1 .. run |-> src[1]]]
          [] code \in {2, 242, 13, 247} ->
               LET w == FgBgRun(st.dest, rowDelta, st.first, rest, fg, run)
               IN  [st EXCEPT !.src = w.src, !.dest = w.dest]
          [] code \in {4, 244} ->
               [st EXCEPT !.src = SubSeq(src, run + 1, Len(src)),
                          !.dest = @ \o SubSeq(src, 1, run)]
          [] code \in {249, 250} ->
               [st EXCEPT !.src = src,
                          !.dest = FgBg(@, rowDelta, st.first,
                                        IF code = 249 THEN 3 ELSE 5, fg, 8)]
          [] code = 253 -> [st EXCEPT !.src = src, !.dest = Append(@, WHITE_PIXEL)]
          [] code = 254 -> [st EXCEPT !.src = src, !.dest = Append(@, BLACK_PIXEL)]

RECURSIVE RleLoop(_, _)
RleLoop(s0, rowDelta) ==
    IF s0.src = << >> THEN s0.dest
    ELSE LET past == s0.first /\ Len(s0.dest) >= rowDelta
             st   == IF past THEN [s0 EXCEPT !.first = FALSE, !.insert = FALSE]
                     ELSE s0
             code == ExtractCodeId(Head(st.src))
             run  == IF code \in Special THEN Run(0, 1)
                     ELSE ExtractRunLength(code, st.src)
             src  == SubSeq(st.src, run.advance + 1, Len(st.src))
         IN  RleLoop(IF code \in {0, 240}
                     THEN BackgroundRun(st, rowDelta, run.length, src)
                     ELSE OtherOrder(st, rowDelta, code, run.length, src),
                     rowDelta)
RleDecompress(src, rowDelta) ==
    RleLoop([src |-> src, dest |-> << >>, fg |-> WHITE_PIXEL,
             insert |-> FALSE, first |-> TRUE], rowDelta)

(* A scan line upside down: in place by swaps over the upper half, to a     *)
(* buffer of its own line by line.                                         *)
Swap(image, i, j) == [image EXCEPT ![i] = image[j], ![j] = image[i]]
freerdp_bitmap_flip(rows, inPlace) ==
    LET n == Len(rows)
    IN  IF inPlace
        THEN FoldLeft(LAMBDA r, i : Swap(r, i, n + 1 - i), rows,
                      [i \in 1 .. n \div 2 |-> i])
        ELSE [i \in 1 .. n |-> rows[n + 1 - i]]
freerdp_image_flip(rows, given) == freerdp_bitmap_flip(rows, FALSE)

(* The lines of an image of the given width. *)
Rows(image, width) ==
    [y \in 1 .. Len(image) \div width |->
        SubSeq(image, (y - 1) * width + 1, y * width)]

(* A plane of 32 bits per pixel: the first line is literal, every other one *)
(* the difference to the line above it, the sign in the lowest bit.  A run *)
(* ends with its line.                                                     *)
Delta(x) == IF x % 2 = 1 THEN 0 - (x \div 2 + 1) ELSE x \div 2
RECURSIVE PlaneRuns(_, _, _, _, _)
PlaneRuns(in, out, color, width, height) ==
    IF Len(out) >= width * height THEN [in |-> in, out |-> out]
    ELSE LET col     == IF Len(out) % width = 0 THEN 0 ELSE color
             first   == Len(out) < width
             nibbles == [rep |-> in[1] % 16, col |-> in[1] \div 16]
             revcode == nibbles.rep * 16 + nibbles.col
             long    == revcode \in 16 .. 47
             replen  == IF long THEN revcode ELSE nibbles.rep
             collen  == IF long THEN 0 ELSE nibbles.col
             step    == [i \in 1 .. collen + replen |->
                            IF i <= collen
                            THEN IF first THEN in[1 + i] ELSE Delta(in[1 + i])
                            ELSE IF collen = 0 THEN col
                            ELSE IF first THEN in[1 + collen]
                            ELSE Delta(in[1 + collen])]
             put     == [i \in DOMAIN step |->
                            IF first THEN step[i]
                            ELSE (out[Len(out) + i - width] + step[i]) % 256]
         IN  PlaneRuns(SubSeq(in, collen + 2, Len(in)), out \o put,
                       IF step = << >> THEN col ELSE step[Len(step)],
                       width, height)
process_rle_plane(in, width, height) ==
    LET r == PlaneRuns(in, << >>, 0, width, height)
    IN  [used |-> Len(in) - Len(r.in), out |-> r.out]

(* The planes alpha, red, green and blue as pixels, the last line first. *)
unsplit4(planes, width) ==
    LET image == [i \in 1 .. Len(planes[1]) |->
                    <<planes[1][i], planes[2][i], planes[3][i], planes[4][i]>>]
    IN  FlattenSeq(Reverse(Rows(image, width)))

(* The first byte says whether the planes are run-length coded and whether  *)
(* alpha is left out; the planes follow, and a pad byte when they are plain.*)
NextPlane(st, rle, width, height) ==
    IF rle
    THEN LET p == process_rle_plane(st.src, width, height)
         IN  [src |-> SubSeq(st.src, p.used + 1, Len(st.src)),
              planes |-> Append(st.planes, p.out), total |-> st.total + p.used]
    ELSE [src |-> SubSeq(st.src, width * height + 1, Len(st.src)),
          planes |-> Append(st.planes, SubSeq(st.src, 1, width * height)),
          total |-> st.total + width * height]
bitmap_decompress4(src, width, height, size) ==
    LET rle     == (src[1] \div 16) % 2 = 1
        noAlpha == (src[1] \div 32) % 2 = 1
        opaque  == [i \in 1 .. width * height |-> 255]
        start   == [src |-> Tail(src), planes |-> << >>, total |-> 1]
        alpha   == IF noAlpha THEN [start EXCEPT !.planes = <<opaque>>]
                   ELSE NextPlane(start, rle, width, height)
        all     == FoldLeft(LAMBDA st, i : NextPlane(st, rle, width, height),
                            alpha, <<1, 2, 3>>)
        total   == all.total + (IF rle THEN 0 ELSE 1)
    IN  [ok |-> total = size, image |-> unsplit4(all.planes, width)]

(* What the caller gets, for equal depths only. *)
bitmap_decompress_ex(src, width, height, srcBpp, dstBpp) ==
    IF srcBpp # dstBpp \/ srcBpp \notin {8, 15, 16, 24, 32}
    THEN [ok |-> FALSE, image |-> << >>]
    ELSE IF srcBpp = 32 THEN bitmap_decompress4(src, width, height, Len(src))
    ELSE [ok |-> TRUE,
          image |-> FlattenSeq(freerdp_bitmap_flip(
                        Rows(RleDecompress(src, width), width), TRUE))]
bitmap_decompress(src, width, height, srcBpp, dstBpp) ==
    bitmap_decompress_ex(src, width, height, srcBpp, dstBpp)

-----------------------------------------------------------------------------
(* The colour conversions of libfreerdp-codec (color.c, and the macros of  *)
(* include/freerdp/codec/color.h).                                         *)
(*                                                                         *)
(* A colour that drawing code handles is a record of its bytes.  A pixel   *)
(* of 24 or 32 bits is the sequence of its bytes from the highest to the   *)
(* lowest, <<a, r, g, b>> where red is in the high place; a pixel of 15    *)
(* or 16 bits is a number.  conv is the HCLRCONV: the fields alpha, invert *)
(* and rgb555, and the palette as a function from numbers to colours.      *)

Rgb(r, g, b) == [r |-> r, g |-> g, b |-> b]
Swapped(c) == Rgb(c.b, c.g, c.r)

(* Five or six bits widened to eight by repeating the upper ones, and back. *)
Wide5(v) == v * 8 + v \div 4
Wide6(v) == v * 4 + v \div 16
RGB_555_565(c) == [c EXCEPT !.g = @ * 2 + @ \div 16]
RGB_565_555(c) == [c EXCEPT !.g = @ \div 2]
RGB_555_888(c) == Rgb(Wide5(c.r), Wide5(c.g), Wide5(c.b))
RGB_565_888(c) == Rgb(Wide5(c.r), Wide6(c.g), Wide5(c.b))
RGB_888_565(c) == Rgb(c.r \div 8, c.g \div 4, c.b \div 8)
RGB_888_555(c) == Rgb(c.r \div 8, c.g \div 8, c.b \div 8)

RGB555(c) == (c.r % 32) * 1024 + (c.g % 32) * 32 + (c.b % 32)
RGB15(c) == RGB555(RGB_888_555(c))
GetRGB_555(p) == Rgb((p \div 1024) % 32, (p \div 32) % 32, p % 32)
GetRGB15(p) == RGB_555_888(GetRGB_555(p))
BGR555(c) == RGB555(Swapped(c))
BGR15(c) == RGB15(Swapped(c))
GetBGR15(p) == Swapped(GetRGB15(p))
RGB565(c) == (c.r % 32) * 2048 + (c.g % 64) * 32 + (c.b % 32)
RGB16(c) == RGB565(RGB_888_565(c))
GetRGB_565(p) == Rgb((p \div 2048) % 32, (p \div 32) % 64, p % 32)
GetRGB16(p) == RGB_565_888(GetRGB_565(p))
BGR565(c) == RGB565(Swapped(c))
BGR16(c) == RGB16(Swapped(c))
GetBGR16(p) == Swapped(GetRGB16(p))
ARGB32(a, c) == <<a, c.r, c.g, c.b>>
ABGR32(a, c) == <<a, c.b, c.g, c.r>>
RGB32(c) == ARGB32(0, c)
BGR32(c) == ABGR32(0, c)
GetRGB32(p) == Rgb(p[2], p[3], p[4])
GetBGR32(p) == Rgb(p[4], p[3], p[2])
RGB15_RGB16(p) == RGB565(RGB_555_565(GetRGB_555(p)))
RGB16_RGB15(p) == RGB555(RGB_565_555(GetRGB_565(p)))

(* A pixel of bpp bits as red, green, blue and alpha, red in the high place *)
(* (rgb) or in the low one (bgr).                                          *)
Alpha(p, bpp, conv) ==
    IF ~conv.alpha THEN 0 ELSE IF bpp = 32 THEN p[1] ELSE 255
Plain(p, bpp, conv) ==
    IF bpp = 8 THEN conv.palette[p % 256]
    ELSE IF bpp = 1 THEN IF p # 0 THEN Rgb(255, 255, 255) ELSE Rgb(0, 0, 0)
    ELSE Rgb(0, 0, 0)
freerdp_color_split_rgb(p, bpp, conv) ==
    [c |-> CASE bpp \in {24, 32} -> GetRGB32(p)
             [] bpp = 16 -> GetRGB16(p)
             [] bpp = 15 -> GetRGB15(p)
             [] OTHER -> Plain(p, bpp, conv),
     a |-> Alpha(p, bpp, conv)]
freerdp_color_split_bgr(p, bpp, conv) ==
    [c |-> CASE bpp \in {24, 32} -> GetBGR32(p)
             [] bpp = 16 -> GetBGR16(p)
             [] bpp = 15 -> GetBGR15(p)
             [] OTHER -> Plain(p, bpp, conv),
     a |-> Alpha(p, bpp, conv)]

Mono(c) == IF c.r # 0 \/ c.g # 0 \/ c.b # 0 THEN 1 ELSE 0
freerdp_color_make_rgb(s, bpp, conv) ==
    CASE bpp = 32 -> ARGB32(s.a, s.c)
      [] bpp \in {24, 8} -> RGB32(s.c)
      [] bpp = 16 -> IF conv.rgb555 THEN RGB15(s.c) ELSE RGB16(s.c)
      [] bpp = 15 -> RGB15(s.c)
      [] bpp = 1 -> Mono(s.c)
freerdp_color_make_bgr(s, bpp, conv) ==
    CASE bpp = 32 -> ABGR32(s.a, s.c)
      [] bpp \in {24, 8} -> BGR32(s.c)
      [] bpp = 16 -> IF conv.rgb555 THEN BGR15(s.c) ELSE BGR16(s.c)
      [] bpp = 15 -> BGR15(s.c)
      [] bpp = 1 -> Mono(s.c)

freerdp_color_convert_rgb(p, srcBpp, dstBpp, conv) ==
    freerdp_color_make_rgb(freerdp_color_split_rgb(p, srcBpp, conv), dstBpp, conv)
freerdp_color_convert_bgr(p, srcBpp, dstBpp, conv) ==
    freerdp_color_make_bgr(freerdp_color_split_bgr(p, srcBpp, conv), dstBpp, conv)
freerdp_color_convert_rgb_bgr(p, srcBpp, dstBpp, conv) ==
    freerdp_color_make_bgr(freerdp_color_split_rgb(p, srcBpp, conv), dstBpp, conv)
freerdp_color_convert_bgr_rgb(p, srcBpp, dstBpp, conv) ==
    freerdp_color_make_rgb(freerdp_color_split_bgr(p, srcBpp, conv), dstBpp, conv)
freerdp_color_convert_var_rgb(p, srcBpp, conv) ==
    IF srcBpp > 16 THEN freerdp_color_convert_bgr_rgb(p, srcBpp, 32, conv)
    ELSE freerdp_color_convert_rgb(p, srcBpp, 32, conv)
freerdp_color_convert_var_bgr(p, srcBpp, conv) ==
    IF srcBpp > 16 THEN freerdp_color_convert_bgr(p, srcBpp, 32, conv)
    ELSE freerdp_color_convert_rgb_bgr(p, srcBpp, 32, conv)
freerdp_color_convert_var(p, srcBpp, conv) ==
    IF conv.invert THEN freerdp_color_convert_var_bgr(p, srcBpp, conv)
    ELSE freerdp_color_convert_var_rgb(p, srcBpp, conv)

(* The pixels of an image, one by one; a depth no branch knows leaves the   *)
(* source as it is.  A 24-bit pixel has no first byte of its own.          *)
To32(c, conv) == IF conv.invert THEN RGB32(c) ELSE BGR32(c)
freerdp_image_convert_8bpp(p, dstBpp, conv) ==
    LET c == conv.palette[p]
    IN  CASE dstBpp = 15 \/ (dstBpp = 16 /\ conv.rgb555) ->
               IF conv.invert THEN BGR15(c) ELSE RGB15(c)
          [] dstBpp = 16 /\ ~conv.rgb555 ->
               IF conv.invert THEN BGR16(c) ELSE RGB16(c)
          [] dstBpp = 32 -> To32(c, conv)
          [] OTHER -> p
freerdp_image_convert_15bpp(p, dstBpp, conv) ==
    IF dstBpp = 32 THEN To32(GetBGR15(p), conv)
    ELSE IF dstBpp = 16 /\ ~conv.rgb555
    THEN LET c == RGB_555_565(GetRGB_555(p))
         IN  IF conv.invert THEN BGR565(c) ELSE RGB565(c)
    ELSE p
Bytes24(c, conv) == IF conv.invert THEN <<0, c.r, c.g, c.b>>
                    ELSE <<0, c.b, c.g, c.r>>
freerdp_image_convert_16bpp(p, srcBpp, dstBpp, conv) ==
    IF srcBpp = 15 THEN freerdp_image_convert_15bpp(p, dstBpp, conv)
    ELSE IF dstBpp = 16 /\ conv.rgb555
    THEN LET c == RGB_565_555(GetRGB_565(p))
         IN  IF conv.invert THEN BGR555(c) ELSE RGB555(c)
    ELSE IF dstBpp = 24 THEN Bytes24(GetBGR16(p), conv)
    ELSE IF dstBpp = 32 THEN To32(GetBGR16(p), conv)
    ELSE p
freerdp_image_convert_24bpp(p, dstBpp, conv) ==
    IF dstBpp = 32 THEN <<255, p[2], p[3], p[4]>> ELSE p
freerdp_image_convert_32bpp(p, dstBpp, conv) ==
    CASE dstBpp = 16 ->
           LET c == Swapped(GetBGR32(p))
           IN  IF conv.invert THEN BGR16(c) ELSE RGB16(c)
      [] dstBpp = 24 ->
           IF conv.invert THEN <<0, p[4], p[3], p[2]>>
           ELSE <<0, p[2], p[3], p[4]>>
      [] dstBpp = 32 -> IF conv.alpha THEN <<255, p[2], p[3], p[4]>> ELSE p
      [] OTHER -> p
freerdp_image_convert(p, srcBpp, dstBpp, conv) ==
    CASE srcBpp = 8 -> freerdp_image_convert_8bpp(p, dstBpp, conv)
      [] srcBpp \in {15, 16} -> freerdp_image_convert_16bpp(p, srcBpp, dstBpp, conv)
      [] srcBpp = 24 -> freerdp_image_convert_24bpp(p, dstBpp, conv)
      [] srcBpp = 32 -> freerdp_image_convert_32bpp(p, dstBpp, conv)
freerdp_image_swap_color_order(p) == <<p[1], p[4], p[3], p[2]>>

(* Bits of bytes, the highest first; a one-bit image pads its lines to       *)
(* whole bytes.  Places count from 0.                                      *)
HighBit(byte, i) == (byte \div 2^(7 - i)) % 2 = 1
freerdp_get_pixel(data, x, y, width, bpp) ==
    IF bpp = 1
    THEN LET line == (width + 7) \div 8
         IN  IF HighBit(data[y * line + x \div 8 + 1], x % 8) THEN 1 ELSE 0
    ELSE IF bpp = 24
    THEN LET p == data[y * width + x + 1] IN <<0, p[4], p[3], p[2]>>
    ELSE data[y * width + x + 1]

freerdp_glyph_convert(width, height, data) ==
    LET line == (width + 7) \div 8
    IN  [y \in 0 .. height - 1 |-> [x \in 0 .. width - 1 |->
            IF HighBit(data[y * line + x \div 8 + 1], x % 8) THEN 255 ELSE 0]]

(* A brush of one bit per pixel; its lines are eight pixels. *)
freerdp_mono_image_convert(rows, srcBpp, dstBpp, bg, fg, conv) ==
    LET from(c) == CASE srcBpp = 8 -> conv.palette[c % 256]
                     [] srcBpp = 16 -> GetRGB16(c)
                     [] srcBpp = 15 -> GetRGB15(c)
                     [] OTHER -> GetRGB32(c)
        to(c) == IF dstBpp = 32
                 THEN IF conv.invert THEN BGR32(from(c)) ELSE RGB32(from(c))
                 ELSE IF conv.rgb555 /\ srcBpp = 16 THEN RGB16_RGB15(c)
                 ELSE IF ~conv.rgb555 /\ srcBpp = 15 THEN RGB15_RGB16(c)
                 ELSE c
    IN  [y \in DOMAIN rows |-> [x \in 0 .. 7 |->
            IF HighBit(rows[y], x) THEN to(bg) ELSE to(fg)]]

(* The transparency of a window icon: the mask is read bit after bit, its   *)
(* byte chosen afresh when the count of pixels is a multiple of eight.     *)
freerdp_icon_convert(mask, width, height) ==
    [y \in 0 .. height - 1 |-> [x \in 0 .. width - 1 |->
        LET pixel == y * width + x
        IN  IF HighBit(mask[pixel \div 8 + 1], pixel % 8) THEN 0 ELSE 255]]

(* A pointer: the AND mask decides between the colour, an inverted dot      *)
(* pattern for the screen's inverse and full transparency.                 *)
freerdp_alpha_cursor_convert(xorMask, andMask, width, height, bpp, conv) ==
    [j \in 0 .. height - 1 |-> [i \in 0 .. width - 1 |->
        LET jj == IF bpp = 1 THEN j ELSE (height - 1) - j
            x  == freerdp_color_convert_rgb(
                    freerdp_get_pixel(xorMask, i, jj, width, bpp), bpp, 32, conv)
            a  == freerdp_get_pixel(andMask, i, jj, width, 1)
        IN  IF a # 0 /\ Tail(x) = <<255, 255, 255>>
            THEN IF i % 2 = j % 2 THEN <<255, 255, 255, 255>> ELSE <<255, 0, 0, 0>>
            ELSE IF a # 0 /\ x = <<255, 0, 0, 0>> THEN <<0, 0, 0, 0>>
            ELSE x]]
=============================================================================
