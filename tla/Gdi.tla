-------------------------------- MODULE Gdi ---------------------------------
(***************************************************************************)
(* The software rasteriser of libfreerdp-gdi: the raster operations of the *)
(* three depths on one bit of a pixel, and the shapes, clipping, copies    *)
(* and lines that apply them.                                              *)
(***************************************************************************)
EXTENDS Integers, Sequences, FiniteSetsExt

-----------------------------------------------------------------------------
(* The raster operations of libfreerdp-gdi/8bpp.c, 16bpp.c and 32bpp.c on  *)
(* the bits of a pixel: d of the destination, s of the source, p of the    *)
(* brush or text colour.  Every BitBlt_<rop>_<depth> works on all bits of  *)
(* a pixel alike, so one bit stands for all; the functions are grouped in  *)
(* the order of the files, one field for each.  The loops over the rows    *)
(* and columns are below.  Glyphs (DSPDxax) are not drawn with 8 bits:     *)
(* "TODO: Implement".  The fourth byte of a pixel of 32 bits, which is not *)
(* drawn, is left out.                                                     *)

BitBlt_Copy_8bpp(d, s, p) ==
    [BLACKNESS |-> FALSE, WHITENESS |-> TRUE, SRCCOPY |-> s,
     NOTSRCCOPY |-> ~s, DSTINVERT |-> ~d]
BitBlt_Source_8bpp(d, s, p) ==
    [SRCERASE |-> s /\ ~d, NOTSRCERASE |-> ~s /\ ~d, SRCINVERT |-> d # s,
     SRCAND |-> d /\ s, SRCPAINT |-> d \/ s]
BitBlt_Mask_8bpp(d, s, p) ==
    [DSPDxax |-> d, SPna |-> s /\ ~p, PDxn |-> d # ~p, DSna |-> ~s /\ d,
     MERGECOPY |-> s /\ p, MERGEPAINT |-> ~s \/ d]
BitBlt_Pattern_8bpp(d, s, p) ==
    [PATCOPY |-> p, PATINVERT |-> p # d]

BitBlt_8bpp(rop, d, s, p) ==
    CASE rop \in DOMAIN BitBlt_Copy_8bpp(d, s, p) -> BitBlt_Copy_8bpp(d, s, p)[rop]
      [] rop \in DOMAIN BitBlt_Source_8bpp(d, s, p) -> BitBlt_Source_8bpp(d, s, p)[rop]
      [] rop \in DOMAIN BitBlt_Mask_8bpp(d, s, p) \ {"PDxn"} -> BitBlt_Mask_8bpp(d, s, p)[rop]
      [] rop \in DOMAIN BitBlt_Pattern_8bpp(d, s, p) -> BitBlt_Pattern_8bpp(d, s, p)[rop]
      [] rop = "PATPAINT" -> d \/ (p \/ ~s)
      [] OTHER -> d      \* unknown rop

PatBlt_8bpp(rop, d, p) ==
    CASE rop \in {"PATCOPY", "PATINVERT"} -> BitBlt_Pattern_8bpp(d, FALSE, p)[rop]
      [] rop \in {"DSTINVERT", "BLACKNESS", "WHITENESS"} -> BitBlt_Copy_8bpp(d, FALSE, p)[rop]
      [] rop \in {"PDxn"} -> BitBlt_Mask_8bpp(d, FALSE, p)[rop]
      [] OTHER -> d

(* SetPixel_*: what a pen does to a pixel, in the order of LineTo_ROP2.    *)
SetPixel_8bpp(d, p) ==
    << FALSE, ~(d \/ p), d /\ ~p, ~p, p /\ ~d, ~d, d # p, ~(d /\ p),
       d /\ p, ~(d # p), d, d \/ ~p, p, p \/ ~d, d \/ p, TRUE >>
LineTo_8bpp(rop2, d, p) == SetPixel_8bpp(d, p)[rop2]

BitBlt_Copy_16bpp(d, s, p) ==
    [BLACKNESS |-> FALSE, WHITENESS |-> TRUE, SRCCOPY |-> s,
     NOTSRCCOPY |-> ~s, DSTINVERT |-> ~d]
BitBlt_Source_16bpp(d, s, p) ==
    [SRCERASE |-> s /\ ~d, NOTSRCERASE |-> ~s /\ ~d, SRCINVERT |-> d # s,
     SRCAND |-> d /\ s, SRCPAINT |-> d \/ s]
BitBlt_Mask_16bpp(d, s, p) ==
    [DSPDxax |-> (s /\ p) \/ (~s /\ d), SPna |-> s /\ ~p, PDxn |-> d # ~p,
     DSna |-> ~s /\ d]
BitBlt_Pattern_16bpp(d, s, p) ==
    [MERGECOPY |-> s /\ p, MERGEPAINT |-> ~s \/ d, PATCOPY |-> p,
     PATINVERT |-> p # d]

BitBlt_16bpp(rop, d, s, p) ==
    CASE rop \in DOMAIN BitBlt_Copy_16bpp(d, s, p) -> BitBlt_Copy_16bpp(d, s, p)[rop]
      [] rop \in DOMAIN BitBlt_Source_16bpp(d, s, p) -> BitBlt_Source_16bpp(d, s, p)[rop]
      [] rop \in DOMAIN BitBlt_Mask_16bpp(d, s, p) \ {"PDxn"} -> BitBlt_Mask_16bpp(d, s, p)[rop]
      [] rop \in DOMAIN BitBlt_Pattern_16bpp(d, s, p) -> BitBlt_Pattern_16bpp(d, s, p)[rop]
      [] rop = "PATPAINT" -> d \/ (p \/ ~s)
      [] OTHER -> d      \* unknown rop

PatBlt_16bpp(rop, d, p) ==
    CASE rop \in {"PATCOPY", "PATINVERT"} -> BitBlt_Pattern_16bpp(d, FALSE, p)[rop]
      [] rop \in {"DSTINVERT", "BLACKNESS", "WHITENESS"} -> BitBlt_Copy_16bpp(d, FALSE, p)[rop]
      [] rop \in {"PDxn"} -> BitBlt_Mask_16bpp(d, FALSE, p)[rop]
      [] OTHER -> d

(* SetPixel_*: what a pen does to a pixel, in the order of LineTo_ROP2.    *)
SetPixel_16bpp(d, p) ==
    << FALSE, ~(d \/ p), d /\ ~p, ~p, p /\ ~d, ~d, d # p, ~(d /\ p),
       d /\ p, ~(d # p), d, d \/ ~p, p, p \/ ~d, d \/ p, TRUE >>
LineTo_16bpp(rop2, d, p) == SetPixel_16bpp(d, p)[rop2]

BitBlt_Copy_32bpp(d, s, p) ==
    [BLACKNESS |-> FALSE, WHITENESS |-> TRUE, SRCCOPY |-> s,
     NOTSRCCOPY |-> ~s]
BitBlt_Source_32bpp(d, s, p) ==
    [DSTINVERT |-> ~d, SRCERASE |-> s /\ ~d, NOTSRCERASE |-> ~s /\ ~d,
     SRCINVERT |-> d # s, SRCAND |-> d /\ s, SRCPAINT |-> d \/ s]
BitBlt_Mask_32bpp(d, s, p) ==
    [DSPDxax |-> (s /\ p) \/ (~s /\ d), SPna |-> s /\ ~p, DSna |-> ~s /\ d,
     PDxn |-> d # ~p]
BitBlt_Pattern_32bpp(d, s, p) ==
    [MERGECOPY |-> s /\ p, MERGEPAINT |-> ~s \/ d, PATCOPY |-> p,
     PATINVERT |-> p # d]

BitBlt_32bpp(rop, d, s, p) ==
    CASE rop \in DOMAIN BitBlt_Copy_32bpp(d, s, p) -> BitBlt_Copy_32bpp(d, s, p)[rop]
      [] rop \in DOMAIN BitBlt_Source_32bpp(d, s, p) -> BitBlt_Source_32bpp(d, s, p)[rop]
      [] rop \in DOMAIN BitBlt_Mask_32bpp(d, s, p) \ {"PDxn"} -> BitBlt_Mask_32bpp(d, s, p)[rop]
      [] rop \in DOMAIN BitBlt_Pattern_32bpp(d, s, p) -> BitBlt_Pattern_32bpp(d, s, p)[rop]
      [] rop = "PATPAINT" -> d \/ (p \/ ~s)
      [] OTHER -> d      \* unknown rop

PatBlt_32bpp(rop, d, p) ==
    CASE rop \in {"PATCOPY", "PATINVERT"} -> BitBlt_Pattern_32bpp(d, FALSE, p)[rop]
      [] rop \in {"DSTINVERT"} -> BitBlt_Source_32bpp(d, FALSE, p)[rop]
      [] rop \in {"BLACKNESS", "WHITENESS"} -> BitBlt_Copy_32bpp(d, FALSE, p)[rop]
      [] rop \in {"PDxn"} -> BitBlt_Mask_32bpp(d, FALSE, p)[rop]
      [] OTHER -> d

(* SetPixel_*: what a pen does to a pixel, in the order of LineTo_ROP2.    *)
SetPixel_32bpp(d, p) ==
    << FALSE, ~(d \/ p), d /\ ~p, ~p, p /\ ~d, ~d, d # p, ~(d /\ p),
       d /\ p, ~(d # p), d, d \/ ~p, p, p \/ ~d, d \/ p, TRUE >>
LineTo_32bpp(rop2, d, p) == SetPixel_32bpp(d, p)[rop2]

-----------------------------------------------------------------------------
(* libfreerdp-gdi: what the drawing operations compute: the coordinates,   *)
(* the clipping, the copying of overlapping areas and the lines.           *)
(*                                                                         *)
(* A region is a record [x, y, w, h], a rectangle [left, top, right,       *)
(* bottom] whose last row and column belong to it.                         *)

CONSTANTS Width, Height     \* of the bitmap drawn on

Rgn(x, y, w, h) == [x |-> x, y |-> y, w |-> w, h |-> h]
Pixels == (0 .. Width - 1) \X (0 .. Height - 1)

gdi_RgnToRect(r) == [left |-> r.x, top |-> r.y,
                     right |-> r.x + r.w - 1, bottom |-> r.y + r.h - 1]
gdi_RectToRgn(c) == Rgn(c.left, c.top, c.right - c.left + 1, c.bottom - c.top + 1)
gdi_PtInRect(c, p) == /\ p[1] >= c.left /\ p[1] <= c.right
                      /\ p[2] >= c.top  /\ p[2] <= c.bottom
PixelsOf(r) == {p \in Pixels : gdi_PtInRect(gdi_RgnToRect(r), p)}

\* Whether a copy of a region onto another of the same size needs care.
gdi_CopyOverlap(r, src) ==
    LET dst == gdi_RgnToRect(r)
        from == gdi_RgnToRect(Rgn(src[1], src[2], r.w, r.h))
    IN  /\ dst.right > from.left /\ dst.left < from.right
        /\ dst.bottom > from.top /\ dst.top < from.bottom

\* gdi_ClipCoords: clip is {} (the null region) or the set of the one clipping
\* region.  The offsets dx and dy are one too large and corrected at the end.
ClipRect(clip) ==
    LET bmp == gdi_RgnToRect(Rgn(0, 0, Width, Height))
        c == gdi_RgnToRect(CHOOSE r \in clip : TRUE)
    IN  IF clip = {} THEN bmp
        ELSE [left |-> Max({c.left, bmp.left}), right |-> Min({c.right, bmp.right}),
              top |-> Max({c.top, bmp.top}), bottom |-> Min({c.bottom, bmp.bottom})]
(* Mutant: the offset into the source stays one too large.                 *)
gdi_ClipCoords_uncorrected(clip, r, src) ==
    LET c == ClipRect(clip)
        o == gdi_RgnToRect(r)
        draw == /\ o.right >= c.left /\ o.left <= c.right
                /\ o.bottom >= c.top /\ o.top <= c.bottom
        dx == IF o.left < c.left THEN c.left - o.left + 1 ELSE 0
        dy == IF o.top < c.top THEN c.top - o.top + 1 ELSE 0
    IN  [draw |-> draw,
         r    |-> gdi_RectToRgn([left |-> Max({o.left, c.left}), right |-> Min({o.right, c.right}),
                                 top |-> Max({o.top, c.top}), bottom |-> Min({o.bottom, c.bottom})]),
         src  |-> << IF dx > 0 THEN src[1] + dx ELSE src[1],
                     IF dy > 0 THEN src[2] + dy - 1 ELSE src[2] >>]

gdi_ClipCoords(clip, r, src) ==
    LET c == ClipRect(clip)
        o == gdi_RgnToRect(r)
        draw == /\ o.right >= c.left /\ o.left <= c.right
                /\ o.bottom >= c.top /\ o.top <= c.bottom
        dx == IF o.left < c.left THEN c.left - o.left + 1 ELSE 0
        dy == IF o.top < c.top THEN c.top - o.top + 1 ELSE 0
    IN  [draw |-> draw,
         r    |-> gdi_RectToRgn([left |-> Max({o.left, c.left}), right |-> Min({o.right, c.right}),
                                 top |-> Max({o.top, c.top}), bottom |-> Min({o.bottom, c.bottom})]),
         src  |-> << IF dx > 0 THEN src[1] + dx - 1 ELSE src[1],
                     IF dy > 0 THEN src[2] + dy - 1 ELSE src[2] >>]

\* gdi_get_bitmap_pointer: a row is skipped unless both its ends of the copy
\* start inside the bitmap.
RowStarts(r, src, y) == << r.x, r.y + y >> \in Pixels /\ << src[1], src[2] + y >> \in Pixels

\* One row: memmove reads the whole row before it writes, memcpy goes through
\* the row in the one or the other direction.
Row(bits, r, src, y) ==
    [p \in Pixels |-> IF p[2] = r.y + y /\ p[1] \in r.x .. r.x + r.w - 1
                      THEN bits[<< src[1] + p[1] - r.x, src[2] + y >>] ELSE bits[p]]
Along(bits, r, src, y, xs) ==
    LET b[n \in 0 .. r.w] ==
            IF n = 0 THEN bits
            ELSE [b[n - 1] EXCEPT ![<< r.x + xs[n], r.y + y >>] = b[n - 1][<< src[1] + xs[n], src[2] + y >>]]
    IN  b[r.w]
memmove(bits, r, src, y) == {Row(bits, r, src, y)}
memcpy(bits, r, src, y) == {Along(bits, r, src, y, [n \in 1 .. r.w |-> n - 1]),
                            Along(bits, r, src, y, [n \in 1 .. r.w |-> r.w - n])}

\* BitBlt_SRCCOPY_*bpp on one bitmap: the set of its possible results.
BitBlt_SRCCOPY(bits, r, src) ==
    LET overlap == gdi_CopyOverlap(r, src)
        down == overlap /\ src[2] < r.y
        RowNo(n) == IF down THEN r.h - n ELSE n - 1
        Copied(b, y) == IF ~RowStarts(r, src, y) THEN {b}
                        ELSE IF overlap THEN memmove(b, r, src, y) ELSE memcpy(b, r, src, y)
        rows[n \in 0 .. r.h] ==
            IF n = 0 THEN {bits} ELSE UNION {Copied(b, RowNo(n)) : b \in rows[n - 1]}
    IN  rows[r.h]

\* LINE_TO: the pixels of a line from a up to, not including, b.
Bound(clip, a, b) ==
    LET c == gdi_RgnToRect(CHOOSE r \in clip : TRUE)
        own == [left |-> Min({a[1], b[1]}), right |-> Max({a[1], b[1]}),
                top |-> Min({a[2], b[2]}), bottom |-> Max({a[2], b[2]})]
        box == IF clip = {} THEN own ELSE c
    IN  [left |-> Max({box.left, 0}), top |-> Max({box.top, 0}),
         right |-> Min({box.right, Width - 1}), bottom |-> Min({box.bottom, Height - 1})]
LINE_TO(clip, a, b) ==
    LET dx == Max({a[1], b[1]}) - Min({a[1], b[1]})
        dy == Max({a[2], b[2]}) - Min({a[2], b[2]})
        sx == IF a[1] < b[1] THEN 1 ELSE -1
        sy == IF a[2] < b[2] THEN 1 ELSE -1
        at[n \in 0 .. dx + dy] ==      \* x, y and the error term e
            IF n = 0 THEN << a[1], a[2], dx - dy >>
            ELSE LET s == at[n - 1]
                     right == 2 * s[3] > -dy
                     up == 2 * s[3] < dx
                 IN  << IF right THEN s[1] + sx ELSE s[1], IF up THEN s[2] + sy ELSE s[2],
                        s[3] - (IF right THEN dy ELSE 0) + (IF up THEN dx ELSE 0) >>
        end == Min({n \in 0 .. dx + dy : at[n][1] = b[1] /\ at[n][2] = b[2]})
    IN  {<< at[n][1], at[n][2] >> : n \in 0 .. end - 1}
            \cap {p \in Pixels : gdi_PtInRect(Bound(clip, a, b), p)}

\* The raster operation of an order; gdi_rop3_code finds its name by its code.
RasterOp(depth, rop, d, s, p) == CASE depth = 8  -> BitBlt_8bpp(rop, d, s, p)
                                   [] depth = 16 -> BitBlt_16bpp(rop, d, s, p)
                                   [] depth = 32 -> BitBlt_32bpp(rop, d, s, p)
PatternOp(depth, rop, d, p) == CASE depth = 8  -> PatBlt_8bpp(rop, d, p)
                                 [] depth = 16 -> PatBlt_16bpp(rop, d, p)
                                 [] depth = 32 -> PatBlt_32bpp(rop, d, p)
PenOp(depth, rop2, d, p) == CASE depth = 8  -> LineTo_8bpp(rop2, d, p)
                              [] depth = 16 -> LineTo_16bpp(rop2, d, p)
                              [] depth = 32 -> LineTo_32bpp(rop2, d, p)

Rop3Code == [BLACKNESS |-> 0, WHITENESS |-> 255, SRCCOPY |-> 204, NOTSRCCOPY |-> 51,
             DSTINVERT |-> 85, SRCERASE |-> 68, NOTSRCERASE |-> 17, SRCINVERT |-> 102,
             SRCAND |-> 136, SRCPAINT |-> 238, DSPDxax |-> 226, SPna |-> 12, PDxn |-> 165,
             DSna |-> 34, MERGECOPY |-> 192, MERGEPAINT |-> 187, PATCOPY |-> 240,
             PATINVERT |-> 90, PATPAINT |-> 251]
gdi_rop3_code(code) == CHOOSE rop \in DOMAIN Rop3Code : Rop3Code[rop] = code
=============================================================================
