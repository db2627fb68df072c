------------------------------ MODULE GdiPaint ------------------------------
(***************************************************************************)
(* The orders of the server on the primary buffer and the repainting of    *)
(* the window from it: libfreerdp-gdi with the painting of the X11 client. *)
(* Of a pixel only matters whether the window shows what was drawn last;   *)
(* what is drawn is in module Gdi.                                         *)
(***************************************************************************)
EXTENDS Gdi

CONSTANT Orders     \* the regions the server draws into

VARIABLES gdDepth,      \* bits per pixel of the session
          gdPixel,      \* "shown" in the window, or last drawn by an order or a line
          gdInvalid,    \* hwnd->invalid: {} when null, or one region
          gdCinvalid,   \* hwnd->cinvalid[0 .. ninvalid - 1]
          gdPainting    \* between BeginPaint and EndPaint
gdVars == << gdDepth, gdPixel, gdInvalid, gdCinvalid, gdPainting >>

GdInit ==
    /\ gdDepth \in {8, 16, 32}
    /\ gdPixel = [p \in Pixels |-> "shown"]
    /\ gdInvalid = {} /\ gdCinvalid = << >> /\ gdPainting = FALSE

(* Mutant: the right border is that of the last region.                    *)
gdi_InvalidateRegion_last(r) ==
    LET c == gdi_RgnToRect(r)
        inv == gdi_RgnToRect(CHOOSE i \in gdInvalid : TRUE)
    IN  /\ gdCinvalid' = Append(gdCinvalid, r)
        /\ gdInvalid' = IF gdInvalid = {} THEN {r}
               ELSE {gdi_RectToRgn([left |-> Min({inv.left, Max({c.left, 0})}),
                                    top |-> Min({inv.top, Max({c.top, 0})}),
                                    right |-> c.right,
                                    bottom |-> Max({inv.bottom, c.bottom})])}

\* gdi_InvalidateRegion; only the first region keeps negative coordinates.
gdi_InvalidateRegion(r) ==
    LET c == gdi_RgnToRect(r)
        inv == gdi_RgnToRect(CHOOSE i \in gdInvalid : TRUE)
    IN  /\ gdCinvalid' = Append(gdCinvalid, r)
        /\ gdInvalid' = IF gdInvalid = {} THEN {r}
               ELSE {gdi_RectToRgn([left |-> Min({inv.left, Max({c.left, 0})}),
                                    top |-> Min({inv.top, Max({c.top, 0})}),
                                    right |-> Max({inv.right, c.right}),
                                    bottom |-> Max({inv.bottom, c.bottom})])}

xf_sw_begin_paint ==
    /\ ~gdPainting /\ gdPainting' = TRUE
    /\ gdInvalid' = {} /\ gdCinvalid' = << >>
    /\ UNCHANGED << gdDepth, gdPixel >>

\* xf_sw_end_paint, with one region or with the list of them.
xf_sw_end_paint(complex) ==
    LET shown == UNION {PixelsOf(r) : r \in IF complex THEN {gdCinvalid[i] : i \in DOMAIN gdCinvalid}
                                            ELSE gdInvalid}
    IN  /\ gdPainting /\ gdPainting' = FALSE
        /\ gdPixel' = [p \in Pixels |-> IF p \in shown THEN "shown" ELSE gdPixel[p]]
        /\ UNCHANGED << gdDepth, gdInvalid, gdCinvalid >>

\* gdi_set_bounds: the clipping region of an order, set before it is drawn and
\* removed after it; {} when the order has no bounds.
gdi_set_bounds == {{}} \cup {{r} : r \in Orders}

\* What BitBlt, PatBlt and FillRect share: nothing at all outside the clip,
\* else the clipped region is invalidated and drawn.
Draw(clip, r) ==
    LET c == gdi_ClipCoords(clip, r, << 0, 0 >>)
    IN  /\ gdPainting
        /\ IF c.draw THEN /\ gdi_InvalidateRegion(c.r)
                          /\ gdPixel' = [p \in Pixels |-> IF p \in PixelsOf(c.r) THEN "drawn" ELSE gdPixel[p]]
                     ELSE UNCHANGED << gdInvalid, gdCinvalid, gdPixel >>
        /\ UNCHANGED << gdDepth, gdPainting >>

gdi_dstblt(clip, r) == Draw(clip, r)
gdi_patblt(clip, r) == Draw(clip, r)
gdi_scrblt(clip, r) == Draw(clip, r)
gdi_memblt(clip, r) == Draw(clip, r)

\* FillRect_8bpp is not implemented and does nothing.
gdi_opaque_rect(clip, r) == IF gdDepth = 8 THEN gdPainting /\ UNCHANGED gdVars ELSE Draw(clip, r)

\* No line is invalidated: LineTo_*bpp only sets pixels.
gdi_line_to(clip, a, b) ==
    /\ gdPainting
    /\ gdPixel' = [p \in Pixels |-> IF p \in LINE_TO(clip, a, b) THEN "line" ELSE gdPixel[p]]
    /\ UNCHANGED << gdDepth, gdInvalid, gdCinvalid, gdPainting >>

MaxInvalid == 2     \* regions invalidated between two repaints
GdNext ==
    \/ xf_sw_begin_paint
    \/ \E complex \in BOOLEAN : xf_sw_end_paint(complex)
    \/ \E clip \in gdi_set_bounds :
        \/ /\ Len(gdCinvalid) < MaxInvalid
           /\ \E r \in Orders : \/ gdi_dstblt(clip, r) \/ gdi_patblt(clip, r)
                                \/ gdi_scrblt(clip, r) \/ gdi_memblt(clip, r)
                                \/ gdi_opaque_rect(clip, r)
        \/ \E a, b \in Pixels : gdi_line_to(clip, a, b)

GdSpec == GdInit /\ [][GdNext]_gdVars

(* Types. *)
GdTypeOK ==
    /\ gdDepth \in {8, 16, 32} /\ gdPainting \in BOOLEAN
    /\ gdPixel \in [Pixels -> {"shown", "drawn", "line"}]
    /\ Cardinality(gdInvalid) <= 1 /\ Len(gdCinvalid) <= MaxInvalid

(* Between two updates the window shows whatever the orders drew into the  *)
(* buffer, whichever of its two ways xf_sw_end_paint repaints it.  The one *)
(* exception is a line on a pixel that nothing else was drawn on:          *)
(* gdi_LineTo alone does not call gdi_InvalidateRegion.                    *)
WindowShowsBuffer == ~gdPainting => \A p \in Pixels : gdPixel[p] # "drawn"

(* The one invalid region covers, inside the buffer, every region of the   *)
(* list that the same calls of gdi_InvalidateRegion recorded.              *)
InvalidCoversList ==
    \A i \in DOMAIN gdCinvalid : \E r \in gdInvalid : PixelsOf(gdCinvalid[i]) \subseteq PixelsOf(r)

(* What orders draw into the buffer is shown in the window, whichever of   *)
(* the two lists of invalid regions it is painted from.                    *)
PaintIsShown ==
    /\ GdTypeOK /\ WindowShowsBuffer /\ InvalidCoversList
=============================================================================
