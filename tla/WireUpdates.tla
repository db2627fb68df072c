---------------------------- MODULE WireUpdates -----------------------------
(***************************************************************************)
(* What the session's updates and input look like on the wire: drawing     *)
(* orders, updates, fast-path packets.                                     *)
(***************************************************************************)
EXTENDS Layout

-----------------------------------------------------------------------------
(* The readers of drawing orders (orders.c).  The fields of a primary      *)
(* order, numbered as its field flags number them, are a sequence of byte  *)
(* sizes, in which Coord is a coordinate: two bytes, or one when the order *)
(* has delta coordinates.  The readers of numbers take the bytes and give  *)
(* the value and how many bytes they took.                                 *)

\* The value read, and the bytes that were taken.
Got(value, taken) == [value |-> value, taken |-> taken]
Signed(n, bits) == IF n >= 2 ^ (bits - 1) THEN n - 2 ^ bits ELSE n
Bit(byte, k) == (byte \div 2 ^ k) % 2 = 1

update_read_coord(b, old, delta) ==
    IF delta THEN Got(old + Signed(b[1], 8), 1) ELSE Got(Signed(b[1] + 256 * b[2], 16), 2)
update_read_2byte_unsigned(b) ==
    IF Bit(b[1], 7) THEN Got((b[1] % 128) * 256 + b[2], 2) ELSE Got(b[1] % 128, 1)
update_read_2byte_signed(b) ==
    LET size == IF Bit(b[1], 7) THEN Got((b[1] % 64) * 256 + b[2], 2) ELSE Got(b[1] % 64, 1)
    IN  IF Bit(b[1], 6) THEN Got(- size.value, size.taken) ELSE size
update_read_4byte_unsigned(b) ==
    LET count == b[1] \div 64
    IN  Got(FoldLeft(LAMBDA n, byte : 256 * n + byte, b[1] % 64, SubSeq(b, 2, count + 1)), count + 1)
update_read_delta(b) ==
    LET first == IF Bit(b[1], 6) THEN (b[1] % 64) - 64 ELSE b[1] % 64
    IN  IF Bit(b[1], 7) THEN Got(256 * first + b[2], 2) ELSE Got(first, 1)

\* Reads the members of a rectangle that its four zero bits announce; the others keep
\* their place (left, top) or the size of the rectangle before (width, height).
DeltaRect(b, zero, before) ==
    LET Read(i, from) == IF zero[i] THEN Got(0, 0) ELSE update_read_delta(SubSeq(b, from + 1, Len(b)))
        l == Read(1, 0)
        t == Read(2, l.taken)
        w == Read(3, l.taken + t.taken)
        h == Read(4, l.taken + t.taken + w.taken)
    IN  Got([left |-> before.left + l.value, top |-> before.top + t.value,
             width |-> IF zero[3] THEN before.width ELSE w.value,
             height |-> IF zero[4] THEN before.height ELSE h.value],
            l.taken + t.taken + w.taken + h.taken)
update_read_delta_rects(b, number) ==
    LET n == IF number > 45 THEN 45 ELSE number
        head == (n + 1) \div 2
        Zero(i) == [k \in 1 .. 4 |-> Bit(b[(i + 1) \div 2], 8 - k - 4 * ((i - 1) % 2))]
        rects[i \in 0 .. n] ==
            IF i = 0 THEN Got(<< [left |-> 0, top |-> 0, width |-> 0, height |-> 0] >>, head)
            ELSE LET r == DeltaRect(SubSeq(b, rects[i - 1].taken + 1, Len(b)), Zero(i), rects[i - 1].value[i])
                 IN  Got(Append(rects[i - 1].value, r.value), rects[i - 1].taken + r.taken)
    IN  Got(Tail(rects[n].value), rects[n].taken)
update_read_delta_points(b, number) ==
    LET head == (number + 3) \div 4
        Zero(i, k) == Bit(b[(i + 3) \div 4], 8 - k - 2 * ((i - 1) % 4))
        Rest(from) == SubSeq(b, from + 1, Len(b))
        points[i \in 0 .. number] ==
            IF i = 0 THEN Got(<< >>, head)
            ELSE LET x == IF Zero(i, 1) THEN Got(0, 0) ELSE update_read_delta(Rest(points[i - 1].taken))
                     y == IF Zero(i, 2) THEN Got(0, 0)
                          ELSE update_read_delta(Rest(points[i - 1].taken + x.taken))
                 IN  Got(Append(points[i - 1].value, << x.value, y.value >>),
                         points[i - 1].taken + x.taken + y.taken)
    IN  points[number]

-----------------------------------------------------------------------------
(* Primary orders: the sizes of the fields.  "data" is the length of the   *)
(* variable data an order ends with.                                       *)
Coord == 0
Area == << Coord, Coord, Coord, Coord >>
update_read_colors == [color |-> 3, colorref |-> 4, quad |-> 4]
Color == update_read_colors.color
update_read_brush == << 1, 1, 1, 1, 7 >>
update_read_area_orders(data) ==
    [dstblt |-> Area \o << 1 >>,
     patblt |-> Area \o << 1, Color, Color >> \o update_read_brush,
     scrblt |-> Area \o << 1, Coord, Coord >>, opaque_rect |-> Area \o << 1, 1, 1 >>,
     draw_nine_grid |-> Area \o << 2 >>, multi_dstblt |-> Area \o << 1, 1, 2 + data >>]
update_read_multi_orders(data) ==
    [multi_patblt |-> update_read_area_orders(data).patblt \o << 1, 2 + data >>,
     multi_scrblt |-> update_read_area_orders(data).scrblt \o << 1, 2 + data >>,
     multi_opaque_rect |-> update_read_area_orders(data).opaque_rect \o << 1, 2 + data >>,
     multi_draw_nine_grid |-> update_read_area_orders(data).draw_nine_grid \o << 1, 2 + data >>]
update_read_line_orders(data) ==
    [line_to |-> << 2 >> \o Area \o << Color, 1, 1, 1, Color >>,
     polyline |-> << Coord, Coord, 1, 2, Color, 1, 1 + data >>,
     memblt |-> << 2 >> \o Area \o << 1, Coord, Coord, 2 >>,
     mem3blt |-> << 2 >> \o Area \o << 1, Coord, Coord, Color, Color >>
                 \o update_read_brush \o << 2 >>]
update_read_glyph_orders(data) ==
    [save_bitmap |-> << 4 >> \o Area \o << 1 >>,
     glyph_index |-> << 1, 1, 1, 1, Color, Color >> \o Times(8, << 2 >>) \o update_read_brush
                     \o << 2, 2, 1 + data >>,
     fast_index |-> << 1, 2, Color, Color >> \o Times(10, << Coord >>) \o << 1 + data >>]
update_read_polygon_orders(data) ==
    [fast_glyph |-> << 1, 2, Color, Color >> \o Times(10, << Coord >>) \o << 1 + data >>,
     polygon_sc |-> << Coord, Coord, 1, 1, Color, 1, 1 + data >>,
     polygon_cb |-> << Coord, Coord, 1, 1, Color, Color >> \o update_read_brush \o << 1, 1 + data >>]
update_read_ellipse_orders ==
    [ellipse_sc |-> Area \o << 1, 1, Color >>,
     ellipse_cb |-> Area \o << 1, 1, Color, Color >> \o update_read_brush]

\* The order types, their readers, and the bytes of field flags they have.
OrderTypes == {0, 1, 2, 7, 8, 9, 10, 11, 13, 14, 15, 16, 17, 18, 19, 20, 21, 22, 24, 25, 26, 27}
Fields(type, data) ==
    LET area == update_read_area_orders(data)
        multi == update_read_multi_orders(data)
        line == update_read_line_orders(data)
        glyph == update_read_glyph_orders(data)
        polygon == update_read_polygon_orders(data)
        ellipse == update_read_ellipse_orders
    IN  CASE type = 0 -> area.dstblt              [] type = 1 -> area.patblt
          [] type = 2 -> area.scrblt              [] type = 7 -> area.draw_nine_grid
          [] type = 8 -> multi.multi_draw_nine_grid [] type = 9 -> line.line_to
          [] type = 10 -> area.opaque_rect        [] type = 11 -> glyph.save_bitmap
          [] type = 13 -> line.memblt             [] type = 14 -> line.mem3blt
          [] type = 15 -> area.multi_dstblt       [] type = 16 -> multi.multi_patblt
          [] type = 17 -> multi.multi_scrblt      [] type = 18 -> multi.multi_opaque_rect
          [] type = 19 -> glyph.fast_index        [] type = 20 -> polygon.polygon_sc
          [] type = 21 -> polygon.polygon_cb      [] type = 22 -> line.polyline
          [] type = 24 -> polygon.fast_glyph      [] type = 25 -> ellipse.ellipse_sc
          [] type = 26 -> ellipse.ellipse_cb      [] type = 27 -> glyph.glyph_index
PRIMARY_DRAWING_ORDER_FIELD_BYTES ==
    [type \in 0 .. 27 |->
        CASE type \in {0, 2, 7, 8, 10, 11, 15, 20, 22, 25} -> 1
          [] type \in {1, 9, 13, 16, 17, 18, 19, 21, 24, 26} -> 2
          [] type \in {14, 27} -> 3
          [] OTHER -> 0]

\* The fields that the flags name, of which zero0 and zero1 say how many bytes were left out.
update_read_field_flags(b, zero0, zero1, fieldBytes) ==
    LET one == IF zero0 THEN fieldBytes - 1 ELSE fieldBytes
        n == IF zero1 THEN (IF one > 1 THEN one - 2 ELSE 0) ELSE one
    IN  Got({8 * i + k : i \in 0 .. n - 1, k \in 1 .. 8} \cap
            {f \in 1 .. 24 : (f - 1) \div 8 < n /\ Bit(b[((f - 1) \div 8) + 1], (f - 1) % 8)}, n)
\* The bytes of the bounds: each coordinate whole, as a delta, or not at all.
update_read_bounds(bounds) ==
    1 + FoldLeft(LAMBDA n, c : n + (CASE c = "whole" -> 2 [] c = "delta" -> 1 [] c = "kept" -> 0), 0, bounds)
\* The bytes a primary order takes after its control flags.
update_recv_primary_order(change, b, zero0, zero1, type, bounds, delta, data) ==
    LET flags == update_read_field_flags(b, zero0, zero1, PRIMARY_DRAWING_ORDER_FIELD_BYTES[type])
        sizes == Fields(type, data)
        Size(f) == IF f \notin flags.value THEN 0 ELSE IF sizes[f] = Coord THEN (IF delta THEN 1 ELSE 2) ELSE sizes[f]
    IN  (IF change THEN 1 ELSE 0) + flags.taken
        + (IF bounds = << >> THEN 0 ELSE update_read_bounds(bounds))
        + FoldSeq(LAMBDA a, n : a + n, 0, [f \in 1 .. Len(sizes) |-> Size(f)])

-----------------------------------------------------------------------------
(* Secondary orders.  The reader skips to the end the order announces.     *)
Unsigned2(n) == IF n < 128 THEN << 1 >> ELSE << 2 >>
Signed2(n) == IF n \in -63 .. 63 THEN << 1 >> ELSE << 2 >>
Unsigned4(n) == IF n < 64 THEN << 1 >> ELSE IF n < 2 ^ 14 THEN << 2 >> ELSE IF n < 2 ^ 22 THEN << 3 >> ELSE << 4 >>
GlyphBytes(cx, cy) == LET cb == ((cx + 7) \div 8) * cy IN cb + (IF cb % 4 > 0 THEN 4 - (cb % 4) ELSE 0)
update_read_cache_bitmap_order(length, compressed, nohdr) ==
    << 1, 1, 1, 1, 1, 2, 2 >> \o (IF compressed /\ ~nohdr THEN << 8, length - 8 >> ELSE << length >>)
update_read_cache_bitmap_v2_order(w, h, length, index, compressed, key, square, nohdr) ==
    When(key, << 4, 4 >>) \o Unsigned2(w) \o When(~square, Unsigned2(h)) \o Unsigned4(length) \o Unsigned2(index)
    \o (IF compressed /\ ~nohdr THEN << 2, 2, 2, 2, length - 8 >> ELSE << length >>)
update_read_cache_bitmap_v3_order(length) == << 2, 4, 4, 1, 1, 1, 1, 2, 2, 4, length >>
update_read_cache_color_table_order(number) == << 1, 1, number * update_read_colors.quad >>
update_read_cache_glyph_order(n, cx, cy, unicode) ==
    << 1, 1 >> \o Times(n, << 2, 2, 2, 2, 2, GlyphBytes(cx, cy) >>) \o When(unicode, << 2 * n >>)
update_read_cache_glyph_v2_order(n, x, y, cx, cy, unicode) ==
    Times(n, << 1 >> \o Signed2(x) \o Signed2(y) \o Unsigned2(cx) \o Unsigned2(cy) \o << GlyphBytes(cx, cy) >>)
    \o When(unicode, << 2 * n >>)
update_decompress_brush(bpp) == << 16 >>
update_read_cache_brush_order(bpp, length) ==
    << 1, 1, 1, 1, 1, 1 >>
    \o (IF bpp = 1 THEN When(length = 8, << 8 >>)
        ELSE IF (bpp = 8 /\ length = 20) \/ (bpp = 16 /\ length = 24) \/ (bpp = 32 /\ length = 32)
        THEN update_decompress_brush(bpp) ELSE << 8 * (bpp \div 8) * 8 >>)
\* Where a secondary order ends, counted from its control flags, whatever its reader took.
update_recv_secondary_order(orderLength, body) == 1 + 2 + 2 + 1 + Signed(orderLength, 16) + 7

(* Alternate secondary orders end where their reader ends.                 *)
update_read_altsec_orders(n, big) ==
    [create_offscreen_bitmap |-> << 2, 2, 2 >> \o When(n > 0, << 2, 2 * n >>), switch_surface |-> << 2 >>,
     create_nine_grid_bitmap |-> << 1, 2, 4, 2, 2, 2, 2, update_read_colors.colorref >>, frame_marker |-> << 4 >>,
     stream_bitmap_first |-> << 1, 1, 2, 2, 2 >> \o (IF big THEN << 4 >> ELSE << 2 >>) \o << 2, n >>,
     stream_bitmap_next |-> << 1, 2, 2, n >>,
     draw_gdiplus_first |-> << 1, 2, 4, 4, n >>, draw_gdiplus_next |-> << 1, 2, n >>, draw_gdiplus_end |-> << 1, 2, 4, 4, n >>,
     draw_gdiplus_cache_first |-> << 1, 2, 2, 2, 4, n >>, draw_gdiplus_cache_next |-> << 1, 2, 2, 2, n >>,
     draw_gdiplus_cache_end |-> << 1, 2, 2, 2, 4, n >>]
\* The readers by the type of the order.
update_recv_altsec_order(type, n, big) ==
    LET order == update_read_altsec_orders(n, big) IN
    CASE type = 0 -> order.switch_surface              [] type = 1 -> order.create_offscreen_bitmap
      [] type = 2 -> order.stream_bitmap_first         [] type = 3 -> order.stream_bitmap_next
      [] type = 4 -> order.create_nine_grid_bitmap     [] type = 5 -> order.draw_gdiplus_first
      [] type = 6 -> order.draw_gdiplus_next           [] type = 7 -> order.draw_gdiplus_end
      [] type = 8 -> order.draw_gdiplus_cache_first    [] type = 9 -> order.draw_gdiplus_cache_next
      [] type = 10 -> order.draw_gdiplus_cache_end     [] type = 13 -> order.frame_marker

-----------------------------------------------------------------------------
(* Updates and input (update.c, fastpath.c, surface.c, window.c, input.c): *)
(* the layouts of what the server end of the library writes and the client *)
(* end reads, and the other way round.  A fast-path packet with more than  *)
(* MaxPacket bytes goes in fragments; MaxPacket stands for                 *)
(* FASTPATH_MAX_PACKET_SIZE.                                               *)

CONSTANT MaxPacket

-----------------------------------------------------------------------------
(* update.c: pointers, bitmaps, palettes. *)
update_read_bitmap_data(length, compressed, nohdr) ==
    Times(9, << 2 >>) \o (IF compressed /\ ~nohdr THEN << 2, 2, 2, 2, length - 8 >> ELSE << length >>)
update_read_bitmap(n, length, compressed, nohdr) == << 2 >> \o Times(n, update_read_bitmap_data(length, compressed, nohdr))
\* The rectangles there is room for after a bitmap update; the count has 16 bits.
BitmapRoom(count, number) == IF number > count THEN (number * 2) % 2 ^ 16 ELSE count
update_read_palette(number) == << 2, 4, 3 * (IF number > 256 THEN 256 ELSE number) >>
HotSpot(pos, size) == IF pos >= size THEN 0 ELSE pos
\* The updates without a loop: the pad byte of a pointer is skipped when there is one.
update_read_pointer(and, xor, left) ==
    LET color == << 2, 2, 2, 2, 2, 2, 2 >> \o When(xor > 0, << xor >>) \o When(and > 0, << and >>) \o When(left, << 1 >>)
    IN  [synchronize |-> << 2 >>, sound |-> << 4, 4 >>, position |-> << 2, 2 >>, system |-> << 4 >>,
         color |-> color, new |-> << 2 >> \o color, cached |-> << 2 >>]
update_write_pointer_color(and, xor) ==
    << 2, 2, 2, 2, 2, 2, 2 >> \o When(xor > 0, << xor >>) \o When(and > 0, << and >>) \o << 1 >>
update_write_request(n) ==
    [refresh_rect |-> << 1, 3, 8 * n >>, suppress_output |-> << 1, 3 >> \o When(n > 0, << 8 >>)]

\* The bodies of the fast-path updates the server end sends.
update_send_update(and, xor) ==
    [synchronize |-> << 2 >>, scrblt |-> << 2, 1, 1, 1, 2, 2, 2, 2, 1, 2, 2 >>, system |-> << >>,
     color |-> update_write_pointer_color(and, xor),
     new |-> << 2 >> \o update_write_pointer_color(and, xor), cached |-> << 2 >>]

-----------------------------------------------------------------------------
(* surface.c *)
update_write_surfcmd ==
    [bits_header |-> << 2, 2, 2, 2, 2, 1, 2, 1, 2, 2, 4 >>, frame_marker |-> << 2, 2, 4 >>]
update_send_surface_bits(n) == update_write_surfcmd.bits_header \o << n >>
update_send_surface_frame_marker == update_write_surfcmd.frame_marker
\* What the readers take after the type, and what they say they took.
update_recv_surfcmd_surface_bits(n) == [took |-> << 2, 2, 2, 2, 1, 2, 1, 2, 2, 4, n >>, says |-> 20 + n]
update_recv_surfcmd_frame_marker == [took |-> << 2, 4 >>, says |-> 6]
\* The commands read from "size" bytes: it stops when two or fewer are left.
update_recv_surfcmds(size, cmds) ==
    LET Says(c) == IF c.marker THEN update_recv_surfcmd_frame_marker.says
                   ELSE update_recv_surfcmd_surface_bits(c.n).says
        left[i \in 0 .. Len(cmds)] == IF i = 0 THEN size ELSE left[i - 1] - 2 - Says(cmds[i])
    IN  {i \in 1 .. Len(cmds) : \A k \in 0 .. i - 1 : left[k] > 2}

-----------------------------------------------------------------------------
(* window.c.  "f" is the set of the field flags, "t" the length of each    *)
(* string, "n" the number of rectangles or windows.                        *)
rail_read_unicode_string(t) == << 2, t >>
update_read_icon_info(bpp, mask, table, color) ==
    LET colors == IF bpp \in {1, 2, 4} THEN table ELSE 0
    IN  << 2, 1, 1, 2, 2 >> \o When(bpp \in {1, 2, 4}, << 2 >>) \o << 2, 2, mask, colors, color >>
update_read_cached_icon_info == << 2, 1 >>
update_read_notify_icon_infotip(t) == << 4, 4 >> \o rail_read_unicode_string(t) \o rail_read_unicode_string(t)
update_read_window_state_order(f, t, n) ==
    When("OWNER" \in f, << 4 >>) \o When("STYLE" \in f, << 4, 4 >>) \o When("SHOW" \in f, << 1 >>)
    \o When("TITLE" \in f, rail_read_unicode_string(t)) \o When("CLIENT_AREA_OFFSET" \in f, << 4, 4 >>)
    \o When("CLIENT_AREA_SIZE" \in f, << 4, 4 >>) \o When("RP_CONTENT" \in f, << 1 >>)
    \o When("ROOT_PARENT" \in f, << 4 >>) \o When("WND_OFFSET" \in f, << 4, 4 >>)
    \o When("WND_CLIENT_DELTA" \in f, << 4, 4 >>) \o When("WND_SIZE" \in f, << 4, 4 >>)
    \o When("WND_RECTS" \in f, << 2, 8 * n >>) \o When("VIS_OFFSET" \in f, << 4, 4 >>)
    \o When("VISIBILITY" \in f, << 2, 8 * n >>)
update_read_notification_icon_state_order(f, t) ==
    When("VERSION" \in f, << 4 >>) \o When("TIP" \in f, rail_read_unicode_string(t))
    \o When("INFO_TIP" \in f, update_read_notify_icon_infotip(t)) \o When("STATE" \in f, << 4 >>)
    \o When("ICON" \in f, update_read_icon_info(8, t, t, t)) \o When("CACHED_ICON" \in f, update_read_cached_icon_info)
update_read_desktop_actively_monitored_order(f, n) ==
    When("ACTIVE_WND" \in f, << 4 >>) \o When("ZORDER" \in f, << 1, 4 * n >>)
\* Which handler a window order reaches, and what it reads.
update_recv_window_info_order(f, t, n) ==
    << 4 >> \o (IF "ICON" \in f THEN update_read_icon_info(8, t, t, t)
                ELSE IF "CACHED_ICON" \in f THEN update_read_cached_icon_info
                ELSE IF "DELETED" \in f THEN << >> ELSE update_read_window_state_order(f, t, n))
update_recv_notification_icon_info_order(f, t) ==
    << 4, 4 >> \o When("DELETED" \notin f, update_read_notification_icon_state_order(f, t))
update_recv_desktop_info_order(f, n) == When("NONE" \notin f, update_read_desktop_actively_monitored_order(f, n))
update_recv_altsec_window_order(f, t, n) ==
    << 2, 4 >> \o (IF "TYPE_WINDOW" \in f THEN update_recv_window_info_order(f, t, n)
                   ELSE IF "TYPE_NOTIFY" \in f THEN update_recv_notification_icon_info_order(f, t)
                   ELSE IF "TYPE_DESKTOP" \in f THEN update_recv_desktop_info_order(f, n) ELSE << >>)

-----------------------------------------------------------------------------
(* fastpath.c *)
fastpath_get_sec_bytes(crypt, fips) == IF ~crypt THEN 0 ELSE IF fips THEN 12 ELSE 8
fastpath_header_length(length) == IF length >= 128 THEN 3 ELSE 2
\* The length of the body that a header with the given form announces.
fastpath_read_header_rdp(announced, long) == IF long THEN announced - 3 ELSE announced - 2
fastpath_read_update_header(byte) == [code |-> byte % 16, fragment |-> (byte \div 16) % 4, compression |-> byte \div 64]
fastpath_write_update_header(code, fragment, compression) == (code % 16) + 16 * (fragment % 4) + 64 * (compression % 4)
fastpath_update_pdu_init(sec) == 3 + sec + 3
FRAGMENT_SINGLE == 0
FRAGMENT_LAST == 1
FRAGMENT_FIRST == 2
FRAGMENT_NEXT == 3

\* The packets that carry an update of the bytes 1 .. total: the fragment's kind, its
\* announced lengths and its bytes.  The header of a fragment overwrites the end of the
\* fragment sent before; the next byte to send is right behind it.
fastpath_send_update_pdu(code, total, sec) ==
    LET room == MaxPacket - 6 - sec
        n == (total + room - 1) \div room
        Length(k) == IF k < n THEN room ELSE total - (n - 1) * room
        \* where the header of fragment k is written
        at[k \in 1 .. n] == IF k = 1 THEN 0 ELSE at[k - 1] + 6 + sec + (Length(k - 1) - 6 - sec)
        Kind(k) == IF k = n THEN (IF k = 1 THEN FRAGMENT_SINGLE ELSE FRAGMENT_LAST)
                   ELSE (IF k = 1 THEN FRAGMENT_FIRST ELSE FRAGMENT_NEXT)
    IN  [k \in 1 .. n |->
            [header |-> fastpath_write_update_header(code, Kind(k), 0),
             pduLength |-> Length(k) + 6 + sec,
             size |-> Length(k),
             data |-> [i \in 1 .. Length(k) |-> at[k] + i]]]

(* Mutant: the first fragment does not start a new update.                 *)
fastpath_recv_update_data_kept(state, p) ==
    LET h == fastpath_read_update_header(p.header)
        data == [i \in 1 .. p.size |-> p.data[i]]
        kept == state.updateData
    IN  IF h.fragment = FRAGMENT_SINGLE
        THEN [state EXCEPT !.got = Append(@, [code |-> h.code, data |-> data])]
        ELSE IF h.fragment = FRAGMENT_LAST
        THEN [updateData |-> kept \o data, got |-> Append(state.got, [code |-> h.code, data |-> kept \o data])]
        ELSE [state EXCEPT !.updateData = kept \o data]

\* The receiving end: the bytes collected so far, and the updates delivered.
fastpath_recv_update_data(state, p) ==
    LET h == fastpath_read_update_header(p.header)
        data == [i \in 1 .. p.size |-> p.data[i]]
        kept == IF h.fragment = FRAGMENT_FIRST THEN << >> ELSE state.updateData
    IN  IF h.fragment = FRAGMENT_SINGLE
        THEN [state EXCEPT !.got = Append(@, [code |-> h.code, data |-> data])]
        ELSE IF h.fragment = FRAGMENT_LAST
        THEN [updateData |-> kept \o data, got |-> Append(state.got, [code |-> h.code, data |-> kept \o data])]
        ELSE [state EXCEPT !.updateData = kept \o data]
fastpath_recv_updates(packets) == FoldLeft(fastpath_recv_update_data, [updateData |-> << >>, got |-> << >>], packets)

-----------------------------------------------------------------------------
(* Input: input.c and the input half of fastpath.c.  An event is a record; *)
(* a keyboard event has a set of flags.                                    *)
Key(flags, code) == [type |-> "key", flags |-> flags, code |-> code]
Mouse(type, flags, x, y) == [type |-> type, flags |-> flags, x |-> x, y |-> y]
AtLeast0(n) == IF n < 0 THEN 0 ELSE n
input_write_event ==
    [pdu_header |-> << 2, 2 >>, header |-> << 4, 2 >>, synchronize |-> << 2, 4 >>,
     keyboard |-> << 2, 2, 2 >>, unicode |-> << 2, 2, 2 >>]
\* input_write_mouse_event and input_write_extended_mouse_event
input_write_mouse_event(e) == [e EXCEPT !.x = AtLeast0(@), !.y = AtLeast0(@)]
\* Slow path: the event that arrives.
input_recv_event(e) ==
    CASE e.type = "unicode" -> IF "RELEASE" \in e.flags THEN e ELSE [e EXCEPT !.flags = @ \cup {"DOWN"}]
      [] e.type \in {"mouse", "mousex"} -> input_write_mouse_event(e)
      [] OTHER -> e
\* The bytes of an event, and the bytes that must be left for an event to be read.
InputEventBytes == Bytes(input_write_event.header) + Bytes(input_write_event.keyboard)
input_recv(left, number) == left - 4 >= 6 * number
\* Fast path: a scan code has one byte, and the flags a bit each for release and extended.
input_send_fastpath_keyboard_event(e) == [release |-> "RELEASE" \in e.flags, extended |-> "EXTENDED" \in e.flags, code |-> e.code % 256]
input_send_fastpath_unicode_keyboard_event(e) == [release |-> "RELEASE" \in e.flags, extended |-> FALSE, code |-> e.code]
fastpath_recv_input_event_scancode(p) ==
    Key((IF p.release THEN {"RELEASE"} ELSE {"DOWN"}) \cup (IF p.extended THEN {"EXTENDED"} ELSE {}), p.code)
fastpath_recv_input_event_unicode(p) ==
    [type |-> "unicode", flags |-> IF p.release THEN {"RELEASE"} ELSE {"DOWN"}, code |-> p.code]
fastpath_recv_input_event(e) ==
    CASE e.type = "key" -> fastpath_recv_input_event_scancode(input_send_fastpath_keyboard_event(e))
      [] e.type = "unicode" -> fastpath_recv_input_event_unicode(input_send_fastpath_unicode_keyboard_event(e))
      [] e.type \in {"mouse", "mousex"} -> input_write_mouse_event(e)
      [] e.type = "sync" -> e
\* A fast-path input packet with an event of n bytes.  "length" already counts the room
\* left for the security header, which is then added again.
fastpath_input_pdu_init(sec) == 3 + sec
fastpath_send_input_pdu(n, sec, fips) ==
    LET length == fastpath_input_pdu_init(sec) + n
        pad == IF sec > 0 /\ fips THEN (8 - ((length - 3) % 8)) % 8 ELSE 0
    IN  When(length <= 127, << [announced |-> length + pad + sec, encrypted |-> length - 3 + pad] >>)
input_register_client_callbacks(fastpath, e) == IF fastpath THEN fastpath_recv_input_event(e) ELSE input_recv_event(e)
=============================================================================
