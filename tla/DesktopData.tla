---------------------------- MODULE DesktopData -----------------------------
(***************************************************************************)
(* The data of the desktop's channels: what the clipboard converts, and    *)
(* the orders and windows of remote applications.                          *)
(***************************************************************************)
EXTENDS Layout

-----------------------------------------------------------------------------
(* What the clipboard's data and messages become on their way              *)
(* (client/X11/xf_cliprdr.c, channels/cliprdr).  Text is a sequence of     *)
(* characters, HTML and bitmaps are the lengths of their parts.            *)

CR == "cr"
LF == "lf"
NUL == "nul"

lf2crlf(data) == FlattenSeq([i \in DOMAIN data |-> IF data[i] = LF THEN <<CR, LF>> ELSE <<data[i]>>]) \o <<NUL>>
crlf2lf(data) == SelectSeq(data, LAMBDA c : c # CR)
be2le(data) ==
    [i \in DOMAIN data |-> IF i % 2 = 0 THEN data[i - 1] ELSE IF i < Len(data) THEN data[i + 1] ELSE data[i]]

(* A C string, and text in the server's encoding, whose conversion stops   *)
(* at the first zero; the terminating zero is sent too.                    *)
CString(data) == SelectInSeq(data, LAMBDA c : c = NUL)
UpToZero(data) == IF CString(data) = 0 THEN data ELSE SubSeq(data, 1, CString(data) - 1)

xf_cliprdr_process_requested_text(data) == lf2crlf(data)
xf_cliprdr_process_requested_unicodetext(data) == UpToZero(lf2crlf(data)) \o <<NUL>>
xf_cliprdr_process_requested_raw(data) == data
xf_cliprdr_process_text(data) == crlf2lf(data)
xf_cliprdr_process_unicodetext(data) == crlf2lf(UpToZero(data))

-----------------------------------------------------------------------------
(* Bitmaps: X has a file header of 14 bytes before them.  The number of    *)
(* colours is taken from the field after the depth, the compression.       *)
xf_cliprdr_process_requested_dib(size) == IF size < 54 THEN 0 ELSE size - 14
xf_cliprdr_process_dib(size, bpp, compression) ==
    IF size < 40 THEN [size |-> 0, offset |-> 0]
    ELSE [size |-> size + 14,
          offset |-> 14 + 40 + (IF bpp > 8 THEN 0
                                ELSE 4 * (IF compression = 0 THEN 2 ^ bpp ELSE compression))]

-----------------------------------------------------------------------------
(* HTML: a header of five lines whose numbers say where the document and   *)
(* the fragment are; without a body element one is put around the text.    *)
HtmlHeader == [Version |-> 13, StartHTML |-> 22, EndHTML |-> 20, StartFragment |-> 26, EndFragment |-> 24]
HtmlHeaderSize == 13 + 22 + 20 + 26 + 24
xf_cliprdr_process_requested_html(n, body) ==
    LET open == HtmlHeaderSize + (IF body THEN 0 ELSE 12) + 20
        close == open + n + 18 + (IF body THEN 0 ELSE 14)
    IN  [StartHTML |-> HtmlHeaderSize, StartFragment |-> open, EndFragment |-> open + n,
         EndHTML |-> close, size |-> close + 1,
         at |-> [StartHTML |-> 23, EndHTML |-> 43, StartFragment |-> 69, EndFragment |-> 93]]
xf_cliprdr_process_html(found, start, end, size) ==
    IF ~found \/ start > size \/ end > size \/ start >= end THEN 0 ELSE end - start

-----------------------------------------------------------------------------
(* Formats: the ones X knows, by their number or by their atom.            *)
FormatMappings ==
    <<[id |-> "RAW", target |-> "_FREERDP_RAW"], [id |-> "UNICODETEXT", target |-> "UTF8_STRING"],
      [id |-> "TEXT", target |-> "STRING"], [id |-> "PNG", target |-> "image/png"],
      [id |-> "JPEG", target |-> "image/jpeg"], [id |-> "GIF", target |-> "image/gif"],
      [id |-> "DIB", target |-> "image/bmp"], [id |-> "HTML", target |-> "text/html"]>>
xf_cliprdr_select_format_by_id(id) == SelectInSeq(FormatMappings, LAMBDA m : m.id = id)
xf_cliprdr_select_format_by_atom(formats, target) ==
    SelectInSeq(FormatMappings, LAMBDA m : m.target = target /\ (m.id = "RAW" \/ m.id \in formats))
xf_cliprdr_append_target(targets, target) ==
    IF Len(targets) >= 20 \/ target \in {targets[i] : i \in DOMAIN targets}
    THEN targets ELSE Append(targets, target)

(* The targets offered for a list of formats of the server.                *)
Targets(formats) ==
    FoldLeft(LAMBDA ts, f : LET i == xf_cliprdr_select_format_by_id(f) IN
                            IF i = 0 THEN ts ELSE xf_cliprdr_append_target(ts, FormatMappings[i].target),
             <<"TIMESTAMP", "TARGETS">>, formats)

-----------------------------------------------------------------------------
(* The messages: a header of 8 bytes whose last word counts what follows.  *)
cliprdr_packet_new(body) == <<2, 2, 4>> \o body
cliprdr_packet_send(layout) == Bytes(layout) - 8

Names == [HTML |-> 11, PNG |-> 3, JPEG |-> 4, GIF |-> 3]
NameLength(f, long) ==
    IF ~long THEN 32 ELSE IF f \in DOMAIN Names THEN 2 * Names[f] + 2 ELSE 2
cliprdr_process_format_list_event(formats, long) ==
    cliprdr_packet_new(FlattenSeq([i \in DOMAIN formats |-> <<4, NameLength(formats[i], long)>>]))
cliprdr_send_clip_caps == cliprdr_packet_new(<<2, 2, 2, 2, 4, 4>>)
cliprdr_process_format_data_request_event == cliprdr_packet_new(<<4>>)
cliprdr_process_format_data_response_event(size) == cliprdr_packet_new(When(size > 0, <<size>>))

(* Reading a list of formats: entries of 36 bytes, or until fewer than 6   *)
(* are left; a name ends with its zero or with the message.                *)
cliprdr_process_short_format_names(length) == length \div 36
cliprdr_process_long_format_names(entries) ==
    LET f[i \in 0 .. Len(entries)] ==
          IF i = 0 THEN [n |-> 0, left |-> Bytes(FlattenSeq(entries))]
          ELSE IF f[i - 1].left < 6 THEN f[i - 1]
          ELSE [n |-> f[i - 1].n + 1, left |-> f[i - 1].left - Bytes(entries[i])]
    IN f[Len(entries)]

(* A known number, or a name that is known, or any other name at all.      *)
cliprdr_process_format_list(list) ==
    LET meant(e) == IF e.id \in {"TEXT", "DIB", "UNICODETEXT"} THEN e.id
                    ELSE IF e.name \in DOMAIN Names THEN e.name ELSE e.id
        kept == SelectSeq(list, LAMBDA e : e.id \in {"TEXT", "DIB", "UNICODETEXT"} \/ e.name # "")
    IN  [i \in DOMAIN kept |-> meant(kept[i])]

(* Capabilities: only the general set is read; another one is not skipped. *)
cliprdr_process_clip_caps(sets) ==
    [long |-> \E i \in DOMAIN sets : sets[i].general /\ sets[i].long,
     received |-> \E i \in DOMAIN sets : sets[i].general,
     read |-> 4 + Bytes([i \in DOMAIN sets |-> IF sets[i].general THEN 12 ELSE 4])]

-----------------------------------------------------------------------------
(* The remote application channel's orders (channels/rail/rail_orders.c,   *)
(* rail_main.c, libfreerdp-utils/rail.c) and what the X11 client computes  *)
(* for its windows (client/X11/xf_rail.c, xf_window.c, xf_event.c).        *)

(* An order is written in steps: a field of n bytes, before which the      *)
(* stream is grown to hold it, or is not.                                  *)
Field(n) == [n |-> n, grows |-> FALSE]
Grown(n) == [n |-> n, grows |-> TRUE]
RailFields(layout) == [i \in DOMAIN layout |-> Field(layout[i])]

RAIL_PDU_HEADER_LENGTH == 4

(* A string is a length and, one check before both, its bytes; or, where   *)
(* its length stands elsewhere, its bytes alone.                           *)
rail_write_unicode_string(len) == [string |-> <<Grown(2 + len)>>, value |-> When(len > 0, <<Grown(len)>>)]
rail_write_high_contrast(o) == RailFields(<<4, 4>>) \o rail_write_unicode_string(o.scheme).string

(* What the rail_write_*_order functions write.                            *)
rail_write_order(o) ==
    CASE o.is = "exec" -> RailFields(<<2, 2, 2, 2>>) \o rail_write_unicode_string(o.exe).value
                            \o rail_write_unicode_string(o.dir).value \o rail_write_unicode_string(o.args).value
      [] o.is = "sysparam" ->
            RailFields(<<4>>) \o
            (CASE o.param \in {"drag", "cues", "keyboard", "mouse"} -> RailFields(<<1>>)
               [] o.param \in {"work area", "display", "taskbar"} -> RailFields(<<2, 2, 2, 2>>)
               [] o.param = "contrast" -> rail_write_high_contrast(o))
      [] o.is \in {"handshake", "status", "appid", "langbar"} -> RailFields(<<4>>)
      [] o.is = "activate" -> RailFields(<<4, 1>>)
      [] o.is = "sysmenu" -> RailFields(<<4, 2, 2>>)
      [] o.is = "syscommand" -> RailFields(<<4, 2>>)
      [] o.is = "notify" -> RailFields(<<4, 4, 4>>)
      [] o.is = "move" -> RailFields(<<4, 2, 2, 2, 2>>)

(* What the rail_send_*_order functions reserve, without the header.       *)
rail_send_start_order == [handshake |-> 4, status |-> 4, exec |-> 8, sysparam |-> 4 + 8]
rail_send_client_order == [activate |-> 5, sysmenu |-> 8, syscommand |-> 6, notify |-> 12, move |-> 12,
                           appid |-> 4, langbar |-> 4]
rail_process_event(o) ==
    [room |-> IF o.is \in DOMAIN rail_send_start_order THEN rail_send_start_order[o.is]
              ELSE rail_send_client_order[o.is],
     steps |-> rail_write_order(o)]

(* The stream after the steps: how much is written and how much fits;      *)
(* "past" when a field went over the end.                                  *)
rail_pdu_init(length) == [at |-> RAIL_PDU_HEADER_LENGTH, size |-> length + RAIL_PDU_HEADER_LENGTH, past |-> FALSE]
Puts(s, step) ==
    LET size == IF step.grows /\ s.at + step.n > s.size THEN s.at + step.n ELSE s.size
    IN  [at |-> s.at + step.n, size |-> size, past |-> s.past \/ s.at + step.n > size]
RailWritten(sent) == FoldLeft(Puts, rail_pdu_init(sent.room), sent.steps)

(* The order's length on the wire counts the header.                       *)
rail_send_pdu(o) == RailWritten(rail_process_event(o)).at

(* The parameters the client answers a handshake with, in this order.      *)
rail_send_client_sysparams_order(params) ==
    SelectSeq(<<"contrast", "taskbar", "mouse", "keyboard", "drag", "cues", "work area">>,
              LAMBDA p : p \in params)

-----------------------------------------------------------------------------
(* Orders pass between the channel's thread and the client's as clones.    *)
(* Each order points at strings: the color scheme, the program, the        *)
(* application id, which lies in the order itself.                         *)
PointersOf(type) ==
    CASE type \in {"get sysparams", "set sysparams", "server sysparam"} -> {"scheme"}
      [] type = "exec results" -> {"exe"}
      [] type = "appid resp" -> {"id"}
      [] OTHER -> {}

ordersize_table ==
    {"get sysparams", "exec results", "server sysparam", "minmaxinfo", "localmovesize", "appid resp",
     "langbarinfo", "set sysparams", "exec remote app", "activate", "sysmenu", "syscommand",
     "notify event", "window move", "appid req", "client langbarinfo"}

(* What the clone's pointers lead to: a copy, the clone itself, or what    *)
(* the original led to.                                                    *)
rail_clone_order(type) ==
    [p \in PointersOf(type) |->
       CASE type \in {"get sysparams", "set sysparams"} /\ p = "scheme" -> "copy"
         [] type = "exec results" /\ p = "exe" -> "copy"
         [] type = "appid resp" /\ p = "id" -> "inside"
         [] OTHER -> "shared"]

rail_free_cloned_order(type) ==
    {p \in PointersOf(type) : \/ type \in {"get sysparams", "set sysparams"} /\ p = "scheme"
                              \/ type = "exec results" /\ p = "exe"}

-----------------------------------------------------------------------------
(* The RAIL window after an order, and what the client is asked to show.   *)
window_state_update(window, flags, state) ==
    [f \in DOMAIN window |-> IF f \in flags THEN state[f] ELSE window[f]]

rail_UpdateWindow(flags) ==
    When("show" \in flags, <<"ShowWindow">>) \o When("title" \in flags, <<"SetWindowText">>)
      \o When(flags \intersect {"offset", "size"} # {}, <<"MoveWindow">>)
      \o When("rects" \in flags, <<"SetWindowRects">>)
      \o When("visibility" \in flags, <<"SetWindowVisibilityRects">>)

(* The part of an update that falls on a window.  Right and bottom are     *)
(* unsigned words of w bits, and so are the comparisons with them.         *)
Unsigned(n, w) == n % (2 ^ w)
xf_rail_paint(u, win, w) ==
    LET right == Unsigned(win.x + win.w - 1, w)
        ileft == Max({u.left, win.x})
        iright == Min({Unsigned(u.right, w), right})
    IN  IF win.w = 0 \/ iright < Unsigned(ileft, w) THEN << >>
        ELSE <<[x |-> ileft - win.x, w |-> Unsigned(iright - ileft + 1, w)]>>

(* What is copied of an area of a window: an area that sticks out is cut   *)
(* one column short of the window's end.                                   *)
xf_UpdateWindowArea(win, area) ==
    LET ax == area.x + win.x IN
    [x |-> area.x, w |-> IF ax + area.w > win.x + win.w THEN win.x + win.w - 1 - ax ELSE area.w]

(* A new window is moved onto the screen.                                  *)
xf_FixWindowCoordinates(win, screen) ==
    LET wide == IF win.w < 1 THEN 1 ELSE win.w
        moved == IF win.x < screen.left THEN [x |-> screen.left, w |-> wide + win.x]
                 ELSE [x |-> win.x, w |-> wide]
        all == screen.right - screen.left + 1
    IN  [moved EXCEPT !.w = IF @ > all THEN all ELSE @]

-----------------------------------------------------------------------------
(* A button is told with its flags and the place in the session, an        *)
(* unsigned word of w bits; a turn of the wheel with no place.             *)
Buttons == [b \in 1 .. 3 |-> CASE b = 1 -> "BUTTON1" [] b = 2 -> "BUTTON3" [] b = 3 -> "BUTTON2"]

xf_event_ButtonPress(b, x, offset, w) ==
    CASE b \in 1 .. 3 -> <<[flags |-> {"DOWN", Buttons[b]}, x |-> Unsigned(x + offset, w)]>>
      [] b = 4 -> <<[flags |-> {"WHEEL"}, x |-> 0]>>
      [] b = 5 -> <<[flags |-> {"WHEEL", "NEGATIVE"}, x |-> 0]>>
      [] OTHER -> << >>

xf_event_ButtonRelease(b, x, offset, w) ==
    IF b \in 1 .. 3 THEN <<[flags |-> {Buttons[b]}, x |-> Unsigned(x + offset, w)]>> ELSE << >>

(* A desktop's motion is told when it is wanted or a button is held; a     *)
(* remote application's only when it is wanted.                            *)
xf_event_MotionNotify(wanted, held, app, x, offset, w) ==
    When(wanted \/ (~app /\ held), <<[flags |-> {"MOVE"}, x |-> Unsigned(IF app THEN x + offset ELSE x, w)]>>)
=============================================================================
