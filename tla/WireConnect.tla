---------------------------- MODULE WireConnect -----------------------------
(***************************************************************************)
(* What the connection sequence writes and reads, as the sizes of its      *)
(* fields: capability sets, the GCC and MCS messages, and the headers and  *)
(* packets of the session.                                                 *)
(***************************************************************************)
EXTENDS Layout, FiniteSets

-----------------------------------------------------------------------------
(* libfreerdp-core/capabilities.c: the capability sets the server demands  *)
(* and the client confirms.                                                *)
(*                                                                         *)
(* The layout of the sets: what a function writes or reads is the sequence *)
(* of the sizes, in bytes, of its fields.  What a set that is read does to *)
(* the settings is in RdpConnection.                                       *)

\* A set starts with its type and its length, which counts itself.
rdp_capability_set_header == Both(<< 2, 2 >>)
rdp_capability_set_finish(body) == Bytes(rdp_capability_set_header.write) + Bytes(body)

\* The sets, in the order of the file: of a fixed layout, or one that depends on the
\* settings or on the length received.
rdp_general_capability_set == Both(<< 2, 2, 2, 2, 2, 2, 2, 2, 2, 1, 1 >>)
rdp_bitmap_capability_set == Both(<< 2, 2, 2, 2, 2, 2, 2, 2, 2, 1, 1, 2, 2 >>)
rdp_order_capability_set == Both(<< 16, 4, 2, 2, 2, 2, 2, 2, 32, 2, 2, 4, 4, 2, 2, 2, 2 >>)
rdp_control_capability_sets == [bitmap_cache |-> Both(<< 4, 4, 4, 4, 4, 4, 2, 2, 2, 2, 2, 2 >>),
                                control |-> Both(<< 2, 2, 2, 2 >>), window_activation |-> Both(<< 2, 2, 2, 2 >>)]
rdp_pointer_capability_set(st) == [write |-> << 2, 2 >> \o When(st.large_pointer, << 2 >>), read |-> << 2, 2, 2 >>]
rdp_share_capability_sets ==
    [share |-> Both(<< 2, 2 >>), color_cache |-> Both(<< 2, 2 >>), sound |-> Both(<< 2, 2 >>)]
rdp_input_capability_set == Both(<< 2, 2, 4, 4, 4, 4, 64 >>)
rdp_font_capability_set(length) ==
    [write |-> << 2, 2 >>, read |-> When(length > 4, << 2 >>) \o When(length > 6, << 2 >>)]
rdp_brush_capability_set == Both(<< 4 >>)
rdp_glyph_cache_capability_set == [write |-> Times(11, << 2, 2 >>) \o << 2, 2 >>, read |-> << 40, 4, 2, 2 >>]
rdp_offscreen_capability_sets ==
    [offscreen_bitmap_cache |-> Both(<< 4, 2, 2 >>), bitmap_cache_host_support |-> Both(<< 1, 1, 2 >>)]
rdp_bitmap_cache_v2_capability_set ==
    [write |-> << 2, 1, 1 >> \o Times(5, << 4 >>) \o << 12 >>, read |-> << 2, 1, 1, 4, 4, 4, 4, 4, 12 >>]
rdp_virtual_channel_capability_set(length) == [write |-> << 4, 4 >>, read |-> << 4 >> \o When(length > 8, << 4 >>)]
rdp_draw_nine_grid_cache_capability_set == Both(<< 4, 2, 2 >>)
\* The entries, the chunk sizes and the image cache properties follow three fields.
rdp_draw_gdiplus_cache_capability_set ==
    [write |-> << 4, 4, 4 >> \o << 2, 2, 2, 2, 2 >> \o << 2, 2, 2, 2 >> \o << 2, 2, 2 >>, read |-> << 4, 4, 4, 10, 8, 6 >>]
rdp_window_capability_sets == [remote_programs |-> Both(<< 4 >>), window_list |-> Both(<< 4, 1, 2 >>),
                               desktop_composition |-> Both(<< 2 >>)]
rdp_update_capability_sets == [multifragment_update |-> Both(<< 4 >>), large_pointer |-> Both(<< 2 >>),
                               surface_commands |-> Both(<< 4, 4 >>)]
rdp_frame_capability_sets == [frame_acknowledge |-> Both(<< 4 >>), v3_codec_id |-> Both(<< 1 >>)]

\* The codecs: each has a GUID, an id and properties whose length precedes them.
Container(n, layout) == [length |-> n, layout |-> layout]
rdp_write_client_capability_containers ==
    [rfx |-> Container(49, << 4, 4, 4,  2, 4, 2,  2, 4, 1, 2, 2, 2,  2, 2, 1, 1, 1, 1,  2, 2, 1, 1, 1, 1 >>),
     nsc |-> Container(3, << 1, 1, 1 >>), jpeg |-> Container(1, << 1 >>)]
rdp_write_server_capability_containers ==
    [rfx |-> Container(4, << 4 >>), nsc |-> Container(4, << 4 >>), jpeg |-> Container(1, << 1 >>)]

Codec == {"rfx", "nsc", "jpeg"}
Properties(st, codec) == IF st.server_mode THEN rdp_write_server_capability_containers[codec]
                         ELSE rdp_write_client_capability_containers[codec]
rdp_write_bitmap_codecs_capability_set(st) ==
    LET One(codec) == IF codec \in st.codecs THEN << 16, 1, 2 >> \o Properties(st, codec).layout
                      ELSE << >>
    IN  << 1 >> \o One("rfx") \o One("nsc") \o One("jpeg")
\* The reader goes from codec to codec by the lengths it reads.
rdp_read_bitmap_codecs_capability_set(st) ==
    << 1 >> \o FlattenSeq([i \in 1 .. Cardinality(st.codecs) |->
                  << 16, 1, 2, Properties(st, SetToSeq(st.codecs)[i]).length >>])

\* rdp_write_confirm_active: the sets and the number of them it announces.
rdp_write_confirm_active(st) ==
    [number |-> 15 + (IF st.offscreen_bitmap_cache THEN 1 ELSE 0)
                       + (IF "large_pointer" \in st.received /\ st.large_pointer THEN 1 ELSE 0)
                       + (IF st.remote_app THEN 2 ELSE 0)
                       + (IF "multifragment_update" \in st.received THEN 1 ELSE 0)
                       + (IF "surface_commands" \in st.received THEN 1 ELSE 0)
                       + (IF "bitmap_codecs" \in st.received THEN 1 ELSE 0)
                       + (IF "frame_acknowledge" \in st.received /\ st.frame_acknowledge THEN 1 ELSE 0)
                       + (IF "v3_codec_id" \in st.received /\ st.v3_codec_id THEN 1 ELSE 0),
         sets |-> << "general", "bitmap", "order" >>
               \o << IF st.rdp_version >= 5 THEN "bitmap_cache_v2" ELSE "bitmap_cache" >>
               \o << "pointer", "input", "brush", "glyph_cache", "virtual_channel", "sound", "share",
                     "font", "control", "color_cache", "window_activation" >>
               \o When(st.offscreen_bitmap_cache, << "offscreen_bitmap_cache" >>)
               \o When("large_pointer" \in st.received /\ st.large_pointer, << "large_pointer" >>)
               \o When(st.remote_app, << "remote_programs", "window_list" >>)
               \o When("multifragment_update" \in st.received, << "multifragment_update" >>)
               \o When("surface_commands" \in st.received, << "surface_commands" >>)
               \o When("bitmap_codecs" \in st.received, << "bitmap_codecs" >>)
               \o When("frame_acknowledge" \in st.received /\ st.frame_acknowledge, << "frame_acknowledge" >>)
               \o When("v3_codec_id" \in st.received /\ st.v3_codec_id, << "v3_codec_id" >>)]
rdp_write_demand_active ==
    [number |-> 14,
     sets   |-> << "general", "bitmap", "order", "pointer", "input", "virtual_channel",
                   "bitmap_cache_host_support", "share", "font", "multifragment_update",
                   "large_pointer", "desktop_composition", "surface_commands", "bitmap_codecs" >>]

\* What is written for a set, and what is read of it when it has that length.
CapSet == {"general", "bitmap", "order", "pointer", "input", "font", "brush", "glyph_cache", "bitmap_cache_v2",
           "virtual_channel", "draw_nine_grid", "draw_gdiplus", "bitmap_codecs"}
          \cup DOMAIN rdp_control_capability_sets \cup DOMAIN rdp_share_capability_sets
          \cup DOMAIN rdp_offscreen_capability_sets \cup DOMAIN rdp_window_capability_sets
          \cup DOMAIN rdp_update_capability_sets \cup DOMAIN rdp_frame_capability_sets
Layouts(set, st, length) ==
    CASE set = "general" -> rdp_general_capability_set
      [] set = "bitmap" -> rdp_bitmap_capability_set
      [] set = "order" -> rdp_order_capability_set
      [] set \in DOMAIN rdp_control_capability_sets -> rdp_control_capability_sets[set]
      [] set = "pointer" -> rdp_pointer_capability_set(st)
      [] set \in DOMAIN rdp_share_capability_sets -> rdp_share_capability_sets[set]
      [] set = "input" -> rdp_input_capability_set
      [] set = "font" -> rdp_font_capability_set(length)
      [] set = "brush" -> rdp_brush_capability_set
      [] set = "glyph_cache" -> rdp_glyph_cache_capability_set
      [] set \in DOMAIN rdp_offscreen_capability_sets -> rdp_offscreen_capability_sets[set]
      [] set = "bitmap_cache_v2" -> rdp_bitmap_cache_v2_capability_set
      [] set = "virtual_channel" -> rdp_virtual_channel_capability_set(length)
      [] set = "draw_nine_grid" -> rdp_draw_nine_grid_cache_capability_set
      [] set = "draw_gdiplus" -> rdp_draw_gdiplus_cache_capability_set
      [] set \in DOMAIN rdp_window_capability_sets -> rdp_window_capability_sets[set]
      [] set \in DOMAIN rdp_update_capability_sets -> rdp_update_capability_sets[set]
      [] set = "bitmap_codecs" -> [write |-> rdp_write_bitmap_codecs_capability_set(st),
                                   read |-> rdp_read_bitmap_codecs_capability_set(st)]
      [] set \in DOMAIN rdp_frame_capability_sets -> rdp_frame_capability_sets[set]
Written(set, st) == Layouts(set, st, 0).write
Read(set, st, length) == Layouts(set, st, length).read

-----------------------------------------------------------------------------
(* The PDUs of the connection sequence on the wire: tpkt.c, tpdu.c, per.c, *)
(* ber.c, mcs.c, gcc.c, nego.c, info.c, license.c, certificate.c and the   *)
(* headers of rdp.c.  A writer is the layout it writes, or the layout with *)
(* the length it announces; a reader is the layout it consumes.  st is     *)
(* rdpSettings: the lengths of its strings, its counts and its switches.   *)

Announced(length, layout) == [length |-> length, layout |-> layout]

\* tpkt.c, tpdu.c
tpkt_header == [write |-> << 1, 1, 2 >>, read |-> << 2, 2 >>]
tpdu_header(data) ==
    [write |-> << 1, 1 >> \o IF data THEN << 1 >> ELSE << 2, 2, 1 >>,
     read |-> << 1, 1 >> \o IF data THEN << 1 >> ELSE << 5 >>]
\* Connection requests and confirms, and disconnect requests, have the same header.
tpdu_connection_request == tpdu_header(FALSE)
tpdu_data == tpdu_header(TRUE)

\* per.c: lengths of one byte or two.
per_length(n) ==
    [write |-> IF n > 127 THEN << 2 >> ELSE << 1 >>,
     read |-> IF n > 127 THEN << 1, 1 >> ELSE << 1 >>]
\* per_choice, per_selection and per_number_of_sets
per_choice == Both(<< 1 >>)
per_padding(n) == [write |-> Times(n, << 1 >>), read |-> << n >>]
\* Integers of four bytes are written but refused: nothing of them is read.
per_integer(i) ==
    [write |-> LET n == IF i <= 255 THEN 1 ELSE IF i <= 65535 THEN 2 ELSE 4 IN per_length(n).write \o << n >>,
     read |-> per_length(1).read \o (IF i <= 255 THEN << 1 >> ELSE IF i <= 65535 THEN << 2 >> ELSE << >>)]
per_integer16 == Both(<< 2 >>)
per_enumerated == Both(<< 1 >>)
per_object_identifier ==
    [write |-> << 1, 1, 1, 1, 1, 1 >>,
     read |-> per_length(5).read \o << 1, 1, 1, 1, 1 >>]
MLength(length, min) == IF length - min >= 0 THEN length - min ELSE min
per_octet_string(length, min) ==
    [write |-> per_length(MLength(length, min)).write \o << length >>,
     read |-> per_length(length - min).read \o << length >>]
Halves(length) == (length + 1) \div 2
per_numeric_string(length, min) ==
    [write |-> per_length(MLength(length, min)).write \o << Halves(length) >>,
     read |-> per_length(length - min).read \o << Halves(length) >>]

\* ber.c: a tag, a length, a value.
ber_length(n) == Both(IF n > 127 THEN << 1, 2 >> ELSE << 1 >>)
_ber_skip_length(n) == IF n > 127 THEN 3 ELSE 1
ber_universal_tag == Both(<< 1 >>)
ber_application_tag(tag, n) ==
    [write |-> (IF tag > 30 THEN << 1, 1 >> ELSE << 1 >>) \o ber_length(n).write,
     read |-> (IF tag > 30 THEN << 1, 1 >> ELSE << 1 >>) \o ber_length(n).read]
ber_contextual_tag(n) ==
    [write |-> << 1 >> \o ber_length(n).write, read |-> << 1 >> \o ber_length(n).read,
     skip |-> _ber_skip_length(n) + 1]
\* The tag of a sequence, and what ber_skip_sequence skips: the contents too.
ber_sequence_tag(n) ==
    [write |-> << 1 >> \o ber_length(n).write, read |-> << 1 >> \o ber_length(n).read,
     skip |-> 1 + _ber_skip_length(n), skip_sequence |-> 1 + _ber_skip_length(n) + n]
ber_octet_string(n) ==
    [write |-> ber_universal_tag.write \o ber_length(n).write \o << n >>,
     read |-> ber_universal_tag.read \o ber_length(n).read,
     skip |-> 1 + _ber_skip_length(n) + n]
ber_boolean == Both(ber_universal_tag.write \o ber_length(1).write \o << 1 >>)
ber_enumerated == Both(ber_universal_tag.write \o ber_length(1).write \o << 1 >>)
\* The integer, and the number of bytes the writer returns for it.
ber_write_integer(i) ==
    LET n == IF i <= 255 THEN 1 ELSE IF i < 65408 THEN 2 ELSE IF i < 16744448 THEN 3 ELSE 4
    IN  Announced(n + 1, ber_universal_tag.write \o ber_length(n).write
                         \o IF n = 3 THEN << 1, 2 >> ELSE << n >>)
ber_read_integer(length) ==
    ber_universal_tag.read \o ber_length(length).read \o IF length = 3 THEN << 1, 2 >> ELSE << length >>
ber_skip_integer(i) ==
    IF i <= 255 THEN _ber_skip_length(1) + 2
    ELSE IF i <= 65535 THEN _ber_skip_length(2) + 3 ELSE _ber_skip_length(4) + 5

\* mcs.c
mcs_domain_mcspdu_header ==
    [write |-> tpkt_header.write \o tpdu_data.write \o per_choice.write,
     read |-> tpkt_header.read \o tpdu_data.read \o per_choice.read]
mcs_init_domain_parameters(channels, users, tokens, size) ==
    << channels, users, tokens, 1, 0, 1, size, 2 >>
targetParameters == mcs_init_domain_parameters(34, 2, 0, 65535)
minimumParameters == mcs_init_domain_parameters(1, 1, 1, 1056)
maximumParameters == mcs_init_domain_parameters(65535, 64535, 65535, 65535)
Integers8(params) == FlattenSeq([i \in 1 .. 8 |-> ber_write_integer(params[i]).layout])
mcs_domain_parameters(params) ==
    [write |-> ber_sequence_tag(Bytes(Integers8(params))).write \o Integers8(params),
     read |-> ber_sequence_tag(Bytes(Integers8(params))).read
              \o FlattenSeq([i \in 1 .. 8 |-> ber_read_integer(ber_write_integer(params[i]).length - 1)])]
Initial(data) == ber_octet_string(1).write \o ber_octet_string(1).write \o ber_boolean.write
                 \o mcs_domain_parameters(targetParameters).write
                 \o mcs_domain_parameters(minimumParameters).write
                 \o mcs_domain_parameters(maximumParameters).write
                 \o ber_octet_string(data).write
mcs_write_connect_initial(data) ==
    ber_application_tag(101, Bytes(Initial(data))).write \o Initial(data)
mcs_recv_connect_initial(data) ==
    tpkt_header.read \o tpdu_data.read \o ber_application_tag(101, Bytes(Initial(data))).read
    \o ber_octet_string(1).read \o << 1 >> \o ber_octet_string(1).read \o << 1 >> \o ber_boolean.read
    \o mcs_domain_parameters(targetParameters).read \o mcs_domain_parameters(minimumParameters).read
    \o mcs_domain_parameters(maximumParameters).read \o ber_octet_string(data).read
Response(data) == ber_enumerated.write \o ber_write_integer(0).layout
                  \o mcs_domain_parameters(targetParameters).write \o ber_octet_string(data).write
mcs_write_connect_response(data) ==
    ber_application_tag(102, Bytes(Response(data))).write \o Response(data)
mcs_recv_connect_response(data) ==
    tpkt_header.read \o tpdu_data.read \o ber_application_tag(102, Bytes(Response(data))).read
    \o ber_enumerated.read \o ber_read_integer(1) \o mcs_domain_parameters(targetParameters).read
    \o ber_octet_string(data).read
\* The small PDUs announce constants.
mcs_send_erect_domain_request ==
    Announced(12, mcs_domain_mcspdu_header.write \o per_integer(0).write \o per_integer(0).write)
mcs_send_attach_user_request == Announced(8, mcs_domain_mcspdu_header.write)
mcs_attach_user_confirm ==
    [send |-> Announced(11, mcs_domain_mcspdu_header.write \o per_enumerated.write \o per_integer16.write),
     recv |-> mcs_domain_mcspdu_header.read \o per_enumerated.read \o per_integer16.read]
mcs_channel_join_request ==
    [send |-> Announced(12, mcs_domain_mcspdu_header.write \o per_integer16.write \o per_integer16.write),
     recv |-> mcs_domain_mcspdu_header.read \o per_integer16.read \o per_integer16.read]
mcs_channel_join_confirm ==
    [send |-> Announced(15, mcs_domain_mcspdu_header.write \o per_enumerated.write \o Times(3, per_integer16.write)),
     recv |-> mcs_domain_mcspdu_header.read \o per_enumerated.read \o Times(3, per_integer16.read)]
mcs_send_disconnect_provider_ultimatum == Announced(9, mcs_domain_mcspdu_header.write \o per_enumerated.write)

-----------------------------------------------------------------------------
(* The PDUs that carry the settings of a session: the data blocks of       *)
(* gcc.c, the negotiation data of nego.c, the client info of info.c, the   *)
(* licences of license.c, the server's key in certificate.c, and the       *)
(* headers rdp.c puts in front of everything that follows.                 *)

\* gcc.c: a data block has a type and a length in front, which counts itself.
gcc_user_data_header == Both(<< 2, 2 >>)
Block(length, layout) == Announced(length, gcc_user_data_header.write \o layout)
NoBlock == Announced(0, << >>)
LesserOf(a, b) == IF a < b THEN a ELSE b
\* A name in a field of fixed size, cut and padded.
Padded(name, size) == LET n == LesserOf(name, size - 2) IN << n + 2, size - n - 2 >>
gcc_write_client_core_data(st) ==
    Block(216, << 4, 2, 2, 2, 2, 4, 4 >> \o Padded(st.client_hostname, 32) \o << 4, 4, 4, 64, 2, 2, 4, 2, 2, 2 >>
               \o Padded(st.client_product_id, 64) \o << 1, 1, 4 >>)
\* The fields after the first 128 bytes are read as long as there is length left for them.
gcc_read_client_core_data(blockLength) ==
    LET more == << 2, 2, 4, 2, 2, 2, 64, 1, 1, 4 >>
        fits == {n \in 0 .. Len(more) : Bytes(SubSeq(more, 1, n)) <= blockLength - 128}
    IN  << 4, 2, 2, 2, 2, 4, 4, 32, 4, 4, 4, 64 >> \o SubSeq(more, 1, Max(fits))
gcc_server_core_data == [write |-> Block(12, << 4, 4 >>), read |-> << 4, 4 >>]
gcc_write_client_security_data == Block(12, << 4, 4 >>)
gcc_read_client_security_data(st) == IF st.encryption /\ st.encryption_method # 0 THEN << 4 >> ELSE << 4, 4 >>
gcc_client_cluster_data == [write |-> Block(12, << 4, 4 >>), read |-> << 4, 4 >>]
gcc_client_network_data(st) ==
    [write |-> IF st.num_channels = 0 THEN NoBlock
               ELSE Block(st.num_channels * 12 + 8, << 4 >> \o Times(st.num_channels, << 8, 4 >>)),
     read |-> << 4 >> \o Times(st.num_channels, << 8, 4 >>)]
gcc_server_network_data(st) ==
    [write |-> Block(8 + st.num_channels * 2 + (IF st.num_channels % 2 = 1 THEN 2 ELSE 0),
               << 2, 2 >> \o Times(st.num_channels, << 2 >>) \o When(st.num_channels % 2 = 1, << 2 >>)),
     read |-> << 2, 2 >> \o Times(st.num_channels, << 2 >>) \o When(st.num_channels % 2 = 1, << 2 >>)]
gcc_write_client_monitor_data(st) ==
    IF st.num_monitors <= 1 THEN NoBlock
    ELSE Block(20 * st.num_monitors + 12, << 4, 4 >> \o Times(st.num_monitors, << 4, 4, 4, 4, 4 >>))
\* The server's key, with the lengths in it: the public key, the modulus and the signature.
TSSK_KEY_LENGTH == 64
PublicKeyBlob(st) == Announced(4 + 4 + 4 + 4 + 4 + st.key_length + 8, << 4, 4, 4, 4, 4, st.key_length, 8 >>)
SignatureBlob(st) == Announced(st.key_length + 8, << TSSK_KEY_LENGTH, 8 >>)
Certificate(st) ==
    Announced(4 + 4 + 4 + 2 + 2 + PublicKeyBlob(st).length + 2 + 2 + TSSK_KEY_LENGTH + 8,
              << 4, 4, 4, 2, 2 >> \o PublicKeyBlob(st).layout \o << 2, 2 >> \o SignatureBlob(st).layout)
gcc_write_server_security_data(st) ==
    IF ~st.encryption THEN Block(12, << 4, 4 >>)
    ELSE Block(12 + 4 + 4 + 32 + Certificate(st).length, << 4, 4, 4, 4, 32 >> \o Certificate(st).layout)
gcc_read_server_security_data(st) ==
    << 4, 4 >> \o When(st.encryption, << 4, 4, 32, Certificate(st).length >>)
\* certificate.c reads it, and gives up on a signature that is not 72 bytes long.
certificate_process_server_public_key(st) == << 4, 4, 4, 4, 4, (st.key_length + 8) - 8, 8 >>
certificate_process_server_public_signature(length) == << length >>
certificate_read_server_proprietary_certificate(st) ==
    << 4, 4, 2, 2 >> \o certificate_process_server_public_key(st) \o << 2, 2 >>
    \o When(SignatureBlob(st).length = 72, certificate_process_server_public_signature(72))
certificate_read_server_certificate(st) == << 4 >> \o certificate_read_server_proprietary_certificate(st)

gcc_write_client_data_blocks(st) ==
    << gcc_write_client_core_data(st), gcc_client_cluster_data.write, gcc_write_client_security_data,
       gcc_client_network_data(st).write >>
    \o When(st.negotiationFlags, << gcc_write_client_monitor_data(st) >>)
gcc_write_server_data_blocks(st) ==
    << gcc_server_core_data.write, gcc_server_network_data(st).write, gcc_write_server_security_data(st) >>
UserData(blocks) == FlattenSeq([i \in DOMAIN blocks |-> blocks[i].layout])
\* The readers go from block to block by the lengths they find.
gcc_read_data_blocks(blocks) == [i \in DOMAIN blocks |-> blocks[i].length]
\* The length of the connectPDU and what follows it.
RequestBody(n) == per_choice.write \o per_choice.write \o per_numeric_string(1, 1).write
                  \o per_padding(1).write \o per_choice.write \o per_choice.write
                  \o per_octet_string(4, 4).write \o per_octet_string(n, 0).write
gcc_conference_create_request(n) ==
    [write |-> [prefix |-> per_choice.write \o per_object_identifier.write \o per_length(n + 14).write,
               body |-> Announced(n + 14, RequestBody(n))],
     read |-> per_choice.read \o per_object_identifier.read \o per_length(n + 14).read
              \o per_choice.read \o per_choice.read \o per_numeric_string(1, 1).read \o per_padding(1).read
              \o per_choice.read \o per_choice.read \o per_octet_string(4, 4).read \o per_length(n).read]
ResponseBody(n) == per_choice.write \o per_integer16.write \o per_integer(1).write \o per_enumerated.write
                   \o per_choice.write \o per_choice.write
                   \o per_octet_string(4, 4).write \o per_octet_string(n, 0).write
gcc_conference_create_response(n) ==
    [write |-> [prefix |-> per_choice.write \o per_object_identifier.write \o per_length(n + 2).write,
               body |-> Announced(n + 2, ResponseBody(n))],
     read |-> per_choice.read \o per_object_identifier.read \o per_length(n + 2).read \o per_choice.read
              \o per_integer16.read \o per_integer(1).read \o per_enumerated.read \o per_choice.read
              \o per_choice.read \o per_octet_string(4, 4).read \o per_length(n).read]

\* mcs.c: the connect PDUs around the data blocks, with the length of the TPKT header.
mcs_send_connect_initial(st) ==
    LET data == gcc_conference_create_request(Bytes(UserData(gcc_write_client_data_blocks(st)))).write
        pdu == mcs_write_connect_initial(Bytes(data.prefix \o data.body.layout))
    IN  Announced(7 + Bytes(pdu), tpkt_header.write \o tpdu_data.write \o pdu)
mcs_send_connect_response(st) ==
    LET data == gcc_conference_create_response(Bytes(UserData(gcc_write_server_data_blocks(st)))).write
        pdu == mcs_write_connect_response(Bytes(data.prefix \o data.body.layout))
    IN  Announced(7 + Bytes(pdu), tpkt_header.write \o tpdu_data.write \o pdu)

\* nego.c: a routing token or a cookie, then the negotiation data.
Negotiation == << 1, 1, 2, 4 >>
Cookie(st) == IF st.routing_token > 0 THEN << st.routing_token >>
              ELSE When(st.cookie > 0, << 17, st.cookie, 1, 1 >>)
nego_send_negotiation_request(st) ==
    LET more == Cookie(st) \o When(st.requests, Negotiation)
    IN  Announced(11 + Bytes(more), tpkt_header.write \o tpdu_connection_request.write \o more)
\* What stands before the data is skipped to the end of its line, if it can be there at all.
nego_read_request(st) ==
    LET left == nego_send_negotiation_request(st).length - 11
        skipped == IF left > 8 THEN Bytes(Cookie(st)) ELSE 0
    IN  tpkt_header.read \o tpdu_connection_request.read \o << skipped >>
        \o When(left - skipped >= 8, << 1, 1, 2, 4 >>)
nego_send_negotiation_confirm(st) ==
    LET more == When(st.requests, Negotiation)
    IN  Announced(11 + Bytes(more), tpkt_header.write \o tpdu_connection_request.write \o more)

\* info.c
rdp_system_time == Both(<< 2, 2, 2, 2, 2, 2, 2, 2 >>)
ZoneName(n) == LET k == LesserOf(n, 62) IN << k, 64 - k >>
rdp_write_client_time_zone(st) ==
    << 4 >> \o ZoneName(st.zone) \o rdp_system_time.write \o << 4 >>
    \o ZoneName(st.zone) \o rdp_system_time.write \o << 4 >>
rdp_read_client_time_zone == << 4, 64 >> \o rdp_system_time.read \o << 4, 64 >> \o rdp_system_time.read \o << 4 >>
rdp_client_auto_reconnect_cookie == Both(<< 4, 4, 4, 16 >>)
Terminated(n) == When(n > 0, << n >>) \o << 2 >>
rdp_extended_info_packet(st) ==
    [write |-> << 2, 2 >> \o Terminated(st.address) \o << 2 >> \o Terminated(st.client_dir)
               \o rdp_write_client_time_zone(st) \o << 4, 4, 2 >>
               \o When(st.reconnect, rdp_client_auto_reconnect_cookie.write),
     read |-> << 2, 2, st.address + 2, 2, st.client_dir + 2 >> \o rdp_read_client_time_zone \o << 4, 4, 2 >>
              \o When(st.reconnect, rdp_client_auto_reconnect_cookie.read)]
\* The password cookie of a redirection is written whole; its length is given two bytes short.
Password(st) == IF st.password_cookie > 0 THEN Announced(st.password_cookie - 2, << st.password_cookie >>)
                ELSE Announced(st.password, << st.password >>)
rdp_write_info_packet(st) ==
    << 4, 4, 2, 2, 2, 2, 2 >> \o Terminated(st.domain) \o Terminated(st.username)
    \o When(Password(st).length > 0, Password(st).layout) \o << 2 >>
    \o Terminated(st.shell) \o Terminated(st.directory)
    \o When(st.rdp_version >= 5, rdp_extended_info_packet(st).write)
rdp_read_info_packet(st) ==
    << 4, 4, 2, 2, 2, 2, 2 >> \o Terminated(st.domain) \o Terminated(st.username)
    \o Terminated(Password(st).length) \o Terminated(st.shell) \o Terminated(st.directory)
    \o When(st.rdp_version >= 5, rdp_extended_info_packet(st).read)

\* rdp.c: the headers.  crypt is the protection of the PDU: none, flags only, rc4 or fips.
RDP_PACKET_HEADER_MAX_LENGTH == 15
rdp_security_header == Both(<< 2, 2 >>)
rdp_security_stream_init(crypt) ==
    CASE crypt = "rc4" -> 12 [] crypt = "fips" -> 16 [] crypt = "flags" -> 4 [] crypt = "none" -> 0
rdp_get_sec_bytes(crypt) ==
    CASE crypt = "rc4" -> 12 [] crypt = "fips" -> 12 + 4 [] crypt = "flags" -> 4 [] crypt = "none" -> 0
rdp_write_share_data_header(length) == length - RDP_PACKET_HEADER_MAX_LENGTH - 6 - 12
rdp_share_control_header(length) ==
    [write |-> length - RDP_PACKET_HEADER_MAX_LENGTH,
     read |-> << 2, 2 >> \o When(length > 4, << 2 >>)]
rdp_read_share_data_header == << 4, 1, 1, 2, 1, 1, 2 >>
\* The lengths in the TPKT header and in the MCS header.
rdp_write_header(crypt, length) ==
    LET pad == 8 - ((length - RDP_PACKET_HEADER_MAX_LENGTH - 16) % 8)
        long == IF crypt = "fips" /\ pad # 8 THEN length + pad ELSE length
    IN  [layout |-> mcs_domain_mcspdu_header.write \o per_integer16.write \o per_integer16.write \o << 1, 2 >>,
         tpkt |-> long, rest |-> long - RDP_PACKET_HEADER_MAX_LENGTH]
rdp_read_header(length) == mcs_domain_mcspdu_header.read \o per_integer16.read \o per_integer16.read
                           \o << 1 >> \o per_length(32768).read
rdp_security_stream_out(crypt, length) ==
    CASE crypt = "fips" -> [layout |-> rdp_security_header.write \o << 2, 1, 1, 8 >>,
                            pad |-> (8 - ((length - 31) % 8)) % 8]
      [] crypt = "rc4" -> [layout |-> rdp_security_header.write \o << 8 >>, pad |-> 0]
      [] crypt = "flags" -> [layout |-> rdp_security_header.write, pad |-> 0]
      [] crypt = "none" -> [layout |-> << >>, pad |-> 0]
\* A PDU of a body of n bytes, with the lengths in all of its headers.
Pdu(crypt, share, n) ==
    LET length == RDP_PACKET_HEADER_MAX_LENGTH + rdp_security_stream_init(crypt) + Bytes(share) + n
        header == rdp_write_header(crypt, length)
        out == rdp_security_stream_out(crypt, length)
    IN  [tpkt |-> header.tpkt, rest |-> header.rest, pad |-> out.pad,
         layout |-> header.layout \o out.layout \o share \o << n, out.pad >>,
         control |-> rdp_share_control_header(length - rdp_get_sec_bytes(crypt)).write,
         data |-> rdp_write_share_data_header(length - rdp_get_sec_bytes(crypt))]
rdp_send(crypt, n) == Pdu(crypt, << >>, n)
rdp_send_pdu(crypt, n) == Pdu(crypt, << 2, 2, 2 >>, n)
rdp_send_data_pdu(crypt, n) == Pdu(crypt, << 2, 2, 2, 4, 1, 1, 2, 1, 1, 2 >>, n)
\* What rdp_decrypt leaves of a PDU whose MCS header announced rest bytes.
rdp_decrypt(crypt, rest, pad) == IF crypt = "fips" THEN rest - 4 - 12 - pad ELSE rest - 4 - 8

\* license.c: the messages behind their preamble, whose length counts itself.
license_preamble == Both(<< 1, 1, 2 >>)
license_send(body) ==
    LET length == RDP_PACKET_HEADER_MAX_LENGTH + 4 + 4 + Bytes(body)
    IN  Announced(length - 23 + 4, license_preamble.write \o body)
license_binary_blob(n) == Both(<< 2, 2 >> \o When(n > 0, << n >>))
license_write_padded_binary_blob(n) ==
    LET pad_len == 72 % n IN Announced(n + pad_len, license_binary_blob(n).write \o << pad_len >>)
license_write_platform_id == << 1, 1, 2 >>
license_write_new_license_request_packet(st) ==
    << 4 >> \o license_write_platform_id \o << 32 >> \o license_write_padded_binary_blob(48).layout
    \o license_binary_blob(st.username + 1).write \o license_binary_blob(st.client_hostname + 1).write
license_write_platform_challenge_response_packet(challenge) ==
    license_binary_blob(challenge).write \o license_binary_blob(20).write \o << 16 >>
license_send_valid_client_error_packet == << 4, 4 >> \o license_binary_blob(0).write
license_read_error_alert_packet == << 4, 4 >> \o license_binary_blob(0).read
\* activation.c: the PDUs that finish an activation, and those that undo it.
rdp_synchronize_pdu == Both(<< 2, 2 >>)
\* Whoever sends it, a control PDU has one form.
rdp_control_pdu ==
    [client |-> << 2, 2, 4 >>, cooperate |-> << 2, 2, 4 >>, granted |-> << 2, 2, 4 >>, read |-> << 2, 2, 4 >>]
rdp_write_client_persistent_key_list_pdu == Times(10, << 2 >>) \o << 1, 1, 2 >>
\* The server only asks whether there is a whole font list; the map is read.
rdp_font_list_pdu ==
    [list |-> << 2, 2, 2, 2 >>, room |-> 8, map |-> << 2, 2, 2, 2 >>, read |-> << 2, 2, 2, 2 >>]
\* left: the bytes of the PDU that are there; Windows XP may send none.
rdp_deactivate_all(left) ==
    [write |-> << 4, 2, 1 >>, read |-> When(left > 0, << 4, 2, left - 6 >>)]
\* The server's answer to the two PDUs of the client that have one.
rdp_server_accept(pdu, action, left) ==
    CASE pdu = "control" /\ action = "request_control" /\ left >= 8 -> rdp_control_pdu.granted
      [] pdu = "font_list" /\ left >= rdp_font_list_pdu.room -> rdp_font_list_pdu.map
      [] OTHER -> << >>

\* credssp.c: nested BER values.  said pairs the length a header announces with the bytes
\* that then follow under it.
ber_get_content_length(n) == IF n - 1 > 127 THEN n - 4 ELSE n - 2
\* A value of n bytes with its header, and what is left of n without a header.
Wrapped(n) == n + ber_contextual_tag(n).skip
Unwrapped(n) == n - ber_contextual_tag(n).skip
\* A value under a header that announces length.
Under(length, contents) ==
    [write |-> ber_contextual_tag(length).write \o contents, said |-> << length, Bytes(contents) >>]

credssp_skip_ts_password_creds(st) ==
    ber_sequence_tag(Wrapped(ber_octet_string(st.domain).skip) + Wrapped(ber_octet_string(st.username).skip)
                     + Wrapped(ber_octet_string(st.password).skip)).skip_sequence
\* Each of the names, then the sequence around them.
credssp_write_ts_password_creds(st) ==
    LET Name(n) == Under(n + 2, ber_octet_string(n).write)
        Creds(names) ==
            << Under(ber_get_content_length(credssp_skip_ts_password_creds(st)),
                     names[1].write \o names[2].write \o names[3].write) >> \o names
    IN  Creds(<< Name(st.domain), Name(st.username), Name(st.password) >>)
credssp_skip_ts_credentials(st) ==
    ber_sequence_tag(Wrapped(ber_skip_integer(0))
                     + Wrapped(ber_octet_string(credssp_skip_ts_password_creds(st)).skip)).skip_sequence
\* rest: what the writer has left of the length when it comes to the credentials.
credssp_write_ts_credentials(st) ==
    LET type == ber_contextual_tag(3).write \o ber_write_integer(1).layout
        Rest(length) == length - ber_sequence_tag(length).skip - ber_contextual_tag(3).skip
                        - ber_write_integer(1).length - 1
        Credentials(length, rest, inner) == << Under(length, type \o rest.write), rest >> \o inner
        Octets(length, inner) ==
            Under(Rest(length), ber_universal_tag.write \o ber_length(credssp_skip_ts_password_creds(st)).write
                                \o inner[1].write)
        Nested(length, inner) == Credentials(length, Octets(length, inner), inner)
    IN  Nested(ber_get_content_length(credssp_skip_ts_credentials(st)), credssp_write_ts_password_creds(st))

\* What a token, an encrypted key or encrypted credentials of n bytes will take; none, nothing.
credssp_skip(field, n) ==
    IF n = 0 THEN 0
    ELSE IF field = "negoTokens" THEN Wrapped(Wrapped(Wrapped(Wrapped(ber_octet_string(n).skip))))
    ELSE Wrapped(ber_octet_string(n).skip)
credssp_skip_ts_request(length) == Wrapped(length + ber_skip_integer(2) + ber_contextual_tag(3).skip)
\* The message, and as data the number of bytes it takes from each of the three values:
\* what is left of the announced length when the headers before it are taken off; the
\* credentials alone are taken by their own length.
credssp_send(negoToken, authInfo, pubKeyAuth) ==
    LET Value(tags, length, data) == [write |-> tags \o ber_octet_string(length).write, data |-> data]
        Key(length) == Value(ber_contextual_tag(length).write, Unwrapped(length), Unwrapped(length))
        Auth(length) == Value(ber_contextual_tag(length).write, authInfo, authInfo)
        Item(tags, length) ==
            Value(tags \o ber_contextual_tag(length).write, Unwrapped(length), Unwrapped(length))
        Sequence(tags, length) == Item(tags \o ber_sequence_tag(length).write, Unwrapped(length))
        Sequences(tags, length) == Sequence(tags \o ber_sequence_tag(length).write, Unwrapped(length))
        Nego(length) == Sequences(ber_contextual_tag(length).write, Unwrapped(length))
        none == [write |-> << >>, data |-> 0]
        Request(length, nego, auth, key) ==
            [skip |-> length,
             request |-> Under(ber_get_content_length(length),
                               ber_contextual_tag(3).write \o ber_write_integer(2).layout
                               \o nego.write \o auth.write \o key.write),
             data |-> << nego.data, auth.data, key.data >>]
        Send(nego_tokens_length, auth_info_length, pub_key_auth_length) ==
            Request(credssp_skip_ts_request(nego_tokens_length + auth_info_length + pub_key_auth_length),
                    IF negoToken > 0 THEN Nego(ber_get_content_length(nego_tokens_length)) ELSE none,
                    IF authInfo > 0 THEN Auth(ber_get_content_length(auth_info_length)) ELSE none,
                    IF pubKeyAuth > 0 THEN Key(ber_get_content_length(pub_key_auth_length)) ELSE none)
    IN  Send(credssp_skip("negoTokens", negoToken), credssp_skip("authInfo", authInfo),
             credssp_skip("pubKeyAuth", pubKeyAuth))
\* Every header is read for itself; only the last one before a value tells its length.
credssp_recv(data) ==
    LET Value(n) == ber_octet_string(n).read \o << n >>
        Item(n) == ber_contextual_tag(ber_octet_string(n).skip).read \o Value(n)
        Sequence(n) == ber_sequence_tag(Wrapped(ber_octet_string(n).skip)).read \o Item(n)
        Sequences(n) == ber_sequence_tag(Wrapped(Wrapped(ber_octet_string(n).skip))).read \o Sequence(n)
        Nego(n) == ber_contextual_tag(Wrapped(Wrapped(Wrapped(ber_octet_string(n).skip)))).read \o Sequences(n)
        length == credssp_skip("negoTokens", data[1]) + credssp_skip("authInfo", data[2])
                  + credssp_skip("pubKeyAuth", data[3])
    IN  ber_sequence_tag(5 + length).read \o ber_contextual_tag(3).read \o ber_read_integer(1)
        \o When(data[1] > 0, Nego(data[1])) \o When(data[2] > 0, Item(data[2]))
        \o When(data[3] > 0, Item(data[3]))

\* ntlmssp.c: the attributes of the target as a sequence of pairs << name, length >>,
\* and as a function from their names to their lengths, 0 for one that is not there.
AvNames == << "NbDomainName", "NbComputerName", "DnsDomainName", "DnsComputerName", "DnsTreeName",
              "Timestamp", "Flags", "Restrictions", "ChannelBindings", "TargetName" >>
AvSize(pairs) == Bytes(FlattenSeq([i \in DOMAIN pairs |-> << 2, 2, pairs[i][2] >>]))
\* The last pair of a name counts, and nothing behind the end is read.
ntlmssp_input_av_pairs(av_pairs, pairs) ==
    LET end == CHOOSE i \in DOMAIN pairs :
                  pairs[i][1] = "EOL" /\ \A j \in 1 .. i - 1 : pairs[j][1] # "EOL"
        Of(name) == {i \in 1 .. end : pairs[i][1] = name /\ (name = "Flags" => pairs[i][2] > 0)}
    IN  [name \in DOMAIN av_pairs |->
            IF Of(name) = {} THEN av_pairs[name] ELSE pairs[Max(Of(name))][2]]
\* trailing: the zeroes NTLMv2 has behind the end.
ntlmssp_output_av_pairs(ntlm_v2, av_pairs) ==
    LET pairs == SelectSeq([i \in DOMAIN AvNames |-> << AvNames[i], av_pairs[AvNames[i]] >>],
                           LAMBDA pair : pair[2] > 0) \o << << "EOL", 0 >> >>
        trailing == IF ntlm_v2 THEN 8 ELSE 0
    IN  [pairs |-> pairs, size |-> AvSize(pairs) + trailing]
\* What the client adds to the server's attributes, and the room it makes for them.
ntlmssp_populate_av_pairs(av_pairs, target_info) ==
    LET all == [av_pairs EXCEPT !.Flags = 4, !.Restrictions = 48, !.TargetName = 42, !.ChannelBindings = 16]
    IN  [av_pairs |-> all, room |-> target_info + 512, written |-> ntlmssp_output_av_pairs(TRUE, all)]
\* The response of NTLMv2 and the places in it that are filled.
ntlmssp_compute_ntlm_v2_response(target_info) ==
    LET temp == target_info + 28
    IN  [length |-> temp + 16, layout |-> << 16, 1, 1, 2, 4, 8, 8, 4, target_info >>,
         hashed |-> temp + 8, challenge |-> << 8, temp >>]
ntlmssp_output_version == << 1, 1, 2, 3, 1 >>
ntlmssp_send_negotiate_message(ntlm_v2) ==
    << 8, 4, 4 >> \o << 2, 2, 4 >> \o << 2, 2, 4 >> \o When(ntlm_v2, ntlmssp_output_version)
\* name, info: where the server says they are, and their lengths.  kept: how much of the
\* message the integrity check will cover.
ntlmssp_recv_challenge_message(version, name, info) ==
    LET header == << 8, 4 >> \o << 2, 2, 4 >> \o << 4, 8, 8 >> \o << 2, 2, 4 >> \o When(version, << 8 >>)
    IN  [payload |-> Bytes(header), kept |-> Bytes(header) + name.length + info.length,
         target_name |-> name.offset .. name.offset + name.length - 1,
         target_info |-> info.offset .. info.offset + info.length - 1]
\* The fields of the last message in the order of their values, each with its length and
\* the place its header gives.
ntlmssp_authenticate_fields(st) ==
    LET PayloadBufferOffset == (IF st.ntlm_v2 THEN 80 ELSE 64) + IF st.ntlm_v2 THEN 8 ELSE 0
        WorkstationLen == IF st.ntlm_v2 THEN st.workstation ELSE 0
        DomainNameBufferOffset == PayloadBufferOffset
        UserNameBufferOffset == DomainNameBufferOffset + st.domain
        WorkstationBufferOffset == UserNameBufferOffset + st.username
        LmChallengeResponseBufferOffset == WorkstationBufferOffset + WorkstationLen
        NtChallengeResponseBufferOffset == LmChallengeResponseBufferOffset + 24
        EncryptedRandomSessionKeyBufferOffset == NtChallengeResponseBufferOffset + st.response
    IN  << << st.domain, DomainNameBufferOffset >>, << st.username, UserNameBufferOffset >>,
           << WorkstationLen, WorkstationBufferOffset >>, << 24, LmChallengeResponseBufferOffset >>,
           << st.response, NtChallengeResponseBufferOffset >>, << 16, EncryptedRandomSessionKeyBufferOffset >> >>
\* The message as written: the header, the place the integrity check is put once the
\* rest is there, and the values.
ntlmssp_send_authenticate_message(st) ==
    LET fields == ntlmssp_authenticate_fields(st)
        header == << 8, 4 >> \o Times(6, << 2, 2, 4 >>) \o << 4 >> \o When(st.ntlm_v2, ntlmssp_output_version)
    IN  [mic |-> When(st.ntlm_v2, << Bytes(header), 16 >>),
         header |-> header \o When(st.ntlm_v2, << 16 >>),
         values |-> [i \in DOMAIN fields |-> fields[i][1]]]
\* What is sent in a state, and the state after it; what is received.
ntlmssp_send(state) ==
    CASE state \in {"initial", "negotiate"} -> << "negotiate_message", "challenge" >>
      [] state = "authenticate" -> << "authenticate_message", "final" >>
      [] OTHER -> << "nothing", state >>
ntlmssp_recv(state, messageType) == IF messageType = 2 /\ state = "challenge" THEN "authenticate" ELSE state
=============================================================================
