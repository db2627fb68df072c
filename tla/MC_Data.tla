------------------------------ MODULE MC_Data -------------------------------
(***************************************************************************)
(* The pure functions of the remote desktop client, and of the client's    *)
(* boot options, on all small inputs.                                      *)
(***************************************************************************)
EXTENDS MC_Graphics, WireConnect, WireUpdates, DeviceIo, MediaData, DesktopData, BootOption

-----------------------------------------------------------------------------
(* The layouts of the PDUs on small instances.  A state is one PDU: dtCase *)
(* names it and holds the lengths, counts and switches it depends on.      *)

True(a) == a.length = Bytes(a.layout)
Follows(read, written) == Bytes(read) = Bytes(written)

-----------------------------------------------------------------------------
(* capabilities.c *)
CaseCaps == \E large, server, offscreen, remote, ack, v3 \in BOOLEAN, version \in {4, 5},
               codecs \in SUBSET Codec,
               received \in SUBSET {"large_pointer", "multifragment_update", "surface_commands",
                                    "bitmap_codecs", "frame_acknowledge", "v3_codec_id"} :
    /\ codecs = {} \/ received = {}
    /\ dtCase' = [what |-> "caps", large_pointer |-> large, server_mode |-> server, codecs |-> codecs,
               offscreen_bitmap_cache |-> offscreen, remote_app |-> remote, received |-> received,
               frame_acknowledge |-> ack, v3_codec_id |-> v3, rdp_version |-> version]
(* gcc.c and mcs.c *)
CaseConnect == \E n \in 0 .. 5, host \in {12, 40}, product \in {0, 70}, monitors \in 0 .. 3,
                  flags, encryption \in BOOLEAN, key \in {64, 256} :
    dtCase' = [what |-> "connect", num_channels |-> n, client_hostname |-> host, client_product_id |-> product,
               num_monitors |-> monitors, negotiationFlags |-> flags, encryption |-> encryption,
               encryption_method |-> 2, key_length |-> key]
(* nego.c *)
CaseNego == \E token \in {0, 36}, cookie \in {0, 1, 9, 20}, requests \in BOOLEAN :
    dtCase' = [what |-> "nego", routing_token |-> token, cookie |-> cookie, requests |-> requests]
(* info.c *)
InfoStrings == {0, 30}
CaseInfo == \E domain, user, password, shell, dir, address, client \in InfoStrings,
               zone \in {0, 62, 80}, cookie \in {0, 18}, reconnect \in BOOLEAN, version \in {4, 7} :
    dtCase' = [what |-> "info", domain |-> domain, username |-> user, password |-> password, shell |-> shell,
               directory |-> dir, address |-> address, client_dir |-> client, zone |-> zone,
               password_cookie |-> cookie, reconnect |-> reconnect, rdp_version |-> version,
               client_hostname |-> user]
(* rdp.c *)
CasePdu == \E crypt \in {"none", "flags", "rc4", "fips"}, n \in 0 .. 20, kind \in {"raw", "pdu", "data"} :
    dtCase' = [what |-> "pdu", crypt |-> crypt, n |-> n, kind |-> kind]
(* ber.c, per.c *)
CaseNumber == \E n \in (0 .. 6) \cup (126 .. 130) \cup (254 .. 258) \cup {65407, 65408, 65535, 65536, 16744447, 16744448} :
    dtCase' = [what |-> "number", n |-> n]

(* activation.c *)
CaseActivation == \E left \in {0, 7, 20} : dtCase' = [what |-> "activation", left |-> left]
(* credssp.c and ntlmssp.c: names are UTF-16, so their lengths are even *)
NlaStrings == {0, 2, 20, 34, 36, 38, 64, 70, 104, 110, 112, 126, 128}
CaseNla == \E domain, user, password \in NlaStrings, v2 \in BOOLEAN :
    dtCase' = [what |-> "nla", domain |-> domain, username |-> user, password |-> password, ntlm_v2 |-> v2,
               workstation |-> IF v2 THEN 22 ELSE 0]
(* what the server tells of itself in its challenge, with a name it may tell twice *)
CaseChallenge == \E domain, computer, tree, again \in {0, 10}, time, flags \in BOOLEAN, name \in {0, 14}, version \in BOOLEAN :
    dtCase' = [what |-> "challenge", target_name |-> name, version |-> version,
               pairs |-> << << "NbDomainName", domain >>, << "NbComputerName", computer >>,
                            << "DnsTreeName", tree >>, << "NbComputerName", again >> >>
                         \o When(time, << << "Timestamp", 8 >> >>) \o When(flags, << << "Flags", 4 >> >>)
                         \o << << "EOL", 0 >> >>]

-----------------------------------------------------------------------------
\* The number of capability sets announced is the number written, and every set is read
\* as it was written and no farther, whatever the server has announced and the settings
\* are; but a pointer set without large pointers is read two bytes too far.
CapabilitiesAreCounted ==
    Is("caps") =>
        LET confirm == rdp_write_confirm_active(dtCase)
            demand == rdp_write_demand_active
        IN  /\ confirm.number = Len(confirm.sets) /\ demand.number = Len(demand.sets)
            /\ \A i, j \in DOMAIN confirm.sets : confirm.sets[i] = confirm.sets[j] => i = j
            /\ \A set \in CapSet :
                   LET body == Written(set, dtCase)
                       read == Read(set, dtCase, rdp_capability_set_finish(body))
                   IN  IF set = "pointer" /\ ~dtCase.large_pointer THEN Bytes(read) = Bytes(body) + 2
                       ELSE Follows(read, body)

\* Each length in the connection PDUs is the length of what it stands before: of the data
\* blocks, of the PDUs around them, and of the key, unless the server's key is not as long
\* as the key that signs it.
ConnectLengthsAreTrue ==
    Is("connect") =>
        LET client == gcc_write_client_data_blocks(dtCase)
            server == gcc_write_server_data_blocks(dtCase)
        IN  /\ \A i \in DOMAIN client : True(client[i])
            /\ \A i \in DOMAIN server : True(server[i])
            /\ True(gcc_conference_create_request(Bytes(UserData(client))).write.body)
            /\ True(mcs_send_connect_initial(dtCase)) /\ True(mcs_send_connect_response(dtCase))
            /\ True(PublicKeyBlob(dtCase)) /\ True(Certificate(dtCase))
            /\ True(SignatureBlob(dtCase)) <=> dtCase.key_length = TSSK_KEY_LENGTH
            /\ \A pdu \in {mcs_send_erect_domain_request, mcs_send_attach_user_request, mcs_attach_user_confirm.send,
                           mcs_channel_join_request.send, mcs_channel_join_confirm.send,
                           mcs_send_disconnect_provider_ultimatum} : True(pdu)

\* The other end reads the connection PDUs as they were written, block for block; the key
\* only if it is as long as the key that signs it.
ConnectIsRead ==
    Is("connect") =>
        LET client == gcc_write_client_data_blocks(dtCase)
            server == gcc_write_server_data_blocks(dtCase)
            request == gcc_conference_create_request(Bytes(UserData(client))).write
            response == gcc_conference_create_response(Bytes(UserData(server))).write
            pduOf(data) == Bytes(data.prefix \o data.body.layout)
            header == gcc_user_data_header.read
        IN  /\ Bytes(mcs_recv_connect_initial(pduOf(request))) + Bytes(gcc_conference_create_request(Bytes(UserData(client))).read)
                   + Bytes(gcc_read_data_blocks(client)) = mcs_send_connect_initial(dtCase).length
            /\ Bytes(mcs_recv_connect_response(pduOf(response))) + Bytes(gcc_conference_create_response(Bytes(UserData(server))).read)
                   + Bytes(gcc_read_data_blocks(server)) = mcs_send_connect_response(dtCase).length
            /\ Follows(header \o gcc_read_client_core_data(212), client[1].layout)
            /\ Follows(header \o gcc_client_cluster_data.read, client[2].layout)
            /\ Bytes(header \o gcc_read_client_security_data(dtCase)) <= client[3].length
            /\ dtCase.num_channels > 0 => Follows(header \o gcc_client_network_data(dtCase).read, client[4].layout)
            /\ Follows(header \o gcc_server_core_data.read, server[1].layout)
            /\ Follows(header \o gcc_server_network_data(dtCase).read, server[2].layout)
            /\ Follows(header \o gcc_read_server_security_data(dtCase), server[3].layout)
            /\ dtCase.key_length = TSSK_KEY_LENGTH
                   <=> Follows(certificate_read_server_certificate(dtCase), Certificate(dtCase).layout)
            /\ Follows(mcs_attach_user_confirm.recv, mcs_attach_user_confirm.send.layout)
            /\ Follows(mcs_channel_join_request.recv, mcs_channel_join_request.send.layout)
            /\ Follows(mcs_channel_join_confirm.recv, mcs_channel_join_confirm.send.layout)

\* The negotiation request is as long as it says, and the server finds the negotiation
\* data behind a cookie or a routing token of any length.
NegotiationIsFound ==
    Is("nego") =>
        /\ True(nego_send_negotiation_request(dtCase)) /\ True(nego_send_negotiation_confirm(dtCase))
        /\ Follows(nego_read_request(dtCase), nego_send_negotiation_request(dtCase).layout)
        /\ dtCase.requests => Last(nego_read_request(dtCase)) = 4

\* The server reads the client's info as it was written, and the licence messages are as
\* long as they say.  With the password cookie of a redirection there are two bytes more
\* than the lengths account for.
InfoIsRead ==
    Is("info") =>
        LET request == license_write_new_license_request_packet(dtCase)
        IN  /\ Bytes(rdp_write_info_packet(dtCase)) - Bytes(rdp_read_info_packet(dtCase))
                   = IF dtCase.password_cookie > 0 THEN 2 ELSE 0
            /\ Bytes(rdp_read_client_time_zone) = 172
            /\ True(license_send(request))
            /\ True(license_send(license_write_platform_challenge_response_packet(dtCase.shell)))
            /\ license_write_padded_binary_blob(48).length % 72 = 0
            /\ license_write_padded_binary_blob(48).length + 4 = Bytes(license_write_padded_binary_blob(48).layout)
            /\ Follows(license_read_error_alert_packet, license_send_valid_client_error_packet)

\* Every header in front of a PDU announces the length of what stands behind it, and
\* what is left after decryption is what was sent, at every length and protection: the
\* two places that compute the padding of FIPS agree.
HeadersAreTrue ==
    Is("pdu") =>
        LET crypt == dtCase.crypt
            n == dtCase.n
            pdu == CASE dtCase.kind = "raw" -> rdp_send(crypt, n)
                     [] dtCase.kind = "pdu" -> rdp_send_pdu(crypt, n)
                     [] dtCase.kind = "data" -> rdp_send_data_pdu(crypt, n)
            share == CASE dtCase.kind = "raw" -> 0 [] dtCase.kind = "pdu" -> 6 [] dtCase.kind = "data" -> 18
        IN  /\ pdu.tpkt = Bytes(pdu.layout)
            /\ pdu.rest = Bytes(pdu.layout) - Bytes(rdp_read_header(0))
            /\ share > 0 => pdu.control = share + n
            /\ share > 6 => pdu.data = n
            /\ crypt \in {"rc4", "fips"} => rdp_decrypt(crypt, pdu.rest, pdu.pad) = share + n
            /\ crypt = "fips" => (share + n + pdu.pad) % 8 = 0
            /\ share > 0 => Bytes(rdp_share_control_header(pdu.control).read) = 6
            /\ Bytes(rdp_read_share_data_header) = 12

\* The encodings of ber.c and per.c are read back as they were written, and the lengths
\* ber_skip_ computes are those of what is written: for integers, as long as the writer
\* does not use three bytes, and of per.c's none of four.
NumbersAreRead ==
    Is("number") =>
        LET n == dtCase.n
        IN  /\ Follows(ber_read_integer(ber_write_integer(n).length - 1), ber_write_integer(n).layout)
            /\ Bytes(ber_write_integer(n).layout) = ber_write_integer(n).length + 1
            /\ (ber_skip_integer(n) = Bytes(ber_write_integer(n).layout)) <=> n \notin (65408 .. 16744447)
            /\ n < 65408 =>
                  /\ Follows(ber_length(n).read, ber_length(n).write)
                  /\ ber_octet_string(n).skip = Bytes(ber_octet_string(n).write)
                  /\ Bytes(ber_octet_string(n).read) + n = Bytes(ber_octet_string(n).write)
                  /\ ber_sequence_tag(n).skip_sequence = Bytes(ber_sequence_tag(n).write) + n
                  /\ ber_sequence_tag(n).skip = Bytes(ber_sequence_tag(n).read)
                  /\ ber_contextual_tag(n).skip = Bytes(ber_contextual_tag(n).write)
                  /\ Follows(ber_contextual_tag(n).read, ber_contextual_tag(n).write)
                  /\ Follows(per_length(n).read, per_length(n).write)
                  /\ n >= 4 => Follows(per_octet_string(n, 4).read, per_octet_string(n, 4).write)
                  /\ n >= 1 => Follows(per_numeric_string(n, 1).read, per_numeric_string(n, 1).write)
            /\ Follows(per_integer(n).read, per_integer(n).write) <=> n <= 65535

\* The PDUs of the activation are read as they were written, and the server answers those
\* of the client's that have an answer; an empty deactivation is one, too.
ActivationIsRead ==
    Is("activation") =>
        /\ Follows(rdp_synchronize_pdu.read, rdp_synchronize_pdu.write)
        /\ \A writer \in {"client", "cooperate", "granted"} : Follows(rdp_control_pdu.read, rdp_control_pdu[writer])
        /\ Bytes(rdp_write_client_persistent_key_list_pdu) = 24
        /\ Follows(rdp_font_list_pdu.read, rdp_font_list_pdu.map)
        /\ rdp_server_accept("font_list", "", Bytes(rdp_font_list_pdu.list)) = rdp_font_list_pdu.map
        /\ rdp_server_accept("control", "request_control", Bytes(rdp_control_pdu.client)) = rdp_control_pdu.granted
        /\ Bytes(rdp_deactivate_all(dtCase.left).read) = dtCase.left

\* What is announced is what follows.
SaysTrue(value) == value.said[1] = value.said[2]
ArrivedAs(message, values) ==
    /\ message.data = values
    /\ SaysTrue(message.request)
    /\ Bytes(message.request.write) = message.skip
    /\ Follows(credssp_recv(message.data), message.request.write)
Arrives(negoToken, authInfo, pubKeyAuth) ==
    ArrivedAs(credssp_send(negoToken, authInfo, pubKeyAuth), << negoToken, authInfo, pubKeyAuth >>)
AuthenticateFits(fields, message, mic) ==
    /\ \A i \in DOMAIN fields :
           fields[i][2] = Bytes(message.header) + Bytes(SubSeq(message.values, 1, i - 1))
    /\ mic => Bytes(message.mic) = Bytes(message.header)
    /\ \A key \in {110, 286} : Arrives(Bytes(message.header \o message.values), 0, key)
ResponseFits(response, st) ==
    /\ True(response)
    /\ response.hashed = Bytes(response.challenge)
    /\ LET all == st @@ [response |-> response.length]
       IN  AuthenticateFits(ntlmssp_authenticate_fields(all), ntlmssp_send_authenticate_message(all), st.ntlm_v2)

\* The credentials fill the buffer that was computed for them, and their nested lengths
\* are true, except when a name is longer than 127 bytes or when inner and outer lengths
\* have different forms.  The tokens and keys the client really sends stay clear of the
\* sizes at which credssp_send would cut or stretch them.  In the last message every
\* value lies where its header says and the integrity check between the two.
NlaIsRead ==
    Is("nla") =>
        LET names == {dtCase.domain, dtCase.username, dtCase.password}
            sum == dtCase.domain + dtCase.username + dtCase.password
            size == credssp_skip_ts_credentials(dtCase)
            creds == credssp_write_ts_credentials(dtCase)
        IN  /\ Bytes(creds[1].write) = size
            /\ (\A i \in DOMAIN creds : SaysTrue(creds[i]))
                   <=> (\A n \in names : n <= 127) /\ sum \notin 104 .. 110
            /\ Arrives(0, size + 16, 0)
            /\ Arrives(Bytes(ntlmssp_send_negotiate_message(dtCase.ntlm_v2)), 0, 0)
            /\ \A info \in {0, 4, 300} : ResponseFits(ntlmssp_compute_ntlm_v2_response(info), dtCase)

\* The client answers a challenge with what the server told of itself: the pairs it writes
\* are read back as they are, they fit the room made for them, and the integrity check
\* covers exactly the challenge.
ChallengeIsKept ==
    Is("challenge") =>
        LET none == [name \in Range(AvNames) |-> 0]
            size == AvSize(dtCase.pairs)
            start == IF dtCase.version THEN 56 ELSE 48
            challenge == ntlmssp_recv_challenge_message(dtCase.version,
                             [offset |-> start, length |-> dtCase.target_name],
                             [offset |-> start + dtCase.target_name, length |-> size])
            told == ntlmssp_input_av_pairs(none, dtCase.pairs)
            answer == ntlmssp_populate_av_pairs(told, size)
        IN  /\ challenge.kept = start + dtCase.target_name + size
            /\ challenge.payload .. challenge.kept - 1 = challenge.target_name \cup challenge.target_info
            /\ ntlmssp_input_av_pairs(none, answer.written.pairs) = answer.av_pairs
            /\ \A name \in DOMAIN told : told[name] > 0 => answer.av_pairs[name] = told[name]
            /\ answer.written.size <= answer.room
            /\ LET s1 == ntlmssp_send("initial")
                   s2 == ntlmssp_send(ntlmssp_recv(s1[2], 2))
               IN  << s1[1], s2 >> = << "negotiate_message", << "authenticate_message", "final" >> >>

WireNext == CaseCaps \/ CaseConnect \/ CaseNego \/ CaseInfo \/ CasePdu \/ CaseNumber
    \/ CaseActivation \/ CaseNla \/ CaseChallenge

-----------------------------------------------------------------------------
(* Drawing orders, updates and input, on small inputs.                     *)

-----------------------------------------------------------------------------
(* What a server writes, by the protocol: numbers in their shortest form,  *)
(* field flags without the zero bytes at their end, zero bits for what did *)
(* not change.                                                             *)
Byte(n) == IF n < 0 THEN n + 256 ELSE n
Unsigned2Bytes(n) == IF n < 128 THEN << n >> ELSE << 128 + n \div 256, n % 256 >>
Signed2Bytes(n) ==
    LET sign == IF n < 0 THEN 64 ELSE 0
        a == IF n < 0 THEN -n ELSE n
    IN  IF a < 64 THEN << sign + a >> ELSE << 128 + sign + a \div 256, a % 256 >>
Unsigned4Bytes(n) ==
    IF n < 64 THEN << n >> ELSE IF n < 2 ^ 14 THEN << 64 + n \div 256, n % 256 >>
    ELSE << 128 + n \div 2 ^ 16, (n \div 256) % 256, n % 256 >>
DeltaBytes(n) ==
    IF n \in -64 .. 63 THEN << (IF n < 0 THEN 128 + n ELSE n) >>
    ELSE << 128 + ((n \div 256) % 128), n % 256 >>
FlagBytes(fields, n) == [i \in 1 .. n |-> SumSet({2 ^ ((f - 1) % 8) : f \in {g \in fields : (g - 1) \div 8 = i - 1}})]
NonZeroBytes(fields) == IF fields = {} THEN 0 ELSE ((Max(fields) - 1) \div 8) + 1
\* Rectangles as differences from the one before.
RectBytes(rects) ==
    LET Before(i) == IF i = 1 THEN [left |-> 0, top |-> 0, width |-> 0, height |-> 0] ELSE rects[i - 1]
        D(i) == << rects[i].left - Before(i).left, rects[i].top - Before(i).top,
                   IF rects[i].width = Before(i).width THEN 0 ELSE rects[i].width,
                   IF rects[i].height = Before(i).height THEN 0 ELSE rects[i].height >>
        Same(i) == << D(i)[1] = 0, D(i)[2] = 0, rects[i].width = Before(i).width, rects[i].height = Before(i).height >>
        Nibble(i) == IF i > Len(rects) THEN 0 ELSE FoldLeft(LAMBDA n, k : 2 * n + (IF Same(i)[k] THEN 1 ELSE 0), 0, << 1, 2, 3, 4 >>)
        Rest(i) == FlattenSeq([k \in 1 .. 4 |-> IF Same(i)[k] THEN << >> ELSE DeltaBytes(D(i)[k])])
    IN  [i \in 1 .. (Len(rects) + 1) \div 2 |-> 16 * Nibble(2 * i - 1) + Nibble(2 * i)]
        \o FlattenSeq([i \in 1 .. Len(rects) |-> Rest(i)])
PointBytes(points) ==
    LET Bits2(i) == IF i > Len(points) THEN 0
                    ELSE (IF points[i][1] = 0 THEN 2 ELSE 0) + (IF points[i][2] = 0 THEN 1 ELSE 0)
        Rest(i) == When(points[i][1] # 0, DeltaBytes(points[i][1])) \o When(points[i][2] # 0, DeltaBytes(points[i][2]))
    IN  [i \in 1 .. (Len(points) + 3) \div 4 |->
            64 * Bits2(4 * i - 3) + 16 * Bits2(4 * i - 2) + 4 * Bits2(4 * i - 1) + Bits2(4 * i)]
        \o FlattenSeq([i \in 1 .. Len(points) |-> Rest(i)])
\* The sizes of the alternate secondary orders after the control flags.
AltSecBytes(type, n, big) ==
    CASE type = 0 -> 2 [] type = 1 -> (IF n = 0 THEN 6 ELSE 8 + 2 * n) [] type = 2 -> (IF big THEN 14 ELSE 12) + n
      [] type = 3 -> 5 + n [] type = 4 -> 19 [] type \in {5, 7, 8, 10} -> 11 + n [] type = 6 -> 3 + n
      [] type = 9 -> 7 + n [] type = 13 -> 4

-----------------------------------------------------------------------------
Number == {0, 1, 63, 64, 65, 127, 128, 129, 255, 256, 300, 16383, 16384, 32767, 70000}
CaseOrderNumber == \E n \in Number \cup {-m : m \in Number} : dtCase' = [what |-> "order number", n |-> n]
(* The numbers in orders are read back as they were written, and take the  *)
(* bytes they have: update_read_2byte_unsigned and the others of orders.c. *)
OrderNumbersAreRead ==
    Is("order number") =>
        LET n == dtCase.n
            Back(read, written) == read = Got(n, Len(written))
        IN  /\ n \in 0 .. 32767 => Back(update_read_2byte_unsigned(Unsigned2Bytes(n)), Unsigned2Bytes(n))
            /\ n \in -16383 .. 16383 => Back(update_read_2byte_signed(Signed2Bytes(n)), Signed2Bytes(n))
            /\ n >= 0 => Back(update_read_4byte_unsigned(Unsigned4Bytes(n)), Unsigned4Bytes(n))
            /\ n \in -16384 .. 16383 => Back(update_read_delta(DeltaBytes(n)), DeltaBytes(n))
            /\ n \in -32768 .. 32767 => update_read_coord(<< (n % 65536) % 256, (n % 65536) \div 256 >>, 5, FALSE) = Got(n, 2)
            /\ n \in -128 .. 127 => update_read_coord(<< Byte(n) >>, 5, TRUE) = Got(5 + n, 1)
            /\ n >= 0 => /\ Len(Unsigned4Bytes(n)) = Bytes(Unsigned4(n))
                         /\ n <= 32767 => Len(Unsigned2Bytes(n)) = Bytes(Unsigned2(n))
            /\ n \in -16383 .. 16383 => Len(Signed2Bytes(n)) = Bytes(Signed2(n))

Small == {[left |-> l, top |-> t, width |-> w, height |-> 3] : l \in {0, -70}, t \in {0, 1}, w \in {0, 2, 65}}
CaseRects == \E n \in 0 .. 3 : \E r \in [1 .. n -> Small] : dtCase' = [what |-> "rects", r |-> r]
CasePoints == \E n \in 0 .. 5 : \E p \in [1 .. n -> {<< 0, 0 >>, << 1, -1 >>, << 0, -70 >>}] : dtCase' = [what |-> "points", p |-> p]
(* The rectangles of the multi-rectangle orders and the points of polyline *)
(* are the ones that were written as differences with zero bits.           *)
DeltasAreRead ==
    /\ Is("rects") => LET b == RectBytes(dtCase.r) IN update_read_delta_rects(b, Len(dtCase.r)) = Got(dtCase.r, Len(b))
    /\ Is("points") => LET b == PointBytes(dtCase.p) IN update_read_delta_points(b, Len(dtCase.p)) = Got(dtCase.p, Len(b))

CasePrimary == \E type \in OrderTypes, data \in {0, 5}, delta, change \in BOOLEAN,
                  bounds \in {<< >>, << "whole", "delta", "kept", "whole" >>} :
    \E i \in 1 .. Len(Fields(type, data)), form \in {"none", "two", "but two", "all"} :
        \E j \in {i, Len(Fields(type, data)), 1 + ((i * 7) % Len(Fields(type, data)))} :
           LET every == 1 .. Len(Fields(type, data))
               fields == CASE form = "none" -> {} [] form = "two" -> {i, j} [] form = "but two" -> every \ {i, j} [] form = "all" -> every
           IN  dtCase' = [what |-> "primary", type |-> type, data |-> data, delta |-> delta, change |-> change,
                          bounds |-> bounds, fields |-> fields]
(* A primary order is read to its end, and with the fields it has: the     *)
(* flags have as many bytes as PRIMARY_DRAWING_ORDER_FIELD_BYTES says less *)
(* those the control flags leave out, and the reader of the order's type   *)
(* takes the fields the flags name.                                        *)
PrimaryOrderIsRead ==
    Is("primary") =>
        LET c == dtCase
            n == PRIMARY_DRAWING_ORDER_FIELD_BYTES[c.type]
            out == n - NonZeroBytes(c.fields)
            b == FlagBytes(c.fields, NonZeroBytes(c.fields))
            read == update_read_field_flags(b, out \in {1, 3}, out \in {2, 3}, n)
            BytesOf(f) == LET size == Fields(c.type, c.data)[f] IN IF size # Coord THEN size ELSE IF c.delta THEN 1 ELSE 2
            written == (IF c.change THEN 1 ELSE 0) + Len(b) + (IF c.bounds = << >> THEN 0 ELSE 1 + 2 + 1 + 2)
                       + MapThenSumSet(BytesOf, c.fields)
        IN  /\ out \in 0 .. 3
            /\ read = Got(c.fields, Len(b))
            /\ update_recv_primary_order(c.change, b, out \in {1, 3}, out \in {2, 3}, c.type, c.bounds, c.delta, c.data) = written
            \* the field of an order's variable data is its last one
            /\ Fields(c.type, 5) # Fields(c.type, 0) => Front(Fields(c.type, 5)) = Front(Fields(c.type, 0))

CaseSecondary == \E kind \in {"bitmap", "v2", "v3", "table", "glyph", "glyph2", "brush"}, n \in {8, 20, 24, 32, 64, 128, 256},
                    a, b \in BOOLEAN, bpp \in {1, 8, 16, 32} :
    dtCase' = [what |-> "secondary", kind |-> kind, n |-> n, a |-> a, b |-> b, bpp |-> bpp]
(* A secondary order ends where its length says, and its reader takes no   *)
(* byte beyond, and all of them but the palette of a compressed brush.     *)
SecondaryOrderStaysInside ==
    Is("secondary") =>
        LET c == dtCase
            brush == CASE c.bpp = 1 -> {8} [] c.bpp = 8 -> {20, 64} [] c.bpp = 16 -> {24, 128} [] c.bpp = 32 -> {32, 256}
            glyph == ((c.n + 7) \div 8) * 3
            padded == glyph + ((4 - (glyph % 4)) % 4)
            \* what a server puts in the order
            body == CASE c.kind = "bitmap" -> 9 + c.n
                      [] c.kind = "v2" -> (IF c.a THEN 8 ELSE 0) + Len(Unsigned2Bytes(c.n)) + Len(Unsigned4Bytes(c.n)) + 1 + c.n
                      [] c.kind = "v3" -> 10 + 12 + c.n
                      [] c.kind = "table" -> 2 + 4 * c.n
                      [] c.kind = "glyph" -> 2 + 2 * (10 + padded) + (IF c.b THEN 4 ELSE 0)
                      [] c.kind = "glyph2" -> 2 * (1 + 1 + 2 + Len(Unsigned2Bytes(c.n)) + 1 + padded) + (IF c.b THEN 4 ELSE 0)
                      [] c.kind = "brush" -> 6 + c.n
            read == CASE c.kind = "bitmap" -> update_read_cache_bitmap_order(c.n, c.a, c.b)
                      [] c.kind = "v2" -> update_read_cache_bitmap_v2_order(c.n, c.n, c.n, 7, c.b, c.a, TRUE, c.bpp = 1)
                      [] c.kind = "v3" -> update_read_cache_bitmap_v3_order(c.n)
                      [] c.kind = "table" -> update_read_cache_color_table_order(c.n)
                      [] c.kind = "glyph" -> update_read_cache_glyph_order(2, c.n, 3, c.b)
                      [] c.kind = "glyph2" -> update_read_cache_glyph_v2_order(2, -5, 70, c.n, 3, c.b)
                      [] c.kind = "brush" -> update_read_cache_brush_order(c.bpp, c.n)
            compressed == c.kind = "brush" /\ c.n \in {20, 24, 32}
        IN  (c.kind # "brush" \/ c.n \in brush) =>
                /\ update_recv_secondary_order((6 + body - 13) % 2 ^ 16, read) = 6 + body
                /\ Bytes(read) = body - (IF compressed THEN c.n - 16 ELSE 0)

CaseAltSec == \E type \in {0, 1, 2, 3, 4, 5, 6, 7, 8, 9, 10, 13}, n \in 0 .. 3, big \in BOOLEAN :
    dtCase' = [what |-> "altsec", type |-> type, n |-> n, big |-> big]
WindowFlags == {"OWNER", "STYLE", "SHOW", "TITLE", "CLIENT_AREA_OFFSET", "WND_RECTS", "VISIBILITY", "RP_CONTENT"}
CaseWindowState == \E f \in SUBSET WindowFlags, n \in 0 .. 2, t \in {0, 6} :
    dtCase' = [what |-> "window state", f |-> f, n |-> n, t |-> t]
(* An alternate secondary order, which the client reads without looking at *)
(* a length, takes the bytes the protocol gives it, so that the next order *)
(* of the update is found.                                                 *)
AltSecOrderIsRead ==
    /\ Is("altsec") => Bytes(update_recv_altsec_order(dtCase.type, dtCase.n, dtCase.big)) = AltSecBytes(dtCase.type, dtCase.n, dtCase.big)
    /\ Is("window state") =>
        LET Size(flag) == CASE flag = "OWNER" -> 4 [] flag = "STYLE" -> 8 [] flag \in {"SHOW", "RP_CONTENT"} -> 1
                            [] flag = "TITLE" -> 2 + dtCase.t [] flag = "CLIENT_AREA_OFFSET" -> 8
                            [] flag \in {"WND_RECTS", "VISIBILITY"} -> 2 + 8 * dtCase.n
        IN  /\ Bytes(update_recv_altsec_window_order(dtCase.f \cup {"TYPE_WINDOW"}, dtCase.t, dtCase.n)) = 10 + MapThenSumSet(Size, dtCase.f)
            /\ Bytes(update_recv_altsec_window_order({"TYPE_WINDOW", "DELETED"}, dtCase.t, dtCase.n)) = 10
            /\ Bytes(update_recv_altsec_window_order({"TYPE_WINDOW", "CACHED_ICON"}, dtCase.t, dtCase.n)) = 13
            /\ Bytes(update_recv_altsec_window_order({"TYPE_NOTIFY", "ICON", "INFO_TIP"}, dtCase.t, dtCase.n))
                 = 14 + 12 + 2 * dtCase.t + 12 + 2 * dtCase.t
            /\ Bytes(update_recv_altsec_window_order({"TYPE_DESKTOP", "ZORDER", "ACTIVE_WND"}, dtCase.t, dtCase.n)) = 6 + 5 + 4 * dtCase.n

-----------------------------------------------------------------------------
CaseFragments == \E total \in 0 .. 3 * MaxPacket, sec \in {0, 8}, second \in {0, 1, MaxPacket} :
    dtCase' = [what |-> "fragments", total |-> total, sec |-> sec, second |-> second]
(* An update of any length arrives whole and once, however many fast-path  *)
(* packets fastpath_send_update_pdu makes of it, with the next update      *)
(* behind it, and no packet is larger than FASTPATH_MAX_PACKET_SIZE.  An   *)
(* update without a body is never sent: update_send_pointer_system's have  *)
(* none.                                                                   *)
UpdatesReassemble ==
    Is("fragments") =>
        LET c == dtCase
            first == fastpath_send_update_pdu(4, c.total, c.sec)
            then == fastpath_send_update_pdu(9, c.second, c.sec)
            Whole(code, n) == When(n > 0, << [code |-> code, data |-> [i \in 1 .. n |-> i]] >>)
        IN  /\ fastpath_recv_updates(first \o then).got = Whole(4, c.total) \o Whole(9, c.second)
            /\ \A i \in DOMAIN first : /\ first[i].pduLength <= MaxPacket
                                       /\ fastpath_read_header_rdp(first[i].pduLength, TRUE) = c.sec + 3 + first[i].size
            /\ update_send_update(0, 0).system = << >>

CaseServerUpdate == \E and, xor \in {0, 1, 40}, n \in {0, 7} : dtCase' = [what |-> "update", and |-> and, xor |-> xor, n |-> n]
(* The client reads each update as the server end of the library writes    *)
(* it: pointers, scroll orders, surface commands.                          *)
UpdatesAreRead ==
    Is("update") =>
        LET c == dtCase
            scrblt == update_recv_primary_order(TRUE, << 127 >>, FALSE, FALSE, 2, << >>, FALSE, 0)
            cmds == << [marker |-> TRUE, n |-> 0], [marker |-> FALSE, n |-> c.n], [marker |-> TRUE, n |-> 0] >>
            size == 2 * Bytes(update_send_surface_frame_marker) + Bytes(update_send_surface_bits(c.n))
        IN  /\ Bytes(update_read_pointer(c.and, c.xor, TRUE).color) = Bytes(update_send_update(c.and, c.xor).color)
            /\ Bytes(update_read_pointer(c.and, c.xor, TRUE).new) = Bytes(update_send_update(c.and, c.xor).new)
            /\ update_read_pointer(0, 0, TRUE).cached = update_send_update(0, 0).cached
            /\ update_read_pointer(0, 0, TRUE).synchronize = update_send_update(0, 0).synchronize
            /\ 2 + 1 + scrblt = Bytes(update_send_update(0, 0).scrblt)
            /\ LET b == update_recv_surfcmd_surface_bits(c.n)
               IN  b.says = Bytes(b.took) /\ Bytes(update_send_surface_bits(c.n)) = 2 + b.says
            /\ Bytes(update_recv_surfcmd_frame_marker.took) = update_recv_surfcmd_frame_marker.says
            /\ update_recv_surfcmds(size, cmds) = 1 .. 3
            /\ Bytes(update_read_bitmap(c.n, 40, c.and > 0, c.xor > 0)) = 2 + c.n * 58
            /\ Bytes(update_read_palette(250 + c.n)) = 6 + 3 * Min({250 + c.n, 256})
            /\ Bytes(update_read_pointer(0, 0, TRUE).sound) = 8 /\ Bytes(update_read_pointer(0, 0, TRUE).position) = 4 /\ Bytes(update_read_pointer(0, 0, TRUE).system) = 4
            /\ Bytes(update_write_request(c.n).refresh_rect) = 4 + 8 * c.n /\ Bytes(update_write_request(c.n).suppress_output) = (IF c.n > 0 THEN 12 ELSE 4)
            /\ HotSpot(c.and, c.xor + 1) \in 0 .. c.xor

CaseBitmaps == \E count \in {64, 200, 65534}, number \in {0, 63, 64, 65, 200, 201, 32767, 32768, 65535} :
    dtCase' = [what |-> "bitmaps", count |-> count, number |-> number]
(* update_read_bitmap makes room for all the rectangles of an update, up   *)
(* to 32767 of them: it doubles their number in 16 bits.                   *)
BitmapRoomIsEnough ==
    Is("bitmaps") => (BitmapRoom(dtCase.count, dtCase.number) >= dtCase.number
                      <=> dtCase.number < 32768 \/ dtCase.number <= dtCase.count)

CaseInput == \E e \in {Key(f, code) : f \in SUBSET {"RELEASE", "EXTENDED", "DOWN"}, code \in {30, 255}}
                      \cup {[type |-> "unicode", flags |-> f, code |-> 300] : f \in SUBSET {"RELEASE", "DOWN"}}
                      \cup {Mouse(t, {"MOVE"}, x, y) : t \in {"mouse", "mousex"}, x, y \in {-1, 0, 5}}
                      \cup {[type |-> "sync", flags |-> {"CAPS"}]},
                 fast \in BOOLEAN, number \in 1 .. 3, sec \in {0, 8, 12} :
    dtCase' = [what |-> "input", e |-> e, fast |-> fast, number |-> number, sec |-> sec]
(* An input event reaches the server's callback as it left the client's,   *)
(* on the slow and on the fast path: a key that is not released goes down, *)
(* and a pointer position is not negative.  A full input PDU is long       *)
(* enough for the check of input_recv, which counts half of each event;    *)
(* an encrypted fast-path packet announces what it has, with as many bytes *)
(* too many as its security header has.                                    *)
InputArrives ==
    Is("input") =>
        LET e == dtCase.e
            got == input_register_client_callbacks(dtCase.fast, e)
            Clear(flags) == flags \ {"DOWN"}
            sec == dtCase.sec
            packet == fastpath_send_input_pdu(2, sec, sec = 12)
        IN  /\ got.type = e.type
            /\ e.type \in {"key", "unicode"} =>
                 /\ got.code = e.code
                 /\ Clear(got.flags) = Clear(e.flags)
                 /\ e.flags \cap {"RELEASE", "DOWN"} \in {{"RELEASE"}, {"DOWN"}} => got.flags = e.flags
            /\ e.type \in {"mouse", "mousex"} => got.x = Max({e.x, 0}) /\ got.y = Max({e.y, 0}) /\ got.flags = e.flags
            /\ input_recv(4 + dtCase.number * InputEventBytes, dtCase.number)
            /\ InputEventBytes = 12
            /\ packet[1].announced = 3 + sec + packet[1].encrypted
            /\ packet[1].encrypted = 2 + sec + (IF sec = 12 THEN 2 ELSE 0)

UpdatesNext == CaseOrderNumber \/ CaseRects \/ CasePoints \/ CasePrimary \/ CaseSecondary \/ CaseAltSec \/ CaseWindowState
               \/ CaseFragments \/ CaseServerUpdate \/ CaseBitmaps \/ CaseInput

-----------------------------------------------------------------------------
(* Every call of the smart card redirection, over names and answers of     *)
(* every length modulo the alignments.                                     *)

ScardNames == {<<>>, <<65>>, <<65, 66, 67>>}
ScardArg ==
    [len : {4, 8}, rv : {SCARD_S_SUCCESS, SCARD_E_UNSUPPORTED_FEATURE},
     readers : {<<>>, <<<<65, 66>>>>, <<<<65>>, <<65, 66, 67>>>>},
     reader : {<<65>>, <<65, 66, 67>>}, wide : BOOLEAN, name : {0, 5},
     atr : {0, 11, 33}, masks : {2}]
ScardLengths ==
    [rv : {SCARD_S_SUCCESS, SCARD_E_UNSUPPORTED_FEATURE}, context : BOOLEAN,
     pci : BOOLEAN, extra : {4, 6}, send : {0, 5}, recvPci : BOOLEAN,
     recvExtra : BOOLEAN, recv : {0, 2, 7}]
ScardAttrib ==
    [rv : {SCARD_S_SUCCESS, SCARD_E_UNSUPPORTED_FEATURE, "no card"}, friendly : BOOLEAN,
     other : {SCARD_S_SUCCESS, "no card"}, attr : 0 .. 9, room : {0, 4, 9}]
ScardCalls == {"EstablishContext", "IsValidContext", "ReleaseContext", "ListReaders",
    "GetStatusChange", "Cancel", "Connect", "Reconnect", "Disconnect",
    "BeginTransaction", "EndTransaction", "State", "Status", "AccessStartedEvent",
    "LocateCardsByATR", "ListReaderGroups"}

Atrs == [atr : [1 .. 2 -> {1, 2}], mask : [1 .. 2 -> BOOLEAN]]
Readers == [atr : [1 .. 2 -> {1, 2}], cbAtr : {1, 2}, found : {FALSE}]

ScardNext ==
    \/ \E op \in ScardCalls, a \in ScardArg :
          dtCase' = [what |-> "scard", op |-> op, a |-> a]
    \/ \E op \in {"Transmit", "Control"}, a \in ScardLengths :
          dtCase' = [what |-> "scard", op |-> op, a |-> a]
    \/ \E a \in ScardAttrib :
          dtCase' = [what |-> "scard", op |-> "GetAttrib", a |-> a]
    \/ \E n \in 0 .. 2, wide \in BOOLEAN :
       \E s \in [1 .. n * Unit(wide) -> {0, 65, 200}] :
          dtCase' = [what |-> "narrow name", s |-> s, n |-> n, wide |-> wide]
    \/ \E m \in Atrs : \E n \in 1 .. 2 : \E r \in [1 .. n -> Readers] :
          dtCase' = [what |-> "locate", atrs |-> <<m>>, readers |-> r]
-----------------------------------------------------------------------------
(* The request as the server marshals it: two headers, the fixed part with *)
(* a word for every pointer, and what the pointers refer to, each padded.  *)
Pointed(n) == LET pad == (4 - (n % 4)) % 4 IN <<4, n>> \o When(pad > 0, <<pad>>)
Named(n, wide) == <<8>> \o Pointed(n * Unit(wide))
TheContext == <<4, 4>>
Marshalled(op, a) ==
    <<8, 8>> \o
    CASE op = "EstablishContext" -> <<4>>
      [] op \in {"IsValidContext", "ReleaseContext", "Cancel"} -> <<4, 4>> \o TheContext
      [] op = "ListReaders" -> <<4, 4, 4, 4, 4, 4>> \o TheContext
      [] op = "GetStatusChange" ->
            <<4, 4, 4, 4, 4>> \o TheContext \o <<4>> \o Times(Len(a.readers), <<4, 12, 36>>)
            \o FlattenSeq([i \in DOMAIN a.readers |-> Named(Len(a.readers[i]), a.wide)])
      [] op = "LocateCardsByATR" ->
            <<4, 4, 4, 4, 4, 4>> \o TheContext \o <<4>> \o Times(2, <<4, 36, 36>>)
            \o <<4>> \o Times(Len(a.readers), <<4, 12, 36>>)
            \o FlattenSeq([i \in DOMAIN a.readers |-> Named(Len(a.readers[i]), a.wide)])
      [] op = "Connect" -> <<4, 4, 4, 4, 4>> \o Named(a.name, a.wide) \o TheContext
      [] op = "Reconnect" -> <<8, 8, 4, 4, 4>> \o TheContext \o TheContext
      [] op \in {"Disconnect", "BeginTransaction", "EndTransaction"} ->
            <<8, 8, 4>> \o TheContext \o TheContext
      [] op = "State" -> <<8, 8, 4, 4>> \o TheContext \o TheContext \o <<4>>
      [] op = "Status" -> <<8, 8, 4, 4, 4>> \o TheContext \o TheContext \o <<4>>
      [] op = "GetAttrib" -> <<8, 8, 4, 4, 4>> \o TheContext \o TheContext
      [] op = "Control" -> <<8, 8, 4, 4, 4, 4, 4>> \o TheContext \o TheContext
                           \o When(a.send > 0, <<4, a.send>>)
      [] op = "Transmit" -> <<8, 8, 12, 8, 4, 4, 4>>
            \o When(a.context, TheContext) \o TheContext
            \o When(a.pci, Pointed(a.extra)) \o When(a.send > 0, Pointed(a.send))
            \o When(a.recvPci, Pointed(a.extra) \o <<4>> \o When(a.recvExtra, Pointed(a.extra)))
      [] OTHER -> << >>

(* Every handler takes from the request what the server marshalled into    *)
(* it: the reads with their seeks end where the last argument ends.  A     *)
(* reader's name of any length, wide or not, leaves the context after it   *)
(* where sc_input_repos expects it.                                        *)
CallIsRead ==
    Is("scard") /\ dtCase.op \notin {"AccessStartedEvent", "ListReaderGroups"} =>
        LET h == Handled(dtCase.op, dtCase.a)
        IN  \/ h.result = SCARD_F_INTERNAL_ERROR
            \/ Bytes(h.reads) = Bytes(Marshalled(dtCase.op, dtCase.a))

(* "pad stream to 16 byte align" (scard_operations.c:1523): the remainder  *)
(* is added, not what is missing, so an answer is aligned just when its    *)
(* handler left it at a multiple of eight.  The handlers that end in       *)
(* sc_output_alignment do; an answer without it, or with more written      *)
(* after it, is not.  Only a call that no handler knows is not answered    *)
(* at all: scard_error sends an empty message.                             *)
AnswersArePadded ==
    Is("scard") =>
        \A r \in {scard_device_control(dtCase.op, dtCase.a)}, h \in {Handled(dtCase.op, dtCase.a)} :
            IF dtCase.op = "ListReaderGroups" THEN r.message = 0
            ELSE /\ r.message = 20 + r.irp_len
                 /\ r.output_len < r.irp_len
                 /\ (r.irp_len % 16 = 0) <=>
                       /\ dtCase.op \notin {"EstablishContext", "ReleaseContext",
                                            "Reconnect", "AccessStartedEvent"}
                       /\ h.body # <<256>>
                       /\ dtCase.op = "ListReaders" => h.body # << >>

(* sc_input_string narrows a name in the buffer that still holds the rest  *)
(* of it: every character comes out as itself, or as a question mark when  *)
(* it is not of ASCII.                                                     *)
NamesAreNarrowed ==
    Is("narrow name") =>
        sc_input_string(dtCase.s, dtCase.n, dtCase.wide) =
            [i \in 1 .. dtCase.n |->
                IF ~dtCase.wide THEN dtCase.s[i]
                ELSE IF dtCase.s[2 * i - 1] < 128 /\ dtCase.s[2 * i] = 0
                THEN dtCase.s[2 * i - 1] ELSE 63]

(* handle_LocateCardsByATR answers one reader rightly: it is marked just   *)
(* when its answer-to-reset matches a mask.  Of two readers it compares    *)
(* over the last one's length and reports the last one twice.              *)
LocatedIsTheLast ==
    Is("locate") =>
        LET n == Len(dtCase.readers)
            m == dtCase.atrs[1]
            last == dtCase.readers[n]
            right == [last EXCEPT !.found =
                         \A k \in 1 .. last.cbAtr : m.mask[k] => m.atr[k] = last.atr[k]]
        IN  Located(dtCase.atrs, dtCase.readers) = [i \in 1 .. n |-> right]

-----------------------------------------------------------------------------
(* The answers of the redirected devices and the serial port's settings.   *)

DeviceArg ==
    [open : BOOLEAN, is_dir : BOOLEAN, seek : BOOLEAN, got : {-1, 0, 3}, Length : {3, 5},
     wrote : BOOLEAN, stat : BOOLEAN, set : {TRUE}, more : BOOLEAN, len : {2, 7},
     errno : {"ENOENT"}, class : {"none"}]
Classes == {"Basic", "Standard", "AttributeTag", "Volume", "Size", "Attribute", "FullSize",
            "Device", "Directory", "FullDirectory", "BothDirectory", "Names", "Other"}
Majors == {"create", "close", "read", "write", "set", "control", "other"}

SomeTermios(parity, xon) ==
    [speed |-> 9600, CSTOPB |-> FALSE, PARENB |-> parity, PARODD |-> FALSE, CSIZE |-> 7,
     CRTSCTS |-> FALSE, IXON |-> xon, IXOFF |-> xon, cc |-> <<17, 19>>]
Asked ==
    [code : {"SET_BAUD_RATE"}, baud_rate : {1200, 230400, 14400}] \cup
    [code : {"SET_LINE_CONTROL"}, stop_bits : 0 .. 2, parity : {0, 1, 3}, word_length : {5, 8}]
        \cup
    [code : {"SET_HANDFLOW"}, cts : {TRUE}, xon : BOOLEAN, xoff : BOOLEAN] \cup
    [code : {"SET_CHARS"}, chars : {<<1, 2>>}] \cup
    [code : {"GET_HANDFLOW"}]
Gets == {"GET_BAUD_RATE", "GET_LINE_CONTROL", "GET_CHARS", "GET_HANDFLOW"}

Lines == [inq : 0 .. 2, outq : 0 .. 1, dsr : BOOLEAN, cts : {TRUE}]
Happens == [op : {"read", "write"}, n : 1 .. 2] \cup [op : {"check"}, line : Lines]
EventMasks == {{}, {"TXEMPTY"}, {"RLSD", "RXFLAG"}, {"DSR", "RXCHAR"}}

DeviceNext ==
    \/ \E a \in DeviceArg, m \in Majors : dtCase' = [what |-> "irp", major |-> m, a |-> a]
    \/ \E a \in DeviceArg, m \in {"query", "volume", "directory"}, c \in Classes :
         dtCase' = [what |-> "irp", major |-> m, a |-> [a EXCEPT !.class = c]]
    \/ \E l \in [1 .. 2 -> [known : BOOLEAN, length : {8, 44}]] :
         dtCase' = [what |-> "rdpdr caps", sets |-> l]
    \/ \E np, nf \in 0 .. 3 : \E p \in [1 .. np -> {"a", "b", "*"}], f \in [1 .. nf -> {"a", "b"}] :
         dtCase' = [what |-> "wildcard", p |-> p, f |-> f]
    \/ \E parity, xon \in BOOLEAN : \E n \in 0 .. 2 : \E cs \in [1 .. n -> Asked], g \in Gets :
         dtCase' = [what |-> "tty", open |-> SomeTermios(parity, xon), cs |-> cs, get |-> g]
    \/ \E m \in EventMasks : \E h \in [1 .. 2 -> Happens] :
         dtCase' = [what |-> "events", mask |-> m, h |-> h]
    \/ \E m \in {0, 10}, c \in {0, 5, 1000}, i \in {0, 300}, n \in {1, 50, 2560} :
         dtCase' = [what |-> "timeout", n |-> n,
                    tty |-> [multiplier |-> m, constant |-> c, interval |-> i]]
-----------------------------------------------------------------------------
(* The length a device announces is what follows in its answer, and a      *)
(* device never answers more than it read: but for the parallel port,      *)
(* which answers with as many bytes as the server asked for whenever the   *)
(* read did not fail, and for the files of a disk that was not opened,     *)
(* where a query is answered with nothing.                                 *)
AnswersAreCounted ==
    Is("irp") =>
        /\ \A r \in {disk_process_irp(dtCase.major, dtCase.a),
                     printer_process_irp(dtCase.major, dtCase.a),
                     parallel_process_irp(dtCase.major, dtCase.a)} :
              /\ r.length # None /\ r.out # <<4, 1>> => Bytes(r.out) = 4 + r.length
              /\ r.io = STATUS_SUCCESS => r.out # << >>
        /\ dtCase.major = "read" =>
              /\ disk_process_irp("read", dtCase.a).length <= Max({0, dtCase.a.got})
              /\ serial_process_irp_read(dtCase.a).length <= Max({0, dtCase.a.got})
              /\ (parallel_process_irp("read", dtCase.a).length > Max({0, dtCase.a.got}))
                     <=> dtCase.a.got \in 0 .. dtCase.a.Length - 1
        /\ dtCase.major \in {"create", "close"} =>
              Bytes(printer_process_irp(dtCase.major, dtCase.a).out) =
                  Bytes(disk_process_irp(dtCase.major, dtCase.a).out) - 1

(* The capability sets the client sends have the lengths their headers     *)
(* say, and it takes the server's apart at their borders as long as it     *)
(* knows all their types: after an unknown one it is inside that one.      *)
DeviceCapsAreCounted ==
    Is("rdpdr caps") =>
        /\ \A i \in DOMAIN rdpdr_send_capability_response :
              rdpdr_send_capability_response[i].length =
                  Bytes(rdpdr_send_capability_response[i].out)
        /\ LET sets == dtCase.sets
           IN  (Bytes(rdpdr_process_capability_request(sets)) =
                   4 + sets[1].length + sets[2].length)
                   <=> sets[1].known /\ sets[2].known

Matches[p \in Seq({"a", "b", "*"}), f \in Seq({"a", "b"})] ==
    IF p = << >> THEN f = << >>
    ELSE IF Head(p) = "*" THEN \E k \in 0 .. Len(f) : Matches[Tail(p), SubSeq(f, k + 1, Len(f))]
    ELSE f # << >> /\ Head(p) = Head(f) /\ Matches[Tail(p), Tail(f)]

(* disk_file_wildcard_match, whose comment promises simple cases only,     *)
(* lists no file that the pattern does not mean, and all that it means     *)
(* when a star comes only last.                                            *)
WildcardsAreMeant ==
    Is("wildcard") =>
        LET p == dtCase.p
            f == dtCase.f
        IN  /\ disk_file_wildcard_match(p, f) => Matches[p, f]
            /\ Matches[p, f] /\ (\A i \in 1 .. Len(p) - 1 : p[i] # "*")
                  => disk_file_wildcard_match(p, f)

RECURSIVE Controlled(_, _)
Controlled(s, cs) ==
    IF cs = << >> THEN s ELSE Controlled(serial_tty_control(s, Head(cs).code, Head(cs)), Tail(cs))
Fresh == serial_tty_new(dtCase.open)
(* What the terminal makes of a setting.                                   *)
KeptOf(tty) ==
    [tty EXCEPT !.baud_rate = IF @ \in BaudRates THEN IF @ > 115200 THEN 115200 ELSE @ ELSE 9600,
                !.stop_bits = IF @ = 2 THEN 2 ELSE 0,
                !.parity = IF @ \in 1 .. 2 THEN @ ELSE 0]
(* The settings the server asked for are the ones in force: the terminal   *)
(* has them, but for rates it is never set to (above 115200, a real hazard *)
(* of tty_set_termios), for one and a half stop bits, and for a flow       *)
(* control left from before that SET_HANDFLOW with one direction does not  *)
(* clear.  And the first setting of any kind brings the parity and flow    *)
(* control back that the port was found with, which opening switched off.  *)
SettingsAreInForce ==
    Is("tty") =>
        LET s == Controlled(Fresh, dtCase.cs)
            sets == {i \in DOMAIN dtCase.cs : dtCase.cs[i].code # "GET_HANDFLOW"}
            now == tty_get_termios(s.termios)
            asked == KeptOf(s.tty)
        IN  IF sets = {} THEN now.parity = 0 /\ now.word_length = 8 /\ ~now.xon
            ELSE /\ [now EXCEPT !.xon = asked.xon, !.xoff = asked.xoff] = asked
                 /\ asked.xon => now.xon
                 /\ asked.xoff => now.xoff
                 /\ ~asked.xon /\ ~asked.xoff => ~now.xon /\ ~now.xoff

(* What a control tells the server is what it last set: until it asks for  *)
(* the flow control, when everything is read back from the terminal.       *)
SettingsAreTold ==
    Is("tty") =>
        LET s == Controlled(Fresh, dtCase.cs)
            told == serial_tty_control(s, dtCase.get, [code |-> dtCase.get]).told
            mine(code) == {i \in DOMAIN dtCase.cs : dtCase.cs[i].code = code}
            flow(i) == \E j \in i .. Len(dtCase.cs) : dtCase.cs[j].code = "GET_HANDFLOW"
        IN  /\ dtCase.get = "GET_BAUD_RATE" /\ mine("SET_BAUD_RATE") # {} =>
                  LET i == Max(mine("SET_BAUD_RATE"))
                      rate == dtCase.cs[i].baud_rate
                  IN  told = IF flow(i) THEN <<KeptOf([s.tty EXCEPT !.baud_rate = rate]).baud_rate>>
                             ELSE <<rate>>
            /\ dtCase.get = "GET_HANDFLOW" /\ mine("SET_HANDFLOW") # {} =>
                  LET c == dtCase.cs[Max(mine("SET_HANDFLOW"))]
                  IN  (c.xon => told[2]) /\ (c.xoff => told[3])
            /\ dtCase.get = "GET_CHARS" /\ mine("SET_CHARS") # {} => told = <<1, 2>>
            /\ \A code \in DOMAIN TtyAnswers : Bytes(TtyAnswers[code]) = TtyLengths[code]

Quiet == [wait_mask |-> dtCase.mask, event_rlsd |-> 0, event_txempty |-> 0,
          event_dsr |-> FALSE, event_cts |-> TRUE, result |-> {}, ret |-> FALSE]
AfterOne(e, h) ==
    CASE h.op = "read" -> serial_tty_read(e, h.n)
      [] h.op = "write" -> serial_tty_write(e, h.n)
      [] h.op = "check" -> serial_tty_get_event(e, h.line)
(* An event is reported at the check that first sees it and not again at   *)
(* the next one: the line went empty after data, the receive queue grew    *)
(* beyond what was seen, DSR changed.  RXCHAR and RXFLAG say what is there *)
(* at every check, and a read stands for a write in TXEMPTY.               *)
EventsAreReportedOnce ==
    Is("events") /\ dtCase.h[2].op = "check" =>
        LET one == AfterOne(Quiet, dtCase.h[1])
            two == AfterOne(one, dtCase.h[2])
            line == dtCase.h[2].line
        IN  /\ dtCase.mask = {} => two.ret /\ two.result = {}
            /\ ("TXEMPTY" \in two.result) <=>
                  /\ "TXEMPTY" \in dtCase.mask /\ line.outq = 0
                  /\ IF dtCase.h[1].op = "check" THEN dtCase.h[1].line.outq > 0 ELSE TRUE
            /\ dtCase.h[1] = dtCase.h[2] => two.result \subseteq {"RXFLAG", "RXCHAR"}

(* The terminal waits at least as long as the server asked for, while that *)
(* is less than 25.6 seconds; beyond, the byte that holds it wraps.        *)
TimeoutFits ==
    Is("timeout") =>
        LET t == dtCase.tty
            asked == IF t.multiplier # 0 \/ t.constant # 0
                     THEN t.multiplier * dtCase.n + t.constant ELSE t.interval * dtCase.n
        IN  LET r == serial_tty_read_timeout(t, dtCase.n)
            IN  /\ r.VMIN = 1
                /\ (100 * r.VTIME >= asked) <=> asked <= 25500

-----------------------------------------------------------------------------
(* The sound functions and the multimedia messages over small inputs.      *)

Rates == {2, 3, 4, 6}
Sources == {[i \in 1 .. n |-> [c \in 1 .. k |-> 10 * i + c]] : n \in 1 .. 5, k \in 1 .. 2}

CaseResample == \E src \in Sources, a \in Rates, b \in Rates, k \in 1 .. 2 :
    dtCase' = [what |-> "resample", src |-> src, srate |-> a, rrate |-> b, chans |-> k]

(* Nearest interpolation takes, for every frame of the result, a source    *)
(* frame than which none is nearer in time, and gives as many frames as    *)
(* the source lasts.                                                       *)
ResampleIsNearest ==
    Is("resample") =>
      LET src == dtCase.src
          schan == Len(src[1])
          out == dsp_resample(src, schan, dtCase.srate, dtCase.chans, dtCase.rrate)
          Far(i, n) == LET d == (i - 1) * dtCase.srate - (n - 1) * dtCase.rrate
                       IN  IF d < 0 THEN -d ELSE d
      IN  /\ Len(out) = (Len(src) * dtCase.rrate) \div dtCase.srate
          /\ \A i \in DOMAIN out : \E n \in DOMAIN src :
               /\ \A m \in DOMAIN src : Far(i, n) <= Far(i, m)
               /\ \A c \in 1 .. dtCase.chans : out[i][c] = src[n][1 + ((c - 1) % schan)]

Levels == {-32768, -300, 0, 5, 32767}
CaseAdpcm == \E a \in Levels, b \in Levels, c \in Levels, step \in {0, 30, 88}, ch \in 1 .. 2 :
    dtCase' = [what |-> "adpcm", channels |-> ch,
               frames |-> [i \in 1 .. (IF ch = 1 THEN 4 ELSE 8) |->
                             IF ch = 1 THEN <<IF i % 3 = 0 THEN a ELSE IF i % 3 = 1 THEN b ELSE c>>
                             ELSE <<IF i % 2 = 0 THEN a ELSE b, IF i % 3 = 0 THEN c ELSE a>>],
               states |-> [k \in 1 .. ch |-> [sample |-> 0, step |-> step]]]

(* Decoding what the encoder made of a packet of whole blocks follows the  *)
(* encoder exactly: as many frames, and after the last one the same        *)
(* predictor and step in either channel.                                   *)
AdpcmStaysInStep ==
    Is("adpcm") =>
      LET ch == dtCase.channels
          block == IF ch = 1 THEN 5 ELSE 16
          zero == [k \in 1 .. ch |-> [sample |-> 0, step |-> 0]]
      IN  \A e \in {dsp_encode_ima_adpcm(dtCase.states, dtCase.frames, ch, block)} :
          \A d \in {dsp_decode_ima_adpcm(zero, e.out, ch, block)} :
            /\ Len(e.out) % block = 0 /\ d.pos = Len(e.out)
            /\ Len(d.frames) = Len(dtCase.frames)
            /\ d.states = e.states
            /\ \A k \in 1 .. ch : d.frames[Len(d.frames)][k] = e.states[k].sample

-----------------------------------------------------------------------------
Format(tag, channels, rate, align, bits, extra) ==
    [tag |-> tag, channels |-> channels, rate |-> rate, align |-> align, bits |-> bits, extra |-> extra]
SomeFormats ==
    {Format(1, c, r, (c * b) \div 8, b, 0) : c \in 1 .. 3, r \in {22050, 96000}, b \in {8, 16}}
      \union {Format(17, c, 22050, 4 * c + 8 * n * c, 4, 2) : c \in 1 .. 2, n \in 1 .. 2}
      \union {Format(6, 1, 22050, 1, 8, 0)}
NoFixed == [tag |-> 0, channels |-> 0, rate |-> 0]

CasePacket == \E f \in SomeFormats, frames \in 0 .. 40, asked \in {0, 13, 128} :
    f.tag = 17 /\ dtCase' = [what |-> "packet", format |-> f, frames |-> frames, asked |-> asked]

(* Recorded ADPCM goes out in whole blocks.  The packet is rounded beyond  *)
(* what it was, by up to a block, every time a format is set.              *)
PacketsAreWholeBlocks ==
    Is("packet") =>
      LET f == dtCase.format
          bs == (f.align - 4 * f.channels) * 4
          Whole(n) == (n * f.channels * 2) % bs = 0
          alsa == audin_alsa_set_format(dtCase.frames, f, dtCase.asked)
          pulse == audin_pulse_set_format(dtCase.frames, f, dtCase.asked)
          was == IF dtCase.asked > 0 THEN dtCase.asked ELSE dtCase.frames
      IN  /\ Whole(alsa) /\ alsa > dtCase.frames
          /\ Whole(pulse) /\ pulse > was
          /\ (alsa - dtCase.frames) * f.channels * 2 <= bs

CaseFormats == \E f \in SomeFormats, g \in SomeFormats, had \in 0 .. 2, blocks \in 1 .. 3,
                  fixed \in {NoFixed, [NoFixed EXCEPT !.tag = 17], [NoFixed EXCEPT !.channels = 2]} :
    dtCase' = [what |-> "formats", list |-> <<f, g>>, had |-> had, fixed |-> fixed, blocks |-> blocks]

(* The server is told as many formats as are listed, in the order it will  *)
(* index them by; whatever is listed can be set and plays whole blocks     *)
(* without a rest.  A second negotiation of a recording channel tells the  *)
(* earlier formats too, though it lists only the new.                      *)
ListedCanBePlayed ==
    Is("formats") =>
      LET a == rdpsnd_process_message_formats(dtCase.fixed, dtCase.list)
          r == audin_process_formats(dtCase.had, dtCase.fixed, dtCase.list)
          alsa(f) == rdpsnd_alsa_set_format([bytes |-> 0], f)
          pulse(f) == rdpsnd_pulse_set_format_spec(f)
      IN  /\ a.count = Len(a.formats) /\ a.body + 4 = a.sent
          /\ (r.count = Len(r.listed)) = (dtCase.had = 0)
          /\ \A k \in DOMAIN a.formats :
               LET f == a.formats[k]
                   n == dtCase.blocks * f.align
                   plain == IF f.tag = 17 THEN (n - dtCase.blocks * 4 * f.channels) * 4 ELSE n
               IN  /\ rdpsnd_alsa_play(alsa(f), n) = plain
                   /\ rdpsnd_pulse_format_supported(f) /\ pulse(f) = alsa(f)

-----------------------------------------------------------------------------
Functions == {"RIM_EXCHANGE_CAPABILITY_REQUEST", "SET_CHANNEL_PARAMS", "EXCHANGE_CAPABILITIES_REQ",
    "CHECK_FORMAT_SUPPORT_REQ", "ON_NEW_PRESENTATION", "ADD_STREAM", "SET_TOPOLOGY_REQ",
    "REMOVE_STREAM", "SHUTDOWN_PRESENTATION_REQ", "ON_STREAM_VOLUME", "ON_CHANNEL_VOLUME",
    "SET_VIDEO_WINDOW", "UPDATE_GEOMETRY_INFO", "SET_ALLOCATOR", "NOTIFY_PREROLL", "ON_SAMPLE",
    "ON_FLUSH", "ON_END_OF_STREAM", "ON_PLAYBACK_STARTED", "ON_PLAYBACK_PAUSED",
    "ON_PLAYBACK_RESTARTED", "ON_PLAYBACK_STOPPED", "ON_PLAYBACK_RATE_CHANGED",
    "RIMCALL_RELEASE", "RIMCALL_QUERYINTERFACE"}
Waited == {"RIM_EXCHANGE_CAPABILITY_REQUEST", "EXCHANGE_CAPABILITIES_REQ", "CHECK_FORMAT_SUPPORT_REQ",
    "SET_TOPOLOGY_REQ", "SHUTDOWN_PRESENTATION_REQ", "ON_END_OF_STREAM", "ON_PLAYBACK_STARTED",
    "ON_PLAYBACK_STOPPED", "ON_PLAYBACK_RATE_CHANGED", "RIMCALL_QUERYINTERFACE"}
CapLists == UNION {[1 .. n -> {[type |-> t, length |-> l, value |-> "host"] : t \in 1 .. 3, l \in {4, 8}}]
                     : n \in 0 .. 2}

CaseTsmf == \E fn \in Functions, known \in BOOLEAN, stream \in BOOLEAN, caps \in CapLists :
    dtCase' = [what |-> "tsmf", r |-> [fn |-> fn, known |-> known, stream |-> stream, caps |-> caps]]

(* The server gets an answer to exactly what it waits for, whether or not  *)
(* the presentation it names still exists; and the capabilities come back  *)
(* as long as they were sent, with the platforms filled in.                *)
WaitedIsAnswered ==
    Is("tsmf") =>
      LET a == tsmf_on_data_received(dtCase.r)
          caps == dtCase.r.caps
      IN  /\ (a.sent > 0) = (dtCase.r.fn \in Waited)
          /\ dtCase.r.fn = "EXCHANGE_CAPABILITIES_REQ" =>
               /\ a.sent = 8 + Bytes(<<4>> \o FlattenSeq([k \in DOMAIN caps |-> <<4, 4, caps[k].length>>])) + 4
               /\ \A k \in DOMAIN caps : (ExchangedCapabilities(caps)[k] = caps[k]) = (caps[k].type # 2)

CaseMedia == \E f \in {"MFVIDEOFORMAT", "WAVEFORMATEX", "MPEG2VIDEOINFO", "VIDEOINFO2"},
                bi \in {40, 44, 56}, extra \in {0, 1, 12} :
    dtCase' = [what |-> "media",
               t |-> [format |-> f, biSize |-> bi, extra |-> extra, major |-> "VIDEO", sub |-> "WMV3",
                      cbFormat |-> extra + CASE f = "MFVIDEOFORMAT" -> 176
                                             [] f = "WAVEFORMATEX" -> 18
                                             [] OTHER -> 72 + bi]]

(* The decoder's extra data is what is left of the format block: together  *)
(* with what was read it ends where the block ends.                        *)
MediaTypeStaysInside ==
    Is("media") =>
      LET m == tsmf_codec_parse_media_type(dtCase.t) IN m.moved + m.extra = dtCase.t.cbFormat

AudioNext ==
    (CaseResample \/ CaseAdpcm \/ CasePacket \/ CaseFormats \/ CaseTsmf \/ CaseMedia)

-----------------------------------------------------------------------------
(* The clipboard's conversions over short texts, all the lengths at which  *)
(* they decide, and short lists of formats.                                *)

ClipFormats == {"TEXT", "UNICODETEXT", "DIB", "HTML", "PNG", "JPEG", "GIF", "other"}

ClipNext ==
    \/ \E n \in 0 .. 4 : \E t \in [1 .. n -> {"a", "b", CR, LF, NUL}] :
          dtCase' = [what |-> "text", t |-> t]
    \/ \E n \in {0, 1, 7, 200}, body \in BOOLEAN :
          dtCase' = [what |-> "html", n |-> n, body |-> body]
    \/ \E n \in 38 .. 56, bpp \in {1, 4, 8, 16, 24}, c \in 0 .. 3, used \in {0, 2} :
          dtCase' = [what |-> "dib", n |-> n, bpp |-> bpp, compression |-> c, used |-> used]
    \/ \E n \in 0 .. 3, long \in BOOLEAN : \E fs \in [1 .. n -> ClipFormats] :
          dtCase' = [what |-> "format list", fs |-> fs, long |-> long]
    \/ \E n \in 0 .. 2 : \E sets \in [1 .. n -> [general : BOOLEAN, long : BOOLEAN]] :
          dtCase' = [what |-> "clip caps", sets |-> sets]
-----------------------------------------------------------------------------
(* Text copied on one side is pasted on the other with its line ends       *)
(* converted and nothing else lost but a carriage return of its own; as    *)
(* Unicode up to its first zero, otherwise with a zero more.               *)
TextComesBack ==
    Is("text") =>
      LET t == dtCase.t
          bare == SelectSeq(t, LAMBDA c : c # CR)
      IN  /\ xf_cliprdr_process_text(xf_cliprdr_process_requested_text(t)) = bare \o <<NUL>>
          /\ xf_cliprdr_process_unicodetext(xf_cliprdr_process_requested_unicodetext(t)) = UpToZero(bare)
          /\ be2le(be2le(t)) = t
          /\ \A i \in DOMAIN lf2crlf(bare) : lf2crlf(bare)[i] = LF <=> i > 1 /\ lf2crlf(bare)[i - 1] = CR

(* The numbers of the HTML header stand where its lines end, frame exactly *)
(* the text and lie inside the data; reading them gives the document back. *)
HtmlIsFramed ==
    Is("html") =>
      LET h == xf_cliprdr_process_requested_html(dtCase.n, dtCase.body)
          line(k) == h.at[k] + 12
      IN  /\ h.EndFragment - h.StartFragment = dtCase.n
          /\ h.StartHTML < h.StartFragment /\ h.EndFragment < h.EndHTML /\ h.EndHTML < h.size
          /\ h.size <= dtCase.n + 200
          /\ line("StartHTML") = HtmlHeader.Version + HtmlHeader.StartHTML
          /\ line("EndHTML") = line("StartHTML") + HtmlHeader.EndHTML
          /\ line("StartFragment") = line("EndHTML") + HtmlHeader.StartFragment
          /\ line("EndFragment") = line("StartFragment") + HtmlHeader.EndFragment
          /\ line("EndFragment") = h.StartHTML
          /\ xf_cliprdr_process_html(TRUE, h.StartHTML, h.EndHTML, h.size) = h.EndHTML - h.StartHTML

(* A bitmap that crosses both ways keeps its size.  Its pixels are where   *)
(* the file header says unless it has a palette of another size than its   *)
(* depth gives: the number of colours is not what is read.                 *)
BitmapIsFound ==
    Is("dib") =>
      LET d == xf_cliprdr_process_dib(dtCase.n, dtCase.bpp, dtCase.compression)
          colours == IF dtCase.bpp > 8 THEN 0 ELSE IF dtCase.used = 0 THEN 2 ^ dtCase.bpp ELSE dtCase.used
      IN  /\ dtCase.n >= 40 => xf_cliprdr_process_requested_dib(d.size) = dtCase.n
          /\ dtCase.n >= 40 /\ dtCase.compression = 0 =>
                (d.offset = 54 + 4 * colours <=> dtCase.bpp > 8 \/ colours = 2 ^ dtCase.bpp)

(* The list of formats announced is the list the same code reads, in order *)
(* and to its last byte, and its length is counted.                        *)
FormatListIsRead ==
    Is("format list") =>
      LET fs == dtCase.fs
          pdu == cliprdr_process_format_list_event(fs, dtCase.long)
          entries == [i \in DOMAIN fs |-> <<4, NameLength(fs[i], dtCase.long)>>]
          sent == [i \in DOMAIN fs |-> [id |-> fs[i], name |-> IF fs[i] \in DOMAIN Names THEN fs[i] ELSE ""]]
          known == SelectSeq(fs, LAMBDA f : f # "other")
      IN  /\ cliprdr_packet_send(pdu) = Bytes(FlattenSeq(entries))
          /\ IF dtCase.long
             THEN cliprdr_process_long_format_names(entries) = [n |-> Len(fs), left |-> 0]
             ELSE cliprdr_process_short_format_names(cliprdr_packet_send(pdu)) = Len(fs)
          /\ cliprdr_process_format_list(sent) = known
          /\ \A i \in DOMAIN known :
               LET m == FormatMappings[xf_cliprdr_select_format_by_id(known[i])] IN
               /\ m.target \in ToSet(Targets(known))
               /\ FormatMappings[xf_cliprdr_select_format_by_atom(ToSet(known), m.target)] = m
          /\ Len(Targets(known)) = 2 + Cardinality(ToSet(known))

(* Capabilities are read to their end when every set is the general one.   *)
ClipCapsAreRead ==
    Is("clip caps") =>
      LET caps == cliprdr_process_clip_caps(dtCase.sets) IN
      /\ caps.long => caps.received
      /\ caps.read = 4 + 12 * Len(dtCase.sets) <=> \A i \in DOMAIN dtCase.sets : dtCase.sets[i].general
      /\ caps.read = cliprdr_packet_send(cliprdr_send_clip_caps) <=>
            dtCase.sets # <<>> /\ Len(dtCase.sets) = 1 /\ dtCase.sets[1].general

-----------------------------------------------------------------------------
(* RAIL orders, the drawing of remote application windows and the pointer, *)
(* each against what it is meant to do.                                    *)

RailOrders ==
    [is : {"exec"}, exe : {0, 2, 6}, dir : {0, 4}, args : {0, 2}]
      \union [is : {"sysparam"}, scheme : {0, 6},
              param : {"drag", "cues", "keyboard", "mouse", "work area", "display", "taskbar", "contrast"}]
      \union [is : {"handshake", "status", "activate", "sysmenu", "syscommand", "notify", "move", "appid",
                    "langbar"}]

CaseRail == \E o \in RailOrders : dtCase' = [what |-> "rail", order |-> o]
CaseParams ==
    \E ps \in SUBSET {"contrast", "taskbar", "mouse", "keyboard", "drag", "cues", "work area", "display"} :
        dtCase' = [what |-> "params", params |-> ps]
CaseClone == \E t \in ordersize_table : dtCase' = [what |-> "clone", type |-> t]
CasePaint ==
    \E ul \in 0 .. 5, uw \in 1 .. 4, x \in -5 .. 6, n \in 0 .. 5 :
        dtCase' = [what |-> "paint", update |-> [left |-> ul, right |-> ul + uw - 1], win |-> [x |-> x, w |-> n]]
CaseFix ==
    \E x \in -4 .. 6, n \in 0 .. 6, l \in 0 .. 2 :
        dtCase' = [what |-> "fix", win |-> [x |-> x, w |-> n], screen |-> [left |-> l, right |-> l + 4]]
CaseMouse ==
    \E b \in 1 .. 6, x \in 0 .. 3, offset \in -3 .. 4 :
        dtCase' = [what |-> "mouse", button |-> b, x |-> x, offset |-> offset]
CaseWindowOrders ==
    \E f, g \in SUBSET {"show", "title", "offset", "size", "rects", "visibility"} :
        dtCase' = [what |-> "window orders", flags |-> <<f, g>>]

RailNext == CaseRail \/ CaseParams \/ CaseClone \/ CasePaint \/ CaseFix \/ CaseMouse \/ CaseWindowOrders

(* Every order of the client stays inside its stream, which is reserved    *)
(* without the strings and grown for each, and its length field is what    *)
(* the fields take.                                                        *)
RailOrderFits ==
    Is("rail") =>
      LET o == dtCase.order
          strings == CASE o.is = "exec" -> o.exe + o.dir + o.args
                       [] o.is = "sysparam" /\ o.param = "contrast" -> 2 + o.scheme
                       [] OTHER -> 0
          fixed == CASE o.is \in {"exec", "sysmenu"} -> 8 [] o.is \in {"notify", "move"} -> 12
                     [] o.is = "activate" -> 5 [] o.is = "syscommand" -> 6
                     [] o.is = "sysparam" ->
                          (CASE o.param \in {"work area", "display", "taskbar", "contrast"} -> 12 [] OTHER -> 5)
                     [] OTHER -> 4
      IN  ~RailWritten(rail_process_event(o)).past /\ rail_send_pdu(o) = 4 + fixed + strings

(* Every system parameter asked for is sent once, and fits, but for a      *)
(* change of the display, which the client has a code for and never sends. *)
ParametersAreSent ==
    Is("params") =>
      LET sent == rail_send_client_sysparams_order(dtCase.params) IN
      /\ ToSet(sent) = dtCase.params \ {"display"} /\ Len(sent) = Cardinality(ToSet(sent))
      /\ \A i \in DOMAIN sent :
           ~RailWritten(rail_process_event([is |-> "sysparam", param |-> sent[i], scheme |-> 4])).past

(* An order handed to the other thread shares no string it frees, and      *)
(* every string copied for it is freed with it; only a server's system     *)
(* parameter keeps a pointer into the channel's own order.                 *)
CloneOwnsItsStrings ==
    Is("clone") =>
      LET c == rail_clone_order(dtCase.type) IN
      /\ rail_free_cloned_order(dtCase.type) = {p \in DOMAIN c : c[p] = "copy"}
      /\ (\E p \in DOMAIN c : c[p] = "shared") => dtCase.type = "server sysparam"

(* An update is painted on a window exactly where they overlap, and the    *)
(* area stays whole on the way to the screen - for a window that reaches   *)
(* to the screen's first column: the right edge of one wholly to the left  *)
(* wraps around and is taken to overlap everything.                        *)
PaintsTheOverlap ==
    Is("paint") =>
      LET u == dtCase.update
          win == dtCase.win
          both == {c \in u.left .. u.right : c \in win.x .. win.x + win.w - 1}
          p == xf_rail_paint(u, win, 8)
      IN  IF win.w > 0 /\ win.x + win.w - 1 < 0 THEN p # << >>
          ELSE IF both = {} THEN p = << >>
          ELSE /\ p = <<[x |-> Min(both) - win.x, w |-> Cardinality(both)]>>
               /\ xf_UpdateWindowArea(win, p[1]) = p[1]

(* A new window that begins left of the screen is shown from the screen's  *)
(* first column on and ends where it ended, as long as that is column 0;   *)
(* none is wider than the screen.                                          *)
NewWindowIsOnScreen ==
    Is("fix") =>
      LET r == xf_FixWindowCoordinates(dtCase.win, dtCase.screen)
          wide == Max({dtCase.win.w, 1})
      IN  /\ r.x >= dtCase.screen.left /\ r.w <= 5
          /\ dtCase.screen.left = 0 /\ dtCase.win.x < 0 => r.x + r.w = Min({dtCase.win.x + wide, 5})
          /\ dtCase.win.x >= dtCase.screen.left => r.x = dtCase.win.x /\ r.w = Min({wide, 5})

(* Every button the session is told of going down is told of going up      *)
(* again, at the place of the session under the pointer, where motion with *)
(* the button held led it; the wheel is never held.  (A remote             *)
(* application's motion is told only when all motion is.)                  *)
ButtonsComeUp ==
    Is("mouse") =>
      LET down == xf_event_ButtonPress(dtCase.button, dtCase.x, dtCase.offset, 8)
          up == xf_event_ButtonRelease(dtCase.button, dtCase.x, dtCase.offset, 8)
          dragged == xf_event_MotionNotify(FALSE, TRUE, FALSE, dtCase.x, dtCase.offset, 8)
          app == xf_event_MotionNotify(TRUE, TRUE, TRUE, dtCase.x, dtCase.offset, 8)
      IN  /\ (\E i \in DOMAIN down : "DOWN" \in down[i].flags) <=> up # << >>
          /\ up # << >> => /\ down[1].flags = up[1].flags \union {"DOWN"}
                           /\ app[1].x = up[1].x
                           /\ dtCase.offset = 0 => dragged[1].x = up[1].x
                           /\ dtCase.x + dtCase.offset >= 0 => up[1].x = dtCase.x + dtCase.offset

(* After two orders a window has of each field what the last order that    *)
(* carried it said, and each field that shows was shown after it was set.  *)
WindowOrdersShow ==
    Is("window orders") =>
      LET shown == [show |-> "ShowWindow", title |-> "SetWindowText", offset |-> "MoveWindow",
                    size |-> "MoveWindow", rects |-> "SetWindowRects", visibility |-> "SetWindowVisibilityRects"]
          start == [f \in DOMAIN shown |-> 0]
          after == window_state_update(window_state_update(start, dtCase.flags[1], [f \in DOMAIN shown |-> 1]),
                                       dtCase.flags[2], [f \in DOMAIN shown |-> 2])
      IN  \A f \in DOMAIN shown :
            /\ after[f] = IF f \in dtCase.flags[2] THEN 2 ELSE IF f \in dtCase.flags[1] THEN 1 ELSE 0
            /\ f \in dtCase.flags[2] => \E i \in DOMAIN rail_UpdateWindow(dtCase.flags[2]) :
                                          rail_UpdateWindow(dtCase.flags[2])[i] = shown[f]

-----------------------------------------------------------------------------
(* The boot parameters of a client: up to two values of up to two words,   *)
(* with an option m, one whose name ends like it and one whose value looks *)
(* like an assignment.                                                     *)

OptionWords == {<<"m", "=", "r">>, <<"m", "=", "o">>, <<"x", "m", "=", "o">>, <<"x", "=", "m", "=">>, <<"m">>}
OptionLines == {<<w>> : w \in OptionWords} \union (OptionWords \X OptionWords)
OptionValues == {<<>>} \union {<<l>> : l \in OptionLines}
                \union {<<k, l>> : k \in OptionLines, l \in {<<w>> : w \in OptionWords}}

OptionNext ==
    \E values \in {v \in OptionValues : IsInjective(v)}, option \in {<<"m">>, <<"x", "m">>, <<"x">>} :
       \/ \E v \in {<<"r">>, <<"o">>} :
             dtCase' = [what |-> "write option", values |-> values, option |-> option, v |-> v]
       \/ dtCase' = [what |-> "delete option", values |-> values, option |-> option]
-----------------------------------------------------------------------------
Words(values) == Range(FlattenSeq(values))
NamedBy(values, option) == {w \in Words(values) : IsPrefix(Assigns(option), w)}
Holding(values, option) == {w \in Words(values) : Found(w, Assigns(option)) # {}}

(* An option that univention-ucc-boot-option writes is read back with its  *)
(* value, and no word without it changes: unless the option is found in    *)
(* the name or the value of another one, in which case that one is changed *)
(* and the option is stored just when it was there before; or unless the   *)
(* new text of a value is that of another value, which LDAP refuses.       *)
OptionIsStored ==
    Is("write option") =>
        LET r == write_option(dtCase.values, dtCase.option, dtCase.v)
            held == Holding(dtCase.values, dtCase.option)
        IN  /\ r.ok => (read_option(r.values, dtCase.option) = dtCase.v
                          <=> (held = {} \/ NamedBy(dtCase.values, dtCase.option) # {}))
            /\ Words(dtCase.values) \ held \subseteq Words(r.values)
            /\ ~r.ok => \E i, k \in DOMAIN dtCase.values :
                           i # k /\ Concerned(dtCase.values[i], dtCase.option)

(* A deleted option is read as nothing; the words that do not hold it are  *)
(* kept, of the others what stands before it.                              *)
OptionIsGone ==
    Is("delete option") =>
        LET r == delete_option(dtCase.values, dtCase.option)
        IN  /\ r.ok => read_option(r.values, dtCase.option) = <<>>
            /\ Words(dtCase.values) \ Holding(dtCase.values, dtCase.option) \subseteq Words(r.values)
            /\ r.ok => Holding(r.values, dtCase.option) = {}

-----------------------------------------------------------------------------
(* The pure functions of the remote desktop client, and of the client's    *)
(* boot options, on all small inputs.                                      *)

DataInit ==
    dtCase \in [what : {"none"}, part : {"gdi", "bitmap", "color", "codec", "wire", "updates", "scard",
                                        "device", "audio", "clip", "rail", "options"}]
DataNext ==
    \/ CallOf("gdi") /\ GdiNext
    \/ CallOf("bitmap") /\ BitmapNext
    \/ CallOf("color") /\ ColorNext
    \/ CallOf("codec") /\ CodecNext
    \/ CallOf("wire") /\ WireNext
    \/ CallOf("updates") /\ UpdatesNext
    \/ CallOf("scard") /\ ScardNext
    \/ CallOf("device") /\ DeviceNext
    \/ CallOf("audio") /\ AudioNext
    \/ CallOf("clip") /\ ClipNext
    \/ CallOf("rail") /\ RailNext
    \/ CallOf("options") /\ OptionNext
DataSpec == DataInit /\ [][DataNext]_dtCase

(* What is drawn: raster operations do what their codes say for every      *)
(* depth, clipping draws the intersection, copies within one bitmap move   *)
(* the old pixels, lines keep to the true line, bitmaps decode to the image*)
(* they were made from, colours and masks survive their conversions.       *)
DrawnAsMeant ==
    /\ RopIsItsCode /\ PenIsItsCode /\ ClipDrawsIntersection
    /\ CopyMovesOldPixels /\ LineFollowsTheTrueLine /\ RleDecodesTheImage
    /\ RunLengthIsRead /\ PlanesDecodeTheImage /\ FlipsAgree
    /\ ColorsAgree /\ NarrowingKeeps /\ MasksAreRead

(* What RemoteFX and NSCodec decode is what was encoded: entropy code,     *)
(* differences, wavelet, quantization, colours, and the messages that carry*)
(* them.                                                                   *)
CodecsReadBack ==
    /\ RlgrReadsBack /\ DifferencesReadBack /\ WaveletReadsBack
    /\ BlockReadsBack /\ QuantizationReadsBack /\ ColourReadsBack
    /\ RfxMessageIsRead /\ RfxPropertiesAreRead /\ NscRunsAreRead
    /\ NscChromaIsSpread /\ NscColourReadsBack /\ TokensAreRead

(* What one side writes to the connection the other side reads: connection *)
(* PDUs, orders, updates and their fragments, input, smart card calls,     *)
(* format lists and rail orders, with true lengths and counts.             *)
PdusAreRead ==
    /\ CapabilitiesAreCounted /\ ConnectLengthsAreTrue /\ ConnectIsRead
    /\ NegotiationIsFound /\ InfoIsRead /\ HeadersAreTrue
    /\ NumbersAreRead /\ OrderNumbersAreRead /\ DeltasAreRead
    /\ PrimaryOrderIsRead /\ SecondaryOrderStaysInside /\ AltSecOrderIsRead
    /\ UpdatesReassemble /\ UpdatesAreRead /\ BitmapRoomIsEnough
    /\ InputArrives /\ CallIsRead /\ AnswersArePadded
    /\ FormatListIsRead /\ ClipCapsAreRead /\ RailOrderFits
    /\ ActivationIsRead /\ NlaIsRead /\ ChallengeIsKept

(* What drivers, media, clipboard, windows and the boot configuration are  *)
(* told is what they then do, and what they answer is what they did.       *)
AnswersAreTrue ==
    /\ NamesAreNarrowed /\ LocatedIsTheLast /\ AnswersAreCounted
    /\ DeviceCapsAreCounted /\ WildcardsAreMeant /\ SettingsAreInForce
    /\ SettingsAreTold /\ EventsAreReportedOnce /\ TimeoutFits
    /\ ResampleIsNearest /\ AdpcmStaysInStep /\ PacketsAreWholeBlocks
    /\ ListedCanBePlayed /\ WaitedIsAnswered /\ MediaTypeStaysInside
    /\ TextComesBack /\ HtmlIsFramed /\ BitmapIsFound
    /\ ParametersAreSent /\ CloneOwnsItsStrings /\ PaintsTheOverlap
    /\ NewWindowIsOnScreen /\ ButtonsComeUp /\ WindowOrdersShow
    /\ OptionIsStored /\ OptionIsGone
=============================================================================
