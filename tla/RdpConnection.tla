--------------------------- MODULE RdpConnection ----------------------------
(***************************************************************************)
(* The connection of a client and a server: negotiation of the security    *)
(* protocol, and the connection sequence up to the active session.         *)
(***************************************************************************)
EXTENDS Naturals, FiniteSets, Integers, Sequences, SequencesExt

-----------------------------------------------------------------------------
(* The choice of the security protocol (nego.c, and the ends of it in      *)
(* connection.c and transport.c).  The client tries the protocols it has   *)
(* enabled from the strongest down, with a connection of its own for each  *)
(* attempt; the server answers each request out of its own settings.       *)
(* PROTOCOL_RDP is 0 in the request, so a set of protocols without TLS and *)
(* NLA stands for it.                                                      *)

VARIABLES ngEnabled,   \* enabled_protocols of the client
          ngServer,    \* the protocols in the settings of the server
          ngState,     \* nego->state of the client
          ngRequested, \* requested_protocols of the last attempt
          ngSelected,  \* selected_protocol at the client
          ngAccepted,  \* selected_protocol at the server
          ngTcp,       \* tcp_connected
          ngFault      \* whether the network has failed

ngVars == <<ngEnabled, ngServer, ngState, ngRequested, ngSelected, ngAccepted, ngTcp, ngFault>>

PROTOCOL_TLS == "TLS"
PROTOCOL_NLA == "NLA"
PROTOCOL_RDP == "RDP"
AllProtocols == {PROTOCOL_RDP, PROTOCOL_TLS, PROTOCOL_NLA}

nego_init ==
    /\ ngState = "INITIAL" /\ ngRequested = {} /\ ngSelected = {} /\ ngAccepted = {}
    /\ ngTcp = FALSE /\ ngFault = FALSE

NgInit == ngEnabled \in SUBSET AllProtocols /\ ngServer \in SUBSET AllProtocols /\ nego_init

\* The strongest protocol below the given ones that is enabled.
Fallback(below) ==
    IF PROTOCOL_NLA \in ngEnabled \cap below THEN "NLA"
    ELSE IF PROTOCOL_TLS \in ngEnabled \cap below THEN "TLS"
    ELSE IF PROTOCOL_RDP \in ngEnabled \cap below THEN "RDP" ELSE "FAIL"

nego_connect ==
    /\ ngState = "INITIAL"
    /\ ngState' = Fallback(AllProtocols)
    /\ UNCHANGED <<ngEnabled, ngServer, ngRequested, ngSelected, ngAccepted, ngTcp, ngFault>>

\* What the server selects for a request, as the set of the bits it sets.
rdp_server_accept_nego(request) == request \cap ngServer \cap {PROTOCOL_TLS, PROTOCOL_NLA}

\* The answer: negotiation data with the selection, a failure, or no data at all.
nego_send_negotiation_response(selected) ==
    IF selected # {} THEN "response" ELSE IF PROTOCOL_RDP \notin ngServer THEN "failure" ELSE "none"

nego_recv(answer) == IF answer = "failure" THEN "FAIL" ELSE "FINAL"

\* A failed connection, write or read ends the negotiation: nothing else is tried.
AttemptFails ==
    /\ ngState \in {"NLA", "TLS", "RDP"}
    /\ ngState' = "FAIL" /\ ngFault' = TRUE
    /\ UNCHANGED <<ngEnabled, ngServer, ngRequested, ngSelected, ngAccepted, ngTcp>>

Attempt(state, request, below) ==
    LET selected == rdp_server_accept_nego(request)
        answer == nego_send_negotiation_response(selected)
        final == nego_recv(answer) = "FINAL"
    IN  /\ ngState = state
        /\ ngRequested' = request
        /\ ngState' = IF final THEN "FINAL" ELSE IF below = {} THEN "FAIL" ELSE Fallback(below)
        /\ ngSelected' = IF answer = "response" THEN selected ELSE ngSelected
        /\ ngAccepted' = selected
        /\ ngTcp' = (final \/ below = {})
        /\ UNCHANGED <<ngEnabled, ngServer, ngFault>>

nego_attempt_nla == Attempt("NLA", {PROTOCOL_NLA, PROTOCOL_TLS}, {PROTOCOL_TLS, PROTOCOL_RDP})
nego_attempt_tls == Attempt("TLS", {PROTOCOL_TLS}, {PROTOCOL_RDP})
nego_attempt_rdp == Attempt("RDP", {}, {})

\* nego_connect's last test: a failed negotiation ends like a finished one, and fails.
nego_fails ==
    /\ ngState = "FAIL"
    /\ ngState' = "FAILED"
    /\ UNCHANGED <<ngEnabled, ngServer, ngRequested, ngSelected, ngAccepted, ngTcp, ngFault>>

NgNext == nego_connect \/ nego_attempt_nla \/ nego_attempt_tls \/ nego_attempt_rdp \/ AttemptFails \/ nego_fails
NgSpec == NgInit /\ [][NgNext]_ngVars
NgFairness == WF_ngVars(ngState # "INITIAL" /\ NgNext)
NgFairSpec == NgSpec /\ NgFairness

\* rdp_client_connect and rdp_server_accept_nego: what each end then starts.
transport_connect(selected) ==
    IF PROTOCOL_NLA \in selected THEN "NLA" ELSE IF PROTOCOL_TLS \in selected THEN "TLS" ELSE "RDP"

(***************************************************************************)
(* Properties.                                                             *)
(***************************************************************************)
\* The variables have the types of rdpNego.
NgTypeOK ==
    /\ ngState \in {"INITIAL", "NLA", "TLS", "RDP", "FAIL", "FINAL", "FAILED"}
    /\ ngRequested \in SUBSET AllProtocols /\ ngSelected \in SUBSET AllProtocols /\ ngAccepted \in SUBSET AllProtocols
    /\ ngTcp \in BOOLEAN /\ ngFault \in BOOLEAN

\* When nego_connect succeeds both ends start the same protocol, on a connection that
\* is open, and the server has it in its settings.
SameProtocol ==
    ngState = "FINAL" =>
        /\ transport_connect(ngSelected) = transport_connect(ngAccepted)
        /\ transport_connect(ngAccepted) \in ngServer
        /\ ngTcp

\* The attempts, from the strongest down, find a protocol both ends have if there is
\* one and the network does not fail, and the strongest one the client has.
CommonIsFound ==
    /\ ngState = "FAILED" /\ ~ngFault => ngEnabled \cap ngServer = {}
    /\ ngState = "FINAL" /\ PROTOCOL_NLA \in ngEnabled \cap ngServer
       => transport_connect(ngSelected) = "NLA"
    /\ ngState = "FINAL" /\ PROTOCOL_TLS \in ngEnabled \cap ngServer
       => transport_connect(ngSelected) # "RDP"

\* The loop of nego_connect ends.
NegoEnds == ngState # "INITIAL" ~> ngState \in {"FINAL", "FAILED"}

-----------------------------------------------------------------------------
(* The connection sequence of libfreerdp-core between a client and a       *)
(* server, from the answer to MCS Connect-Initial to the active session:   *)
(* channel joining, keys, licensing, the exchange of capabilities,         *)
(* finalization, the deactivation and reactivation a server uses to change *)
(* the desktop size, and the redirection to another server.                *)
(*                                                                         *)
(* Both ends are this library (connection.c, rdp.c, activation.c, mcs.c,   *)
(* license.c).  What drives the server's functions is not part of the      *)
(* sources (peer.c is empty): the operators named Peer are external, and   *)
(* so is what another implementation of a server may send: a licence       *)
(* dialogue, data between the phases, a redirection.                       *)
(*                                                                         *)
(* A message is what is sent, a number that goes with it, and its position *)
(* in the sender's key stream: 0 when it is sent in the clear.             *)

CONSTANTS MaxChannels,  \* the most static channels (settings->num_channels)
          MaxHops,      \* redirections followed
          MaxResizes,   \* times the server changes its desktop size
          MaxExtras     \* messages of the server outside the sequence

VARIABLES cn,        \* the client's rdpRdp and what it keeps in its settings
          sv,        \* the server's
          toServer,  \* PDUs on the way to the server
          toClient,  \* PDUs on the way to the client
          cnPast     \* what has happened, for the properties

cnVars == <<cn, sv, toServer, toClient, cnPast>>

NumChannels == cn.num_channels
Channels == 1 .. NumChannels
Protocols == {"RDP", "TLS"}
FINALIZE_SC_COMPLETE == {"Synchronize", "Cooperate", "Granted", "FontMap"}
Features == {"resize", "order"}
LicensePdus == {"LicenseRequest", "Challenge", "NewLicense", "ValidClient", "Abort", "Reset", "Resend"}

Message(pdu, num, enc) == [pdu |-> pdu, num |-> num, enc |-> enc]
Plain(pdu) == Message(pdu, 0, 0)

(***************************************************************************)
(* Sending and receiving.  rdp_send, rdp_send_pdu and rdp_send_data_pdu    *)
(* encrypt when do_crypt is set; every encrypted PDU moves the key stream  *)
(* on.                                                                     *)
(***************************************************************************)
rdp_send(end, pdus) == [i \in 1 .. Len(pdus) |-> [pdus[i] EXCEPT !.enc = IF end.do_crypt THEN end.sent + i ELSE 0]]

Sent(end, n) == IF end.do_crypt THEN [end EXCEPT !.sent = @ + n] ELSE end

\* Whether the receiver reads the PDU the sender wrote, and its key stream after that.
Legible(end, m) == m.enc = IF end.encryption /\ m.enc > 0 THEN end.read + 1 ELSE 0

(* Mutant: the key stream is not moved on.                                 *)
rdp_decrypt_packet_in_place(end, m) == end

rdp_decrypt_packet(end, m) == IF end.encryption /\ m.enc > 0 THEN [end EXCEPT !.read = @ + 1] ELSE end

Mcs == [user_channel_joined |-> FALSE, global_channel_joined |-> FALSE]

NewServer(protocol, features) ==
    [state |-> "NEGO", mcs |-> Mcs, joined |-> {}, encryption |-> protocol = "RDP",
     do_crypt |-> FALSE, sent |-> 0, read |-> 0, features |-> features, size |-> 1,
     licensing |-> FALSE, asked |-> FALSE]

NewClient(num, features) ==
    [num_channels |-> num, state |-> "INITIAL", mcs |-> Mcs, joined |-> {}, encryption |-> FALSE, do_crypt |-> FALSE,
     sent |-> 0, read |-> 0, features |-> features, size |-> 1,
     finalize_sc_pdus |-> {}, license |-> "AWAIT", disconnect |-> FALSE]

CnInit ==
    /\ \E n \in 0 .. MaxChannels, f \in SUBSET Features : cn = NewClient(n, f)
    /\ sv = NewServer("TLS", {})
    /\ toServer = <<>> /\ toClient = <<>>
    /\ cnPast = [hops |-> 0, extras |-> 0, seen |-> {}, twice |-> FALSE, activations |-> 0]

(***************************************************************************)
(* Connecting.  The negotiation chooses the protocol; the client turns RDP *)
(* encryption on with it but never off.  A redirection leaves the server,  *)
(* makes a new transport, mcs and license, and connects again inside the   *)
(* handler of the redirection; the settings, the joined flags of the       *)
(* channels and do_crypt are those of the connection before.               *)
(***************************************************************************)
rdp_client_connect(c) ==
    \E protocol \in Protocols, features \in SUBSET Features :
        /\ cn' = [c EXCEPT !.state = "NEGO", !.finalize_sc_pdus = {},
                           !.encryption = @ \/ protocol = "RDP"]
        /\ sv' = NewServer(protocol, features)
        /\ toServer' = <<Plain("ConnectInitial")>>
        /\ toClient' = <<>>

rdp_client_redirect(c) ==
    /\ cnPast.hops < MaxHops
    /\ cnPast' = [cnPast EXCEPT !.hops = @ + 1, !.seen = {}]
    /\ rdp_client_connect([c EXCEPT !.mcs = Mcs, !.license = "AWAIT"])

Connect == cn.state = "INITIAL" /\ rdp_client_connect(cn) /\ UNCHANGED cnPast

(***************************************************************************)
(* The client's handlers: one for each state, called by rdp_recv_callback. *)
(* A handler that returns false ends the connection.                       *)
(***************************************************************************)
Head1 == Head(toClient)
Receives(state) == cn.state = state /\ toClient # <<>>
Take(c, answers) ==
    /\ cn' = c /\ toClient' = Tail(toClient) /\ toServer' = toServer \o answers
    /\ UNCHANGED sv

Fails == Take([cn EXCEPT !.state = "FAILED"], <<>>) /\ UNCHANGED cnPast

\* A PDU that is not what the sender wrote is refused or passed over.
Garbled(c) == UNCHANGED cnPast /\ (Take(c, <<>>) \/ Take([c EXCEPT !.state = "FAILED"], <<>>))

rdp_client_connect_mcs_connect_response ==
    /\ Receives("NEGO")
    /\ IF Head1.pdu # "ConnectResponse"
       THEN Fails
       ELSE /\ Take([cn EXCEPT !.state = "MCS_ATTACH_USER", !.encryption = @ /\ Head1.num = 1],
                    <<Plain("ErectDomain"), Plain("AttachUser")>>)
            /\ UNCHANGED cnPast

rdp_client_connect_mcs_attach_user_confirm ==
    /\ Receives("MCS_ATTACH_USER")
    /\ IF Head1.pdu # "AttachUserConfirm"
       THEN Fails
       ELSE /\ Take([cn EXCEPT !.state = "MCS_CHANNEL_JOIN"], <<Plain("JoinUser")>>)
            /\ UNCHANGED cnPast

\* The keys, when there is RDP encryption; do_crypt is left alone when there is none.
rdp_client_establish_keys(c) ==
    IF c.encryption THEN [c EXCEPT !.do_crypt = TRUE, !.sent = 0, !.read = 0] ELSE c

Joined(c) ==
    LET keyed == rdp_client_establish_keys(c)
    IN  Take([Sent(keyed, 1) EXCEPT !.state = "LICENSE"],
             (IF c.encryption THEN <<Plain("SecurityExchange")>> ELSE <<>>)
             \o rdp_send(keyed, <<Plain("ClientInfo")>>))

\* The first channel whose joined flag is not set; after the last one when all are.
NextJoin == CHOOSE i \in 1 .. NumChannels + 1 : i \notin cn.joined /\ \A j \in 1 .. i - 1 : j \in cn.joined

rdp_client_connect_mcs_channel_join_confirm ==
    /\ Receives("MCS_CHANNEL_JOIN")
    /\ LET m == Head1
           user == [cn EXCEPT !.mcs.user_channel_joined = TRUE]
           global == [cn EXCEPT !.mcs.global_channel_joined = TRUE]
           static == [cn EXCEPT !.joined = (@ \union {NextJoin}) \cap Channels]
           request(i) == <<Message("Join", i, 0)>>
       IN  \/ /\ ~cn.mcs.user_channel_joined
              /\ IF m.pdu = "ConfirmUser" THEN Take(user, <<Plain("JoinGlobal")>>) /\ UNCHANGED cnPast ELSE Fails
           \/ /\ cn.mcs.user_channel_joined /\ ~cn.mcs.global_channel_joined
              /\ IF m.pdu # "ConfirmGlobal"
                 THEN Fails
                 ELSE /\ IF NumChannels > 0 THEN Take(global, request(1)) ELSE Joined(global)
                      /\ UNCHANGED cnPast
           \/ /\ cn.mcs.global_channel_joined
              /\ IF m.pdu # "Confirm" \/ (NextJoin \in Channels /\ m.num # NextJoin)
                 THEN Fails
                 ELSE /\ IF NextJoin < NumChannels THEN Take(static, request(NextJoin + 1)) ELSE Joined(static)
                      /\ UNCHANGED cnPast

(***************************************************************************)
(* Licensing.  A licence PDU is never encrypted; anything else is handled  *)
(* as a PDU out of sequence, and is not decrypted here.                    *)
(***************************************************************************)
license_read_error_alert_packet(m) ==
    CASE m.pdu = "ValidClient" -> "COMPLETED"
      [] m.pdu = "Abort" -> "ABORTED"
      [] m.pdu = "Reset" -> "AWAIT"
      [] OTHER -> cn.license

license_recv(m) ==
    IF m.pdu \in {"LicenseRequest", "Challenge"} THEN cn.license
    ELSE IF m.pdu = "NewLicense" THEN "COMPLETED" ELSE license_read_error_alert_packet(m)

LicenseAnswer(m) ==
    CASE m.pdu = "LicenseRequest" -> <<Plain("NewLicenseRequest")>>
      [] m.pdu = "Challenge" -> <<Plain("ChallengeResponse")>>
      [] OTHER -> <<>>

\* What a data PDU does to the client, whichever state it comes in.
rdp_recv_data_pdu(c, m) ==
    IF m.pdu \in FINALIZE_SC_COMPLETE THEN [c EXCEPT !.finalize_sc_pdus = @ \union {m.pdu}] ELSE c

Seen(m) == cnPast' = [cnPast EXCEPT !.seen = @ \union ({m.pdu} \cap FINALIZE_SC_COMPLETE)]

DataPdus == FINALIZE_SC_COMPLETE \union {"Update"}

rdp_recv_out_of_sequence_pdu(c, m) ==
    CASE m.pdu \in DataPdus -> Take(rdp_recv_data_pdu(c, m), <<>>) /\ Seen(m)
      [] m.pdu = "Redirect" -> rdp_client_redirect(c)
      [] OTHER -> Fails

rdp_client_connect_license ==
    /\ Receives("LICENSE")
    /\ LET m == Head1
           after == license_recv(m)
           state == CASE after = "ABORTED" -> "FAILED" [] after = "COMPLETED" -> "CAPABILITY" [] OTHER -> "LICENSE"
       IN  IF m.pdu \in LicensePdus
           THEN Take([cn EXCEPT !.license = after, !.state = state], LicenseAnswer(m)) /\ UNCHANGED cnPast
           ELSE IF m.enc > 0 THEN Garbled(cn) ELSE rdp_recv_out_of_sequence_pdu(cn, m)

(***************************************************************************)
(* Capabilities and finalization.  The client keeps what both support and  *)
(* takes the server's desktop size if it supports resizing.  What is not a *)
(* Demand Active is read a second time from its start, and so decrypted a  *)
(* second time.                                                            *)
(***************************************************************************)
rdp_recv_demand_active(c, m) ==
    LET both == c.features \cap m.num.features
    IN  [c EXCEPT !.features = both, !.size = IF "resize" \in both THEN m.num.size ELSE @]

rdp_client_connect_finalize ==
    <<Plain("Synchronize"), Plain("Cooperate"), Plain("Request"), Plain("Input"),
      Plain("PersistentKeyList"), Plain("FontList")>>

rdp_client_connect_demand_active ==
    /\ Receives("CAPABILITY")
    /\ LET m == Head1
           once == rdp_decrypt_packet(cn, m)
           active == rdp_recv_demand_active(once, m)
           pdus == <<Message("ConfirmActive", active.features, 0)>> \o rdp_client_connect_finalize
       IN  IF m.pdu = "Ultimatum" THEN Take([cn EXCEPT !.disconnect = TRUE], <<>>) /\ UNCHANGED cnPast
           ELSE IF cn.disconnect THEN Take(cn, <<>>) /\ UNCHANGED cnPast
           ELSE IF m.pdu = "DemandActive" /\ Legible(cn, m)
           THEN /\ Take([Sent(active, Len(pdus)) EXCEPT !.state = "FINALIZATION"], rdp_send(active, pdus))
                /\ cnPast' = [cnPast EXCEPT !.seen = {}, !.activations = @ + 1]
           ELSE IF m.enc = 0 THEN rdp_recv_out_of_sequence_pdu(cn, m)
           ELSE /\ cnPast' = [cnPast EXCEPT !.twice = TRUE]
                /\ LET again == rdp_decrypt_packet(once, m)
                   IN  Take(again, <<>>) \/ Take([again EXCEPT !.state = "FAILED"], <<>>)

\* rdp_recv_tpkt_pdu: the client in `after` is what the handler leaves behind.
rdp_recv_tpkt_pdu(after(_)) ==
    LET m == Head1
        c == rdp_decrypt_packet(cn, m)
    IN  IF m.pdu = "Ultimatum" THEN Take([cn EXCEPT !.disconnect = TRUE, !.state = "FAILED"], <<>>) /\ UNCHANGED cnPast
        ELSE IF ~Legible(cn, m) THEN Garbled(after(c))
        ELSE CASE m.pdu \in DataPdus -> Take(after(rdp_recv_data_pdu(c, m)), <<>>) /\ Seen(m)
               [] m.pdu = "DeactivateAll" -> Take(after([c EXCEPT !.state = "CAPABILITY"]), <<>>) /\ UNCHANGED cnPast
               [] m.pdu = "Redirect" -> rdp_client_redirect(c)
               [] OTHER -> Take(after(c), <<>>) /\ UNCHANGED cnPast

\* In FINALIZATION the state is set after the PDU, whatever the PDU made of it.
Finalized(c) == IF c.finalize_sc_pdus = FINALIZE_SC_COMPLETE THEN [c EXCEPT !.state = "ACTIVE"] ELSE c
Unchanged(c) == c

Finalization == Receives("FINALIZATION") /\ rdp_recv_tpkt_pdu(Finalized)
Active == Receives("ACTIVE") /\ rdp_recv_tpkt_pdu(Unchanged)

\* The read on a closed connection, which is what ends a client that waits.
Closed ==
    /\ cn.state \notin {"INITIAL", "FAILED"} /\ sv.state = "GONE" /\ toClient = <<>>
    /\ cn' = [cn EXCEPT !.state = "FAILED"]
    /\ UNCHANGED <<sv, toServer, toClient, cnPast>>

(***************************************************************************)
(* The server's handlers, and the external Peer that calls them in the     *)
(* order of the states.                                                    *)
(***************************************************************************)
HeadS == Head(toServer)
Accepts(state, pdu) == sv.state = state /\ toServer # <<>> /\ HeadS.pdu = pdu
Accept(s, answers) ==
    /\ sv' = s /\ toServer' = Tail(toServer) /\ toClient' = toClient \o answers
    /\ UNCHANGED <<cn, cnPast>>

rdp_server_accept_mcs_connect_initial ==
    /\ Accepts("NEGO", "ConnectInitial")
    /\ Accept([sv EXCEPT !.state = "MCS_CONNECT"],
              <<Message("ConnectResponse", IF sv.encryption THEN 1 ELSE 0, 0)>>)

rdp_server_accept_mcs_erect_domain_request ==
    /\ Accepts("MCS_CONNECT", "ErectDomain")
    /\ Accept([sv EXCEPT !.state = "MCS_ERECT_DOMAIN"], <<>>)

rdp_server_accept_mcs_attach_user_request ==
    /\ Accepts("MCS_ERECT_DOMAIN", "AttachUser")
    /\ Accept([sv EXCEPT !.state = "MCS_ATTACH_USER"], <<Plain("AttachUserConfirm")>>)

rdp_server_accept_mcs_channel_join_request(pdu, confirm) ==
    /\ Accepts("MCS_ATTACH_USER", pdu)
    /\ LET s == [sv EXCEPT !.mcs.user_channel_joined = @ \/ pdu = "JoinUser",
                           !.mcs.global_channel_joined = @ \/ pdu = "JoinGlobal",
                           !.joined = IF pdu = "Join" THEN @ \union {HeadS.num} ELSE @]
           all == s.mcs.user_channel_joined /\ s.mcs.global_channel_joined /\ s.joined = Channels
       IN  Accept(IF all THEN [s EXCEPT !.state = "MCS_CHANNEL_JOIN"] ELSE s,
                  <<Message(confirm, HeadS.num, 0)>>)

rdp_server_establish_keys == [sv EXCEPT !.do_crypt = TRUE, !.sent = 0, !.read = 0]

rdp_server_accept_client_keys ==
    /\ sv.encryption
    /\ Accepts("MCS_CHANNEL_JOIN", "SecurityExchange")
    /\ Accept([rdp_server_establish_keys EXCEPT !.state = "ESTABLISH_KEYS"], <<>>)

\* Without RDP encryption there is no PDU to wait for before the client's info.
rdp_server_accept_client_info ==
    /\ \/ Accepts("ESTABLISH_KEYS", "ClientInfo")
       \/ ~sv.encryption /\ Accepts("MCS_CHANNEL_JOIN", "ClientInfo")
    /\ Legible(sv, HeadS)
    /\ Accept([rdp_decrypt_packet(sv, HeadS) EXCEPT !.state = "LICENSE"], <<Plain("ValidClient")>>)

rdp_server_accept_confirm_active ==
    /\ Accepts("LICENSE", "ConfirmActive")
    /\ Legible(sv, HeadS)
    /\ LET pdus == <<Plain("Synchronize"), Plain("Cooperate")>>
           s == [rdp_decrypt_packet(sv, HeadS) EXCEPT !.state = "ACTIVE", !.features = @ \cap HeadS.num]
       IN  Accept(Sent(s, 2), rdp_send(s, pdus))

rdp_server_accept_client_control_pdu ==
    /\ Accepts("ACTIVE", "Request")
    /\ Legible(sv, HeadS)
    /\ LET s == rdp_decrypt_packet(sv, HeadS) IN Accept(Sent(s, 1), rdp_send(s, <<Plain("Granted")>>))

rdp_server_accept_client_font_list_pdu ==
    /\ Accepts("ACTIVE", "FontList")
    /\ Legible(sv, HeadS)
    /\ LET s == rdp_decrypt_packet(sv, HeadS) IN Accept(Sent(s, 1), rdp_send(s, <<Plain("FontMap")>>))

\* Any other PDU of an active client is passed over, and so is what a client sends
\* before it hears of a reactivation; anything else ends the connection.
PeerPasses ==
    /\ toServer # <<>> /\ Legible(sv, HeadS)
    /\ \/ sv.state = "LICENSE" /\ HeadS.pdu # "ConfirmActive"
       \/ sv.state = "ACTIVE" /\ HeadS.pdu \notin {"Request", "FontList"}
    /\ Accept(rdp_decrypt_packet(sv, HeadS), <<>>)

PeerRefuses ==
    /\ toServer # <<>> /\ sv.state # "GONE"
    /\ \/ ~Legible(sv, HeadS)
       \/ /\ sv.state \notin {"LICENSE", "ACTIVE"}
          /\ HeadS.pdu \notin (CASE sv.state = "NEGO" -> {"ConnectInitial"}
                                 [] sv.state = "MCS_CONNECT" -> {"ErectDomain"}
                                 [] sv.state = "MCS_ERECT_DOMAIN" -> {"AttachUser"}
                                 [] sv.state = "MCS_ATTACH_USER" -> {"JoinUser", "JoinGlobal", "Join"}
                                 [] sv.state = "MCS_CHANNEL_JOIN" -> {IF sv.encryption THEN "SecurityExchange" ELSE "ClientInfo"}
                                 [] OTHER -> {"ClientInfo"})
    /\ Accept([sv EXCEPT !.state = "GONE"], <<>>)

\* What the server writes of its own accord.
Emit(s, pdus) ==
    /\ toClient' = toClient \o rdp_send(s, pdus)
    /\ sv' = Sent(s, Len(pdus))
    /\ UNCHANGED <<cn, toServer>>

Demand(s) == Message("DemandActive", [features |-> s.features, size |-> s.size], 0)

\* The first Demand Active is sent by the external peer once the licence is settled.
rdp_send_demand_active ==
    /\ sv.state = "LICENSE" /\ ~sv.licensing /\ ~sv.asked
    /\ Emit([sv EXCEPT !.asked = TRUE], <<Demand(sv)>>)
    /\ UNCHANGED cnPast

\* rdp_server_reactivate, which update_send_desktop_resize calls for the new size: the
\* program around the library may ask again before the client has answered.
rdp_server_reactivate ==
    /\ sv.state = "ACTIVE" \/ (sv.state = "LICENSE" /\ sv.size > 1)
    /\ sv.size <= MaxResizes
    /\ LET s == [sv EXCEPT !.size = @ + 1, !.state = "LICENSE"]
       IN  Emit(s, <<Plain("DeactivateAll"), Demand(s)>>)
    /\ UNCHANGED cnPast

\* The licence dialogue of another server: it ends with a licence or with an abort.
PeerLicenses ==
    /\ \/ Accepts("ESTABLISH_KEYS", "ClientInfo")
       \/ ~sv.encryption /\ Accepts("MCS_CHANNEL_JOIN", "ClientInfo")
    /\ Legible(sv, HeadS)
    /\ Accept([rdp_decrypt_packet(sv, HeadS) EXCEPT !.state = "LICENSE", !.licensing = TRUE],
              <<Plain("LicenseRequest")>>)

PeerLicense(pdu) ==
    /\ sv.state = "LICENSE" /\ sv.licensing
    /\ pdu \in {"NewLicense", "ValidClient", "Abort"} \/ cnPast.extras < MaxExtras
    /\ cnPast' = [cnPast EXCEPT !.extras = IF pdu \in {"NewLicense", "ValidClient", "Abort"} THEN @ ELSE @ + 1]
    /\ sv' = [sv EXCEPT !.licensing = pdu \notin {"NewLicense", "ValidClient", "Abort"}]
    /\ toClient' = Append(toClient, Plain(pdu))
    /\ UNCHANGED <<cn, toServer>>

\* A data PDU out of the sequence, the end of the session, a redirection.
PeerSends(pdu) ==
    /\ sv.state \in {"LICENSE", "ACTIVE"} /\ ~sv.licensing /\ cnPast.extras < MaxExtras
    /\ pdu = "Redirect" => cnPast.hops < MaxHops
    /\ cnPast' = [cnPast EXCEPT !.extras = @ + 1]
    /\ IF pdu = "Ultimatum"
       THEN /\ sv' = [sv EXCEPT !.state = "GONE"] /\ toClient' = Append(toClient, Plain(pdu))
            /\ UNCHANGED <<cn, toServer>>
       ELSE Emit(sv, <<Plain(pdu)>>)

(***************************************************************************)
(* The specification.                                                      *)
(***************************************************************************)
rdp_recv_callback ==
    \/ rdp_client_connect_mcs_connect_response
    \/ rdp_client_connect_mcs_attach_user_confirm
    \/ rdp_client_connect_mcs_channel_join_confirm
    \/ rdp_client_connect_license
    \/ rdp_client_connect_demand_active
    \/ Finalization
    \/ Active

Serves ==
    \/ rdp_server_accept_mcs_connect_initial
    \/ rdp_server_accept_mcs_erect_domain_request
    \/ rdp_server_accept_mcs_attach_user_request
    \/ rdp_server_accept_mcs_channel_join_request("JoinUser", "ConfirmUser")
    \/ rdp_server_accept_mcs_channel_join_request("JoinGlobal", "ConfirmGlobal")
    \/ rdp_server_accept_mcs_channel_join_request("Join", "Confirm")
    \/ rdp_server_accept_client_keys
    \/ rdp_server_accept_client_info
    \/ PeerLicenses
    \/ rdp_server_accept_confirm_active
    \/ rdp_server_accept_client_control_pdu
    \/ rdp_server_accept_client_font_list_pdu
    \/ PeerPasses
    \/ PeerRefuses

CnNext ==
    \/ Connect
    \/ rdp_recv_callback
    \/ Closed
    \/ Serves
    \/ rdp_send_demand_active
    \/ rdp_server_reactivate
    \/ \E pdu \in LicensePdus : PeerLicense(pdu)
    \/ \E pdu \in {"Update", "Redirect", "Ultimatum"} : PeerSends(pdu)

CnSpec == CnInit /\ [][CnNext]_cnVars

(***************************************************************************)
(* The library polls its socket until the session is active and after      *)
(* that for as long as it lasts, at both ends; the peer sends its first    *)
(* Demand Active and ends a licence dialogue.                              *)
(***************************************************************************)
CnFairness ==
    /\ WF_cnVars(rdp_recv_callback) /\ WF_cnVars(Closed)
    /\ WF_cnVars(Serves) /\ WF_cnVars(rdp_send_demand_active)
    /\ WF_cnVars(PeerLicense("NewLicense"))

CnFairSpec == CnSpec /\ CnFairness

(***************************************************************************)
(* Properties.                                                             *)
(***************************************************************************)
States == {"INITIAL", "NEGO", "MCS_CONNECT", "MCS_ERECT_DOMAIN", "MCS_ATTACH_USER", "MCS_CHANNEL_JOIN",
           "ESTABLISH_KEYS", "LICENSE", "CAPABILITY", "FINALIZATION", "ACTIVE", "FAILED", "GONE"}

\* The two ends are in states of the connection sequence (rdp->state), with the
\* channels and finalization PDUs the code counts.
CnTypeOK ==
    /\ cn.state \in States /\ sv.state \in States
    /\ cn.joined \subseteq Channels /\ sv.joined \subseteq Channels
    /\ cn.finalize_sc_pdus \subseteq FINALIZE_SC_COMPLETE
    /\ cn.license \in {"AWAIT", "ABORTED", "COMPLETED"}
    /\ cn.features \subseteq Features /\ sv.features \subseteq Features

Past(state) == state \in {"LICENSE", "CAPABILITY", "FINALIZATION", "ACTIVE"}

\* Once the client has sent its info, the server has joined every static channel
\* (rdp_client_connect_mcs_channel_join_confirm asks for them one by one).  After a
\* redirection the joined flags of the connection before are still set, and the client
\* stops after the first one.
ChannelsJoined ==
    Past(cn.state) => sv.joined = IF cnPast.hops = 0 THEN Channels ELSE Channels \cap {1}

\* Client and server encrypt or neither does (rdp_client_establish_keys,
\* rdp_server_establish_keys), unless the client comes from a server with RDP encryption:
\* do_crypt is never cleared.
CryptAgreed ==
    Past(cn.state) /\ sv.state # "GONE" =>
        /\ cn.encryption = sv.encryption
        /\ cn.encryption => cn.do_crypt
        /\ cn.do_crypt => cn.encryption \/ cnPast.hops > 0

\* The key stream at the client is where the server's was when it encrypted what is next
\* to arrive, as long as no PDU was decrypted twice (rdp_client_connect_demand_active).
KeyStreamInStep ==
    /\ cn.state \in {"CAPABILITY", "FINALIZATION", "ACTIVE"} /\ toClient # <<>> /\ ~cnPast.twice
    => Head1.enc \in {0, cn.read + 1}

\* The client is active only when the server's four finalization PDUs have come since
\* its Demand Active; at a reactivation the PDUs of the first activation still count
\* (finalize_sc_pdus is cleared in rdp_client_connect only).
ActiveIsFinal ==
    cn.state = "ACTIVE" /\ cnPast.activations = 1 => cnPast.seen = FINALIZE_SC_COMPLETE

\* What the two ends may use of the capabilities is the same on both sides once no
\* Demand Active and no Confirm Active is on its way, and is never more than either had.
FeaturesAgreed ==
    /\ sv.state = "ACTIVE" /\ cn.state \in {"FINALIZATION", "ACTIVE"}
    /\ \A i \in 1 .. Len(toClient) : toClient[i].pdu # "DemandActive"
    => cn.features = sv.features

\* Steps the client may not take: a session never takes up a feature it gave up.
FeaturesOnlyShrink == [][cn'.features \subseteq cn.features]_cnVars

\* A client that connects becomes active or fails: rdp_client_connect does not wait for
\* ever on a server that follows the sequence, unless a PDU was decrypted twice.
ConnectEnds == cn.state = "NEGO" ~> (cn.state \in {"ACTIVE", "FAILED"} \/ cnPast.twice)
=============================================================================
