-------------------------------- MODULE Dvc --------------------------------
(***************************************************************************)
(* The dynamic virtual channels of NeutrinoRDP: the static channel         *)
(* "drdynvc" (channels/drdynvc/drdynvc_main.c) and its channel manager     *)
(* (dvcman.c).  The server creates and closes channels and cuts messages   *)
(* into fragments, those of different channels interleaved; the channel's  *)
(* thread puts them together again.  In the other direction any thread of  *)
(* a plugin may call Write, which cuts a message without holding a lock.   *)
(* A byte is a pair of a message and a position in it.                     *)
(***************************************************************************)
EXTENDS Integers, Sequences

CONSTANTS
    Chunk,       \* CHANNEL_CHUNK_LENGTH, 1600 in the code
    Ids,         \* channel ids the server uses
    Listening,   \* names some plugin created a listener for
    ChannelNames,\* names the server asks for
    Writer,      \* threads of plugins
    SentSizes,   \* sizes of the server's messages
    Sizes,       \* sizes of the messages written
    MaxCreates,  \* bound: channels created
    MaxSent,     \* bound: messages the server starts
    MaxWritten   \* bound: messages the plugins write

ASSUME DvAssumption ==
    /\ Chunk \in Nat /\ Chunk > 9
    /\ Ids \subseteq 0 .. 255 /\ Listening \subseteq ChannelNames
    /\ SentSizes \subseteq Nat \ {0} /\ Sizes \subseteq Nat \ {0}
    /\ MaxCreates \in Nat /\ MaxSent \in Nat /\ MaxWritten \in Nat

Channel == 1 .. MaxCreates     \* DVCMAN_CHANNEL, in the order created
NoChannel == 0
NoData == [size |-> -1, got |-> <<>>]
Idle == [chan |-> NoChannel, msg |-> 0, pdus |-> <<>>]

VARIABLES
    dvUp,      \* the static channel: up, closed, over
    dvMade,    \* channels made so far
    dvList,    \* dvcman->channels
    dvId,      \* dvId[c]: channel_id
    dvData,    \* dvData[c]: dvc_data
    dvIn,      \* history: what OnDataReceived of c was given
    dvEnds,    \* history: how often OnClose of c was called
    dvServer,  \* the server's side of each id: channel and open message
    dvSent,    \* history: messages the server finished on c
    dvStarted, \* messages the server started
    dvWrite,   \* dvWrite[w]: what thread w still has to send
    dvWritten, \* messages plugins wrote
    dvWrote,   \* history: messages completely written on c, in that order
    dvMixed,   \* history: channels on which two writes overlapped
    dvPeer,    \* the server's reassembly of what c writes
    dvRead     \* history: messages the server read from c

dvClientVars == <<dvMade, dvList, dvId, dvData, dvIn, dvEnds>>
dvServerVars == <<dvServer, dvSent, dvStarted>>
dvWriteVars  == <<dvWrite, dvWritten, dvWrote, dvMixed, dvPeer, dvRead>>
dvVars == <<dvUp, dvClientVars, dvServerVars, dvWriteVars>>

Silent == [chan |-> NoChannel, msg |-> 0, size |-> 0, sent |-> 0]

DvInit ==
    /\ dvUp = "up" /\ dvMade = 0 /\ dvList = <<>>
    /\ dvId = [c \in Channel |-> 0]
    /\ dvData = [c \in Channel |-> NoData]
    /\ dvIn = [c \in Channel |-> <<>>] /\ dvEnds = [c \in Channel |-> 0]
    /\ dvServer = [i \in Ids |-> Silent]
    /\ dvSent = [c \in Channel |-> <<>>] /\ dvStarted = 0
    /\ dvWrite = [w \in Writer |-> Idle] /\ dvWritten = 0
    /\ dvWrote = [c \in Channel |-> <<>>] /\ dvMixed = {}
    /\ dvPeer = [c \in Channel |-> NoData] /\ dvRead = [c \in Channel |-> <<>>]

(* Bytes from+1 to from+n of message m.                                    *)
Piece(m, from, n) == [k \in 1 .. n |-> <<m, from + k>>]

-----------------------------------------------------------------------------
(* A channel is created for the first listener of that name, if the        *)
(* plugin accepts it; the answer tells the server which.                   *)
dvcman_find_channel_by_id(id) ==
    LET hits == {k \in DOMAIN dvList : dvId[dvList[k]] = id}
    IN  IF hits = {} THEN NoChannel ELSE dvList[CHOOSE k \in hits : \A j \in hits : k <= j]

dvcman_create_channel(id, name, accepted) ==
    LET c == dvMade + 1 IN
    IF name \in Listening /\ accepted
    THEN /\ dvMade' = c
         /\ dvId' = [dvId EXCEPT ![c] = id]
         /\ dvList' = Append(dvList, c)
         /\ dvServer' = [dvServer EXCEPT ![id] = [Silent EXCEPT !.chan = c]]
    ELSE UNCHANGED <<dvMade, dvId, dvList, dvServer>>

drdynvc_process_create_request(id, name, accepted) ==
    /\ dvUp = "up" /\ dvMade < MaxCreates
    /\ dvServer[id].chan = NoChannel
    /\ dvcman_create_channel(id, name, accepted)
    /\ UNCHANGED <<dvUp, dvData, dvIn, dvEnds, dvSent, dvStarted, dvWriteVars>>

-----------------------------------------------------------------------------
(* Data.  A first fragment announces the length of the message and drops   *)
(* what is left of an earlier one; without one, data is a message.         *)
dvcman_receive_channel_data_first(size) == [size |-> size, got |-> <<>>]

(* Mutant: what came of a message that runs over is kept.                  *)
dvcman_receive_channel_data_kept(data, bytes) ==
    IF data = NoData
    THEN [data |-> NoData, out |-> <<bytes>>]
    ELSE IF Len(data.got) + Len(bytes) > data.size
    THEN [data |-> data, out |-> <<>>]
    ELSE IF Len(data.got) + Len(bytes) = data.size
    THEN [data |-> NoData, out |-> <<data.got \o bytes>>]
    ELSE [data |-> [size |-> data.size, got |-> data.got \o bytes], out |-> <<>>]

dvcman_receive_channel_data(data, bytes) ==
    IF data = NoData
    THEN [data |-> NoData, out |-> <<bytes>>]
    ELSE IF Len(data.got) + Len(bytes) > data.size
    THEN [data |-> NoData, out |-> <<>>]
    ELSE IF Len(data.got) + Len(bytes) = data.size
    THEN [data |-> NoData, out |-> <<data.got \o bytes>>]
    ELSE [data |-> [size |-> data.size, got |-> data.got \o bytes], out |-> <<>>]

(* What both processing functions do with the channel's part of the state. *)
Received(c, data, bytes) ==
    LET r == dvcman_receive_channel_data(data, bytes)
    IN  /\ dvData' = [dvData EXCEPT ![c] = r.data]
        /\ dvIn' = [dvIn EXCEPT ![c] = @ \o r.out]

drdynvc_process_data_first(id, size, bytes) ==
    LET c == dvcman_find_channel_by_id(id)
    IN  IF c = NoChannel THEN UNCHANGED <<dvData, dvIn>>
        ELSE Received(c, dvcman_receive_channel_data_first(size), bytes)

drdynvc_process_data(id, bytes) ==
    LET c == dvcman_find_channel_by_id(id)
    IN  IF c = NoChannel THEN UNCHANGED <<dvData, dvIn>>
        ELSE Received(c, dvData[c], bytes)

(* The server starts a message: whole, or with a first fragment of n       *)
(* bytes.  It may do so with an earlier one unfinished, which is dropped.  *)
Finished(id, m, size) ==
    dvSent' = [dvSent EXCEPT ![dvServer[id].chan] = Append(@, Piece(m, 0, size))]

ServerStarts(id, size, n) ==
    LET m == dvStarted + 1 IN
    /\ dvUp = "up" /\ dvServer[id].chan # NoChannel /\ m <= MaxSent
    /\ dvStarted' = m
    /\ \/ /\ n = size /\ dvServer[id].msg = 0
          /\ drdynvc_process_data(id, Piece(m, 0, size))
          /\ Finished(id, m, size) /\ UNCHANGED dvServer
       \/ /\ n < size
          /\ drdynvc_process_data_first(id, size, Piece(m, 0, n))
          /\ dvServer' = [dvServer EXCEPT ![id] =
                [chan |-> @.chan, msg |-> m, size |-> size, sent |-> n]]
          /\ UNCHANGED dvSent
    /\ UNCHANGED <<dvUp, dvMade, dvList, dvId, dvEnds, dvWriteVars>>

(* The server goes on with n more bytes.  One more than announced is an    *)
(* error, for which the client drops the whole message.                    *)
ServerGoesOn(id, n) ==
    LET s == dvServer[id] IN
    /\ dvUp = "up" /\ s.msg # 0 /\ n \in 1 .. s.size - s.sent + 1
    /\ drdynvc_process_data(id, Piece(s.msg, s.sent, n))
    /\ IF s.sent + n < s.size
       THEN /\ dvServer' = [dvServer EXCEPT ![id].sent = @ + n]
            /\ UNCHANGED dvSent
       ELSE /\ dvServer' = [dvServer EXCEPT ![id] = [Silent EXCEPT !.chan = s.chan]]
            /\ IF s.sent + n = s.size THEN Finished(id, s.msg, s.size)
               ELSE UNCHANGED dvSent
    /\ UNCHANGED <<dvUp, dvMade, dvList, dvId, dvEnds, dvStarted, dvWriteVars>>

-----------------------------------------------------------------------------
(* The end of a channel.  OnClose of audin and tsmf waits for the threads  *)
(* they let write on it.                                                   *)
Quiet(c) == \A w \in Writer : dvWrite[w].chan # c

dvcman_channel_free(c) ==
    /\ dvEnds' = [dvEnds EXCEPT ![c] = @ + 1]
    /\ dvData' = [dvData EXCEPT ![c] = NoData]

dvcman_close_channel_iface(c) ==
    /\ \E k \in DOMAIN dvList :
          /\ dvList[k] = c
          /\ dvList' = SubSeq(dvList, 1, k - 1) \o SubSeq(dvList, k + 1, Len(dvList))
    /\ dvcman_channel_free(c)

drdynvc_process_close_request(id) ==
    LET c == dvcman_find_channel_by_id(id) IN
    /\ dvUp = "up" /\ dvServer[id].chan # NoChannel
    /\ c # NoChannel => Quiet(c) /\ dvcman_close_channel_iface(c)
    /\ c = NoChannel => UNCHANGED <<dvList, dvEnds, dvData>>
    /\ dvServer' = [dvServer EXCEPT ![id] = Silent]
    /\ UNCHANGED <<dvUp, dvMade, dvId, dvIn, dvSent, dvStarted, dvWriteVars>>

(* The static channel ends: sending fails from here on, then the plugin    *)
(* is terminated and frees the channel manager.                            *)
Disconnect ==
    /\ dvUp = "up" /\ dvUp' = "closed"
    /\ UNCHANGED <<dvClientVars, dvServerVars, dvWriteVars>>

(* c is in the manager's list.  No channel is in it twice (ClosedOnce), so *)
(* dvcman_free, which closes each one it finds there, closes it once.      *)
Listed(c) == \E k \in DOMAIN dvList : dvList[k] = c

dvcman_free ==
    /\ dvList' = <<>>
    /\ dvEnds' = [c \in Channel |-> dvEnds[c] + IF Listed(c) THEN 1 ELSE 0]
    /\ dvData' = [c \in Channel |-> NoData]

drdynvc_process_terminate ==
    /\ dvUp = "closed" /\ \A w \in Writer : dvWrite[w] = Idle
    /\ dvUp' = "over"
    /\ dvcman_free
    /\ UNCHANGED <<dvMade, dvId, dvIn, dvServerVars, dvWriteVars>>

-----------------------------------------------------------------------------
(* Writing.  The PDUs a message of the given size becomes: where its bytes *)
(* start, how many they are, and how long the PDU is.  The one-PDU case is *)
(* decided before the header is known (pos is still 0 on line 89).         *)
drdynvc_write_variable_uint(val) ==
    IF val <= 255 THEN 1 ELSE IF val <= 65535 THEN 2 ELSE 4

drdynvc_write_data(id, size) ==
    LET head  == 1 + drdynvc_write_variable_uint(id)
        first == Chunk - head - drdynvc_write_variable_uint(size)
        more  == Chunk - head
        rest  == size - first
    IN  IF size <= Chunk
        THEN <<[first |-> FALSE, from |-> 0, n |-> size, size |-> size, pdu |-> head + size]>>
        ELSE <<[first |-> TRUE, from |-> 0, n |-> first, size |-> size, pdu |-> Chunk]>> \o
             [k \in 1 .. (rest + more - 1) \div more |->
                LET left == rest - (k - 1) * more
                    n == IF left < more THEN left ELSE more
                IN  [first |-> FALSE, from |-> first + (k - 1) * more, n |-> n,
                     size |-> size, pdu |-> head + n]]

dvcman_write_channel(w, c, size) ==
    /\ dvUp = "up" /\ dvWrite[w] = Idle /\ dvWritten < MaxWritten
    /\ Listed(c)
    /\ dvWritten' = dvWritten + 1
    /\ dvWrite' = [dvWrite EXCEPT ![w] =
          [chan |-> c, msg |-> dvWritten + 1, pdus |-> drdynvc_write_data(dvId[c], size)]]
    /\ dvMixed' = IF Quiet(c) THEN dvMixed ELSE dvMixed \cup {c}
    /\ UNCHANGED <<dvUp, dvClientVars, dvServerVars, dvWrote, dvPeer, dvRead>>

(* One svc_plugin_send; the server reads the PDU as dvcman would.          *)
SendPdu(w) ==
    LET c == dvWrite[w].chan
        p == Head(dvWrite[w].pdus)
        bytes == Piece(dvWrite[w].msg, p.from, p.n)
        r == dvcman_receive_channel_data(
                IF p.first THEN dvcman_receive_channel_data_first(p.size) ELSE dvPeer[c], bytes)
        last == Len(dvWrite[w].pdus) = 1
    IN  /\ dvUp = "up" /\ c # NoChannel
        /\ dvPeer' = [dvPeer EXCEPT ![c] = r.data]
        /\ dvRead' = [dvRead EXCEPT ![c] = @ \o r.out]
        /\ dvWrote' = IF last THEN [dvWrote EXCEPT ![c] = Append(@, Piece(dvWrite[w].msg, 0, p.size))]
                      ELSE dvWrote
        /\ dvWrite' = [dvWrite EXCEPT ![w] = IF last THEN Idle
                        ELSE [chan |-> c, msg |-> @.msg, pdus |-> Tail(@.pdus)]]
        /\ UNCHANGED <<dvUp, dvClientVars, dvServerVars, dvWritten, dvMixed>>

(* svc_plugin_send fails: the rest of the message is not sent.             *)
SendFails(w) ==
    /\ dvUp # "up" /\ dvWrite[w] # Idle
    /\ dvWrite' = [dvWrite EXCEPT ![w] = Idle]
    /\ UNCHANGED <<dvUp, dvClientVars, dvServerVars, dvWritten, dvWrote,
                   dvMixed, dvPeer, dvRead>>

DvNext ==
    \/ \E id \in Ids, name \in ChannelNames, accepted \in BOOLEAN :
          drdynvc_process_create_request(id, name, accepted)
    \/ \E id \in Ids, size \in SentSizes : \E n \in 1 .. size : ServerStarts(id, size, n)
    \/ \E id \in Ids : \E n \in 1 .. dvServer[id].size + 1 : ServerGoesOn(id, n)
    \/ \E id \in Ids : drdynvc_process_close_request(id)
    \/ \E w \in Writer, c \in Channel, size \in Sizes : dvcman_write_channel(w, c, size)
    \/ \E w \in Writer : SendPdu(w) \/ SendFails(w)
    \/ Disconnect
    \/ drdynvc_process_terminate

DvSpec == DvInit /\ [][DvNext]_dvVars

-----------------------------------------------------------------------------
DvTypeOK ==
    /\ dvUp \in {"up", "closed", "over"} /\ dvMade \in 0 .. MaxCreates
    /\ dvList \in Seq(Channel)
    /\ \A i \in Ids : dvServer[i].chan \in {NoChannel} \cup Channel
    /\ \A w \in Writer : dvWrite[w].chan \in {NoChannel} \cup Channel
    /\ dvMixed \subseteq Channel

(* However the fragments of the channels are interleaved, and whatever     *)
(* messages were left unfinished or ran over, OnDataReceived of a channel  *)
(* is given exactly the messages the server finished on it, in order.      *)
DeliveredAsSent == \A c \in Channel : dvIn[c] = dvSent[c]

(* A channel is in the list until OnClose was called for it, and that      *)
(* happens once, by a close request or when the manager is freed: so no    *)
(* plugin is left waiting and none is called back for a freed channel.     *)
ClosedOnce ==
    \A c \in Channel :
        /\ Listed(c) => c <= dvMade /\ dvEnds[c] = 0
        /\ ~Listed(c) => dvEnds[c] = IF c <= dvMade THEN 1 ELSE 0
        /\ \A j, k \in DOMAIN dvList : dvList[j] = c /\ dvList[k] = c => j = k

(* No piece of an unfinished message survives its channel, so a new one    *)
(* with the same id starts clean.                                          *)
NothingLeftOver ==
    \A c \in Channel : dvData[c] # NoData =>
        \E id \in Ids : dvServer[id].chan = c /\ dvServer[id].msg # 0

(* What plugins write on a channel reaches the server as it was written.   *)
(* Write holds no lock between its PDUs, so this is lost on a channel on   *)
(* which two threads wrote at the same time, and only there.               *)
WrittenIsRead ==
    \A c \in Channel \ dvMixed : dvRead[c] = dvWrote[c]

(* Dynamic channels: messages are delivered as they were sent, a channel is*)
(* closed once, nothing of a message or channel is left for the next, and  *)
(* what one writer writes is read.                                         *)
ChannelsAreSafe ==
    /\ DvTypeOK /\ DeliveredAsSent /\ ClosedOnce
    /\ NothingLeftOver /\ WrittenIsRead
=============================================================================
