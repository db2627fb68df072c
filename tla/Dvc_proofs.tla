----------------------------- MODULE Dvc_proofs -----------------------------
(***************************************************************************)
(* Proofs about what the client reads on its dynamic channels: any number  *)
(* of channels, ids and messages, of any size.                             *)
(***************************************************************************)
EXTENDS Dvc, TLAPS

(* Dynamic channels.  Bytes, messages, and the state of a reassembly.      *)
Byte == Nat \X Nat
Message == Seq(Byte)
Data == [size : Int, got : Message]

DvClientTypes ==
    /\ dvUp \in {"up", "closed", "over"} /\ dvMade \in 0 .. MaxCreates
    /\ dvList \in Seq(Channel) /\ dvId \in [Channel -> 0 .. 255]
    /\ dvData \in [Channel -> Data] /\ dvEnds \in [Channel -> Nat]
    /\ dvIn \in [Channel -> Seq(Message)] /\ dvSent \in [Channel -> Seq(Message)]
    /\ dvServer \in [Ids -> [chan : {NoChannel} \cup Channel, msg : Nat, size : Nat, sent : Nat]]
    /\ dvStarted \in Nat

(* Until the manager is freed, the channels in its list are those the      *)
(* server holds, each under its own id.                                    *)
Served ==
    /\ dvUp = "over" => dvList = <<>>
    /\ dvUp # "over" =>
         /\ \A id \in Ids : dvServer[id].chan # NoChannel =>
               Listed(dvServer[id].chan) /\ dvId[dvServer[id].chan] = id
         /\ \A c \in Channel : Listed(c) => dvId[c] \in Ids /\ dvServer[dvId[c]].chan = c

(* What was gathered of a message is what the server has sent of it.       *)
Gathered ==
    /\ \A id \in Ids : LET s == dvServer[id] IN
          s.msg # 0 => s.chan # NoChannel /\ s.sent > 0 /\ s.sent < s.size
    /\ \A c \in Channel :
          /\ ~Listed(c) => dvData[c] = NoData
          /\ Listed(c) => LET s == dvServer[dvId[c]] IN
               dvData[c] = IF s.msg = 0 THEN NoData
                           ELSE [size |-> s.size, got |-> Piece(s.msg, 0, s.sent)]

DvReadIInv == DvClientTypes /\ Served /\ Gathered /\ DeliveredAsSent /\ ClosedOnce

(* The length and the items of two sequences that are joined.              *)
LEMMA Joined ==
    ASSUME NEW V, NEW s \in Seq(V), NEW t \in Seq(V)
    PROVE  /\ s \o t \in Seq(V) /\ Len(s \o t) = Len(s) + Len(t)
           /\ \A i \in 1 .. Len(s) + Len(t) :
                 (s \o t)[i] = IF i <= Len(s) THEN s[i] ELSE t[i - Len(s)]
OBVIOUS

(* Sequences with the same items are the same.                             *)
LEMMA ItemByItem ==
    ASSUME NEW V, NEW s \in Seq(V), NEW t \in Seq(V),
           Len(s) = Len(t), \A i \in 1 .. Len(s) : s[i] = t[i]
    PROVE  s = t
OBVIOUS

(* A piece holds bytes a + 1 to a + n of its message.                      *)
LEMMA PieceIs ==
    ASSUME NEW m \in Nat, NEW a \in Nat, NEW n \in Nat
    PROVE  /\ Piece(m, a, n) \in Message /\ Len(Piece(m, a, n)) = n
           /\ \A k \in 1 .. n : Piece(m, a, n)[k] = <<m, a + k>>
<1>1. \A k \in 1 .. n : <<m, a + k>> \in Byte
    BY DEF Byte
<1>. QED BY <1>1 DEF Piece, Message

(* A whole message is a message, and a list of one message.                *)
LEMMA WholePiece ==
    ASSUME NEW m \in Nat, NEW size \in Nat
    PROVE  Piece(m, 0, size) \in Message /\ <<Piece(m, 0, size)>> \in Seq(Message)
<1>1. Piece(m, 0, size) \in Message
    BY PieceIs
<1>. QED BY <1>1

(* The bytes before a piece and the piece join to the bytes up to its end. *)
LEMMA PiecesJoin ==
    ASSUME NEW m \in Nat, NEW i \in Nat, NEW j \in Nat
    PROVE  Piece(m, 0, i) \o Piece(m, i, j) = Piece(m, 0, i + j)
<1> DEFINE a == Piece(m, 0, i)
           b == Piece(m, i, j)
           c == Piece(m, 0, i + j)
<1>1. /\ a \in Message /\ Len(a) = i /\ \A k \in 1 .. i : a[k] = <<m, 0 + k>>
      /\ b \in Message /\ Len(b) = j /\ \A k \in 1 .. j : b[k] = <<m, i + k>>
      /\ c \in Message /\ Len(c) = i + j /\ \A k \in 1 .. i + j : c[k] = <<m, 0 + k>>
    BY PieceIs, i + j \in Nat, ZenonT(30)
<1> HIDE DEF a, b, c
<1>2. a \o b \in Message /\ Len(a \o b) = i + j
    BY <1>1, Joined DEF Message
<1>3. ASSUME NEW k \in 1 .. i + j PROVE (a \o b)[k] = c[k]
    <2>0. k \in Int /\ (k <= i \/ k > i)
        OBVIOUS
    <2>1. CASE k <= i
        <3>1. (a \o b)[k] = a[k] /\ k \in 1 .. i
            BY <1>1, <2>1, Joined DEF Message
        <3>2. a[k] = <<m, 0 + k>> /\ c[k] = <<m, 0 + k>>
            BY <1>1, <3>1
        <3>. QED BY <3>1, <3>2
    <2>2. CASE k > i
        <3>1. (a \o b)[k] = b[k - i] /\ k - i \in 1 .. j
            BY <1>1, <2>2, Joined DEF Message
        <3>2. b[k - i] = <<m, i + (k - i)>> /\ c[k] = <<m, 0 + k>>
            BY <1>1, <3>1
        <3>3. i + (k - i) = 0 + k
            BY <2>2
        <3>. QED BY <3>1, <3>2, <3>3
    <2>. QED BY <2>0, <2>1, <2>2
<1>4. a \o b = c
    BY <1>1, <1>2, <1>3, ItemByItem DEF Message
<1>. QED BY <1>4 DEF a, b, c

(* Joining to nothing.                                                     *)
LEMMA NothingJoins == ASSUME NEW V, NEW s \in Seq(V) PROVE <<>> \o s = s
OBVIOUS

(* Division rounds down.                                                   *)
LEMMA Division ==
    ASSUME NEW a \in Nat, NEW b \in Nat, b > 0
    PROVE  (a \div b) \in Nat /\ b * (a \div b) <= a /\ a < b * (a \div b) + b
OBVIOUS

(* Adding to a list of messages.                                           *)
LEMMA AddsMessage ==
    ASSUME NEW V, NEW s \in Seq(V), NEW x \in V
    PROVE  /\ s \o <<x>> = Append(s, x) /\ s \o <<>> = s
           /\ Append(s, x) \in Seq(V)
OBVIOUS

(* dvcman_receive_channel_data without a length announced: the piece is a  *)
(* message.                                                                *)
LEMMA ReceivedWhole ==
    ASSUME NEW b
    PROVE  dvcman_receive_channel_data(NoData, b) = [data |-> NoData, out |-> <<b>>]
BY DEF dvcman_receive_channel_data

(* The reassembly once k bytes of message m have come, size announced: the *)
(* message is gathered, complete, or one byte too long.                    *)
AfterBytes(m, k, size) ==
    IF k < size THEN [data |-> [size |-> size, got |-> Piece(m, 0, k)], out |-> <<>>]
    ELSE [data |-> NoData, out |-> IF k = size THEN <<Piece(m, 0, size)>> ELSE <<>>]

(* dvcman_receive_channel_data adds the piece that comes next, delivers the*)
(* message it completes, and drops one that is too long.                   *)
LEMMA ReceivedNext ==
    ASSUME NEW m \in Nat, NEW i \in Nat, NEW j \in Nat, NEW size \in Nat,
           NEW d, d = [size |-> size, got |-> Piece(m, 0, i)]
    PROVE  dvcman_receive_channel_data(d, Piece(m, i, j)) = AfterBytes(m, i + j, size)
<1>1. d # NoData /\ d.size = size /\ d.got = Piece(m, 0, i)
    <2>1. d.size = size /\ d.got = Piece(m, 0, i) /\ NoData.size = -1 /\ size # -1
        BY DEF NoData
    <2>. QED BY <2>1
<1>2. Len(d.got) = i /\ Len(Piece(m, i, j)) = j
    BY <1>1, PieceIs
<1>3. d.got \o Piece(m, i, j) = Piece(m, 0, i + j)
    BY <1>1, PiecesJoin
<1>4. [size |-> d.size, got |-> d.got \o Piece(m, i, j)] = [size |-> size, got |-> Piece(m, 0, i + j)]
    BY <1>1, <1>3
<1> DEFINE b == Piece(m, i, j)
           r == dvcman_receive_channel_data(d, b)
<1>5. /\ Len(d.got) + Len(b) < d.size => r = [data |-> [size |-> d.size, got |-> d.got \o b], out |-> <<>>]
      /\ Len(d.got) + Len(b) = d.size => r = [data |-> NoData, out |-> <<d.got \o b>>]
      /\ Len(d.got) + Len(b) > d.size => r = [data |-> NoData, out |-> <<>>]
    <2> HIDE DEF b
    <2>1. Len(d.got) + Len(b) \in Int /\ d.size \in Int
        BY <1>1, <1>2 DEF b
    <2>. QED BY <1>1, <2>1 DEF dvcman_receive_channel_data
<1>6. Len(d.got) + Len(b) = i + j
    BY <1>2
<1> HIDE DEF b, r
<1>7. /\ i + j < size => r = [data |-> [size |-> size, got |-> Piece(m, 0, i + j)], out |-> <<>>]
      /\ i + j = size => r = [data |-> NoData, out |-> <<Piece(m, 0, size)>>]
      /\ i + j > size => r = [data |-> NoData, out |-> <<>>]
    <2>1. [size |-> d.size, got |-> d.got \o b] = [size |-> size, got |-> Piece(m, 0, i + j)]
        BY <1>4 DEF b
    <2>2. d.got \o b = Piece(m, 0, i + j)
        BY <1>3 DEF b
    <2>. QED BY <1>1, <1>5, <1>6, <2>1, <2>2
<1>8. i + j < size \/ i + j = size \/ i + j > size
    OBVIOUS
<1>9. r = AfterBytes(m, i + j, size)
    BY <1>7, <1>8 DEF AfterBytes
<1>. QED BY <1>9 DEF r, b

(* dvcman_receive_channel_data_first, and then the first piece.            *)
LEMMA ReceivedFirst ==
    ASSUME NEW m \in Nat, NEW j \in Nat, NEW size \in Nat, j < size
    PROVE  dvcman_receive_channel_data(dvcman_receive_channel_data_first(size), Piece(m, 0, j)) =
             [data |-> [size |-> size, got |-> Piece(m, 0, j)], out |-> <<>>]
<1> DEFINE d == [size |-> size, got |-> <<>>]
<1>1. Piece(m, 0, 0) = <<>>
    BY DEF Piece
<1>2. d = [size |-> size, got |-> Piece(m, 0, 0)] /\ 0 + j = j
    BY <1>1
<1>2a. AfterBytes(m, j, size) = [data |-> [size |-> size, got |-> Piece(m, 0, j)], out |-> <<>>]
    BY DEF AfterBytes
<1>3. d = dvcman_receive_channel_data_first(size)
    BY DEF dvcman_receive_channel_data_first
<1> HIDE DEF d
<1>4. dvcman_receive_channel_data(d, Piece(m, 0, j)) = AfterBytes(m, 0 + j, size)
    BY <1>2, ReceivedNext
<1>. QED BY <1>2, <1>2a, <1>3, <1>4

(* The list keeps its other channels when one is taken off.                *)
LEMMA TakenOff ==
    ASSUME NEW V, NEW s \in Seq(V), NEW k \in DOMAIN s,
           \A i, j \in DOMAIN s : s[i] = s[j] => i = j
    PROVE  LET t == SubSeq(s, 1, k - 1) \o SubSeq(s, k + 1, Len(s))
           IN  /\ t \in Seq(V)
               /\ \A i, j \in DOMAIN t : t[i] = t[j] => i = j
               /\ \A x : (\E j \in DOMAIN t : t[j] = x) <=> x # s[k] /\ \E j \in DOMAIN s : s[j] = x
<1> DEFINE n == Len(s)
           a == SubSeq(s, 1, k - 1)
           b == SubSeq(s, k + 1, n)
           t == a \o b
           was(j) == IF j < k THEN j ELSE j + 1
<1>1. n \in Nat /\ k \in 1 .. n /\ DOMAIN s = 1 .. n
    OBVIOUS
<1>2. /\ a \in Seq(V) /\ Len(a) = k - 1 /\ \A j \in 1 .. k - 1 : a[j] = s[j]
      /\ b \in Seq(V) /\ Len(b) = n - k /\ \A j \in 1 .. n - k : b[j] = s[k + j]
    <2>1. a \in Seq(V) /\ Len(a) = k - 1 /\ \A j \in 1 .. k - 1 : a[j] = s[j]
        BY <1>1
    <2>2. b \in Seq(V) /\ Len(b) = n - k
        BY <1>1
    <2>3. ASSUME NEW j \in 1 .. n - k PROVE b[j] = s[k + j]
        <3>1. b[j] = s[(k + 1) + j - 1] /\ (k + 1) + j - 1 = k + j
            BY <1>1, SMTT(30)
        <3>. QED BY <3>1
    <2>. QED BY <2>1, <2>2, <2>3
<1> HIDE DEF a, b
<1>3. t \in Seq(V) /\ Len(t) = n - 1 /\ DOMAIN t = 1 .. n - 1
    <2>1. t \in Seq(V) /\ Len(t) = (k - 1) + (n - k)
        BY <1>2, Joined
    <2>2. (k - 1) + (n - k) = n - 1
        BY <1>1
    <2>. QED BY <2>1, <2>2
<1>4. ASSUME NEW j \in 1 .. n - 1 PROVE t[j] = s[was(j)] /\ was(j) \in DOMAIN s /\ was(j) # k
    <2>1. CASE j < k
        BY <1>1, <1>2, <2>1, Joined
    <2>2. CASE j >= k
        <3>1. t[j] = b[j - (k - 1)] /\ j - (k - 1) \in 1 .. n - k
            BY <1>1, <1>2, <2>2, Joined, SMTT(30)
        <3>2. b[j - (k - 1)] = s[k + (j - (k - 1))] /\ k + (j - (k - 1)) = j + 1
            <4>1. k + (j - (k - 1)) = j + 1
                BY <1>1
            <4>2. b[j - (k - 1)] = s[k + (j - (k - 1))]
                BY <1>2, <3>1
            <4>. QED BY <4>1, <4>2
        <3>. QED BY <1>1, <2>2, <3>1, <3>2, SMTT(30)
    <2>3. j < k \/ j >= k
        BY <1>1
    <2>. QED BY <2>1, <2>2, <2>3
<1> HIDE DEF t
<1>5. \A i, j \in DOMAIN t : t[i] = t[j] => i = j
    <2> SUFFICES ASSUME NEW i \in 1 .. n - 1, NEW j \in 1 .. n - 1, t[i] = t[j] PROVE i = j
        BY <1>3
    <2>1. was(i) = was(j)
        BY <1>4
    <2>. QED BY <1>1, <2>1
<1>6. ASSUME NEW x, NEW j \in DOMAIN t, t[j] = x PROVE x # s[k] /\ \E i \in DOMAIN s : s[i] = x
    BY <1>3, <1>4, <1>6
<1>7. ASSUME NEW j \in DOMAIN s, s[j] # s[k] PROVE \E i \in DOMAIN t : t[i] = s[j]
    <2>1. CASE j < k
        <3>1. j \in 1 .. n - 1 /\ was(j) = j
            BY <1>1, <2>1
        <3>. QED BY <1>3, <1>4, <3>1
    <2>2. CASE j > k
        <3>1. j - 1 \in 1 .. n - 1 /\ was(j - 1) = j
            BY <1>1, <2>2
        <3>. QED BY <1>3, <1>4, <3>1
    <2>3. j # k
        BY <1>7
    <2>. QED BY <1>1, <2>1, <2>2, <2>3
<1>. QED BY <1>3, <1>5, <1>6, <1>7 DEF t, a, b

USE DvAssumption

dvReadVars == <<dvUp, dvClientVars, dvServerVars>>

(* The list, and the invariant, are as before if nothing they are about    *)
(* is changed.                                                             *)
LEMMA SameRead == ASSUME DvReadIInv, UNCHANGED dvReadVars PROVE DvReadIInv'
<1>1. UNCHANGED <<dvUp, dvMade, dvList, dvId, dvData, dvIn, dvEnds, dvServer, dvSent, dvStarted>>
    BY DEF dvReadVars, dvClientVars, dvServerVars
<1>2. \A c : Listed(c)' <=> Listed(c)
    BY <1>1 DEF Listed
<1>3. DvClientTypes' /\ DeliveredAsSent'
    BY <1>1 DEF DvReadIInv, DvClientTypes, DeliveredAsSent
<1>4. Served'
    BY <1>1, <1>2 DEF DvReadIInv, Served
<1>5. Gathered'
    BY <1>1, <1>2 DEF DvReadIInv, Gathered
<1>6. ClosedOnce'
    BY <1>1, <1>2 DEF DvReadIInv, ClosedOnce
<1>. QED BY <1>3, <1>4, <1>5, <1>6 DEF DvReadIInv

(* No channel is open at the beginning, and nothing has been sent.         *)
LEMMA DvInitRead == DvInit => DvReadIInv
<1> SUFFICES ASSUME DvInit PROVE DvReadIInv
    OBVIOUS
<1> USE DEF DvInit
<1>1. \A c : ~Listed(c)
    BY DEF Listed
<1>2. NoData \in Data /\ Silent \in [chan : {NoChannel} \cup Channel, msg : Nat, size : Nat, sent : Nat]
    BY DEF NoData, Data, Message, Silent, NoChannel
<1>3. DvClientTypes
    BY <1>2 DEF DvClientTypes
<1>4. Served
    BY <1>1 DEF Served, Silent
<1>5. Gathered
    BY <1>1 DEF Gathered, Silent
<1>6. DeliveredAsSent /\ ClosedOnce
    BY <1>1 DEF DeliveredAsSent, ClosedOnce, Channel
<1>. QED BY <1>3, <1>4, <1>5, <1>6 DEF DvReadIInv

(* A channel the server holds is found under its id.                       *)
LEMMA FindsIt ==
    ASSUME DvReadIInv, dvUp # "over", NEW id \in Ids, dvServer[id].chan # NoChannel
    PROVE  /\ dvcman_find_channel_by_id(id) = dvServer[id].chan
           /\ dvServer[id].chan \in Channel /\ Listed(dvServer[id].chan) /\ dvId[dvServer[id].chan] = id
<1> DEFINE c == dvServer[id].chan
           hits == {k \in DOMAIN dvList : dvId[dvList[k]] = id}
<1>1. c \in Channel /\ Listed(c) /\ dvId[c] = id
    BY DEF DvReadIInv, DvClientTypes, Served
<1>2. PICK k \in DOMAIN dvList : dvList[k] = c
    BY <1>1 DEF Listed
<1>3. ASSUME NEW j \in hits PROVE j = k
    <2>1. dvList[j] \in Channel /\ Listed(dvList[j]) /\ dvId[dvList[j]] = id
        BY DEF DvReadIInv, DvClientTypes, Listed
    <2>2. dvList[j] = c
        BY <2>1 DEF DvReadIInv, Served
    <2>. QED BY <1>1, <1>2, <2>2 DEF DvReadIInv, ClosedOnce
<1>4. k \in hits /\ k <= k
    BY <1>1, <1>2 DEF DvReadIInv, DvClientTypes
<1> DEFINE m == CHOOSE i \in hits : \A j \in hits : i <= j
<1>5. m = k
    <2> HIDE DEF hits
    <2>1. \A j \in hits : k <= j
        BY <1>3, <1>4
    <2>2. m \in hits
        BY <1>4, <2>1
    <2>. QED BY <1>3, <2>2
<1>. QED BY <1>1, <1>2, <1>4, <1>5 DEF dvcman_find_channel_by_id

(* A new channel is put at the end of the list, with no data.              *)
LEMMA CreateRead ==
    ASSUME DvReadIInv, NEW id \in Ids, NEW name \in ChannelNames, NEW accepted \in BOOLEAN,
           drdynvc_process_create_request(id, name, accepted)
    PROVE  DvReadIInv'
<1>u. UNCHANGED <<dvUp, dvData, dvIn, dvEnds, dvSent, dvStarted>> /\ dvUp = "up"
      /\ dvMade < MaxCreates /\ dvServer[id].chan = NoChannel
    BY DEF drdynvc_process_create_request
<1>1. CASE name \in Listening /\ accepted
    <2> DEFINE c == dvMade + 1
               n == Len(dvList)
    <2>1. /\ dvMade' = c /\ dvId' = [dvId EXCEPT ![c] = id] /\ dvList' = Append(dvList, c)
          /\ dvServer' = [dvServer EXCEPT ![id] = [Silent EXCEPT !.chan = c]]
        BY <1>1 DEF drdynvc_process_create_request, dvcman_create_channel
    <2>2. c \in Channel /\ dvMade \in Nat /\ dvMade' \in 0 .. MaxCreates
        BY <1>u, <2>1 DEF Channel, DvReadIInv, DvClientTypes
    <2>3. [Silent EXCEPT !.chan = c] = [chan |-> c, msg |-> 0, size |-> 0, sent |-> 0]
        BY DEF Silent
    <2>4. /\ dvList \in Seq(Channel) /\ dvList' \in Seq(Channel) /\ Len(dvList') = n + 1 /\ n \in Nat
          /\ dvList'[n + 1] = c /\ \A k \in 1 .. n : dvList'[k] = dvList[k]
          /\ DOMAIN dvList = 1 .. n /\ DOMAIN dvList' = 1 .. n + 1
        <3> HIDE DEF c
        <3>1. dvList \in Seq(Channel) /\ n \in Nat /\ DOMAIN dvList = 1 .. n
            BY DEF DvReadIInv, DvClientTypes
        <3>2. dvList' = Append(dvList, c) /\ c \in Channel
            BY <2>1, <2>2
        <3>. QED BY <3>1, <3>2
    <2> HIDE DEF c, n
    <2>5. ASSUME NEW d PROVE Listed(d)' <=> d = c \/ Listed(d)
        <3>1. Listed(d)' <=> \E k \in 1 .. n + 1 : dvList'[k] = d
            BY <2>4 DEF Listed
        <3>2. Listed(d) <=> \E k \in 1 .. n : dvList[k] = d
            BY <2>4 DEF Listed
        <3>3. \A k \in 1 .. n + 1 : k = n + 1 \/ k \in 1 .. n
            BY <2>4
        <3>4. n + 1 \in 1 .. n + 1 /\ \A k \in 1 .. n : k \in 1 .. n + 1
            BY <2>4
        <3>. QED BY <2>4, <3>1, <3>2, <3>3, <3>4
    <2>6. ~Listed(c) /\ dvEnds[c] = 0
        BY <2>2 DEF c, DvReadIInv, ClosedOnce
    <2>7. DvClientTypes'
        <3>1. dvId' \in [Channel -> 0 .. 255]
            BY <2>1 DEF DvReadIInv, DvClientTypes
        <3>0. [chan |-> c, msg |-> 0, size |-> 0, sent |-> 0]
                \in [chan : {NoChannel} \cup Channel, msg : Nat, size : Nat, sent : Nat]
            BY <2>2
        <3>2. dvServer' \in [Ids -> [chan : {NoChannel} \cup Channel, msg : Nat, size : Nat, sent : Nat]]
            BY <2>1, <2>3, <3>0 DEF DvReadIInv, DvClientTypes
        <3>. QED BY <1>u, <2>2, <2>4, <3>1, <3>2 DEF DvReadIInv, DvClientTypes
    <2>8. /\ dvServer'[id].chan = c /\ dvServer'[id].msg = 0
          /\ \A i \in Ids \ {id} : dvServer'[i] = dvServer[i]
          /\ dvId'[c] = id /\ \A d \in Channel \ {c} : dvId'[d] = dvId[d]
        BY <2>1, <2>2, <2>3 DEF DvReadIInv, DvClientTypes
    <2>9. Served'
        <3>1. c # NoChannel
            BY <2>2 DEF Channel, NoChannel
        <3>2. ASSUME NEW i \in Ids, dvServer'[i].chan # NoChannel
              PROVE  (Listed(dvServer[i].chan) /\ dvId[dvServer[i].chan] = i)'
            <4>1. CASE i = id
                BY <2>5, <2>8, <4>1
            <4>2. CASE i # id
                <5>1. Listed(dvServer[i].chan) /\ dvId[dvServer[i].chan] = i /\ dvServer[i].chan \in Channel
                    BY <1>u, <2>8, <3>2, <4>2 DEF DvReadIInv, DvClientTypes, Served
                <5>. QED BY <2>5, <2>6, <2>8, <4>2, <5>1
            <4>. QED BY <4>1, <4>2
        <3>3. ASSUME NEW d \in Channel, Listed(d)' PROVE dvId'[d] \in Ids /\ dvServer'[dvId'[d]].chan = d
            <4>1. CASE d = c
                BY <2>8, <4>1
            <4>2. CASE d # c
                <5>1. dvId[d] \in Ids /\ dvServer[dvId[d]].chan = d
                    BY <1>u, <2>5, <3>3, <4>2 DEF DvReadIInv, Served
                <5>2. dvId[d] # id
                    BY <1>u, <5>1 DEF NoChannel, Channel
                <5>3. dvId'[d] = dvId[d]
                    BY <2>8, <4>2
                <5>4. dvServer'[dvId[d]] = dvServer[dvId[d]]
                    BY <2>8, <5>1, <5>2
                <5>. QED BY <5>1, <5>3, <5>4
            <4>. QED BY <4>1, <4>2
        <3>. QED BY <1>u, <3>2, <3>3 DEF Served
    <2>10. Gathered'
        <3>1. ASSUME NEW i \in Ids, dvServer'[i].msg # 0
              PROVE  dvServer'[i].chan # NoChannel /\ dvServer'[i].sent > 0 /\ dvServer'[i].sent < dvServer'[i].size
            BY <2>8, <3>1 DEF DvReadIInv, Gathered
        <3>2. ASSUME NEW d \in Channel, ~Listed(d)' PROVE dvData'[d] = NoData
            BY <1>u, <2>5, <3>2 DEF DvReadIInv, Gathered
        <3>3. ASSUME NEW d \in Channel, Listed(d)'
              PROVE dvData'[d] = IF dvServer'[dvId'[d]].msg = 0 THEN NoData
                           ELSE [size |-> dvServer'[dvId'[d]].size,
                                 got |-> Piece(dvServer'[dvId'[d]].msg, 0, dvServer'[dvId'[d]].sent)]
            <4>1. CASE d = c
                BY <1>u, <2>6, <2>8, <4>1 DEF DvReadIInv, Gathered
            <4>2. CASE d # c
                <5>1. dvId[d] \in Ids /\ dvServer[dvId[d]].chan = d
                    BY <1>u, <2>5, <3>3, <4>2 DEF DvReadIInv, Served
                <5>2. dvId[d] # id
                    BY <1>u, <5>1 DEF NoChannel, Channel
                <5>3. dvServer'[dvId'[d]] = dvServer[dvId[d]] /\ Listed(d)
                    BY <2>5, <2>8, <3>3, <4>2, <5>1, <5>2
                <5>. QED BY <1>u, <5>3 DEF DvReadIInv, Gathered
            <4>. QED BY <4>1, <4>2
        <3>. QED BY <3>1, <3>2, <3>3 DEF Gathered
    <2>11. ClosedOnce'
        <3>1. ASSUME NEW d \in Channel PROVE
                 /\ Listed(d)' => d <= dvMade' /\ dvEnds'[d] = 0
                 /\ ~Listed(d)' => dvEnds'[d] = IF d <= dvMade' THEN 1 ELSE 0
            <4>1. CASE d = c
                BY <1>u, <2>1, <2>2, <2>5, <2>6, <4>1 DEF c
            <4>2. CASE d # c
                <5>1. d \in Int /\ (d <= dvMade' <=> d <= dvMade) /\ (Listed(d)' <=> Listed(d))
                    BY <2>1, <2>2, <2>5, <4>2 DEF c, Channel
                <5>. QED BY <1>u, <5>1 DEF DvReadIInv, ClosedOnce
            <4>. QED BY <4>1, <4>2
        <3>2. ASSUME NEW d \in Channel, NEW j \in DOMAIN dvList', NEW k \in DOMAIN dvList',
                     dvList'[j] = d, dvList'[k] = d
              PROVE  j = k
            <4>1. j \in 1 .. n + 1 /\ k \in 1 .. n + 1
                BY <2>4
            <4>2. CASE d = c
                BY <2>4, <2>6, <3>2, <4>1, <4>2 DEF Listed
            <4>3. CASE d # c
                BY <2>4, <3>2, <4>1, <4>3 DEF DvReadIInv, ClosedOnce
            <4>. QED BY <4>2, <4>3
        <3>. QED BY <3>1, <3>2 DEF ClosedOnce
    <2>. QED BY <1>u, <2>7, <2>9, <2>10, <2>11 DEF DvReadIInv, DeliveredAsSent
<1>2. CASE ~(name \in Listening /\ accepted)
    <2>1. UNCHANGED dvReadVars
        BY <1>u, <1>2 DEF drdynvc_process_create_request, dvcman_create_channel, dvReadVars,
           dvClientVars, dvServerVars
    <2>. QED BY <2>1, SameRead
<1>. QED BY <1>1, <1>2

ServerSide == [chan : {NoChannel} \cup Channel, msg : Nat, size : Nat, sent : Nat]

(* Nothing gathered, and a side of the server that is not in use.          *)
LEMMA Empty == NoData \in Data /\ Silent \in ServerSide
    BY DEF NoData, Data, Message, Silent, ServerSide, NoChannel

(* A step of one message: the channel gathers what its side of the server  *)
(* says, and is given what the server has finished.                        *)
Passes(id, c, s, d, more) ==
    /\ dvUp = "up" /\ c = dvServer[id].chan /\ c # NoChannel
    /\ s \in ServerSide /\ s.chan = c /\ (s.msg # 0 => s.sent > 0 /\ s.sent < s.size)
    /\ d = IF s.msg = 0 THEN NoData ELSE [size |-> s.size, got |-> Piece(s.msg, 0, s.sent)]
    /\ dvServer' = [dvServer EXCEPT ![id] = s] /\ dvData' = [dvData EXCEPT ![c] = d]
    /\ more \in Seq(Message)
    /\ dvIn' = [dvIn EXCEPT ![c] = @ \o more] /\ dvSent' = [dvSent EXCEPT ![c] = @ \o more]
    /\ UNCHANGED <<dvUp, dvMade, dvList, dvId, dvEnds>> /\ dvStarted' \in Nat

(* Such a step keeps the invariant.                                        *)
LEMMA MessageRead ==
    ASSUME DvReadIInv, NEW id \in Ids, NEW c, NEW s, NEW d, NEW more, Passes(id, c, s, d, more)
    PROVE  DvReadIInv'
<1>a. dvUp = "up" /\ c = dvServer[id].chan /\ c # NoChannel
    BY DEF Passes
<1>b. s \in ServerSide /\ s.chan = c /\ (s.msg # 0 => s.sent > 0 /\ s.sent < s.size)
    BY DEF Passes
<1>c. d = IF s.msg = 0 THEN NoData ELSE [size |-> s.size, got |-> Piece(s.msg, 0, s.sent)]
    BY DEF Passes
<1>d. dvServer' = [dvServer EXCEPT ![id] = s] /\ dvData' = [dvData EXCEPT ![c] = d]
    BY DEF Passes
<1>e. /\ more \in Seq(Message)
      /\ dvIn' = [dvIn EXCEPT ![c] = @ \o more] /\ dvSent' = [dvSent EXCEPT ![c] = @ \o more]
    BY DEF Passes
<1>f. UNCHANGED <<dvUp, dvMade, dvList, dvId, dvEnds>> /\ dvStarted' \in Nat
    BY DEF Passes
<1>1. c \in Channel /\ Listed(c) /\ dvId[c] = id
    BY <1>a, FindsIt
<1>2. d \in Data
    <2>1. NoData \in Data
        BY DEF NoData, Data, Message
    <2>2. s.msg \in Nat /\ s.sent \in Nat /\ s.size \in Nat
        BY <1>b DEF ServerSide
    <2>3. Piece(s.msg, 0, s.sent) \in Message
        BY <2>2, PieceIs
    <2>4. [size |-> s.size, got |-> Piece(s.msg, 0, s.sent)] \in Data
        BY <2>2, <2>3 DEF Data
    <2>. QED BY <1>c, <2>1, <2>4
<1>3. \A x : Listed(x)' <=> Listed(x)
    BY <1>f DEF Listed
<1>4. /\ dvServer'[id] = s /\ \A i \in Ids \ {id} : dvServer'[i] = dvServer[i]
      /\ dvData'[c] = d /\ \A x \in Channel \ {c} : dvData'[x] = dvData[x]
    BY <1>1, <1>d DEF DvReadIInv, DvClientTypes
<1>5. DvClientTypes'
    <2>1. dvServer' \in [Ids -> ServerSide] /\ dvData' \in [Channel -> Data]
        BY <1>b, <1>d, <1>2 DEF DvReadIInv, DvClientTypes, ServerSide
    <2>2. dvIn[c] \o more \in Seq(Message) /\ dvSent[c] \o more \in Seq(Message)
        <3>1. dvIn[c] \in Seq(Message) /\ dvSent[c] \in Seq(Message)
            BY <1>1 DEF DvReadIInv, DvClientTypes
        <3>. QED BY <1>e, <3>1, Joined
    <2>3. dvIn' \in [Channel -> Seq(Message)] /\ dvSent' \in [Channel -> Seq(Message)]
        BY <1>e, <2>2 DEF DvReadIInv, DvClientTypes
    <2>. QED BY <1>f, <2>1, <2>3 DEF DvReadIInv, DvClientTypes, ServerSide
<1>6. Served'
    <2>1. \A i \in Ids : dvServer'[i].chan = dvServer[i].chan
        BY <1>a, <1>b, <1>4
    <2>. QED BY <1>f, <1>3, <2>1 DEF DvReadIInv, Served
<1>7. Gathered'
    <2>1. ASSUME NEW i \in Ids, dvServer'[i].msg # 0
          PROVE  dvServer'[i].chan # NoChannel /\ dvServer'[i].sent > 0 /\ dvServer'[i].sent < dvServer'[i].size
        BY <1>a, <1>b, <1>4, <2>1 DEF DvReadIInv, Gathered
    <2>2. ASSUME NEW x \in Channel, ~Listed(x)' PROVE dvData'[x] = NoData
        BY <1>1, <1>3, <1>4, <2>2 DEF DvReadIInv, Gathered
    <2>3. ASSUME NEW x \in Channel, Listed(x)'
          PROVE dvData'[x] = IF dvServer'[dvId'[x]].msg = 0 THEN NoData
                       ELSE [size |-> dvServer'[dvId'[x]].size,
                             got |-> Piece(dvServer'[dvId'[x]].msg, 0, dvServer'[dvId'[x]].sent)]
        <3>1. CASE x = c
            BY <1>c, <1>f, <1>1, <1>4, <3>1
        <3>2. CASE x # c
            <4>1. dvId[x] \in Ids /\ dvServer[dvId[x]].chan = x /\ Listed(x)
                BY <1>a, <1>3, <2>3 DEF DvReadIInv, Served
            <4>2. dvServer'[dvId'[x]] = dvServer[dvId[x]]
                BY <1>a, <1>f, <1>4, <3>2, <4>1
            <4>3. dvData[x] = IF dvServer[dvId[x]].msg = 0 THEN NoData
                       ELSE [size |-> dvServer[dvId[x]].size,
                             got |-> Piece(dvServer[dvId[x]].msg, 0, dvServer[dvId[x]].sent)]
                BY <4>1 DEF DvReadIInv, Gathered
            <4>4. dvData'[x] = dvData[x]
                BY <1>4, <3>2
            <4>. QED BY <4>2, <4>3, <4>4, Zenon
        <3>. QED BY <3>1, <3>2
    <2>. QED BY <2>1, <2>2, <2>3 DEF Gathered
<1>8. DeliveredAsSent'
    BY <1>e, <1>1 DEF DvReadIInv, DvClientTypes, DeliveredAsSent
<1>9. ClosedOnce'
    BY <1>f, <1>3 DEF DvReadIInv, ClosedOnce
<1>. QED BY <1>5, <1>6, <1>7, <1>8, <1>9 DEF DvReadIInv

(* The server starts a message.                                            *)
LEMMA StartsRead ==
    ASSUME DvReadIInv, NEW id \in Ids, NEW size \in SentSizes, NEW n \in 1 .. size, ServerStarts(id, size, n)
    PROVE  DvReadIInv'
<1>a. PICK m, c : m = dvStarted + 1 /\ c = dvServer[id].chan
    OBVIOUS
<1>1. m \in Nat /\ m > 0 /\ size \in Nat /\ n \in Nat /\ dvServer[id] \in ServerSide
    BY <1>a DEF DvReadIInv, DvClientTypes, ServerSide
<1>2. /\ dvUp = "up" /\ c # NoChannel /\ dvStarted' = m
      /\ UNCHANGED <<dvUp, dvMade, dvList, dvId, dvEnds>>
    BY <1>a DEF ServerStarts
<1>3. c \in Channel /\ dvcman_find_channel_by_id(id) = c /\ Listed(c) /\ dvId[c] = id
    BY <1>a, <1>2, FindsIt
<1>4. CASE /\ n = size /\ dvServer[id].msg = 0 /\ drdynvc_process_data(id, Piece(m, 0, size))
           /\ Finished(id, m, size) /\ UNCHANGED dvServer
    <2>1. dvData[c] = NoData
        BY <1>3, <1>4 DEF DvReadIInv, Gathered
    <2>2. Received(c, NoData, Piece(m, 0, size))
        BY <1>2, <1>3, <1>4, <2>1 DEF drdynvc_process_data
    <2>3. /\ dvData' = [dvData EXCEPT ![c] = NoData]
          /\ dvIn' = [dvIn EXCEPT ![c] = @ \o <<Piece(m, 0, size)>>]
        <3> DEFINE b == Piece(m, 0, size)
                   e == NoData
                   y == <<b>>
        <3>1. dvcman_receive_channel_data(e, b) = [data |-> e, out |-> y] /\ Received(c, e, b)
            BY <2>2, ReceivedWhole
        <3> HIDE DEF b, e, y
        <3>2. dvcman_receive_channel_data(e, b).data = e /\ dvcman_receive_channel_data(e, b).out = y
            BY <3>1
        <3>3. dvData' = [dvData EXCEPT ![c] = e] /\ dvIn' = [dvIn EXCEPT ![c] = @ \o y]
            BY <3>1, <3>2 DEF Received
        <3>. QED BY <3>3 DEF b, e, y
    <2>4. Piece(m, 0, size) \in Message /\ <<Piece(m, 0, size)>> \in Seq(Message)
        BY <1>1, WholePiece
    <2>5. dvSent' = [dvSent EXCEPT ![c] = @ \o <<Piece(m, 0, size)>>]
        <3>1. dvSent[c] \in Seq(Message)
            BY <1>3 DEF DvReadIInv, DvClientTypes
        <3>2. Append(dvSent[c], Piece(m, 0, size)) = dvSent[c] \o <<Piece(m, 0, size)>>
            BY <2>4, <3>1, AddsMessage
        <3>. QED BY <1>a, <1>4, <3>2 DEF Finished
    <2>6. dvServer' = [dvServer EXCEPT ![id] = dvServer[id]]
        BY <1>4 DEF DvReadIInv, DvClientTypes
    <2>7. Passes(id, c, dvServer[id], NoData, <<Piece(m, 0, size)>>)
        BY <1>a, <1>1, <1>2, <1>4, <2>3, <2>4, <2>5, <2>6 DEF Passes
    <2>. QED BY <2>7, MessageRead
<1>5. CASE /\ n < size /\ drdynvc_process_data_first(id, size, Piece(m, 0, n))
           /\ dvServer' = [dvServer EXCEPT ![id] = [chan |-> @.chan, msg |-> m, size |-> size, sent |-> n]]
           /\ UNCHANGED dvSent
    <2> DEFINE s == [chan |-> c, msg |-> m, size |-> size, sent |-> n]
               d == [size |-> size, got |-> Piece(m, 0, n)]
    <2>1. Received(c, dvcman_receive_channel_data_first(size), Piece(m, 0, n))
        BY <1>2, <1>3, <1>5 DEF drdynvc_process_data_first
    <2>2. dvData' = [dvData EXCEPT ![c] = d] /\ dvIn' = [dvIn EXCEPT ![c] = @ \o <<>>]
        <3>1. dvcman_receive_channel_data(dvcman_receive_channel_data_first(size), Piece(m, 0, n))
                = [data |-> d, out |-> <<>>]
            BY <1>1, <1>5, ReceivedFirst
        <3> DEFINE b == Piece(m, 0, n)
                   f == dvcman_receive_channel_data_first(size)
                   y == <<>>
        <3>2. dvcman_receive_channel_data(f, b) = [data |-> d, out |-> y] /\ Received(c, f, b)
            BY <2>1, <3>1
        <3> HIDE DEF d, b, f, y
        <3>3. dvcman_receive_channel_data(f, b).data = d /\ dvcman_receive_channel_data(f, b).out = y
            BY <3>2
        <3>4. dvData' = [dvData EXCEPT ![c] = d] /\ dvIn' = [dvIn EXCEPT ![c] = @ \o y]
            BY <3>2, <3>3 DEF Received
        <3>. QED BY <3>4 DEF y
    <2>3. dvSent' = [dvSent EXCEPT ![c] = @ \o <<>>] /\ <<>> \in Seq(Message)
        <3>1. dvSent \in [Channel -> Seq(Message)] /\ dvSent[c] \in Seq(Message)
            BY <1>3 DEF DvReadIInv, DvClientTypes
        <3>2. dvSent[c] \o <<>> = dvSent[c]
            BY <3>1
        <3>. QED BY <1>5, <3>1, <3>2
    <2>4. s \in ServerSide /\ s.chan = c /\ s.msg # 0 /\ s.sent > 0 /\ s.sent < s.size
        BY <1>1, <1>3, <1>5 DEF ServerSide
    <2>5. dvServer' = [dvServer EXCEPT ![id] = s]
        BY <1>a, <1>5
    <2>6. d = [size |-> s.size, got |-> Piece(s.msg, 0, s.sent)]
        OBVIOUS
    <2> HIDE DEF s, d
    <2>7. Passes(id, c, s, d, <<>>)
        BY <1>a, <1>1, <1>2, <2>2, <2>3, <2>4, <2>5, <2>6 DEF Passes
    <2>. QED BY <2>7, MessageRead
<1>. QED BY <1>a, <1>4, <1>5 DEF ServerStarts

(* The server goes on with a message, finishes it or sends one too many.   *)
LEMMA GoesOnRead ==
    ASSUME DvReadIInv, NEW id \in Ids, NEW n, ServerGoesOn(id, n)
    PROVE  DvReadIInv'
<1>a. PICK s, c : s = dvServer[id] /\ c = dvServer[id].chan /\ c = s.chan
    OBVIOUS
<1>b. PICK b, d :
         b = Piece(s.msg, s.sent, n) /\ d = [size |-> s.size, got |-> Piece(s.msg, 0, s.sent)]
    OBVIOUS
<1>1. /\ s \in ServerSide /\ s.msg \in Nat /\ s.size \in Nat /\ s.sent \in Nat /\ s.msg # 0
      /\ c # NoChannel /\ s.sent > 0 /\ s.sent < s.size
    BY <1>a DEF ServerGoesOn, DvReadIInv, DvClientTypes, Gathered, ServerSide
<1>2. /\ dvUp = "up" /\ n \in 1 .. s.size - s.sent + 1 /\ drdynvc_process_data(id, b)
      /\ UNCHANGED <<dvUp, dvMade, dvList, dvId, dvEnds, dvStarted>>
    BY <1>a, <1>b DEF ServerGoesOn
<1>3. n \in Nat /\ n > 0 /\ dvStarted' \in Nat
    BY <1>1, <1>2 DEF DvReadIInv, DvClientTypes
<1>4. c \in Channel /\ dvcman_find_channel_by_id(id) = c /\ Listed(c) /\ dvId[c] = id
    BY <1>a, <1>1, <1>2, FindsIt
<1>5. dvData[c] = d
    BY <1>a, <1>b, <1>1, <1>4 DEF DvReadIInv, Gathered
<1>6. Received(c, d, b)
    BY <1>1, <1>2, <1>4, <1>5 DEF drdynvc_process_data
<1>r. dvcman_receive_channel_data(d, b) = AfterBytes(s.msg, s.sent + n, s.size)
    <2> DEFINE msg == s.msg
               sent == s.sent
               size == s.size
    <2>1. msg \in Nat /\ sent \in Nat /\ size \in Nat /\ d = [size |-> size, got |-> Piece(msg, 0, sent)]
        BY <1>b, <1>1
    <2> HIDE DEF msg, sent, size
    <2>2. dvcman_receive_channel_data(d, Piece(msg, sent, n)) = AfterBytes(msg, sent + n, size)
        BY <1>3, <2>1, ReceivedNext
    <2>. QED BY <1>b, <2>2 DEF msg, sent, size
<1>7. dvSent \in [Channel -> Seq(Message)] /\ dvSent[c] \in Seq(Message) /\ <<>> \in Seq(Message)
    BY <1>4 DEF DvReadIInv, DvClientTypes
<1>8. CASE s.sent + n < s.size
    <2> DEFINE t == [chan |-> c, msg |-> s.msg, size |-> s.size, sent |-> s.sent + n]
               x == [size |-> s.size, got |-> Piece(s.msg, 0, s.sent + n)]
               y == <<>>
    <2>1. dvServer' = [dvServer EXCEPT ![id] = t]
        <3>1. dvServer' = [dvServer EXCEPT ![id].sent = @ + n]
            BY <1>a, <1>8 DEF ServerGoesOn
        <3>2. [s EXCEPT !.sent = @ + n] = t
            BY <1>a, <1>1 DEF ServerSide
        <3>. QED BY <1>a, <3>1, <3>2 DEF DvReadIInv, DvClientTypes
    <2>2. dvcman_receive_channel_data(d, b) = [data |-> x, out |-> y]
        BY <1>8, <1>r DEF AfterBytes
    <2>3. dvSent' = [dvSent EXCEPT ![c] = @ \o <<>>]
        <3>1. dvSent' = dvSent
            BY <1>a, <1>8 DEF ServerGoesOn
        <3>. QED BY <1>7, <3>1
    <2>4. t \in ServerSide /\ t.chan = c /\ t.msg # 0 /\ t.sent > 0 /\ t.sent < t.size
        <3>1. s.sent + n \in Nat /\ s.sent + n > 0
            BY <1>1, <1>3
        <3>. QED BY <1>1, <1>4, <1>8, <3>1 DEF ServerSide
    <2>5. x = [size |-> t.size, got |-> Piece(t.msg, 0, t.sent)]
        OBVIOUS
    <2> HIDE DEF t, x, y
    <2>2a. dvcman_receive_channel_data(d, b).data = x /\ dvcman_receive_channel_data(d, b).out = y
        BY <2>2
    <2>6. dvData' = [dvData EXCEPT ![c] = x] /\ dvIn' = [dvIn EXCEPT ![c] = @ \o y]
        BY <1>6, <2>2a DEF Received
    <2>7. Passes(id, c, t, x, y)
        BY <1>a, <1>1, <1>2, <1>3, <1>7, <2>1, <2>3, <2>4, <2>5, <2>6 DEF Passes, y
    <2>. QED BY <2>7, MessageRead
<1>9. CASE s.sent + n >= s.size
    <2> DEFINE t == [chan |-> c, msg |-> 0, size |-> 0, sent |-> 0]
               y == IF s.sent + n = s.size THEN <<Piece(s.msg, 0, s.size)>> ELSE <<>>
               e == NoData
    <2>0. Piece(s.msg, 0, s.size) \in Message /\ <<Piece(s.msg, 0, s.size)>> \in Seq(Message)
        BY <1>1, WholePiece
    <2>1. dvServer' = [dvServer EXCEPT ![id] = t]
        <3>1. dvServer' = [dvServer EXCEPT ![id] = [Silent EXCEPT !.chan = s.chan]]
            BY <1>a, <1>1, <1>3, <1>9 DEF ServerGoesOn
        <3>2. [Silent EXCEPT !.chan = s.chan] = t
            BY <1>a DEF Silent
        <3>. QED BY <3>1, <3>2
    <2>2. dvcman_receive_channel_data(d, b) = [data |-> e, out |-> y]
        <3>1. ~(s.sent + n < s.size)
            BY <1>1, <1>3, <1>9
        <3>. QED BY <1>r, <3>1 DEF AfterBytes
    <2>3. dvSent' = [dvSent EXCEPT ![c] = @ \o y]
        <3>1. CASE s.sent + n = s.size
            <4>1. Finished(id, s.msg, s.size) /\ y = <<Piece(s.msg, 0, s.size)>>
                BY <1>a, <1>1, <1>3, <3>1 DEF ServerGoesOn
            <4>2. Append(dvSent[c], Piece(s.msg, 0, s.size)) = dvSent[c] \o <<Piece(s.msg, 0, s.size)>>
                <5> DEFINE p == Piece(s.msg, 0, s.size)
                           q == dvSent[c]
                <5>1. p \in Message /\ q \in Seq(Message)
                    BY <1>7, <2>0
                <5> HIDE DEF p, q
                <5>2. Append(q, p) = q \o <<p>>
                    BY <5>1, AddsMessage
                <5>. QED BY <5>2 DEF p, q
            <4>. QED BY <1>a, <4>1, <4>2 DEF Finished
        <3>2. CASE s.sent + n # s.size
            <4>1. dvSent' = dvSent /\ y = <<>>
                BY <1>a, <1>1, <1>3, <1>9, <3>2 DEF ServerGoesOn
            <4> HIDE DEF y
            <4>2. dvSent[c] \o y = dvSent[c]
                BY <1>7, <4>1
            <4>. QED BY <1>7, <4>1, <4>2
        <3>. QED BY <3>1, <3>2
    <2>4. t \in ServerSide /\ t.chan = c /\ t.msg = 0
        BY <1>4 DEF ServerSide
    <2>5. y \in Seq(Message)
        BY <1>7, <2>0
    <2>6. e = NoData
        OBVIOUS
    <2> HIDE DEF t, y, e
    <2>2a. dvcman_receive_channel_data(d, b).data = e /\ dvcman_receive_channel_data(d, b).out = y
        BY <2>2
    <2>7. dvData' = [dvData EXCEPT ![c] = e] /\ dvIn' = [dvIn EXCEPT ![c] = @ \o y]
        BY <1>6, <2>2a DEF Received
    <2>8. Passes(id, c, t, e, y)
        BY <1>a, <1>1, <1>2, <1>3, <2>1, <2>3, <2>4, <2>5, <2>6, <2>7 DEF Passes
    <2>. QED BY <2>8, MessageRead
<1>. QED BY <1>1, <1>3, <1>8, <1>9

(* The server closes a channel: it leaves the list, with what it gathered. *)
LEMMA CloseRead ==
    ASSUME DvReadIInv, NEW id \in Ids, drdynvc_process_close_request(id)
    PROVE  DvReadIInv'
<1>a. PICK c : c = dvServer[id].chan
    OBVIOUS
<1>1. /\ dvUp = "up" /\ c # NoChannel /\ dvServer' = [dvServer EXCEPT ![id] = Silent]
      /\ UNCHANGED <<dvUp, dvMade, dvId, dvIn, dvSent, dvStarted>>
    BY <1>a DEF drdynvc_process_close_request
<1>2. c \in Channel /\ dvcman_find_channel_by_id(id) = c /\ Listed(c) /\ dvId[c] = id
    BY <1>a, <1>1, FindsIt
<1>3. dvcman_close_channel_iface(c)
    BY <1>1, <1>2 DEF drdynvc_process_close_request
<1>4. /\ dvEnds' = [dvEnds EXCEPT ![c] = @ + 1] /\ dvData' = [dvData EXCEPT ![c] = NoData]
    BY <1>3 DEF dvcman_close_channel_iface, dvcman_channel_free
<1>5. PICK k \in DOMAIN dvList :
         /\ dvList[k] = c
         /\ dvList' = SubSeq(dvList, 1, k - 1) \o SubSeq(dvList, k + 1, Len(dvList))
    BY <1>3 DEF dvcman_close_channel_iface
<1>6. dvList \in Seq(Channel) /\ \A i, j \in DOMAIN dvList : dvList[i] = dvList[j] => i = j
    <2>1. dvList \in Seq(Channel)
        BY DEF DvReadIInv, DvClientTypes
    <2>2. ASSUME NEW i \in DOMAIN dvList, NEW j \in DOMAIN dvList, dvList[i] = dvList[j] PROVE i = j
        <3>1. dvList[i] \in Channel
            BY <2>1
        <3>. QED BY <2>2, <3>1 DEF DvReadIInv, ClosedOnce
    <2>. QED BY <2>1, <2>2
<1>7. /\ dvList' \in Seq(Channel)
      /\ \A i, j \in DOMAIN dvList' : dvList'[i] = dvList'[j] => i = j
      /\ \A x : (\E j \in DOMAIN dvList' : dvList'[j] = x) <=> x # c /\ \E j \in DOMAIN dvList : dvList[j] = x
    <2> DEFINE t == SubSeq(dvList, 1, k - 1) \o SubSeq(dvList, k + 1, Len(dvList))
    <2>1. /\ t \in Seq(Channel) /\ \A i, j \in DOMAIN t : t[i] = t[j] => i = j
          /\ \A x : (\E j \in DOMAIN t : t[j] = x) <=> x # dvList[k] /\ \E j \in DOMAIN dvList : dvList[j] = x
        BY <1>6, TakenOff
    <2>2. dvList' = t /\ dvList[k] = c
        BY <1>5
    <2> HIDE DEF t
    <2>. QED BY <2>1, <2>2
<1>8. ASSUME NEW x PROVE Listed(x)' <=> x # c /\ Listed(x)
    BY <1>7 DEF Listed
<1>e. /\ dvEnds[c] = 0 /\ c <= dvMade /\ dvEnds'[c] = 1
      /\ \A x \in Channel \ {c} : dvEnds'[x] = dvEnds[x]
    <2>1. dvEnds \in [Channel -> Nat]
        BY DEF DvReadIInv, DvClientTypes
    <2>2. dvEnds[c] = 0 /\ c <= dvMade
        BY <1>2 DEF DvReadIInv, ClosedOnce
    <2>. QED BY <1>2, <1>4, <2>1, <2>2
<1>d. dvData'[c] = NoData /\ \A x \in Channel \ {c} : dvData'[x] = dvData[x]
    <2>1. dvData \in [Channel -> Data]
        BY DEF DvReadIInv, DvClientTypes
    <2>. QED BY <1>2, <1>4, <2>1
<1>s. dvServer'[id] = Silent /\ \A i \in Ids \ {id} : dvServer'[i] = dvServer[i]
    BY <1>1 DEF DvReadIInv, DvClientTypes
<1>10. DvClientTypes'
    <2>1. NoData \in Data /\ Silent \in ServerSide
        BY Empty
    <2>2. dvEnds' \in [Channel -> Nat] /\ dvData' \in [Channel -> Data]
        <3>1. dvEnds \in [Channel -> Nat] /\ dvData \in [Channel -> Data]
            BY DEF DvReadIInv, DvClientTypes
        <3>2. dvEnds[c] + 1 \in Nat
            BY <1>e
        <3>. QED BY <1>4, <2>1, <3>1, <3>2
    <2>3. dvServer' \in [Ids -> ServerSide]
        BY <1>1, <2>1 DEF DvReadIInv, DvClientTypes, ServerSide
    <2>. QED BY <1>1, <1>7, <2>2, <2>3 DEF DvReadIInv, DvClientTypes, ServerSide
<1>11. Served'
    <2>1. ASSUME NEW i \in Ids, dvServer'[i].chan # NoChannel
          PROVE  (Listed(dvServer[i].chan) /\ dvId[dvServer[i].chan] = i)'
        <3>1. i # id /\ dvServer'[i] = dvServer[i]
            <4>1. Silent.chan = NoChannel
                BY DEF Silent
            <4>. QED BY <1>s, <2>1, <4>1, Zenon
        <3>2. Listed(dvServer[i].chan) /\ dvId[dvServer[i].chan] = i
            BY <1>1, <2>1, <3>1 DEF DvReadIInv, Served
        <3>3. dvServer[i].chan # c
            BY <1>2, <3>1, <3>2
        <3>. QED BY <1>1, <1>8, <3>1, <3>2, <3>3
    <2>2. ASSUME NEW x \in Channel, Listed(x)' PROVE dvId'[x] \in Ids /\ dvServer'[dvId'[x]].chan = x
        <3>1. x # c /\ dvId[x] \in Ids /\ dvServer[dvId[x]].chan = x
            BY <1>1, <1>8, <2>2 DEF DvReadIInv, Served
        <3>2. dvId[x] # id
            BY <1>a, <3>1
        <3>3. dvId'[x] = dvId[x] /\ dvServer'[dvId[x]] = dvServer[dvId[x]]
            BY <1>1, <1>s, <3>1, <3>2
        <3>. QED BY <3>1, <3>3
    <2>. QED BY <1>1, <2>1, <2>2 DEF Served
<1>12. Gathered'
    <2>1. ASSUME NEW i \in Ids, dvServer'[i].msg # 0
          PROVE  dvServer'[i].chan # NoChannel /\ dvServer'[i].sent > 0 /\ dvServer'[i].sent < dvServer'[i].size
        <3>1. i # id
            <4>1. Silent.msg = 0
                BY DEF Silent
            <4>. QED BY <1>s, <2>1, <4>1, Zenon
        <3>2. dvServer'[i] = dvServer[i]
            BY <1>s, <3>1
        <3>. QED BY <2>1, <3>2 DEF DvReadIInv, Gathered
    <2>2. ASSUME NEW x \in Channel, ~Listed(x)' PROVE dvData'[x] = NoData
        BY <1>8, <1>d, <2>2 DEF DvReadIInv, Gathered
    <2>3. ASSUME NEW x \in Channel, Listed(x)'
          PROVE dvData'[x] = IF dvServer'[dvId'[x]].msg = 0 THEN NoData
                       ELSE [size |-> dvServer'[dvId'[x]].size,
                             got |-> Piece(dvServer'[dvId'[x]].msg, 0, dvServer'[dvId'[x]].sent)]
        <3>1. x # c /\ Listed(x) /\ dvId[x] \in Ids /\ dvServer[dvId[x]].chan = x
            BY <1>1, <1>8, <2>3 DEF DvReadIInv, Served
        <3>2. dvId[x] # id
            BY <1>a, <3>1
        <3>3. dvServer'[dvId'[x]] = dvServer[dvId[x]] /\ dvData'[x] = dvData[x]
            BY <1>1, <1>d, <1>s, <3>1, <3>2
        <3>4. dvData[x] = IF dvServer[dvId[x]].msg = 0 THEN NoData
                   ELSE [size |-> dvServer[dvId[x]].size,
                         got |-> Piece(dvServer[dvId[x]].msg, 0, dvServer[dvId[x]].sent)]
            BY <3>1 DEF DvReadIInv, Gathered
        <3>. QED BY <3>3, <3>4, Zenon
    <2>. QED BY <2>1, <2>2, <2>3 DEF Gathered
<1>13. ClosedOnce'
    <2>1. ASSUME NEW x \in Channel
          PROVE  /\ Listed(x)' => x <= dvMade' /\ dvEnds'[x] = 0
                 /\ ~Listed(x)' => dvEnds'[x] = IF x <= dvMade' THEN 1 ELSE 0
        <3>1. CASE x = c
            BY <1>1, <1>8, <1>e, <3>1
        <3>2. CASE x # c
            BY <1>1, <1>8, <1>e, <3>2 DEF DvReadIInv, ClosedOnce
        <3>. QED BY <3>1, <3>2
    <2>. QED BY <1>7, <2>1 DEF ClosedOnce
<1>. QED BY <1>1, <1>10, <1>11, <1>12, <1>13 DEF DvReadIInv, DeliveredAsSent

(* The static channel is closed, and then the manager is freed: every      *)
(* channel still in the list is closed.                                    *)
LEMMA EndRead ==
    ASSUME DvReadIInv, Disconnect \/ drdynvc_process_terminate
    PROVE  DvReadIInv'
<1>1. CASE Disconnect
    <2>1. /\ UNCHANGED <<dvMade, dvList, dvId, dvData, dvIn, dvEnds, dvServer, dvSent, dvStarted>>
          /\ dvUp = "up" /\ dvUp' = "closed"
        BY <1>1 DEF Disconnect, dvClientVars, dvServerVars
    <2>2. ASSUME NEW x PROVE Listed(x)' <=> Listed(x)
        BY <2>1 DEF Listed
    <2>3. DvClientTypes' /\ DeliveredAsSent'
        BY <2>1 DEF DvReadIInv, DvClientTypes, DeliveredAsSent
    <2>4. Served'
        BY <2>1, <2>2 DEF DvReadIInv, Served
    <2>5. Gathered'
        BY <2>1, <2>2 DEF DvReadIInv, Gathered
    <2>6. ClosedOnce'
        BY <2>1, <2>2 DEF DvReadIInv, ClosedOnce
    <2>. QED BY <2>3, <2>4, <2>5, <2>6 DEF DvReadIInv
<1>2. CASE drdynvc_process_terminate
    <2>1. /\ dvUp' = "over" /\ dvList' = <<>> /\ dvData' = [c \in Channel |-> NoData]
          /\ dvEnds' = [c \in Channel |-> dvEnds[c] + IF Listed(c) THEN 1 ELSE 0]
          /\ UNCHANGED <<dvMade, dvId, dvIn, dvServer, dvSent, dvStarted>>
        BY <1>2 DEF drdynvc_process_terminate, dvcman_free, dvServerVars
    <2>2. ASSUME NEW x PROVE ~Listed(x)'
        BY <2>1 DEF Listed
    <2>3. DvClientTypes'
        <3>1. NoData \in Data
            BY DEF NoData, Data, Message
        <3>2. dvEnds' \in [Channel -> Nat]
            BY <2>1 DEF DvReadIInv, DvClientTypes
        <3>3. dvList' \in Seq(Channel) /\ dvData' \in [Channel -> Data]
            BY <2>1, <3>1
        <3>. QED BY <2>1, <3>2, <3>3 DEF DvReadIInv, DvClientTypes
    <2>4. Served' /\ DeliveredAsSent'
        BY <2>1 DEF DvReadIInv, Served, DeliveredAsSent
    <2>5. Gathered'
        BY <2>1, <2>2 DEF DvReadIInv, Gathered
    <2>6. ClosedOnce'
        BY <2>1, <2>2 DEF DvReadIInv, ClosedOnce
    <2>. QED BY <2>3, <2>4, <2>5, <2>6 DEF DvReadIInv
<1>. QED BY <1>1, <1>2

(* Every step keeps it; the threads that write touch none of it.           *)
LEMMA DvNextRead == DvReadIInv /\ [DvNext]_dvVars => DvReadIInv'
<1> SUFFICES ASSUME DvReadIInv, [DvNext]_dvVars PROVE DvReadIInv'
    OBVIOUS
<1>1. CASE UNCHANGED dvVars
    BY <1>1, SameRead DEF dvVars, dvReadVars
<1>2. ASSUME NEW w \in Writer, NEW c \in Channel, NEW size \in Sizes, dvcman_write_channel(w, c, size)
      PROVE  DvReadIInv'
    BY <1>2, SameRead DEF dvcman_write_channel, dvReadVars
<1>3. ASSUME NEW w \in Writer, SendPdu(w) \/ SendFails(w) PROVE DvReadIInv'
    BY <1>3, SameRead DEF SendPdu, SendFails, dvReadVars
<1>. QED BY <1>1, <1>2, <1>3, CreateRead, StartsRead, GoesOnRead, CloseRead, EndRead DEF DvNext

(* What the listeners of drdynvc_main.c are given is what the server sent, *)
(* fragments that arrive interleaved included, and OnClose is called once  *)
(* for each channel, for any number of channels and messages of any size.  *)
THEOREM DeliveredWhole == DvSpec => [](DeliveredAsSent /\ ClosedOnce)
<1>1. DvReadIInv => DeliveredAsSent /\ ClosedOnce
    BY DEF DvReadIInv
<1>. QED BY <1>1, DvInitRead, DvNextRead, PTL DEF DvSpec
=============================================================================
