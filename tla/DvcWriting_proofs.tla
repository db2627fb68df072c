------------------------- MODULE DvcWriting_proofs --------------------------
(***************************************************************************)
(* Proofs about what threads of the client write on the dynamic channels,  *)
(* and with Dvc_proofs about all that Dvc promises.                        *)
(***************************************************************************)
EXTENDS Dvc_proofs

Pdu == [first : BOOLEAN, from : Nat, n : Nat, size : Nat, pdu : Nat]

DvWriteTypes ==
    /\ dvWrite \in [Writer -> [chan : {NoChannel} \cup Channel, msg : Nat, pdus : Seq(Pdu)]]
    /\ dvWritten \in Nat /\ dvMixed \subseteq Channel
    /\ dvWrote \in [Channel -> Seq(Message)] /\ dvRead \in [Channel -> Seq(Message)]
    /\ dvPeer \in [Channel -> Data]

(* A message is cut into pieces that join: a message of one PDU has no     *)
(* length in front, a longer one has it in its first PDU only.             *)
Cut(pdus) ==
    /\ pdus # <<>>
    /\ \A k \in DOMAIN pdus :
          /\ pdus[k].n > 0 /\ pdus[k].from + pdus[k].n <= pdus[k].size
          /\ pdus[k].first => pdus[k].from = 0 /\ pdus[k].n < pdus[k].size
          /\ pdus[k].from = 0 /\ ~pdus[k].first => pdus[k].n = pdus[k].size
    /\ \A k \in 1 .. Len(pdus) - 1 :
          /\ pdus[k + 1].from = pdus[k].from + pdus[k].n
          /\ pdus[k + 1].size = pdus[k].size
    /\ pdus[Len(pdus)].from + pdus[Len(pdus)].n = pdus[Len(pdus)].size

(* What the server holds of a message when the PDU p is the next.          *)
HeldBefore(m, p) ==
    IF p.from = 0 THEN NoData ELSE [size |-> p.size, got |-> Piece(m, 0, p.from)]

(* A channel nobody interfered on has one writer at most, and the server   *)
(* holds what that one has sent of its message.                            *)
OneWriter ==
    \A c \in Channel \ dvMixed :
        /\ \A v, w \in Writer : dvWrite[v].chan = c /\ dvWrite[w].chan = c => v = w
        /\ dvUp = "up" /\ Quiet(c) => dvPeer[c] = NoData
        /\ \A w \in Writer : dvUp = "up" /\ dvWrite[w].chan = c =>
               dvPeer[c] = HeldBefore(dvWrite[w].msg, Head(dvWrite[w].pdus))

DvWriteIInv ==
    /\ DvWriteTypes /\ OneWriter /\ WrittenIsRead
    /\ \A w \in Writer : IF dvWrite[w].chan = NoChannel THEN dvWrite[w] = Idle
                         ELSE Cut(dvWrite[w].pdus)

USE DvAssumption

(* A message that is written is cut into pieces that join, beginning with  *)
(* its first byte.                                                         *)
LEMMA WriteCuts ==
    ASSUME NEW id \in 0 .. 255, NEW size \in Nat \ {0}
    PROVE  LET p == drdynvc_write_data(id, size)
           IN  p \in Seq(Pdu) /\ Cut(p) /\ p[1].from = 0
<1> DEFINE head == 1 + drdynvc_write_variable_uint(id)
           first == Chunk - head - drdynvc_write_variable_uint(size)
           more == Chunk - head
           rest == size - first
           parts == (rest + more - 1) \div more
           start == [first |-> TRUE, from |-> 0, n |-> first, size |-> size, pdu |-> Chunk]
           len(k) == IF rest - (k - 1) * more < more THEN rest - (k - 1) * more ELSE more
           tail == [k \in 1 .. parts |-> [first |-> FALSE, from |-> first + (k - 1) * more, n |-> len(k),
                                          size |-> size, pdu |-> head + len(k)]]
           p == drdynvc_write_data(id, size)
<1>1. head = 2 /\ first \in Nat /\ first > 0 /\ more \in Nat /\ more > 0 /\ first < more
    BY DEF drdynvc_write_variable_uint
<1>2. CASE size <= Chunk
    <2> DEFINE one == [first |-> FALSE, from |-> 0, n |-> size, size |-> size, pdu |-> head + size]
    <2>1. p = <<one>>
        BY <1>2 DEF drdynvc_write_data
    <2>2. one \in Pdu
        BY <1>1 DEF Pdu
    <2>3. one.n = size /\ one.from = 0 /\ one.size = size /\ ~one.first
        OBVIOUS
    <2> HIDE DEF one, p
    <2>4. p \in Seq(Pdu) /\ Len(p) = 1 /\ DOMAIN p = {1} /\ p[1] = one /\ p # <<>>
        BY <2>1, <2>2
    <2>5. Cut(p)
        BY <2>3, <2>4 DEF Cut
    <2>. QED BY <2>3, <2>4, <2>5 DEF p
<1>3. CASE size > Chunk
    <2>1. p = <<start>> \o tail
        <3>1. ~(size <= Chunk)
            BY <1>3
        <3>. QED BY <3>1, Zenon DEF drdynvc_write_data
    <2>2. rest \in Nat /\ rest > 0 /\ first < size
        BY <1>1, <1>3
    <2> HIDE DEF head, first, more, rest, parts, p
    <2>3. parts \in Nat /\ parts > 0 /\ rest <= parts * more /\ (parts - 1) * more < rest
        <3> DEFINE a == rest + more - 1
                   q == a \div more
        <3>1. a \in Nat
            BY <1>1, <2>2
        <3>2. q \in Nat /\ more * q <= a /\ a < more * q + more
            <4> HIDE DEF a
            <4>. QED BY <1>1, <3>1, Division
        <3>3. parts = q
            BY DEF parts
        <3> HIDE DEF q
        <3>4. q > 0 /\ rest <= q * more
            BY <1>1, <2>2, <3>2
        <3>5. (q - 1) * more = more * q - more
            BY <1>1, <3>2
        <3>6. (q - 1) * more < rest
            BY <1>1, <2>2, <3>2, <3>5
        <3>. QED BY <3>2, <3>3, <3>4, <3>6
    <2>4. ASSUME NEW k \in 1 .. parts
          PROVE  /\ (k - 1) * more \in Nat /\ (k - 1) * more < rest /\ len(k) \in Nat /\ len(k) > 0
                 /\ (k - 1) * more + len(k) <= rest
                 /\ k < parts => len(k) = more /\ k * more = (k - 1) * more + more
                 /\ k = parts => (k - 1) * more + len(k) = rest
        <3>1. k \in Nat /\ parts - k \in Nat /\ k - 1 \in Nat
            BY <2>3
        <3>2. (k - 1) * more \in Nat /\ k * more = (k - 1) * more + more
            BY <1>1, <3>1
        <3>3. (parts - 1) * more = (k - 1) * more + (parts - k) * more /\ (parts - k) * more \in Nat
            BY <1>1, <2>3, <3>1
        <3>4. (k - 1) * more < rest
            BY <2>2, <2>3, <3>2, <3>3
        <3>5. k < parts => (parts - k) * more >= more
            <4> DEFINE e == parts - k
            <4>1. e \in Nat /\ (k < parts => e >= 1)
                BY <2>3, <3>1
            <4> HIDE DEF e
            <4>2. e >= 1 => e * more >= more
                <5>1. e >= 1 => e * more = (e - 1) * more + more /\ e - 1 \in Nat /\ (e - 1) * more \in Nat
                    BY <1>1, <4>1
                <5>. QED BY <1>1, <5>1
            <4>. QED BY <4>1, <4>2 DEF e
        <3> DEFINE a == (k - 1) * more
                   b == (parts - k) * more
        <3>6. /\ a \in Nat /\ b \in Nat /\ a < rest /\ a + b < rest
              /\ k < parts => b >= more
              /\ k = parts => rest <= a + more
            BY <2>3, <3>2, <3>3, <3>4, <3>5
        <3>7. len(k) = IF rest - a < more THEN rest - a ELSE more
            OBVIOUS
        <3> HIDE DEF a, b, len
        <3>8. len(k) \in Nat /\ len(k) > 0 /\ a + len(k) <= rest
            BY <1>1, <2>2, <3>6, <3>7
        <3>9. k < parts => len(k) = more
            BY <1>1, <2>2, <3>6, <3>7
        <3>10. k = parts => a + len(k) = rest
            BY <1>1, <2>2, <3>6, <3>7
        <3>. QED BY <3>2, <3>4, <3>8, <3>9, <3>10 DEF a
    <2> HIDE DEF len
    <2>5. start \in Pdu
        BY <1>1, <2>2 DEF Pdu, first
    <2>6. ASSUME NEW k \in 1 .. parts
          PROVE  /\ tail[k] \in Pdu /\ tail[k].from = first + (k - 1) * more /\ tail[k].n = len(k)
                 /\ tail[k].size = size /\ tail[k].first = FALSE
        <3>1. first + (k - 1) * more \in Nat /\ head + len(k) \in Nat /\ len(k) \in Nat
            BY <1>1, <2>4
        <3> DEFINE from == first + (k - 1) * more
                   n == len(k)
                   pdu == head + n
        <3>2. tail[k] = [first |-> FALSE, from |-> from, n |-> n, size |-> size, pdu |-> pdu]
            OBVIOUS
        <3>3. from \in Nat /\ n \in Nat /\ pdu \in Nat /\ size \in Nat
            BY <3>1
        <3> HIDE DEF from, n, pdu, tail
        <3>4. tail[k] \in Pdu
            BY <3>2, <3>3 DEF Pdu
        <3>. QED BY <3>2, <3>4 DEF from, n
    <2>7. tail \in Seq(Pdu) /\ Len(tail) = parts
        <3>1. DOMAIN tail = 1 .. parts /\ tail = [k \in 1 .. parts |-> tail[k]]
            OBVIOUS
        <3> HIDE DEF tail
        <3>2. tail \in [1 .. parts -> Pdu]
            BY <2>6, <3>1
        <3>. QED BY <2>3, <3>2
    <2> HIDE DEF tail
    <2>8. /\ p \in Seq(Pdu) /\ Len(p) = parts + 1 /\ DOMAIN p = 1 .. parts + 1
          /\ p[1] = start /\ \A k \in 1 .. parts : p[k + 1] = tail[k]
        <3> DEFINE one == <<start>>
        <3>1. one \in Seq(Pdu) /\ Len(one) = 1 /\ one[1] = start
            BY <2>5
        <3> HIDE DEF one, start
        <3>2. p \in Seq(Pdu) /\ Len(p) = 1 + parts /\ \A i \in 1 .. 1 + parts :
                 p[i] = IF i <= 1 THEN one[i] ELSE tail[i - 1]
            BY <2>1, <2>7, <3>1, Joined DEF one
        <3>3. \A k \in 1 .. parts : k + 1 \in 1 .. 1 + parts /\ ~(k + 1 <= 1) /\ (k + 1) - 1 = k
            BY <2>3
        <3>4. parts + 1 = 1 + parts /\ 1 \in 1 .. 1 + parts
            BY <2>3
        <3>. QED BY <3>1, <3>2, <3>3, <3>4
    <2>9. start.from = 0 /\ start.n = first /\ start.size = size /\ start.first = TRUE
        OBVIOUS
    <2> HIDE DEF start
    <2>10. ASSUME NEW i \in DOMAIN p
           PROVE  /\ p[i].n > 0 /\ p[i].from + p[i].n <= p[i].size
                  /\ p[i].first => p[i].from = 0 /\ p[i].n < p[i].size
                  /\ p[i].from = 0 /\ ~p[i].first => p[i].n = p[i].size
        <3>1. CASE i = 1
            BY <1>1, <2>2, <2>8, <2>9, <3>1
        <3>2. CASE i # 1
            <4> DEFINE k == i - 1
            <4>1. k \in 1 .. parts /\ k + 1 = i
                BY <2>3, <2>8, <3>2
            <4> HIDE DEF k
            <4>2. p[i] = tail[k]
                BY <2>8, <4>1
            <4> DEFINE a == (k - 1) * more
            <4>3. /\ a \in Nat /\ len(k) \in Nat /\ len(k) > 0 /\ a + len(k) <= rest
                  /\ p[i].from = first + a /\ p[i].n = len(k) /\ p[i].size = size /\ ~p[i].first
                <5>1. a \in Nat /\ len(k) \in Nat /\ len(k) > 0 /\ a + len(k) <= rest
                    BY <2>4, <4>1
                <5>2. tail[k].from = first + a /\ tail[k].n = len(k) /\ tail[k].size = size /\ ~tail[k].first
                    BY <2>6, <4>1
                <5>. QED BY <4>2, <5>1, <5>2
            <4> HIDE DEF a
            <4>4. size = first + rest
                BY <1>1 DEF rest
            <4>. QED BY <1>1, <2>2, <4>3, <4>4
        <3>. QED BY <3>1, <3>2
    <2>11. ASSUME NEW i \in 1 .. Len(p) - 1
           PROVE  p[i + 1].from = p[i].from + p[i].n /\ p[i + 1].size = p[i].size
        <3>0. i \in 1 .. parts /\ p[i + 1] = tail[i]
            BY <2>3, <2>8
        <3>1. CASE i = 1
            <4>1. p[i + 1].from = first + (1 - 1) * more /\ p[i + 1].size = size
                BY <2>6, <3>0, <3>1, ZenonT(30)
            <4>2. (1 - 1) * more = 0
                BY <1>1
            <4>. QED BY <1>1, <2>8, <2>9, <3>1, <4>1, <4>2
        <3>2. CASE i # 1
            <4> DEFINE k == i - 1
            <4>1. k \in 1 .. parts /\ k + 1 = i /\ k < parts /\ i - 1 = k
                BY <2>3, <3>0, <3>2
            <4> HIDE DEF k
            <4>2. p[i] = tail[k]
                BY <2>8, <4>1
            <4>3. /\ p[i].from = first + (k - 1) * more /\ p[i].n = more /\ p[i].size = size
                  /\ k * more = (k - 1) * more + more /\ (k - 1) * more \in Nat
                <5>1. len(k) = more /\ k * more = (k - 1) * more + more /\ (k - 1) * more \in Nat
                    BY <2>4, <4>1
                <5>2. tail[k].from = first + (k - 1) * more /\ tail[k].n = len(k) /\ tail[k].size = size
                    BY <2>6, <4>1
                <5>. QED BY <4>2, <5>1, <5>2, Zenon
            <4>4. p[i + 1].from = first + k * more /\ p[i + 1].size = size
                <5>1. tail[i].from = first + (i - 1) * more /\ tail[i].size = size
                    BY <2>6, <3>0
                <5>. QED BY <3>0, <4>1, <5>1
            <4> DEFINE a == (k - 1) * more
            <4>5. /\ a \in Nat /\ p[i].from = first + a /\ p[i + 1].from = first + (a + more)
                BY <4>3, <4>4
            <4> HIDE DEF a
            <4>6. first + (a + more) = (first + a) + more
                BY <1>1, <4>5
            <4>. QED BY <4>3, <4>4, <4>5, <4>6
        <3>. QED BY <3>1, <3>2
    <2>12. p[Len(p)].from + p[Len(p)].n = p[Len(p)].size
        <3> DEFINE a == (parts - 1) * more
        <3>1. parts \in 1 .. parts /\ p[Len(p)] = tail[parts]
            BY <2>3, <2>8
        <3>2. /\ p[Len(p)].from = first + a /\ p[Len(p)].n = len(parts) /\ p[Len(p)].size = size
              /\ a \in Nat /\ len(parts) \in Nat /\ a + len(parts) = rest
            BY <2>4, <2>6, <3>1, ZenonT(30)
        <3> HIDE DEF a
        <3>3. size = first + rest
            BY <1>1 DEF rest
        <3>. QED BY <1>1, <2>2, <3>2, <3>3
    <2>13. p # <<>> /\ p[1].from = 0
        BY <2>3, <2>8, <2>9
    <2>14. Cut(p)
        BY <2>10, <2>11, <2>12, <2>13 DEF Cut
    <2>. QED BY <2>8, <2>13, <2>14 DEF p
<1>. QED BY <1>2, <1>3

(* The next PDU of a message, and what is left after it.                   *)
LEMMA CutNext ==
    ASSUME NEW pdus \in Seq(Pdu), Cut(pdus), NEW p, p = Head(pdus)
    PROVE  /\ p \in Pdu /\ p.n > 0 /\ p.from + p.n <= p.size
           /\ p.first => p.from = 0 /\ p.n < p.size
           /\ p.from = 0 /\ ~p.first => p.n = p.size
           /\ Len(pdus) = 1 <=> p.from + p.n = p.size
           /\ Len(pdus) # 1 => /\ Tail(pdus) \in Seq(Pdu) /\ Cut(Tail(pdus))
                               /\ Head(Tail(pdus)).from = p.from + p.n
                               /\ Head(Tail(pdus)).size = p.size
<1> DEFINE n == Len(pdus)
           t == Tail(pdus)
<1>1. n \in Nat /\ n > 0 /\ DOMAIN pdus = 1 .. n /\ p = pdus[1] /\ 1 \in DOMAIN pdus
    BY DEF Cut
<1>2. ASSUME NEW k \in DOMAIN pdus
      PROVE  /\ pdus[k] \in Pdu /\ pdus[k].n > 0 /\ pdus[k].from + pdus[k].n <= pdus[k].size
             /\ pdus[k].first => pdus[k].from = 0 /\ pdus[k].n < pdus[k].size
             /\ pdus[k].from = 0 /\ ~pdus[k].first => pdus[k].n = pdus[k].size
    BY DEF Cut
<1>3. ASSUME NEW k \in 1 .. n - 1
      PROVE  pdus[k + 1].from = pdus[k].from + pdus[k].n /\ pdus[k + 1].size = pdus[k].size
    BY DEF Cut
<1>4. pdus[n].from + pdus[n].n = pdus[n].size
    BY DEF Cut
<1>5. p.from + p.n \in Nat /\ p.size \in Nat /\ p \in Pdu
    <2>1. p \in Pdu
        BY <1>1, <1>2
    <2>. QED BY <2>1 DEF Pdu
<1>6. CASE n = 1
    BY <1>1, <1>2, <1>4, <1>6
<1>7. CASE n # 1
    <2>1. 1 \in 1 .. n - 1 /\ 2 \in DOMAIN pdus
        BY <1>1, <1>7
    <2>2. pdus[2].from = p.from + p.n /\ pdus[2].size = p.size
        <3>1. pdus[1 + 1].from = pdus[1].from + pdus[1].n /\ pdus[1 + 1].size = pdus[1].size
            BY <1>3, <2>1
        <3>. QED BY <1>1, <3>1
    <2>3. pdus[2].n > 0 /\ pdus[2].from + pdus[2].n <= pdus[2].size /\ pdus[2].n \in Nat
        BY <1>2, <2>1 DEF Pdu
    <2>4. p.from + p.n # p.size
        BY <1>5, <2>2, <2>3
    <2>5. t \in Seq(Pdu) /\ Len(t) = n - 1 /\ DOMAIN t = 1 .. n - 1 /\ \A k \in 1 .. n - 1 : t[k] = pdus[k + 1]
        BY <1>1, <1>7
    <2> HIDE DEF t
    <2>6. t # <<>> /\ Head(t) = pdus[2]
        BY <1>1, <2>1, <2>5
    <2>7. Cut(t)
        <3>1. ASSUME NEW k \in DOMAIN t
              PROVE  /\ t[k].n > 0 /\ t[k].from + t[k].n <= t[k].size
                     /\ t[k].first => t[k].from = 0 /\ t[k].n < t[k].size
                     /\ t[k].from = 0 /\ ~t[k].first => t[k].n = t[k].size
            <4>1. k + 1 \in DOMAIN pdus /\ t[k] = pdus[k + 1]
                BY <1>1, <2>5
            <4>. QED BY <1>2, <4>1
        <3>2. ASSUME NEW k \in 1 .. Len(t) - 1
              PROVE  t[k + 1].from = t[k].from + t[k].n /\ t[k + 1].size = t[k].size
            <4>1. k + 1 \in 1 .. n - 1 /\ t[k] = pdus[k + 1] /\ t[k + 1] = pdus[(k + 1) + 1]
                BY <1>1, <2>5
            <4>. QED BY <1>3, <4>1
        <3>3. t[Len(t)] = pdus[n]
            <4>1. n - 1 \in 1 .. n - 1 /\ (n - 1) + 1 = n
                BY <1>1, <1>7
            <4>. QED BY <2>5, <4>1
        <3>. QED BY <1>4, <2>6, <3>1, <3>2, <3>3 DEF Cut
    <2>. QED BY <1>1, <1>2, <1>5, <1>7, <2>2, <2>4, <2>5, <2>6, <2>7 DEF t
<1>. QED BY <1>6, <1>7

(* What the server makes of it, if it holds what came before.              *)
LEMMA ReadNext ==
    ASSUME NEW m \in Nat, NEW p \in Pdu, p.n > 0, p.from + p.n <= p.size,
           p.first => p.from = 0 /\ p.n < p.size, p.from = 0 /\ ~p.first => p.n = p.size
    PROVE  dvcman_receive_channel_data(
              IF p.first THEN dvcman_receive_channel_data_first(p.size) ELSE HeldBefore(m, p),
              Piece(m, p.from, p.n)) = AfterBytes(m, p.from + p.n, p.size)
<1>1. p.n \in Nat /\ p.from \in Nat /\ p.size \in Nat /\ p.first \in BOOLEAN
    BY DEF Pdu
<1>2. CASE p.first
    <2>1. p.from = 0 /\ p.n < p.size /\ p.from + p.n = p.n
        BY <1>1, <1>2
    <2>2. dvcman_receive_channel_data(dvcman_receive_channel_data_first(p.size), Piece(m, 0, p.n)) =
             [data |-> [size |-> p.size, got |-> Piece(m, 0, p.n)], out |-> <<>>]
        BY <1>1, <2>1, ReceivedFirst
    <2>3. AfterBytes(m, p.n, p.size) = [data |-> [size |-> p.size, got |-> Piece(m, 0, p.n)], out |-> <<>>]
        BY <2>1 DEF AfterBytes
    <2>. QED BY <1>2, <2>1, <2>2, <2>3
<1>3. CASE ~p.first /\ p.from = 0
    <2>1. p.n = p.size /\ p.from + p.n = p.size /\ HeldBefore(m, p) = NoData
        BY <1>1, <1>3 DEF HeldBefore
    <2>2. AfterBytes(m, p.size, p.size) = [data |-> NoData, out |-> <<Piece(m, 0, p.size)>>]
        BY <1>1 DEF AfterBytes
    <2>. QED BY <1>3, <2>1, <2>2, ReceivedWhole
<1>4. CASE ~p.first /\ p.from # 0
    <2> DEFINE d == HeldBefore(m, p)
    <2>1. d = [size |-> p.size, got |-> Piece(m, 0, p.from)]
        BY <1>4 DEF HeldBefore
    <2> HIDE DEF d
    <2>2. dvcman_receive_channel_data(d, Piece(m, p.from, p.n)) = AfterBytes(m, p.from + p.n, p.size)
        BY <1>1, <2>1, ReceivedNext
    <2>. QED BY <1>4, <2>2 DEF d
<1>. QED BY <1>1, <1>2, <1>3, <1>4

(* Writing: the initial state, and the steps that have no part in it.      *)
LEMMA DvInitWrite == DvInit => DvWriteIInv
<1> SUFFICES ASSUME DvInit PROVE DvWriteIInv
    OBVIOUS
<1> USE DEF DvInit
<1>1. NoData \in Data /\ Idle \in [chan : {NoChannel} \cup Channel, msg : Nat, pdus : Seq(Pdu)]
    BY DEF NoData, Data, Message, Idle, NoChannel
<1>2. DvWriteTypes
    BY <1>1 DEF DvWriteTypes
<1>3. \A w \in Writer : dvWrite[w] = Idle /\ dvWrite[w].chan = NoChannel
    BY DEF Idle
<1>4. OneWriter
    BY <1>3 DEF OneWriter, NoChannel, Channel
<1>5. WrittenIsRead
    BY DEF WrittenIsRead
<1>. QED BY <1>2, <1>3, <1>4, <1>5 DEF DvWriteIInv

(* A step that writes nothing keeps the invariant of the writers.          *)
LEMMA SameWrite ==
    ASSUME DvWriteIInv, UNCHANGED dvWriteVars, dvUp' = "up" => dvUp = "up"
    PROVE  DvWriteIInv'
<1>1. UNCHANGED <<dvWrite, dvWritten, dvWrote, dvMixed, dvPeer, dvRead>>
    BY DEF dvWriteVars
<1>2. DvWriteTypes' /\ WrittenIsRead'
    BY <1>1 DEF DvWriteIInv, DvWriteTypes, WrittenIsRead
<1>3. OneWriter'
    BY <1>1 DEF DvWriteIInv, OneWriter, Quiet
<1>. QED BY <1>1, <1>2, <1>3 DEF DvWriteIInv

(* A thread starts to write.                                               *)
LEMMA WriteStarts ==
    ASSUME DvReadIInv, DvWriteIInv, NEW w \in Writer, NEW c \in Channel, NEW size \in Sizes,
           dvcman_write_channel(w, c, size)
    PROVE  DvWriteIInv'
<1> DEFINE pdus == drdynvc_write_data(dvId[c], size)
           new == [chan |-> c, msg |-> dvWritten + 1, pdus |-> pdus]
<1>u. /\ dvWrite[w] = Idle /\ dvWrite' = [dvWrite EXCEPT ![w] = new]
      /\ dvWritten' = dvWritten + 1
      /\ dvMixed' = IF Quiet(c) THEN dvMixed ELSE dvMixed \cup {c}
      /\ UNCHANGED <<dvUp, dvWrote, dvPeer, dvRead>>
    BY DEF dvcman_write_channel
<1>0. DvWriteTypes /\ OneWriter /\ WrittenIsRead /\ c # NoChannel
    BY DEF DvWriteIInv, NoChannel, Channel
<1>1. pdus \in Seq(Pdu) /\ Cut(pdus) /\ pdus[1].from = 0
    <2>1. dvId[c] \in 0 .. 255 /\ size \in Nat \ {0}
        BY DEF DvReadIInv, DvClientTypes
    <2>. QED BY <2>1, WriteCuts
<1> HIDE DEF pdus
<1>2. Head(pdus).from = 0
    BY <1>1 DEF Cut
<1>3. new \in [chan : {NoChannel} \cup Channel, msg : Nat, pdus : Seq(Pdu)]
    BY <1>0, <1>1 DEF DvWriteTypes
<1>4. new.chan = c /\ new.msg = dvWritten + 1 /\ new.pdus = pdus
    OBVIOUS
<1> HIDE DEF new
<1>5. dvWrite'[w] = new /\ \A v \in Writer \ {w} : dvWrite'[v] = dvWrite[v]
    BY <1>u, <1>0 DEF DvWriteTypes
<1>6. DvWriteTypes'
    BY <1>u, <1>0, <1>3 DEF DvWriteTypes
<1>7. WrittenIsRead'
    BY <1>u, <1>0 DEF WrittenIsRead
<1>8. ASSUME NEW x \in Channel \ dvMixed'
      PROVE  /\ \A u, v \in Writer : dvWrite'[u].chan = x /\ dvWrite'[v].chan = x => u = v
             /\ (dvUp = "up" /\ Quiet(x) => dvPeer[x] = NoData)'
             /\ \A v \in Writer : dvUp' = "up" /\ dvWrite'[v].chan = x =>
                   dvPeer'[x] = HeldBefore(dvWrite'[v].msg, Head(dvWrite'[v].pdus))
    <2>0. x \in Channel \ dvMixed /\ x # NoChannel /\ dvWrite[w].chan = NoChannel
        BY <1>u DEF NoChannel, Channel, Idle
    <2>1. CASE x # c
        <3>1. Quiet(x)' <=> Quiet(x)
            BY <1>4, <1>5, <2>0, <2>1 DEF Quiet
        <3>2. \A v \in Writer : dvWrite'[v].chan = x => dvWrite'[v] = dvWrite[v]
            BY <1>4, <1>5, <2>1
        <3>. QED BY <1>u, <1>0, <2>0, <3>1, <3>2 DEF OneWriter
    <2>2. CASE x = c
        <3>1. Quiet(c)
            BY <1>u, <2>2
        <3>2. \A v \in Writer : dvWrite'[v].chan = c => v = w
            BY <1>5, <3>1 DEF Quiet
        <3>3. ~Quiet(c)'
            BY <1>4, <1>5 DEF Quiet
        <3>4. dvUp' = "up" => dvPeer'[c] = NoData
            BY <1>u, <1>0, <2>0, <2>2, <3>1 DEF OneWriter
        <3>5. HeldBefore(new.msg, Head(new.pdus)) = NoData
            BY <1>2, <1>4 DEF HeldBefore
        <3>. QED BY <1>5, <2>2, <3>2, <3>3, <3>4, <3>5
    <2>. QED BY <2>1, <2>2
<1>9. OneWriter'
    BY <1>8 DEF OneWriter
<1>10. \A v \in Writer : IF dvWrite'[v].chan = NoChannel THEN dvWrite'[v] = Idle
                         ELSE Cut(dvWrite'[v].pdus)
    BY <1>0, <1>1, <1>4, <1>5 DEF DvWriteIInv
<1>. QED BY <1>6, <1>7, <1>9, <1>10 DEF DvWriteIInv

(* Its writing fails.                                                      *)
LEMMA WriteFails ==
    ASSUME DvWriteIInv, NEW w \in Writer, SendFails(w)
    PROVE  DvWriteIInv'
<1>u. /\ dvUp # "up" /\ dvWrite' = [dvWrite EXCEPT ![w] = Idle]
      /\ UNCHANGED <<dvUp, dvWritten, dvWrote, dvMixed, dvPeer, dvRead>>
    BY DEF SendFails
<1>0. DvWriteTypes /\ OneWriter /\ WrittenIsRead
    BY DEF DvWriteIInv
<1>1. Idle \in [chan : {NoChannel} \cup Channel, msg : Nat, pdus : Seq(Pdu)] /\ Idle.chan = NoChannel
    BY DEF Idle, NoChannel
<1>2. dvWrite'[w] = Idle /\ \A v \in Writer \ {w} : dvWrite'[v] = dvWrite[v]
    BY <1>u, <1>0 DEF DvWriteTypes
<1>3. DvWriteTypes' /\ WrittenIsRead'
    BY <1>u, <1>0, <1>1 DEF DvWriteTypes, WrittenIsRead
<1>4. OneWriter'
    BY <1>u, <1>0, <1>1, <1>2 DEF OneWriter, NoChannel, Channel
<1>5. \A v \in Writer : IF dvWrite'[v].chan = NoChannel THEN dvWrite'[v] = Idle
                        ELSE Cut(dvWrite'[v].pdus)
    BY <1>1, <1>2 DEF DvWriteIInv
<1>. QED BY <1>3, <1>4, <1>5 DEF DvWriteIInv

(* Whatever was interleaved, the reassembly yields messages.               *)
LEMMA ReceivedTypes ==
    ASSUME NEW d \in Data, NEW b \in Message
    PROVE  /\ dvcman_receive_channel_data(d, b).data \in Data
           /\ dvcman_receive_channel_data(d, b).out \in Seq(Message)
<1>1. NoData \in Data
    BY DEF NoData, Data, Message
<1>2. d.size \in Int /\ d.got \in Message /\ d.got \o b \in Message
    <2>1. d.size \in Int /\ d.got \in Message
        BY DEF Data
    <2>. QED BY <2>1 DEF Message
<1>3. [size |-> d.size, got |-> d.got \o b] \in Data
    BY <1>2 DEF Data
<1>4. <<>> \in Seq(Message) /\ <<b>> \in Seq(Message) /\ <<d.got \o b>> \in Seq(Message)
    BY <1>2
<1>5. CASE d = NoData
    BY <1>1, <1>4, <1>5 DEF dvcman_receive_channel_data
<1>6. CASE d # NoData /\ Len(d.got) + Len(b) > d.size
    BY <1>1, <1>4, <1>6 DEF dvcman_receive_channel_data
<1>7. CASE d # NoData /\ ~(Len(d.got) + Len(b) > d.size) /\ Len(d.got) + Len(b) = d.size
    BY <1>1, <1>4, <1>7 DEF dvcman_receive_channel_data
<1>8. CASE d # NoData /\ ~(Len(d.got) + Len(b) > d.size) /\ Len(d.got) + Len(b) # d.size
    BY <1>3, <1>4, <1>8 DEF dvcman_receive_channel_data
<1>. QED BY <1>5, <1>6, <1>7, <1>8

(* One PDU is sent.                                                        *)
LEMMA PduSent ==
    ASSUME DvWriteIInv, NEW w \in Writer, SendPdu(w)
    PROVE  DvWriteIInv'
<1>a. PICK c, m, pdus, p :
         c = dvWrite[w].chan /\ m = dvWrite[w].msg /\ pdus = dvWrite[w].pdus /\ p = Head(dvWrite[w].pdus)
    OBVIOUS
<1>c. PICK r, new :
         /\ r = dvcman_receive_channel_data(
                   IF p.first THEN dvcman_receive_channel_data_first(p.size) ELSE dvPeer[c],
                   Piece(m, p.from, p.n))
         /\ new = IF Len(pdus) = 1 THEN Idle ELSE [chan |-> c, msg |-> m, pdus |-> Tail(pdus)]
    OBVIOUS
<1>d. PICK last \in BOOLEAN : last <=> Len(pdus) = 1
    OBVIOUS
<1>e. PICK whole : whole = Piece(m, 0, p.size)
    OBVIOUS
<1>u. /\ dvUp = "up" /\ c # NoChannel
      /\ dvPeer' = [dvPeer EXCEPT ![c] = r.data]
      /\ dvRead' = [dvRead EXCEPT ![c] = dvRead[c] \o r.out]
      /\ dvWrote' = IF last THEN [dvWrote EXCEPT ![c] = Append(dvWrote[c], whole)] ELSE dvWrote
      /\ dvWrite' = [dvWrite EXCEPT ![w] = new]
      /\ UNCHANGED <<dvUp, dvWritten, dvMixed>>
    BY <1>a, <1>c, <1>d, <1>e DEF SendPdu
<1>0. DvWriteTypes /\ OneWriter /\ WrittenIsRead
    BY DEF DvWriteIInv
<1>1. c \in Channel /\ m \in Nat /\ pdus \in Seq(Pdu) /\ Cut(pdus)
    <2>1. dvWrite[w] \in [chan : {NoChannel} \cup Channel, msg : Nat, pdus : Seq(Pdu)]
        BY <1>0 DEF DvWriteTypes
    <2>. QED BY <1>a, <1>u, <2>1 DEF DvWriteIInv
<1>2. /\ p \in Pdu /\ p.n > 0 /\ p.from + p.n <= p.size
      /\ p.first => p.from = 0 /\ p.n < p.size
      /\ p.from = 0 /\ ~p.first => p.n = p.size
      /\ last <=> p.from + p.n = p.size
      /\ ~last => /\ Tail(pdus) \in Seq(Pdu) /\ Cut(Tail(pdus))
                  /\ Head(Tail(pdus)).from = p.from + p.n
                  /\ Head(Tail(pdus)).size = p.size
    <2>1. p = Head(pdus)
        BY <1>a
    <2>2. last <=> Len(pdus) = 1
        BY <1>d
    <2>3. /\ p \in Pdu /\ p.n > 0 /\ p.from + p.n <= p.size
          /\ p.first => p.from = 0 /\ p.n < p.size
          /\ p.from = 0 /\ ~p.first => p.n = p.size
          /\ Len(pdus) = 1 <=> p.from + p.n = p.size
          /\ Len(pdus) # 1 => /\ Tail(pdus) \in Seq(Pdu) /\ Cut(Tail(pdus))
                              /\ Head(Tail(pdus)).from = p.from + p.n
                              /\ Head(Tail(pdus)).size = p.size
        BY <1>1, <2>1, CutNext, ZenonT(30)
    <2>. QED BY <2>2, <2>3, ZenonT(30)
<1>3. p.from \in Nat /\ p.n \in Nat /\ p.size \in Nat /\ p.first \in BOOLEAN
    BY <1>2 DEF Pdu
<1>4. /\ new \in [chan : {NoChannel} \cup Channel, msg : Nat, pdus : Seq(Pdu)]
      /\ last => new = Idle /\ new.chan = NoChannel
      /\ ~last => /\ new.chan = c /\ new.msg = m /\ new.pdus = Tail(pdus)
                  /\ Head(new.pdus).from = p.from + p.n /\ Head(new.pdus).size = p.size
                  /\ Cut(new.pdus)
    <2>1. CASE last
        <3>1. new = Idle
            BY <1>c, <1>d, <2>1
        <3>. QED BY <2>1, <3>1 DEF Idle
    <2>2. CASE ~last
        <3>1. new = [chan |-> c, msg |-> m, pdus |-> Tail(pdus)] /\ Tail(pdus) \in Seq(Pdu)
            BY <1>c, <1>d, <1>2, <2>2
        <3>2. new.chan = c /\ new.msg = m /\ new.pdus = Tail(pdus)
            BY <3>1
        <3>3. new \in [chan : {NoChannel} \cup Channel, msg : Nat, pdus : Seq(Pdu)]
            BY <1>1, <3>1
        <3>. QED BY <1>2, <2>2, <3>2, <3>3
    <2>. QED BY <2>1, <2>2
<1>5. r.data \in Data /\ r.out \in Seq(Message)
    <2>1. Piece(m, p.from, p.n) \in Message
        BY <1>1, <1>3, PieceIs
    <2>2. dvcman_receive_channel_data_first(p.size) \in Data /\ dvPeer[c] \in Data
        BY <1>0, <1>1, <1>3 DEF dvcman_receive_channel_data_first, Data, Message, DvWriteTypes
    <2>. QED BY <1>c, <2>1, <2>2, ReceivedTypes
<1>6. ASSUME c \notin dvMixed PROVE r = AfterBytes(m, p.from + p.n, p.size)
    <2>1. dvPeer[c] = HeldBefore(m, p)
        BY <1>a, <1>u, <1>0, <1>1, <1>6 DEF OneWriter
    <2>. QED BY <1>c, <1>1, <1>2, <2>1, ReadNext
<1>7. whole \in Message
    BY <1>e, <1>1, <1>3, PieceIs
<1>b. dvWrite[w].chan = c /\ dvWrite[w].msg = m
    BY <1>a
<1>8. dvWrite'[w] = new /\ \A v \in Writer \ {w} : dvWrite'[v] = dvWrite[v]
    BY <1>u, <1>0 DEF DvWriteTypes
<1>p. dvPeer'[c] = r.data /\ \A x \in Channel \ {c} : dvPeer'[x] = dvPeer[x]
    BY <1>u, <1>0, <1>1 DEF DvWriteTypes
<1>r. /\ dvRead'[c] = dvRead[c] \o r.out /\ \A x \in Channel \ {c} : dvRead'[x] = dvRead[x]
      /\ last => dvWrote'[c] = Append(dvWrote[c], whole)
      /\ ~last => dvWrote'[c] = dvWrote[c]
      /\ \A x \in Channel \ {c} : dvWrote'[x] = dvWrote[x]
    BY <1>u, <1>0, <1>1 DEF DvWriteTypes
<1>9. DvWriteTypes'
    <2>1. dvRead[c] \o r.out \in Seq(Message)
        BY <1>0, <1>1, <1>5 DEF DvWriteTypes
    <2>2. Append(dvWrote[c], whole) \in Seq(Message)
        BY <1>0, <1>1, <1>7 DEF DvWriteTypes
    <2>3. dvPeer' \in [Channel -> Data] /\ dvRead' \in [Channel -> Seq(Message)]
        BY <1>u, <1>0, <1>1, <1>5, <2>1 DEF DvWriteTypes
    <2>4. dvWrote' \in [Channel -> Seq(Message)]
        BY <1>u, <1>0, <1>1, <2>2 DEF DvWriteTypes
    <2>5. dvWrite' \in [Writer -> [chan : {NoChannel} \cup Channel, msg : Nat, pdus : Seq(Pdu)]]
        BY <1>u, <1>0, <1>4 DEF DvWriteTypes
    <2>. QED BY <1>u, <1>0, <2>3, <2>4, <2>5 DEF DvWriteTypes
<1>10. WrittenIsRead'
    <2> SUFFICES ASSUME NEW x \in Channel \ dvMixed PROVE dvRead'[x] = dvWrote'[x]
        BY <1>u DEF WrittenIsRead
    <2>1. dvRead[x] = dvWrote[x] /\ dvRead[x] \in Seq(Message)
        BY <1>0 DEF WrittenIsRead, DvWriteTypes
    <2>2. CASE x # c
        BY <1>r, <2>1, <2>2
    <2>3. CASE x = c /\ last
        <3>1. r.out = <<whole>>
            <4>1. p.from + p.n = p.size /\ r = AfterBytes(m, p.from + p.n, p.size)
                BY <1>2, <1>6, <2>3, Zenon
            <4>. QED BY <1>e, <1>3, <4>1 DEF AfterBytes
        <3>2. dvRead[c] \o <<whole>> = Append(dvRead[c], whole)
            BY <1>7, <2>1, <2>3, AddsMessage, SMTT(30)
        <3>. QED BY <1>r, <2>1, <2>3, <3>1, <3>2
    <2>4. CASE x = c /\ ~last
        <3>1. r.out = <<>>
            <4>1. p.from + p.n < p.size
                BY <1>2, <1>3, <2>4
            <4>2. r = AfterBytes(m, p.from + p.n, p.size)
                BY <1>6, <2>4, Zenon
            <4>. QED BY <4>1, <4>2 DEF AfterBytes
        <3>2. dvRead'[c] = dvRead[c] \o <<>> /\ dvWrote'[c] = dvWrote[c]
            BY <1>r, <2>4, <3>1, Zenon
        <3>3. dvRead[c] \o <<>> = dvRead[c]
            BY <2>1, <2>4
        <3>. QED BY <2>1, <2>4, <3>2, <3>3
    <2>. QED BY <2>2, <2>3, <2>4
<1>11. ASSUME NEW x \in Channel \ dvMixed'
       PROVE  /\ \A u, v \in Writer : dvWrite'[u].chan = x /\ dvWrite'[v].chan = x => u = v
              /\ (dvUp = "up" /\ Quiet(x) => dvPeer[x] = NoData)'
              /\ \A v \in Writer : dvUp' = "up" /\ dvWrite'[v].chan = x =>
                    dvPeer'[x] = HeldBefore(dvWrite'[v].msg, Head(dvWrite'[v].pdus))
    <2>0. x \in Channel \ dvMixed /\ x # NoChannel
        BY <1>u DEF NoChannel, Channel
    <2>1. CASE x # c
        <3>1. \A v \in Writer : dvWrite'[v].chan = x => v # w /\ dvWrite'[v] = dvWrite[v]
            BY <1>4, <1>8, <2>0, <2>1
        <3>2. Quiet(x)' <=> Quiet(x)
            BY <1>4, <1>8, <1>b, <2>0, <2>1 DEF Quiet
        <3>3. dvPeer'[x] = dvPeer[x]
            BY <1>p, <2>1
        <3>4. /\ \A u, v \in Writer : dvWrite[u].chan = x /\ dvWrite[v].chan = x => u = v
              /\ dvUp = "up" /\ Quiet(x) => dvPeer[x] = NoData
              /\ \A v \in Writer : dvUp = "up" /\ dvWrite[v].chan = x =>
                    dvPeer[x] = HeldBefore(dvWrite[v].msg, Head(dvWrite[v].pdus))
            BY <1>0, <2>0 DEF OneWriter
        <3>5. dvUp' = dvUp
            BY <1>u
        <3>. QED BY <3>1, <3>2, <3>3, <3>4, <3>5
    <2>2. CASE x = c
        <3>0. r = AfterBytes(m, p.from + p.n, p.size)
            BY <1>6, <2>0, <2>2
        <3>1. \A v \in Writer : dvWrite'[v].chan = c => v = w
            <4>1. \A v \in Writer : dvWrite[v].chan = c => v = w
                <5>1. \A u, v \in Writer : dvWrite[u].chan = c /\ dvWrite[v].chan = c => u = v
                    BY <1>0, <2>0, <2>2 DEF OneWriter
                <5>. QED BY <1>b, <5>1
            <4>. QED BY <1>8, <4>1
        <3>2. CASE last
            <4>1. \A v \in Writer : dvWrite'[v].chan # c
                <5>1. dvWrite'[w].chan # c
                    <6>1. dvWrite'[w].chan = NoChannel /\ c # NoChannel
                        BY <1>u, <1>4, <1>8, <3>2, Zenon
                    <6>. QED BY <6>1
                <5>. QED BY <3>1, <5>1, Zenon
            <4>2. dvPeer'[c] = NoData
                <5>1. p.from + p.n = p.size
                    BY <1>2, <3>2, Zenon
                <5>2. r = AfterBytes(m, p.size, p.size)
                    BY <3>0, <5>1
                <5>3. r.data = NoData
                    BY <1>3, <5>2 DEF AfterBytes
                <5>. QED BY <1>p, <5>3
            <4>. QED BY <2>2, <4>1, <4>2 DEF Quiet
        <3>3. CASE ~last
            <4>1. ~Quiet(x)'
                BY <1>4, <1>8, <2>2, <3>3 DEF Quiet
            <4>2. dvPeer'[c] = [size |-> p.size, got |-> Piece(m, 0, p.from + p.n)]
                <5>1. p.from + p.n < p.size
                    BY <1>2, <1>3, <3>3
                <5>. QED BY <1>p, <3>0, <5>1 DEF AfterBytes
            <4>3. HeldBefore(new.msg, Head(new.pdus)) =
                     [size |-> p.size, got |-> Piece(m, 0, p.from + p.n)]
                <5>1. p.from + p.n # 0
                    BY <1>2, <1>3
                <5>2. /\ new.msg = m /\ Head(new.pdus).from = p.from + p.n
                      /\ Head(new.pdus).size = p.size
                    BY <1>4, <3>3
                <5>. QED BY <5>1, <5>2 DEF HeldBefore
            <4>. QED BY <1>8, <2>2, <3>1, <4>1, <4>2, <4>3
        <3>. QED BY <3>2, <3>3
    <2>. QED BY <2>1, <2>2
<1>12. OneWriter'
    BY <1>11 DEF OneWriter
<1>13. \A v \in Writer : IF dvWrite'[v].chan = NoChannel THEN dvWrite'[v] = Idle
                         ELSE Cut(dvWrite'[v].pdus)
    <2>1. dvWrite'[w].chan = NoChannel => dvWrite'[w] = Idle
        BY <1>u, <1>4, <1>8, Zenon
    <2>2. dvWrite'[w].chan # NoChannel => Cut(dvWrite'[w].pdus)
        BY <1>4, <1>8, Zenon
    <2>3. \A v \in Writer \ {w} : IF dvWrite'[v].chan = NoChannel THEN dvWrite'[v] = Idle
                                ELSE Cut(dvWrite'[v].pdus)
        BY <1>8 DEF DvWriteIInv
    <2>. QED BY <2>1, <2>2, <2>3
<1>. QED BY <1>9, <1>10, <1>12, <1>13 DEF DvWriteIInv

(* Every step keeps it; what the server sends touches none of it but the   *)
(* list of channels and whether the connection is up.                      *)
LEMMA DvNextWrite == DvReadIInv /\ DvWriteIInv /\ [DvNext]_dvVars => DvWriteIInv'
<1> SUFFICES ASSUME DvReadIInv, DvWriteIInv, [DvNext]_dvVars PROVE DvWriteIInv'
    OBVIOUS
<1>1. CASE UNCHANGED dvVars
    BY <1>1, SameWrite DEF dvVars
<1>2. ASSUME NEW id \in Ids, NEW name, NEW accepted, drdynvc_process_create_request(id, name, accepted)
      PROVE  DvWriteIInv'
    BY <1>2, SameWrite DEF drdynvc_process_create_request
<1>3. ASSUME NEW id \in Ids, NEW size, NEW n, ServerStarts(id, size, n) PROVE DvWriteIInv'
    BY <1>3, SameWrite DEF ServerStarts
<1>4. ASSUME NEW id \in Ids, NEW n, ServerGoesOn(id, n) PROVE DvWriteIInv'
    BY <1>4, SameWrite DEF ServerGoesOn
<1>5. ASSUME NEW id \in Ids, drdynvc_process_close_request(id) PROVE DvWriteIInv'
    BY <1>5, SameWrite DEF drdynvc_process_close_request
<1>6. CASE Disconnect \/ drdynvc_process_terminate
    BY <1>6, SameWrite DEF Disconnect, drdynvc_process_terminate
<1>. QED BY <1>1, <1>2, <1>3, <1>4, <1>5, <1>6, WriteStarts, PduSent, WriteFails DEF DvNext

(* The dynamic channels of drdynvc_main.c and dvcman.c, for any number of  *)
(* channels, writers and messages of any size: fragments that arrive       *)
(* interleaved are put together to what was sent, OnClose is called once   *)
(* for each channel, and what one thread writes reaches the server whole.  *)
THEOREM ChannelsSafe == DvSpec => []ChannelsAreSafe
<1>1. DvInit => DvReadIInv /\ DvWriteIInv
    BY DvInitRead, DvInitWrite
<1>2. (DvReadIInv /\ DvWriteIInv) /\ [DvNext]_dvVars => (DvReadIInv /\ DvWriteIInv)'
    BY DvNextRead, DvNextWrite
<1>3. DvReadIInv /\ DvWriteIInv => ChannelsAreSafe
    <2> SUFFICES ASSUME DvReadIInv, DvWriteIInv PROVE ChannelsAreSafe
        OBVIOUS
    <2>1. DvTypeOK
        BY DEF DvReadIInv, DvClientTypes, DvWriteIInv, DvWriteTypes, DvTypeOK
    <2>2. ASSUME NEW c \in Channel, dvData[c] # NoData
          PROVE  \E id \in Ids : dvServer[id].chan = c /\ dvServer[id].msg # 0
        <3>1. Listed(c) /\ dvUp # "over"
            <4>1. Listed(c)
                BY <2>2 DEF DvReadIInv, Gathered
            <4>2. dvList # <<>>
                BY <4>1 DEF Listed
            <4>. QED BY <4>1, <4>2 DEF DvReadIInv, Served
        <3>2. dvId[c] \in Ids /\ dvServer[dvId[c]].chan = c
            BY <3>1 DEF DvReadIInv, Served
        <3>3. dvServer[dvId[c]].msg # 0
            BY <2>2, <3>1 DEF DvReadIInv, Gathered
        <3>. QED BY <3>2, <3>3
    <2>. QED BY <2>1, <2>2 DEF ChannelsAreSafe, DvReadIInv, DvWriteIInv, NothingLeftOver
<1>. QED BY <1>1, <1>2, <1>3, PTL DEF DvSpec
=============================================================================
