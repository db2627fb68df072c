------------------------------- MODULE Mppc --------------------------------
(***************************************************************************)
(* The history of the bulk decompressor (mppc.c).  Compressed data is a    *)
(* stream of literals and of copies from the history, the bytes that were  *)
(* decompressed last; packets refer to what earlier packets left there, so *)
(* the client's history has to follow the server's compressor (external).  *)
(* MppcBits is the reader of the tokens.                                   *)
(***************************************************************************)
EXTENDS Integers, Sequences, FiniteSets

CONSTANTS
    Buffer,         \* bytes of history_buf (RDP6_HISTORY_BUF_SIZE)
    History,        \* bytes of the server's history, by compression type
    MaxPacketsSent  \* bound on the packets

ASSUME MpAssumption ==
    /\ Buffer \in Nat \ {0} /\ MaxPacketsSent \in Nat
    /\ \A type \in DOMAIN History : History[type] \in 1 .. Buffer

VARIABLES mpType, mpClient, mpServer, mpSent, mpOut

mpVars == <<mpType, mpClient, mpServer, mpSent, mpOut>>

Blank == [i \in 0 .. (Buffer - 1) |-> 0]

mppc_new == [buf |-> Blank, ptr |-> 0]

MpInit ==
    /\ mpType \in DOMAIN History
    /\ mpClient = mppc_new
    /\ mpServer = [buf |-> Blank, ptr |-> 0, front |-> TRUE,
                   flushedAlone |-> FALSE, wrapped |-> FALSE]
    /\ mpSent = 0 /\ mpOut = [meant |-> <<>>, got |-> <<>>]

RECURSIVE CopyMatch(_, _, _)
CopyMatch(h, src, lom) ==
    IF lom = 0 THEN h
    ELSE CopyMatch([buf |-> [h.buf EXCEPT ![h.ptr] = h.buf[src]], ptr |-> h.ptr + 1],
                   IF src = Buffer - 1 THEN 0 ELSE src + 1, lom - 1)

(* One token; a copy from before the buffer continues at its end.          *)
Apply(h, token) ==
    IF Len(token) = 1 THEN [buf |-> [h.buf EXCEPT ![h.ptr] = token[1]], ptr |-> h.ptr + 1]
    ELSE CopyMatch(h, IF h.ptr - token[1] >= 0 THEN h.ptr - token[1]
                      ELSE Buffer - 1 - (token[1] - h.ptr) + 1, token[2])

RECURSIVE ApplyAll(_, _)
ApplyAll(h, tokens) ==
    IF tokens = <<>> THEN h ELSE ApplyAll(Apply(h, Head(tokens)), Tail(tokens))

(* PACKET_AT_FRONT moves the pointer that the packet's length is counted   *)
(* from; PACKET_FLUSHED only the one that is written through.              *)
FrontAndFlush(h, flags) ==
    [start |-> [buf |-> IF "flushed" \in flags THEN Blank ELSE h.buf,
                ptr |-> IF flags # {} THEN 0 ELSE h.ptr],
     from  |-> IF "front" \in flags THEN 0 ELSE h.ptr,
     roff  |-> IF flags # {} THEN 0 ELSE h.ptr]

decompress_rdp(flags, tokens, meant) ==
    LET f == FrontAndFlush(mpClient, flags)
        h == ApplyAll(f.start, tokens)
    IN  /\ mpClient' = h
        /\ mpOut' = [meant |-> meant, got |->
             [i \in 1 .. (h.ptr - f.from) |-> h.buf[f.roff + i - 1]]]

(* What the server means by a token: its history is a ring of its size.    *)
RECURSIVE Means(_, _)
Means(s, tokens) ==
    IF tokens = <<>> THEN s
    ELSE LET token == Head(tokens)
             size  == History[mpType]
             Ring(i) == IF i < 0 THEN i + size ELSE i
             Copy[k \in 0 .. 3] ==
               IF k = 0 THEN s
               ELSE [Copy[k - 1] EXCEPT
                      !.buf[s.ptr + k - 1] = Copy[k - 1].buf[Ring(s.ptr + k - 1 - token[1])],
                      !.ptr = @ + 1]
         IN  Means(IF Len(token) = 1
                   THEN [s EXCEPT !.buf[s.ptr] = token[1], !.ptr = @ + 1]
                   ELSE Copy[token[2]], Tail(tokens))

Written(tokens) ==
    LET Count[i \in 0 .. Len(tokens)] ==
          IF i = 0 THEN 0
          ELSE Count[i - 1] + (IF Len(tokens[i]) = 1 THEN 1 ELSE tokens[i][2])
    IN  Count[Len(tokens)]

(* The server compresses a packet.  It starts at the front when the text   *)
(* does not fit or when it was told to; it may flush, with or without      *)
(* saying that the packet is at the front.  It copies only text (0 is a    *)
(* byte of the history that was never written).                            *)
Packet(flags, tokens) ==
    LET start == [mpServer EXCEPT !.buf = IF "flushed" \in flags THEN Blank ELSE @,
                                  !.ptr = IF flags # {} THEN 0 ELSE @, !.front = FALSE]
        end   == Means(start, tokens)
        Back(i) == Len(tokens[i]) = 2
                   /\ tokens[i][1] > start.ptr + Written(SubSeq(tokens, 1, i - 1))
    IN  /\ mpSent < MaxPacketsSent
        /\ mpServer.front => "front" \in flags
        /\ start.ptr + Written(tokens) <= History[mpType]
        /\ \A i \in start.ptr .. (end.ptr - 1) : end.buf[i] # 0
        /\ mpServer' = [end EXCEPT
             !.flushedAlone = flags = {"flushed"} /\ mpServer.ptr > 0,
             !.wrapped = @ \/ \E i \in DOMAIN tokens : Back(i)]
        /\ mpSent' = mpSent + 1
        /\ decompress_rdp(flags, tokens,
             [i \in 1 .. Written(tokens) |-> end.buf[start.ptr + i - 1]])
        /\ UNCHANGED mpType

(* A packet that does not get smaller is sent as it is, and the history    *)
(* starts again.  The client does not pass it to the decompressor.         *)
PlainPacket ==
    /\ mpSent < MaxPacketsSent
    /\ mpServer' = [mpServer EXCEPT !.buf = Blank, !.ptr = 0, !.front = TRUE]
    /\ mpSent' = mpSent + 1
    /\ UNCHANGED <<mpType, mpClient, mpOut>>

PacketTokens ==
    LET Token1 == {<<b>> : b \in 1 .. 2} \cup {<<o, l>> : o \in 1 .. 3, l \in 2 .. 3}
    IN  {<<t>> : t \in Token1} \cup {<<t, u>> : t \in Token1, u \in Token1}

MpNext ==
    \/ \E flags \in SUBSET {"front", "flushed"}, tokens \in PacketTokens : Packet(flags, tokens)
    \/ PlainPacket

MpSpec == MpInit /\ [][MpNext]_mpVars

----------------------------------------------------------------------------
(* Type invariant of the decompressor.                                     *)
MpTypeOK ==
    /\ mpClient.ptr \in 0 .. Buffer /\ mpServer.ptr \in 0 .. History[mpType]
    /\ DOMAIN mpClient.buf = 0 .. (Buffer - 1)

(* What the client takes out of its history is the text the server         *)
(* compressed, whatever packets were compressed, flushed or sent plain     *)
(* before.  Two cases are not met: a packet that is flushed without being  *)
(* at the front has its length counted from the old pointer, and a copy    *)
(* that reaches back over the front of the 8K history looks for its end at *)
(* the end of the client's 64K buffer.                                     *)
OutputIsSent ==
    mpOut.got = mpOut.meant
      \/ mpServer.flushedAlone
      \/ (mpServer.wrapped /\ History[mpType] < Buffer)

(* Client and server write the next byte at the same place, so the next    *)
(* copy offset means the same to both; a plain packet moves only the       *)
(* server, which then says so with the next compressed packet.             *)
PointersAgree == mpServer.front \/ mpClient.ptr = mpServer.ptr
=============================================================================
